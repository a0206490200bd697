----------------------------- MODULE Handshake -----------------------------
(***************************************************************************)
(* How a connection comes up and is kept up: the connector of the client   *)
(* (src/src/v5/client/connector.rs, src/src/v3/client/connector.rs), the   *)
(* server that detects the protocol version (src/src/server.rs), the       *)
(* handshake of that version (server.rs and handshake.rs under src/src/v5  *)
(* and src/src/v3), the limits both sides take from CONNECT and CONNACK,   *)
(* the client's keep-alive task and the server's keep-alive timer.         *)
(*                                                                         *)
(* The network keeps order and may stall, the end of a stream included;    *)
(* CONNECT arrives in two parts, of which the first is enough to detect    *)
(* the version.  The seconds that matter are counted: on the client's side *)
(* from CONNACK on, on the server's from the start of its dispatcher.  A   *)
(* ping of a connected client arrives within the second.                   *)
(***************************************************************************)
EXTENDS Integers, Sequences

CONSTANTS
    ClientOptions,      \* the settings of a connector
    ServerOptions,      \* the settings of a server
    Timeouts,           \* values for HandshakeAck::keep_alive and idle_timeout
    Changes,            \* what the handler may write into CONNACK, HandshakeAck::with
    MaxSends,           \* values for HandshakeAck::max_send of v3
    DEFAULT_KEEPALIVE,  \* the timeout for a client without keep-alive
    DEFAULT_RECEIVE,    \* the Receive Maximum assumed for a client that sends none
    U16_MAX,            \* the largest keep-alive and Receive Maximum
    ConnectSize,        \* the content of a CONNECT
    AckSize             \* the content of a CONNACK

\* The setters of the two connectors; 0 is None or "no limit".
ConnectorV5(keep_alive, receive_max, max_packet_size) ==
    [version : {"v5"}, keep_alive : keep_alive, receive_max : receive_max,
     max_packet_size : max_packet_size, handshake_timeout : BOOLEAN]
ConnectorV3(keep_alive, max_send, max_size) ==
    [version : {"v3"}, keep_alive : keep_alive, max_send : max_send, max_packet_size : max_size,
     handshake_timeout : BOOLEAN]

\* The setters of the servers: the limits of v5, the credit of v3, and the two timeouts.
\* `supported` are the versions whose handler was given to MqttServer.
ServerV5(max_size, max_receive) == [max_size : max_size, max_receive : max_receive]
ServerV3(max_size, max_send) == [max_size : max_size, max_send : max_send]
Server(supported, v5, v3) ==
    [supported : supported, v5 : v5, v3 : v3, detect_timeout : BOOLEAN, connect_timeout : BOOLEAN]

ASSUME HandshakeAssumption ==
    /\ U16_MAX \in Nat \ {0} /\ ConnectSize \in Nat \ {0} /\ AckSize \in Nat \ {0}
    /\ DEFAULT_KEEPALIVE \in 1..U16_MAX /\ DEFAULT_RECEIVE \in 1..U16_MAX
    /\ Changes \subseteq [receive_max : 1..U16_MAX, max_packet_size : Nat, server_keepalive_sec : 0..U16_MAX]
    /\ MaxSends \subseteq 0..U16_MAX
    /\ Timeouts \subseteq 0..U16_MAX
    /\ ClientOptions \subseteq ConnectorV5(0..U16_MAX, 0..U16_MAX, Nat) \cup ConnectorV3(0..U16_MAX, 0..U16_MAX, Nat)
    /\ ServerOptions \subseteq Server(SUBSET {"v3", "v5"}, ServerV5(Nat, 0..U16_MAX), ServerV3(Nat, 0..U16_MAX))

VARIABLES
    opts,     \* the client's settings
    conf,     \* the server's settings
    c,        \* the client
    s,        \* the server
    arrived,  \* how much of CONNECT the server has: none, head, all
    s2c,      \* what the server wrote and the client has not read
    slept,    \* seconds the keep-alive task has slept
    idle      \* seconds since the server received anything

vars == <<opts, conf, c, s, arrived, s2c, slept, idle>>

\* MqttShared::new: nothing may be sent yet.  `late` records for how long the server's
\* dispatcher had been waiting when the client was connected.
NewClient == [pc |-> "start", err |-> "none", cap |-> 0, max_in |-> 0, max_out |-> 0, max_receive |-> 0,
              keepalive |-> 0, late |-> 0]
NewServer == [pc |-> "detect", err |-> "none", proto |-> "none", cap |-> 0, max_in |-> 0, max_out |-> 0,
              receive_max |-> 0, keepalive |-> 0, early |-> "no", sent |-> <<>>, chosen |-> FALSE]

Init ==
    /\ opts \in ClientOptions
    /\ conf \in ServerOptions
    /\ c = NewClient /\ s = NewServer
    /\ arrived = "none" /\ s2c = <<>>
    /\ slept = 0 /\ idle = 0

----------------------------------------------------------------------------
\* The client's connector.
Keep == <<opts, conf, slept, idle>>

set_max_outbound_size(size) == IF size > 5 THEN size - 5 ELSE size

\* _connect up to recv: the inbound limit is set and CONNECT is written.
ConnectV5 ==
    /\ c.pc = "start" /\ opts.version = "v5"
    /\ c' = [c EXCEPT !.pc = "sent", !.max_in = opts.max_packet_size,
                      !.max_receive = IF opts.receive_max = 0 THEN U16_MAX ELSE opts.receive_max]
    /\ UNCHANGED <<Keep, s, arrived, s2c>>

ConnectV3 ==
    /\ c.pc = "start" /\ opts.version = "v3"
    /\ c' = [c EXCEPT !.pc = "sent", !.max_in = opts.max_packet_size]
    /\ UNCHANGED <<Keep, s, arrived, s2c>>

ClientFails(err) == c' = [c EXCEPT !.pc = "closed", !.err = err]

\* The first packet of the server is no CONNACK, or a refusal.
Unwelcome(pkt) == \/ pkt.type # "ConnectAck" /\ ClientFails("protocol")
                  \/ pkt.type = "ConnectAck" /\ ~pkt.success /\ ClientFails("ack")
Welcome(pkt) == pkt.type = "ConnectAck" /\ pkt.success

\* v5 takes its limits and its keep-alive from CONNACK, v3 from its settings.
ReceiveAckV5 ==
    /\ c.pc = "sent" /\ opts.version = "v5" /\ s2c # <<>>
    /\ LET pkt == Head(s2c)
       IN  \/ Unwelcome(pkt)
           \/ /\ Welcome(pkt)
              /\ c' = [c EXCEPT !.pc = "up", !.late = idle, !.cap = pkt.receive_max,
                                !.max_out = set_max_outbound_size(pkt.max_packet_size),
                                !.keepalive = IF pkt.server_keepalive_sec # 0 THEN pkt.server_keepalive_sec
                                              ELSE opts.keep_alive]
    /\ s2c' = Tail(s2c)
    /\ UNCHANGED <<Keep, s, arrived>>

ReceiveAckV3 ==
    /\ c.pc = "sent" /\ opts.version = "v3" /\ s2c # <<>>
    /\ \/ Unwelcome(Head(s2c))
       \/ /\ Welcome(Head(s2c))
          /\ c' = [c EXCEPT !.pc = "up", !.late = idle, !.keepalive = opts.keep_alive, !.cap = opts.max_send]
    /\ s2c' = Tail(s2c)
    /\ UNCHANGED <<Keep, s, arrived>>

\* timeout_checked of connect: the connection is dropped.
HandshakeTimeout ==
    /\ c.pc = "sent" /\ opts.handshake_timeout
    /\ ClientFails("timeout")
    /\ UNCHANGED <<Keep, s, arrived, s2c>>

\* recv finds the end of the stream, after all that was written to it.
ClientEof ==
    /\ c.pc = "sent" /\ s.pc = "closed" /\ s2c = <<>>
    /\ ClientFails("disconnected")
    /\ UNCHANGED <<Keep, s, arrived, s2c>>

\* The application drops the connection, or the client's host goes away.
ClientGone ==
    /\ c.pc \in {"sent", "up"}
    /\ ClientFails("gone")
    /\ UNCHANGED <<Keep, s, arrived, s2c>>

----------------------------------------------------------------------------
\* The server.
Arrive ==
    /\ c.pc # "start"
    /\ \/ arrived = "none" /\ arrived' \in {"head", "all"}
       \/ arrived = "head" /\ arrived' = "all"
    /\ UNCHANGED <<Keep, c, s, s2c>>

ServerFails(err) == s' = [s EXCEPT !.pc = "closed", !.err = err]

\* MqttServerImpl::call: the handler of the version is called; the one that stands for
\* a missing handler only fails.
Detect ==
    /\ s.pc = "detect" /\ arrived # "none"
    /\ IF opts.version \in conf.supported
       THEN s' = [s EXCEPT !.pc = "connect", !.proto = opts.version]
       ELSE ServerFails("disconnected")
    /\ UNCHANGED <<Keep, c, arrived, s2c>>

DetectTimeout ==
    /\ s.pc = "detect" /\ conf.detect_timeout
    /\ ServerFails("timeout")
    /\ UNCHANGED <<Keep, c, arrived, s2c>>

\* The first packet: over the inbound limit it is an error, else the handler is called.
TooLarge(max_size) == max_size # 0 /\ ConnectSize > max_size

ReceiveConnectV5 ==
    /\ s.pc = "connect" /\ s.proto = "v5" /\ arrived = "all"
    /\ IF TooLarge(conf.v5.max_size) THEN ServerFails("protocol")
       ELSE s' = [s EXCEPT !.pc = "service", !.max_in = conf.v5.max_size, !.receive_max = conf.v5.max_receive,
                           !.max_out = set_max_outbound_size(opts.max_packet_size)]
    /\ UNCHANGED <<Keep, c, arrived, s2c>>

ReceiveConnectV3 ==
    /\ s.pc = "connect" /\ s.proto = "v3" /\ arrived = "all"
    /\ IF TooLarge(conf.v3.max_size) THEN ServerFails("protocol")
       ELSE s' = [s EXCEPT !.pc = "service", !.max_in = conf.v3.max_size]
    /\ UNCHANGED <<Keep, c, arrived, s2c>>

\* The first packet is waited for without its timer.
ConnectTimeout_none == FALSE /\ UNCHANGED vars

\* The timer of the first packet is one of its own.
ConnectTimeout ==
    /\ s.pc = "connect" /\ conf.connect_timeout
    /\ ServerFails("timeout")
    /\ UNCHANGED <<Keep, c, arrived, s2c>>

\* MqttShared::is_ready of a server that takes a sink without a limit for ready.
is_ready_unset == TRUE

\* MqttShared::is_ready: there is credit for a publish.
is_ready == s.cap > 0

Publish(qos) == [type |-> "Publish", qos |-> qos]

\* A task of the handler publishes through Handshake::sink.  QoS 1 waits until the sink
\* is ready; QoS 0 is written at once.
EarlySend ==
    /\ s.pc = "service" /\ s.early = "no"
    /\ \/ /\ s' = [s EXCEPT !.early = IF is_ready THEN "woken" ELSE "waiting"]
          /\ UNCHANGED s2c
       \/ /\ s' = [s EXCEPT !.early = "done", !.sent = Append(@, Publish(0))]
          /\ s2c' = Append(s2c, Publish(0))
    /\ UNCHANGED <<Keep, c, arrived>>

\* HandshakeAck::keep_alive or idle_timeout is not called.
NotCalled == -1

\* Handshake::ack giving the client just its keep-alive.
ack_keepalive_exact == IF opts.keep_alive = 0 THEN DEFAULT_KEEPALIVE ELSE opts.keep_alive

\* Handshake::ack taking no keep-alive for no timeout.
ack_keepalive_off ==
    LET ka == opts.keep_alive + (opts.keep_alive \div 2) IN IF ka > U16_MAX THEN U16_MAX ELSE ka

\* Handshake::ack: one and a half times the client's keep-alive, in 16 bits.
ack_keepalive ==
    LET ka == opts.keep_alive + (opts.keep_alive \div 2)
    IN  IF opts.keep_alive = 0 THEN DEFAULT_KEEPALIVE ELSE IF ka > U16_MAX THEN U16_MAX ELSE ka

\* What the CONNACK that Handshake::ack builds says; the other settings in it (QoS,
\* aliases, retain, subscription ids) are copied to the server in the same way.
ack_limits == [receive_max |-> IF s.receive_max = 0 THEN U16_MAX ELSE s.receive_max,
               max_packet_size |-> s.max_in, server_keepalive_sec |-> 0]

\* The call that sends CONNACK, leaving its own limits as they were.
acknowledged_unchanged(lim) == [s EXCEPT !.early = IF @ = "waiting" THEN "woken" ELSE @,
                                         !.cap = IF opts.receive_max = 0 THEN DEFAULT_RECEIVE
                                                 ELSE opts.receive_max]

\* The server takes the limits of its CONNACK; set_cap wakes the task, which runs
\* after this call is suspended.
acknowledged(lim) == [s EXCEPT !.receive_max = lim.receive_max, !.max_in = lim.max_packet_size,
                               !.early = IF @ = "waiting" THEN "woken" ELSE @,
                               !.cap = IF opts.receive_max = 0 THEN DEFAULT_RECEIVE ELSE opts.receive_max]

\* encode fails for a CONNACK over the client's Maximum Packet Size.
AckFits == s.max_out = 0 \/ AckSize <= s.max_out

\* The handler's keep-alive goes into CONNACK if it is shorter than the client's, unless
\* the handler has written one of its own.
announced(lim, ka) ==
    IF lim.server_keepalive_sec # 0 THEN lim.server_keepalive_sec
    ELSE IF opts.keep_alive > ka THEN ka ELSE 0

ServiceAckV5 ==
    /\ s.pc = "service" /\ s.proto = "v5"
    /\ \E lim \in Changes \cup {ack_limits}, t \in (Timeouts \ {0}) \cup {NotCalled} :
          LET ka == IF t = NotCalled THEN ack_keepalive ELSE t
              pkt == [type |-> "ConnectAck", success |-> TRUE, receive_max |-> lim.receive_max,
                      max_packet_size |-> lim.max_packet_size,
                      server_keepalive_sec |-> announced(lim, ka)]
              chosen == t # NotCalled \/ lim.server_keepalive_sec # 0
          IN  IF AckFits
              THEN /\ s' = [acknowledged(lim) EXCEPT !.pc = "create", !.sent = Append(@, pkt),
                                                     !.keepalive = ka, !.chosen = chosen]
                   /\ s2c' = Append(s2c, pkt)
              ELSE /\ s' = [acknowledged(lim) EXCEPT !.pc = "closed", !.err = "encode"]
                   /\ UNCHANGED s2c
    /\ UNCHANGED <<Keep, c, arrived>>

\* v3 negotiates nothing: the handler chooses the limit and the timeout, 0 for no timeout.
ServiceAckV3 ==
    /\ s.pc = "service" /\ s.proto = "v3"
    /\ \E t \in Timeouts \cup {NotCalled}, max_send \in MaxSends \cup {conf.v3.max_send} :
          LET pkt == [type |-> "ConnectAck", success |-> TRUE]
          IN  /\ s' = [s EXCEPT !.pc = "create", !.cap = max_send, !.sent = Append(@, pkt),
                                !.early = IF @ = "waiting" /\ max_send > 0 THEN "woken" ELSE @,
                                !.keepalive = IF t = NotCalled THEN ack_keepalive ELSE t,
                                !.chosen = t # NotCalled]
              /\ s2c' = Append(s2c, pkt)
    /\ UNCHANGED <<Keep, c, arrived>>

\* A refusal that is dropped with the connection.
Refusal_dropped(pkt) ==
    /\ s2c' = s2c
    /\ s' = [s EXCEPT !.pc = "closed", !.err = "disconnected", !.sent = Append(@, pkt)]

\* The refusal is written, and io.shutdown flushes it before the connection is closed.
Refusal(pkt) ==
    /\ s2c' = Append(s2c, pkt)
    /\ s' = [s EXCEPT !.pc = "closed", !.err = "disconnected", !.sent = Append(@, pkt)]

\* The handler refuses the client, or fails.
ServiceRefusesV5 ==
    /\ s.pc = "service" /\ s.proto = "v5"
    /\ \/ AckFits /\ Refusal([type |-> "ConnectAck", success |-> FALSE])
       \/ ~AckFits /\ ServerFails("encode") /\ UNCHANGED s2c
    /\ UNCHANGED <<Keep, c, arrived>>

ServiceRefusesV3 ==
    /\ s.pc = "service" /\ s.proto = "v3"
    /\ Refusal([type |-> "ConnectAck", success |-> FALSE])
    /\ UNCHANGED <<Keep, c, arrived>>

ServiceError ==
    /\ s.pc = "service"
    /\ ServerFails("service")
    /\ UNCHANGED <<Keep, c, arrived, s2c>>

\* The woken task publishes, if the connection is open.
SendEarly ==
    LET out == IF s.pc = "closed" THEN <<>> ELSE <<Publish(1)>>
    IN  /\ s.early = "woken"
        /\ s' = [s EXCEPT !.early = "done", !.sent = @ \o out]
        /\ s2c' = s2c \o out
        /\ UNCHANGED <<Keep, c, arrived>>

\* MqttHandler::call: with CONNACK written, the services of the connection are created,
\* which may fail, and the dispatcher starts.
CreateHandler ==
    /\ s.pc = "create"
    /\ s' = [s EXCEPT !.pc = "up"] \/ ServerFails("service")
    /\ UNCHANGED <<Keep, c, arrived, s2c>>

\* recv finds the end of the stream before what it waits for.
ServerEof ==
    /\ c.pc = "closed"
    /\ \/ s.pc = "detect" /\ arrived = "none"
       \/ s.pc = "connect" /\ arrived # "all"
    /\ ServerFails("disconnected")
    /\ UNCHANGED <<Keep, c, arrived, s2c>>

\* The dispatcher of a connected side finds the end of the stream.
PeerGone ==
    /\ \/ s.pc = "up" /\ c.pc = "closed" /\ ServerFails("disconnected") /\ UNCHANGED c
       \/ c.pc = "up" /\ s.pc = "closed" /\ s2c = <<>> /\ ClientFails("disconnected") /\ UNCHANGED s
    /\ UNCHANGED <<Keep, arrived, s2c>>

\* The client's dispatcher takes what the server sends.
ClientReads ==
    /\ c.pc = "up" /\ s2c # <<>>
    /\ s2c' = Tail(s2c)
    /\ UNCHANGED <<Keep, c, s, arrived>>

----------------------------------------------------------------------------
\* Keep-alive.
Pings == c.pc = "up" /\ c.keepalive > 0
Watches == s.pc = "up" /\ s.keepalive > 0
PingDue == Pings /\ slept >= c.keepalive
TimerDue == Watches /\ idle >= s.keepalive

Tick ==
    /\ Pings \/ Watches
    /\ ~PingDue /\ ~TimerDue
    /\ slept' = IF Pings THEN slept + 1 ELSE slept
    /\ idle' = IF Watches THEN idle + 1 ELSE idle
    /\ UNCHANGED <<opts, conf, c, s, arrived, s2c>>

\* The keep-alive task wakes and pings, as long as the sink is open.
keepalive ==
    /\ PingDue
    /\ slept' = 0 /\ idle' = 0
    /\ UNCHANGED <<opts, conf, c, s, arrived, s2c>>

\* The dispatcher's timer: DispatchItem::KeepAliveTimeout, and the connection is closed.
KeepAliveTimeout ==
    /\ TimerDue
    /\ ServerFails("keepalive")
    /\ UNCHANGED <<Keep, c, arrived, s2c>>

Handler ==
    \/ ServiceAckV5 \/ ServiceAckV3 \/ ServiceRefusesV5 \/ ServiceRefusesV3
    \/ ServiceError \/ CreateHandler
ServerTask == Detect \/ ReceiveConnectV5 \/ ReceiveConnectV3 \/ SendEarly
ClientTask == ConnectV5 \/ ConnectV3
Timers == HandshakeTimeout \/ DetectTimeout \/ ConnectTimeout
KeepAlives == Tick \/ keepalive \/ KeepAliveTimeout
Network == Arrive \/ ReceiveAckV5 \/ ReceiveAckV3 \/ ClientReads \/ ClientEof \/ ServerEof \/ PeerGone

Next == Handler \/ ServerTask \/ ClientTask \/ Timers \/ KeepAlives \/ Network \/ EarlySend \/ ClientGone

\* Tasks with something to do run, timers fire and the application's services return;
\* nothing is assumed of the network.
Fairness == /\ WF_vars(Handler) /\ WF_vars(ServerTask) /\ WF_vars(ClientTask)
            /\ WF_vars(Timers) /\ WF_vars(KeepAlives)

Spec == Init /\ [][Next]_vars /\ Fairness

----------------------------------------------------------------------------
\* Neither side of a v5 connection may send more, or larger, than the other
\* enforces: publishes in flight against the Receive Maximum, and the content of a
\* packet against the inbound limit.
LimitsAgree ==
    c.pc = "up" /\ s.pc = "up" /\ s.proto = "v5" =>
        /\ s.cap \in 1..c.max_receive
        /\ c.cap \in 1..s.receive_max
        /\ c.max_in # 0 => s.max_out \in 1..c.max_in
        /\ s.max_in # 0 => c.max_out \in 1..s.max_in

\* No publish that takes a slot of the client's Receive Maximum is written before
\* CONNACK, whatever the handler sends with QoS 1 through the sink of the handshake:
\* set_cap and the write of CONNACK are one step for the tasks that wait.  (A QoS 0
\* publish takes no slot and may be written before.)
AckBeforeCredit ==
    \A i \in DOMAIN s.sent : s.sent[i] = Publish(1) =>
        \E j \in 1..(i - 1) : s.sent[j].type = "ConnectAck"

\* The margin that Handshake::ack leaves a client over its keep-alive.
Margin(ka) == IF ka \div 2 < U16_MAX - ka THEN ka \div 2 ELSE U16_MAX - ka

\* The server drops a client for silence only if the client is gone, or never pings, or was
\* connected later than the server's dispatcher by the margin of its keep-alive or
\* more (at once, for a keep-alive of one second or the largest one, which have none),
\* or if the handler chose the timeout: that of v3, which cannot announce it, or one
\* that the client's ping does not come before.
KeptAlive ==
    s.err = "keepalive" =>
        \/ c.err = "gone" \/ c.keepalive = 0
        \/ ~s.chosen /\ c.late >= Margin(c.keepalive)
        \/ s.chosen /\ (s.proto = "v3" \/ c.keepalive + c.late >= s.keepalive)

\* A client does not report a lost connection in place of a refusal, which its server
\* wrote before the shutdown.  (It may report a protocol error: a QoS 0 publish of
\* the handler can be written before the refusal.)
RefusalReported ==
    c.err = "disconnected" =>
        \A i \in DOMAIN s.sent : s.sent[i].type = "ConnectAck" => s.sent[i].success

\* A side whose timeouts are set ends the handshake, even if the network stalls and the
\* other side waits for ever: the client with handshake_timeout, the server with the
\* timeouts of version detection and of the first packet, when the application's
\* services return.
HandshakeEnds ==
    /\ opts.handshake_timeout => <>(c.pc \in {"up", "closed"})
    /\ conf.detect_timeout /\ conf.connect_timeout => <>(s.pc \in {"up", "closed"})

\* A server with both timeouts of the handshake does not stay connected to a client that
\* is gone, at whatever point it went and though the end of its stream may never arrive:
\* a timeout ends the connection, unless the handler switched the keep-alive off.
GoneClientDropped ==
    conf.detect_timeout /\ conf.connect_timeout =>
        (c.pc = "closed" ~> s.pc = "closed" \/ (s.pc = "up" /\ s.chosen /\ s.keepalive = 0))
=============================================================================
