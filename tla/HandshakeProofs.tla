-------------------------- MODULE HandshakeProofs --------------------------
(***************************************************************************)
(* Proofs about the handshake, for every setting of client and server:     *)
(* both sides work with the limits they were told, credit is used only     *)
(* after CONNACK, a refusal is not reported as a lost connection, and a    *)
(* client that pings in time is not dropped for silence.                   *)
(***************************************************************************)
EXTENDS Handshake, TLAPS

\* Appending is joining with a sequence of one element.
LEMMA AppendIsJoin ==
    ASSUME NEW S, NEW q \in Seq(S), NEW e \in S
    PROVE  q \o <<e>> = Append(q, e)
OBVIOUS

ClientState ==
    [pc : {"start", "sent", "up", "closed"},
     err : {"none", "protocol", "ack", "timeout", "disconnected", "gone"},
     cap : Nat, max_in : Nat, max_out : Nat, max_receive : Nat, keepalive : Nat,
     late : Nat]

\* What the server writes.
Written ==
    {Publish(0), Publish(1)}
    \cup [type : {"ConnectAck"}, success : BOOLEAN]
    \cup [type : {"ConnectAck"}, success : {TRUE}, receive_max : Nat, max_packet_size : Nat,
          server_keepalive_sec : Nat]

ServerState ==
    [pc : {"detect", "connect", "service", "create", "up", "closed"},
     err : {"none", "disconnected", "timeout", "protocol", "encode", "service", "keepalive"},
     proto : {"none", "v3", "v5"},
     cap : Nat, max_in : Nat, max_out : Nat, receive_max : Nat, keepalive : Nat,
     early : {"no", "waiting", "woken", "done"}, sent : Seq(Written), chosen : BOOLEAN]

HandshakeTypeOK ==
    /\ opts \in ClientOptions /\ conf \in ServerOptions
    /\ c \in ClientState /\ s \in ServerState
    /\ s2c \in Seq(Written)
    /\ slept \in Nat /\ idle \in Nat

\* The places of the answers among the packets written.
Acks(sent) == {i \in DOMAIN sent : sent[i].type = "ConnectAck"}

\* The server has sent nothing that answers CONNECT.
Open == s.pc \in {"detect", "connect", "service"}

\* What each side knows before the answer, and what it did with it.
Phases ==
    /\ s.proto \in {"none", opts.version}
    /\ s.pc \in {"connect", "service", "create", "up"} => s.proto = opts.version
    /\ Open => s.cap = 0 /\ Acks(s.sent) = {} /\ s.early # "woken"
    /\ s.pc \in {"create", "up"} => \E i \in Acks(s.sent) : s.sent[i].success
    /\ c.pc = "up" => \E i \in Acks(s.sent) : s.sent[i].success
    /\ c.pc # "closed" => c.err = "none"

\* The limits of a v5 connection.
Limits ==
    opts.version = "v5" =>
        /\ c.pc # "start" =>
             /\ c.max_in = opts.max_packet_size
             /\ c.max_receive = IF opts.receive_max = 0 THEN U16_MAX ELSE opts.receive_max
        /\ s.pc \in {"service", "create", "up"} => s.max_out = set_max_outbound_size(opts.max_packet_size)
        /\ s.pc = "service" => s.receive_max \in 0..U16_MAX
        /\ s.pc \in {"create", "up"} =>
             /\ s.cap = IF opts.receive_max = 0 THEN DEFAULT_RECEIVE ELSE opts.receive_max
             /\ s.receive_max > 0
        /\ c.pc = "up" => c.cap = s.receive_max /\ c.max_out = set_max_outbound_size(s.max_in)

\* The keep-alive of a client that was told that of its server.
Negotiated(told) == IF told # 0 THEN told ELSE opts.keep_alive

\* A CONNACK tells what the server works with, and no keep-alive unless the handler chose.
Tells(pkt) ==
    /\ s.proto = opts.version /\ s.pc \in {"create", "up", "closed"}
    /\ s.proto = "v5" =>
         /\ pkt.receive_max = s.receive_max /\ pkt.max_packet_size = s.max_in
         /\ pkt.server_keepalive_sec \in Nat
         /\ ~s.chosen => pkt.server_keepalive_sec = 0

\* There is one answer, the client reads it first or not at all.
Answer ==
    /\ \A i, j \in Acks(s.sent) : i = j
    /\ \A i \in Acks(s.sent) : s.sent[i].success => Tells(s.sent[i])
    /\ c.pc \in {"start", "sent"} => s2c = s.sent
    /\ c.err = "disconnected" =>
         s.pc = "closed" /\ \A i \in Acks(s.sent) : s.sent[i].success

\* The server's clock is ahead of the client's by at most what it was when the client was
\* connected.
Clocks ==
    /\ c.pc \in {"start", "sent"} => c.keepalive = 0 /\ slept = 0
    /\ Open \/ s.pc = "create" => idle = 0
    /\ Open => s.keepalive = 0
    /\ c.keepalive > 0 => ~Open /\ (~s.chosen => c.keepalive = opts.keep_alive)
    /\ c.keepalive > 0 /\ c.pc = "up" => slept <= c.keepalive /\ idle <= slept + c.late
    /\ c.keepalive > 0 /\ c.pc = "closed" => c.err = "gone" \/ s.pc = "closed"
    /\ ~Open /\ ~s.chosen /\ s.keepalive > 0 => s.keepalive = ack_keepalive
    /\ s.err = "keepalive" =>
         /\ s.pc = "closed" /\ s.keepalive > 0
         /\ c.pc \in {"start", "sent"} => idle >= s.keepalive

\* The inductive invariant.
HandshakeInv ==
    HandshakeTypeOK /\ Phases /\ Limits /\ Answer /\ Clocks /\ AckBeforeCredit /\ KeptAlive

-----------------------------------------------------------------------------
(* Settings and packets. *)

\* The fields of the settings.
LEMMA OptionFields ==
    ASSUME HandshakeTypeOK
    PROVE  /\ opts.version \in {"v3", "v5"} /\ opts.keep_alive \in 0..U16_MAX /\ opts.max_packet_size \in Nat
           /\ opts.version = "v5" => opts.receive_max \in 0..U16_MAX
           /\ opts.version = "v3" => opts.max_send \in 0..U16_MAX
           /\ conf.v5.max_size \in Nat /\ conf.v5.max_receive \in 0..U16_MAX
           /\ conf.v3.max_size \in Nat /\ conf.v3.max_send \in 0..U16_MAX
<1>1. \/ opts \in ConnectorV5(0..U16_MAX, 0..U16_MAX, Nat)
      \/ opts \in ConnectorV3(0..U16_MAX, 0..U16_MAX, Nat)
  BY HandshakeAssumption DEF HandshakeTypeOK
<1>2. conf \in Server(SUBSET {"v3", "v5"}, ServerV5(Nat, 0..U16_MAX), ServerV3(Nat, 0..U16_MAX))
  BY HandshakeAssumption DEF HandshakeTypeOK
<1>3. conf.v5 \in ServerV5(Nat, 0..U16_MAX) /\ conf.v3 \in ServerV3(Nat, 0..U16_MAX)
  BY <1>2 DEF Server
<1>4. /\ conf.v5.max_size \in Nat /\ conf.v5.max_receive \in 0..U16_MAX
      /\ conf.v3.max_size \in Nat /\ conf.v3.max_send \in 0..U16_MAX
  BY <1>3 DEF ServerV5, ServerV3
<1>5. CASE opts \in ConnectorV5(0..U16_MAX, 0..U16_MAX, Nat)
  BY <1>4, <1>5 DEF ConnectorV5
<1>6. CASE opts \in ConnectorV3(0..U16_MAX, 0..U16_MAX, Nat)
  BY <1>4, <1>6 DEF ConnectorV3
<1> QED BY <1>1, <1>5, <1>6

\* The limit on what may be sent is a number, below the limit it stands for.
LEMMA OutboundSize ==
    ASSUME NEW size \in Nat
    PROVE  set_max_outbound_size(size) \in Nat /\ (size # 0 => set_max_outbound_size(size) \in 1..size)
BY DEF set_max_outbound_size

\* Handshake::ack gives a client its keep-alive and the margin.
LEMMA AckKeepalive ==
    ASSUME HandshakeTypeOK
    PROVE  /\ ack_keepalive \in 1..U16_MAX
           /\ Margin(opts.keep_alive) \in Nat
           /\ opts.keep_alive > 0 => ack_keepalive = opts.keep_alive + Margin(opts.keep_alive)
<1>1. opts.keep_alive \in 0..U16_MAX
  BY OptionFields
<1>2. PICK k : k = opts.keep_alive
  OBVIOUS
<1>3. k \in 0..U16_MAX /\ U16_MAX \in Nat \ {0} /\ DEFAULT_KEEPALIVE \in 1..U16_MAX
  BY <1>1, <1>2, HandshakeAssumption
<1>4. k \div 2 \in Nat
  BY <1>3
<1>5. PICK h \in Nat : h = k \div 2
  BY <1>4
<1>6. /\ ack_keepalive = IF k = 0 THEN DEFAULT_KEEPALIVE ELSE IF k + h > U16_MAX THEN U16_MAX ELSE k + h
      /\ Margin(k) = IF h < U16_MAX - k THEN h ELSE U16_MAX - k
  BY <1>2, <1>5 DEF ack_keepalive, Margin
<1>7. PICK a, m : a = ack_keepalive /\ m = Margin(k)
  OBVIOUS
<1>8. /\ a = IF k = 0 THEN DEFAULT_KEEPALIVE ELSE IF k + h > U16_MAX THEN U16_MAX ELSE k + h
      /\ m = IF h < U16_MAX - k THEN h ELSE U16_MAX - k
  BY <1>6, <1>7
<1>9. a \in 1..U16_MAX /\ m \in Nat /\ (k > 0 => a = k + m)
  BY <1>3, <1>8
<1> QED BY <1>2, <1>7, <1>9

\* A packet follows those already sent.
Follows(sent, pkt, more) ==
    /\ more \in Seq(Written) /\ Len(sent) \in Nat
    /\ DOMAIN sent = 1..Len(sent) /\ DOMAIN more = 1..(Len(sent) + 1)
    /\ more[Len(sent) + 1] = pkt
    /\ \A i \in DOMAIN sent : more[i] = sent[i]
    /\ pkt.type = "ConnectAck" => Acks(more) = Acks(sent) \cup {Len(sent) + 1}
    /\ pkt.type # "ConnectAck" => Acks(more) = Acks(sent)

\* It does when it is appended.
LEMMA Sends ==
    ASSUME NEW sent \in Seq(Written), NEW pkt \in Written
    PROVE  Follows(sent, pkt, Append(sent, pkt))
<1> DEFINE more == Append(sent, pkt)
<1>1. /\ more \in Seq(Written) /\ Len(sent) \in Nat /\ Len(more) = Len(sent) + 1
      /\ DOMAIN sent = 1..Len(sent) /\ DOMAIN more = 1..(Len(sent) + 1)
      /\ more[Len(sent) + 1] = pkt
      /\ \A i \in DOMAIN sent : more[i] = sent[i]
  OBVIOUS
<1>2. \A i \in DOMAIN more : i \in DOMAIN sent \/ i = Len(sent) + 1
  BY <1>1
<1>3. Len(sent) + 1 \in DOMAIN more /\ DOMAIN sent \subseteq DOMAIN more
  BY <1>1
<1> HIDE DEF more
<1>5. pkt.type = "ConnectAck" => Acks(more) = Acks(sent) \cup {Len(sent) + 1}
  BY <1>1, <1>2, <1>3 DEF Acks
<1>6. pkt.type # "ConnectAck" => Acks(more) = Acks(sent)
  BY <1>1, <1>2, <1>3 DEF Acks
<1>7. Follows(sent, pkt, more)
  BY <1>1, <1>5, <1>6 DEF Follows
<1> QED BY <1>7 DEF more

\* What each packet is.
LEMMA Packets ==
    /\ Publish(0) \in Written /\ Publish(1) \in Written /\ Publish(0) # Publish(1)
    /\ \A q \in {0, 1} : Publish(q).type # "ConnectAck"
    /\ \A pkt : pkt.type = "ConnectAck" => pkt # Publish(1)
    /\ \A b \in BOOLEAN : [type |-> "ConnectAck", success |-> b] \in Written
<1>1. Publish(0) \in Written /\ Publish(1) \in Written
  BY DEF Written
<1>2. Publish(0).qos = 0 /\ Publish(1).qos = 1 /\ Publish(0).type = "Publish" /\ Publish(1).type = "Publish"
  BY DEF Publish
<1>3. Publish(0) # Publish(1)
  BY <1>2
<1>4. \A b \in BOOLEAN : [type |-> "ConnectAck", success |-> b] \in Written
  BY Zenon DEF Written
<1> QED BY <1>1, <1>2, <1>3, <1>4

\* The client reads the answer as the first packet of all that were sent.
LEMMA WelcomeTells ==
    ASSUME HandshakeInv, c.pc = "sent", s2c # <<>>, Welcome(Head(s2c))
    PROVE  Tells(Head(s2c)) /\ \E i \in Acks(s.sent) : s.sent[i].success
<1>1. s2c = s.sent /\ s2c \in Seq(Written)
  BY DEF HandshakeInv, HandshakeTypeOK, Answer
<1>2. 1 \in DOMAIN s.sent /\ Head(s2c) = s.sent[1]
  BY <1>1
<1>3. 1 \in Acks(s.sent) /\ s.sent[1].success
  BY <1>2 DEF Acks, Welcome
<1> QED BY <1>2, <1>3 DEF HandshakeInv, Answer

-----------------------------------------------------------------------------
(* The steps of the server. *)

\* What KeptAlive allows.
MayDrop ==
    \/ c.err = "gone" \/ c.keepalive = 0
    \/ ~s.chosen /\ c.late >= Margin(c.keepalive)
    \/ s.chosen /\ (s.proto = "v3" \/ c.keepalive + c.late >= s.keepalive)

\* A client that pings too late for the timer was connected late, or the handler chose.
LEMMA LateOrChosen ==
    ASSUME HandshakeInv, ~Open, s.keepalive > 0, NEW ck \in Nat, NEW late \in Nat, ck > 0,
           ck + late >= s.keepalive, ~s.chosen => ck = opts.keep_alive
    PROVE  (~s.chosen /\ late >= Margin(ck)) \/ (s.chosen /\ ck + late >= s.keepalive)
<1>1. HandshakeTypeOK /\ Clocks
  BY DEF HandshakeInv
<1>2. CASE s.chosen
  BY <1>2
<1>3. CASE ~s.chosen
  <2>1. s.keepalive = ack_keepalive
    BY <1>1, <1>3 DEF Clocks
  <2>2. Margin(ck) \in Nat /\ ack_keepalive = ck + Margin(ck)
    BY <1>1, <1>3, AckKeepalive
  <2>3. PICK m \in Nat : m = Margin(ck)
    BY <2>2
  <2>4. ck + late >= ck + m
    BY <2>1, <2>2, <2>3
  <2>5. late >= m
    BY <2>4
  <2> QED BY <1>3, <2>3, <2>5
<1> QED BY <1>2, <1>3

\* The timer is due only for a client that is gone or does not ping in time.
LEMMA TimerDueMayDrop ==
    ASSUME HandshakeInv, TimerDue
    PROVE  MayDrop
<1>1. HandshakeTypeOK /\ Clocks
  BY DEF HandshakeInv
<1>2. s \in ServerState /\ c \in ClientState /\ idle \in Nat /\ slept \in Nat
  BY <1>1 DEF HandshakeTypeOK
<1>3. /\ s.keepalive \in Nat /\ c.keepalive \in Nat /\ c.late \in Nat
      /\ c.pc \in {"start", "sent", "up", "closed"}
  BY <1>2 DEF ServerState, ClientState
<1>4. s.pc = "up" /\ s.keepalive > 0 /\ idle >= s.keepalive
  BY DEF TimerDue, Watches
<1>5. SUFFICES ASSUME c.keepalive > 0, c.err # "gone"
               PROVE  MayDrop
  BY <1>3 DEF MayDrop
<1>6. c.pc = "up"
  BY <1>1, <1>3, <1>4, <1>5 DEF Clocks
<1>7. slept <= c.keepalive /\ idle <= slept + c.late /\ (~s.chosen => c.keepalive = opts.keep_alive)
  BY <1>1, <1>5, <1>6 DEF Clocks
<1>8. c.keepalive + c.late >= s.keepalive
  BY <1>2, <1>3, <1>4, <1>7
<1>9. ~Open
  BY <1>4 DEF Open
<1>10. \/ ~s.chosen /\ c.late >= Margin(c.keepalive)
       \/ s.chosen /\ c.keepalive + c.late >= s.keepalive
  BY <1>3, <1>4, <1>5, <1>7, <1>8, <1>9, LateOrChosen
<1> QED BY <1>10 DEF MayDrop

\* The server gives up. The timer of the dispatcher is not the reason unless it is due.
LEMMA ServerFailsStep ==
    ASSUME HandshakeInv, s.pc # "closed", UNCHANGED <<Keep, c, s2c>>,
           NEW e \in {"disconnected", "timeout", "protocol", "encode", "service", "keepalive"},
           ServerFails(e),
           e = "keepalive" => TimerDue
    PROVE  HandshakeInv'
<1>1. UNCHANGED <<opts, conf, slept, idle, c, s2c>>
  BY DEF Keep
<1>2. HandshakeTypeOK /\ Phases /\ Limits /\ Answer /\ Clocks /\ AckBeforeCredit /\ KeptAlive
  BY DEF HandshakeInv
<1>3. s \in ServerState
  BY <1>2 DEF HandshakeTypeOK
<1>4. /\ s' \in ServerState /\ s'.pc = "closed" /\ s'.err = e
      /\ s'.proto = s.proto /\ s'.cap = s.cap /\ s'.max_in = s.max_in /\ s'.max_out = s.max_out
      /\ s'.receive_max = s.receive_max /\ s'.keepalive = s.keepalive /\ s'.early = s.early
      /\ s'.sent = s.sent /\ s'.chosen = s.chosen
  BY <1>3, Zenon DEF ServerState, ServerFails
<1>5. HandshakeTypeOK'
  BY <1>1, <1>2, <1>4 DEF HandshakeTypeOK
<1>6. Phases'
  BY <1>1, <1>2, <1>4 DEF Phases, Open, Acks
<1>7. Limits'
  BY <1>1, <1>2, <1>4 DEF Limits
<1>8. Answer'
  <2>1. \A i \in Acks(s.sent) : s.sent[i].success => Tells(s.sent[i])'
    <3> SUFFICES ASSUME NEW i \in Acks(s.sent), s.sent[i].success
                 PROVE  Tells(s.sent[i])'
      OBVIOUS
    <3>1. Tells(s.sent[i])
      BY <1>2 DEF Answer
    <3> QED BY <1>1, <1>4, <3>1 DEF Tells
  <2>2. Acks(s.sent)' = Acks(s.sent)
    BY <1>4
  <2> QED BY <1>1, <1>2, <1>4, <2>1, <2>2 DEF Answer
<1>9. Clocks'
  <2>1. ack_keepalive' = ack_keepalive
    BY <1>1 DEF ack_keepalive
  <2>2. s'.err = "keepalive" => s.keepalive > 0 /\ idle >= s.keepalive
    BY <1>4 DEF TimerDue, Watches
  <2>3. ~Open' /\ (Open => s.keepalive = 0)
    BY <1>2, <1>4 DEF Open, Clocks
  <2>4. s \in ServerState => s.keepalive \in Nat
    BY DEF ServerState
  <2> QED BY <1>1, <1>2, <1>3, <1>4, <2>1, <2>2, <2>3, <2>4 DEF Clocks
<1>10. AckBeforeCredit'
  BY <1>2, <1>4 DEF AckBeforeCredit
<1>11. KeptAlive'
  <2> SUFFICES ASSUME e = "keepalive"
               PROVE  MayDrop'
    BY <1>4 DEF KeptAlive, MayDrop
  <2>1. MayDrop
    BY TimerDueMayDrop
  <2> QED BY <1>1, <1>4, <2>1 DEF MayDrop
<1> QED BY <1>5, <1>6, <1>7, <1>8, <1>9, <1>10, <1>11 DEF HandshakeInv

\* A step before the answer that sends nothing.
LEMMA OpenStep ==
    ASSUME HandshakeInv, Open, Open', UNCHANGED <<Keep, c, s2c>>, s' \in ServerState,
           s'.sent = s.sent, s'.cap = s.cap, s'.keepalive = s.keepalive, s'.err = s.err, s'.early # "woken",
           s'.proto \in {"none", opts.version}, s'.pc # "detect" => s'.proto = opts.version,
           s'.pc = "service" /\ opts.version = "v5" =>
               s'.max_out = set_max_outbound_size(opts.max_packet_size) /\ s'.receive_max \in 0..U16_MAX
    PROVE  HandshakeInv'
<1>1. UNCHANGED <<opts, conf, slept, idle, c, s2c>>
  BY DEF Keep
<1>2. HandshakeTypeOK /\ Phases /\ Limits /\ Answer /\ Clocks /\ AckBeforeCredit /\ KeptAlive
  BY DEF HandshakeInv
<1>3. s'.pc \in {"detect", "connect", "service"} /\ s.pc \in {"detect", "connect", "service"}
  BY DEF Open
<1>4. Acks(s.sent) = {} /\ Acks(s.sent)' = {} /\ c.pc # "up" /\ s.cap = 0
  BY <1>2 DEF Phases
<1>5. HandshakeTypeOK'
  BY <1>1, <1>2 DEF HandshakeTypeOK
<1>6. Phases'
  BY <1>1, <1>2, <1>3, <1>4 DEF Phases
<1>7. Limits'
  BY <1>1, <1>2, <1>3, <1>4 DEF Limits, set_max_outbound_size
<1>8. Answer'
  <2>1. c.err # "disconnected"
    BY <1>2, <1>3 DEF Answer
  <2> QED BY <1>1, <1>2, <1>4, <2>1 DEF Answer
<1>9. Clocks'
  <2>1. s.keepalive = 0 /\ s.err # "keepalive" /\ ~(c.keepalive > 0)
    BY <1>2, <1>3 DEF Clocks
  <2> QED BY <1>1, <1>2, <2>1 DEF Clocks
<1>10. AckBeforeCredit'
  BY <1>2 DEF AckBeforeCredit
<1>11. KeptAlive'
  <2>1. s.err # "keepalive"
    BY <1>2, <1>3 DEF Clocks
  <2> QED BY <2>1 DEF KeptAlive
<1> QED BY <1>5, <1>6, <1>7, <1>8, <1>9, <1>10, <1>11 DEF HandshakeInv

\* The version is detected, and CONNECT is received.
LEMMA ConnectStep ==
    ASSUME HandshakeInv, Detect \/ ReceiveConnectV5 \/ ReceiveConnectV3
    PROVE  HandshakeInv'
<1>1. UNCHANGED <<Keep, c, s2c>>
  BY DEF Detect, ReceiveConnectV5, ReceiveConnectV3
<1>2. HandshakeTypeOK /\ Phases
  BY DEF HandshakeInv
<1>3. s \in ServerState
  BY <1>2 DEF HandshakeTypeOK
<1>4. CASE ServerFails("disconnected") \/ ServerFails("protocol")
  <2>1. s.pc # "closed"
    BY DEF Detect, ReceiveConnectV5, ReceiveConnectV3
  <2> QED BY <1>1, <1>4, <2>1, ServerFailsStep
<1>5. Open => s.cap = 0 /\ s.early # "woken"
  BY <1>2 DEF Phases
<1>6. CASE Detect /\ ~ServerFails("disconnected")
  <2>1. s.pc = "detect" /\ s' = [s EXCEPT !.pc = "connect", !.proto = opts.version]
    BY <1>6 DEF Detect
  <2>2. opts.version \in {"v3", "v5"}
    BY <1>2, OptionFields
  <2>3. /\ s' \in ServerState /\ s'.pc = "connect" /\ s'.proto = opts.version /\ s'.err = s.err
        /\ s'.cap = s.cap /\ s'.keepalive = s.keepalive /\ s'.early = s.early /\ s'.sent = s.sent
    BY <1>3, <2>1, <2>2, Zenon DEF ServerState
  <2>4. Open /\ Open'
    BY <2>1, <2>3 DEF Open
  <2> QED BY <1>1, <1>5, <2>3, <2>4, OpenStep
<1>7. CASE ReceiveConnectV5 /\ ~ServerFails("protocol")
  <2>1. /\ s.pc = "connect" /\ s.proto = "v5"
        /\ s' = [s EXCEPT !.pc = "service", !.max_in = conf.v5.max_size, !.receive_max = conf.v5.max_receive,
                          !.max_out = set_max_outbound_size(opts.max_packet_size)]
    BY <1>7 DEF ReceiveConnectV5
  <2>2. conf.v5.max_size \in Nat /\ conf.v5.max_receive \in Nat /\ set_max_outbound_size(opts.max_packet_size) \in Nat
    <3>1. conf.v5.max_size \in Nat /\ conf.v5.max_receive \in 0..U16_MAX /\ opts.max_packet_size \in Nat
      BY <1>2, OptionFields
    <3> QED BY <3>1, OutboundSize, HandshakeAssumption, SMTT(30)
  <2>3. /\ s' \in ServerState /\ s'.pc = "service" /\ s'.proto = s.proto /\ s'.err = s.err
        /\ s'.cap = s.cap /\ s'.keepalive = s.keepalive /\ s'.early = s.early /\ s'.sent = s.sent
        /\ s'.max_out = set_max_outbound_size(opts.max_packet_size) /\ s'.receive_max = conf.v5.max_receive
    BY <1>3, <2>1, <2>2, Zenon DEF ServerState
  <2>4. Open /\ Open' /\ s.proto = opts.version
    BY <1>2, <2>1, <2>3 DEF Open, Phases
  <2>5. conf.v5.max_receive \in 0..U16_MAX
    BY <1>2, OptionFields
  <2> QED BY <1>1, <1>5, <2>3, <2>4, <2>5, OpenStep
<1>8. CASE ReceiveConnectV3 /\ ~ServerFails("protocol")
  <2>1. s.pc = "connect" /\ s.proto = "v3" /\ s' = [s EXCEPT !.pc = "service", !.max_in = conf.v3.max_size]
    BY <1>8 DEF ReceiveConnectV3
  <2>2. conf.v3.max_size \in Nat
    BY <1>2, OptionFields
  <2>3. /\ s' \in ServerState /\ s'.pc = "service" /\ s'.proto = s.proto /\ s'.err = s.err
        /\ s'.cap = s.cap /\ s'.keepalive = s.keepalive /\ s'.early = s.early /\ s'.sent = s.sent
    BY <1>3, <2>1, <2>2, Zenon DEF ServerState
  <2>4. Open /\ Open' /\ s.proto = opts.version /\ opts.version # "v5"
    BY <1>2, <2>1, <2>3 DEF Open, Phases
  <2> QED BY <1>1, <1>5, <2>3, <2>4, OpenStep
<1> QED BY <1>4, <1>6, <1>7, <1>8

\* A publish of a task of the handler: at once with QoS 0, after CONNACK with QoS 1.
LEMMA PublishStep ==
    ASSUME HandshakeInv, UNCHANGED <<Keep, c>>, NEW q \in {0, 1}, s.pc # "closed", q = 1 => s.pc \in {"create", "up"},
           s' = [s EXCEPT !.early = "done", !.sent = Append(s.sent, Publish(q))],
           s2c' = Append(s2c, Publish(q))
    PROVE  HandshakeInv'
<1>1. UNCHANGED <<opts, conf, slept, idle, c>>
  BY DEF Keep
<1>2. HandshakeTypeOK /\ Phases /\ Limits /\ Answer /\ Clocks /\ AckBeforeCredit /\ KeptAlive
  BY DEF HandshakeInv
<1>3. s \in ServerState /\ s2c \in Seq(Written)
  BY <1>2 DEF HandshakeTypeOK
<1>4. s.sent \in Seq(Written) /\ Publish(q) \in Written /\ Publish(q).type # "ConnectAck"
  BY <1>3, Packets DEF ServerState
<1>5. PICK more : more = Append(s.sent, Publish(q))
  BY Zenon
<1>6. /\ more \in Seq(Written) /\ Len(s.sent) \in Nat
      /\ DOMAIN s.sent = 1..Len(s.sent) /\ DOMAIN more = 1..(Len(s.sent) + 1)
      /\ more[Len(s.sent) + 1] = Publish(q)
      /\ \A i \in DOMAIN s.sent : more[i] = s.sent[i]
      /\ Acks(more) = Acks(s.sent)
  <2>1. Follows(s.sent, Publish(q), more)
    BY <1>4, <1>5, Sends
  <2> QED BY <1>4, <2>1 DEF Follows
<1>7. /\ s' \in ServerState /\ s'.early = "done" /\ s'.sent = more
      /\ s'.pc = s.pc /\ s'.err = s.err
      /\ s'.proto = s.proto /\ s'.cap = s.cap /\ s'.max_in = s.max_in /\ s'.max_out = s.max_out
      /\ s'.receive_max = s.receive_max /\ s'.keepalive = s.keepalive /\ s'.chosen = s.chosen
  BY <1>3, <1>5, <1>6, ZenonT(30) DEF ServerState
<1>8. Acks(s.sent)' = Acks(s.sent) /\ \A i \in Acks(s.sent) : s'.sent[i] = s.sent[i]
  BY <1>6, <1>7 DEF Acks
<1>9. Open' = Open
  BY <1>7 DEF Open
<1>10. HandshakeTypeOK'
  <2>1. s2c' \in Seq(Written)
    BY <1>3, <1>4
  <2> QED BY <1>1, <1>2, <1>7, <2>1 DEF HandshakeTypeOK
<1>11. Phases'
  BY <1>1, <1>2, <1>7, <1>8, <1>9, Zenon DEF Phases
<1>12. Limits'
  BY <1>1, <1>2, <1>7 DEF Limits, set_max_outbound_size
<1>13. Answer'
  <2>1. \A i \in Acks(s.sent) : s.sent[i].success => Tells(s.sent[i])
    BY <1>2 DEF Answer
  <2>2. \A i \in Acks(s.sent)' : s'.sent[i].success => Tells(s.sent[i])'
    <3> TAKE i \in Acks(s.sent)'
    <3>1. i \in Acks(s.sent) /\ s'.sent[i] = s.sent[i] /\ (s.sent[i].success => Tells(s.sent[i]))
      BY <1>8, <2>1, Zenon
    <3> QED BY <1>1, <1>7, <3>1, ZenonT(30) DEF Tells
  <2>3. c.pc \in {"start", "sent"} => s2c' = s'.sent
    BY <1>2, <1>5, <1>7 DEF Answer
  <2>4. c.err # "disconnected"
    BY <1>2 DEF Answer
  <2> QED BY <1>1, <1>2, <1>8, <2>2, <2>3, <2>4, Zenon DEF Answer
<1>14. Clocks'
  <2>1. ack_keepalive' = ack_keepalive
    BY <1>1 DEF ack_keepalive
  <2> QED BY <1>1, <1>2, <1>7, <1>9, <2>1 DEF Clocks
<1>15. AckBeforeCredit'
  <2>1. \A i \in DOMAIN s.sent : s.sent[i] = Publish(1) => \E j \in 1..(i - 1) : s.sent[j].type = "ConnectAck"
    BY <1>2 DEF AckBeforeCredit
  <2> SUFFICES ASSUME NEW i \in DOMAIN more, more[i] = Publish(1)
               PROVE  \E j \in 1..(i - 1) : more[j].type = "ConnectAck"
    BY <1>7, ZenonT(30) DEF AckBeforeCredit, Publish
  <2>2. CASE i \in DOMAIN s.sent
    <3>1. PICK j \in 1..(i - 1) : s.sent[j].type = "ConnectAck"
      BY <1>6, <2>1, <2>2
    <3>2. j \in DOMAIN s.sent
      BY <1>6, <2>2
    <3> QED BY <1>6, <3>1, <3>2
  <2>3. CASE i = Len(s.sent) + 1
    <3>1. q = 1
      BY <1>6, <2>3, Packets
    <3>2. PICK j \in Acks(s.sent) : TRUE
      BY <1>2, <3>1 DEF Phases
    <3>3. j \in DOMAIN s.sent /\ s.sent[j].type = "ConnectAck"
      BY DEF Acks
    <3>4. j \in 1..(i - 1) /\ more[j].type = "ConnectAck"
      BY <1>6, <2>3, <3>3
    <3> QED BY <3>4
  <2> QED BY <1>6, <2>2, <2>3
<1>16. KeptAlive'
  BY <1>1, <1>2, <1>7, SMTT(30) DEF KeptAlive
<1> QED BY <1>10, <1>11, <1>12, <1>13, <1>14, <1>15, <1>16 DEF HandshakeInv

\* After the answer the dispatcher starts; nothing else of the server is changed.
LEMMA LaterStep ==
    ASSUME HandshakeInv, UNCHANGED <<opts, conf, slept, idle, c, s2c>>,
           (s.pc = "closed" /\ s'.pc = "closed") \/ (s.pc = "create" /\ s'.pc = "up"),
           s' \in ServerState, s'.err = s.err, s'.sent = s.sent,
           s'.proto = s.proto, s'.cap = s.cap, s'.max_in = s.max_in, s'.max_out = s.max_out,
           s'.receive_max = s.receive_max, s'.keepalive = s.keepalive, s'.chosen = s.chosen
    PROVE  HandshakeInv'
<1>1. HandshakeTypeOK /\ Phases /\ Limits /\ Answer /\ Clocks /\ AckBeforeCredit /\ KeptAlive
  BY DEF HandshakeInv
<1>2. HandshakeTypeOK'
  BY <1>1 DEF HandshakeTypeOK
<1>3. ~Open /\ ~Open' /\ Acks(s.sent)' = Acks(s.sent)
  BY SMTT(30) DEF Open
<1>4. Phases'
  BY <1>1, <1>3, SMTT(30) DEF Phases
<1>5. Limits'
  BY <1>1, SMTT(30) DEF Limits, set_max_outbound_size
<1>6. Answer'
  BY <1>1, <1>3, SMTT(30) DEF Answer, Tells
<1>7. Clocks'
  <2>1. ack_keepalive' = ack_keepalive
    BY SMTT(30) DEF ack_keepalive
  <2> QED BY <1>1, <1>3, <2>1, SMTT(30) DEF Clocks
<1>8. AckBeforeCredit' /\ KeptAlive'
  BY <1>1 DEF AckBeforeCredit, KeptAlive
<1> QED BY <1>1, <1>2, <1>4, <1>5, <1>6, <1>7, <1>8 DEF HandshakeInv

\* The handler's task sends, or waits for credit: there is none before CONNACK.
LEMMA EarlyStep ==
    ASSUME HandshakeInv, EarlySend \/ SendEarly
    PROVE  HandshakeInv'
<1>1. HandshakeTypeOK /\ Phases
  BY DEF HandshakeInv
<1>2. s \in ServerState /\ s2c \in Seq(Written)
  BY <1>1 DEF HandshakeTypeOK
<1>3. s.sent \in Seq(Written)
  BY <1>2 DEF ServerState
<1>4. UNCHANGED <<Keep, c>>
  BY DEF EarlySend, SendEarly
<1>5. CASE EarlySend
  <2>1. s.pc = "service"
    BY <1>5 DEF EarlySend
  <2>2. Open /\ s.cap = 0
    BY <1>1, <2>1 DEF Open, Phases
  <2>3. ~is_ready
    BY <2>2 DEF is_ready
  <2>4. CASE s' = [s EXCEPT !.early = "waiting"] /\ s2c' = s2c
    <3>1. /\ s' \in ServerState /\ s'.early = "waiting" /\ s'.pc = s.pc /\ s'.sent = s.sent /\ s'.cap = s.cap
          /\ s'.keepalive = s.keepalive /\ s'.err = s.err /\ s'.proto = s.proto /\ s'.max_out = s.max_out
          /\ s'.receive_max = s.receive_max
      BY <1>2, <2>4, SMTT(30) DEF ServerState
    <3>2. Open' /\ s.proto = opts.version
      BY <1>1, <2>1, <3>1 DEF Open, Phases
    <3>3. opts.version = "v5" =>
             s.max_out = set_max_outbound_size(opts.max_packet_size) /\ s.receive_max \in 0..U16_MAX
      BY <2>1 DEF HandshakeInv, Limits
    <3> QED BY <1>4, <2>2, <2>4, <3>1, <3>2, <3>3, OpenStep
  <2>5. CASE s' = [s EXCEPT !.early = "done", !.sent = Append(s.sent, Publish(0))] /\ s2c' = Append(s2c, Publish(0))
    BY <1>4, <2>1, <2>5, PublishStep
  <2> QED BY <1>5, <2>3, <2>4, <2>5 DEF EarlySend
<1>6. CASE SendEarly
  <2>1. s.early = "woken"
    BY <1>6 DEF SendEarly
  <2>2. s.pc \in {"create", "up", "closed"}
    <3>1. s.pc \in {"detect", "connect", "service", "create", "up", "closed"}
      BY <1>2 DEF ServerState
    <3> QED BY <1>1, <2>1, <3>1 DEF Phases, Open
  <2>3. CASE s.pc \in {"create", "up"}
    <3>1. s' = [s EXCEPT !.early = "done", !.sent = s.sent \o <<Publish(1)>>] /\ s2c' = s2c \o <<Publish(1)>>
      BY <1>6, <2>3, Zenon DEF SendEarly
    <3>2. s.sent \o <<Publish(1)>> = Append(s.sent, Publish(1)) /\ s2c \o <<Publish(1)>> = Append(s2c, Publish(1))
      BY <1>2, <1>3, Packets, AppendIsJoin
    <3> QED BY <1>4, <2>3, <3>1, <3>2, PublishStep, Zenon
  <2>4. CASE s.pc = "closed"
    <3>1. s' = [s EXCEPT !.early = "done", !.sent = s.sent \o <<>>] /\ s2c' = s2c \o <<>>
      BY <1>6, <2>4 DEF SendEarly
    <3>2. s.sent \o <<>> = s.sent /\ s2c' = s2c
      BY <1>2, <1>3, <3>1
    <3>3. /\ s' \in ServerState /\ s'.pc = s.pc /\ s'.err = s.err /\ s'.sent = s.sent
          /\ s'.proto = s.proto /\ s'.cap = s.cap /\ s'.max_in = s.max_in /\ s'.max_out = s.max_out
          /\ s'.receive_max = s.receive_max /\ s'.keepalive = s.keepalive /\ s'.chosen = s.chosen
      BY <1>2, <3>1, <3>2, ZenonT(30) DEF ServerState
    <3>4. UNCHANGED <<opts, conf, slept, idle, c, s2c>>
      BY <1>4, <3>2 DEF Keep
    <3> QED BY <2>4, <3>3, <3>4, LaterStep
  <2> QED BY <2>2, <2>3, <2>4
<1> QED BY <1>5, <1>6

\* The answer to CONNECT is sent, once.
LEMMA AnswerStep ==
    ASSUME HandshakeInv, s.pc = "service", UNCHANGED <<Keep, c>>,
           NEW pkt \in Written, pkt.type = "ConnectAck",
           s' \in ServerState, s'.sent = Append(s.sent, pkt), s2c' = Append(s2c, pkt),
           s'.pc \in {"create", "closed"}, s'.proto = s.proto, s'.err # "keepalive", s'.max_out = s.max_out,
           s'.pc = "create" => pkt.success,
           pkt.success => Tells(pkt)',
           s'.pc = "create" /\ s.proto = "v5" =>
               /\ s'.cap = IF opts.receive_max = 0 THEN DEFAULT_RECEIVE ELSE opts.receive_max
               /\ s'.receive_max > 0,
           ~s'.chosen /\ s'.keepalive > 0 => s'.keepalive = ack_keepalive
    PROVE  HandshakeInv'
<1>1. UNCHANGED <<opts, conf, slept, idle, c>>
  BY DEF Keep
<1>2. HandshakeTypeOK /\ Phases /\ Limits /\ Answer /\ Clocks /\ AckBeforeCredit /\ KeptAlive
  BY DEF HandshakeInv
<1>3. s \in ServerState /\ s2c \in Seq(Written) /\ c \in ClientState
  BY <1>2 DEF HandshakeTypeOK
<1>4. s.sent \in Seq(Written)
  BY <1>3, SMTT(30) DEF ServerState
<1>5. PICK old, more : old = s.sent /\ more = s'.sent
  BY SMTT(30)
<1>6. /\ Len(old) \in Nat
      /\ DOMAIN old = 1..Len(old) /\ DOMAIN more = 1..(Len(old) + 1)
      /\ more[Len(old) + 1] = pkt
      /\ \A i \in DOMAIN old : more[i] = old[i]
      /\ Acks(more) = Acks(old) \cup {Len(old) + 1}
  <2>1. Follows(old, pkt, Append(old, pkt))
    BY <1>4, <1>5, Sends, SMTT(30)
  <2> QED BY <1>5, <2>1, SMTT(30) DEF Follows
<1>7. Open /\ ~Open' /\ Acks(old) = {} /\ c.pc # "up" /\ s.proto = opts.version
  BY <1>2, <1>5, SMTT(30) DEF Open, Phases
<1>8. Acks(s.sent)' = {Len(old) + 1} /\ s'.sent[Len(old) + 1] = pkt
  <2>1. Acks(more) = {Len(old) + 1}
    BY <1>6, <1>7, SMTT(30)
  <2> QED BY <1>5, <1>6, <2>1, SMTT(30)
<1>9. HandshakeTypeOK'
  <2>1. s2c' \in Seq(Written)
    BY <1>3, SMTT(30)
  <2> QED BY <1>1, <1>2, <2>1 DEF HandshakeTypeOK
<1>10. Phases'
  BY <1>1, <1>2, <1>7, <1>8, ZenonT(30) DEF Phases
<1>11. Limits'
  <2>1. c'.pc # "up" /\ (s'.pc = "create" => s.proto = opts.version)
    BY <1>1, <1>7, SMTT(30)
  <2> QED BY <1>1, <1>2, <2>1 DEF Limits, set_max_outbound_size
<1>12. Answer'
  <2>1. c.err # "disconnected"
    BY <1>2, SMTT(30) DEF Answer
  <2>2. c.pc \in {"start", "sent"} => s2c' = s'.sent
    BY <1>2, SMTT(30) DEF Answer
  <2>3. \A i \in Acks(s.sent)' : s'.sent[i].success => Tells(s.sent[i])'
    <3> TAKE i \in Acks(s.sent)'
    <3>1. s'.sent[i] = pkt
      BY <1>8, ZenonT(30)
    <3>2. ASSUME pkt.success
          PROVE  Tells(s.sent[i])'
      <4>1. Tells(pkt)'
        BY <3>2
      <4> QED BY <3>1, <4>1 DEF Tells
    <3> QED BY <3>1, <3>2
  <2> QED BY <1>1, <1>8, <2>1, <2>2, <2>3, ZenonT(30) DEF Answer
<1>13. Clocks'
  <2>1. c'.keepalive = 0 /\ idle' = 0 /\ (c'.pc \in {"start", "sent"} => slept' = 0)
    <3>1. c.keepalive \in Nat
      BY <1>3, SMTT(30) DEF ClientState
    <3> QED BY <1>1, <1>2, <1>7, <3>1, SMTT(30) DEF Clocks
  <2>2. ack_keepalive' = ack_keepalive
    BY <1>1, SMTT(30) DEF ack_keepalive
  <2> QED BY <1>7, <2>1, <2>2 DEF Clocks
<1>14. AckBeforeCredit'
  <2>1. \A i \in DOMAIN old : old[i] = Publish(1) => \E j \in 1..(i - 1) : old[j].type = "ConnectAck"
    BY <1>2, <1>5, SMTT(30) DEF AckBeforeCredit
  <2> SUFFICES ASSUME NEW i \in DOMAIN more, more[i] = Publish(1)
               PROVE  \E j \in 1..(i - 1) : more[j].type = "ConnectAck"
    BY <1>5, SMTT(30) DEF AckBeforeCredit, Publish
  <2>2. i # Len(old) + 1
    BY <1>6, Packets, ZenonT(30)
  <2>3. i \in DOMAIN old
    BY <1>6, <2>2
  <2>4. PICK j \in 1..(i - 1) : old[j].type = "ConnectAck"
    BY <1>6, <2>1, <2>3, SMTT(30)
  <2>5. j \in DOMAIN old
    BY <1>6, <2>3, SMTT(30)
  <2> QED BY <1>6, <2>4, <2>5, SMTT(30)
<1>15. KeptAlive'
  BY DEF KeptAlive
<1> QED BY <1>9, <1>10, <1>11, <1>12, <1>13, <1>14, <1>15 DEF HandshakeInv

\* The handler refuses the client.
LEMMA RefusalStep ==
    ASSUME HandshakeInv, ServiceRefusesV5 \/ ServiceRefusesV3
    PROVE  HandshakeInv'
<1> DEFINE pkt == [type |-> "ConnectAck", success |-> FALSE]
<1>1. s.pc = "service" /\ UNCHANGED <<Keep, c>>
  BY DEF ServiceRefusesV5, ServiceRefusesV3
<1>2. HandshakeTypeOK /\ Clocks
  BY DEF HandshakeInv
<1>3. s \in ServerState
  BY <1>2, SMTT(30) DEF HandshakeTypeOK
<1>4. pkt \in Written /\ pkt.type = "ConnectAck" /\ ~pkt.success
  BY Packets, Zenon
<1>5. CASE ServerFails("encode") /\ UNCHANGED s2c
  BY <1>1, <1>5, ServerFailsStep
<1>6. CASE Refusal(pkt)
  <2> HIDE DEF pkt
  <2>1. s2c' = Append(s2c, pkt) /\ s' = [s EXCEPT !.pc = "closed", !.err = "disconnected", !.sent = Append(s.sent, pkt)]
    BY <1>6 DEF Refusal
  <2>2. s.sent \in Seq(Written) /\ Append(s.sent, pkt) \in Seq(Written)
    BY <1>3, <1>4 DEF ServerState
  <2>3. /\ s' \in ServerState /\ s'.pc = "closed" /\ s'.err = "disconnected" /\ s'.sent = Append(s.sent, pkt)
        /\ s'.proto = s.proto /\ s'.max_out = s.max_out /\ s'.keepalive = s.keepalive
    BY <1>3, <2>1, <2>2, ZenonT(30) DEF ServerState
  <2>4. ~(s'.keepalive > 0)
    BY <1>1, <1>2, <2>3 DEF Clocks, Open
  <2> QED BY <1>1, <1>4, <2>1, <2>3, <2>4, AnswerStep
<1> QED BY <1>5, <1>6, SMTT(30) DEF ServiceRefusesV5, ServiceRefusesV3

\* CONNACK is too large for the client: the credit is there, the connection is not.
LEMMA EncodeStep ==
    ASSUME HandshakeInv, s.pc = "service", UNCHANGED <<Keep, c, s2c>>,
           s' \in ServerState, s'.pc = "closed", s'.err = "encode", s'.sent = s.sent, s'.proto = s.proto,
           s'.keepalive = s.keepalive
    PROVE  HandshakeInv'
<1>1. UNCHANGED <<opts, conf, slept, idle, c, s2c>>
  BY DEF Keep
<1>2. HandshakeTypeOK /\ Phases /\ Limits /\ Answer /\ Clocks /\ AckBeforeCredit /\ KeptAlive
  BY SMTT(30) DEF HandshakeInv
<1>3. Open /\ ~Open' /\ Acks(s.sent) = {} /\ Acks(s.sent)' = {} /\ c.pc # "up"
  BY <1>2 DEF Open, Phases
<1>4. HandshakeTypeOK'
  BY <1>1, <1>2, SMTT(30) DEF HandshakeTypeOK
<1>5. Phases'
  BY <1>1, <1>2, <1>3, ZenonT(30) DEF Phases
<1>6. Limits'
  BY <1>1, <1>2, <1>3, SMTT(30) DEF Limits
<1>7. Answer'
  BY <1>1, <1>2, <1>3, ZenonT(30) DEF Answer
<1>8. Clocks'
  <2>1. s.keepalive = 0 /\ ~(c.keepalive > 0)
    BY <1>2, <1>3, SMTT(30) DEF Clocks
  <2> QED BY <1>1, <1>2, <1>3, <2>1 DEF Clocks
<1>9. AckBeforeCredit' /\ KeptAlive'
  BY <1>2 DEF AckBeforeCredit, KeptAlive
<1> QED BY <1>4, <1>5, <1>6, <1>7, <1>8, <1>9 DEF HandshakeInv

\* The handler of v3 accepts the client.
LEMMA AckV3Step ==
    ASSUME HandshakeInv, ServiceAckV3
    PROVE  HandshakeInv'
<1> DEFINE pkt == [type |-> "ConnectAck", success |-> TRUE]
<1>1. s.pc = "service" /\ s.proto = "v3" /\ UNCHANGED <<Keep, c>>
  BY SMTT(30) DEF ServiceAckV3
<1>2. PICK t \in Timeouts \cup {NotCalled}, max_send \in MaxSends \cup {conf.v3.max_send} :
          /\ s' = [s EXCEPT !.pc = "create", !.cap = max_send, !.sent = Append(s.sent, pkt),
                            !.early = IF s.early = "waiting" /\ max_send > 0 THEN "woken" ELSE s.early,
                            !.keepalive = IF t = NotCalled THEN ack_keepalive ELSE t,
                            !.chosen = t # NotCalled]
          /\ s2c' = Append(s2c, pkt)
  BY Zenon DEF ServiceAckV3
<1>3. HandshakeTypeOK /\ Phases /\ Clocks
  BY DEF HandshakeInv
<1>4. s \in ServerState
  BY <1>3 DEF HandshakeTypeOK
<1>5. pkt \in Written /\ pkt.type = "ConnectAck" /\ pkt.success
  BY Packets, Zenon
<1> HIDE DEF pkt
<1>6. PICK ka : ka = IF t = NotCalled THEN ack_keepalive ELSE t
  OBVIOUS
<1>7. ka \in Nat /\ max_send \in Nat
  <2>1. ack_keepalive \in 1..U16_MAX /\ conf.v3.max_send \in 0..U16_MAX
    BY <1>3, AckKeepalive, OptionFields
  <2> QED BY <1>6, <2>1, HandshakeAssumption
<1>8. PICK early \in {"no", "waiting", "woken", "done"} :
          early = IF s.early = "waiting" /\ max_send > 0 THEN "woken" ELSE s.early
  BY <1>4 DEF ServerState
<1>9. PICK chosen \in BOOLEAN : chosen = (t # NotCalled)
  BY Zenon
<1>10. s.sent \in Seq(Written) /\ Append(s.sent, pkt) \in Seq(Written)
  BY <1>4, <1>5 DEF ServerState
<1>11. s' = [s EXCEPT !.pc = "create", !.cap = max_send, !.sent = Append(s.sent, pkt), !.early = early,
                      !.keepalive = ka, !.chosen = chosen]
  BY <1>2, <1>6, <1>8, <1>9
<1>12. /\ s' \in ServerState /\ s'.pc = "create" /\ s'.sent = Append(s.sent, pkt) /\ s'.err = s.err
       /\ s'.proto = s.proto /\ s'.max_out = s.max_out /\ s'.keepalive = ka /\ s'.chosen = chosen
  BY <1>4, <1>7, <1>8, <1>9, <1>10, <1>11, ZenonT(30) DEF ServerState
<1>13. s.err # "keepalive" /\ s.proto = opts.version
  BY <1>1, <1>3 DEF Clocks, Phases
<1>14. Tells(pkt)'
  BY <1>1, <1>12, <1>13 DEF Tells, Keep
<1>15. ~s'.chosen => s'.keepalive = ack_keepalive
  BY <1>6, <1>9, <1>12, Zenon
<1> QED BY <1>1, <1>2, <1>5, <1>12, <1>13, <1>14, <1>15, AnswerStep

\* The handler of v5 accepts the client, with the limits and the keep-alive that its
\* CONNACK tells.
LEMMA AckV5Step ==
    ASSUME HandshakeInv, ServiceAckV5
    PROVE  HandshakeInv'
<1> DEFINE Pkt(lim, ka) == [type |-> "ConnectAck", success |-> TRUE, receive_max |-> lim.receive_max,
                            max_packet_size |-> lim.max_packet_size,
                            server_keepalive_sec |-> announced(lim, ka)]
           Ka(t) == IF t = NotCalled THEN ack_keepalive ELSE t
<1>1. s.pc = "service" /\ s.proto = "v5" /\ UNCHANGED <<Keep, c>>
  BY SMTT(30) DEF ServiceAckV5
<1>2. PICK lim \in Changes \cup {ack_limits}, t \in (Timeouts \ {0}) \cup {NotCalled} :
          IF AckFits
          THEN /\ s' = [acknowledged(lim) EXCEPT !.pc = "create", !.sent = Append(acknowledged(lim).sent, Pkt(lim, Ka(t))),
                                                 !.keepalive = Ka(t),
                                                 !.chosen = t # NotCalled \/ lim.server_keepalive_sec # 0]
               /\ s2c' = Append(s2c, Pkt(lim, Ka(t)))
          ELSE /\ s' = [acknowledged(lim) EXCEPT !.pc = "closed", !.err = "encode"]
               /\ UNCHANGED s2c
  BY Zenon DEF ServiceAckV5
<1>3. HandshakeTypeOK /\ Phases /\ Limits /\ Clocks
  BY DEF HandshakeInv
<1>4. s \in ServerState
  BY <1>3 DEF HandshakeTypeOK
<1>5. /\ lim.receive_max \in 1..U16_MAX /\ lim.max_packet_size \in Nat
      /\ lim.server_keepalive_sec \in 0..U16_MAX
  <2>1. CASE lim \in Changes
    BY <2>1, HandshakeAssumption
  <2>2. CASE lim = ack_limits
    <3>1. s.receive_max \in Nat /\ s.max_in \in Nat
      BY <1>4 DEF ServerState
    <3>2. s.receive_max \in 0..U16_MAX
      BY <1>1, <1>3 DEF Limits, Phases
    <3> QED BY <2>2, <3>1, <3>2, HandshakeAssumption DEF ack_limits
  <2> QED BY <2>1, <2>2
<1>6. PICK rm, mp : rm = lim.receive_max /\ mp = lim.max_packet_size
  OBVIOUS
<1>7. rm \in Nat /\ rm > 0 /\ mp \in Nat
  BY <1>5, <1>6, HandshakeAssumption
<1>8. PICK cap : cap = IF opts.receive_max = 0 THEN DEFAULT_RECEIVE ELSE opts.receive_max
  OBVIOUS
<1>9. s.proto = opts.version /\ s.err # "keepalive" /\ s.keepalive = 0
  BY <1>1, <1>3 DEF Phases, Clocks, Open
<1>10. cap \in Nat
  <2>1. opts.receive_max \in 0..U16_MAX
    BY <1>1, <1>3, <1>9, OptionFields
  <2> QED BY <1>8, <2>1, HandshakeAssumption
<1>11. PICK early \in {"no", "waiting", "woken", "done"} : early = IF s.early = "waiting" THEN "woken" ELSE s.early
  BY <1>4 DEF ServerState
<1>12. acknowledged(lim) = [s EXCEPT !.receive_max = rm, !.max_in = mp, !.early = early, !.cap = cap]
  BY <1>6, <1>8, <1>11 DEF acknowledged
<1>13. PICK a : a = acknowledged(lim)
  OBVIOUS
<1>14. /\ a \in ServerState /\ a.err = s.err /\ a.sent = s.sent /\ a.proto = s.proto /\ a.max_out = s.max_out
       /\ a.cap = cap /\ a.receive_max = rm /\ a.max_in = mp /\ a.keepalive = s.keepalive
  BY <1>4, <1>7, <1>10, <1>12, <1>13, ZenonT(30) DEF ServerState
<1>15. CASE ~AckFits
  <2>1. s' = [a EXCEPT !.pc = "closed", !.err = "encode"] /\ UNCHANGED s2c
    BY <1>2, <1>13, <1>15
  <2>2. /\ s' \in ServerState /\ s'.pc = "closed" /\ s'.err = "encode" /\ s'.sent = s.sent
        /\ s'.proto = s.proto /\ s'.keepalive = s.keepalive
    BY <1>14, <2>1, Zenon DEF ServerState
  <2> QED BY <1>1, <2>1, <2>2, EncodeStep
<1>16. CASE AckFits
  <2>1. PICK ka : ka = Ka(t)
    OBVIOUS
  <2>2. ka \in Nat
    <3>1. ack_keepalive \in 1..U16_MAX
      BY <1>3, AckKeepalive
    <3> QED BY <2>1, <3>1, HandshakeAssumption
  <2>3. PICK pkt : pkt = Pkt(lim, ka)
    BY Zenon
  <2>4. PICK told : told = announced(lim, ka)
    OBVIOUS
  <2>5. pkt = [type |-> "ConnectAck", success |-> TRUE, receive_max |-> rm, max_packet_size |-> mp,
               server_keepalive_sec |-> told]
    BY <1>6, <2>3, <2>4
  <2>6. pkt.type = "ConnectAck" /\ pkt.success /\ pkt.receive_max = rm /\ pkt.max_packet_size = mp
        /\ pkt.server_keepalive_sec = told
    BY <2>5
  <2>7. pkt \in Written /\ told \in Nat
    <3>1. told \in Nat
      BY <1>5, <2>2, <2>4, HandshakeAssumption DEF announced
    <3> QED BY <1>7, <2>5, <3>1 DEF Written
  <2>8. PICK chosen \in BOOLEAN : chosen = (t # NotCalled \/ lim.server_keepalive_sec # 0)
    BY Zenon
  <2>9. /\ s' = [a EXCEPT !.pc = "create", !.sent = Append(s.sent, pkt), !.keepalive = ka, !.chosen = chosen]
        /\ s2c' = Append(s2c, pkt)
    <3>1. /\ s' = [a EXCEPT !.pc = "create", !.sent = Append(a.sent, Pkt(lim, Ka(t))), !.keepalive = Ka(t),
                            !.chosen = t # NotCalled \/ lim.server_keepalive_sec # 0]
          /\ s2c' = Append(s2c, Pkt(lim, Ka(t)))
      BY <1>2, <1>13, <1>16
    <3> HIDE DEF Pkt, Ka
    <3> QED BY <1>14, <2>1, <2>3, <2>8, <3>1
  <2>10. s.sent \in Seq(Written) /\ Append(s.sent, pkt) \in Seq(Written)
    BY <1>4, <2>7 DEF ServerState
  <2>11. /\ s' \in ServerState /\ s'.pc = "create" /\ s'.sent = Append(s.sent, pkt) /\ s'.err = s.err
         /\ s'.proto = s.proto /\ s'.max_out = s.max_out /\ s'.keepalive = ka /\ s'.chosen = chosen
         /\ s'.cap = cap /\ s'.receive_max = rm /\ s'.max_in = mp
    BY <1>14, <2>2, <2>9, <2>10, Zenon DEF ServerState
  <2>12. opts' = opts
    BY <1>1 DEF Keep
  <2>13. ~chosen => told = 0
    <3> SUFFICES ASSUME ~chosen
                 PROVE  told = 0
      OBVIOUS
    <3>1. lim.server_keepalive_sec = 0 /\ ka = ack_keepalive
      BY <2>1, <2>8, Zenon
    <3>2. PICK ok, m : ok = opts.keep_alive /\ m = Margin(opts.keep_alive)
      OBVIOUS
    <3>3. ok \in Nat /\ m \in Nat /\ (ok > 0 => ka = ok + m)
      BY <1>3, <3>1, <3>2, AckKeepalive, OptionFields, HandshakeAssumption
    <3>4. ~(ok > ka)
      BY <2>2, <3>3
    <3> QED BY <2>4, <3>1, <3>2, <3>4 DEF announced
  <2>14. Tells(pkt)'
    BY <1>9, <2>6, <2>7, <2>11, <2>12, <2>13 DEF Tells
  <2>15. ~s'.chosen => s'.keepalive = ack_keepalive
    BY <2>1, <2>8, <2>11, Zenon
  <2> QED BY <1>1, <1>7, <1>8, <1>9, <2>6, <2>7, <2>9, <2>11, <2>14, <2>15, AnswerStep
<1> QED BY <1>15, <1>16

\* The services are created and the dispatcher starts, or they fail.
LEMMA CreateStep ==
    ASSUME HandshakeInv, CreateHandler
    PROVE  HandshakeInv'
<1>1. s.pc = "create" /\ UNCHANGED <<Keep, c, s2c>>
  BY DEF CreateHandler
<1>2. CASE ServerFails("service")
  BY <1>1, <1>2, ServerFailsStep
<1>3. CASE s' = [s EXCEPT !.pc = "up"]
  <2>1. s \in ServerState
    BY DEF HandshakeInv, HandshakeTypeOK
  <2>2. /\ s' \in ServerState /\ s'.pc = "up" /\ s'.err = s.err /\ s'.sent = s.sent
        /\ s'.proto = s.proto /\ s'.cap = s.cap /\ s'.max_in = s.max_in /\ s'.max_out = s.max_out
        /\ s'.receive_max = s.receive_max /\ s'.keepalive = s.keepalive /\ s'.chosen = s.chosen
    BY <1>3, <2>1, ZenonT(30) DEF ServerState
  <2>3. UNCHANGED <<opts, conf, slept, idle, c, s2c>>
    BY <1>1 DEF Keep
  <2> QED BY <1>1, <2>2, <2>3, LaterStep
<1> QED BY <1>2, <1>3 DEF CreateHandler

-----------------------------------------------------------------------------
(* The steps of the client, and time. *)

\* What a step of the client leaves alone.
ServerStands == UNCHANGED <<opts, conf, slept, idle, s>>

\* The parts of the invariant that only speak of the server.
LEMMA ServerStays ==
    ASSUME HandshakeInv, ServerStands
    PROVE  /\ AckBeforeCredit' /\ Acks(s.sent)' = Acks(s.sent) /\ (Open' <=> Open)
           /\ (\A i \in Acks(s.sent) : s.sent[i].success => Tells(s.sent[i])')
           /\ ack_keepalive' = ack_keepalive
<1>1. AckBeforeCredit' /\ Acks(s.sent)' = Acks(s.sent) /\ (Open' <=> Open)
  BY DEF HandshakeInv, AckBeforeCredit, ServerStands, Open
<1>2. ack_keepalive' = ack_keepalive
  BY DEF ack_keepalive, ServerStands
<1>3. ASSUME NEW i \in Acks(s.sent), s.sent[i].success
      PROVE  Tells(s.sent[i])'
  <2>1. Tells(s.sent[i])
    BY <1>3 DEF HandshakeInv, Answer
  <2> QED BY <2>1 DEF Tells, ServerStands
<1> QED BY <1>1, <1>2, <1>3

\* The client sends CONNECT, or reads what it does not look at.
LEMMA ClientConnects ==
    ASSUME HandshakeInv, ConnectV5 \/ ConnectV3
    PROVE  HandshakeInv'
<1>1. HandshakeTypeOK /\ Phases /\ Limits /\ Answer /\ Clocks /\ KeptAlive
  BY DEF HandshakeInv
<1>2. c \in ClientState
  BY <1>1 DEF HandshakeTypeOK
<1>3. ServerStands /\ UNCHANGED s2c /\ c.pc = "start"
  BY DEF ConnectV5, ConnectV3, ServerStands, Keep
<1>4. PICK rm : rm = IF opts.receive_max = 0 THEN U16_MAX ELSE opts.receive_max
  OBVIOUS
<1>5. /\ c' \in ClientState /\ c'.pc = "sent" /\ c'.err = c.err /\ c'.keepalive = c.keepalive /\ c'.late = c.late
      /\ opts.version = "v5" => c'.max_in = opts.max_packet_size /\ c'.max_receive = rm
  <2>1. opts.max_packet_size \in Nat /\ (opts.version = "v5" => rm \in Nat)
    <3>1. opts.max_packet_size \in Nat /\ (opts.version = "v5" => opts.receive_max \in 0..U16_MAX)
      BY <1>1, OptionFields
    <3> QED BY <1>4, <3>1, HandshakeAssumption
  <2>2. CASE ConnectV5
    <3>1. c' = [c EXCEPT !.pc = "sent", !.max_in = opts.max_packet_size, !.max_receive = rm] /\ opts.version = "v5"
      BY <1>4, <2>2 DEF ConnectV5
    <3> QED BY <1>2, <2>1, <3>1, Zenon DEF ClientState
  <2>3. CASE ConnectV3
    <3>1. c' = [c EXCEPT !.pc = "sent", !.max_in = opts.max_packet_size] /\ opts.version = "v3"
      BY <2>3 DEF ConnectV3
    <3> QED BY <1>2, <2>1, <3>1, Zenon DEF ClientState
  <2> QED BY <2>2, <2>3
<1>6. HandshakeTypeOK'
  BY <1>1, <1>3, <1>5, SMTT(30) DEF HandshakeTypeOK, ServerStands
<1>7. Phases'
  BY <1>1, <1>3, <1>5, ServerStays, SMTT(30) DEF Phases, ServerStands
<1>8. Limits'
  BY <1>1, <1>3, <1>4, <1>5, SMTT(30) DEF Limits, ServerStands, set_max_outbound_size
<1>9. Answer'
  BY <1>1, <1>3, <1>5, ServerStays, SMTT(30) DEF Answer, ServerStands
<1>10. Clocks'
  <2>1. c.keepalive = 0 /\ c'.keepalive = 0
    BY <1>1, <1>3, <1>5 DEF Clocks
  <2>2. s' = s /\ slept' = slept /\ idle' = idle
    BY <1>3 DEF ServerStands
  <2> QED BY <1>1, <1>3, <1>5, <2>1, <2>2, ServerStays, SMTT(30) DEF Clocks
<1>11. KeptAlive'
  BY <1>1, <1>3, <1>5 DEF KeptAlive, ServerStands
<1> QED BY <1>3, <1>6, <1>7, <1>8, <1>9, <1>10, <1>11, ServerStays DEF HandshakeInv

\* The client gives up: for a timeout, for what it reads, or at the end of the stream.
LEMMA ClientFailsStep ==
    ASSUME HandshakeInv, ServerStands, s2c' \in Seq(Written), c.pc \in {"sent", "up"},
           NEW e \in {"protocol", "ack", "timeout", "disconnected", "gone"}, ClientFails(e),
           c.pc = "up" => e = "gone" \/ s.pc = "closed",
           e = "disconnected" => s.pc = "closed" /\ s2c = <<>>
    PROVE  HandshakeInv'
<1>1. HandshakeTypeOK /\ Phases /\ Limits /\ Answer /\ Clocks /\ KeptAlive
  BY DEF HandshakeInv
<1>2. c \in ClientState
  BY <1>1 DEF HandshakeTypeOK
<1>3. /\ c' \in ClientState /\ c'.pc = "closed" /\ c'.err = e /\ c'.keepalive = c.keepalive /\ c'.late = c.late
      /\ c'.max_in = c.max_in /\ c'.max_receive = c.max_receive
  BY <1>2, ZenonT(30) DEF ClientState, ClientFails
<1>4. HandshakeTypeOK'
  BY <1>1, <1>3 DEF HandshakeTypeOK, ServerStands
<1>5. Phases'
  BY <1>1, <1>3, ServerStays DEF Phases, ServerStands
<1>6. Limits'
  BY <1>1, <1>3 DEF Limits, ServerStands, set_max_outbound_size
<1>7. Answer'
  <2>1. e = "disconnected" => \A i \in Acks(s.sent) : s.sent[i].success
    <3> SUFFICES ASSUME e = "disconnected", NEW i \in Acks(s.sent)
                 PROVE  s.sent[i].success
      OBVIOUS
    <3>1. c.pc # "sent"
      <4>1. c.pc = "sent" => s.sent = <<>>
        BY <1>1 DEF Answer
      <4>2. i \in DOMAIN s.sent
        BY DEF Acks
      <4> QED BY <4>1, <4>2
    <3>2. PICK j \in Acks(s.sent) : s.sent[j].success
      BY <1>1, <3>1 DEF Phases
    <3>3. i = j
      BY <1>1, SMTT(30) DEF Answer
    <3> QED BY <3>2, <3>3
  <2> QED BY <1>1, <1>3, <2>1, ServerStays DEF Answer, ServerStands
<1>8. Clocks'
  <2>1. s' = s /\ slept' = slept /\ idle' = idle /\ opts' = opts
    BY DEF ServerStands
  <2>2. c.pc = "sent" => ~(c.keepalive > 0)
    BY <1>1 DEF Clocks
  <2> QED BY <1>1, <1>3, <2>1, <2>2, ServerStays DEF Clocks
<1>9. KeptAlive'
  <2>1. c.err # "gone"
    BY <1>1 DEF Phases
  <2>2. s.err = "keepalive" => MayDrop
    BY <1>1 DEF KeptAlive, MayDrop
  <2>3. Margin(c.keepalive)' = Margin(c.keepalive)
    BY <1>3 DEF Margin
  <2> QED BY <1>3, <2>1, <2>2, <2>3, SMTT(30) DEF KeptAlive, MayDrop, ServerStands
<1> QED BY <1>4, <1>5, <1>6, <1>7, <1>8, <1>9, ServerStays DEF HandshakeInv

\* The client is connected, with what CONNACK told it.
LEMMA ClientWelcomed ==
    ASSUME HandshakeInv, ServerStands, s2c # <<>>, s2c' = Tail(s2c), c.pc = "sent", Welcome(Head(s2c)),
           c' \in ClientState, c'.pc = "up", c'.err = c.err,
           c'.max_in = c.max_in, c'.max_receive = c.max_receive, c'.late = idle,
           opts.version = "v5" =>
               /\ c'.cap = Head(s2c).receive_max
               /\ c'.max_out = set_max_outbound_size(Head(s2c).max_packet_size)
               /\ c'.keepalive = Negotiated(Head(s2c).server_keepalive_sec),
           opts.version # "v5" => c'.keepalive = opts.keep_alive
    PROVE  HandshakeInv'
<1>1. HandshakeTypeOK /\ Phases /\ Limits /\ Answer /\ Clocks /\ KeptAlive
  BY SMTT(30) DEF HandshakeInv
<1>2. Tells(Head(s2c)) /\ \E i \in Acks(s.sent) : s.sent[i].success
  BY WelcomeTells
<1>3. s.proto = opts.version /\ s.pc \in {"create", "up", "closed"}
  BY <1>2 DEF Tells
<1>4. opts.version = "v5" =>
        /\ c'.cap = s.receive_max /\ c'.max_out = set_max_outbound_size(s.max_in)
        /\ ~s.chosen => c'.keepalive = opts.keep_alive
  BY <1>2, <1>3, SMTT(30) DEF Tells, Negotiated
<1>5. HandshakeTypeOK'
  <2>1. s2c' \in Seq(Written)
    BY <1>1, SMTT(30) DEF HandshakeTypeOK
  <2> QED BY <1>1, <2>1, SMTT(30) DEF HandshakeTypeOK, ServerStands
<1>6. Phases'
  BY <1>1, <1>2, ServerStays, ZenonT(30) DEF Phases, ServerStands
<1>7. Limits'
  BY <1>1, <1>4, SMTT(30) DEF Limits, ServerStands, set_max_outbound_size
<1>8. Answer'
  <2>1. c'.err # "disconnected"
    BY <1>1, SMTT(30) DEF Phases
  <2> QED BY <1>1, <2>1, ServerStays, SMTT(30) DEF Answer, ServerStands
<1>9. c'.keepalive \in Nat /\ c'.late \in Nat /\ idle \in Nat /\ s.keepalive \in Nat
  BY <1>1 DEF ClientState, HandshakeTypeOK, ServerState
<1>10. ~Open /\ slept = 0 /\ (~s.chosen => c'.keepalive = opts.keep_alive)
  BY <1>1, <1>3, <1>4 DEF Clocks, Open
<1>11. Clocks'
  <2>1. s' = s /\ slept' = slept /\ idle' = idle /\ opts' = opts
    BY DEF ServerStands
  <2>2. slept' <= c'.keepalive /\ idle' <= slept' + c'.late
    BY <1>9, <1>10, <2>1
  <2> QED BY <1>1, <1>10, <2>1, <2>2, ServerStays, Zenon DEF Clocks
<1>12. KeptAlive'
  <2> SUFFICES ASSUME s.err = "keepalive", c'.keepalive > 0
               PROVE  MayDrop'
    BY <1>9 DEF KeptAlive, MayDrop, ServerStands
  <2>1. s.keepalive > 0 /\ idle >= s.keepalive
    BY <1>1 DEF Clocks
  <2>2. c'.keepalive + c'.late >= s.keepalive
    BY <1>9, <2>1
  <2>3. \/ ~s.chosen /\ c'.late >= Margin(c'.keepalive)
        \/ s.chosen /\ c'.keepalive + c'.late >= s.keepalive
    BY <1>9, <1>10, <2>1, <2>2, LateOrChosen
  <2>4. Margin(c.keepalive)' = Margin(c'.keepalive)
    BY DEF Margin
  <2> QED BY <2>3, <2>4 DEF MayDrop, ServerStands
<1> QED BY <1>5, <1>6, <1>7, <1>8, <1>11, <1>12, ServerStays DEF HandshakeInv

\* The client reads the first packet of the server.
LEMMA ReceiveAckStep ==
    ASSUME HandshakeInv, ReceiveAckV5 \/ ReceiveAckV3
    PROVE  HandshakeInv'
<1>1. ServerStands /\ c.pc = "sent" /\ s2c # <<>> /\ s2c' = Tail(s2c)
  BY DEF ReceiveAckV5, ReceiveAckV3, ServerStands, Keep
<1>2. HandshakeTypeOK
  BY DEF HandshakeInv
<1>3. c \in ClientState /\ s2c' \in Seq(Written) /\ s \in ServerState /\ idle \in Nat
  BY <1>1, <1>2 DEF HandshakeTypeOK
<1>4. CASE Unwelcome(Head(s2c))
  <2>1. ClientFails("protocol") \/ ClientFails("ack")
    BY <1>4 DEF Unwelcome
  <2> QED BY <1>1, <1>3, <2>1, ClientFailsStep
<1>5. CASE ReceiveAckV5 /\ ~Unwelcome(Head(s2c))
  <2>1. PICK pkt : pkt = Head(s2c)
    OBVIOUS
  <2>2. /\ Welcome(pkt) /\ opts.version = "v5"
        /\ c' = [c EXCEPT !.pc = "up", !.late = idle, !.cap = pkt.receive_max,
                          !.max_out = set_max_outbound_size(pkt.max_packet_size),
                          !.keepalive = IF pkt.server_keepalive_sec # 0 THEN pkt.server_keepalive_sec
                                        ELSE opts.keep_alive]
    BY <1>5, <2>1 DEF ReceiveAckV5
  <2>3. Tells(pkt)
    BY <1>1, <2>1, <2>2, WelcomeTells
  <2>4. PICK cap, size, ka : /\ cap = pkt.receive_max /\ size = set_max_outbound_size(pkt.max_packet_size)
                             /\ ka = Negotiated(pkt.server_keepalive_sec)
    OBVIOUS
  <2>5. cap \in Nat /\ size \in Nat /\ ka \in Nat
    <3>1. s.receive_max \in Nat /\ s.max_in \in Nat /\ s.keepalive \in Nat
      BY <1>3 DEF ServerState
    <3>2. opts.keep_alive \in Nat
      BY <1>2, OptionFields, HandshakeAssumption
    <3>3. pkt.receive_max \in Nat /\ pkt.max_packet_size \in Nat /\ pkt.server_keepalive_sec \in Nat
      BY <2>2, <2>3, <3>1 DEF Tells
    <3> QED BY <2>4, <3>2, <3>3, OutboundSize DEF Negotiated
  <2>6. c' = [c EXCEPT !.pc = "up", !.late = idle, !.cap = cap, !.max_out = size, !.keepalive = ka]
    BY <2>2, <2>4 DEF Negotiated
  <2>7. /\ c' \in ClientState /\ c'.pc = "up" /\ c'.err = c.err /\ c'.max_in = c.max_in
        /\ c'.max_receive = c.max_receive /\ c'.cap = cap /\ c'.max_out = size /\ c'.keepalive = ka
        /\ c'.late = idle
    BY <1>3, <2>5, <2>6, Zenon DEF ClientState
  <2> QED BY <1>1, <2>1, <2>2, <2>4, <2>7, ClientWelcomed
<1>6. CASE ReceiveAckV3 /\ ~Unwelcome(Head(s2c))
  <2>1. /\ Welcome(Head(s2c)) /\ opts.version = "v3"
        /\ c' = [c EXCEPT !.pc = "up", !.late = idle, !.keepalive = opts.keep_alive, !.cap = opts.max_send]
    BY <1>6 DEF ReceiveAckV3
  <2>2. opts.keep_alive \in Nat /\ opts.max_send \in Nat
    BY <1>2, <2>1, OptionFields, HandshakeAssumption
  <2>3. /\ c' \in ClientState /\ c'.pc = "up" /\ c'.err = c.err /\ c'.max_in = c.max_in
        /\ c'.max_receive = c.max_receive /\ c'.keepalive = opts.keep_alive /\ c'.late = idle
    BY <1>3, <2>1, <2>2, Zenon DEF ClientState
  <2> QED BY <1>1, <2>1, <2>3, ClientWelcomed
<1> QED BY <1>4, <1>5, <1>6

\* The client reads on; parts of CONNECT arrive.
LEMMA ReadStep ==
    ASSUME HandshakeInv, ServerStands, UNCHANGED c, s2c' \in Seq(Written), c.pc = "up" \/ UNCHANGED s2c
    PROVE  HandshakeInv'
<1>1. HandshakeTypeOK /\ Phases /\ Limits /\ Answer /\ Clocks /\ KeptAlive
  BY DEF HandshakeInv
<1>2. HandshakeTypeOK'
  BY <1>1 DEF HandshakeTypeOK, ServerStands
<1>3. Phases'
  BY <1>1, ServerStays DEF Phases, ServerStands
<1>4. Limits'
  BY <1>1 DEF Limits, ServerStands, set_max_outbound_size
<1>5. Answer'
  BY <1>1, ServerStays DEF Answer, ServerStands
<1>6. Clocks'
  <2>1. s' = s /\ slept' = slept /\ idle' = idle /\ opts' = opts
    BY DEF ServerStands
  <2> QED BY <1>1, <2>1, ServerStays DEF Clocks
<1>7. KeptAlive'
  BY <1>1 DEF KeptAlive, ServerStands
<1> QED BY <1>2, <1>3, <1>4, <1>5, <1>6, <1>7, ServerStays DEF HandshakeInv

\* A second passes, or the client pings.
LEMMA TimeStep ==
    ASSUME HandshakeInv, Tick \/ keepalive
    PROVE  HandshakeInv'
<1>1. HandshakeTypeOK /\ Phases /\ Limits /\ Answer /\ Clocks /\ AckBeforeCredit /\ KeptAlive
  BY DEF HandshakeInv
<1>2. UNCHANGED <<opts, conf, c, s, s2c>>
  BY DEF Tick, keepalive
<1>3. c \in ClientState /\ s \in ServerState /\ slept \in Nat /\ idle \in Nat
  BY <1>1 DEF HandshakeTypeOK
<1>4. c.keepalive \in Nat /\ s.keepalive \in Nat /\ c.late \in Nat
  BY <1>3 DEF ClientState, ServerState
<1>5. /\ slept' \in Nat /\ idle' \in Nat
      /\ Pings => slept' <= c.keepalive /\ idle' <= slept' + c.late
      /\ ~Pings => slept' = slept /\ (idle' = idle \/ Watches)
      /\ idle' = 0 \/ idle' = idle \/ Watches
  <2>1. Pings => slept <= c.keepalive /\ idle <= slept + c.late
    BY <1>1 DEF Clocks, Pings
  <2>2. CASE Tick
    <3>1. /\ ~(Pings /\ slept >= c.keepalive)
          /\ slept' = (IF Pings THEN slept + 1 ELSE slept) /\ idle' = IF Watches THEN idle + 1 ELSE idle
      BY <2>2 DEF Tick, PingDue
    <3> QED BY <1>3, <1>4, <2>1, <3>1
  <2>3. CASE keepalive
    <3>1. slept' = 0 /\ idle' = 0 /\ Pings
      BY <2>3 DEF keepalive, PingDue
    <3> QED BY <1>4, <3>1
  <2> QED BY <2>2, <2>3
<1>6. HandshakeTypeOK'
  BY <1>1, <1>2, <1>5 DEF HandshakeTypeOK
<1>7. Open' = Open /\ Acks(s.sent)' = Acks(s.sent)
  BY <1>2, SMTT(30) DEF Open
<1>8. Phases' /\ AckBeforeCredit' /\ KeptAlive'
  BY <1>1, <1>2, <1>7 DEF Phases, AckBeforeCredit, KeptAlive, Margin
<1>9. Limits'
  BY <1>1, <1>2, SMTT(30) DEF Limits, set_max_outbound_size
<1>10. Answer'
  BY <1>1, <1>2, <1>7 DEF Answer, Tells
<1>11. Clocks'
  <2>1. ack_keepalive' = ack_keepalive
    BY <1>2 DEF ack_keepalive
  <2>2. /\ c.pc \in {"start", "sent"} => ~Pings
        /\ c.keepalive > 0 /\ c.pc = "up" => Pings
        /\ Open \/ s.pc \in {"create", "closed"} => ~Watches
    BY DEF Pings, Watches, Open
  <2>3. c.pc \in {"start", "sent"} => slept' = 0
    BY <1>1, <1>5, <2>2 DEF Clocks
  <2>4. Open \/ s.pc = "create" => idle' = 0
    BY <1>1, <1>5, <2>2 DEF Clocks
  <2>5. s.err = "keepalive" /\ c.pc \in {"start", "sent"} => idle' = idle
    BY <1>1, <1>5, <2>2 DEF Clocks
  <2> QED BY <1>1, <1>2, <1>5, <1>7, <2>1, <2>2, <2>3, <2>4, <2>5 DEF Clocks
<1> QED BY <1>6, <1>8, <1>9, <1>10, <1>11 DEF HandshakeInv

\* What arrives: parts of CONNECT, packets of the server, the end of a stream.
LEMMA NetworkStep ==
    ASSUME HandshakeInv, Network
    PROVE  HandshakeInv'
<1>1. s2c \in Seq(Written)
  BY DEF HandshakeInv, HandshakeTypeOK
<1>2. CASE Arrive
  <2>1. ServerStands /\ UNCHANGED <<c, s2c>>
    BY <1>2 DEF Arrive, ServerStands, Keep
  <2> QED BY <1>1, <2>1, ReadStep
<1>3. CASE ClientReads
  <2>1. c.pc = "up" /\ ServerStands /\ UNCHANGED c /\ s2c # <<>> /\ s2c' = Tail(s2c)
    BY <1>3 DEF ClientReads, ServerStands, Keep
  <2>2. s2c' \in Seq(Written)
    BY <1>1, <2>1
  <2> QED BY <2>1, <2>2, ReadStep
<1>4. CASE ServerEof
  <2>1. s.pc # "closed" /\ ServerFails("disconnected") /\ UNCHANGED <<Keep, c, s2c>>
    BY <1>4 DEF ServerEof
  <2> QED BY <2>1, ServerFailsStep
<1>5. CASE ClientEof
  <2>1. c.pc = "sent" /\ s.pc = "closed" /\ s2c = <<>> /\ ClientFails("disconnected") /\ ServerStands /\ s2c' = s2c
    BY <1>5 DEF ClientEof, ServerStands, Keep
  <2> QED BY <1>1, <2>1, ClientFailsStep
<1>6. CASE PeerGone
  <2>1. CASE s.pc = "up" /\ c.pc = "closed" /\ ServerFails("disconnected") /\ UNCHANGED c
    <3>1. s.pc # "closed" /\ UNCHANGED <<Keep, c, s2c>>
      BY <1>6, <2>1 DEF PeerGone
    <3> QED BY <2>1, <3>1, ServerFailsStep
  <2>2. CASE c.pc = "up" /\ s.pc = "closed" /\ s2c = <<>> /\ ClientFails("disconnected") /\ UNCHANGED s
    <3>1. ServerStands /\ s2c' = s2c
      BY <1>6, <2>2 DEF PeerGone, ServerStands, Keep
    <3> QED BY <1>1, <2>2, <3>1, ClientFailsStep
  <2> QED BY <1>6, <2>1, <2>2 DEF PeerGone
<1> QED BY <1>2, <1>3, <1>4, <1>5, <1>6, ReceiveAckStep DEF Network

-----------------------------------------------------------------------------
(* The theorems. *)

\* Nothing is sent at first.
LEMMA InitHandshakeInv ==
    ASSUME Init
    PROVE  HandshakeInv
<1>1. /\ c \in ClientState /\ c.pc = "start" /\ c.err = "none" /\ c.keepalive = 0
  BY SMTT(30) DEF Init, NewClient, ClientState
<1>2. /\ s \in ServerState /\ s.pc = "detect" /\ s.err = "none" /\ s.proto = "none" /\ s.cap = 0
      /\ s.keepalive = 0 /\ s.early = "no" /\ s.sent = <<>>
  BY DEF Init, NewServer, ServerState
<1>3. Acks(s.sent) = {}
  BY <1>2 DEF Acks
<1>4. HandshakeTypeOK
  BY <1>1, <1>2, SMTT(30) DEF Init, HandshakeTypeOK
<1>5. Phases /\ Limits
  BY <1>1, <1>2, <1>3, SMTT(30) DEF Phases, Limits, Open
<1>6. Answer
  BY <1>1, <1>2, <1>3 DEF Init, Answer
<1>7. Clocks
  BY <1>1, <1>2 DEF Init, Clocks, Open
<1>8. AckBeforeCredit /\ KeptAlive
  BY <1>2 DEF AckBeforeCredit, KeptAlive
<1> QED BY <1>4, <1>5, <1>6, <1>7, <1>8 DEF HandshakeInv

\* Every step keeps the invariant.
LEMMA NextHandshakeInv ==
    ASSUME HandshakeInv, [Next]_vars
    PROVE  HandshakeInv'
<1>1. s2c \in Seq(Written)
  BY DEF HandshakeInv, HandshakeTypeOK
<1>2. CASE Handler
  <2>1. CASE ServiceError
    <3>1. s.pc = "service" /\ ServerFails("service") /\ UNCHANGED <<Keep, c, s2c>>
      BY <2>1 DEF ServiceError
    <3> QED BY <3>1, ServerFailsStep
  <2>2. CASE CreateHandler
    BY <2>2, CreateStep
  <2> QED BY <1>2, <2>1, <2>2, AckV5Step, AckV3Step, RefusalStep DEF Handler
<1>3. CASE ServerTask
  BY <1>3, ConnectStep, EarlyStep DEF ServerTask
<1>4. CASE ClientTask
  BY <1>4, ClientConnects DEF ClientTask
<1>5. CASE Timers
  <2>1. CASE HandshakeTimeout
    <3>1. c.pc = "sent" /\ ClientFails("timeout") /\ ServerStands /\ s2c' = s2c
      BY <2>1 DEF HandshakeTimeout, ServerStands, Keep
    <3> QED BY <1>1, <3>1, ClientFailsStep
  <2>2. CASE DetectTimeout \/ ConnectTimeout
    <3>1. s.pc # "closed" /\ ServerFails("timeout") /\ UNCHANGED <<Keep, c, s2c>>
      BY <2>2 DEF DetectTimeout, ConnectTimeout
    <3> QED BY <3>1, ServerFailsStep
  <2> QED BY <1>5, <2>1, <2>2 DEF Timers
<1>6. CASE KeepAlives
  <2>1. CASE KeepAliveTimeout
    <3>1. s.pc # "closed" /\ TimerDue /\ ServerFails("keepalive") /\ UNCHANGED <<Keep, c, s2c>>
      BY <2>1 DEF KeepAliveTimeout, TimerDue, Watches
    <3> QED BY <3>1, ServerFailsStep
  <2> QED BY <1>6, <2>1, TimeStep DEF KeepAlives
<1>7. CASE Network
  BY <1>7, NetworkStep
<1>8. CASE UNCHANGED vars
  <2>1. ServerStands /\ UNCHANGED <<c, s2c>>
    BY <1>8 DEF vars, ServerStands
  <2> QED BY <1>1, <2>1, ReadStep
<1>9. CASE EarlySend
  BY <1>9, EarlyStep
<1>10. CASE ClientGone
  <2>1. c.pc \in {"sent", "up"} /\ ClientFails("gone") /\ ServerStands /\ s2c' = s2c
    BY <1>10 DEF ClientGone, ServerStands, Keep
  <2> QED BY <1>1, <2>1, ClientFailsStep
<1> QED BY <1>2, <1>3, <1>4, <1>5, <1>6, <1>7, <1>8, <1>9, <1>10 DEF Next

\* The inductive invariant of the handshake.
LEMMA HandshakeInvariance == Spec => []HandshakeInv
<1>1. Init => HandshakeInv
  BY InitHandshakeInv
<1>2. HandshakeInv /\ [Next]_vars => HandshakeInv'
  BY NextHandshakeInv
<1> QED BY <1>1, <1>2, PTL DEF Spec

\* Neither side of a v5 connection may send more, or larger, than the other enforces
\* (connector.rs and server.rs of v5, handshake.rs of v5).
THEOREM HandshakeLimitsAgree == Spec => []LimitsAgree
<1>1. HandshakeInv => LimitsAgree
  <2> SUFFICES ASSUME HandshakeInv, c.pc = "up", s.pc = "up", s.proto = "v5"
               PROVE  /\ s.cap \in 1..c.max_receive
                      /\ c.cap \in 1..s.receive_max
                      /\ c.max_in # 0 => s.max_out \in 1..c.max_in
                      /\ s.max_in # 0 => c.max_out \in 1..s.max_in
    BY DEF LimitsAgree
  <2>1. HandshakeTypeOK /\ Limits /\ opts.version = "v5"
    BY SMTT(30) DEF HandshakeInv, Phases
  <2>2. /\ c.max_in = opts.max_packet_size
        /\ c.max_receive = IF opts.receive_max = 0 THEN U16_MAX ELSE opts.receive_max
        /\ s.max_out = set_max_outbound_size(opts.max_packet_size)
        /\ s.cap = IF opts.receive_max = 0 THEN DEFAULT_RECEIVE ELSE opts.receive_max
        /\ s.receive_max > 0
        /\ c.cap = s.receive_max /\ c.max_out = set_max_outbound_size(s.max_in)
    BY <2>1 DEF Limits
  <2>3. opts.receive_max \in 0..U16_MAX /\ opts.max_packet_size \in Nat
    BY <2>1, OptionFields
  <2>4. s.max_in \in Nat /\ s.receive_max \in Nat
    BY <2>1, SMTT(30) DEF HandshakeTypeOK, ServerState
  <2>5. s.cap \in 1..c.max_receive
    BY <2>2, <2>3, HandshakeAssumption, SMTT(30)
  <2>6. c.cap \in 1..s.receive_max
    BY <2>2, <2>4
  <2>7. c.max_in # 0 => s.max_out \in 1..c.max_in
    BY <2>2, <2>3, OutboundSize
  <2>8. s.max_in # 0 => c.max_out \in 1..s.max_in
    BY <2>2, <2>4, OutboundSize
  <2> QED BY <2>5, <2>6, <2>7, <2>8
<1> QED BY <1>1, HandshakeInvariance, PTL

\* No publish that takes a slot of the client's Receive Maximum is written before
\* CONNACK (handshake.rs of v5 and v3, MqttShared::set_cap).
THEOREM HandshakeAckBeforeCredit == Spec => []AckBeforeCredit
<1>1. HandshakeInv => AckBeforeCredit
  BY DEF HandshakeInv
<1> QED BY <1>1, HandshakeInvariance, PTL

\* The server drops a client for silence only in the cases of KeptAlive (Handshake::ack,
\* the connector's keepalive task, the dispatcher's timer).
THEOREM HandshakeKeptAlive == Spec => []KeptAlive
<1>1. HandshakeInv => KeptAlive
  BY SMTT(30) DEF HandshakeInv
<1> QED BY <1>1, HandshakeInvariance, PTL

\* A client whose server answered does not report a lost connection in place of the
\* refusal (server.rs writes and flushes the refusal before the connection is closed).
THEOREM HandshakeRefusalReported == Spec => []RefusalReported
<1>1. HandshakeInv => RefusalReported
  BY Zenon DEF HandshakeInv, Answer, RefusalReported, Acks
<1> QED BY <1>1, HandshakeInvariance, PTL
=============================================================================
