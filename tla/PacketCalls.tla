---------------------------- MODULE PacketCalls ----------------------------
(***************************************************************************)
(* What the four packet dispatchers share (the MQTT 5 and MQTT 3 servers'  *)
(* and clients'): the packet ids being handled, the calls in progress, the *)
(* service each of them awaits, the end of the connection, and what is     *)
(* promised to the peer.                                                   *)
(*                                                                         *)
(* A step is one call up to its first await, or one answer of a service    *)
(* and what the waiting call does with it.                                 *)
(***************************************************************************)
EXTENDS Integers, Sequences, FiniteSets, Routers

CONSTANTS
    Ids,       \* packet ids (non-zero)
    Topics,    \* topic names
    Wild,      \* a topic name with a wildcard
    Aliases,   \* topic aliases (non-zero)
    Kinds,     \* the items besides publishes that occur
    Slots,     \* bound on the calls in progress at a time
    ReceiveMax,       \* limits of the connection; 0 for no limit
    TopicAliasMax,
    MaxQos,
    RetainAvailable,
    HandleQos         \* handle_qos_after_disconnect, -1 for None

ErrorKinds == {"protocol", "error"}
AllKinds == {"subscribe", "unsubscribe", "auth", "ping", "disconnect", "puback",
             "protocol", "peer_gone", "wr_backpressure", "unexpected"}

ASSUME PacketAssumption ==
    /\ Ids \subseteq Nat \ {0}
    /\ NoTopic \notin Topics
    /\ Wild \notin Topics /\ Wild # NoTopic
    /\ Aliases \subseteq Nat \ {0}
    /\ ReceiveMax \in Nat /\ TopicAliasMax \in Nat
    /\ MaxQos \in 0 .. 2 /\ HandleQos \in -1 .. 2 /\ RetainAvailable \in BOOLEAN
    /\ Matched \subseteq Topics
    /\ Kinds \subseteq AllKinds

VARIABLES
    inflight,  \* the ids recorded by the dispatcher
    closed,    \* sink.is_closed()
    calls,     \* the calls in progress
    ctl,       \* calls buffered for the control service, the first is being handled
    failed,    \* some call returned an error to the framed dispatcher
    down,      \* the connection: up, stopping (no more items), closing (shutdown), down
    dropped    \* a call ended without an answer, or the application's word that there is
               \* to be none, to a packet with an id

callvars == <<inflight, closed, calls, ctl, failed, down, dropped>>

\* kind: the item, or what is reported to the control service instead; at: the
\* service the call awaits; got, to: the topic name the publish service was given
\* and the resource chosen by the router, NoTopic for none; want: the topic name
\* the peer meant.
Call == [kind : AllKinds \cup {"publish", "error"}, id : Ids \cup {0},
         at : {"free", "publish", "control", "nested"},
         want : Topics \cup {NoTopic}, got : Topics \cup {NoTopic}, to : Matched \cup {NoTopic}]

Message(k, id, at) ==
    [kind |-> k, id |-> id, at |-> at, want |-> NoTopic, got |-> NoTopic, to |-> NoTopic]

Free == Message("publish", 0, "free")

CallsTypeOK ==
    /\ inflight \in SUBSET Ids
    /\ closed \in BOOLEAN
    /\ calls \in [Slots -> Call]
    /\ ctl \in Seq(Slots)
    /\ failed \in BOOLEAN
    /\ down \in {"up", "stopping", "closing", "down"}
    /\ dropped \in BOOLEAN

CallsInit ==
    /\ inflight = {}
    /\ closed = FALSE
    /\ calls = [i \in Slots |-> Free] /\ ctl = <<>>
    /\ failed = FALSE /\ down = "up" /\ dropped = FALSE

-----------------------------------------------------------------------------
(* A call starts and ends. *)

Arrives == down = "up" /\ \E i \in Slots : calls[i] = Free

Starts(c, i) == calls[i] = Free /\ calls' = [calls EXCEPT ![i] = c]

\* The call awaits the control service, behind a buffer (the servers) or at once
\* (the clients).
ToControl(k, id) ==
    /\ \E i \in Slots : Starts(Message(k, id, "control"), i) /\ ctl' = Append(ctl, i)
    /\ UNCHANGED <<failed, down, dropped>>

ToControlNow(k, id) ==
    /\ \E i \in Slots : Starts(Message(k, id, "control"), i)
    /\ UNCHANGED <<ctl, failed, down, dropped>>

\* The call awaits the publish service, given the topic name got.
ToPublish(id, want, got, to) ==
    /\ \E i \in Slots :
        Starts([kind |-> "publish", id |-> id, at |-> "publish",
                want |-> want, got |-> got, to |-> to], i)
    /\ UNCHANGED <<ctl, failed, down, dropped>>

\* The call ends at once: answered, without an answer, or with an error.
Answered == UNCHANGED <<calls, ctl, failed, down, dropped>>
Ignored(id) == dropped' = (dropped \/ id # 0) /\ UNCHANGED <<calls, ctl, failed, down>>
Refused(id) == failed' = TRUE /\ dropped' = (dropped \/ id # 0) /\ UNCHANGED <<calls, ctl, down>>

\* A call that has awaited a service ends, its packet settled or not.
Ends(i, settled) ==
    /\ calls' = [calls EXCEPT ![i] = Free]
    /\ dropped' = (dropped \/ (calls[i].id # 0 /\ ~settled))

\* What a call awaiting the publish service turns into when it is passed on to the
\* control service as message k.
Passed(i, k) == calls' = [calls EXCEPT ![i] = Message(k, calls[i].id, "control")]

-----------------------------------------------------------------------------
(* The end of the connection. *)

\* The sink is closed by the application or the peer leaves.
close ==
    /\ ~closed /\ closed' = TRUE
    /\ UNCHANGED <<inflight, calls, ctl, failed, down, dropped>>

\* The framed dispatcher learns of the error, or that the connection is closed, and
\* reads no more packets; packets that are buffered may arrive before that.
stop ==
    /\ down = "up" /\ (closed \/ failed) /\ down' = "stopping"
    /\ UNCHANGED <<inflight, closed, calls, ctl, failed, dropped>>

\* It has drained its calls and shuts the service down: the sink is closed and the
\* control service is told, once.
shutdown ==
    /\ down = "stopping" /\ \A i \in Slots : calls[i] = Free
    /\ closed' = TRUE /\ down' = "closing"
    /\ UNCHANGED <<inflight, calls, ctl, failed, dropped>>

shutdown_done ==
    /\ down = "closing" /\ down' = "down"
    /\ UNCHANGED <<inflight, closed, calls, ctl, failed, dropped>>

Ending == close \/ stop \/ shutdown \/ shutdown_done

-----------------------------------------------------------------------------
(* What is promised to the peer. *)

\* Calls that are, or were reported to the control service as, the handling of a
\* packet whose id was recorded.
Owners == {i \in Slots : calls[i].id # 0 /\
             \/ calls[i].at \in {"publish", "nested"}
             \/ calls[i].at = "control" /\ calls[i].kind \in {"publish", "subscribe", "unsubscribe", "error"}}

\* No two packets with the same id are handled at a time, whatever their kinds
\* (the HashSet insert of every dispatcher's call).
OneCallPerId ==
    /\ \A i \in Owners : calls[i].id \in inflight
    /\ \A i, j \in Owners : calls[i].id = calls[j].id => i = j

\* Error paths that leave an id recorded end the connection: while it goes on,
\* every recorded id belongs to a packet being handled, so the peer can use it
\* again and it does not eat up the receive maximum.
NoLeakedIds ==
    \/ closed \/ failed
    \/ \E i \in Slots : calls[i].at = "nested" \/ (calls[i].at = "control" /\ calls[i].kind \in ErrorKinds)
    \/ inflight \subseteq {calls[i].id : i \in Owners}

\* Publishes being handled that have a packet id, passed on to the control service
\* or not.
Handled == {i \in Slots : calls[i].kind = "publish" /\ calls[i].id # 0}

\* No more publishes with an id are handled at a time than the receive maximum
\* announced to the peer (the MQTT 5 dispatchers).
ReceiveMaximum == ReceiveMax # 0 => Cardinality(Handled) <= ReceiveMax

\* Every publish reaches the resource of the topic name the peer meant, and with
\* that topic name, also when the peer named it by an alias.
RoutedAsMeant ==
    \A i \in Slots : calls[i].at = "publish" /\ calls[i].want # NoTopic =>
        /\ calls[i].got = calls[i].want
        /\ calls[i].to = IF calls[i].want \in Matched THEN calls[i].want ELSE NoTopic

\* Every dispatcher keeps what PacketPromise promises: an id is handled by one call
\* at a time, and a packet is left without an answer only in a step after which
\* the connection does not go on. An answer that the client's application waives with
\* ack_qos0 is not missed.
Promise == INSTANCE PacketPromise WITH
    Calls <- Slots,
    handling <- [id \in Ids |-> {i \in Owners : calls[i].id = id}],
    open <- ~(closed \/ failed),
    lost <- dropped

PromiseKept == Promise!Spec
=============================================================================
