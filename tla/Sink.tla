-------------------------------- MODULE Sink --------------------------------
(***************************************************************************)
(* The outbound half of an MQTT connection: MqttShared (v5/shared.rs and   *)
(* v3/shared.rs), the state every clone of a sink shares with the          *)
(* connection's dispatcher, and the request futures of MqttSink            *)
(* (v5/sink.rs, v3/sink.rs) that run over it.                              *)
(*                                                                         *)
(* Everything runs on one thread, so a step is what one task does between  *)
(* two awaits: a call of the sink up to its first await, a woken future up *)
(* to its next one, or one packet or event handled by the dispatcher.      *)
(*                                                                         *)
(* Both protocol versions run the same queue discipline; they differ in    *)
(* what a non-blocking publish does when no callback is installed, and     *)
(* Version selects that.                                                   *)
(***************************************************************************)
EXTENDS Integers, Sequences, FiniteSets

CONSTANTS
    Version,    \* 3 or 5
    Ops,        \* the tasks that use the sink
    Dead,       \* a channel whose receiver was dropped
    NoTx,       \* the missing channel of a non-blocking publish
    Cap,        \* receive maximum given to set_cap by the handshake
    MaxId,      \* u16::MAX, where packet ids wrap
    MaxWaiters, \* bound on the queue of waiters, which cancelled requests stay in
    UserIds,    \* packet ids a caller may choose itself
    Kinds,      \* requests the tasks make
    FailKinds,  \* requests whose packet the codec may refuse to encode
    Events      \* what else happens: cancel, wrb, close, stop, gone, badack, callback

AckTypes == {"publish", "subscribe", "unsubscribe"}
AllKinds == AckTypes \cup {"noblock", "ready"}
AllEvents == {"cancel", "wrb", "close", "stop", "gone", "badack", "callback"}

ASSUME SinkAssumption ==
    /\ Version \in {3, 5}
    /\ Dead \notin Ops
    /\ NoTx \notin Ops \cup {Dead}
    /\ Cap \in Nat \ {0}
    /\ MaxId \in Nat \ {0}
    /\ MaxWaiters \in Nat
    /\ UserIds \subseteq 1 .. MaxId
    /\ Kinds \subseteq AllKinds
    /\ FailKinds \subseteq AllKinds
    /\ Events \subseteq AllEvents

VARIABLES
    cap,           \* 0 until the handshake completes
    wrb,           \* Flags::WRB_ENABLED
    inflight,      \* packets awaiting their ack, in sending order
    inflight_ids,  \* their ids, for the PacketIdInUse check
    inflight_idx,  \* last automatic id
    waiters,       \* channels of the tasks awaiting credit
    cb,            \* on_publish_ack: "unset", "set", or "taken" by clear_queues
    closed,        \* io.is_closed()
    terminated,    \* the dispatcher is gone
    st,            \* what each task is doing, or how its last request ended
    kind,          \* and which request that is
    unacked,       \* the peer: packets received from us and not acknowledged yet
    owed           \* non-blocking publishes the installed callback is yet to be told of

queues == <<inflight, inflight_ids, waiters>>
vars == <<cap, wrb, inflight, inflight_ids, inflight_idx, waiters, cb, closed,
          terminated, st, kind, unacked, owed>>

Outcomes == {"ok", "failed"}
Active == {"blocked", "granted", "sent"}
Ids == 1 .. MaxId
Entries == [id : Ids, tx : Ops \cup {Dead, NoTx}, tp : AckTypes]
Packets == [id : Ids, tp : AckTypes]

TypeOK ==
    /\ cap \in {0, Cap}
    /\ wrb \in BOOLEAN
    /\ inflight \in Seq(Entries)
    /\ inflight_ids \in SUBSET Ids
    /\ inflight_idx \in 0 .. MaxId - 1
    /\ waiters \in Seq(Ops \cup {Dead})
    /\ cb \in {"unset", "set", "taken"}
    /\ closed \in BOOLEAN
    /\ terminated \in BOOLEAN
    /\ st \in [Ops -> Active \cup Outcomes]
    /\ kind \in [Ops -> AllKinds]
    /\ unacked \in Seq(Packets)
    /\ owed \in SUBSET Ids

Init ==
    /\ cap = 0
    /\ wrb = FALSE
    /\ inflight = <<>>
    /\ inflight_ids = {}
    /\ inflight_idx = 0
    /\ waiters = <<>>
    /\ cb = "unset"
    /\ closed = FALSE
    /\ terminated = FALSE
    /\ st = [o \in Ops |-> "failed"]
    /\ kind = [o \in Ops |-> "publish"]
    /\ unacked = <<>>
    /\ owed = {}

-----------------------------------------------------------------------------
(* Helpers of MqttShared. *)

\* credit() > 0 and no write back-pressure.
is_ready == cap - Len(inflight) > 0 /\ ~wrb

\* The tasks whose oneshot sender is held by the two queues.
Senders == {inflight[i].tx : i \in DOMAIN inflight} \cup {waiters[i] : i \in DOMAIN waiters}

\* Mutants: only the first waiter is woken; nobody is.
PopCount_one(n) == IF n = 0 \/ waiters = <<>> THEN 0 ELSE 1
PopCount_none(n) == 0

\* How many waiters are popped when up to n of them are to be woken: a channel
\* whose receiver is gone does not count.
PopCount(n) ==
    Cardinality({i \in DOMAIN waiters :
        Cardinality({j \in 1 .. i - 1 : waiters[j] # Dead}) < n})

\* Mutant: waiters are woken and left in the queue.
Wake_kept(n, s) ==
    LET woken == {waiters[i] : i \in 1 .. PopCount(n)}
    IN  /\ waiters' = waiters
        /\ st' = [o \in Ops |-> IF o \in woken THEN "granted" ELSE s[o]]

\* Pop waiters until n of them were woken or none is left; s is the status
\* of the tasks the wake-ups are applied to.
Wake(n, s) ==
    LET k == PopCount(n)
        woken == {waiters[i] : i \in 1 .. k}
    IN  /\ waiters' = SubSeq(waiters, k + 1, Len(waiters))
        /\ st' = [o \in Ops |-> IF o \in woken THEN "granted" ELSE s[o]]

\* The request of task o ends, or moves on, with status s.
Becomes(o, k, s) == st' = [st EXCEPT ![o] = s] /\ kind' = [kind EXCEPT ![o] = k]

\* Mutant: the queue is dropped and the callback is not told.
clear_queues_silent(q) ==
    /\ waiters' = <<>>
    /\ inflight' = <<>>
    /\ st' = [o \in Ops |-> IF o \in Senders THEN "failed" ELSE st[o]]
    /\ UNCHANGED <<cb, owed>>

\* Drop every channel and report q, the entries still queued, to the callback.
clear_queues(q) ==
    /\ waiters' = <<>>
    /\ inflight' = <<>>
    /\ st' = [o \in Ops |-> IF o \in Senders THEN "failed" ELSE st[o]]
    /\ cb' = IF cb = "set" THEN "taken" ELSE cb
    /\ owed' = IF cb = "set" THEN owed \ {q[i].id : i \in {j \in DOMAIN q : q[j].tx = NoTx}}
                             ELSE owed

\* The id the caller chose, or the next automatic one.
next_id(id) ==
    \/ id \in UserIds /\ UNCHANGED inflight_idx
    \/ id = inflight_idx + 1 /\ inflight_idx' = IF id = MaxId THEN 0 ELSE id

\* io.encode on a closed io drops the packet and reports success.
encode(id, tp) == unacked' = IF closed THEN unacked ELSE Append(unacked, [id |-> id, tp |-> tp])

MayFail(k) == ~closed /\ k \in FailKinds

\* Mutants: the id is not recorded; the entry is pushed to the wrong end.
Register_unrecorded(id, tx, tp) ==
    /\ inflight' = Append(inflight, [id |-> id, tx |-> tx, tp |-> tp])
    /\ UNCHANGED inflight_ids
Register_front(id, tx, tp) ==
    /\ inflight' = <<[id |-> id, tx |-> tx, tp |-> tp]>> \o inflight
    /\ inflight_ids' = inflight_ids \cup {id}

Register(id, tx, tp) ==
    /\ inflight' = Append(inflight, [id |-> id, tx |-> tx, tp |-> tp])
    /\ inflight_ids' = inflight_ids \cup {id}

-----------------------------------------------------------------------------
(* Registration of a request: the synchronous part between the credit check *)
(* and the wait for the ack.                                                *)

\* Encode first, register only what was encoded.
wait_packet_response(o, id) ==
    \/ /\ id \in inflight_ids
       /\ Becomes(o, "publish", "failed")  \* SendPacketError::PacketIdInUse
       /\ UNCHANGED <<inflight, inflight_ids, unacked>>
    \/ /\ id \notin inflight_ids
       /\ encode(id, "publish")
       /\ Register(id, o, "publish")
       /\ Becomes(o, "publish", "sent")
    \/ /\ id \notin inflight_ids
       /\ MayFail("publish")
       /\ Becomes(o, "publish", "failed")  \* SendPacketError::Encode
       /\ UNCHANGED <<inflight, inflight_ids, unacked>>

\* Version 3 looks for the callback after it has encoded and registered the packet
\* and panics without it; version 5 does not look for it.
NoBlockOutcome == IF Version = 3 /\ cb = "unset" THEN "failed" ELSE "ok"

\* The same without a channel.
wait_packet_response_no_block(o, id) ==
    \/ /\ id \in inflight_ids
       /\ Becomes(o, "noblock", "failed")  \* SendPacketError::PacketIdInUse
       /\ UNCHANGED <<inflight, inflight_ids, unacked, owed>>
    \/ /\ id \notin inflight_ids
       /\ encode(id, "publish")
       /\ Register(id, NoTx, "publish")
       /\ owed' = IF cb = "unset" THEN owed ELSE owed \cup {id}
       /\ Becomes(o, "noblock", NoBlockOutcome)
    \/ /\ id \notin inflight_ids
       /\ MayFail("noblock")
       /\ Becomes(o, "noblock", "failed")  \* SendPacketError::Encode
       /\ UNCHANGED <<inflight, inflight_ids, unacked, owed>>

\* wait_response followed by encode_packet: registered before it is encoded, and
\* left registered, its receiver dropped, when the encoder refuses the packet.
wait_response(o, id, tp) ==
    \/ /\ id \in inflight_ids
       /\ Becomes(o, tp, "failed")  \* SendPacketError::PacketIdInUse
       /\ UNCHANGED <<inflight, inflight_ids, unacked>>
    \/ /\ id \notin inflight_ids
       /\ Register(id, o, tp)
       /\ encode(id, tp)
       /\ Becomes(o, tp, "sent")
    \/ /\ id \notin inflight_ids
       /\ MayFail(tp)
       /\ Register(id, Dead, tp)
       /\ Becomes(o, tp, "failed")  \* SendPacketError::Encode
       /\ UNCHANGED unacked

send_at_least_once_inner(o) ==
    /\ \E id \in Ids : next_id(id) /\ wait_packet_response(o, id)
    /\ UNCHANGED owed

send_subscription(o, tp) ==
    /\ \E id \in Ids : next_id(id) /\ wait_response(o, id, tp)
    /\ UNCHANGED owed

-----------------------------------------------------------------------------
(* Requests of the tasks. *)

env == <<cap, wrb, cb, closed, terminated>>

Disconnected(o, k) ==
    /\ closed
    /\ Becomes(o, k, "failed")  \* SendPacketError::Disconnected
    /\ UNCHANGED <<inflight, inflight_ids, inflight_idx, waiters, unacked, owed>>

\* The request queues behind the receive maximum or the write back-pressure.
wait_readiness(o, k) ==
    /\ ~closed
    /\ Len(inflight) >= cap \/ wrb
    /\ Len(waiters) < MaxWaiters
    /\ waiters' = Append(waiters, o)
    /\ Becomes(o, k, "blocked")
    /\ UNCHANGED <<inflight, inflight_ids, inflight_idx, unacked, owed>>

Immediate == ~closed /\ ~(Len(inflight) >= cap \/ wrb) /\ UNCHANGED waiters

Calls(o, k) == k \in Kinds /\ st[o] \notin Active /\ UNCHANGED env

send_at_least_once(o) ==
    /\ Calls(o, "publish")
    /\ \/ Disconnected(o, "publish")
       \/ wait_readiness(o, "publish")
       \/ Immediate /\ send_at_least_once_inner(o)

subscribe(o) ==
    /\ Calls(o, "subscribe")
    /\ \/ Disconnected(o, "subscribe")
       \/ wait_readiness(o, "subscribe")
       \/ Immediate /\ send_subscription(o, "subscribe")

unsubscribe(o) ==
    /\ Calls(o, "unsubscribe")
    /\ \/ Disconnected(o, "unsubscribe")
       \/ wait_readiness(o, "unsubscribe")
       \/ Immediate /\ send_subscription(o, "unsubscribe")

ready(o) ==
    /\ Calls(o, "ready")
    /\ \/ Disconnected(o, "ready")
       \/ wait_readiness(o, "ready")
       \/ /\ Immediate
          /\ Becomes(o, "ready", "ok")
          /\ UNCHANGED <<inflight, inflight_ids, inflight_idx, unacked, owed>>

send_at_least_once_no_block(o) ==
    /\ Calls(o, "noblock")
    /\ \/ Disconnected(o, "noblock")
       \/ /\ ~closed
          /\ ~is_ready
          /\ Becomes(o, "noblock", "failed")  \* panic
          /\ UNCHANGED <<inflight, inflight_ids, inflight_idx, waiters, unacked, owed>>
       \/ /\ ~closed
          /\ is_ready
          /\ \E id \in Ids : next_id(id) /\ wait_packet_response_no_block(o, id)
          /\ UNCHANGED waiters

\* A woken future runs: it checks neither the credit nor the connection again.
resume(o) ==
    /\ st[o] = "granted"
    /\ \/ kind[o] = "publish" /\ send_at_least_once_inner(o)
       \/ kind[o] \in {"subscribe", "unsubscribe"} /\ send_subscription(o, kind[o])
       \/ /\ kind[o] = "ready"
          /\ Becomes(o, "ready", "ok")
          /\ UNCHANGED <<inflight, inflight_ids, inflight_idx, unacked, owed>>
    /\ UNCHANGED <<waiters, env>>

\* The caller drops the future: its receiver goes, the queues keep the sender.
cancel(o) ==
    /\ "cancel" \in Events
    /\ st[o] \in Active
    /\ Becomes(o, kind[o], "failed")
    /\ waiters' = [i \in DOMAIN waiters |-> IF waiters[i] = o THEN Dead ELSE waiters[i]]
    /\ inflight' = [i \in DOMAIN inflight |->
                      IF inflight[i].tx = o THEN [inflight[i] EXCEPT !.tx = Dead] ELSE inflight[i]]
    /\ UNCHANGED <<inflight_ids, inflight_idx, unacked, owed, env>>

-----------------------------------------------------------------------------
(* The application and the dispatcher. *)

set_publish_ack ==
    /\ "callback" \in Events
    /\ cb' = "set"
    /\ UNCHANGED <<cap, wrb, queues, inflight_idx, closed, terminated, st, kind, unacked, owed>>

\* Called once per connection, when the handshake has succeeded.
set_cap ==
    /\ cap = 0
    /\ cap' = Cap
    /\ Wake(Cap, st)
    /\ UNCHANGED <<wrb, inflight, inflight_ids, inflight_idx, cb, closed, terminated, kind,
                   unacked, owed>>

enable_wr_backpressure ==
    /\ "wrb" \in Events
    /\ cap # 0 /\ ~terminated /\ ~wrb
    /\ wrb' = TRUE
    /\ UNCHANGED <<cap, queues, inflight_idx, cb, closed, terminated, st, kind, unacked, owed>>

disable_wr_backpressure ==
    /\ wrb /\ ~terminated
    /\ wrb' = FALSE
    /\ IF Len(inflight) < cap THEN Wake(cap - Len(inflight), st) ELSE UNCHANGED <<waiters, st>>
    /\ UNCHANGED <<cap, inflight, inflight_ids, inflight_idx, cb, closed, terminated, kind,
                   unacked, owed>>

\* close, close_with_reason, force_close and drop_sink: the io is closed and the
\* queues are cleared, in either order.
close ==
    /\ closed' = TRUE
    /\ clear_queues(inflight)
    /\ UNCHANGED <<cap, wrb, inflight_ids, inflight_idx, kind, unacked>>

user_close == "close" \in Events /\ close /\ UNCHANGED terminated

\* The dispatcher's shutdown: nothing handles acks or clears queues after it.
shutdown ==
    /\ cap # 0 /\ ~terminated
    /\ closed \/ "stop" \in Events
    /\ terminated' = TRUE
    /\ close

\* The peer's disconnect reaches the io before the dispatcher has seen it.
peer_gone ==
    /\ "gone" \in Events
    /\ ~closed
    /\ closed' = TRUE
    /\ UNCHANGED <<cap, wrb, queues, inflight_idx, cb, terminated, st, kind, unacked, owed>>

\* An ack that does not answer the oldest request: its entry is already popped,
\* and pkt_ack closes the connection.
pkt_ack_err(q, ids) ==
    /\ closed' = TRUE
    /\ clear_queues(q)
    /\ inflight_ids' = ids
    /\ UNCHANGED terminated

\* The ack is delivered and one waiter is woken in its place.
pkt_ack_ok(hd) ==
    LET acked == [o \in Ops |-> IF o = hd.tx THEN "ok" ELSE st[o]]
    IN  /\ Wake(1, acked)
        /\ inflight' = Tail(inflight)
        /\ inflight_ids' = inflight_ids \ {hd.id}
        /\ owed' = IF hd.tx = NoTx THEN owed \ {hd.id} ELSE owed
        /\ UNCHANGED <<cb, closed, terminated>>

\* on_publish_ack.take().unwrap() on None: the dispatcher's task unwinds.
pkt_ack_panic(hd) ==
    /\ inflight' = Tail(inflight)
    /\ inflight_ids' = inflight_ids \ {hd.id}
    /\ closed' = TRUE
    /\ terminated' = TRUE
    /\ UNCHANGED <<waiters, st, cb, owed>>

pkt_ack(a) ==
    /\ cap # 0 /\ ~terminated
    /\ \/ inflight = <<>> /\ pkt_ack_err(<<>>, inflight_ids)
       \/ /\ inflight # <<>>
          /\ LET hd == Head(inflight)
             IN  \/ hd.id # a.id /\ pkt_ack_err(Tail(inflight), inflight_ids)
                 \/ hd.id = a.id /\ hd.tp # a.tp /\ pkt_ack_err(Tail(inflight), inflight_ids \ {a.id})
                 \/ /\ hd.id = a.id /\ hd.tp = a.tp
                    /\ IF hd.tx = NoTx /\ cb # "set" THEN pkt_ack_panic(hd) ELSE pkt_ack_ok(hd)
    /\ UNCHANGED <<cap, wrb, inflight_idx, kind>>

\* A conforming peer acknowledges what it received, in order.
peer_ack == unacked # <<>> /\ pkt_ack(Head(unacked)) /\ unacked' = Tail(unacked)

\* Any other peer may send an ack out of turn.
bad_ack ==
    /\ "badack" \in Events
    /\ \E a \in Packets : /\ unacked # <<>> => a # Head(unacked)
                          /\ pkt_ack(a)
    /\ unacked' = IF unacked = <<>> THEN <<>> ELSE Tail(unacked)

Next ==
    \/ \E o \in Ops :
        \/ send_at_least_once(o) \/ subscribe(o) \/ unsubscribe(o)
        \/ ready(o) \/ send_at_least_once_no_block(o)
        \/ resume(o) \/ cancel(o)
    \/ set_publish_ack \/ set_cap
    \/ enable_wr_backpressure \/ disable_wr_backpressure
    \/ user_close \/ shutdown \/ peer_gone
    \/ peer_ack \/ bad_ack

Spec == Init /\ [][Next]_vars

\* Woken tasks are polled, the handshake ends, buffers are flushed, the peer
\* acknowledges what it receives, and a closed connection is shut down.
Fairness ==
    /\ \A o \in Ops : WF_vars(resume(o))
    /\ WF_vars(set_cap)
    /\ WF_vars(disable_wr_backpressure)
    /\ WF_vars(peer_ack)
    /\ WF_vars(closed /\ shutdown)

FairSpec == Spec /\ Fairness

-----------------------------------------------------------------------------
(* Properties. *)

Live(s) == {i \in DOMAIN s : s[i] # Dead}
Granted == {o \in Ops : st[o] = "granted"}

\* Packets awaiting their ack have different ids, and each id is recorded in
\* inflight_ids, the set the PacketIdInUse check reads (shared.rs, wait_response,
\* pkt_ack_inner), also after ids wrap at u16::MAX and with ids chosen by callers.
UniqueIds ==
    /\ \A i, j \in DOMAIN inflight : inflight[i].id = inflight[j].id => i = j
    /\ \A i \in DOMAIN inflight : inflight[i].id \in inflight_ids

\* A task awaits an ack exactly when one entry of the queue holds the sending end
\* of its channel, for the type of ack the task expects (it would panic on another
\* one), and awaits credit exactly when one waiter is its own: no future is left
\* without a sender, and no sender answers a task that waits for something else.
ChannelsMatch ==
    \A o \in Ops :
        /\ st[o] = "sent" <=> \E i \in DOMAIN inflight : inflight[i].tx = o
        /\ st[o] = "blocked" <=> \E i \in DOMAIN waiters : waiters[i] = o
        /\ \A i \in DOMAIN inflight : inflight[i].tx = o =>
            /\ inflight[i].tp = kind[o]
            /\ \A j \in DOMAIN inflight : inflight[j].tx = o => i = j
        /\ \A i, j \in DOMAIN waiters : waiters[i] = o /\ waiters[j] = o => i = j

\* While the connection is up, the queue of expected acks is what the peer has
\* received and not acknowledged, in the same order: a peer that acknowledges in
\* order is never answered with a protocol error by pkt_ack.
AckOrder ==
    ~closed => /\ Len(inflight) = Len(unacked)
               /\ \A i \in DOMAIN unacked :
                    unacked[i] = [id |-> inflight[i].id, tp |-> inflight[i].tp]

Queued(id) == \E i \in DOMAIN inflight : inflight[i].id = id /\ inflight[i].tx = NoTx

\* A non-blocking publish made with a callback installed stays queued until the
\* callback is told of its ack or of the disconnect: none is forgotten, unless the
\* peer acknowledges out of turn (pkt_ack_inner pops the entry before it compares).
CallbackOwed ==
    [][~bad_ack => \A id \in owed' : (id \in owed => Queued(id)) => Queued(id)']_vars

\* No wake-up is lost: while tasks await credit and there is no write
\* back-pressure, the packets in flight and the tasks already woken use up the
\* receive maximum (pkt_ack_inner, disable_wr_backpressure, set_cap).
WakeAccounting ==
    ~closed /\ ~wrb /\ Live(waiters) # {} => Len(inflight) + Cardinality(Granted) >= cap

\* Every request ends when woken tasks run, the peer acknowledges, and write
\* back-pressure does not last: nothing waits for credit or an ack for ever.
RequestsEnd == \A o \in Ops : st[o] \in Active ~> st[o] \notin Active

\* Once the dispatcher is gone nothing will complete a request, so none is left
\* waiting (the requests it holds end with Disconnected).
EndsWithConnection == terminated => \A o \in Ops : st[o] \notin {"blocked", "sent"}

\* The packets in flight never outnumber the peer's receive maximum, which set_cap
\* was given and every request asks for before it sends (wait_readiness).
WithinReceiveMaximum == Len(inflight) <= cap

=============================================================================
