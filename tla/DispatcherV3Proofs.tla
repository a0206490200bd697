------------------------- MODULE DispatcherV3Proofs -------------------------
(***************************************************************************)
(* Proofs about the MQTT 3.1.1 server's and client's packet dispatchers,   *)
(* for any packet ids and topics and any number of calls in progress:      *)
(* every step is a CallStep (module PacketCallsProofs), so they keep what  *)
(* is promised to the peer.                                                *)
(*                                                                         *)
(* And about the two components that bound the work of a dispatcher, which *)
(* share no variable with it, for every setting of the bounds. IoTimers: a *)
(* timer flag that is set is backed by a timer (FlagsHaveTimer), a period  *)
(* of the read timer is judged by the bytes received in it                 *)
(* (ExtendedForRate), and the timer is not extended past max_timeout       *)
(* (MaxTimeoutKept). InFlight: no wake-up is lost (NoLostWake) and the     *)
(* calls in progress are counted exactly (CapExact).                       *)
(***************************************************************************)
EXTENDS DispatcherV3, PacketCallsProofs

-----------------------------------------------------------------------------
(* The MQTT 3.1.1 server. *)

\* Every item is a CallStep, a publish whose id is recorded and whose QoS is refused
\* after that included.
LEMMA ItemServer ==
    ASSUME CallsInv,
           \/ \E p \in Publishes : publish(p)
           \/ \E k \in AllKinds, id \in Ids, ok \in BOOLEAN : subscription(k, id, ok)
           \/ publish_ack
           \/ \E k \in AllKinds : other(k)
    PROVE  CallStep
<1>1. closed \in BOOLEAN /\ failed \in BOOLEAN /\ dropped \in BOOLEAN /\ 0 \notin inflight
  BY PacketAssumption DEF CallsInv, CallsTypeOK
<1>2. ASSUME NEW p \in Publishes, publish(p)
      PROVE  CallStep
  <2>1. p.id \in Ids \cup {0} /\ p.topic \in Topics \cup {Wild} /\ UNCHANGED closed
    BY <1>2 DEF Publishes, publish
  <2>2. CASE ToControl("protocol", p.id) /\ inflight' \in {inflight, Recorded(p.id)}
    BY <1>1, <2>1, <2>2, ControlStep DEF AllKinds
  <2>3. CASE closed /\ Ignored(p.id) /\ inflight' = Recorded(p.id)
    BY <1>1, <2>1, <2>3, StandStep DEF Ignored, Ended
  <2>4. CASE /\ p.topic # Wild /\ ~Duplicate(p.id) /\ inflight' = Recorded(p.id)
             /\ ToPublish(p.id, p.topic, p.topic, RouteV3(p.topic))
    <3>1. /\ RouteV3(p.topic) = IF p.topic \in Matched THEN p.topic ELSE NoTopic
          /\ RouteV3(p.topic) \in Matched \cup {NoTopic}
      BY DEF RouteV3, recognize
    <3>2. p.id \notin inflight
      BY <1>1, <2>4 DEF Duplicate
    <3>3. p.topic \in Topics \cup {NoTopic}
      BY <2>1, <2>4
    <3> QED BY <2>1, <2>4, <3>1, <3>2, <3>3, PublishStep
  <2> QED BY <1>2, <2>2, <2>3, <2>4 DEF publish, insert, Recorded
<1>3. ASSUME NEW k \in AllKinds, NEW id \in Ids, NEW ok \in BOOLEAN, subscription(k, id, ok)
      PROVE  CallStep
  <2>1. UNCHANGED closed /\ k \in {"subscribe", "unsubscribe"}
    BY <1>3 DEF subscription
  <2>2. CASE closed /\ Ignored(id) /\ UNCHANGED inflight
    BY <1>1, <2>1, <2>2, StandStep DEF Ignored, Ended
  <2>3. CASE ToControl("protocol", id) /\ UNCHANGED inflight
    BY <1>1, <2>1, <2>3, ControlStep DEF AllKinds
  <2>4. CASE id \notin inflight /\ inflight' = Recorded(id) /\ ToControl(k, id)
    BY <1>1, <2>1, <2>4, ControlStep
  <2>5. ~Duplicate(id) => id \notin inflight
    BY <1>1 DEF Duplicate
  <2> QED BY <1>3, <2>2, <2>3, <2>4, <2>5 DEF subscription, insert, Recorded
<1>4. ASSUME publish_ack
      PROVE  CallStep
  <2>1. UNCHANGED inflight
    BY <1>4 DEF publish_ack
  <2>2. CASE Ignored(0) /\ UNCHANGED closed
    BY <1>1, <2>1, <2>2, StandStep DEF Ignored
  <2>3. CASE ToControl("protocol", 0) /\ closed' = TRUE
    BY <1>1, <2>1, <2>3, ControlStep DEF AllKinds
  <2> QED BY <1>4, <2>2, <2>3, Zenon DEF publish_ack
<1>5. ASSUME NEW k \in AllKinds, other(k)
      PROVE  CallStep
  <2>1. UNCHANGED <<inflight, closed>>
    BY <1>5 DEF other
  <2>2. CASE Ignored(0)
    BY <1>1, <2>1, <2>2, StandStep DEF Ignored
  <2>3. CASE ToControl(k, 0)
    BY <1>1, <2>1, <2>3, ControlStep
  <2> QED BY <1>5, <2>2, <2>3 DEF other
<1> QED BY <1>2, <1>3, <1>4, <1>5

\* So is every answer of a service.
LEMMA AnswerServer ==
    ASSUME CallsInv, NEW i \in Slots,
           \/ publish_fn_ok(i) \/ publish_fn_err(i)
           \/ control_ok(i) \/ control_err(i) \/ nested(i)
    PROVE  CallStep
<1>1. closed \in BOOLEAN /\ failed \in BOOLEAN /\ CallIds(calls[i]) /\ ctl \in Seq(Slots)
  BY DEF CallsInv, CallsTypeOK
<1>2. Append(ctl, i) \in Seq(Slots) /\ (ctl # <<>> => Tail(ctl) \in Seq(Slots) /\ Append(Tail(ctl), i) \in Seq(Slots))
  BY <1>1
<1>3. inflight \ {0} = inflight
  BY PacketAssumption DEF CallsInv, CallsTypeOK
<1>4. CASE publish_fn_ok(i)
  <2>1. /\ Ends(i, TRUE) /\ inflight' = inflight \ {calls[i].id} /\ UNCHANGED <<closed, ctl, failed, down>>
        /\ calls[i].at = "publish"
    BY <1>4, Zenon DEF publish_fn_ok
  <2>2. (Owner(calls[i]) \/ calls[i].id = 0) /\ ~Reported(calls[i])
    BY <2>1 DEF Owner, Reported
  <2> QED BY <1>1, <2>1, <2>2, EndStep, Zenon
<1>5. CASE publish_fn_err(i)
  <2>1. /\ Passed(i, "error") /\ ctl' = Append(ctl, i) /\ calls[i].at = "publish"
        /\ UNCHANGED <<inflight, closed, failed, down, dropped>>
    BY <1>5 DEF publish_fn_err
  <2> QED BY <1>2, <2>1, PassStep
<1>6. CASE control_ok(i)
  <2>1. PICK ack \in Acks(calls[i].kind) :
              /\ inflight' = released(i, ack)
              /\ closed' = (closed \/ ack = "disconnect")
              /\ Ends(i, ack = "answer")
    BY <1>6 DEF control_ok
  <2>2. /\ UNCHANGED <<failed, down>> /\ ctl' \in Seq(Slots) /\ calls[i].at = "control"
    BY <1>2, <1>6 DEF control_ok, Served
  <2>3. CASE ack = "disconnect"
    <3>1. closed' = TRUE /\ inflight' = inflight
      BY <1>1, <2>1, <2>3, Zenon DEF released
    <3>2. Ends(i, FALSE)
      BY <2>1, <2>3, Zenon
    <3> QED BY <1>1, <2>2, <3>1, <3>2, EndStep, Zenon
  <2>4. CASE ack = "answer"
    <3>1. closed' = closed /\ inflight' = inflight \ {calls[i].id}
      BY <1>1, <2>1, <2>4 DEF released
    <3>2. Ends(i, TRUE)
      BY <2>1, <2>4, Zenon
    <3>3. calls[i].kind \in {"ping", "subscribe", "unsubscribe"}
      BY <2>1, <2>4 DEF Acks
    <3>4. (Owner(calls[i]) \/ calls[i].id = 0) /\ ~Reported(calls[i])
      BY <1>1, <2>2, <3>3 DEF CallIds, Owner, Reported, ErrorKinds
    <3> QED BY <1>1, <2>2, <3>1, <3>2, <3>4, EndStep, Zenon
  <2>5. CASE ack = "nothing"
    <3>1. closed' = closed /\ inflight' = inflight
      BY <1>1, <2>1, <2>5 DEF released
    <3>2. Ends(i, FALSE)
      BY <2>1, <2>5, Zenon
    <3>3. calls[i].kind \in {"wr_backpressure", "peer_gone"}
      BY <2>1, <2>5 DEF Acks
    <3>4. calls[i].id = 0 /\ ~Reported(calls[i])
      BY <1>1, <2>2, <3>3 DEF CallIds, Reported, ErrorKinds
    <3> QED BY <1>1, <1>3, <2>2, <3>1, <3>2, <3>4, EndStep, Zenon
  <2> QED BY <2>1, <2>3, <2>4, <2>5 DEF Acks
<1>7. CASE control_err(i)
  <2>1. calls[i].at = "control" /\ ctl # <<>> /\ UNCHANGED <<inflight, closed, down>>
    BY <1>7 DEF control_err, Served
  <2>2. CASE /\ calls[i].kind \notin ErrorKinds
             /\ calls' = [calls EXCEPT ![i].at = "nested"]
             /\ ctl' = Append(Tail(ctl), i)
             /\ UNCHANGED <<failed, dropped>>
    BY <1>2, <2>1, <2>2, PassStep, Zenon
  <2>3. CASE failed' = TRUE /\ Ends(i, FALSE) /\ ctl' = Tail(ctl)
    BY <1>1, <1>2, <2>1, <2>3, EndStep, Zenon
  <2> QED BY <1>7, <2>2, <2>3, Zenon DEF control_err, ErrorKinds
<1>8. CASE nested(i)
  <2>1. /\ Ends(i, FALSE) /\ ctl # <<>> /\ ctl' = Tail(ctl) /\ UNCHANGED <<inflight, down>>
        /\ (closed' = TRUE /\ failed' = failed) \/ (failed' = TRUE /\ closed' = closed)
    BY <1>8, Zenon DEF nested, Served
  <2>2. /\ closed' \in BOOLEAN /\ failed' \in BOOLEAN /\ (closed => closed') /\ (failed => failed')
        /\ closed' \/ failed'
    BY <1>1, <2>1, Latch, Zenon
  <2> QED BY <1>2, <2>1, <2>2, EndStep, Zenon
<1> QED BY <1>4, <1>5, <1>6, <1>7, <1>8

\* Every step of the MQTT 3.1.1 server's dispatcher is a CallStep.
LEMMA StepServer ==
    ASSUME CallsInv, Next
    PROVE  CallStep
<1>1. CASE \/ \E p \in Publishes : publish(p)
           \/ \E k \in AllKinds, id \in Ids, ok \in BOOLEAN : subscription(k, id, ok)
           \/ publish_ack
           \/ \E k \in AllKinds : other(k)
  BY <1>1, ItemServer
<1>2. ASSUME NEW i \in Slots,
             \/ publish_fn_ok(i) \/ publish_fn_err(i)
             \/ control_ok(i) \/ control_err(i) \/ nested(i)
      PROVE  CallStep
  BY <1>2, AnswerServer
<1>3. CASE Ending
  BY <1>3, EndingStep
<1> QED BY <1>1, <1>2, <1>3 DEF Next, AllKinds

-----------------------------------------------------------------------------
(* The MQTT 3.1.1 client. *)

Client == INSTANCE ClientDispatcherV3

\* The operators of PacketCalls mean the same in the MQTT 3.1.1 client's dispatcher.
LEMMA SharedClient ==
    /\ \A k, id : Client!ToControlNow(k, id) <=> ToControlNow(k, id)
    /\ \A id, want, got, to : Client!ToPublish(id, want, got, to) <=> ToPublish(id, want, got, to)
    /\ \A id : Client!insert(id) <=> inflight' = Recorded(id)
    /\ \A i, a : Client!Ends(i, a) <=> Ends(i, a)
    /\ \A i, k : Client!Passed(i, k) <=> Passed(i, k)
    /\ Client!Ending <=> Ending
BY DEF Client!ToControlNow, ToControlNow, Client!ToPublish, ToPublish, Client!Starts, Starts,
   Client!Message, Message, Client!Free, Free, Client!insert, Recorded,
   Client!Ends, Ends, Client!Passed, Passed,
   Client!Ending, Ending, Client!close, close, Client!stop, stop,
   Client!shutdown, shutdown, Client!shutdown_done, shutdown_done

\* Every item is a CallStep.
LEMMA ItemClient ==
    ASSUME CallsInv,
           \/ \E p \in Client!Publishes : Client!publish(p)
           \/ Client!acknowledge
           \/ \E k \in AllKinds : Client!other(k)
    PROVE  CallStep
<1>1. closed \in BOOLEAN /\ failed \in BOOLEAN /\ dropped \in BOOLEAN /\ 0 \notin inflight
  BY PacketAssumption DEF CallsInv, CallsTypeOK
<1>2. ASSUME NEW p \in Client!Publishes, Client!publish(p)
      PROVE  CallStep
  <2>1. p.id \in Ids \cup {0} /\ p.topic \in Topics /\ UNCHANGED closed
    BY <1>2 DEF Client!Publishes, Client!publish
  <2>2. CASE Client!Refused(p.id) /\ UNCHANGED inflight
    BY <1>1, <2>1, <2>2, StandStep DEF Client!Refused, Ended
  <2>3. CASE /\ p.id \notin inflight /\ inflight' = Recorded(p.id)
             /\ ToPublish(p.id, p.topic, p.topic, Client!RouteClientV3(p.topic))
    <3>1. /\ Client!RouteClientV3(p.topic) = IF p.topic \in Matched THEN p.topic ELSE NoTopic
          /\ Client!RouteClientV3(p.topic) \in Matched \cup {NoTopic}
      BY DEF Client!RouteClientV3, Client!recognize
    <3>2. p.topic \in Topics \cup {NoTopic}
      BY <2>1
    <3> QED BY <2>1, <2>3, <3>1, <3>2, PublishStep
  <2> QED BY <1>1, <1>2, <2>2, <2>3, SharedClient DEF Client!publish
<1>3. ASSUME Client!acknowledge
      PROVE  CallStep
  <2>1. UNCHANGED inflight
    BY <1>3 DEF Client!acknowledge
  <2>2. CASE Client!Ignored(0) /\ UNCHANGED closed
    BY <1>1, <2>1, <2>2, StandStep DEF Client!Ignored
  <2>3. CASE Client!Refused(0) /\ closed' = TRUE
    BY <1>1, <2>1, <2>3, StandStep DEF Client!Refused
  <2> QED BY <1>3, <2>2, <2>3, Zenon DEF Client!acknowledge
<1>4. ASSUME NEW k \in AllKinds, Client!other(k)
      PROVE  CallStep
  <2>1. UNCHANGED <<inflight, closed>>
    BY <1>4 DEF Client!other
  <2>2. CASE Client!Refused(0)
    BY <1>1, <2>1, <2>2, StandStep DEF Client!Refused
  <2>3. CASE ToControlNow(k, 0)
    BY <1>1, <2>1, <2>3, ControlStep
  <2>4. CASE Client!Ignored(0)
    BY <1>1, <2>1, <2>4, StandStep DEF Client!Ignored
  <2> QED BY <1>4, <2>2, <2>3, <2>4, SharedClient DEF Client!other
<1> QED BY <1>2, <1>3, <1>4

\* So is every answer of a service.
LEMMA AnswerClient ==
    ASSUME CallsInv, NEW i \in Slots,
           \/ Client!publish_fn_ok(i) \/ Client!publish_fn_pass(i)
           \/ Client!control_ok(i) \/ Client!control_err(i)
    PROVE  CallStep
<1>1. closed \in BOOLEAN /\ failed \in BOOLEAN /\ CallIds(calls[i]) /\ ctl \in Seq(Slots)
  BY DEF CallsInv, CallsTypeOK
<1>2. ctl' = ctl
  BY Zenon DEF Client!publish_fn_ok, Client!publish_fn_pass, Client!control_ok, Client!control_err
<1>3. inflight \ {0} = inflight
  BY PacketAssumption DEF CallsInv, CallsTypeOK
<1>4. CASE Client!publish_fn_ok(i)
  <2>1. /\ Ends(i, TRUE) /\ inflight' = inflight \ {calls[i].id} /\ UNCHANGED <<closed, failed, down>>
        /\ calls[i].at = "publish"
    BY <1>4, SharedClient, Zenon DEF Client!publish_fn_ok
  <2>2. (Owner(calls[i]) \/ calls[i].id = 0) /\ ~Reported(calls[i])
    BY <2>1 DEF Owner, Reported
  <2> QED BY <1>1, <1>2, <2>1, <2>2, EndStep, Zenon
<1>5. CASE Client!publish_fn_pass(i)
  <2>1. /\ \E k \in {"publish", "error"} : Passed(i, k)
        /\ calls[i].at = "publish" /\ UNCHANGED <<inflight, closed, failed, down, dropped>>
    BY <1>5, SharedClient DEF Client!publish_fn_pass
  <2> QED BY <1>1, <1>2, <2>1, PassStep, SMTT(30)
<1>6. CASE Client!control_ok(i)
  <2>1. PICK ack \in Client!Acks(calls[i].kind) :
              /\ inflight' = Client!released(i, ack)
              /\ closed' = (closed \/ ack = "disconnect")
              /\ Ends(i, ack = "answer")
    BY <1>6, SharedClient DEF Client!control_ok
  <2>2. UNCHANGED <<failed, down>> /\ calls[i].at = "control"
    BY <1>6 DEF Client!control_ok
  <2>3. CASE ack = "disconnect"
    <3>1. closed' = TRUE /\ inflight' = inflight
      BY <1>1, <2>1, <2>3, Zenon DEF Client!released
    <3>2. Ends(i, FALSE)
      BY <2>1, <2>3, Zenon
    <3> QED BY <1>1, <1>2, <2>2, <3>1, <3>2, EndStep, Zenon
  <2>4. CASE ack = "answer"
    <3>1. closed' = closed /\ inflight' = inflight \ {calls[i].id}
      BY <1>1, <2>1, <2>4 DEF Client!released
    <3>2. Ends(i, TRUE)
      BY <2>1, <2>4, Zenon
    <3>3. calls[i].kind = "publish"
      BY <2>1, <2>4 DEF Client!Acks
    <3>4. (Owner(calls[i]) \/ calls[i].id = 0) /\ ~Reported(calls[i])
      BY <2>2, <3>3 DEF Owner, Reported, ErrorKinds
    <3> QED BY <1>1, <1>2, <2>2, <3>1, <3>2, <3>4, EndStep, Zenon
  <2>5. CASE ack = "nothing"
    <3>1. closed' = closed /\ inflight' = inflight
      BY <1>1, <2>1, <2>5 DEF Client!released
    <3>2. Ends(i, FALSE)
      BY <2>1, <2>5, Zenon
    <3>3. calls[i].kind = "peer_gone"
      BY <2>1, <2>5 DEF Client!Acks
    <3>4. calls[i].id = 0 /\ ~Reported(calls[i])
      BY <1>1, <2>2, <3>3 DEF CallIds, Reported, ErrorKinds
    <3> QED BY <1>1, <1>2, <1>3, <2>2, <3>1, <3>2, <3>4, EndStep, Zenon
  <2> QED BY <2>1, <2>3, <2>4, <2>5, SMTT(30) DEF Client!Acks
<1>7. CASE Client!control_err(i)
  <2>1. failed' = TRUE /\ Ends(i, FALSE) /\ UNCHANGED <<inflight, closed, down>>
    BY <1>7, SharedClient, Zenon DEF Client!control_err
  <2> QED BY <1>1, <1>2, <2>1, EndStep, Zenon
<1> QED BY <1>4, <1>5, <1>6, <1>7

\* Every step of the MQTT 3.1.1 client's dispatcher is a CallStep.
LEMMA StepClient ==
    ASSUME CallsInv, Client!Next
    PROVE  CallStep
<1>1. CASE \/ \E p \in Client!Publishes : Client!publish(p)
           \/ Client!acknowledge
           \/ \E k \in AllKinds : Client!other(k)
  BY <1>1, ItemClient
<1>2. ASSUME NEW i \in Slots,
             \/ Client!publish_fn_ok(i) \/ Client!publish_fn_pass(i)
             \/ Client!control_ok(i) \/ Client!control_err(i)
      PROVE  CallStep
  BY <1>2, AnswerClient
<1>3. CASE Ending
  BY <1>3, EndingStep
<1> QED BY <1>1, <1>2, <1>3, SharedClient DEF Client!Next, Client!AllKinds, AllKinds

-----------------------------------------------------------------------------
(* The theorems. *)

\* Both dispatchers start in the invariant.
LEMMA InitV3Inv ==
    ASSUME Init \/ Client!Init
    PROVE  CallsInit /\ CallsInv
<1>1. CallsInit
  BY DEF Init, Client!Init, Client!CallsInit, CallsInit, Client!Free, Free, Client!Message, Message
<1> QED BY <1>1, InitCallsInv

\* A step of theirs is a CallStep and keeps the invariant; so does no step.
LEMMA NextV3Inv ==
    ASSUME CallsInv, [Next]_callvars \/ [Client!Next]_Client!callvars
    PROVE  CallsInv' /\ [Promise!Next]_Promise!vars
<1>1. CASE Next \/ Client!Next
  <2>1. CallStep
    BY <1>1, StepServer, StepClient
  <2> QED BY <2>1, StepCallsInv, NextPromise
<1>2. CASE UNCHANGED callvars \/ UNCHANGED Client!callvars
  <2>1. UNCHANGED callvars
    BY <1>2 DEF Client!callvars, callvars
  <2> QED BY <2>1, StutterCalls
<1> QED BY <1>1, <1>2

\* So the invariant holds throughout, of the server's dispatcher and of the client's.
LEMMA V3Invariance == (Spec => []CallsInv) /\ (Client!Spec => []CallsInv)
<1>1. (Init \/ Client!Init) => CallsInv
  BY InitV3Inv
<1>2. CallsInv /\ ([Next]_callvars \/ [Client!Next]_Client!callvars) => CallsInv'
  BY NextV3Inv
<1> QED BY <1>1, <1>2, PTL DEF Spec, Client!Spec

\* No packet id is in the hands of two calls at a time, in the server's dispatcher
\* or the client's: a packet with an id in use is refused, and an id is given up by
\* the step that ends its call.
THEOREM V3OneCallPerId == (Spec => []OneCallPerId) /\ (Client!Spec => []OneCallPerId)
<1>1. CallsInv => OneCallPerId
  BY DEF CallsInv
<1> QED BY <1>1, V3Invariance, PTL

\* An id is in the table only while a call has it, or on a connection that ends: a
\* publish refused for its QoS after its id was recorded included.
THEOREM V3NoLeakedIds == (Spec => []NoLeakedIds) /\ (Client!Spec => []NoLeakedIds)
<1>1. CallsInv => NoLeakedIds
  BY DEF CallsInv
<1> QED BY <1>1, V3Invariance, PTL

\* A publish reaches the handler of its topic.
THEOREM V3RoutedAsMeant == (Spec => []RoutedAsMeant) /\ (Client!Spec => []RoutedAsMeant)
<1>1. CallsInv => RoutedAsMeant
  BY DEF CallsInv
<1> QED BY <1>1, V3Invariance, PTL

\* Both dispatchers implement PacketPromise: a packet with an id is handled by one
\* call at a time, and is left without an answer only in a step after which the
\* connection does not go on.
THEOREM V3PromiseKept == (Spec => PromiseKept) /\ (Client!Spec => PromiseKept)
<1>1. (Init \/ Client!Init) => Promise!Init
  BY InitV3Inv, InitPromise
<1>2. CallsInv /\ ([Next]_callvars \/ [Client!Next]_Client!callvars) => [Promise!Next]_Promise!vars
  BY NextV3Inv
<1> QED BY <1>1, <1>2, V3Invariance, PTL DEF Spec, Client!Spec, PromiseKept, Promise!Spec

-----------------------------------------------------------------------------
(* The timers. *)

CONSTANTS KeepAlive, ReadTimeout, MaxTimeout, Rate, Chunks, Header, MaxBuf, Width, Events
VARIABLES
    pc, st, item, ka_timeout, read_timeout, read_remains, read_remains_prev, read_max_timeout,
    timer, fired, buf, header, full, busy, unseen, got, told, missed, periods, verdict

Timers == INSTANCE IoTimers

\* What the proofs need of the types.
Types ==
    /\ ka_timeout \in BOOLEAN /\ read_timeout \in BOOLEAN
    /\ fired \in BOOLEAN /\ header \in BOOLEAN
    /\ timer \in Nat /\ buf \in Nat /\ unseen \in Int /\ got \in Int
    /\ read_remains \in Nat /\ read_remains_prev \in Nat /\ read_max_timeout \in Nat
    /\ told \in BOOLEAN /\ missed \in Timers!Missed /\ periods \in Nat

\* The sizes are natural numbers.
LEMMA SizesAreNat ==
    ASSUME Timers!TimersAssumption
    PROVE  /\ Header \in Nat /\ Rate \in Nat /\ Width \in Nat
           /\ KeepAlive \in Nat /\ ReadTimeout \in Nat /\ MaxTimeout \in Nat
BY Timers!TimersAssumption

FlagsInv == Types /\ Timers!FlagsHaveTimer /\ (read_timeout => ReadTimeout # 0)

\* The flags have a timer at the start, when none is set.
LEMMA InitFlags == Timers!Init => FlagsInv
<1>. SUFFICES ASSUME Timers!Init PROVE FlagsInv
  OBVIOUS
<1>1. /\ timer = 0 /\ buf = 0 /\ unseen = 0 /\ got = 0
      /\ read_remains = 0 /\ read_remains_prev = 0 /\ read_max_timeout = 0
      /\ missed = "none" /\ periods = 0
      /\ ~ka_timeout /\ ~read_timeout /\ ~fired /\ ~header
      /\ ka_timeout \in BOOLEAN /\ read_timeout \in BOOLEAN
      /\ fired \in BOOLEAN /\ header \in BOOLEAN /\ told \in BOOLEAN
  BY Zenon DEF Timers!Init
<1>. QED BY <1>1 DEF FlagsInv, Types, Timers!FlagsHaveTimer, Timers!Missed

\* update_timer sets a flag only with a timer that runs.
LEMMA UpdateFlags ==
    ASSUME Timers!TimersAssumption, FlagsInv, NEW r \in Nat, Timers!update_timer(r), ~fired, item = "none" \/ item' = item,
           fired' = fired
    PROVE  /\ ka_timeout' \in BOOLEAN /\ read_timeout' \in BOOLEAN /\ timer' \in Nat
           /\ read_remains' \in Nat /\ read_remains_prev' \in Nat /\ read_max_timeout' \in Nat
           /\ Timers!FlagsHaveTimer' /\ (read_timeout' => ReadTimeout # 0)
<1>. USE SizesAreNat DEF FlagsInv, Types, Timers!FlagsHaveTimer, Timers!flags, Timers!rates
<1>1. CASE /\ read_timeout
           /\ read_remains' = r
           /\ UNCHANGED <<Timers!flags, read_remains_prev, read_max_timeout, timer>>
  BY <1>1
<1>2. CASE /\ ~read_timeout /\ read_remains = 0 /\ r = 0
           /\ ka_timeout' = (ka_timeout \/ KeepAlive # 0)
           /\ timer' = IF KeepAlive # 0 /\ ~ka_timeout THEN KeepAlive ELSE timer
           /\ UNCHANGED <<read_timeout, Timers!rates>>
  BY <1>2
<1>3. CASE ~read_timeout /\ ReadTimeout = 0 /\ UNCHANGED <<Timers!flags, Timers!rates, timer>>
  BY <1>3
<1>4. CASE /\ ReadTimeout # 0 /\ read_timeout' = TRUE /\ UNCHANGED ka_timeout
           /\ read_remains' = r /\ read_remains_prev' = 0 /\ read_max_timeout' = MaxTimeout
           /\ timer' = ReadTimeout
  BY <1>4
<1>. QED BY <1>1, <1>2, <1>3, <1>4, Zenon DEF Timers!update_timer

\* handle_timeout restarts the timer whose flag stays, or ends the connection.
LEMMA TimeoutFlags ==
    ASSUME Timers!TimersAssumption, FlagsInv, Timers!handle_timeout, UNCHANGED Timers!flags
    PROVE  /\ timer' \in Nat /\ got' \in Int /\ told' \in BOOLEAN /\ missed' \in Timers!Missed /\ periods' \in Nat
           /\ read_remains' \in Nat /\ read_remains_prev' \in Nat /\ read_max_timeout' \in Nat
           /\ Timers!FlagsHaveTimer'
<1>. USE SizesAreNat
    DEF FlagsInv, Types, Timers!FlagsHaveTimer, Timers!flags, Timers!rates, Timers!period,
        Timers!Stopped, Timers!NextPeriod, Timers!left, Timers!Missed
<1>1. CASE read_timeout
  <2>1. /\ read_remains' \in Nat /\ read_remains_prev' \in Nat /\ read_max_timeout' \in Nat
    BY <1>1 DEF Timers!handle_timeout
  <2>2. \/ timer' = ReadTimeout /\ Timers!NextPeriod /\ UNCHANGED <<st, item>>
        \/ Timers!Stopped("ReadTimeout") /\ UNCHANGED <<timer, Timers!period>>
    BY <1>1, Zenon DEF Timers!handle_timeout
  <2>3. CASE timer' = ReadTimeout /\ Timers!NextPeriod /\ UNCHANGED <<st, item>>
    <3>1. timer' \in Nat /\ timer' > 0 /\ got' \in Int /\ periods' \in Nat /\ missed' \in Timers!Missed
      BY <1>1, <2>3
    <3>2. told' \in BOOLEAN
      BY <2>3, Zenon
    <3>. QED BY <2>1, <3>1, <3>2, Zenon
  <2>4. CASE Timers!Stopped("ReadTimeout") /\ UNCHANGED <<timer, Timers!period>>
    BY <2>1, <2>4
  <2>. QED BY <2>2, <2>3, <2>4, ZenonT(30)
<1>2. CASE ~read_timeout
  BY <1>2 DEF Timers!handle_timeout
<1>. QED BY <1>1, <1>2

\* Every step keeps a set flag backed.
LEMMA NextFlags ==
    ASSUME Timers!TimersAssumption, FlagsInv, [Timers!Next]_Timers!vars
    PROVE  FlagsInv'
<1>1. CASE Timers!poll
  BY <1>1
      DEF Timers!poll, FlagsInv, Types, Timers!FlagsHaveTimer, Timers!flags, Timers!rates,
          Timers!period
<1>2. CASE Timers!poll_pool \/ Timers!poll_read_pause
  <2>1. /\ Timers!TimersRemoved /\ UNCHANGED <<Timers!rates, buf, header>>
        /\ fired' = fired \/ fired' = FALSE
    BY <1>2, Zenon DEF Timers!poll_pool, Timers!poll_read_pause
  <2>2. timer' \in Nat /\ got' \in Int /\ unseen' \in Int /\ periods' \in Nat /\ missed' \in Timers!Missed
    BY <2>1 DEF Timers!TimersRemoved, Timers!NoPeriod, FlagsInv, Types, Timers!Missed
  <2>. QED BY <2>1, <2>2, Zenon
      DEF Timers!TimersRemoved, Timers!NoPeriod, FlagsInv, Types, Timers!FlagsHaveTimer,
          Timers!rates
<1>3. CASE Timers!decode_item
  <2>1. buf' \in Nat /\ unseen' \in Int
    BY <1>3 DEF Timers!decode_item, FlagsInv, Types
  <2>2. Timers!update_timer_item /\ Timers!NoPeriod /\ header' = FALSE /\ fired' = fired
    BY <1>3, Zenon DEF Timers!decode_item
  <2>3. got' \in Int /\ periods' \in Nat /\ missed' \in Timers!Missed /\ read_remains' \in Nat
    BY <2>2 DEF Timers!NoPeriod, Timers!update_timer_item, Timers!Missed
  <2>. QED BY <2>1, <2>2, <2>3, Zenon
      DEF Timers!update_timer_item, Timers!NoPeriod, FlagsInv, Types, Timers!FlagsHaveTimer
<1>4. CASE Timers!decode_none
  <2>1. buf' \in Nat /\ header' \in BOOLEAN
    <3>1. CASE header' = TRUE /\ buf >= Header /\ buf' = buf - Header
      BY <3>1, SizesAreNat DEF FlagsInv, Types
    <3>2. CASE UNCHANGED <<buf, header>>
      BY <3>2 DEF FlagsInv, Types
    <3>. QED BY <1>4, <3>1, <3>2, Zenon DEF Timers!decode_none
  <2>2. CASE /\ ~fired
             /\ Timers!update_timer(buf') /\ got' = got + unseen + buf' - buf /\ unseen' = 0 /\ told' = TRUE
             /\ UNCHANGED <<item, fired, missed, periods>>
    <3>1. /\ ka_timeout' \in BOOLEAN /\ read_timeout' \in BOOLEAN /\ timer' \in Nat
          /\ read_remains' \in Nat /\ read_remains_prev' \in Nat /\ read_max_timeout' \in Nat
          /\ Timers!FlagsHaveTimer' /\ (read_timeout' => ReadTimeout # 0)
      BY <2>1, <2>2, UpdateFlags
    <3>2. /\ got' \in Int /\ unseen' \in Int /\ told' \in BOOLEAN /\ fired' \in BOOLEAN
          /\ missed' \in Timers!Missed /\ periods' \in Nat
      BY <2>1, <2>2 DEF FlagsInv, Types
    <3>. QED BY <2>1, <3>1, <3>2 DEF FlagsInv, Types
  <2>3. CASE fired' = FALSE /\ Timers!handle_timeout /\ unseen' = unseen + buf' - buf /\ UNCHANGED Timers!flags
    <3>1. unseen' \in Int
      BY <2>1, <2>3 DEF FlagsInv, Types
    <3>. QED BY <2>1, <2>3, <3>1, TimeoutFlags, ZenonT(30) DEF FlagsInv, Types, Timers!flags
  <2>4. CASE UNCHANGED <<item, Timers!flags, Timers!rates, timer, fired, Timers!period>> /\ unseen' = unseen + buf' - buf
    <3>1. unseen' \in Int
      BY <2>1, <2>4 DEF FlagsInv, Types
    <3>. QED BY <2>1, <2>4, <3>1, SMTT(30)
        DEF FlagsInv, Types, Timers!FlagsHaveTimer, Timers!flags, Timers!rates, Timers!period
  <2>. QED BY <1>4, <2>2, <2>3, <2>4, Zenon DEF Timers!decode_none
<1>5. CASE Timers!backpressure
  BY <1>5
      DEF Timers!backpressure, FlagsInv, Types, Timers!FlagsHaveTimer, Timers!flags,
          Timers!rates, Timers!period
<1>6. CASE Timers!recv
  <2>1. PICK n \in Nat : buf' = buf + n /\ unseen' = unseen + n
    BY <1>6, Timers!TimersAssumption DEF Timers!recv
  <2>. QED BY <1>6, <2>1
      DEF Timers!recv, Timers!Outside, FlagsInv, Types, Timers!FlagsHaveTimer, Timers!flags,
          Timers!rates, Timers!period
<1>7. CASE Timers!tick
  BY <1>7
      DEF Timers!tick, Timers!Outside, FlagsInv, Types, Timers!FlagsHaveTimer, Timers!flags,
          Timers!rates, Timers!period
<1>8. CASE Timers!write_buffer \/ Timers!service
  BY <1>8
      DEF Timers!write_buffer, Timers!service, Timers!Outside, FlagsInv, Types,
          Timers!FlagsHaveTimer, Timers!flags, Timers!rates, Timers!period
<1>9. CASE UNCHANGED Timers!vars
  BY <1>9 DEF Timers!vars, FlagsInv, Types, Timers!FlagsHaveTimer
<1>. QED BY <1>1, <1>2, <1>3, <1>4, <1>5, <1>6, <1>7, <1>8, <1>9, SMTT(30)
    DEF Timers!Next, Timers!Polling

\* A flag of the dispatcher is never set without a timer that will expire, an
\* expiry it has yet to handle, or the end of the connection.
THEOREM TimersFlagsHaveTimer ==
    ASSUME Timers!TimersAssumption
    PROVE  Timers!Spec => []Timers!FlagsHaveTimer
<1>1. FlagsInv => Timers!FlagsHaveTimer
  BY DEF FlagsInv
<1>. QED BY <1>1, InitFlags, NextFlags, PTL DEF Timers!Spec

-----------------------------------------------------------------------------
(* max_timeout: what is Timers!left of it and what its timer has used. *)

\* The seconds a read timer has been extended by.
Used(n) == n * ReadTimeout

MaxInv ==
    /\ ~read_timeout => periods = 0
    /\ st # "Stop" /\ read_timeout /\ MaxTimeout # 0 =>
         read_max_timeout > 0 /\ read_max_timeout + Used(periods) = MaxTimeout
    /\ Timers!MaxTimeoutKept

\* One more period uses ReadTimeout.
LEMMA UsedMore ==
    ASSUME Timers!TimersAssumption, NEW n \in Nat
    PROVE  Used(n) \in Nat /\ Used(n + 1) = Used(n) + ReadTimeout /\ Used(0) = 0
BY SizesAreNat DEF Used

\* handle_timeout extends a timer only with something left of max_timeout.
LEMMA TimeoutMax ==
    ASSUME Timers!TimersAssumption, FlagsInv, MaxInv, st # "Stop", Timers!handle_timeout, UNCHANGED Timers!flags
    PROVE  MaxInv'
<1>1. /\ periods \in Nat /\ read_max_timeout \in Nat /\ ReadTimeout \in Nat /\ MaxTimeout \in Nat
      /\ read_timeout' = read_timeout
  BY SizesAreNat DEF FlagsInv, Types, Timers!flags
<1>2. CASE st' = "Stop" /\ periods' = periods
  BY <1>1, <1>2 DEF MaxInv, Timers!MaxTimeoutKept
<1>3. CASE ~read_timeout /\ UNCHANGED <<st, periods>>
  BY <1>1, <1>3 DEF MaxInv, Timers!MaxTimeoutKept
<1>4. CASE /\ read_timeout /\ Timers!total > Rate /\ (MaxTimeout = 0 \/ Timers!left # 0)
           /\ read_max_timeout' = IF MaxTimeout = 0 THEN read_max_timeout ELSE Timers!left
           /\ periods' = periods + 1
  <2>1. CASE MaxTimeout = 0
    BY <1>1, <1>4, <2>1 DEF MaxInv, Timers!MaxTimeoutKept
  <2>2. CASE MaxTimeout # 0
    <3>1. read_max_timeout + Used(periods) = MaxTimeout
      BY <1>4, <2>2 DEF MaxInv
    <3>2. read_max_timeout' = read_max_timeout - ReadTimeout /\ read_max_timeout' > 0
      BY <1>1, <1>4, <2>2 DEF Timers!left
    <3>3. Used(periods) \in Nat /\ Used(periods + 1) = Used(periods) + ReadTimeout
      BY <1>1, UsedMore
    <3>4. read_max_timeout' + Used(periods') = MaxTimeout /\ Used(periods') < MaxTimeout
      BY <1>1, <1>4, <3>1, <3>2, <3>3, SMTT(30)
    <3>. QED BY <1>1, <1>4, <3>2, <3>4, ZenonT(30) DEF MaxInv, Timers!MaxTimeoutKept, Used
  <2>. QED BY <2>1, <2>2
<1>5. \/ /\ read_timeout /\ Timers!total > Rate /\ (MaxTimeout = 0 \/ Timers!left # 0)
         /\ read_max_timeout' = IF MaxTimeout = 0 THEN read_max_timeout ELSE Timers!left
         /\ periods' = periods + 1
      \/ st' = "Stop" /\ periods' = periods
      \/ ~read_timeout /\ UNCHANGED <<st, periods>>
  <2>1. CASE read_timeout
    BY <2>1, SMTT(30) DEF Timers!handle_timeout, Timers!NextPeriod, Timers!Stopped, Timers!period
  <2>2. CASE ~read_timeout
    BY <2>2 DEF Timers!handle_timeout, Timers!Stopped, Timers!period
  <2>. QED BY <2>1, <2>2, SMTT(30)
<1>. QED BY <1>2, <1>3, <1>4, <1>5

\* Every step keeps the account of max_timeout.
LEMMA NextMax ==
    ASSUME Timers!TimersAssumption, FlagsInv, MaxInv, [Timers!Next]_Timers!vars
    PROVE  MaxInv'
<1>0. Used(0) = 0 /\ MaxTimeout \in Nat /\ periods \in Nat /\ read_max_timeout \in Nat
  BY UsedMore, SizesAreNat DEF FlagsInv, Types
<1>1. CASE UNCHANGED <<read_timeout, read_max_timeout, periods>> /\ (st' # "Stop" => st # "Stop")
  BY <1>1 DEF MaxInv, Timers!MaxTimeoutKept, Used
<1>2. CASE ~read_timeout' /\ periods' = 0
  BY <1>2 DEF MaxInv, Timers!MaxTimeoutKept
<1>3. CASE Timers!decode_none
  <2>0. st # "Stop"
    BY <1>3 DEF Timers!decode_none, Timers!Decoding
  <2>1. CASE Timers!update_timer(buf') /\ UNCHANGED <<st, periods>>
    <3>1. CASE UNCHANGED <<read_timeout, read_max_timeout>>
      BY <1>1, <2>1, <3>1
    <3>2. CASE ~read_timeout /\ read_timeout' = TRUE /\ read_max_timeout' = MaxTimeout
      <4>1. periods' = 0
        BY <2>1, <3>2 DEF MaxInv
      <4>. QED BY <1>0, <3>2, <4>1 DEF MaxInv, Timers!MaxTimeoutKept, Used
    <3>. QED BY <2>1, <3>1, <3>2, Zenon DEF Timers!update_timer, Timers!flags, Timers!rates
  <2>2. CASE Timers!handle_timeout /\ UNCHANGED Timers!flags
    BY <2>0, <2>2, TimeoutMax, SMTT(30)
  <2>3. CASE UNCHANGED <<Timers!flags, Timers!rates, Timers!period>>
    BY <1>1, <2>0, <2>3, SMTT(30) DEF Timers!flags, Timers!rates, Timers!period
  <2>. QED BY <1>3, <2>1, <2>2, <2>3, ZenonT(30) DEF Timers!decode_none
<1>4. CASE Timers!decode_item
  BY <1>2, <1>4, SMTT(30) DEF Timers!decode_item, Timers!update_timer_item, Timers!NoPeriod
<1>5. CASE Timers!poll_pool \/ Timers!poll_read_pause
  BY <1>2, <1>5, SMTT(30) DEF Timers!poll_pool, Timers!poll_read_pause, Timers!TimersRemoved, Timers!NoPeriod
<1>6. CASE Timers!poll \/ Timers!backpressure
  BY <1>1, <1>6, SMTT(30) DEF Timers!poll, Timers!backpressure, Timers!flags, Timers!rates, Timers!period
<1>7. CASE Timers!recv \/ Timers!tick \/ Timers!write_buffer \/ Timers!service
  BY <1>1, <1>7, SMTT(30)
      DEF Timers!recv, Timers!tick, Timers!write_buffer, Timers!service, Timers!Outside,
          Timers!flags, Timers!rates, Timers!period
<1>8. CASE UNCHANGED Timers!vars
  BY <1>1, <1>8, Zenon DEF Timers!vars
<1>. QED BY <1>3, <1>4, <1>5, <1>6, <1>7, <1>8, SMTT(30) DEF Timers!Next, Timers!Polling

\* A read timer is extended only while max_timeout has not passed, also for a peer that
\* keeps the rate (io.rs handle_timeout, read_max_timeout).
THEOREM TimersMaxTimeoutKept ==
    ASSUME Timers!TimersAssumption
    PROVE  Timers!Spec => []Timers!MaxTimeoutKept
<1>1. FlagsInv /\ MaxInv /\ [Timers!Next]_Timers!vars => (FlagsInv /\ MaxInv)'
  BY NextFlags, NextMax
<1>2. Timers!Init => FlagsInv /\ MaxInv
  <2>1. Timers!Init => MaxInv
    BY DEF Timers!Init, MaxInv, Timers!MaxTimeoutKept
  <2>. QED BY <2>1, InitFlags, SMTT(30)
<1>3. MaxInv => Timers!MaxTimeoutKept
  BY DEF MaxInv
<1>. QED BY <1>1, <1>2, <1>3, PTL DEF Timers!Spec

-----------------------------------------------------------------------------
(* The rate. What Timers!update_timer noted of a frame (read_remains) and what it had *)
(* noted in the earlier periods (read_remains_prev) are related to what came   *)
(* in the current Timers!period.                                                      *)

\* What was noted, in a period in which it was: no less than before the period; and it is
\* of the buffer as it is, or of one whose header has been consumed since.
Noted ==
    /\ read_remains = read_remains_prev + got /\ read_remains_prev <= read_remains
    /\ buf = read_remains + unseen
    /\ read_remains <= buf \/ (read_remains_prev = 0 /\ read_remains < Header)
    /\ ~header => read_remains < Header

RateInv ==
    /\ ~read_timeout => buf = got + unseen
    /\ read_timeout =>
         /\ buf = read_remains_prev + got + unseen
         /\ read_remains_prev = 0 \/ (header /\ read_remains_prev <= buf)
         /\ told => Noted

\* After a period without a look at the buffer nothing is noted.
WrapInv ==
    read_timeout => (~told => read_remains = 0) /\ (missed = "last" => read_remains_prev = 0)

PeriodInv ==
    /\ ~read_timeout => missed = "none"
    /\ st # "Stop" => WrapInv
    /\ Header <= Rate + 1 /\ st # "Stop" /\ missed = "none" => RateInv
    /\ Timers!ExtendedForRate

\* Nothing is noted and nothing is in the buffer at the start.
LEMMA InitPeriod == Timers!Init => PeriodInv
<1>. SUFFICES ASSUME Timers!Init PROVE PeriodInv
  OBVIOUS
<1>1. /\ buf = 0 /\ unseen = 0 /\ got = 0 /\ ~read_timeout /\ missed = "none"
      /\ verdict = [got |-> 0, told |-> FALSE, missed |-> "none", is |-> "none"]
  BY Zenon DEF Timers!Init
<1>2. ~verdict.told /\ verdict.missed # "last"
  BY <1>1
<1>. QED BY <1>1, <1>2 DEF PeriodInv, RateInv, WrapInv, Timers!ExtendedForRate

\* The decoder consumes a header at most once in a frame.
LEMMA Consumed ==
    ASSUME Timers!TimersAssumption, FlagsInv, Timers!decode_none
    PROVE  /\ buf' \in Nat /\ buf' <= buf
           /\ header => buf' = buf /\ header'
           /\ ~header' => buf' = buf /\ ~header /\ buf' < Header
<1>0. buf \in Nat /\ header \in BOOLEAN
  BY DEF FlagsInv, Types
<1>1. CASE ~header /\ buf >= Header
  <2>1. header' = TRUE /\ buf' = buf - Header
    BY <1>1, Zenon DEF Timers!decode_none
  <2>2. buf' \in Nat /\ buf' <= buf
    BY <1>0, <1>1, <2>1, SizesAreNat
  <2>. QED BY <1>1, <2>1, <2>2, Zenon
<1>2. CASE ~(~header /\ buf >= Header)
  <2>1. buf' = buf /\ header' = header
    BY <1>2, Zenon DEF Timers!decode_none
  <2>2. buf' \in Nat /\ buf' <= buf
    BY <1>0, <2>1
  <2>3. buf >= Header \/ buf < Header
    BY <1>0, SizesAreNat
  <2>. QED BY <1>2, <2>1, <2>2, <2>3, Zenon
<1>. QED BY <1>1, <1>2

\* The account of a buffer, when it has changed and is noted or not.
LEMMA Sums ==
    /\ \A n \in Int : n + 0 = n /\ 0 + n = n /\ n <= n
    /\ \A n \in Nat : n \in Int /\ 0 <= n
OBVIOUS

\* What came is noted, or not.
Looked == got' = got + unseen + buf' - buf /\ unseen' = 0
NotLooked == unseen' = unseen + buf' - buf

\* A change of the buffer is accounted for in what was noted, or in what was not.
LEMMA Accounted ==
    ASSUME NEW b \in Nat, NEW b1 \in Nat, NEW p \in Nat, NEW g \in Int, NEW u \in Int, b = p + g + u
    PROVE  b1 = p + (g + u + b1 - b) /\ b1 = p + g + (u + b1 - b)
OBVIOUS

\* So it is from the start of a frame.
LEMMA AccountedFirst ==
    ASSUME NEW b \in Nat, NEW b1 \in Nat, NEW g \in Int, NEW u \in Int, b = g + u
    PROVE  b1 = g + u + b1 - b /\ b1 = g + (u + b1 - b)
OBVIOUS

\* Being told of the buffer brings the notes up to date.
LEMMA UpdateRate ==
    ASSUME Timers!TimersAssumption, FlagsInv, Timers!decode_none, RateInv, Timers!update_timer(buf'),
           Looked
    PROVE  RateInv'
<1>0. /\ buf' \in Nat /\ buf' <= buf
      /\ header => buf' = buf /\ header'
      /\ ~header' => buf' < Header
  BY Consumed, Zenon
<1>1. /\ buf \in Nat /\ got \in Int /\ unseen \in Int
      /\ read_remains \in Nat /\ read_remains_prev \in Nat
  BY Zenon DEF FlagsInv, Types
<1>2. CASE read_timeout
  <2>1. read_remains' = buf' /\ read_remains_prev' = read_remains_prev /\ read_timeout'
    BY <1>2 DEF Timers!update_timer, Timers!flags
  <2>2. /\ buf = read_remains_prev + got + unseen
        /\ read_remains_prev = 0 \/ (header /\ read_remains_prev <= buf)
    BY <1>2 DEF RateInv
  <2>3. buf' = read_remains_prev + got' /\ read_remains_prev <= buf'
    <3>1. buf' = read_remains_prev + got'
      <4>1. buf' \in Nat /\ buf = read_remains_prev + got + unseen
        BY <1>0, <2>2
      <4>2. buf' = read_remains_prev + (got + unseen + buf' - buf)
        <5>1. PICK b \in Nat, b1 \in Nat, p \in Nat, g \in Int, u \in Int :
                b = buf /\ b1 = buf' /\ p = read_remains_prev /\ g = got /\ u = unseen
          BY <1>1, <4>1, Zenon
        <5>2. b = p + g + u
          BY <4>1, <5>1, ZenonT(30)
        <5>3. b1 = p + (g + u + b1 - b)
          BY <5>2, Accounted
        <5>. QED BY <5>1, <5>3, Zenon
      <4>. QED BY <4>2, Zenon DEF Looked
    <3>2. read_remains_prev <= buf'
      BY <1>0, <2>2, Sums, Zenon
    <3>. QED BY <3>1, <3>2
  <2>4. read_remains_prev = 0 \/ header'
    BY <1>0, <2>2, Zenon
  <2>5. Noted'
    BY <1>0, <2>1, <2>3, Sums, Zenon DEF Noted, Looked
  <2>6. buf' = read_remains_prev + got' + unseen'
    BY <1>0, <2>3, Sums, ZenonT(30) DEF Looked
  <2>. QED BY <2>1, <2>3, <2>4, <2>5, <2>6, SMTT(30) DEF RateInv
<1>3. CASE ~read_timeout
  <2>1. buf' = got' + unseen' /\ buf' = 0 + got' + unseen' /\ buf' = 0 + got' /\ 0 <= buf'
    <3>1. buf = got + unseen
      BY <1>3 DEF RateInv
    <3>2. buf' = got'
      <4>1. buf' \in Nat
        BY <1>0
      <4>2. buf' = got + unseen + buf' - buf
        <5>1. PICK b \in Nat, b1 \in Nat, g \in Int, u \in Int :
                b = buf /\ b1 = buf' /\ g = got /\ u = unseen
          BY <1>1, <4>1, Zenon
        <5>2. b = g + u
          BY <3>1, <5>1, ZenonT(30)
        <5>3. b1 = g + u + b1 - b
          BY <5>2, AccountedFirst
        <5>. QED BY <5>1, <5>3, Zenon
      <4>. QED BY <4>2, Zenon DEF Looked
    <3>3. got' \in Int
      BY <1>0, <3>2, Sums, ZenonT(30)
    <3>. QED BY <1>0, <3>2, <3>3, Sums, ZenonT(30) DEF Looked
  <2>2. CASE ~read_timeout'
    BY <2>1, <2>2, SMTT(30) DEF RateInv
  <2>3. CASE read_timeout'
    <3>1. read_remains' = buf' /\ read_remains_prev' = 0
      BY <1>3, <2>3, Zenon DEF Timers!update_timer, Timers!flags
    <3>2. Noted'
      BY <1>0, <2>1, <3>1, Sums, ZenonT(30) DEF Noted, Looked
    <3>. QED BY <2>1, <2>3, <3>1, <3>2 DEF RateInv
  <2>. QED BY <2>2, <2>3
<1>. QED BY <1>2, <1>3

\* Consuming a header, with nothing noted anew, keeps the notes true.
LEMMA ConsumedRate ==
    ASSUME Timers!TimersAssumption, FlagsInv, Timers!decode_none, RateInv,
           UNCHANGED <<Timers!flags, Timers!rates, Timers!period>>, NotLooked
    PROVE  RateInv'
<1>0. /\ buf' \in Nat /\ buf' <= buf
      /\ header => buf' = buf /\ header'
      /\ ~header' => buf' = buf /\ ~header
  BY Consumed, Zenon
<1>1. /\ buf \in Nat /\ got \in Int /\ unseen \in Int /\ Header \in Nat
      /\ read_remains \in Nat /\ read_remains_prev \in Nat
  BY SizesAreNat, Zenon DEF FlagsInv, Types
<1>2. UNCHANGED <<read_timeout, read_remains, read_remains_prev, got, told>>
  BY DEF Timers!flags, Timers!rates, Timers!period
<1>3. CASE ~read_timeout
  <2>1. buf = got + unseen
    BY <1>3 DEF RateInv
  <2>2. buf' = got + unseen'
    <3>1. buf' \in Nat
      BY <1>0
    <3>2. buf' = got + (unseen + buf' - buf)
      <4>1. PICK b \in Nat, b1 \in Nat, g \in Int, u \in Int :
              b = buf /\ b1 = buf' /\ g = got /\ u = unseen
        BY <1>1, <3>1, Zenon
      <4>2. b = g + u
        BY <2>1, <4>1, ZenonT(30)
      <4>3. b1 = g + (u + b1 - b)
        BY <4>2, AccountedFirst, SMTT(30)
      <4>. QED BY <4>1, <4>3, Zenon
    <3>. QED BY <3>2, Zenon DEF NotLooked
  <2>. QED BY <1>2, <1>3, <2>2, SMTT(30) DEF RateInv
<1>4. CASE read_timeout
  <2>1. /\ buf = read_remains_prev + got + unseen
        /\ read_remains_prev = 0 \/ (header /\ read_remains_prev <= buf)
        /\ told => Noted
    BY <1>4 DEF RateInv
  <2>2. buf' = read_remains_prev + got + unseen'
    <3>1. buf' \in Nat /\ buf = read_remains_prev + got + unseen
      BY <1>0, <2>1
    <3>2. buf' = read_remains_prev + got + (unseen + buf' - buf)
      <4>1. PICK b \in Nat, b1 \in Nat, p \in Nat, g \in Int, u \in Int :
              b = buf /\ b1 = buf' /\ p = read_remains_prev /\ g = got /\ u = unseen
        BY <1>1, <3>1, Zenon
      <4>2. b = p + g + u
        BY <3>1, <4>1, ZenonT(30)
      <4>3. b1 = p + g + (u + b1 - b)
        BY <4>2, Accounted, SMTT(30)
      <4>. QED BY <4>1, <4>3, Zenon
    <3>. QED BY <3>2, Zenon DEF NotLooked
  <2>3. read_remains_prev = 0 \/ (header' /\ read_remains_prev <= buf')
    BY <1>0, <2>1, SMTT(30)
  <2>4. ASSUME Noted PROVE Noted'
    <3>1. buf' = read_remains + unseen'
      <4>1. buf = read_remains + unseen /\ read_remains \in Int
        BY <1>1, <2>4, Sums, ZenonT(30) DEF Noted
      <4>2. buf' \in Nat
        BY <1>0
      <4>3. buf' = read_remains + (unseen + buf' - buf)
        <5>1. PICK b \in Nat, b1 \in Nat, g \in Int, u \in Int :
                b = buf /\ b1 = buf' /\ g = read_remains /\ u = unseen
          BY <1>1, <4>1, <4>2, Zenon
        <5>2. b = g + u
          BY <4>1, <5>1, ZenonT(30)
        <5>3. b1 = g + (u + b1 - b)
          BY <5>2, AccountedFirst
        <5>. QED BY <5>1, <5>3, Zenon
      <4>. QED BY <4>3, Zenon DEF NotLooked
    <3>2. CASE header
      BY <1>0, <1>2, <2>4, <3>1, <3>2, SMTT(30) DEF Noted
    <3>3. CASE ~header
      <4>1. read_remains_prev = 0 /\ read_remains < Header
        BY <2>1, <2>4, <3>3 DEF Noted
      <4>. QED BY <1>2, <2>4, <3>1, <4>1, SMTT(30) DEF Noted
    <3>. QED BY <3>2, <3>3, SMTT(30)
  <2>. QED BY <1>2, <1>4, <2>1, <2>2, <2>3, <2>4, SMTT(30) DEF RateInv
<1>. QED BY <1>3, <1>4

\* A period that was looked at is judged by what came in it.
LEMMA JudgedByRate ==
    ASSUME Timers!TimersAssumption, Header <= Rate + 1, FlagsInv, RateInv, read_timeout, told
    PROVE  Timers!total = got /\ (got > Rate => header /\ read_remains <= buf)
<1>1. /\ buf \in Nat /\ got \in Int /\ unseen \in Int /\ Header \in Nat /\ Rate \in Nat
      /\ read_remains \in Nat /\ read_remains_prev \in Nat
  BY SizesAreNat, Zenon DEF FlagsInv, Types
<1>2. /\ read_remains = read_remains_prev + got /\ read_remains_prev <= read_remains
      /\ read_remains <= buf \/ (read_remains_prev = 0 /\ read_remains < Header)
      /\ ~header => read_remains < Header
  BY DEF RateInv, Noted
<1>3. Timers!total = got
  BY <1>1, <1>2 DEF Timers!total
<1>4. got > Rate => ~(read_remains < Header)
  BY <1>1, <1>2
<1>. QED BY <1>2, <1>3, <1>4

\* What handle_timeout does with the flag of the read timer set.
LEMMA ReadTimeoutStep ==
    ASSUME Timers!handle_timeout, read_timeout
    PROVE  \/ /\ Timers!total > Rate /\ verdict' = Timers!Verdict("extended") /\ Timers!NextPeriod /\ st' = st
              /\ read_remains_prev' = read_remains /\ read_remains' = 0
           \/ /\ Timers!total > Rate /\ verdict' = Timers!Verdict("max") /\ st' = "Stop" /\ UNCHANGED Timers!period
           \/ /\ ~(Timers!total > Rate) /\ verdict' = Timers!Verdict("slow") /\ st' = "Stop" /\ UNCHANGED Timers!period
BY Zenon DEF Timers!handle_timeout, Timers!Stopped

\* The verdict on a period is right.
LEMMA VerdictRight ==
    ASSUME Timers!TimersAssumption, FlagsInv, PeriodInv, st # "Stop", Timers!handle_timeout, read_timeout
    PROVE  Timers!ExtendedForRate'
<1>1. PICK is \in {"extended", "slow", "max"} : verdict' = Timers!Verdict(is) /\ (is # "slow" <=> Timers!total > Rate)
  BY ReadTimeoutStep, ZenonT(30)
<1>2. verdict'.got = got /\ verdict'.told = told /\ verdict'.missed = missed /\ verdict'.is = is
  BY <1>1 DEF Timers!Verdict
<1>3. ASSUME Header <= Rate + 1, told, missed = "none"
      PROVE  is # "slow" <=> got > Rate
  <2>1. RateInv
    BY <1>3 DEF PeriodInv
  <2>2. Timers!total = got
    BY <1>3, <2>1, JudgedByRate, SMTT(30)
  <2>. QED BY <1>1, <2>2
<1>4. ASSUME ~told, missed = "last"
      PROVE  is # "extended"
  <2>1. read_remains = 0 /\ read_remains_prev = 0
    BY <1>4 DEF PeriodInv, WrapInv
  <2>2. Timers!total = 0
    BY <2>1 DEF Timers!total
  <2>3. ~(Timers!total > Rate)
    BY <2>2, SizesAreNat, SMTT(30)
  <2>. QED BY <1>1, <2>3
<1>. QED BY <1>2, <1>3, <1>4 DEF Timers!ExtendedForRate

\* What a period brought is what later periods leave out.
LEMMA TimeoutRate ==
    ASSUME Timers!TimersAssumption, FlagsInv, Timers!decode_none, PeriodInv, st # "Stop",
           Timers!handle_timeout, UNCHANGED Timers!flags, NotLooked
    PROVE  PeriodInv'
<1>0. read_timeout' = read_timeout
  BY SMTT(30) DEF Timers!flags
<1>1. CASE ~read_timeout
  <2>1. UNCHANGED <<Timers!rates, Timers!period, verdict>>
    BY <1>1, ZenonT(30) DEF Timers!handle_timeout
  <2>2. RateInv => RateInv'
    BY <2>1, ConsumedRate, SMTT(30)
  <2>. QED BY <1>0, <1>1, <2>1, <2>2 DEF PeriodInv, WrapInv, Timers!ExtendedForRate, Timers!period
<1>2. CASE read_timeout /\ st' = "Stop"
  BY <1>0, <1>2, VerdictRight, SMTT(30) DEF PeriodInv
<1>3. CASE /\ read_timeout /\ Timers!total > Rate /\ Timers!NextPeriod /\ st' = st
           /\ read_remains_prev' = read_remains /\ read_remains' = 0
  <2>1. WrapInv'
    BY <1>3, SMTT(30) DEF PeriodInv, WrapInv, Timers!NextPeriod
  <2>2. ASSUME Header <= Rate + 1, missed' = "none"
        PROVE  RateInv'
    <3>1. told /\ missed = "none" /\ ~told' /\ got' = 0
      BY <1>3, <2>2, SMTT(30) DEF Timers!NextPeriod
    <3>2. RateInv
      BY <2>2, <3>1, SMTT(30) DEF PeriodInv
    <3>3. header /\ read_remains <= buf
      BY <1>3, <2>2, <3>1, <3>2, JudgedByRate, SMTT(30)
    <3>4. buf' = buf /\ header'
      BY <3>3, Consumed, SMTT(30)
    <3>5. buf = read_remains + unseen
      BY <1>3, <3>1, <3>2, SMTT(30) DEF RateInv, Noted
    <3>6. buf' = read_remains_prev' + got' + unseen'
      BY <1>3, <3>1, <3>4, <3>5, SMTT(30) DEF FlagsInv, Types, NotLooked
    <3>. QED BY <1>0, <1>3, <3>1, <3>3, <3>4, <3>6, SMTT(30) DEF RateInv
  <2>. QED BY <1>0, <1>3, <2>1, <2>2, VerdictRight, SMTT(30) DEF PeriodInv
<1>. QED BY <1>1, <1>2, <1>3, ReadTimeoutStep, SMTT(30)

\* Every step keeps the notes true of the period.
LEMMA NextPeriods ==
    ASSUME Timers!TimersAssumption, FlagsInv, PeriodInv, [Timers!Next]_Timers!vars
    PROVE  PeriodInv'
<1>0. buf \in Nat /\ got \in Int /\ unseen \in Int /\ read_remains \in Nat /\ read_remains_prev \in Nat
  BY SMTT(30) DEF FlagsInv, Types
<1>1. CASE /\ UNCHANGED <<read_timeout, read_remains, read_remains_prev, buf, header, unseen, got, told, missed, verdict>>
           /\ (st' # "Stop" => st # "Stop")
  BY <1>1 DEF PeriodInv, WrapInv, RateInv, Noted, Timers!ExtendedForRate
<1>2. CASE ~read_timeout' /\ missed' = "none" /\ got' = 0 /\ buf' \in Nat /\ unseen' = buf' /\ verdict' = verdict
  <2>1. buf' = got' + unseen'
    BY <1>2, Sums, Zenon
  <2>. QED BY <1>2, <2>1, Zenon DEF PeriodInv, WrapInv, RateInv, Timers!ExtendedForRate
<1>3. CASE Timers!decode_none
  <2>0. st # "Stop"
    BY <1>3 DEF Timers!decode_none, Timers!Decoding
  <2>1. CASE /\ Timers!update_timer(buf') /\ Looked /\ told' = TRUE
             /\ UNCHANGED <<st, missed, verdict>>
    <3>1. RateInv => RateInv'
      BY <1>3, <2>1, UpdateRate, SMTT(30)
    <3>2. /\ ~read_timeout' => missed' = "none"
          /\ missed' = "last" => read_timeout /\ read_remains_prev' = read_remains_prev
      BY <2>0, <2>1, SMTT(30) DEF Timers!update_timer, Timers!flags, PeriodInv
    <3>3. WrapInv'
      BY <2>0, <2>1, <3>2, SMTT(30) DEF PeriodInv, WrapInv
    <3>. QED BY <2>0, <2>1, <3>1, <3>2, <3>3, SMTT(30) DEF PeriodInv, Timers!ExtendedForRate
  <2>2. CASE Timers!handle_timeout /\ UNCHANGED Timers!flags /\ NotLooked
    BY <1>3, <2>0, <2>2, TimeoutRate, SMTT(30)
  <2>3. CASE UNCHANGED <<Timers!flags, Timers!rates, Timers!period, verdict>> /\ NotLooked
    <3>1. RateInv => RateInv'
      BY <1>3, <2>3, ConsumedRate, SMTT(30)
    <3>. QED BY <2>0, <2>3, <3>1, SMTT(30)
        DEF PeriodInv, WrapInv, Timers!ExtendedForRate, Timers!flags, Timers!rates,
            Timers!period
  <2>. QED BY <1>3, <2>1, <2>2, <2>3, ZenonT(30) DEF Timers!decode_none, Looked, NotLooked
<1>4. CASE Timers!decode_item
  <2>1. buf' \in Nat
    BY <1>0, <1>4, SMTT(30) DEF Timers!decode_item
  <2>. QED BY <1>2, <1>4, <2>1, SMTT(30) DEF Timers!decode_item, Timers!update_timer_item, Timers!NoPeriod
<1>5. CASE Timers!poll_pool \/ Timers!poll_read_pause
  BY <1>0, <1>2, <1>5, SMTT(30)
      DEF Timers!poll_pool, Timers!poll_read_pause, Timers!TimersRemoved, Timers!NoPeriod
<1>6. CASE Timers!poll \/ Timers!backpressure
  BY <1>1, <1>6, ZenonT(30) DEF Timers!poll, Timers!backpressure, Timers!flags, Timers!rates, Timers!period
<1>7. CASE Timers!recv
  <2>1. PICK n \in Nat : buf' = buf + n /\ unseen' = unseen + n
    BY <1>7, Timers!TimersAssumption, ZenonT(30) DEF Timers!recv
  <2>2. /\ st' = st
        /\ UNCHANGED <<read_timeout, read_remains, read_remains_prev, header, got, told, missed, verdict>>
    BY <1>7 DEF Timers!recv, Timers!Outside, Timers!flags, Timers!rates, Timers!period
  <2>3. RateInv => RateInv'
    BY <1>0, <2>1, <2>2 DEF RateInv, Noted
  <2>. QED BY <2>2, <2>3, SMTT(30) DEF PeriodInv, WrapInv, Timers!ExtendedForRate
<1>8. CASE Timers!tick \/ Timers!write_buffer \/ Timers!service
  BY <1>1, <1>8, SMTT(30)
      DEF Timers!tick, Timers!write_buffer, Timers!service, Timers!Outside, Timers!flags,
          Timers!rates, Timers!period
<1>9. CASE UNCHANGED Timers!vars
  BY <1>1, <1>9, ZenonT(30) DEF Timers!vars
<1>. QED BY <1>3, <1>4, <1>5, <1>6, <1>7, <1>8, <1>9, SMTT(30) DEF Timers!Next, Timers!Polling

\* A period of the read timer counts as kept exactly when more than rate bytes of the
\* frame were received in it (io.rs handle_timeout), if a fixed header is no longer than
\* that and as long as the dispatcher has looked at the buffer in each period; and of two
\* periods in a row without a look the second is not kept.
THEOREM TimersExtendedForRate ==
    ASSUME Timers!TimersAssumption
    PROVE  Timers!Spec => []Timers!ExtendedForRate
<1>1. FlagsInv /\ PeriodInv /\ [Timers!Next]_Timers!vars => (FlagsInv /\ PeriodInv)'
  BY NextFlags, NextPeriods
<1>2. Timers!Init => FlagsInv /\ PeriodInv
  BY InitFlags, InitPeriod
<1>3. PeriodInv => Timers!ExtendedForRate
  BY DEF PeriodInv
<1>. QED BY <1>1, <1>2, <1>3, PTL DEF Timers!Spec

-----------------------------------------------------------------------------
(* The limiter. *)

CONSTANTS max_cap, max_size, Calls, Sizes, MaxCount
VARIABLES cur_cap, cur_size, guards, registered, dispatcher

Limiter == INSTANCE InFlight

\* What the proof needs of the types: the counters are integers and a guard that
\* is held has a size. (That the counters are the sums of the guards, and so are
\* never negative, is not needed.)
Counters ==
    /\ cur_cap \in Int /\ cur_size \in Int
    /\ guards \in [Calls -> Sizes \cup {0, Limiter!None}]

\* A count that is at a limit, and does not cross it when a call ends, is at the
\* limit still: the test in dec misses no crossing.
LEMMA NotCrossed ==
    ASSUME Limiter!InFlightAssumption, NEW cap \in Int, NEW size \in Int, NEW s \in Nat,
           ~Limiter!Below(cap, size), ~Limiter!crossed(cap, size, size - s)
    PROVE  ~Limiter!Below(cap - 1, size - s)
  BY Limiter!InFlightAssumption DEF Limiter!Below, Limiter!crossed

\* A dispatcher that waits for readiness is over a limit and its waker is stored
\* (inflight.rs: available, inc and dec): for all limits, sizes and calls.
THEOREM InFlightNoLostWake ==
    ASSUME Limiter!InFlightAssumption
    PROVE  Limiter!Spec => []Limiter!NoLostWake
<1> DEFINE Inv == Counters /\ Limiter!NoLostWake
<1>1. Limiter!Init => Inv
  BY DEF Limiter!Init, Inv, Counters, Limiter!NoLostWake
<1>2. Inv /\ [Limiter!Next]_Limiter!vars => Inv'
  <2> SUFFICES ASSUME Inv, [Limiter!Next]_Limiter!vars PROVE Inv'
    OBVIOUS
  <2> USE DEF Inv
  <2>1. CASE Limiter!available
    BY <2>1 DEF Limiter!available, Counters, Limiter!NoLostWake, Limiter!Below
  <2>2. CASE Limiter!wake
    BY <2>2 DEF Limiter!wake, Counters, Limiter!NoLostWake, Limiter!Below
  <2>3. ASSUME NEW c \in Calls, Limiter!dec(c) PROVE Inv'
    <3>1. guards[c] \in Nat
      <4>1. guards[c] \in Sizes \cup {0, Limiter!None} /\ guards[c] # Limiter!None
        BY <2>3 DEF Limiter!dec, Counters
      <4>2. guards[c] \in Sizes \/ guards[c] = 0
        BY <4>1, Zenon
      <4>3. \A s \in Sizes : s \in Nat
        BY Limiter!InFlightAssumption, Zenon
      <4>4. 0 \in Nat
        OBVIOUS
      <4> QED BY <4>2, <4>3, <4>4, ZenonT(30)
    <3>2. Counters'
      BY <2>3, <3>1, SMTT(30) DEF Limiter!dec, Counters
    <3>3. CASE registered /\ Limiter!crossed(cur_cap, cur_size, cur_size - guards[c])
      BY <2>3, <3>2, <3>3, SMTT(30) DEF Limiter!dec, Limiter!NoLostWake
    <3>4. CASE ~(registered /\ Limiter!crossed(cur_cap, cur_size, cur_size - guards[c]))
      <4>1. UNCHANGED <<registered, dispatcher>>
        BY <2>3, <3>4 DEF Limiter!dec
      <4>2. dispatcher = "waiting" => ~Limiter!Below(cur_cap - 1, cur_size - guards[c])
        BY <3>1, <3>4, NotCrossed, ZenonT(30) DEF Counters, Limiter!NoLostWake
      <4>3. Limiter!Below(cur_cap, cur_size)' = Limiter!Below(cur_cap - 1, cur_size - guards[c])
        BY <2>3 DEF Limiter!dec, Limiter!Below
      <4> QED BY <3>2, <4>1, <4>2, <4>3, SMTT(30) DEF Limiter!NoLostWake
    <3> QED BY <3>3, <3>4
  <2>4. ASSUME NEW c \in Calls, NEW size \in Sizes \cup {0}, Limiter!call(c, size) PROVE Inv'
    <3>1. size \in Nat
      BY Limiter!InFlightAssumption, SMTT(30)
    <3>2. Counters'
      BY <2>4, <3>1, SMTT(30) DEF Limiter!call, Limiter!inc, Counters
    <3>3. dispatcher' = "running"
      BY <2>4, SMTT(30) DEF Limiter!call
    <3> QED BY <3>2, <3>3, SMTT(30) DEF Limiter!NoLostWake
  <2>5. CASE UNCHANGED Limiter!vars
    BY <2>5 DEF Limiter!vars, Counters, Limiter!NoLostWake, Limiter!Below
  <2> QED BY <2>1, <2>2, <2>3, <2>4, <2>5, SMTT(30) DEF Limiter!Next
<1>3. Inv => Limiter!NoLostWake
  BY SMTT(30)
<1> QED BY <1>1, <1>2, <1>3, PTL DEF Limiter!Spec

-----------------------------------------------------------------------------
(* The calls counted by the limiter. *)

INSTANCE FiniteSetTheorems

\* The limiter counts with the same cardinality and finiteness.
LEMMA SameCount ==
    /\ \A S : Limiter!Cardinality(S) = Cardinality(S)
    /\ \A S : Limiter!IsFiniteSet(S) = IsFiniteSet(S)
BY SMTT(30) DEF Limiter!Cardinality, Cardinality, Limiter!IsFiniteSet, IsFiniteSet

\* The exact count of calls: there are finitely many in progress at any time, even
\* if there is no bound on how many there can be.
CapInv ==
    /\ guards \in [Calls -> Sizes \cup {0, Limiter!None}]
    /\ IsFiniteSet(Limiter!Held) /\ Limiter!CapExact

\* A call adds its guard to those held, once.
LEMMA CallCounted ==
    ASSUME Limiter!InFlightAssumption, CapInv, NEW c \in Calls, NEW size \in Sizes \cup {0}, Limiter!call(c, size)
    PROVE  CapInv'
<1>1. PICK s \in Sizes \cup {0} : guards' = [guards EXCEPT ![c] = s] /\ cur_cap' = cur_cap + 1
  BY ZenonT(30) DEF Limiter!call, Limiter!inc
<1>2. s # Limiter!None
  BY Limiter!InFlightAssumption, SMTT(30) DEF Limiter!None
<1>3. guards' \in [Calls -> Sizes \cup {0, Limiter!None}]
  BY <1>1, SMTT(30) DEF CapInv
<1>4. c \notin Limiter!Held /\ Limiter!Held' = Limiter!Held \cup {c}
  BY <1>1, <1>2, SMTT(30) DEF CapInv, Limiter!Held, Limiter!call
<1>5. IsFiniteSet(Limiter!Held') /\ Cardinality(Limiter!Held') = Cardinality(Limiter!Held) + 1
  BY <1>4, FS_AddElement, SMTT(30) DEF CapInv
<1> QED BY <1>1, <1>3, <1>5, SameCount, SMTT(30) DEF CapInv, Limiter!CapExact

\* A call that ends takes its guard from those held, once.
LEMMA EndCounted ==
    ASSUME Limiter!InFlightAssumption, CapInv, NEW c \in Calls, Limiter!dec(c)
    PROVE  CapInv'
<1>1. guards' = [guards EXCEPT ![c] = Limiter!None] /\ cur_cap' = cur_cap - 1 /\ guards[c] # Limiter!None
  BY DEF Limiter!dec
<1>2. guards' \in [Calls -> Sizes \cup {0, Limiter!None}]
  BY <1>1, SMTT(30) DEF CapInv
<1>3. c \in Limiter!Held /\ Limiter!Held' = Limiter!Held \ {c}
  BY <1>1, SMTT(30) DEF CapInv, Limiter!Held
<1>4. IsFiniteSet(Limiter!Held') /\ Cardinality(Limiter!Held') = Cardinality(Limiter!Held) - 1
  BY <1>3, FS_RemoveElement, SMTT(30) DEF CapInv
<1> QED BY <1>1, <1>2, <1>4, SameCount, SMTT(30) DEF CapInv, Limiter!CapExact

\* CapInv holds in every behaviour.
LEMMA CapInvariance ==
    ASSUME Limiter!InFlightAssumption
    PROVE  Limiter!Spec => []CapInv
<1>1. Limiter!Init => CapInv
  <2> SUFFICES ASSUME Limiter!Init PROVE CapInv
    OBVIOUS
  <2>1. Limiter!Held = {}
    BY DEF Limiter!Init, Limiter!Held
  <2>2. IsFiniteSet(Limiter!Held) /\ Cardinality(Limiter!Held) = 0
    BY <2>1, FS_EmptySet, SMTT(30)
  <2> QED BY <2>2, SameCount, SMTT(30) DEF Limiter!Init, CapInv, Limiter!CapExact
<1>2. CapInv /\ [Limiter!Next]_Limiter!vars => CapInv'
  <2> SUFFICES ASSUME CapInv, [Limiter!Next]_Limiter!vars PROVE CapInv'
    OBVIOUS
  <2>1. CASE UNCHANGED <<cur_cap, guards>>
    BY <2>1 DEF CapInv, Limiter!CapExact, Limiter!Held
  <2> QED BY <2>1, CallCounted, EndCounted, SMTT(30) DEF Limiter!Next, Limiter!available, Limiter!wake, Limiter!vars
<1> QED BY <1>1, <1>2, PTL DEF Limiter!Spec

\* Every call in progress is counted once and its end uncounts it once, in whatever
\* order calls end (inflight.rs, CounterGuard): the counter never goes below zero.
\* The other half of CountsExact, the sum of the sizes, is model-checked.
THEOREM InFlightCapExact ==
    ASSUME Limiter!InFlightAssumption
    PROVE  Limiter!Spec => []Limiter!CapExact
<1>1. CapInv => Limiter!CapExact
  BY DEF CapInv
<1> QED BY <1>1, CapInvariance, PTL
=============================================================================
