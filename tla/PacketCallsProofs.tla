------------------------- MODULE PacketCallsProofs -------------------------
(***************************************************************************)
(* What a step of a packet dispatcher may do to the calls in progress and  *)
(* the recorded ids, whichever of the four dispatchers takes it, and that  *)
(* such steps keep the promises of PacketCalls. DispatcherV3Proofs and     *)
(* DispatcherV5Proofs show that the steps of the dispatchers are such      *)
(* steps.                                                                  *)
(***************************************************************************)
EXTENDS PacketCalls, TLAPS

\* A call that handles a packet whose id was recorded, and one that ends with the
\* connection.
Owner(c) ==
    /\ c.id # 0
    /\ \/ c.at \in {"publish", "nested"}
       \/ c.at = "control" /\ c.kind \in {"publish", "subscribe", "unsubscribe", "error"}

Reported(c) == c.at = "nested" \/ (c.at = "control" /\ c.kind \in ErrorKinds)

\* The messages of the control service that carry an id.
CallIds(c) ==
    /\ c.at = "free" => c.id = 0
    /\ c.at = "publish" => c.kind = "publish"
    /\ c.at = "control" /\ c.id # 0 =>
         c.kind \in {"publish", "subscribe", "unsubscribe", "error", "protocol"}

\* A publish that reached the resource of the topic name the peer meant.
Routed(c) ==
    c.want # NoTopic => /\ c.got = c.want
                        /\ c.to = IF c.want \in Matched THEN c.want ELSE NoTopic

\* The inductive invariant.
CallsInv ==
    /\ CallsTypeOK
    /\ \A i \in Slots : CallIds(calls[i])
    /\ OneCallPerId
    /\ NoLeakedIds
    /\ RoutedAsMeant

-----------------------------------------------------------------------------
(* The steps: of a call i, or of no call. *)

Ended == closed \/ failed

Recorded(id) == inflight \cup ({id} \ {0})

Changes(i) == calls' = [calls EXCEPT ![i] = calls'[i]]

\* A call starts that handles a packet with a new id, which is recorded, or an item
\* without id.
TakesUp(i) ==
    /\ Changes(i) /\ calls[i] = Free
    /\ Owner(calls'[i]) \/ calls'[i].id = 0
    /\ calls'[i].id \notin inflight
    /\ inflight' = Recorded(calls'[i].id)
    /\ UNCHANGED dropped

\* A call starts that reports a packet as an error; its id may have been recorded.
Reports(i) ==
    /\ Changes(i) /\ calls[i] = Free
    /\ Reported(calls'[i]) /\ ~Owner(calls'[i])
    /\ inflight' \in {inflight, Recorded(calls'[i].id)}
    /\ UNCHANGED dropped

\* A call is passed on from one service to another.
PassesOn(i) ==
    /\ Changes(i)
    /\ calls'[i].id = calls[i].id /\ (Owner(calls'[i]) <=> Owner(calls[i]))
    /\ calls'[i].kind = "publish" => calls[i].kind = "publish"
    /\ Reported(calls[i]) => Reported(calls'[i])
    /\ UNCHANGED <<inflight, dropped>>

\* A call ends, answered and its id free again, or with the connection.
Finishes(i) ==
    /\ calls' = [calls EXCEPT ![i] = Free]
    /\ \/ inflight' = inflight
       \/ inflight' = inflight \ {calls[i].id} /\ (Owner(calls[i]) \/ calls[i].id = 0)
    /\ dropped \in {dropped', FALSE}
    /\ ~Ended' => /\ ~Reported(calls[i]) /\ UNCHANGED dropped
                  /\ inflight' = inflight \ {calls[i].id}

\* No call starts or ends; packets are refused or ignored only if the connection ends.
Stands ==
    /\ UNCHANGED calls
    /\ \E id \in Ids \cup {0} : inflight' \in {inflight, Recorded(id)}
    /\ dropped \in {dropped', FALSE}
    /\ ~Ended' => UNCHANGED <<inflight, dropped>>

\* A call that starts at the publish service is routed as the peer meant.
KeepsRoute(i) == calls'[i].at = "publish" => calls'[i] = calls[i] \/ Routed(calls'[i])

CallStep ==
    /\ closed => closed'
    /\ failed => failed'
    /\ CallsTypeOK'
    /\ \A i \in Slots : CallIds(calls'[i]) /\ KeepsRoute(i)
    /\ \/ \E i \in Slots : TakesUp(i) \/ Reports(i) \/ PassesOn(i) \/ Finishes(i)
       \/ Stands

\* A call starts that handles a publish with an id.
PublishStarts == \E i \in Slots : calls[i] = Free /\ calls'[i].kind = "publish" /\ calls'[i].id # 0

-----------------------------------------------------------------------------
(* The steps keep the invariant. *)

\* A flag that is never reset stays a Boolean, and set when it is.
LEMMA Latch ==
    ASSUME NEW a \in BOOLEAN, NEW b, b = a \/ b = TRUE
    PROVE  b \in BOOLEAN /\ (a => b)
BY Zenon

\* A step of call i leaves the other calls alone.
LEMMA OtherCalls ==
    ASSUME CallsTypeOK, NEW i \in Slots, NEW c, calls' = [calls EXCEPT ![i] = c]
    PROVE  calls'[i] = c /\ \A j \in Slots \ {i} : calls'[j] = calls[j]
BY DEF CallsTypeOK

\* The owners are the slots whose call is one.
LEMMA OwnersAre == Owners = {i \in Slots : Owner(calls[i])}
BY DEF Owners, Owner

\* An id is recorded for every owner, and for one only, after every step: an id is
\* recorded only when it is new, and released only by its owner.
LEMMA StepOneCallPerId ==
    ASSUME CallsInv, CallStep
    PROVE  OneCallPerId'
<1>1. /\ \A i \in Slots : Owner(calls[i]) => calls[i].id \in inflight
      /\ \A i, j \in Slots : Owner(calls[i]) /\ Owner(calls[j]) /\ calls[i].id = calls[j].id => i = j
  BY OwnersAre DEF CallsInv, OneCallPerId
<1>2. SUFFICES /\ \A i \in Slots : Owner(calls'[i]) => calls'[i].id \in inflight'
               /\ \A i, j \in Slots : Owner(calls'[i]) /\ Owner(calls'[j]) /\ calls'[i].id = calls'[j].id => i = j
  BY OwnersAre DEF OneCallPerId, Owners, Owner
<1>3. CallsTypeOK
  BY DEF CallsInv
<1>4. \A i \in Slots : Owner(calls[i]) => calls[i].id # 0
  BY DEF Owner
<1>5. ~Owner(Free)
  BY DEF Owner, Free, Message
<1>6. ASSUME NEW i \in Slots, TakesUp(i) \/ Reports(i)
      PROVE  /\ \A j \in Slots : Owner(calls'[j]) => calls'[j].id \in inflight'
             /\ \A j, k \in Slots : Owner(calls'[j]) /\ Owner(calls'[k]) /\ calls'[j].id = calls'[k].id => j = k
  <2>1. \A j \in Slots \ {i} : calls'[j] = calls[j]
    BY <1>3, <1>6, OtherCalls DEF TakesUp, Reports, Changes
  <2>2. inflight \subseteq inflight'
    BY <1>6 DEF TakesUp, Reports, Recorded
  <2>3. Owner(calls'[i]) => calls'[i].id \in inflight' \ inflight
    BY <1>6 DEF TakesUp, Reports, Owner, Recorded
  <2> QED BY <1>1, <2>1, <2>2, <2>3
<1>7. ASSUME NEW i \in Slots, PassesOn(i)
      PROVE  /\ \A j \in Slots : Owner(calls'[j]) => calls'[j].id \in inflight'
             /\ \A j, k \in Slots : Owner(calls'[j]) /\ Owner(calls'[k]) /\ calls'[j].id = calls'[k].id => j = k
  <2>1. \A j \in Slots \ {i} : calls'[j] = calls[j]
    BY <1>3, <1>7, OtherCalls DEF PassesOn, Changes
  <2> QED BY <1>1, <1>7, <2>1 DEF PassesOn
<1>8. ASSUME NEW i \in Slots, Finishes(i)
      PROVE  /\ \A j \in Slots : Owner(calls'[j]) => calls'[j].id \in inflight'
             /\ \A j, k \in Slots : Owner(calls'[j]) /\ Owner(calls'[k]) /\ calls'[j].id = calls'[k].id => j = k
  <2>1. calls'[i] = Free /\ \A j \in Slots \ {i} : calls'[j] = calls[j]
    BY <1>3, <1>8, OtherCalls, Zenon DEF Finishes
  <2>2. \/ inflight' = inflight
        \/ inflight' = inflight \ {calls[i].id} /\ (Owner(calls[i]) \/ calls[i].id = 0)
    BY <1>8 DEF Finishes
  <2> QED BY <1>1, <1>4, <1>5, <2>1, <2>2
<1>9. CASE Stands
  BY <1>1, <1>9 DEF Stands, Recorded
<1> QED BY <1>6, <1>7, <1>8, <1>9 DEF CallStep

\* While the connection goes on, a recorded id has its owner after every step: the
\* steps that leave one without end the connection or leave a call that will.
LEMMA StepNoLeakedIds ==
    ASSUME CallsInv, CallStep
    PROVE  NoLeakedIds'
<1> DEFINE Leaks(f, cs) == /\ \A i \in Slots : ~Reported(cs[i])
                           /\ \E id \in f : \A i \in Slots : Owner(cs[i]) => cs[i].id # id
<1>1. Ended \/ ~Leaks(inflight, calls)
  <2>1. NoLeakedIds
    BY DEF CallsInv
  <2> QED BY <2>1, OwnersAre DEF NoLeakedIds, Ended, Reported
<1>2. SUFFICES ASSUME ~Ended', Leaks(inflight', calls')
               PROVE  FALSE
  <2>1. Ended' \/ ~Leaks(inflight', calls')
    BY <1>2
  <2>2. Owners' = {i \in Slots : Owner(calls'[i])}
    BY DEF Owners, Owner
  <2> QED BY <2>1, <2>2 DEF NoLeakedIds, Ended, Reported
<1>3. ~Ended /\ ~Leaks(inflight, calls)
  BY <1>1, <1>2 DEF CallStep, Ended
<1>4. CallsTypeOK
  BY DEF CallsInv
<1>5. ~Owner(Free) /\ ~Reported(Free)
  BY DEF Owner, Reported, Free, Message
<1>6. ASSUME NEW i \in Slots, TakesUp(i)
      PROVE  FALSE
  <2>1. calls[i] = Free /\ \A j \in Slots \ {i} : calls'[j] = calls[j]
    BY <1>4, <1>6, OtherCalls DEF TakesUp, Changes
  <2>2. calls'[i].id # 0 => Owner(calls'[i])
    BY <1>6 DEF TakesUp
  <2>3. inflight' = inflight \cup ({calls'[i].id} \ {0})
    BY <1>6 DEF TakesUp, Recorded
  <2> QED BY <1>2, <1>3, <1>5, <2>1, <2>2, <2>3
<1>7. ASSUME NEW i \in Slots, Reports(i)
      PROVE  FALSE
  BY <1>2, <1>7 DEF Reports
<1>8. ASSUME NEW i \in Slots, PassesOn(i)
      PROVE  FALSE
  <2>1. \A j \in Slots \ {i} : calls'[j] = calls[j]
    BY <1>4, <1>8, OtherCalls DEF PassesOn, Changes
  <2> QED BY <1>2, <1>3, <1>8, <2>1 DEF PassesOn
<1>9. ASSUME NEW i \in Slots, Finishes(i)
      PROVE  FALSE
  <2>1. calls'[i] = Free /\ \A j \in Slots \ {i} : calls'[j] = calls[j]
    BY <1>4, <1>9, OtherCalls, Zenon DEF Finishes
  <2>2. ~Reported(calls[i]) /\ inflight' = inflight \ {calls[i].id}
    BY <1>2, <1>9 DEF Finishes
  <2> QED BY <1>2, <1>3, <1>5, <2>1, <2>2
<1>10. CASE Stands
  BY <1>2, <1>3, <1>10 DEF Stands
<1> QED BY <1>6, <1>7, <1>8, <1>9, <1>10 DEF CallStep

\* A step that meets CallStep keeps the invariant.
LEMMA StepCallsInv ==
    ASSUME CallsInv, CallStep
    PROVE  CallsInv'
<1>1. RoutedAsMeant'
  BY DEF CallsInv, CallStep, KeepsRoute, RoutedAsMeant, Routed
<1> QED BY <1>1, StepOneCallPerId, StepNoLeakedIds DEF CallsInv, CallStep

\* The dispatchers start with no id recorded and no call.
LEMMA InitCallsInv ==
    ASSUME CallsInit
    PROVE  CallsInv
<1>1. \A i \in Slots : calls[i] = Free
  BY DEF CallsInit
<1>2. Free \in Call
  BY DEF Free, Message, Call
<1>3. CallsTypeOK
  <2>1. ctl \in Seq(Slots)
    BY DEF CallsInit
  <2>2. calls \in [Slots -> Call]
    BY <1>2 DEF CallsInit
  <2> QED BY <2>1, <2>2, Zenon DEF CallsInit, CallsTypeOK
<1>4. Owners = {}
  BY <1>1 DEF Owners, Free, Message
<1> QED BY <1>1, <1>3, <1>4 DEF CallsInv, CallsInit, CallIds, OneCallPerId, NoLeakedIds,
       RoutedAsMeant, Free, Message

-----------------------------------------------------------------------------
(* The ways in which the dispatchers start, pass on and end calls are CallSteps. *)

\* An item goes to the control service: it has no id, it is reported as an error, or
\* its new id is recorded.
LEMMA ControlStep ==
    ASSUME CallsInv, NEW k \in AllKinds, NEW id \in Ids \cup {0},
           ToControl(k, id) \/ ToControlNow(k, id),
           closed' \in BOOLEAN, closed => closed',
           \/ id = 0 /\ inflight' = inflight
           \/ k = "protocol" /\ inflight' \in {inflight, Recorded(id)}
           \/ k \in {"subscribe", "unsubscribe"} /\ id \notin inflight /\ inflight' = Recorded(id)
    PROVE  CallStep /\ ~PublishStarts
<1> DEFINE c == Message(k, id, "control")
<1>1. /\ CallsTypeOK
      /\ \A j \in Slots : CallIds(calls[j])
  BY DEF CallsInv
<1>2. 0 \notin inflight
  BY <1>1, PacketAssumption DEF CallsTypeOK
<1>3. c \in Call /\ c.id = id /\ c.kind = k /\ c.at = "control"
  BY DEF Message, Call
<1>4. PICK i \in Slots : /\ calls[i] = Free /\ calls' = [calls EXCEPT ![i] = c]
                         /\ ctl' \in {ctl, Append(ctl, i)}
  BY DEF ToControl, ToControlNow, Starts
<1>5. UNCHANGED <<failed, down, dropped>>
  BY DEF ToControl, ToControlNow
<1> HIDE DEF c
<1>6. calls'[i] = c /\ \A j \in Slots \ {i} : calls'[j] = calls[j]
  BY <1>1, <1>4, OtherCalls, Zenon
<1>7. Changes(i)
  BY <1>4, <1>6, Zenon DEF Changes
<1>8. calls' \in [Slots -> Call] /\ ctl' \in Seq(Slots) /\ inflight' \in SUBSET Ids
  BY <1>1, <1>3, <1>4 DEF CallsTypeOK, Recorded
<1>9. CallsTypeOK'
  BY <1>1, <1>5, <1>8 DEF CallsTypeOK
<1>10. CallIds(c)
  BY <1>3 DEF CallIds
<1>11. \A j \in Slots : CallIds(calls'[j]) /\ KeepsRoute(j)
  BY <1>1, <1>3, <1>6, <1>10 DEF KeepsRoute
<1>12. ~PublishStarts
  BY <1>3, <1>6 DEF PublishStarts, AllKinds, Free, Message
<1>13. CASE id = 0 /\ inflight' = inflight
  <2>1. TakesUp(i)
    BY <1>2, <1>3, <1>4, <1>5, <1>6, <1>7, <1>13 DEF TakesUp, Recorded
  <2> QED BY <1>5, <1>9, <1>11, <1>12, <2>1 DEF CallStep
<1>14. CASE k = "protocol" /\ inflight' \in {inflight, Recorded(id)}
  <2>1. Reports(i)
    BY <1>3, <1>4, <1>5, <1>6, <1>7, <1>14 DEF Reports, Reported, Owner, ErrorKinds
  <2> QED BY <1>5, <1>9, <1>11, <1>12, <2>1 DEF CallStep
<1>15. CASE k \in {"subscribe", "unsubscribe"} /\ id \notin inflight /\ inflight' = Recorded(id)
  <2>1. TakesUp(i)
    BY <1>3, <1>4, <1>5, <1>6, <1>7, <1>15 DEF TakesUp, Owner
  <2> QED BY <1>5, <1>9, <1>11, <1>12, <2>1 DEF CallStep
<1> QED BY <1>13, <1>14, <1>15

\* A publish goes to the publish service, its new id recorded.
LEMMA PublishStep ==
    ASSUME CallsInv, NEW id \in Ids \cup {0}, NEW want \in Topics \cup {NoTopic},
           NEW got \in Topics \cup {NoTopic}, NEW to \in Matched \cup {NoTopic},
           ToPublish(id, want, got, to), UNCHANGED closed,
           id \notin inflight, inflight' = Recorded(id),
           want # NoTopic => got = want /\ to = IF want \in Matched THEN want ELSE NoTopic
    PROVE  CallStep /\ (PublishStarts => id # 0)
<1> DEFINE c == [kind |-> "publish", id |-> id, at |-> "publish", want |-> want, got |-> got, to |-> to]
<1>1. /\ CallsTypeOK
      /\ \A j \in Slots : CallIds(calls[j])
  BY DEF CallsInv
<1>2. c \in Call /\ CallIds(c) /\ (Owner(c) \/ c.id = 0) /\ c.id = id /\ Routed(c)
  BY DEF Call, CallIds, Owner, Routed
<1>3. PICK i \in Slots : calls[i] = Free /\ calls' = [calls EXCEPT ![i] = c]
  BY Zenon DEF ToPublish, Starts
<1>4. UNCHANGED <<ctl, failed, down, dropped>>
  BY DEF ToPublish
<1> HIDE DEF c
<1>5. calls'[i] = c /\ \A j \in Slots \ {i} : calls'[j] = calls[j]
  BY <1>1, <1>3, OtherCalls, Zenon
<1>6. CallsTypeOK'
  BY <1>1, <1>2, <1>3, <1>4 DEF CallsTypeOK, Recorded
<1>7. \A j \in Slots : CallIds(calls'[j]) /\ KeepsRoute(j)
  BY <1>1, <1>2, <1>5 DEF KeepsRoute
<1>8. TakesUp(i)
  BY <1>2, <1>3, <1>4, <1>5, Zenon DEF TakesUp, Changes
<1>9. PublishStarts => id # 0
  BY <1>2, <1>5 DEF PublishStarts, Free, Message
<1> QED BY <1>4, <1>6, <1>7, <1>8, <1>9 DEF CallStep

\* A packet is answered, ignored or refused at once.
LEMMA StandStep ==
    ASSUME CallsInv, UNCHANGED <<calls, ctl, down>>,
           closed' \in BOOLEAN, failed' \in BOOLEAN, dropped' \in BOOLEAN,
           closed => closed', failed => failed', dropped => dropped',
           NEW id \in Ids \cup {0}, inflight' \in {inflight, Recorded(id)},
           ~Ended' => UNCHANGED <<inflight, dropped>>
    PROVE  CallStep /\ ~PublishStarts
<1>1. CallsTypeOK /\ \A j \in Slots : CallIds(calls[j])
  BY DEF CallsInv
<1>2. CallsTypeOK'
  BY <1>1 DEF CallsTypeOK, Recorded
<1>3. dropped \in {dropped', FALSE}
  BY <1>1, Zenon DEF CallsTypeOK
<1>4. Stands
  BY <1>3, Zenon DEF Stands
<1> QED BY <1>1, <1>2, <1>4 DEF CallStep, KeepsRoute, PublishStarts, Free, Message

\* The connection is closed, or its end goes on.
LEMMA EndingStep ==
    ASSUME CallsInv, Ending
    PROVE  CallStep /\ ~PublishStarts
<1>1. CallsTypeOK /\ \A j \in Slots : CallIds(calls[j])
  BY DEF CallsInv
<1>2. /\ UNCHANGED <<inflight, calls, ctl, failed, dropped>>
      /\ closed' \in {closed, TRUE}
      /\ down' \in {down, "stopping", "closing", "down"}
  BY Zenon DEF Ending, close, stop, shutdown, shutdown_done
<1>3. CallsTypeOK'
  BY <1>1, <1>2, Zenon DEF CallsTypeOK
<1>4. closed => closed'
  BY <1>2, Zenon
<1>5. Stands
  BY <1>2 DEF Stands
<1> QED BY <1>1, <1>2, <1>3, <1>4, <1>5 DEF CallStep, KeepsRoute, PublishStarts, Free, Message

\* A call is passed on to the control service, or its error is; it keeps its id.
LEMMA PassStep ==
    ASSUME CallsInv, NEW i \in Slots,
           \/ /\ calls[i].at = "publish"
              /\ \E k \in {"publish", "error"} : Passed(i, k)
           \/ /\ calls[i].at = "control" /\ calls[i].kind \notin ErrorKinds
              /\ calls' = [calls EXCEPT ![i].at = "nested"],
           ctl' \in Seq(Slots), UNCHANGED <<inflight, closed, failed, down, dropped>>
    PROVE  CallStep /\ ~PublishStarts
<1>1. /\ CallsTypeOK
      /\ calls[i] \in Call
      /\ \A j \in Slots : CallIds(calls[j])
  BY DEF CallsInv, CallsTypeOK
<1>2. PICK c \in Call : /\ calls' = [calls EXCEPT ![i] = c]
                        /\ c.id = calls[i].id
                        /\ \/ /\ calls[i].at = "publish"
                              /\ c.at = "control" /\ c.kind \in {"publish", "error"}
                           \/ /\ calls[i].at = "control" /\ calls[i].kind \notin ErrorKinds
                              /\ c.at = "nested" /\ c.kind = calls[i].kind
  <2>1. ASSUME NEW k \in {"publish", "error"}, calls[i].at = "publish", Passed(i, k)
        PROVE  \E c \in Call : /\ calls' = [calls EXCEPT ![i] = c]
                               /\ c.id = calls[i].id
                               /\ c.at = "control" /\ c.kind \in {"publish", "error"}
    <3>1. /\ Message(k, calls[i].id, "control") \in Call
          /\ Message(k, calls[i].id, "control").id = calls[i].id
          /\ Message(k, calls[i].id, "control").at = "control"
          /\ Message(k, calls[i].id, "control").kind = k
      BY <1>1 DEF Message, Call
    <3> QED BY <3>1, <2>1, Zenon DEF Passed
  <2>2. ASSUME calls[i].at = "control", calls' = [calls EXCEPT ![i].at = "nested"]
        PROVE  \E c \in Call : /\ calls' = [calls EXCEPT ![i] = c]
                               /\ c.id = calls[i].id /\ c.at = "nested" /\ c.kind = calls[i].kind
    <3>1. /\ [calls[i] EXCEPT !.at = "nested"] \in Call
          /\ [calls[i] EXCEPT !.at = "nested"].id = calls[i].id
          /\ [calls[i] EXCEPT !.at = "nested"].at = "nested"
          /\ [calls[i] EXCEPT !.at = "nested"].kind = calls[i].kind
      BY <1>1 DEF Call
    <3> QED BY <3>1, <2>2, Zenon
  <2> QED BY <2>1, <2>2
<1>3. calls'[i] = c /\ \A j \in Slots \ {i} : calls'[j] = calls[j]
  BY <1>1, <1>2, OtherCalls, Zenon
<1>4. calls' \in [Slots -> Call]
  BY <1>1, <1>2 DEF CallsTypeOK
<1>5. CallsTypeOK'
  BY <1>1, <1>4 DEF CallsTypeOK
<1>6. CallIds(c) /\ CallIds(calls[i])
  BY <1>1, <1>2 DEF CallIds
<1>7. \A j \in Slots : CallIds(calls'[j]) /\ KeepsRoute(j)
  BY <1>1, <1>2, <1>3, <1>6 DEF KeepsRoute
<1>8. /\ Owner(c) <=> Owner(calls[i])
      /\ c.kind = "publish" => calls[i].kind = "publish"
      /\ Reported(calls[i]) => Reported(c)
  BY <1>2, <1>6 DEF Owner, Reported, CallIds, ErrorKinds
<1>9. PassesOn(i)
  BY <1>2, <1>3, <1>8, Zenon DEF PassesOn, Changes
<1>10. ~PublishStarts
  BY <1>2, <1>3 DEF PublishStarts, Free, Message
<1> QED BY <1>5, <1>7, <1>9, <1>10 DEF CallStep

\* A call ends: with its id released when the connection goes on.
LEMMA EndStep ==
    ASSUME CallsInv, NEW i \in Slots, NEW answered \in BOOLEAN, Ends(i, answered),
           ctl' \in Seq(Slots), closed' \in BOOLEAN, failed' \in BOOLEAN, UNCHANGED down,
           closed => closed', failed => failed',
           \/ inflight' = inflight
           \/ inflight' = inflight \ {calls[i].id} /\ (Owner(calls[i]) \/ calls[i].id = 0),
           \/ closed' \/ failed'
           \/ /\ answered \/ calls[i].id = 0
              /\ ~Reported(calls[i]) /\ inflight' = inflight \ {calls[i].id}
    PROVE  CallStep /\ ~PublishStarts
<1>1. /\ CallsTypeOK
      /\ \A j \in Slots : CallIds(calls[j])
  BY DEF CallsInv
<1>2. Free \in Call /\ CallIds(Free)
  BY DEF Free, Message, Call, CallIds
<1>3. calls' = [calls EXCEPT ![i] = Free]
  BY DEF Ends
<1>4. dropped' \in BOOLEAN /\ dropped \in {dropped', FALSE}
      /\ (answered \/ calls[i].id = 0 => dropped' = dropped)
  BY <1>1, Zenon DEF Ends, CallsTypeOK
<1>5. calls'[i] = Free /\ \A j \in Slots \ {i} : calls'[j] = calls[j]
  BY <1>1, <1>3, OtherCalls, Zenon
<1>6. calls' \in [Slots -> Call] /\ inflight' \in SUBSET Ids
  BY <1>1, <1>2, <1>3 DEF CallsTypeOK
<1>7. CallsTypeOK'
  BY <1>1, <1>4, <1>6 DEF CallsTypeOK
<1>8. \A j \in Slots : CallIds(calls'[j]) /\ KeepsRoute(j)
  BY <1>1, <1>2, <1>5 DEF KeepsRoute, Free, Message
<1>9. Finishes(i)
  BY <1>3, <1>4, Zenon DEF Finishes, Ended
<1>10. ~PublishStarts
  BY <1>5 DEF PublishStarts, Free, Message
<1> QED BY <1>7, <1>8, <1>9, <1>10 DEF CallStep

-----------------------------------------------------------------------------
(* CallSteps keep PacketPromise. *)

Handlers(id) == {i \in Owners : calls[i].id = id}

Handling == [id \in Ids |-> Handlers(id)]

\* A step that changes no owner and no owner's id changes nothing in what is handled.
LEMMA SameHandling ==
    ASSUME \A j \in Slots : /\ Owner(calls'[j]) <=> Owner(calls[j])
                            /\ Owner(calls[j]) => calls'[j].id = calls[j].id
    PROVE  Handling' = Handling
<1>1. Owners = {j \in Slots : Owner(calls[j])} /\ Owners' = {j \in Slots : Owner(calls'[j])}
  BY OwnersAre DEF Owners, Owner
<1>2. \A id : Handlers(id)' = Handlers(id)
  BY <1>1 DEF Handlers
<1> QED BY <1>2 DEF Handling

\* What a CallStep does to the packets handled: it takes up one whose id is free,
\* ends one, answered or with the connection, or changes none; a packet is left
\* without an answer only when the connection ends.
LEMMA StepHandling ==
    ASSUME CallsInv, CallStep
    PROVE  \/ Handling' = Handling /\ (~Ended' => dropped' = dropped)
           \/ \E id \in Ids, c \in Slots :
                /\ Handling[id] = {} /\ Handling' = [Handling EXCEPT ![id] = {c}]
                /\ dropped' = dropped
           \/ \E id \in Ids :
                /\ Handling[id] # {} /\ Handling' = [Handling EXCEPT ![id] = {}]
                /\ ~Ended' => dropped' = dropped
<1> DEFINE Same == Handling' = Handling /\ (~Ended' => dropped' = dropped)
           Taken(id, c) == /\ Handling[id] = {} /\ Handling' = [Handling EXCEPT ![id] = {c}]
                           /\ dropped' = dropped
           Done(id) == /\ Handling[id] # {} /\ Handling' = [Handling EXCEPT ![id] = {}]
                       /\ ~Ended' => dropped' = dropped
<1>1. CallsTypeOK /\ CallsTypeOK' /\ OneCallPerId /\ OneCallPerId'
  BY StepOneCallPerId DEF CallsInv, CallStep
<1>2. ~Owner(Free)
  BY DEF Owner, Free, Message
<1>3. /\ \A id : Handlers(id) = {j \in Slots : Owner(calls[j]) /\ calls[j].id = id}
      /\ \A id : Handlers(id)' = {j \in Slots : Owner(calls'[j]) /\ calls'[j].id = id}
  BY OwnersAre DEF Handlers, Owners, Owner
<1>4. ASSUME NEW i \in Slots, TakesUp(i)
      PROVE  Same \/ \E id \in Ids : Taken(id, i)
  <2>1. calls[i] = Free /\ (\A j \in Slots \ {i} : calls'[j] = calls[j]) /\ dropped' = dropped
    BY <1>1, <1>4, OtherCalls DEF TakesUp, Changes
  <2>2. CASE ~Owner(calls'[i])
    BY <1>2, <2>1, <2>2, SameHandling
  <2>3. CASE Owner(calls'[i])
    <3>1. PICK id \in Ids : id = calls'[i].id /\ id \notin inflight
      BY <1>1, <1>4, <2>3 DEF TakesUp, CallsTypeOK, Call, Owner
    <3>2. Handlers(id) = {}
      BY <1>1, <1>3, <3>1, OwnersAre DEF OneCallPerId
    <3>3. Handlers(id)' = {i}
      BY <1>3, <2>1, <2>3, <3>1, <3>2
    <3>4. \A d \in Ids \ {id} : Handlers(d)' = Handlers(d)
      BY <1>2, <1>3, <2>1, <3>1
    <3>5. Handling[id] = {} /\ Handling' = [Handling EXCEPT ![id] = {i}]
      BY <3>1, <3>2, <3>3, <3>4, Zenon DEF Handling
    <3> QED BY <2>1, <3>1, <3>5, Zenon
  <2> QED BY <2>2, <2>3
<1>5. ASSUME NEW i \in Slots, Reports(i)
      PROVE  Same
  <2>1. /\ calls[i] = Free /\ ~Owner(calls'[i])
        /\ (\A j \in Slots \ {i} : calls'[j] = calls[j]) /\ dropped' = dropped
    BY <1>1, <1>5, OtherCalls DEF Reports, Changes
  <2> QED BY <1>2, <2>1, SameHandling
<1>6. ASSUME NEW i \in Slots, PassesOn(i)
      PROVE  Same
  <2>1. /\ \A j \in Slots \ {i} : calls'[j] = calls[j]
        /\ dropped' = dropped /\ calls'[i].id = calls[i].id /\ (Owner(calls'[i]) <=> Owner(calls[i]))
    BY <1>1, <1>6, OtherCalls DEF PassesOn, Changes
  <2> QED BY <2>1, SameHandling
<1>7. ASSUME NEW i \in Slots, Finishes(i)
      PROVE  Same \/ \E id \in Ids : Done(id)
  <2>1. /\ calls'[i] = Free /\ (\A j \in Slots \ {i} : calls'[j] = calls[j])
        /\ ~Ended' => dropped' = dropped
    BY <1>1, <1>7, OtherCalls, Zenon DEF Finishes
  <2>2. CASE ~Owner(calls[i])
    BY <1>2, <2>1, <2>2, SameHandling
  <2>3. CASE Owner(calls[i])
    <3>1. PICK id \in Ids : id = calls[i].id
      BY <1>1, <2>3 DEF CallsTypeOK, Call, Owner
    <3>2. Handlers(id) = {i}
      BY <1>1, <1>3, <2>3, <3>1, OwnersAre DEF OneCallPerId
    <3>3. Handlers(id)' = {}
      BY <1>2, <1>3, <2>1, <3>2
    <3>4. \A d \in Ids \ {id} : Handlers(d)' = Handlers(d)
      BY <1>2, <1>3, <2>1, <3>1
    <3>5. Handling[id] # {} /\ Handling' = [Handling EXCEPT ![id] = {}]
      BY <3>1, <3>2, <3>3, <3>4, Zenon DEF Handling
    <3> QED BY <2>1, <3>1, <3>5, Zenon
  <2> QED BY <2>2, <2>3
<1>8. ASSUME Stands
       PROVE  Same
  <2>1. UNCHANGED calls /\ (~Ended' => dropped' = dropped)
    BY <1>8 DEF Stands
  <2> QED BY <2>1, SameHandling
<1> QED BY <1>4, <1>5, <1>6, <1>7, <1>8, Zenon DEF CallStep

\* A dispatcher without a call and without a recorded id maps to the initial state of
\* the promise.
LEMMA InitPromise ==
    ASSUME CallsInit
    PROVE  Promise!Init
<1>1. Owners = {}
  BY DEF CallsInit, Owners, Free, Message
<1>2. \A id \in Ids : {i \in Owners : calls[i].id = id} = {}
  BY <1>1
<1> QED BY <1>2 DEF CallsInit, Promise!Init

\* A CallStep maps to a step of the promise, or to none.
LEMMA NextPromise ==
    ASSUME CallsInv, CallStep
    PROVE  [Promise!Next]_Promise!vars
<1> DEFINE open == ~(closed \/ failed)
<1>1. dropped' \in BOOLEAN /\ dropped \in {dropped', FALSE}
  BY Zenon DEF CallStep, CallsTypeOK, TakesUp, Reports, PassesOn, Finishes, Stands
<1>2. open = ~Ended /\ open' = ~Ended' /\ (Ended => Ended')
  BY DEF Ended, CallStep
<1>3. open' \in {open, FALSE}
  BY <1>2, Zenon
<1>4. /\ Handling = [id \in Ids |-> {i \in Owners : calls[i].id = id}]
      /\ Handling' = [id \in Ids |-> {i \in Owners' : calls'[i].id = id}]
  BY DEF Handling, Handlers
<1>5. CASE Handling' = Handling /\ (~Ended' => dropped' = dropped)
  <2>1. CASE Ended'
    <3>1. open' = FALSE
      BY <1>2, <2>1
    <3>2. dropped => dropped'
      BY <1>1, Zenon
    <3>3. Promise!Refuse
      BY <1>1, <1>4, <1>5, <3>1, <3>2 DEF Promise!Refuse
    <3> QED BY <3>3 DEF Promise!Next
  <2>2. CASE ~Ended'
    <3>1. open' = open /\ dropped' = dropped
      BY <1>2, <1>5, <2>2
    <3> QED BY <1>4, <1>5, <3>1 DEF Promise!vars
  <2> QED BY <2>1, <2>2
<1>6. ASSUME NEW id \in Ids, NEW c \in Slots,
             Handling[id] = {}, Handling' = [Handling EXCEPT ![id] = {c}], dropped' = dropped
      PROVE  Promise!Next
  <2>1. Promise!Receive(id)
    BY <1>3, <1>4, <1>6, Zenon DEF Promise!Receive, Promise!MayEnd
  <2> QED BY <2>1 DEF Promise!Next
<1>7. ASSUME NEW id \in Ids, Handling[id] # {}, Handling' = [Handling EXCEPT ![id] = {}],
             ~Ended' => dropped' = dropped
      PROVE  Promise!Next
  <2>1. CASE dropped' = dropped
    <3>1. Promise!Answer(id)
      BY <1>3, <1>4, <1>7, <2>1, Zenon DEF Promise!Answer, Promise!MayEnd
    <3> QED BY <3>1 DEF Promise!Next
  <2>2. CASE dropped' # dropped
    <3>1. Promise!Lose(id)
      BY <1>1, <1>2, <1>4, <1>7, <2>2, Zenon DEF Promise!Lose
    <3> QED BY <3>1 DEF Promise!Next
  <2> QED BY <2>1, <2>2
<1> QED BY <1>5, <1>6, <1>7, StepHandling

\* Nothing changes for the promise, and the invariant holds on, while a dispatcher
\* takes no step.
LEMMA StutterCalls ==
    ASSUME UNCHANGED callvars
    PROVE  (CallsInv => CallsInv') /\ UNCHANGED Promise!vars
<1>1. UNCHANGED <<inflight, closed, calls, ctl, failed, down, dropped>>
  BY DEF callvars
<1> QED BY <1>1 DEF CallsInv, CallsTypeOK, OneCallPerId, NoLeakedIds, RoutedAsMeant, Owners, Promise!vars

-----------------------------------------------------------------------------
(* The publishes handled, which the receive maximum of MQTT 5 limits. *)

\* Each publish with an id in progress is the owner of its id.
LEMMA HandledOwned ==
    ASSUME CallsInv
    PROVE  Handled \subseteq Owners
<1> SUFFICES ASSUME NEW i \in Handled
             PROVE  i \in Owners
  OBVIOUS
<1>1. i \in Slots /\ calls[i].kind = "publish" /\ calls[i].id # 0
  BY DEF Handled
<1>2. calls[i].at \in {"publish", "control", "nested"}
  BY <1>1 DEF CallsInv, CallsTypeOK, Call, CallIds
<1> QED BY <1>1, <1>2 DEF Owners

\* A step adds at most one id, and a publish to those handled only by starting it.
LEMMA StepHandled ==
    ASSUME CallsInv, CallStep
    PROVE  /\ \E x : inflight' \in SUBSET (inflight \cup {x})
           /\ \/ Handled' \subseteq Handled
              \/ PublishStarts /\ \E i \in Slots : Handled' \in SUBSET (Handled \cup {i})
<1>1. \E x : inflight' \in SUBSET (inflight \cup {x})
  BY Zenon DEF CallStep, TakesUp, Reports, PassesOn, Finishes, Stands, Recorded
<1> DEFINE Grows == PublishStarts /\ \E i \in Slots : Handled' \in SUBSET (Handled \cup {i})
<1> SUFFICES Handled' \subseteq Handled \/ Grows
  BY <1>1
<1>2. CallsTypeOK /\ \A i \in Slots : CallIds(calls'[i])
  BY DEF CallsInv, CallStep
<1>3. ASSUME NEW i \in Slots, TakesUp(i)
      PROVE  Handled' \subseteq Handled \/ Grows
  <2>1. calls[i] = Free /\ \A j \in Slots \ {i} : calls'[j] = calls[j]
    BY <1>2, <1>3, OtherCalls DEF TakesUp, Changes
  <2>2. CASE calls'[i].kind = "publish" /\ calls'[i].id # 0
    <3>1. PublishStarts
      BY <2>1, <2>2 DEF PublishStarts
    <3>2. Handled' \in SUBSET (Handled \cup {i})
      BY <2>1 DEF Handled
    <3> QED BY <3>1, <3>2
  <2>3. CASE ~(calls'[i].kind = "publish" /\ calls'[i].id # 0)
    BY <2>1, <2>3 DEF Handled
  <2> QED BY <2>2, <2>3
<1> HIDE DEF Grows
<1>4. ASSUME NEW i \in Slots, Reports(i)
      PROVE  Handled' \subseteq Handled
  <2>1. \A j \in Slots \ {i} : calls'[j] = calls[j]
    BY <1>2, <1>4, OtherCalls DEF Reports, Changes
  <2>2. calls'[i].id = 0 \/ calls'[i].kind # "publish"
    BY <1>4 DEF Reports, Reported, Owner, ErrorKinds
  <2> QED BY <2>1, <2>2 DEF Handled
<1>5. ASSUME NEW i \in Slots, PassesOn(i)
      PROVE  Handled' \subseteq Handled
  <2>1. \A j \in Slots \ {i} : calls'[j] = calls[j]
    BY <1>2, <1>5, OtherCalls DEF PassesOn, Changes
  <2> QED BY <1>5, <2>1 DEF Handled, PassesOn
<1>6. ASSUME NEW i \in Slots, Finishes(i)
      PROVE  Handled' \subseteq Handled
  <2>1. calls'[i] = Free /\ \A j \in Slots \ {i} : calls'[j] = calls[j]
    BY <1>2, <1>6, OtherCalls, Zenon DEF Finishes
  <2> QED BY <2>1 DEF Handled, Free, Message
<1>7. CASE Stands
  BY <1>7 DEF Stands, Handled
<1> QED BY <1>3, <1>4, <1>5, <1>6, <1>7, SMTT(30) DEF CallStep
=============================================================================
