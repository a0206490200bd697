-------------------------- MODULE DispatcherV5Proofs -------------------------
(***************************************************************************)
(* Proofs about the MQTT 5 server's and client's packet dispatchers, for   *)
(* any packet ids, topics, aliases, limits and any number of calls in      *)
(* progress: every step is a CallStep (module PacketCallsProofs), so they  *)
(* keep what is promised to the peer.                                      *)
(***************************************************************************)
EXTENDS DispatcherV5, PacketCallsProofs

\* The dispatcher knows every alias the peer has bound with a packet that was not
\* refused, under the same topic name.
TablesInv ==
    /\ aliases \in [Aliases -> Topics \cup {NoTopic}]
    /\ routes \in [Aliases -> Matched \cup {NoTopic}]
    /\ bound \in [Aliases -> Topics \cup {NoTopic}]
    /\ \A a \in Aliases : bound[a] # NoTopic => aliases[a] = bound[a]

\* A publish with an id starts only while the receive maximum is not reached.
WithinMaximum == PublishStarts => ~ReceiveMaxExceeded

-----------------------------------------------------------------------------
(* The receive maximum. *)

\* The facts about finite sets that counting the publishes needs. They are theorems
\* of FiniteSetTheorems, which is used at the end of the module (Counting) because a
\* proof is slower the more it has in its context.
CountingFacts ==
    /\ IsFiniteSet({}) /\ Cardinality({}) = 0
    /\ \A S : IsFiniteSet(S) => Cardinality(S) \in Nat
    /\ \A S : IsFiniteSet(S) => \A T \in SUBSET S : IsFiniteSet(T) /\ Cardinality(T) <= Cardinality(S)
    /\ \A S, x : IsFiniteSet(S) =>
          /\ IsFiniteSet(S \cup {x})
          /\ Cardinality(S \cup {x}) \in {Cardinality(S), Cardinality(S) + 1}
    /\ \A S, T, f :
          /\ IsFiniteSet(T) /\ f \in [S -> T] /\ \A x, y \in S : f[x] = f[y] => x = y
          => IsFiniteSet(S) /\ Cardinality(S) <= Cardinality(T)

\* No more publishes with an id are in progress than ids are recorded.
LEMMA HandledRecorded ==
    ASSUME CountingFacts, CallsInv, IsFiniteSet(inflight)
    PROVE  IsFiniteSet(Handled) /\ Cardinality(Handled) <= Cardinality(inflight)
<1> DEFINE f == [i \in Handled |-> calls[i].id]
<1>1. f \in [Handled -> inflight] /\ \A x, y \in Handled : f[x] = f[y] => x = y
  BY HandledOwned DEF CallsInv, OneCallPerId
<1> HIDE DEF f
<1> QED BY <1>1, Zenon DEF CountingFacts

\* The receive maximum is kept if a publish with an id starts only while fewer ids
\* are recorded.
LEMMA StepReceiveMaximum ==
    ASSUME CountingFacts, CallsInv, IsFiniteSet(inflight), ReceiveMaximum, CallStep, WithinMaximum
    PROVE  IsFiniteSet(inflight') /\ ReceiveMaximum'
<1>1. IsFiniteSet(inflight')
  BY StepHandled, Zenon DEF CountingFacts
<1>2. IsFiniteSet(Handled) /\ Cardinality(Handled) <= Cardinality(inflight)
  BY HandledRecorded
<1>3. Cardinality(Handled) \in Nat /\ Cardinality(inflight) \in Nat
  BY <1>2, Zenon DEF CountingFacts
<1>4. ReceiveMax \in Nat
  BY PacketAssumption
<1>5. CASE Handled' \subseteq Handled
  <2>1. IsFiniteSet(Handled') /\ Cardinality(Handled') <= Cardinality(Handled)
    BY <1>2, <1>5, Zenon DEF CountingFacts
  <2>2. Cardinality(Handled') \in Nat
    BY <2>1, Zenon DEF CountingFacts
  <2> QED BY <1>1, <1>3, <1>4, <2>1, <2>2 DEF ReceiveMaximum
<1>6. ASSUME PublishStarts, NEW i \in Slots, Handled' \in SUBSET (Handled \cup {i})
      PROVE  ReceiveMaximum'
  <2>1. ReceiveMax = 0 \/ Cardinality(inflight) < ReceiveMax
    BY <1>3, <1>4, <1>6 DEF WithinMaximum, ReceiveMaxExceeded
  <2>2. /\ IsFiniteSet(Handled \cup {i})
        /\ Cardinality(Handled \cup {i}) \in {Cardinality(Handled), Cardinality(Handled) + 1}
    BY <1>2, Zenon DEF CountingFacts
  <2>3. IsFiniteSet(Handled') /\ Cardinality(Handled') <= Cardinality(Handled \cup {i})
    BY <1>6, <2>2, Zenon DEF CountingFacts
  <2>4. Cardinality(Handled') \in Nat
    BY <2>3, Zenon DEF CountingFacts
  <2> QED BY <1>2, <1>3, <1>4, <2>1, <2>2, <2>3, <2>4 DEF ReceiveMaximum
<1> QED BY <1>1, <1>5, <1>6, StepHandled

-----------------------------------------------------------------------------
(* The topic aliases. *)

\* A refused packet unbinds the alias it names for the peer.
LEMMA UnbindStep ==
    ASSUME TablesInv, NEW a \in Aliases \cup {0}, NEW topic \in Topics \cup {Wild, NoTopic},
           bound' = IF a # 0 /\ topic # NoTopic THEN [bound EXCEPT ![a] = NoTopic] ELSE bound,
           UNCHANGED <<aliases, routes>>
    PROVE  TablesInv'
BY DEF TablesInv

\* An accepted packet binds its alias for both sides.
LEMMA BindStep ==
    ASSUME TablesInv, NEW a \in Aliases \cup {0}, NEW topic \in Topics \cup {NoTopic},
           aliases' = IF a # 0 /\ topic # NoTopic THEN [aliases EXCEPT ![a] = topic] ELSE aliases,
           bound' = IF a # 0 /\ topic # NoTopic THEN [bound EXCEPT ![a] = topic] ELSE bound,
           routes' \in [Aliases -> Matched \cup {NoTopic}]
    PROVE  TablesInv'
BY DEF TablesInv

-----------------------------------------------------------------------------
(* The MQTT 5 server. *)

\* What the router is given and finds for an accepted packet: the topic name the
\* peer meant and its resource.
LEMMA RouteServer ==
    ASSUME TablesInv, NEW p \in Publishes, p.topic # Wild, ~AliasRefused(p),
           NEW topic, topic = resolved(p)
    PROVE  /\ Meant(p) \in Topics \cup {NoTopic}
           /\ GivenV5(topic, p.alias, routes) \in Topics \cup {NoTopic}
           /\ RouteV5(topic, p.alias, routes) \in Matched \cup {NoTopic}
           /\ SavedV5(topic, p.alias, routes) \in [Aliases -> Matched \cup {NoTopic}]
           /\ Meant(p) # NoTopic =>
                /\ GivenV5(topic, p.alias, routes) = Meant(p)
                /\ RouteV5(topic, p.alias, routes) =
                     IF Meant(p) \in Matched THEN Meant(p) ELSE NoTopic
<1>1. p.topic \in Topics \cup {NoTopic} /\ p.alias \in Aliases \cup {0}
  BY DEF Publishes
<1>2. topic \in Topics \cup {NoTopic} /\ (topic = NoTopic => p.alias = 0 /\ p.topic = NoTopic)
  BY <1>1 DEF resolved, AliasRefused, TablesInv
<1>3. Meant(p) \in Topics \cup {NoTopic} /\ (Meant(p) # NoTopic => topic = Meant(p))
  BY <1>1 DEF resolved, Meant, TablesInv
<1>4. GivenV5(topic, p.alias, routes) = topic /\ RouteV5(topic, p.alias, routes) = recognize(topic)
  BY <1>2, PacketAssumption DEF GivenV5, RouteV5, recognize
<1>5. SavedV5(topic, p.alias, routes) \in [Aliases -> Matched \cup {NoTopic}]
  BY <1>1 DEF SavedV5, recognize, TablesInv
<1> QED BY <1>2, <1>3, <1>4, <1>5 DEF recognize

\* Every publish is a CallStep within the receive maximum.
LEMMA PublishServer ==
    ASSUME CallsInv, TablesInv, NEW p \in Publishes, publish(p)
    PROVE  CallStep /\ TablesInv' /\ WithinMaximum
<1>1. /\ p.id \in Ids \cup {0} /\ p.alias \in Aliases \cup {0}
      /\ p.topic \in Topics \cup {Wild, NoTopic}
  BY DEF Publishes
<1>2. closed' = closed /\ closed \in BOOLEAN /\ failed \in BOOLEAN /\ dropped \in BOOLEAN /\ 0 \notin inflight
  BY PacketAssumption DEF publish, CallsInv, CallsTypeOK
<1>3. CASE p.topic = Wild \/ IdRefused(p)
  <2>1. /\ ToControl("protocol", p.id) /\ Unbinds(p)
        /\ UNCHANGED <<inflight, aliases, routes>>
    BY <1>3 DEF publish
  <2>2. CallStep /\ ~PublishStarts
    BY <1>1, <1>2, <2>1, ControlStep DEF AllKinds
  <2>3. TablesInv'
    BY <1>1, <2>1, UnbindStep DEF Unbinds, Rebinds
  <2> QED BY <2>2, <2>3 DEF WithinMaximum
<1>4. CASE p.topic # Wild /\ ~IdRefused(p) /\ Duplicate(p) /\ Answered
           /\ Unbinds(p) /\ UNCHANGED <<inflight, aliases, routes>>
  <2>1. CallStep /\ ~PublishStarts
    BY <1>1, <1>2, <1>4, StandStep DEF Answered
  <2>2. TablesInv'
    <3>1. Unbinds(p) /\ UNCHANGED <<aliases, routes>>
      BY <1>4
    <3> QED BY <1>1, <3>1, UnbindStep DEF Unbinds, Rebinds
  <2> QED BY <2>1, <2>2 DEF WithinMaximum
<1>5. CASE p.topic # Wild /\ ~IdRefused(p) /\ ~Duplicate(p) /\ insert(p.id)
           /\ AliasRefused(p) /\ ToControl("protocol", p.id)
           /\ Unbinds(p) /\ UNCHANGED <<aliases, routes>>
  <2>1. ToControl("protocol", p.id) /\ inflight' = Recorded(p.id)
    BY <1>5 DEF insert, Recorded
  <2>2. CallStep /\ ~PublishStarts
    BY <1>1, <1>2, <2>1, ControlStep DEF AllKinds
  <2>3. TablesInv'
    BY <1>1, <1>5, UnbindStep DEF Unbinds, Rebinds
  <2> QED BY <2>2, <2>3 DEF WithinMaximum
<1>6. CASE p.topic # Wild /\ ~IdRefused(p) /\ ~Duplicate(p) /\ insert(p.id)
           /\ ~AliasRefused(p) /\ record_alias(p) /\ Binds(p)
           /\ IF closed /\ p.qos > HandleQos THEN Ignored(p.id) /\ UNCHANGED routes
              ELSE route(p)
  <2>1. inflight' = Recorded(p.id)
    BY <1>6 DEF insert, Recorded
  <2>2. CASE closed /\ Ignored(p.id) /\ UNCHANGED routes
    <3>1. CallStep /\ ~PublishStarts
      BY <1>1, <1>2, <2>1, <2>2, StandStep DEF Ignored, Ended
    <3>2. TablesInv'
      <4>1. routes' \in [Aliases -> Matched \cup {NoTopic}]
        BY <2>2 DEF TablesInv
      <4> QED BY <1>1, <1>6, <4>1, BindStep DEF Binds, record_alias, Rebinds
    <3> QED BY <3>1, <3>2 DEF WithinMaximum
  <2>3. CASE route(p)
    <3> DEFINE topic == resolved(p)
    <3>1. /\ ToPublish(p.id, Meant(p), GivenV5(topic, p.alias, routes), RouteV5(topic, p.alias, routes))
          /\ routes' = SavedV5(topic, p.alias, routes)
      BY <2>3 DEF route
    <3>2. /\ Meant(p) \in Topics \cup {NoTopic}
          /\ GivenV5(topic, p.alias, routes) \in Topics \cup {NoTopic}
          /\ RouteV5(topic, p.alias, routes) \in Matched \cup {NoTopic}
          /\ SavedV5(topic, p.alias, routes) \in [Aliases -> Matched \cup {NoTopic}]
          /\ Meant(p) # NoTopic =>
               /\ GivenV5(topic, p.alias, routes) = Meant(p)
               /\ RouteV5(topic, p.alias, routes) =
                    IF Meant(p) \in Matched THEN Meant(p) ELSE NoTopic
      BY <1>6, RouteServer
    <3>3. p.id \notin inflight
      BY <1>2, <1>6 DEF Duplicate
    <3> HIDE DEF topic
    <3>4. CallStep /\ (PublishStarts => p.id # 0)
      BY <1>1, <1>2, <2>1, <3>1, <3>2, <3>3, PublishStep
    <3>5. p.id # 0 => ~ReceiveMaxExceeded
      BY <1>6 DEF IdRefused
    <3>6. TablesInv'
      BY <1>1, <1>6, <3>1, <3>2, BindStep DEF Binds, record_alias, Rebinds
    <3> QED BY <3>4, <3>5, <3>6 DEF WithinMaximum
  <2> QED BY <1>6, <2>2, <2>3
<1> QED BY <1>3, <1>4, <1>5, <1>6 DEF publish

\* So is every other item.
LEMMA ItemServer ==
    ASSUME CallsInv,
           \/ \E k \in AllKinds, id \in Ids, ok \in BOOLEAN : subscription(k, id, ok)
           \/ publish_ack
           \/ \E k \in AllKinds : request(k) \/ other(k)
    PROVE  CallStep /\ UNCHANGED tables /\ ~PublishStarts
<1>1. closed \in BOOLEAN /\ failed \in BOOLEAN /\ dropped \in BOOLEAN
  BY DEF CallsInv, CallsTypeOK
<1>2. ASSUME NEW k \in AllKinds, NEW id \in Ids, NEW ok \in BOOLEAN, subscription(k, id, ok)
      PROVE  CallStep /\ UNCHANGED tables /\ ~PublishStarts
  <2>1. UNCHANGED tables /\ UNCHANGED closed /\ k \in {"subscribe", "unsubscribe"}
    BY <1>2 DEF subscription, tables
  <2>2. CASE closed /\ Ignored(id) /\ UNCHANGED inflight
    BY <1>1, <2>1, <2>2, StandStep DEF Ignored, Ended
  <2>3. CASE ToControl("protocol", id) /\ UNCHANGED inflight
    BY <1>1, <2>1, <2>3, ControlStep DEF AllKinds
  <2>4. CASE Answered /\ UNCHANGED inflight
    BY <1>1, <2>1, <2>4, StandStep DEF Answered
  <2>5. CASE id \notin inflight /\ inflight' = Recorded(id) /\ ToControl(k, id)
    BY <1>1, <2>1, <2>5, ControlStep
  <2> QED BY <1>2, <2>2, <2>3, <2>4, <2>5 DEF subscription, insert, Recorded
<1>3. ASSUME publish_ack
      PROVE  CallStep /\ UNCHANGED tables /\ ~PublishStarts
  <2>1. UNCHANGED tables /\ UNCHANGED inflight
    BY <1>3 DEF publish_ack, tables
  <2>2. CASE Ignored(0) /\ UNCHANGED closed
    BY <1>1, <2>1, <2>2, StandStep DEF Ignored
  <2>3. CASE ToControl("protocol", 0) /\ closed' = TRUE
    BY <1>1, <2>1, <2>3, ControlStep DEF AllKinds
  <2> QED BY <1>3, <2>2, <2>3, Zenon DEF publish_ack
<1>4. ASSUME NEW k \in AllKinds, request(k) \/ other(k)
      PROVE  CallStep /\ UNCHANGED tables /\ ~PublishStarts
  <2>1. UNCHANGED tables /\ UNCHANGED <<inflight, closed>>
    BY <1>4 DEF request, other, tables
  <2>2. CASE Ignored(0)
    BY <1>1, <2>1, <2>2, StandStep DEF Ignored
  <2>3. CASE ToControl(k, 0)
    BY <1>1, <2>1, <2>3, ControlStep
  <2> QED BY <1>4, <2>2, <2>3 DEF request, other
<1> QED BY <1>2, <1>3, <1>4

\* And every answer of a service: only an owner releases its id, and a call that
\* keeps its id recorded ends with the connection.
LEMMA AnswerServer ==
    ASSUME CallsInv, NEW i \in Slots,
           \/ publish_fn_ok(i) \/ publish_fn_err(i)
           \/ control_ok(i) \/ control_err(i) \/ nested(i)
    PROVE  CallStep /\ UNCHANGED tables /\ ~PublishStarts
<1>1. closed \in BOOLEAN /\ failed \in BOOLEAN /\ CallIds(calls[i]) /\ ctl \in Seq(Slots)
  BY DEF CallsInv, CallsTypeOK
<1>2. Append(ctl, i) \in Seq(Slots) /\ (ctl # <<>> => Tail(ctl) \in Seq(Slots) /\ Append(Tail(ctl), i) \in Seq(Slots))
  BY <1>1
<1>3. UNCHANGED tables
  BY Zenon DEF publish_fn_ok, publish_fn_err, control_ok, control_err,
     nested, tables
<1>4. CASE publish_fn_ok(i)
  <2>1. /\ Ends(i, TRUE) /\ inflight' = inflight \ {calls[i].id} /\ UNCHANGED <<closed, ctl, failed, down>>
        /\ calls[i].at = "publish"
    BY <1>4, Zenon DEF publish_fn_ok
  <2>2. (Owner(calls[i]) \/ calls[i].id = 0) /\ ~Reported(calls[i])
    BY <2>1 DEF Owner, Reported
  <2> QED BY <1>1, <1>3, <2>1, <2>2, EndStep, Zenon
<1>5. CASE publish_fn_err(i)
  <2>1. /\ Passed(i, "error") /\ ctl' = Append(ctl, i) /\ calls[i].at = "publish"
        /\ UNCHANGED <<inflight, closed, failed, down, dropped>>
    BY <1>5 DEF publish_fn_err
  <2> QED BY <1>2, <1>3, <2>1, PassStep
<1>6. CASE control_ok(i)
  <2>1. PICK disconnect \in BOOLEAN :
              /\ Disconnects(calls[i].kind) => disconnect
              /\ closed' = (closed \/ disconnect)
              /\ Ends(i, ~disconnect)
    BY <1>6 DEF control_ok
  <2>2. /\ inflight' = released(i) /\ UNCHANGED <<failed, down>>
        /\ ctl' \in Seq(Slots) /\ calls[i].at = "control"
    BY <1>2, <1>6 DEF control_ok, Served
  <2>3. CASE calls[i].kind \in ErrorKinds
    <3>1. closed' /\ inflight' = inflight
      BY <1>1, <2>1, <2>2, <2>3 DEF Disconnects, released, ErrorKinds
    <3>2. Ends(i, FALSE)
      BY <2>1, <2>3, Zenon DEF Disconnects, ErrorKinds
    <3> QED BY <1>1, <1>3, <2>2, <3>1, <3>2, EndStep, Zenon
  <2>4. CASE calls[i].kind \notin ErrorKinds
    <3>1. inflight' = inflight \ {calls[i].id} /\ (Owner(calls[i]) \/ calls[i].id = 0) /\ ~Reported(calls[i])
      BY <1>1, <2>2, <2>4 DEF released, ErrorKinds, CallIds, Owner, Reported
    <3>2. closed' \in BOOLEAN /\ (closed => closed') /\ (disconnect => closed')
      <4>1. disconnect \in BOOLEAN /\ closed' = (closed \/ disconnect)
        BY <2>1
      <4> QED BY <1>1, <4>1, Latch
    <3> QED BY <1>1, <1>3, <2>1, <2>2, <3>1, <3>2, EndStep, Zenon
  <2> QED BY <2>3, <2>4
<1>7. CASE control_err(i)
  <2>1. calls[i].at = "control" /\ ctl # <<>> /\ UNCHANGED <<inflight, down>>
    BY <1>7 DEF control_err, Served
  <2>2. CASE /\ calls[i].kind \notin ErrorKinds
             /\ calls' = [calls EXCEPT ![i].at = "nested"]
             /\ ctl' = Append(Tail(ctl), i)
             /\ UNCHANGED <<closed, failed, dropped>>
    BY <1>2, <1>3, <2>1, <2>2, PassStep, Zenon
  <2>3. CASE failed' = TRUE /\ closed' \in {closed, TRUE} /\ Ends(i, FALSE) /\ ctl' = Tail(ctl)
    <3>1. closed' \in BOOLEAN /\ (closed => closed')
      BY <1>1, <2>3, Latch, Zenon
    <3> QED BY <1>1, <1>2, <1>3, <2>1, <2>3, <3>1, EndStep, Zenon
  <2> QED BY <1>7, <2>2, <2>3, Zenon DEF control_err, ErrorKinds
<1>8. CASE nested(i)
  <2>1. /\ Ends(i, FALSE) /\ ctl # <<>> /\ ctl' = Tail(ctl) /\ UNCHANGED <<inflight, down>>
        /\ (closed' = TRUE /\ failed' = failed) \/ (failed' = TRUE /\ closed' = closed)
    BY <1>8, Zenon DEF nested, Served
  <2>2. /\ closed' \in BOOLEAN /\ failed' \in BOOLEAN /\ (closed => closed') /\ (failed => failed')
        /\ closed' \/ failed'
    BY <1>1, <2>1, Latch, Zenon
  <2> QED BY <1>2, <1>3, <2>1, <2>2, EndStep, Zenon
<1> QED BY <1>4, <1>5, <1>6, <1>7, <1>8

\* Every step of the MQTT 5 server's dispatcher is a CallStep.
LEMMA StepServer ==
    ASSUME CallsInv, TablesInv, Next
    PROVE  CallStep /\ TablesInv' /\ WithinMaximum
<1>1. ASSUME UNCHANGED tables, ~PublishStarts
      PROVE  TablesInv' /\ WithinMaximum
  BY <1>1 DEF tables, TablesInv, WithinMaximum
<1>2. ASSUME NEW p \in Publishes, publish(p)
      PROVE  CallStep /\ TablesInv' /\ WithinMaximum
  BY <1>2, PublishServer
<1>3. CASE \/ \E k \in AllKinds, id \in Ids, ok \in BOOLEAN : subscription(k, id, ok)
           \/ publish_ack
           \/ \E k \in AllKinds : request(k) \/ other(k)
  BY <1>1, <1>3, ItemServer
<1>4. ASSUME NEW i \in Slots,
             \/ publish_fn_ok(i) \/ publish_fn_err(i)
             \/ control_ok(i) \/ control_err(i) \/ nested(i)
      PROVE  CallStep /\ TablesInv' /\ WithinMaximum
  BY <1>1, <1>4, AnswerServer
<1>5. CASE Ending /\ UNCHANGED tables
  BY <1>1, <1>5, EndingStep, SMTT(30)
<1> QED BY <1>2, <1>3, <1>4, <1>5
        DEF Next, tables, AllKinds

-----------------------------------------------------------------------------
(* The MQTT 5 client. *)

Client == INSTANCE ClientDispatcherV5

\* The operators of PacketCalls mean the same in the MQTT 5 client's dispatcher.
LEMMA SharedClient ==
    /\ \A k, id : Client!ToControlNow(k, id) <=> ToControlNow(k, id)
    /\ \A id, want, got, to : Client!ToPublish(id, want, got, to) <=> ToPublish(id, want, got, to)
    /\ \A id : Client!insert(id) <=> inflight' = Recorded(id)
    /\ \A i, a : Client!Ends(i, a) <=> Ends(i, a)
    /\ \A i, k : Client!Passed(i, k) <=> Passed(i, k)
    /\ Client!Ending <=> Ending
BY DEF Client!ToControlNow, ToControlNow, Client!ToPublish, ToPublish, Client!Starts, Starts,
   Client!Message, Message, Client!Free, Free, Client!insert, Recorded,
   Client!Ends, Ends, Client!Passed, Passed,
   Client!Ending, Ending, Client!close, close, Client!stop, stop,
   Client!shutdown, shutdown, Client!shutdown_done, shutdown_done

\* What the client's router is given and finds for an accepted packet.
LEMMA RouteOfClient ==
    ASSUME TablesInv, NEW p \in Client!Publishes, ~Client!AliasRefused(p),
           NEW topic, topic = Client!resolved(p)
    PROVE  /\ Client!Meant(p) \in Topics \cup {NoTopic}
           /\ GivenClientV5(topic, p.alias, routes) \in Topics \cup {NoTopic}
           /\ RouteClientV5(topic, p.alias, routes) \in Matched \cup {NoTopic}
           /\ SavedClientV5(topic, p.alias, routes) \in [Aliases -> Matched \cup {NoTopic}]
           /\ Client!Meant(p) # NoTopic =>
                /\ GivenClientV5(topic, p.alias, routes) = Client!Meant(p)
                /\ RouteClientV5(topic, p.alias, routes) =
                     IF Client!Meant(p) \in Matched THEN Client!Meant(p) ELSE NoTopic
<1>1. p.topic \in Topics \cup {NoTopic} /\ p.alias \in Aliases \cup {0}
  BY DEF Client!Publishes
<1>2. topic \in Topics \cup {NoTopic} /\ (topic = NoTopic => p.alias = 0 /\ p.topic = NoTopic)
  BY <1>1 DEF Client!resolved, Client!AliasRefused, TablesInv
<1>3. Client!Meant(p) \in Topics \cup {NoTopic} /\ (Client!Meant(p) # NoTopic => topic = Client!Meant(p))
  BY <1>1 DEF Client!resolved, Client!Meant, TablesInv
<1>4. /\ GivenClientV5(topic, p.alias, routes) = topic
      /\ RouteClientV5(topic, p.alias, routes) = recognize(topic)
  BY <1>2, PacketAssumption DEF GivenClientV5, RouteClientV5, recognize
<1>5. SavedClientV5(topic, p.alias, routes) \in [Aliases -> Matched \cup {NoTopic}]
  BY <1>1 DEF SavedClientV5, recognize, TablesInv
<1> QED BY <1>2, <1>3, <1>4, <1>5, SMTT(30) DEF recognize

\* Every publish is a CallStep within the receive maximum.
LEMMA PublishClient ==
    ASSUME CallsInv, TablesInv, NEW p \in Client!Publishes, Client!publish(p)
    PROVE  CallStep /\ TablesInv' /\ WithinMaximum
<1>1. p.id \in Ids \cup {0} /\ p.alias \in Aliases \cup {0} /\ p.topic \in Topics \cup {NoTopic}
  BY DEF Client!Publishes
<1>2. closed' = closed /\ closed \in BOOLEAN /\ failed \in BOOLEAN /\ dropped \in BOOLEAN /\ 0 \notin inflight
  BY PacketAssumption DEF Client!publish, CallsInv, CallsTypeOK
<1>3. CASE /\ ToControlNow("protocol", p.id) /\ inflight' \in {inflight, Recorded(p.id)}
           /\ Client!Unbinds(p) /\ UNCHANGED <<aliases, routes>>
  <2>1. CallStep /\ ~PublishStarts
    BY <1>1, <1>2, <1>3, ControlStep, SMTT(30) DEF AllKinds
  <2>2. TablesInv'
    <3>1. Client!Unbinds(p) /\ UNCHANGED <<aliases, routes>>
      BY <1>3, SMTT(30)
    <3> QED BY <1>1, <3>1, UnbindStep, SMTT(30) DEF Client!Unbinds, Client!Rebinds
  <2> QED BY <2>1, <2>2, SMTT(30) DEF WithinMaximum
<1>4. CASE Client!Answered /\ Client!Unbinds(p) /\ UNCHANGED <<inflight, aliases, routes>>
  <2>1. CallStep /\ ~PublishStarts
    BY <1>1, <1>2, <1>4, StandStep, SMTT(30) DEF Client!Answered
  <2>2. TablesInv'
    <3>1. Client!Unbinds(p) /\ UNCHANGED <<aliases, routes>>
      BY <1>4
    <3> QED BY <1>1, <3>1, UnbindStep DEF Client!Unbinds, Client!Rebinds
  <2> QED BY <2>1, <2>2 DEF WithinMaximum
<1>5. CASE /\ ~Client!ReceiveMaxExceeded(p) /\ ~Client!Duplicate(p) /\ inflight' = Recorded(p.id)
           /\ ~Client!AliasRefused(p) /\ Client!record_alias(p) /\ Client!Binds(p) /\ Client!route(p)
  <2> DEFINE topic == Client!resolved(p)
  <2>1. /\ ToPublish(p.id, Client!Meant(p), GivenClientV5(topic, p.alias, routes),
                     RouteClientV5(topic, p.alias, routes))
        /\ routes' = SavedClientV5(topic, p.alias, routes)
    BY <1>5, SharedClient, ZenonT(30) DEF Client!route, Client!GivenClientV5, GivenClientV5,
       Client!RouteClientV5, RouteClientV5, Client!SavedClientV5, SavedClientV5,
       Client!recognize, recognize
  <2>2. /\ Client!Meant(p) \in Topics \cup {NoTopic}
        /\ GivenClientV5(topic, p.alias, routes) \in Topics \cup {NoTopic}
        /\ RouteClientV5(topic, p.alias, routes) \in Matched \cup {NoTopic}
        /\ SavedClientV5(topic, p.alias, routes) \in [Aliases -> Matched \cup {NoTopic}]
        /\ Client!Meant(p) # NoTopic =>
             /\ GivenClientV5(topic, p.alias, routes) = Client!Meant(p)
             /\ RouteClientV5(topic, p.alias, routes) =
                  IF Client!Meant(p) \in Matched THEN Client!Meant(p) ELSE NoTopic
    BY <1>5, RouteOfClient
  <2>3. p.id \notin inflight
    BY <1>2, <1>5, SMTT(30) DEF Client!Duplicate
  <2> HIDE DEF topic
  <2>4. CallStep /\ (PublishStarts => p.id # 0)
    BY <1>1, <1>2, <1>5, <2>1, <2>2, <2>3, PublishStep, SMTT(30)
  <2>5. p.id # 0 => ~ReceiveMaxExceeded
    <3>1. Client!Cardinality(inflight) = Cardinality(inflight)
      BY DEF Client!Cardinality, Cardinality
    <3> QED BY <1>5, <3>1, SMTT(30) DEF Client!ReceiveMaxExceeded, ReceiveMaxExceeded
  <2>6. TablesInv'
    BY <1>1, <1>5, <2>1, <2>2, BindStep, SMTT(30) DEF Client!Binds, Client!record_alias, Client!Rebinds
  <2> QED BY <2>4, <2>5, <2>6, SMTT(30) DEF WithinMaximum
<1> QED BY <1>3, <1>4, <1>5, SharedClient, SMTT(30) DEF Client!publish

\* So is every other item.
LEMMA ItemClient ==
    ASSUME CallsInv, Client!acknowledge \/ \E k \in AllKinds : Client!other(k)
    PROVE  CallStep /\ UNCHANGED tables /\ ~PublishStarts
<1>1. closed \in BOOLEAN /\ failed \in BOOLEAN /\ dropped \in BOOLEAN
  BY DEF CallsInv, CallsTypeOK
<1>2. ASSUME Client!acknowledge
      PROVE  CallStep /\ UNCHANGED tables /\ ~PublishStarts
  <2>1. UNCHANGED tables /\ UNCHANGED inflight
    BY <1>2 DEF Client!acknowledge, tables, Client!tables
  <2>2. CASE Client!Ignored(0) /\ UNCHANGED closed
    BY <1>1, <2>1, <2>2, StandStep, SMTT(30) DEF Client!Ignored
  <2>3. CASE ToControlNow("protocol", 0) /\ closed' = TRUE
    BY <1>1, <2>1, <2>3, ControlStep, SMTT(30) DEF AllKinds
  <2> QED BY <1>2, <2>2, <2>3, SharedClient, Zenon DEF Client!acknowledge
<1>3. ASSUME NEW k \in AllKinds, Client!other(k)
      PROVE  CallStep /\ UNCHANGED tables /\ ~PublishStarts
  <2>1. UNCHANGED tables /\ UNCHANGED <<inflight, closed>>
    BY <1>3 DEF Client!other, tables, Client!tables
  <2>2. CASE Client!Refused(0)
    BY <1>1, <2>1, <2>2, StandStep, SMTT(30) DEF Client!Refused
  <2>3. CASE ToControlNow(k, 0) \/ ToControlNow("protocol", 0)
    BY <1>1, <2>1, <2>3, ControlStep, SMTT(30) DEF AllKinds
  <2>4. CASE Client!Ignored(0)
    BY <1>1, <2>1, <2>4, StandStep, SMTT(30) DEF Client!Ignored
  <2> QED BY <1>3, <2>2, <2>3, <2>4, SharedClient, SMTT(30) DEF Client!other
<1> QED BY <1>2, <1>3

\* And every answer of a service.
LEMMA AnswerClient ==
    ASSUME CallsInv, NEW i \in Slots,
           \/ Client!publish_fn_ok(i) \/ Client!publish_fn_pass(i)
           \/ Client!control_ok(i) \/ Client!control_err(i) \/ Client!nested(i)
    PROVE  CallStep /\ UNCHANGED tables /\ ~PublishStarts
<1>1. closed \in BOOLEAN /\ failed \in BOOLEAN /\ CallIds(calls[i]) /\ ctl \in Seq(Slots)
  BY DEF CallsInv, CallsTypeOK
<1>2. UNCHANGED tables /\ ctl' = ctl
  BY Zenon DEF Client!publish_fn_ok, Client!publish_fn_pass, Client!control_ok, Client!control_err,
     Client!nested, tables, Client!tables
<1>3. CASE Client!publish_fn_ok(i)
  <2>1. /\ Ends(i, TRUE) /\ inflight' = inflight \ {calls[i].id} /\ UNCHANGED <<closed, failed, down>>
        /\ calls[i].at = "publish"
    BY <1>3, SharedClient, ZenonT(30) DEF Client!publish_fn_ok
  <2>2. (Owner(calls[i]) \/ calls[i].id = 0) /\ ~Reported(calls[i])
    BY <2>1 DEF Owner, Reported
  <2> QED BY <1>1, <1>2, <2>1, <2>2, EndStep, ZenonT(30)
<1>4. CASE Client!publish_fn_pass(i)
  <2>1. /\ \E k \in {"publish", "error"} : Passed(i, k)
        /\ calls[i].at = "publish" /\ UNCHANGED <<inflight, closed, failed, down, dropped>>
    BY <1>4, SharedClient, Zenon DEF Client!publish_fn_pass
  <2> QED BY <1>1, <1>2, <2>1, PassStep, SMTT(30)
<1>5. CASE Client!control_ok(i)
  <2>1. PICK ack \in Client!Acks(calls[i].kind) :
              /\ closed' = (closed \/ ack = "disconnect")
              /\ Ends(i, Client!Settled(ack))
    BY <1>5, SharedClient, Zenon DEF Client!control_ok
  <2>2. /\ inflight' = Client!released(i) /\ UNCHANGED <<failed, down>> /\ calls[i].at = "control"
    BY <1>5, SMTT(30) DEF Client!control_ok
  <2>3. \/ inflight' = inflight
        \/ inflight' = inflight \ {calls[i].id} /\ (Owner(calls[i]) \/ calls[i].id = 0)
    BY <2>2, SMTT(30) DEF Client!released, Owner
  <2>4. CASE ack = "disconnect"
    <3>1. closed' = TRUE
      BY <1>1, <2>1, <2>4, Zenon
    <3>2. Client!Settled(ack) = FALSE
      BY <2>4 DEF Client!Settled
    <3>3. Ends(i, FALSE)
      BY <2>1, <3>2, Zenon
    <3> QED BY <1>1, <1>2, <2>2, <2>3, <3>1, <3>3, EndStep, Zenon
  <2>5. CASE ack # "disconnect"
    <3>1. closed' = closed
      BY <1>1, <2>1, <2>5, SMTT(30)
    <3>2. Ends(i, TRUE)
      <4>1. Client!Settled(ack) = TRUE
        BY <2>1, <2>5 DEF Client!Settled, Client!Acks
      <4> QED BY <2>1, <4>1, Zenon
    <3>3. calls[i].kind = "publish"
      BY <2>1, <2>5 DEF Client!Acks
    <3>4. inflight' = inflight \ {calls[i].id} /\ ~Reported(calls[i])
      BY <2>2, <3>3 DEF Client!released, Reported, ErrorKinds
    <3> QED BY <1>1, <1>2, <2>2, <2>3, <3>1, <3>2, <3>4, EndStep, Zenon
  <2> QED BY <2>4, <2>5, SMTT(30)
<1>6. CASE Client!control_err(i)
  <2>1. calls[i].at = "control" /\ UNCHANGED <<inflight, closed, down>>
    BY <1>6 DEF Client!control_err
  <2>2. CASE /\ calls[i].kind \notin ErrorKinds
             /\ calls' = [calls EXCEPT ![i].at = "nested"]
             /\ UNCHANGED <<failed, dropped>>
    BY <1>1, <1>2, <2>1, <2>2, PassStep, Zenon
  <2>3. CASE failed' = TRUE /\ Ends(i, FALSE)
    BY <1>1, <1>2, <2>1, <2>3, EndStep, Zenon
  <2> QED BY <1>6, <2>2, <2>3, SharedClient, Zenon DEF Client!control_err, Client!ErrorKinds, ErrorKinds
<1>7. CASE Client!nested(i)
  <2>1. /\ Ends(i, FALSE) /\ UNCHANGED down /\ calls[i].at = "nested"
        /\ (closed' = TRUE /\ failed' = failed) \/ (failed' = TRUE /\ closed' = closed)
        /\ inflight' \in {inflight, Client!released(i)}
    BY <1>7, SharedClient, Zenon DEF Client!nested
  <2>2. /\ closed' \in BOOLEAN /\ failed' \in BOOLEAN /\ (closed => closed') /\ (failed => failed')
        /\ closed' \/ failed'
    BY <1>1, <2>1, Latch, ZenonT(30)
  <2>3. \/ inflight' = inflight
        \/ inflight' = inflight \ {calls[i].id} /\ (Owner(calls[i]) \/ calls[i].id = 0)
    BY <2>1 DEF Client!released, Owner
  <2> QED BY <1>1, <1>2, <2>1, <2>2, <2>3, EndStep, Zenon
<1> QED BY <1>3, <1>4, <1>5, <1>6, <1>7, SMTT(30)

\* Every step of the MQTT 5 client's dispatcher is a CallStep.
LEMMA StepClient ==
    ASSUME CallsInv, TablesInv, Client!Next
    PROVE  CallStep /\ TablesInv' /\ WithinMaximum
<1>1. ASSUME UNCHANGED tables, ~PublishStarts
      PROVE  TablesInv' /\ WithinMaximum
  BY <1>1 DEF tables, TablesInv, WithinMaximum
<1>2. ASSUME NEW p \in Client!Publishes, Client!publish(p)
      PROVE  CallStep /\ TablesInv' /\ WithinMaximum
  BY <1>2, PublishClient
<1>3. CASE Client!acknowledge \/ \E k \in AllKinds : Client!other(k)
  BY <1>1, <1>3, ItemClient
<1>4. ASSUME NEW i \in Slots,
             \/ Client!publish_fn_ok(i) \/ Client!publish_fn_pass(i)
             \/ Client!control_ok(i) \/ Client!control_err(i) \/ Client!nested(i)
      PROVE  CallStep /\ TablesInv' /\ WithinMaximum
  BY <1>1, <1>4, AnswerClient
<1>5. CASE Ending /\ UNCHANGED tables
  BY <1>1, <1>5, EndingStep
<1> QED BY <1>2, <1>3, <1>4, <1>5, SharedClient, SMTT(30)
        DEF Client!Next, tables, Client!tables, Client!AllKinds, AllKinds

-----------------------------------------------------------------------------
(* The theorems. *)

\* The inductive invariant of both dispatchers.
V5Inv == CallsInv /\ TablesInv

\* They start in it.
LEMMA InitV5Inv ==
    ASSUME Init \/ Client!Init
    PROVE  CallsInit /\ V5Inv
<1>1. CallsInit
  BY DEF Init, Client!Init, Client!CallsInit, CallsInit, Client!Free, Free, Client!Message, Message
<1>2. TablesInv
  BY DEF Init, Client!Init, TablesInv
<1> QED BY <1>1, <1>2, InitCallsInv DEF V5Inv

\* A step of theirs is a CallStep and keeps the invariant; so does no step.
LEMMA NextV5Inv ==
    ASSUME V5Inv, [Next]_vars \/ [Client!Next]_Client!vars
    PROVE  V5Inv' /\ [Promise!Next]_Promise!vars
<1>1. CASE Next \/ Client!Next
  <2>1. CallStep /\ TablesInv'
    BY <1>1, StepServer, StepClient DEF V5Inv
  <2> QED BY <2>1, StepCallsInv, NextPromise DEF V5Inv
<1>2. CASE UNCHANGED vars \/ UNCHANGED Client!vars
  <2>1. UNCHANGED callvars /\ UNCHANGED <<aliases, routes, bound>>
    BY <1>2 DEF vars, Client!vars, Client!callvars, callvars, tables, Client!tables
  <2>2. TablesInv'
    BY <2>1 DEF V5Inv, TablesInv
  <2> QED BY <2>1, <2>2, StutterCalls DEF V5Inv
<1> QED BY <1>1, <1>2

\* So the invariant holds throughout, of the server's dispatcher and of the client's.
LEMMA V5Invariance == (Spec => []V5Inv) /\ (Client!Spec => []V5Inv)
<1>1. (Init \/ Client!Init) => V5Inv
  BY InitV5Inv
<1>2. V5Inv /\ ([Next]_vars \/ [Client!Next]_Client!vars) => V5Inv'
  BY NextV5Inv
<1> QED BY <1>1, <1>2, PTL DEF Spec, Client!Spec

\* No packet id is in the hands of two calls at a time, in the server's dispatcher
\* or the client's: a publish with an id in use is refused, and an id is given up by
\* the step that ends its call.
THEOREM V5OneCallPerId == (Spec => []OneCallPerId) /\ (Client!Spec => []OneCallPerId)
<1>1. V5Inv => OneCallPerId
  BY DEF V5Inv, CallsInv
<1> QED BY <1>1, V5Invariance, PTL

\* An id is in the table only while a call has it, or on a connection that ends:
\* no early return and no error of a service leaves one behind.
THEOREM V5NoLeakedIds == (Spec => []NoLeakedIds) /\ (Client!Spec => []NoLeakedIds)
<1>1. V5Inv => NoLeakedIds
  BY DEF V5Inv, CallsInv
<1> QED BY <1>1, V5Invariance, PTL

\* A publish reaches the handler of the topic its sender meant, through whatever
\* aliases were bound, overwritten and refused before.
THEOREM V5RoutedAsMeant == (Spec => []RoutedAsMeant) /\ (Client!Spec => []RoutedAsMeant)
<1>1. V5Inv => RoutedAsMeant
  BY DEF V5Inv, CallsInv
<1> QED BY <1>1, V5Invariance, PTL

\* Both dispatchers implement PacketPromise: a packet with an id is handled by one
\* call at a time, and is left without an answer only in a step after which the
\* connection does not go on.
THEOREM V5PromiseKept == (Spec => PromiseKept) /\ (Client!Spec => PromiseKept)
<1>1. (Init \/ Client!Init) => Promise!Init
  BY InitV5Inv, InitPromise
<1>2. V5Inv /\ ([Next]_vars \/ [Client!Next]_Client!vars) => [Promise!Next]_Promise!vars
  BY NextV5Inv
<1> QED BY <1>1, <1>2, V5Invariance, PTL DEF Spec, Client!Spec, PromiseKept, Promise!Spec

\* The receive maximum holds at the start and is kept, with the finiteness of the set
\* of recorded ids.
MaximumInv == IsFiniteSet(inflight) /\ ReceiveMaximum

\* Nothing is handled at the start.
LEMMA InitMaximum ==
    ASSUME CountingFacts, Init \/ Client!Init
    PROVE  MaximumInv
<1>1. CallsInit
  BY InitV5Inv
<1>2. Handled = {} /\ inflight = {}
  BY <1>1 DEF CallsInit, Handled, Free, Message
<1>3. IsFiniteSet(inflight) /\ Cardinality(Handled) = 0
  BY <1>2, Zenon DEF CountingFacts
<1> QED BY <1>3, PacketAssumption DEF MaximumInv, ReceiveMaximum

\* The steps of both dispatchers keep it.
LEMMA NextMaximum ==
    ASSUME CountingFacts, V5Inv, MaximumInv, [Next]_vars \/ [Client!Next]_Client!vars
    PROVE  MaximumInv'
<1>1. CASE Next \/ Client!Next
  <2>1. CallStep /\ WithinMaximum
    BY <1>1, StepServer, StepClient, SMTT(30) DEF V5Inv
  <2> QED BY <2>1, StepReceiveMaximum DEF V5Inv, MaximumInv
<1>2. CASE UNCHANGED vars \/ UNCHANGED Client!vars
  <2>1. UNCHANGED <<inflight, calls>>
    BY <1>2 DEF vars, Client!vars, Client!callvars, callvars
  <2> QED BY <2>1 DEF MaximumInv, ReceiveMaximum, Handled
<1> QED BY <1>1, <1>2

INSTANCE FiniteSetTheorems

\* The facts are theorems.
LEMMA Counting == CountingFacts
<1>1. IsFiniteSet({}) /\ Cardinality({}) = 0
  BY FS_EmptySet
<1>2. \A S : IsFiniteSet(S) => Cardinality(S) \in Nat
  BY FS_CardinalityType, SMTT(30)
<1>3. \A S : IsFiniteSet(S) => \A T \in SUBSET S : IsFiniteSet(T) /\ Cardinality(T) <= Cardinality(S)
  BY FS_Subset, SMTT(30)
<1>4. ASSUME NEW S, NEW x, IsFiniteSet(S)
      PROVE  /\ IsFiniteSet(S \cup {x})
             /\ Cardinality(S \cup {x}) \in {Cardinality(S), Cardinality(S) + 1}
  BY <1>4, FS_AddElement, SMTT(30)
<1>5. ASSUME NEW S, NEW T, NEW f, IsFiniteSet(T), f \in [S -> T], \A x, y \in S : f[x] = f[y] => x = y
      PROVE  IsFiniteSet(S) /\ Cardinality(S) <= Cardinality(T)
  <2>1. f \in Injection(S, T)
    BY <1>5, SMTT(30) DEF Injection, IsInjective
  <2> QED BY <1>5, <2>1, FS_Injection, SMTT(30)
<1> QED BY <1>1, <1>2, <1>3, <1>4, <1>5, Zenon DEF CountingFacts

\* Both dispatchers never have more publishes with an id in the handlers than the
\* receive maximum they announced.
THEOREM V5ReceiveMaximum == (Spec => []ReceiveMaximum) /\ (Client!Spec => []ReceiveMaximum)
<1>1. Init \/ Client!Init => MaximumInv
  BY Counting, InitMaximum, SMTT(30)
<1>2. V5Inv /\ MaximumInv /\ ([Next]_vars \/ [Client!Next]_Client!vars) => MaximumInv'
  BY Counting, NextMaximum, SMTT(30)
<1>3. MaximumInv => ReceiveMaximum
  BY DEF MaximumInv
<1> QED BY <1>1, <1>2, <1>3, V5Invariance, PTL DEF Spec, Client!Spec
=============================================================================
