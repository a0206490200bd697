---------------------------- MODULE DispatcherV3 ----------------------------
(***************************************************************************)
(* The MQTT 3.1.1 server's packet dispatcher, v3/dispatcher.rs. Unlike the *)
(* MQTT 5 one it has no topic aliases and no receive maximum, it reports a *)
(* packet id in use to the control service, and the answer of the control  *)
(* service, not the call, says which id is released.                       *)
(***************************************************************************)
EXTENDS PacketCalls

Publishes ==
    {p \in [id : Ids \cup {0}, qos : 0 .. 2, topic : Topics \cup {Wild}] : p.qos = 0 <=> p.id = 0}

Init == CallsInit

-----------------------------------------------------------------------------
(* Dispatching an item. *)

Duplicate(id) == id # 0 /\ id \in inflight

\* Mutant: only publishes are looked up and recorded.
insert_none(id) == UNCHANGED inflight

insert(id) == inflight' = inflight \cup ({id} \ {0})

\* The id is recorded before the QoS is checked.
publish(p) ==
    /\ Arrives
    /\ UNCHANGED closed
    /\ \/ /\ p.topic = Wild \/ Duplicate(p.id)
          /\ ToControl("protocol", p.id)
          /\ UNCHANGED inflight
       \/ /\ p.topic # Wild /\ ~Duplicate(p.id)
          /\ insert(p.id)
          /\ IF p.qos > MaxQos THEN ToControl("protocol", p.id)
             ELSE IF closed /\ p.qos > HandleQos THEN Ignored(p.id)
             ELSE ToPublish(p.id, p.topic, p.topic, RouteV3(p.topic))

\* The sink closes itself when the ack is not the expected one.
publish_ack ==
    /\ Arrives /\ "puback" \in Kinds
    /\ \/ Ignored(0) /\ UNCHANGED closed
       \/ ToControl("protocol", 0) /\ closed' = TRUE
    /\ UNCHANGED inflight

\* ok: the filters are well formed.
subscription(k, id, ok) ==
    /\ Arrives /\ k \in Kinds \cap {"subscribe", "unsubscribe"}
    /\ UNCHANGED closed
    /\ \/ closed /\ Ignored(id) /\ UNCHANGED inflight
       \/ ~closed /\ (~ok \/ Duplicate(id)) /\ ToControl("protocol", id) /\ UNCHANGED inflight
       \/ ~closed /\ ok /\ ~Duplicate(id) /\ insert(id) /\ ToControl(k, id)

\* Pings, disconnects, errors reported by the framed dispatcher and back-pressure
\* are passed on to the control service; any other packet is ignored.
other(k) ==
    /\ Arrives /\ k \in Kinds \ {"subscribe", "unsubscribe", "puback"}
    /\ IF k \in {"auth", "unexpected"} THEN Ignored(0) ELSE ToControl(k, 0)
    /\ UNCHANGED <<inflight, closed>>

-----------------------------------------------------------------------------
(* Answers of the services. *)

publish_fn_ok(i) ==
    /\ calls[i].at = "publish"
    /\ inflight' = inflight \ {calls[i].id}
    /\ Ends(i, TRUE)
    /\ UNCHANGED <<closed, ctl, failed, down>>

publish_fn_err(i) ==
    /\ calls[i].at = "publish"
    /\ Passed(i, "error")
    /\ ctl' = Append(ctl, i)
    /\ UNCHANGED <<inflight, closed, failed, down, dropped>>

\* How the control service may acknowledge a message: "answer" is the ack packet of
\* the request, "nothing" no packet and no disconnect.
Acks(k) ==
    {"disconnect"} \cup
    (IF k \in {"ping", "subscribe", "unsubscribe"} THEN {"answer"}
     ELSE IF k \in {"wr_backpressure", "peer_gone"} THEN {"nothing"} ELSE {})

\* A SUBACK or UNSUBACK releases the id it answers.
released(i, ack) == IF ack = "answer" THEN inflight \ {calls[i].id} ELSE inflight

Served(i) == ctl # <<>> /\ Head(ctl) = i

control_ok(i) ==
    /\ Served(i) /\ ctl' = Tail(ctl)
    /\ calls[i].at = "control"
    /\ \E ack \in Acks(calls[i].kind) :
        /\ inflight' = released(i, ack)
        /\ closed' = (closed \/ ack = "disconnect")
        /\ Ends(i, ack = "answer")
    /\ UNCHANGED <<failed, down>>

\* An error while handling an error fails the call and leaves the sink open; on any
\* other message the service's own error is passed to it once.
control_err(i) ==
    /\ Served(i)
    /\ calls[i].at = "control"
    /\ \/ /\ calls[i].kind \notin ErrorKinds
          /\ calls' = [calls EXCEPT ![i].at = "nested"]
          /\ ctl' = Append(Tail(ctl), i)
          /\ UNCHANGED <<failed, dropped>>
       \/ /\ failed' = TRUE
          /\ Ends(i, FALSE)
          /\ ctl' = Tail(ctl)
    /\ UNCHANGED <<inflight, closed, down>>

nested(i) ==
    /\ Served(i) /\ ctl' = Tail(ctl)
    /\ calls[i].at = "nested"
    /\ \/ closed' = TRUE /\ UNCHANGED failed
       \/ failed' = TRUE /\ UNCHANGED closed
    /\ Ends(i, FALSE)
    /\ UNCHANGED <<inflight, down>>

Next ==
    \/ \E p \in Publishes : publish(p)
    \/ \E k \in AllKinds, id \in Ids, ok \in BOOLEAN : subscription(k, id, ok)
    \/ publish_ack
    \/ \E k \in AllKinds : other(k)
    \/ \E i \in Slots :
        \/ publish_fn_ok(i) \/ publish_fn_err(i)
        \/ control_ok(i) \/ control_err(i) \/ nested(i)
    \/ Ending

Spec == Init /\ [][Next]_callvars
=============================================================================
