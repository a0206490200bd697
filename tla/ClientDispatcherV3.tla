------------------------- MODULE ClientDispatcherV3 -------------------------
(***************************************************************************)
(* The MQTT 3.1.1 client's packet dispatcher, v3/client/dispatcher.rs. A   *)
(* publish goes to the client's router; what no resource serves is passed  *)
(* to the control service. The control service is called at once, for any  *)
(* number of messages at a time, and its error ends the call.              *)
(***************************************************************************)
EXTENDS PacketCalls

Publishes == [id : Ids \cup {0}, topic : Topics]

Init == CallsInit

-----------------------------------------------------------------------------
(* Dispatching an item. *)

insert(id) == inflight' = inflight \cup ({id} \ {0})

publish(p) ==
    /\ Arrives
    /\ UNCHANGED closed
    /\ IF p.id # 0 /\ p.id \in inflight
       THEN Refused(p.id) /\ UNCHANGED inflight
       ELSE insert(p.id) /\ ToPublish(p.id, p.topic, p.topic, RouteClientV3(p.topic))

\* Acks for the sink, which closes itself when the ack is not the expected one; the
\* call fails then.
acknowledge ==
    /\ Arrives /\ "puback" \in Kinds
    /\ \/ Ignored(0) /\ UNCHANGED closed
       \/ Refused(0) /\ closed' = TRUE
    /\ UNCHANGED inflight

\* Packets only a client sends fail the call; errors reported by the framed
\* dispatcher go to the control service; the rest, back-pressure included, does not
\* concern the calls.
other(k) ==
    /\ Arrives /\ k \in Kinds \ {"puback"}
    /\ \/ k \in {"ping", "disconnect", "subscribe", "unsubscribe"} /\ Refused(0)
       \/ k \in {"protocol", "peer_gone"} /\ ToControlNow(k, 0)
       \/ k \in {"auth", "unexpected", "wr_backpressure"} /\ Ignored(0)
    /\ UNCHANGED <<inflight, closed>>

-----------------------------------------------------------------------------
(* Answers of the services. *)

\* A resource has handled the message.
publish_fn_ok(i) ==
    /\ calls[i].at = "publish" /\ calls[i].to # NoTopic
    /\ inflight' = inflight \ {calls[i].id}
    /\ Ends(i, TRUE)
    /\ UNCHANGED <<closed, ctl, failed, down>>

\* No resource serves the topic name, or the resource has failed.
publish_fn_pass(i) ==
    /\ calls[i].at = "publish"
    /\ Passed(i, IF calls[i].to = NoTopic THEN "publish" ELSE "error")
    /\ UNCHANGED <<inflight, closed, ctl, failed, down, dropped>>

\* Acks(k): a publish is answered with PUBACK, any message with a disconnect.
Acks(k) ==
    {"disconnect"} \cup (IF k = "publish" THEN {"answer"}
                         ELSE IF k = "peer_gone" THEN {"nothing"} ELSE {})

\* Mutant: an answered id stays recorded.
released_never(i, ack) == inflight

released(i, ack) == IF ack = "answer" THEN inflight \ {calls[i].id} ELSE inflight

control_ok(i) ==
    /\ calls[i].at = "control"
    /\ \E ack \in Acks(calls[i].kind) :
        /\ inflight' = released(i, ack)
        /\ closed' = (closed \/ ack = "disconnect")
        /\ Ends(i, ack = "answer")
    /\ UNCHANGED <<ctl, failed, down>>

control_err(i) ==
    /\ calls[i].at = "control"
    /\ failed' = TRUE
    /\ Ends(i, FALSE)
    /\ UNCHANGED <<inflight, closed, ctl, down>>

Next ==
    \/ \E p \in Publishes : publish(p)
    \/ acknowledge
    \/ \E k \in AllKinds : other(k)
    \/ \E i \in Slots : publish_fn_ok(i) \/ publish_fn_pass(i) \/ control_ok(i) \/ control_err(i)
    \/ Ending

Spec == Init /\ [][Next]_callvars
=============================================================================
