------------------------- MODULE ClientDispatcherV5 -------------------------
(***************************************************************************)
(* The MQTT 5 client's packet dispatcher, v5/client/dispatcher.rs: receive *)
(* maximum, packet ids and topic aliases as on the server, without its     *)
(* checks of the topic name, QoS and retain flag. A publish goes to the    *)
(* client's router; what no resource serves is passed to the control       *)
(* service, which is called at once for any number of messages at a time.  *)
(***************************************************************************)
EXTENDS PacketCalls

VARIABLES
    aliases,   \* PublishInfo::aliases, NoTopic where there is no entry
    routes,    \* the alias table of the router
    bound      \* the peer: what it bound each alias to, NoTopic after a refused packet

tables == <<aliases, routes, bound>>
vars == <<callvars, tables>>

Publishes == [id : Ids \cup {0}, topic : Topics \cup {NoTopic}, alias : Aliases \cup {0}]

Init ==
    /\ CallsInit
    /\ aliases = [a \in Aliases |-> NoTopic]
    /\ routes = [a \in Aliases |-> NoTopic]
    /\ bound = [a \in Aliases |-> NoTopic]

-----------------------------------------------------------------------------
(* Dispatching an item. *)

\* Mutant: one publish too many.
ReceiveMaxExceeded_over(p) == p.id # 0 /\ ReceiveMax # 0 /\ Cardinality(inflight) > ReceiveMax

ReceiveMaxExceeded(p) == p.id # 0 /\ ReceiveMax # 0 /\ Cardinality(inflight) >= ReceiveMax

Duplicate(p) == p.id # 0 /\ p.id \in inflight

\* The topic alias is unknown, or new and too large.
AliasRefused(p) ==
    /\ p.alias # 0
    /\ aliases[p.alias] = NoTopic
    /\ p.topic = NoTopic \/ p.alias > TopicAliasMax

Rebinds(p) == p.alias # 0 /\ p.topic # NoTopic

record_alias(p) ==
    aliases' = IF Rebinds(p) THEN [aliases EXCEPT ![p.alias] = p.topic] ELSE aliases

resolved(p) == IF p.topic = NoTopic /\ p.alias # 0 THEN aliases[p.alias] ELSE p.topic

\* The peer's view of its aliases, as in DispatcherV5.
Unbinds(p) == bound' = IF Rebinds(p) THEN [bound EXCEPT ![p.alias] = NoTopic] ELSE bound
Binds(p) == bound' = IF Rebinds(p) THEN [bound EXCEPT ![p.alias] = p.topic] ELSE bound
Meant(p) == IF p.topic = NoTopic /\ p.alias # 0 THEN bound[p.alias] ELSE p.topic

\* The router is called with the packet; it runs up to the resource.
route(p) ==
    LET topic == resolved(p)
    IN  /\ ToPublish(p.id, Meant(p), GivenClientV5(topic, p.alias, routes),
                     RouteClientV5(topic, p.alias, routes))
        /\ routes' = SavedClientV5(topic, p.alias, routes)

\* Mutant: the id is not recorded.
insert_none(id) == UNCHANGED inflight

insert(id) == inflight' = inflight \cup ({id} \ {0})

publish(p) ==
    /\ Arrives
    /\ UNCHANGED closed
    /\ \/ /\ ReceiveMaxExceeded(p)
          /\ ToControlNow("protocol", p.id)
          /\ Unbinds(p) /\ UNCHANGED <<inflight, aliases, routes>>
       \/ /\ ~ReceiveMaxExceeded(p) /\ Duplicate(p)
          /\ Answered  \* PacketIdentifierInUse
          /\ Unbinds(p) /\ UNCHANGED <<inflight, aliases, routes>>
       \/ /\ ~ReceiveMaxExceeded(p) /\ ~Duplicate(p)
          /\ insert(p.id)
          /\ \/ /\ AliasRefused(p) /\ ToControlNow("protocol", p.id)
                /\ Unbinds(p) /\ UNCHANGED <<aliases, routes>>
             \/ ~AliasRefused(p) /\ record_alias(p) /\ Binds(p) /\ route(p)

\* Acks for the sink, which closes itself when the ack is not the expected one.
acknowledge ==
    /\ Arrives /\ "puback" \in Kinds
    /\ \/ Ignored(0) /\ UNCHANGED closed
       \/ ToControlNow("protocol", 0) /\ closed' = TRUE
    /\ UNCHANGED <<inflight, tables>>

\* Packets only a client sends fail the call; AUTH, disconnects and the errors
\* reported by the framed dispatcher go to the control service; the rest,
\* back-pressure included, does not concern the calls.
other(k) ==
    /\ Arrives /\ k \in Kinds \ {"puback"}
    /\ \/ k \in {"ping", "subscribe", "unsubscribe"} /\ Refused(0)
       \/ k \in {"protocol", "peer_gone", "disconnect"} /\ ToControlNow(k, 0)
       \/ k = "auth" /\ ToControlNow("protocol", 0)
       \/ k \in {"unexpected", "wr_backpressure"} /\ Ignored(0)
    /\ UNCHANGED <<inflight, closed, tables>>

-----------------------------------------------------------------------------
(* Answers of the services. *)

\* A resource has acknowledged the message, or its error was turned into an ack.
publish_fn_ok(i) ==
    /\ calls[i].at = "publish" /\ calls[i].to # NoTopic
    /\ inflight' = inflight \ {calls[i].id}
    /\ Ends(i, TRUE)
    /\ UNCHANGED <<tables, closed, ctl, failed, down>>

\* No resource serves the topic name, or the resource has failed.
publish_fn_pass(i) ==
    /\ calls[i].at = "publish"
    /\ Passed(i, IF calls[i].to = NoTopic THEN "publish" ELSE "error")
    /\ UNCHANGED <<inflight, tables, closed, ctl, failed, down, dropped>>

\* A publish is answered with PUBACK, or with nothing when the application waives the
\* answer (ack_qos0, which the code takes for any publish: one with an id then gets no
\* PUBACK); any message may be answered with a disconnect.
Acks(k) == {"disconnect"} \cup (IF k = "publish" THEN {"answer", "qos0"} ELSE {})

\* The packet is answered or the answer is waived: it is not left by the dispatcher.
Settled(ack) == ack \in {"answer", "qos0"}

\* Errors are reported without the id of the packet, a publish with it, also when
\* the error of its message is handled in turn.
released(i) == IF calls[i].kind = "publish" THEN inflight \ {calls[i].id} ELSE inflight

control_ok(i) ==
    /\ calls[i].at = "control"
    /\ inflight' = released(i)
    /\ \E ack \in Acks(calls[i].kind) :
        /\ closed' = (closed \/ ack = "disconnect")
        /\ Ends(i, Settled(ack))
    /\ UNCHANGED <<tables, ctl, failed, down>>

\* An error while handling an error fails the call and leaves the sink open; on any
\* other message the service's own error is passed to it once.
control_err(i) ==
    /\ calls[i].at = "control"
    /\ \/ /\ calls[i].kind \notin ErrorKinds
          /\ calls' = [calls EXCEPT ![i].at = "nested"]
          /\ UNCHANGED <<failed, dropped>>
       \/ failed' = TRUE /\ Ends(i, FALSE)
    /\ UNCHANGED <<inflight, tables, closed, ctl, down>>

\* The control service answers its own error, which closes the connection, or fails
\* again, which fails the call.
nested(i) ==
    /\ calls[i].at = "nested"
    /\ \/ closed' = TRUE /\ inflight' = released(i) /\ UNCHANGED failed
       \/ failed' = TRUE /\ UNCHANGED <<closed, inflight>>
    /\ Ends(i, FALSE)
    /\ UNCHANGED <<tables, ctl, down>>

Next ==
    \/ \E p \in Publishes : publish(p)
    \/ acknowledge
    \/ \E k \in AllKinds : other(k)
    \/ \E i \in Slots :
        \/ publish_fn_ok(i) \/ publish_fn_pass(i)
        \/ control_ok(i) \/ control_err(i) \/ nested(i)
    \/ Ending /\ UNCHANGED tables

Spec == Init /\ [][Next]_vars
=============================================================================
