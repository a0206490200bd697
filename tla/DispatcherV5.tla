---------------------------- MODULE DispatcherV5 ----------------------------
(***************************************************************************)
(* The MQTT 5 server's packet dispatcher, v5/dispatcher.rs: the service    *)
(* that the framed dispatcher calls with every packet. It checks packets,  *)
(* records the packet ids being handled and topic aliases, and calls the   *)
(* application's publish service (any number at a time), here the router   *)
(* of v5/router.rs, and control service (one at a time, in order).         *)
(***************************************************************************)
EXTENDS PacketCalls

VARIABLES
    aliases,   \* PublishInfo::aliases, NoTopic where there is no entry
    routes,    \* RouterService::aliases
    bound      \* the peer: what it bound each alias to, NoTopic after a refused packet

tables == <<aliases, routes, bound>>
vars == <<callvars, tables>>

Table == [Aliases -> Topics \cup {NoTopic}]

Publishes ==
    {p \in [id : Ids \cup {0}, qos : 0 .. 2, retain : BOOLEAN,
            topic : Topics \cup {Wild, NoTopic}, alias : Aliases \cup {0}] :
        p.qos = 0 <=> p.id = 0}

TypeOK ==
    /\ CallsTypeOK
    /\ aliases \in Table
    /\ routes \in [Aliases -> Matched \cup {NoTopic}]
    /\ bound \in Table

Init ==
    /\ CallsInit
    /\ aliases = [a \in Aliases |-> NoTopic]
    /\ routes = [a \in Aliases |-> NoTopic]
    /\ bound = [a \in Aliases |-> NoTopic]

-----------------------------------------------------------------------------
(* Dispatching an item. *)

ReceiveMaxExceeded == ReceiveMax # 0 /\ Cardinality(inflight) >= ReceiveMax

\* Checks made on a publish with a packet id before its id is recorded.
IdRefused(p) ==
    p.id # 0 /\ (ReceiveMaxExceeded \/ p.qos > MaxQos \/ (p.retain /\ ~RetainAvailable))

Duplicate(p) == p.id # 0 /\ p.id \in inflight

\* The topic alias is unknown, or new and too large.
AliasRefused(p) ==
    /\ p.alias # 0
    /\ aliases[p.alias] = NoTopic
    /\ p.topic = NoTopic \/ p.alias > TopicAliasMax

Rebinds(p) == p.alias # 0 /\ p.topic # NoTopic

\* Mutant: an alias keeps its first topic name.
record_alias_once(p) ==
    aliases' = IF Rebinds(p) /\ aliases[p.alias] = NoTopic THEN [aliases EXCEPT ![p.alias] = p.topic]
               ELSE aliases

record_alias(p) ==
    aliases' = IF Rebinds(p) THEN [aliases EXCEPT ![p.alias] = p.topic] ELSE aliases

\* The topic name of the packet, found by its alias when it is empty.
resolved(p) == IF p.topic = NoTopic /\ p.alias # 0 THEN aliases[p.alias] ELSE p.topic

\* The peer has bound an alias with a packet that was refused before the alias was
\* looked at, or with one that was not.
Unbinds(p) == bound' = IF Rebinds(p) THEN [bound EXCEPT ![p.alias] = NoTopic] ELSE bound
Binds(p) == bound' = IF Rebinds(p) THEN [bound EXCEPT ![p.alias] = p.topic] ELSE bound
Meant(p) == IF p.topic = NoTopic /\ p.alias # 0 THEN bound[p.alias] ELSE p.topic

\* The router is called with the packet; it runs up to the resource.
route(p) ==
    LET topic == resolved(p)
    IN  /\ ToPublish(p.id, Meant(p), GivenV5(topic, p.alias, routes),
                     RouteV5(topic, p.alias, routes))
        /\ routes' = SavedV5(topic, p.alias, routes)

insert(id) == inflight' = inflight \cup ({id} \ {0})

\* A publish, up to the call of the publish service.
publish(p) ==
    /\ Arrives
    /\ UNCHANGED closed
    /\ \/ /\ p.topic = Wild \/ IdRefused(p)
          /\ ToControl("protocol", p.id)
          /\ Unbinds(p) /\ UNCHANGED <<inflight, aliases, routes>>
       \/ /\ p.topic # Wild /\ ~IdRefused(p)
          /\ \/ /\ Duplicate(p)
                /\ Answered  \* PacketIdentifierInUse
                /\ Unbinds(p) /\ UNCHANGED <<inflight, aliases, routes>>
             \/ /\ ~Duplicate(p) /\ insert(p.id)
                /\ \/ /\ AliasRefused(p) /\ ToControl("protocol", p.id)
                      /\ Unbinds(p) /\ UNCHANGED <<aliases, routes>>
                   \/ /\ ~AliasRefused(p) /\ record_alias(p) /\ Binds(p)
                      /\ IF closed /\ p.qos > HandleQos
                         THEN Ignored(p.id) /\ UNCHANGED routes
                         ELSE route(p)

\* Subscribe and unsubscribe packets; ok: the filters are well formed and, for
\* subscribe, a subscription id is allowed.
subscription(k, id, ok) ==
    /\ Arrives /\ k \in Kinds \cap {"subscribe", "unsubscribe"}
    /\ UNCHANGED <<tables, closed>>
    /\ \/ closed /\ Ignored(id) /\ UNCHANGED inflight
       \/ ~closed /\ ~ok /\ ToControl("protocol", id) /\ UNCHANGED inflight
       \/ ~closed /\ ok /\ id \in inflight /\ Answered /\ UNCHANGED inflight
       \/ ~closed /\ ok /\ id \notin inflight /\ insert(id) /\ ToControl(k, id)

\* An ack for the sink, which closes itself when the ack is not the expected one.
publish_ack ==
    /\ Arrives /\ "puback" \in Kinds
    /\ \/ Ignored(0) /\ UNCHANGED closed
       \/ ToControl("protocol", 0) /\ closed' = TRUE
    /\ UNCHANGED <<inflight, tables>>

\* Pings, disconnects, and auth while the connection is open.
request(k) ==
    /\ Arrives /\ k \in Kinds \cap {"auth", "ping", "disconnect"}
    /\ IF k = "auth" /\ closed THEN Ignored(0) ELSE ToControl(k, 0)
    /\ UNCHANGED <<inflight, tables, closed>>

\* Errors reported by the framed dispatcher and back-pressure are passed on; any
\* other packet is ignored.
other(k) ==
    /\ Arrives /\ k \in Kinds \cap {"protocol", "peer_gone", "wr_backpressure", "unexpected"}
    /\ IF k = "unexpected" THEN Ignored(0) ELSE ToControl(k, 0)
    /\ UNCHANGED <<inflight, tables, closed>>

-----------------------------------------------------------------------------
(* Answers of the services. *)

\* The publish service acknowledges the message, or its error is turned into an ack.
publish_fn_ok(i) ==
    /\ calls[i].at = "publish"
    /\ inflight' = inflight \ {calls[i].id}
    /\ Ends(i, TRUE)
    /\ UNCHANGED <<tables, closed, ctl, failed, down>>

\* Its error goes to the control service; the id stays recorded.
publish_fn_err(i) ==
    /\ calls[i].at = "publish"
    /\ Passed(i, "error")
    /\ ctl' = Append(ctl, i)
    /\ UNCHANGED <<inflight, tables, closed, failed, down, dropped>>

\* Messages whose acknowledgement closes the connection; any other message may be
\* answered with a disconnect.
Disconnects(k) == k \in ErrorKinds \cup {"disconnect", "peer_gone"}

\* The ids left when the control service has answered; errors carry no id.
released(i) == IF calls[i].kind \in ErrorKinds THEN inflight ELSE inflight \ {calls[i].id}

\* The control service has answered the first message of its queue.
Served(i) == ctl # <<>> /\ Head(ctl) = i

control_ok(i) ==
    /\ Served(i) /\ ctl' = Tail(ctl)
    /\ calls[i].at = "control"
    /\ inflight' = released(i)
    /\ \E disconnect \in BOOLEAN :
        /\ Disconnects(calls[i].kind) => disconnect
        /\ closed' = (closed \/ disconnect)
        /\ Ends(i, ~disconnect)
    /\ UNCHANGED <<tables, failed, down>>

\* The control service fails: on an error message the connection is dropped and the
\* call fails; on any other one the service's error is passed to the control
\* service once, and an error that is not the service's fails the call.
control_err(i) ==
    /\ Served(i)
    /\ calls[i].at = "control"
    /\ IF calls[i].kind \in ErrorKinds
       THEN /\ closed' = TRUE /\ failed' = TRUE
            /\ Ends(i, FALSE)
            /\ ctl' = Tail(ctl)
       ELSE \/ /\ calls' = [calls EXCEPT ![i].at = "nested"]
               /\ ctl' = Append(Tail(ctl), i)
               /\ UNCHANGED <<closed, failed, dropped>>
            \/ /\ failed' = TRUE /\ UNCHANGED closed
               /\ Ends(i, FALSE)
               /\ ctl' = Tail(ctl)
    /\ UNCHANGED <<inflight, tables, down>>

\* The control service answers its own error, which closes the connection, or
\* fails again, which fails the call.
nested(i) ==
    /\ Served(i) /\ ctl' = Tail(ctl)
    /\ calls[i].at = "nested"
    /\ \/ closed' = TRUE /\ UNCHANGED failed
       \/ failed' = TRUE /\ UNCHANGED closed
    /\ Ends(i, FALSE)
    /\ UNCHANGED <<inflight, tables, down>>

Next ==
    \/ \E p \in Publishes : publish(p)
    \/ \E k \in AllKinds, id \in Ids, ok \in BOOLEAN : subscription(k, id, ok)
    \/ publish_ack
    \/ \E k \in AllKinds : request(k) \/ other(k)
    \/ \E i \in Slots :
        \/ publish_fn_ok(i) \/ publish_fn_err(i)
        \/ control_ok(i) \/ control_err(i) \/ nested(i)
    \/ Ending /\ UNCHANGED tables

Spec == Init /\ [][Next]_vars
=============================================================================
