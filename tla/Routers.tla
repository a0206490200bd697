------------------------------ MODULE Routers ------------------------------
(***************************************************************************)
(* The publish routers: Router of v5/router.rs and v3/router.rs for the    *)
(* servers, dispatch of v5/client/connection.rs and v3/client/connection.rs*)
(* for the clients. The topic patterns are ntex_router's; here a resource  *)
(* is the topic name it serves, and NoTopic stands for the default service *)
(* (servers) or for handing the message back (clients).                    *)
(*                                                                         *)
(* The MQTT 5 routers keep a table of topic aliases of their own: table    *)
(* gives the topic name, and with it the resource, of each alias.          *)
(***************************************************************************)
CONSTANTS
    Matched,   \* the topic names for which the router has a resource
    NoTopic    \* the empty topic name

recognize(topic) == IF topic \in Matched THEN topic ELSE NoTopic

\* RouterService::call of v3/router.rs and dispatch of v3/client/connection.rs.
RouteV3(topic) == recognize(topic)
RouteClientV3(topic) == recognize(topic)

\* RouterService::call of v5/router.rs: the resource and the topic name it is given.
RouteV5(topic, alias, table) ==
    IF topic # NoTopic THEN recognize(topic)
    ELSE IF alias # 0 THEN table[alias] ELSE NoTopic

GivenV5(topic, alias, table) == IF topic = NoTopic /\ alias # 0 THEN table[alias] ELSE topic

\* Only a topic name that some resource serves is remembered for its alias.
SavedV5(topic, alias, table) ==
    IF alias # 0 /\ recognize(topic) # NoTopic THEN [table EXCEPT ![alias] = topic] ELSE table

\* dispatch of v5/client/connection.rs does the same.
RouteClientV5(topic, alias, table) ==
    IF topic # NoTopic THEN recognize(topic)
    ELSE IF alias # 0 THEN table[alias] ELSE NoTopic

GivenClientV5(topic, alias, table) == IF topic = NoTopic /\ alias # 0 THEN table[alias] ELSE topic

SavedClientV5(topic, alias, table) ==
    IF alias # 0 /\ recognize(topic) # NoTopic THEN [table EXCEPT ![alias] = topic] ELSE table
=============================================================================
