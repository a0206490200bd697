--------------------------- MODULE MCDispatchers ---------------------------
(***************************************************************************)
(* The four packet dispatchers for TLC, one of them per behaviour: the     *)
(* promises of PacketCalls, and the abstract specification PacketPromise,  *)
(* are checked of each. Those of version 5 have a receive maximum of one   *)
(* in some behaviours, where the number of calls reaches it, and of        *)
(* ReceiveMax in the others, where packet ids are seen twice.              *)
(***************************************************************************)
EXTENDS PacketCalls, TLC

CONSTANT Sides   \* the dispatchers to check

VARIABLES side, limit, aliases, routes, bound

tables == <<aliases, routes, bound>>
vars == <<side, limit, callvars, tables>>

Limits == {0, 1, ReceiveMax}

ServerV5(r) == INSTANCE DispatcherV5 WITH ReceiveMax <- r
ClientV5(r) == INSTANCE ClientDispatcherV5 WITH ReceiveMax <- r
ServerV3 == INSTANCE DispatcherV3
ClientV3 == INSTANCE ClientDispatcherV3

Init ==
    /\ side \in Sides
    /\ limit \in (IF side \in {"ServerV5", "ClientV5"} THEN Limits \ {0} ELSE {0})
    /\ ServerV5(0)!Init

Next ==
    /\ UNCHANGED <<side, limit>>
    /\ \/ side = "ServerV5" /\ \E r \in Limits : limit = r /\ ServerV5(r)!Next
       \/ side = "ServerV3" /\ ServerV3!Next /\ UNCHANGED tables
       \/ side = "ClientV5" /\ \E r \in Limits : limit = r /\ ClientV5(r)!Next
       \/ side = "ClientV3" /\ ClientV3!Next /\ UNCHANGED tables

Spec == Init /\ [][Next]_vars

TypeOK == side \in Sides /\ limit \in Limits /\ ServerV5(0)!TypeOK

\* ReceiveMaximum with the limit of the behaviour: no more publishes with a packet id
\* are handled at a time than the dispatcher of version 5 was given as max_receive,
\* answered out of order, passed on to the control service or failed.
ReceiveMaximumKept == \A r \in Limits : limit = r => ServerV5(r)!ReceiveMaximum

Symmetry == Permutations(Slots)
=============================================================================
