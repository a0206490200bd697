--------------------------- MODULE PacketPromise ---------------------------
(***************************************************************************)
(* What a packet dispatcher promises the peer about packets with an id,    *)
(* without saying how: an id is handled by one call at a time, a call ends *)
(* with an answer, unless the application waives it, and a packet is left  *)
(* unanswered only when the connection ends.                               *)
(***************************************************************************)
CONSTANTS Ids, Calls

VARIABLES
    handling,   \* the calls handling a packet with the id
    open,       \* the connection goes on
    lost        \* a packet was left unanswered

vars == <<handling, open, lost>>

Init == handling = [id \in Ids |-> {}] /\ open = TRUE /\ lost = FALSE

MayEnd == open' \in {open, FALSE}

\* A packet starts to be handled.
Receive(id) ==
    /\ handling[id] = {}
    /\ \E c \in Calls : handling' = [handling EXCEPT ![id] = {c}]
    /\ MayEnd /\ UNCHANGED lost

\* It is answered, or the application waives the answer.
Answer(id) ==
    /\ handling[id] # {} /\ handling' = [handling EXCEPT ![id] = {}]
    /\ MayEnd /\ UNCHANGED lost

\* It is left unanswered, and the connection has ended.
Lose(id) ==
    /\ handling[id] # {} /\ handling' = [handling EXCEPT ![id] = {}]
    /\ open' = FALSE /\ lost' = TRUE

\* Packets refused because of what they are, or because the connection has ended.
Refuse == UNCHANGED handling /\ open' = FALSE /\ lost' \in BOOLEAN /\ (lost => lost')

Next == (\E id \in Ids : Receive(id) \/ Answer(id) \/ Lose(id)) \/ Refuse

Spec == Init /\ [][Next]_vars
=============================================================================
