------------------------------ MODULE InFlight ------------------------------
(***************************************************************************)
(* The limiter in front of the dispatchers, inflight.rs: it counts the     *)
(* calls in progress and the bytes of their packets, answers poll_ready    *)
(* with Pending while a limit is reached, and wakes the caller when a call *)
(* that ends brings the count below it.                                    *)
(*                                                                         *)
(* The framed dispatcher polls readiness before it reads a packet, but it  *)
(* calls the service with its own items (timeouts, back-pressure, errors)  *)
(* without being ready: the limits can be exceeded.                        *)
(***************************************************************************)
EXTENDS Integers, FiniteSets, Functions

CONSTANTS
    max_cap,   \* limit on calls, 0 for none
    max_size,  \* limit on bytes, 0 for none
    Calls,     \* identities of calls in progress
    Sizes,     \* packet sizes
    MaxCount   \* u16::MAX, the bound on calls in progress

ASSUME InFlightAssumption ==
    /\ max_cap \in 0 .. MaxCount
    /\ max_size \in Nat
    /\ Sizes \subseteq Nat
    /\ MaxCount \in Nat \ {0}

None == -1

VARIABLES
    cur_cap, cur_size,
    guards,      \* the size held by the CounterGuard of each call, None if there is none
    registered,  \* the waker of the dispatcher is stored in task
    dispatcher   \* running, or waiting for readiness

vars == <<cur_cap, cur_size, guards, registered, dispatcher>>

TypeOK ==
    /\ cur_cap \in 0 .. MaxCount
    /\ cur_size \in Nat
    /\ guards \in [Calls -> Sizes \cup {0, None}]
    /\ registered \in BOOLEAN
    /\ dispatcher \in {"running", "waiting"}

Init ==
    /\ cur_cap = 0 /\ cur_size = 0
    /\ guards = [c \in Calls |-> None]
    /\ registered = FALSE
    /\ dispatcher = "running"

Below(cap, size) ==
    (max_cap = 0 \/ cap < max_cap) /\ (max_size = 0 \/ size <= max_size)

\* Mutant: the waker is not stored.
available_unregistered ==
    /\ dispatcher = "running"
    /\ ~Below(cur_cap, cur_size)
    /\ dispatcher' = "waiting"
    /\ UNCHANGED <<cur_cap, cur_size, guards, registered>>

\* The dispatcher polls readiness and has to wait.
available ==
    /\ dispatcher = "running"
    /\ ~Below(cur_cap, cur_size)
    /\ registered' = TRUE /\ dispatcher' = "waiting"
    /\ UNCHANGED <<cur_cap, cur_size, guards>>

\* Mutant: items of the dispatcher are not counted.
inc_sized(size) ==
    /\ cur_cap' = IF size = 0 THEN cur_cap ELSE cur_cap + 1
    /\ cur_size' = cur_size + size

inc(size) ==
    /\ cur_cap' = cur_cap + 1
    /\ cur_size' = cur_size + size

\* A call: a packet read while ready, or an item of the dispatcher (size 0),
\* ready or not. Sizes are not counted without a limit on them.
call(c, size) ==
    /\ cur_cap < MaxCount
    /\ guards[c] = None
    /\ dispatcher = "running"
    /\ size = 0 \/ Below(cur_cap, cur_size)
    /\ LET s == IF max_size > 0 THEN size ELSE 0
       IN  guards' = [guards EXCEPT ![c] = s] /\ inc(s)
    /\ UNCHANGED <<registered, dispatcher>>

\* Mutant: only the limit on calls wakes.
crossed_cap(num, size, new_size) == num = max_cap

\* A drop of a guard takes the counters across a limit.
crossed(num, size, new_size) == num = max_cap \/ (size > max_size /\ new_size <= max_size)

\* A call ends and its guard is dropped.
dec(c) ==
    /\ guards[c] # None
    /\ guards' = [guards EXCEPT ![c] = None]
    /\ cur_cap' = cur_cap - 1
    /\ cur_size' = cur_size - guards[c]
    /\ IF registered /\ crossed(cur_cap, cur_size, cur_size - guards[c])
       THEN registered' = FALSE /\ dispatcher' = "running"
       ELSE UNCHANGED <<registered, dispatcher>>

\* Something else wakes the dispatcher.
wake ==
    /\ dispatcher = "waiting" /\ dispatcher' = "running"
    /\ UNCHANGED <<cur_cap, cur_size, guards, registered>>

Next ==
    \/ available \/ wake
    \/ \E c \in Calls : dec(c) \/ \E s \in Sizes \cup {0} : call(c, s)

Spec == Init /\ [][Next]_vars

\* Calls end.
FairSpec == Spec /\ \A c \in Calls : WF_vars(dec(c))

-----------------------------------------------------------------------------

Held == {c \in Calls : guards[c] # None}

\* Each call in progress is counted once.
CapExact == cur_cap = Cardinality(Held)

\* The counters are those of the calls in progress: they return to zero and never
\* go below it, whatever the order in which calls end.
CountsExact == CapExact /\ cur_size = SumFunctionOnSet(guards, Held)

\* No wake-up is lost: a dispatcher that waits for readiness is over a limit and
\* its waker is stored, also when items of its own took the count past the limit.
NoLostWake == dispatcher = "waiting" => registered /\ ~Below(cur_cap, cur_size)

\* A waiting dispatcher gets to run again when calls end.
Resumes == dispatcher = "waiting" ~> dispatcher = "running"
=============================================================================
