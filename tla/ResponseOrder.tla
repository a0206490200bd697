--------------------------- MODULE ResponseOrder ----------------------------
(***************************************************************************)
(* What the framed dispatcher of io.rs promises about responses: service   *)
(* calls may finish in any order, their responses are given to the encoder *)
(* in the order of the calls, each exactly once, and as soon as every      *)
(* earlier call has finished.                                              *)
(***************************************************************************)
EXTENDS Integers, Sequences

CONSTANT Results   \* "some", "none", "err", "bad"

VARIABLES
    results,  \* result of each call so far, "Pending" while it runs
    handed    \* the calls whose responses were given to the encoder

ro_vars == <<results, handed>>

\* Length of the longest prefix of finished calls.
Finished(rs) ==
    CHOOSE n \in 0 .. Len(rs) :
        /\ \A i \in 1 .. n : rs[i] # "Pending"
        /\ n < Len(rs) => rs[n + 1] = "Pending"

\* The finished calls with a response ("some", or "bad": refused by the encoder), in
\* the order of the calls.
InCallOrder(hs, rs) ==
    /\ hs \in Seq(1 .. Len(rs))
    /\ \A i, j \in DOMAIN hs : i < j => hs[i] < hs[j]
    /\ {hs[i] : i \in DOMAIN hs} = {i \in 1 .. Finished(rs) : rs[i] \in {"some", "bad"}}

ROInit == results = <<>> /\ handed = <<>>

\* The service is called; the call may finish at once.
Ask == \E v \in Results \cup {"Pending"} : results' = Append(results, v)

\* A running call finishes.
Finish ==
    \E i \in DOMAIN results, v \in Results :
        results[i] = "Pending" /\ results' = [results EXCEPT ![i] = v]

RONext == (Ask \/ Finish) /\ InCallOrder(handed', results')

ROSpec == ROInit /\ [][RONext]_ro_vars
=============================================================================
