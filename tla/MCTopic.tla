------------------------------ MODULE MCTopic ------------------------------
(***************************************************************************)
(* Topic for TLC. Each text read is compared with the topic names and the  *)
(* filters of up to MaxLevels levels that have the names below.            *)
(***************************************************************************)
EXTENDS Topic, SequencesExt

CONSTANT MaxLevels

Joined(S) == {to_string([i \in 1 .. Len(ns) |-> Level("Normal", ns[i])]) : ns \in S}
Texts(names) == Joined(BoundedSeq(names, MaxLevels) \ {<<>>}) \ {<<>>}
MCTopics == Texts({<<>>, <<"a">>, <<"$">>})
MCFilters == Texts({<<>>, <<"a">>, <<"$">>, <<"+">>, <<"#">>})
=============================================================================
