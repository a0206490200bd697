----------------------------- MODULE MCInFlight -----------------------------
(* Instances of InFlight for TLC. *)
EXTENDS InFlight
=============================================================================
