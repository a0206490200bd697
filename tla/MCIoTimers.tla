----------------------------- MODULE MCIoTimers -----------------------------
(* Instances of IoTimers for TLC. *)
EXTENDS IoTimers
=============================================================================
