--------------------------- MODULE MCIoDispatcher ---------------------------
(* Instances of IoDispatcher for TLC. *)
EXTENDS IoDispatcher
=============================================================================
