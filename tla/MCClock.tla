------------------------------ MODULE MCClock ------------------------------
(* TLC instances of Clock. *)
EXTENDS Clock
=============================================================================
