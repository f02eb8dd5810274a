------------------------------- MODULE MCLink -------------------------------
(* TLC instances of Link. *)
EXTENDS Link
=============================================================================
