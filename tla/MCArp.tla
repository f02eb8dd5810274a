------------------------------- MODULE MCArp -------------------------------
(* TLC instances of Arp. *)
EXTENDS Arp, TLC

\* No MAC address is special
AnyMAC == Permutations(MACs)
=============================================================================
