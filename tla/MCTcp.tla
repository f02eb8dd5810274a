------------------------------- MODULE MCTcp -------------------------------
(* TLC instance of Tcp: arbitrary segments, sequence numbers modulo M. *)
EXTENDS Tcp, TLC

\* One flag set for each branch of handleTCP, an invalid one among them
WireFlags == {{"SYN"}, {"ACK"}, {"FIN", "ACK"}, {"RST"}, {"FIN"}}

Symmetry == Permutations(Hosts) \cup Permutations(Ports)
=============================================================================
