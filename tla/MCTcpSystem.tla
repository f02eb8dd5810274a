---------------------------- MODULE MCTcpSystem ----------------------------
(* TLC instances of TcpSystem. *)
EXTENDS TcpSystem

\* Everything the clients and the server put into a header
WireFlags == {{"SYN"}, {"ACK"}, {"FIN", "ACK"}, {"RST"}}

AllPeers == Peers

\* out and dataIn only report the last handler's output: no step reads them
View == <<tcb, answers, finOut, client, toServer, toPeers, opens, handed, current, served, lost>>
=============================================================================
