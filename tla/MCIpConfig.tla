----------------------------- MODULE MCIpConfig -----------------------------
(* TLC instances of IpConfig. *)
EXTENDS IpConfig

CONSTANT Lone   \* a DHCP server that is not a router

\* Every other DHCP server is its clients' router, that of Lone is another machine
SomeRouter(s) == IF s = Lone THEN "router" ELSE s

\* The first two addresses to be proposed belong to other machines
TakenAddresses == {LinkLocal(0, FirstOctet), NextAddress(LinkLocal(0, FirstOctet))}
=============================================================================
