--------------------------- MODULE IpConfigProofs ---------------------------
(***************************************************************************)
(* Proofs about IpConfig, for any number of DHCP servers and of rounds.    *)
(*                                                                         *)
(* OneOrigin and LeaseIsBound are not inductive: they need that an ACK on  *)
(* its way is of a server that has bound its address, and that the whole   *)
(* link-local configuration is in place from the first probe on.           *)
(***************************************************************************)
EXTENDS IpConfig, TLAPS

(* An ACK is only sent by a server that has bound its address *)
AckIsBound == \A m \in net : m.type = "ACK" => m.from \in bound

(* From the first probe on the configuration is link-local *)
LinkLocalReady ==
  st \in {"APIPA_TRY", "APIPA_FAIL"} =>
    /\ cfg.mask = "apipa"
    /\ cfg.bcast = <<"apipa">>
    /\ \E t \in 0..conflicts, o \in 1..LastOctet : cfg.myIP = LinkLocal(t, o)

(* A scheduled REQUEST goes to the router of the server whose OFFER it is *)
OfferReady ==
  st = "DHCP_SEND_REQ" =>
    /\ offerer \in Servers
    /\ cfg.preferred = Lease(offerer)
    /\ cfg.gw = Router(offerer)

IndInv == TypeOK /\ OneOrigin /\ LeaseIsBound /\ AckIsBound /\ LinkLocalReady /\ OfferReady

-----------------------------------------------------------------------------
(* Addresses of different kinds differ *)
LEMMA Distinct ==
  ASSUME NEW s, NEW q, NEW t, NEW o
  PROVE  /\ Lease(s) # LinkLocal(t, o) /\ NullIP # Lease(s) /\ NullIP # LinkLocal(t, o)
         /\ Lease(s) = Lease(q) => s = q
BY DEF Lease, LinkLocal, NullIP

(* A leased address is not a link-local one *)
LEMMA LeaseNotLocal == ASSUME NEW s PROVE Lease(s) \notin LinkLocals
BY Distinct DEF LinkLocals

(* handleARP proposes a link-local address again *)
LEMMA NextLocal ==
  ASSUME NEW c \in Nat, c < MaxConflicts, NEW t \in 0..c, NEW o \in 1..LastOctet
  PROVE  \E u \in 0..(c + 1), v \in 1..LastOctet :
           NextAddress(LinkLocal(t, o)) = LinkLocal(u, v)
<1>1. LinkLocal(t, o)[2] = t /\ LinkLocal(t, o)[3] = o
  BY DEF LinkLocal
<1>2. CASE o < LastOctet
  <2>1. NextAddress(LinkLocal(t, o)) = LinkLocal(t, o + 1)
    BY <1>1, <1>2 DEF NextAddress
  <2>2. t \in 0..(c + 1) /\ o + 1 \in 1..LastOctet
    BY <1>2, OctetAssumption
  <2> QED
    BY <2>1, <2>2
<1>3. CASE ~ (o < LastOctet)
  <2>1. NextAddress(LinkLocal(t, o)) = LinkLocal(t + 1, 1)
    BY <1>1, <1>3 DEF NextAddress
  <2>2. t + 1 \in 0..(c + 1) /\ 1 \in 1..LastOctet
    BY OctetAssumption
  <2> QED
    BY <2>1, <2>2
<1> QED
  BY <1>2, <1>3

-----------------------------------------------------------------------------
LEMMA IndInit == Init => IndInv
<1> SUFFICES ASSUME Init PROVE IndInv
  OBVIOUS
<1>1. cfg \in Config
  <2>1. Broadcast("none", NullIP) = <<"none", NullIP>>
    BY DEF Broadcast
  <2>2. NullIP \in IPs /\ "none" \in Origins /\ "none" \in Routers
    BY DEF IPs, Origins, Routers
  <2> QED
    BY <2>1, <2>2 DEF Init, Config
<1>2. TypeOK
  BY <1>1, OctetAssumption DEF Init, TypeOK, States
<1> QED
  BY <1>2 DEF Init, IndInv, OneOrigin, LeaseIsBound, AckIsBound, LinkLocalReady, OfferReady

(* What taking over the options of a message changes *)
LEMMA OptionFields ==
  ASSUME NEW c \in Config, NEW m \in Messages
  PROVE  /\ processDHCPoptions(c, m) \in Config
         /\ processDHCPoptions(c, m).mask = m.from
         /\ processDHCPoptions(c, m).gw = Router(m.from)
         /\ processDHCPoptions(c, m).myIP = c.myIP
         /\ processDHCPoptions(c, m).preferred = c.preferred
         /\ processDHCPoptions(c, m).bcast = c.bcast
<1>1. m.from \in Origins /\ Router(m.from) \in Routers
  BY DEF Messages, Origins, Routers
<1> QED
  BY <1>1 DEF processDHCPoptions, Config

LEMMA IndNext == IndInv /\ [Next]_vars => IndInv'
<1> SUFFICES ASSUME IndInv, [Next]_vars PROVE IndInv'
  OBVIOUS
<1>a. TypeOK /\ OneOrigin /\ LeaseIsBound /\ AckIsBound /\ LinkLocalReady /\ OfferReady
  BY DEF IndInv
<1>b. cfg \in Config /\ NullIP \in IPs
  BY <1>a DEF TypeOK, IPs
<1> USE DEF IndInv
<1>1. CASE requestDHCP
  <2>1. cfg' \in Config /\ [ip |-> cfg.preferred, server |-> cfg.gw] \in [ip : IPs, server : Routers]
    BY <1>1, <1>b DEF requestDHCP, Config
  <2>2. TypeOK'
    BY <1>1, <1>a, <2>1 DEF requestDHCP, TypeOK, States
  <2> QED
    BY <1>1, <1>a, <2>2
       DEF requestDHCP, OneOrigin, LeaseIsBound, AckIsBound, LinkLocalReady, OfferReady
<1>2. CASE NothingToRequest \/ HandleNothing \/ SwallowReply \/ NoWrap
  <2>1. UNCHANGED <<st, cfg, iCount2, conflicts, net, discover, requests, bound, offerer>>
    BY <1>2 DEF NothingToRequest, HandleNothing, SwallowReply, NoWrap, world
  <2>2. replies' \subseteq replies /\ phase' \in {"top", "rx", "wrap"}
    BY <1>2 DEF NothingToRequest, HandleNothing, SwallowReply, NoWrap
  <2>3. TypeOK'
    BY <1>a, <2>1, <2>2 DEF TypeOK
  <2> QED
    BY <1>a, <2>1, <2>3 DEF OneOrigin, LeaseIsBound, AckIsBound, LinkLocalReady, OfferReady
<1>3. ASSUME NEW m \in Messages, HandleUnasked(m) PROVE IndInv'
  <2>1. TypeOK'
    BY <1>3, <1>a DEF HandleUnasked, TypeOK, world
  <2> QED
    BY <1>3, <1>a, <2>1
       DEF HandleUnasked, world, OneOrigin, LeaseIsBound, AckIsBound, LinkLocalReady, OfferReady
<1>4. ASSUME NEW m \in Messages, HandleOffer(m) PROVE IndInv'
  <2> DEFINE c == processDHCPoptions(cfg, m)
  <2>1. c \in Config /\ c.gw = Router(m.from)
    BY <1>b, OptionFields
  <2> HIDE DEF c
  <2>2. cfg' = [c EXCEPT !.preferred = Lease(m.from)] /\ m.from \in Servers
    BY <1>4 DEF HandleOffer, Messages, c
  <2>3. cfg' \in Config /\ cfg'.preferred = Lease(m.from) /\ cfg'.gw = Router(m.from)
    BY <2>1, <2>2 DEF Config, IPs
  <2>4. TypeOK'
    BY <1>4, <1>a, <2>2, <2>3 DEF HandleOffer, TypeOK, States
  <2> QED
    BY <1>4, <1>a, <2>2, <2>3, <2>4
       DEF HandleOffer, OneOrigin, LeaseIsBound, AckIsBound, LinkLocalReady, OfferReady
<1>5. ASSUME NEW m \in Messages, HandleAck(m) PROVE IndInv'
  <2> DEFINE c == processDHCPoptions(cfg, m)
  <2>1. c \in Config /\ c.gw = Router(m.from) /\ c.mask = m.from
    BY <1>b, OptionFields
  <2> HIDE DEF c
  <2>2. /\ cfg' = [c EXCEPT !.myIP = Lease(m.from), !.bcast = Broadcast(c.mask, Lease(m.from))]
        /\ m.from \in Servers /\ st' = "IP_SET"
    BY <1>5 DEF HandleAck, Messages, c
  <2>3. Broadcast(m.from, Lease(m.from)) = <<m.from, Lease(m.from)>>
    BY LeaseNotLocal DEF Broadcast
  <2>4. /\ cfg' \in Config /\ cfg'.myIP = Lease(m.from) /\ cfg'.gw = Router(m.from)
        /\ cfg'.mask = m.from /\ cfg'.bcast = Broadcast(m.from, Lease(m.from))
    <3>1. Lease(m.from) \in IPs /\ m.from \in Origins
      BY <2>2 DEF IPs, Origins
    <3>2. <<m.from, Lease(m.from)>> \in {<<"apipa">>} \cup (Origins \X IPs)
      BY <3>1
    <3> QED
      BY <2>1, <2>2, <2>3, <3>1, <3>2 DEF Config
  <2>5. TypeOK'
    BY <1>5, <1>a, <2>2, <2>4 DEF HandleAck, TypeOK, States, world
  <2>6. OneOrigin'
    BY <2>2, <2>4 DEF OneOrigin
  <2>7. m.from \in bound /\ bound' = bound /\ net' = net
    BY <1>5, <1>a DEF HandleAck, FinalAck, AckIsBound, world
  <2>8. LeaseIsBound'
    <3> SUFFICES ASSUME NEW s \in Servers, cfg'.myIP = Lease(s) PROVE s \in bound'
      BY DEF LeaseIsBound
    <3> QED
      BY <2>4, <2>7, Distinct
  <2> QED
    BY <1>a, <2>2, <2>5, <2>6, <2>7, <2>8 DEF AckIsBound, LinkLocalReady, OfferReady
<1>6. ASSUME NEW m \in Messages, HandleOther(m) PROVE IndInv'
  <2>1. cfg' \in Config
    BY <1>6, <1>b, OptionFields DEF HandleOther
  <2>2. st' = st /\ st \in {"DHCP_WAIT_OFFER", "DHCP_WAIT_ACK"} /\ UNCHANGED <<net, bound>>
    BY <1>6 DEF HandleOther, Asked, world
  <2>3. TypeOK'
    BY <1>6, <1>a, <2>1 DEF HandleOther, TypeOK, world
  <2> QED
    BY <1>a, <2>2, <2>3 DEF OneOrigin, LeaseIsBound, AckIsBound, LinkLocalReady, OfferReady
<1>7. ASSUME NEW own \in BOOLEAN, HandleConflict(own) PROVE IndInv'
  <2>0. /\ conflicts \in Nat /\ conflicts < MaxConflicts /\ conflicts' = conflicts + 1
        /\ st = "APIPA_TRY" /\ st' = "APIPA_FAIL" /\ UNCHANGED <<net, bound>>
    BY <1>7, <1>a, OctetAssumption DEF HandleConflict, TypeOK, world
  <2>1. PICK t \in 0..conflicts, o \in 1..LastOctet : cfg.myIP = LinkLocal(t, o)
    BY <2>0, <1>a DEF LinkLocalReady
  <2>2. PICK u \in 0..(conflicts + 1), v \in 1..LastOctet : NextAddress(cfg.myIP) = LinkLocal(u, v)
    BY <2>0, <2>1, NextLocal
  <2>3. LinkLocal(u, v) \in IPs
    BY <2>0, <2>2, OctetAssumption DEF IPs, LinkLocals
  <2>4. cfg' = [cfg EXCEPT !.myIP = LinkLocal(u, v)]
    BY <1>7, <2>2 DEF HandleConflict
  <2>5. cfg' \in Config /\ cfg'.myIP = LinkLocal(u, v) /\ cfg'.mask = cfg.mask /\ cfg'.bcast = cfg.bcast
    BY <1>b, <2>3, <2>4 DEF Config
  <2>6. TypeOK'
    <3>1. conflicts' \in 0..MaxConflicts
      BY <2>0, OctetAssumption
    <3>2. replies' \subseteq replies
      BY <1>7 DEF HandleConflict
    <3> QED
      BY <1>7, <1>a, <2>5, <3>1, <3>2 DEF HandleConflict, TypeOK, States, world
  <2>7. LinkLocalReady'
    BY <1>a, <2>0, <2>2, <2>5 DEF LinkLocalReady
  <2> QED
    BY <1>a, <2>0, <2>6, <2>7 DEF OneOrigin, LeaseIsBound, AckIsBound, OfferReady
<1>8. Wraps => Counted \in 0..Rounds /\ phase' \in {"top", "rx", "wrap"}
  BY <1>a, OctetAssumption DEF Wraps, Counted, TypeOK
<1>9. CASE initiateDHCP
  <2>1. cfg' \in Config
    BY <1>9, <1>b DEF initiateDHCP, Config
  <2>2. TypeOK'
    BY <1>9, <1>a, <1>8, <2>1 DEF initiateDHCP, TypeOK, States
  <2> QED
    BY <1>9, <1>a, <2>2
       DEF initiateDHCP, OneOrigin, LeaseIsBound, AckIsBound, LinkLocalReady, OfferReady
<1>10. CASE ProposeAPIPA
  <2>0. /\ st' = "APIPA_TRY" /\ UNCHANGED <<net, bound, conflicts>>
        /\ conflicts \in Nat /\ conflicts <= MaxConflicts
    BY <1>10, <1>a, OctetAssumption DEF ProposeAPIPA, TypeOK, world
  <2> DEFINE a == LinkLocal(0, FirstOctet)
  <2>1. a \in LinkLocals /\ 0 \in 0..conflicts /\ FirstOctet \in 1..LastOctet
    BY <2>0, OctetAssumption DEF LinkLocals
  <2>2. Broadcast("apipa", a) = <<"apipa">> /\ a \in IPs /\ "apipa" \in Origins
    BY <2>1 DEF Broadcast, IPs, Origins
  <2>3. cfg' \in Config /\ LinkLocalReady'
    <3>1. CASE st = "APIPA_FAIL"
      BY <1>10, <1>a, <1>b, <2>0, <3>1 DEF ProposeAPIPA, LinkLocalReady
    <3>2. CASE st # "APIPA_FAIL"
      <4>1. cfg' = [cfg EXCEPT !.myIP = a, !.mask = "apipa", !.bcast = <<"apipa">>]
        BY <1>10, <2>2, <3>2 DEF ProposeAPIPA
      <4> HIDE DEF a
      <4>2. cfg' \in Config /\ cfg'.myIP = a /\ cfg'.mask = "apipa" /\ cfg'.bcast = <<"apipa">>
        BY <1>b, <2>2, <4>1 DEF Config
      <4> QED
        BY <2>0, <2>1, <4>2 DEF LinkLocalReady, a
    <3> QED
      BY <3>1, <3>2
  <2>4. replies' \subseteq LinkLocals
    <3>1. cfg'.myIP \in LinkLocals
      BY <2>0, <2>3, OctetAssumption DEF LinkLocalReady, LinkLocals
    <3> QED
      BY <1>10, <1>a, <3>1 DEF ProposeAPIPA, TypeOK
  <2>5. TypeOK'
    BY <1>10, <1>a, <1>8, <2>0, <2>3, <2>4 DEF ProposeAPIPA, TypeOK, States, world
  <2> QED
    BY <1>a, <2>0, <2>3, <2>5 DEF OneOrigin, LeaseIsBound, AckIsBound, OfferReady
<1>11. CASE AcceptAPIPA
  <2>0. /\ st = "APIPA_TRY" /\ st' = "IP_SET"
        /\ UNCHANGED <<cfg, net, bound, conflicts, replies, discover, requests, offerer>>
    BY <1>11 DEF AcceptAPIPA, world
  <2>1. PICK t \in 0..conflicts, o \in 1..LastOctet : cfg.myIP = LinkLocal(t, o)
    BY <2>0, <1>a DEF LinkLocalReady
  <2>2. cfg.myIP \in LinkLocals /\ cfg.mask = "apipa" /\ cfg.bcast = <<"apipa">>
    BY <1>a, <2>0, <2>1, OctetAssumption DEF LinkLocalReady, LinkLocals, TypeOK
  <2>3. OneOrigin'
    BY <2>0, <2>2 DEF OneOrigin, Broadcast
  <2>4. LeaseIsBound'
    BY <2>0, <2>2, LeaseNotLocal DEF LeaseIsBound
  <2>5. TypeOK'
    BY <1>11, <1>a, <1>8, <2>0 DEF AcceptAPIPA, TypeOK, States
  <2> QED
    BY <1>a, <2>0, <2>3, <2>4, <2>5 DEF AckIsBound, LinkLocalReady, OfferReady
<1>12. ASSUME NEW s \in Servers, Offer(s) PROVE IndInv'
  <2>1. net' = net \cup {[type |-> "OFFER", from |-> s]} /\ bound' = bound
    BY <1>12 DEF Offer
  <2>2. AckIsBound'
    BY <1>a, <2>1 DEF AckIsBound
  <2>3. TypeOK'
    BY <1>12, <1>a DEF Offer, TypeOK, Messages
  <2> QED
    BY <1>12, <1>a, <2>2, <2>3 DEF Offer, OneOrigin, LeaseIsBound, LinkLocalReady, OfferReady
<1>13. ASSUME NEW s \in Servers, NEW r \in requests, Answer(s, r) PROVE IndInv'
  <2>1. /\ bound \subseteq bound'
        /\ \A m \in net' : m \in net \/ (m.type = "ACK" => m.from \in bound')
    BY <1>13 DEF Answer
  <2>2. AckIsBound'
    BY <1>a, <2>1 DEF AckIsBound
  <2>3. TypeOK'
    BY <1>13, <1>a DEF Answer, TypeOK, Messages
  <2> QED
    BY <1>13, <1>a, <2>1, <2>2, <2>3 DEF Answer, OneOrigin, LeaseIsBound, LinkLocalReady, OfferReady
<1>14. CASE UNCHANGED vars
  BY <1>14, <1>a
     DEF vars, TypeOK, OneOrigin, LeaseIsBound, AckIsBound, LinkLocalReady, OfferReady
<1> QED
  BY <1>1, <1>2, <1>3, <1>4, <1>5, <1>6, <1>7, <1>9, <1>10, <1>11, <1>12, <1>13, <1>14
     DEF Next, Loop, World, Handle, Wrap

-----------------------------------------------------------------------------
(***************************************************************************)
(* For any number of DHCP servers whose messages are lost, repeated and    *)
(* reordered: the types, the configuration in force is of one origin, and  *)
(* a leased address in use has been bound to us by its server.             *)
(***************************************************************************)
THEOREM ConfigSound == Spec => [](TypeOK /\ OneOrigin /\ LeaseIsBound)
BY IndInit, IndNext, PTL DEF Spec, IndInv

(***************************************************************************)
(* Type correctness of the client and of every DHCP and ARP message under  *)
(* way, for any number of servers.                                         *)
(***************************************************************************)
THEOREM TypeCorrect == Spec => []TypeOK
BY ConfigSound, PTL

(***************************************************************************)
(* A REQUEST asks for the address and names the router of the OFFER that   *)
(* was last taken up, whichever machines the routers are.                  *)
(***************************************************************************)
THEOREM RequestIsOfOneOffer == Spec => RequestMatchesOffer
<1> DEFINE Matches ==
      \A r \in requests' \ requests :
        /\ offerer \in Servers
        /\ r = [ip |-> Lease(offerer), server |-> Router(offerer)]
<1>1. IndInv /\ [Next]_vars => [Matches]_vars
  <2> SUFFICES ASSUME IndInv, Next, NEW r \in requests' \ requests
               PROVE  /\ offerer \in Servers
                      /\ r = [ip |-> Lease(offerer), server |-> Router(offerer)]
    OBVIOUS
  <2>1. requestDHCP
    BY DEF Next, Loop, World, NothingToRequest, Handle, HandleUnasked, HandleOffer, HandleAck,
           HandleOther, HandleNothing, SwallowReply, HandleConflict, NoWrap, Wrap, initiateDHCP,
           ProposeAPIPA, AcceptAPIPA, Offer, Answer, world
  <2>2. r = [ip |-> cfg.preferred, server |-> cfg.gw]
    BY <2>1 DEF requestDHCP
  <2> QED
    BY <2>1, <2>2 DEF requestDHCP, IndInv, OfferReady
<1> QED
  BY <1>1, IndInit, IndNext, PTL DEF Spec, RequestMatchesOffer

(***************************************************************************)
(* Once the device has its address no DHCP message, ARP or timeout touches *)
(* its configuration again.                                                *)
(***************************************************************************)
LEMMA FinalStep == [Next]_vars => (st = "IP_SET" => UNCHANGED <<st, cfg>>)
BY DEF vars, Next, Loop, World, requestDHCP, NothingToRequest, Handle, HandleUnasked, HandleOffer,
         HandleAck, HandleOther, Asked, HandleNothing, SwallowReply, HandleConflict, NoWrap,
         Wrap, Wraps, initiateDHCP, ProposeAPIPA, AcceptAPIPA, Offer, Answer

(* As a property of every behaviour *)
THEOREM ConfigIsFinal == Spec => SetForGood
BY FinalStep, PTL DEF Spec, SetForGood

-----------------------------------------------------------------------------
(***************************************************************************)
(* The refinement.  A step that ends in IP_SET adopts, the one in which a  *)
(* server binds its address grants, all others change nothing in sight.    *)
(***************************************************************************)

(* A configuration in force is one that module Address knows *)
LEMMA InForceIsKnown ==
  IndInv /\ st = "IP_SET" => InForce \in LocalConfigs \cup {LeasedConfig(s) : s \in bound}
<1> SUFFICES ASSUME TypeOK, OneOrigin, LeaseIsBound, st = "IP_SET"
             PROVE  InForce \in LocalConfigs \cup {LeasedConfig(s) : s \in bound}
  BY DEF IndInv
<1>0. cfg \in Config
  BY DEF TypeOK
<1>1. InForce = <<cfg.myIP, cfg.mask, cfg.gw, cfg.bcast>>
  BY DEF InForce
<1>2. CASE \E s \in Servers : cfg.myIP = Lease(s) /\ cfg.mask = s /\ cfg.gw = Router(s)
  <2>1. PICK s \in Servers : cfg.myIP = Lease(s) /\ cfg.mask = s /\ cfg.gw = Router(s)
    BY <1>2
  <2>2. InForce = LeasedConfig(s)
    BY <1>1, <2>1 DEF OneOrigin, LeasedConfig
  <2>3. s \in bound
    BY <2>1 DEF LeaseIsBound
  <2> QED
    BY <2>2, <2>3
<1>3. CASE cfg.myIP \in LinkLocals /\ cfg.mask = "apipa"
  <2>1. cfg.bcast = <<"apipa">>
    BY <1>3 DEF OneOrigin, Broadcast
  <2>2. cfg.gw \in Routers
    BY <1>0 DEF Config
  <2> QED
    BY <1>1, <1>3, <2>1, <2>2 DEF LocalConfigs
<1> QED
  BY <1>2, <1>3 DEF OneOrigin

(* The device implements module Address: what it brings into force, and how *)
THEOREM PromiseKept == Spec => KeepsPromise
<1>1. Init => Promise!Init
  BY DEF Init, Promise!Init, InForce
<1>0. (IndInv /\ st = "IP_SET" => InForce \in LocalConfigs \cup {LeasedConfig(s) : s \in bound})'
  BY InForceIsKnown, PTL
<1>2. IndInv /\ IndInv' /\ [Next]_vars => [Promise!Next]_(Promise!vars)
  <2> SUFFICES ASSUME IndInv, IndInv', [Next]_vars PROVE [Promise!Next]_(Promise!vars)
    OBVIOUS
  <2>1. CASE st = "IP_SET" \/ st' # "IP_SET"
    <3>1. InForce' = InForce
      <4>1. st = "IP_SET" => UNCHANGED <<st, cfg>>
        BY FinalStep DEF vars
      <4> QED
        BY <2>1, <4>1 DEF InForce
    <3>2. bound' = bound \/ \E s \in Servers : bound' = bound \cup {s}
      BY DEF Next, Loop, World, requestDHCP, NothingToRequest, Handle, HandleUnasked, HandleOffer,
             HandleAck, HandleOther, HandleNothing, SwallowReply, HandleConflict, NoWrap, Wrap,
             initiateDHCP, ProposeAPIPA, AcceptAPIPA, Offer, Answer, vars, world
    <3> QED
      BY <3>1, <3>2 DEF Promise!Next, Promise!Grant, Promise!vars
  <2>2. CASE st # "IP_SET" /\ st' = "IP_SET"
    <3>1. bound' = bound
      BY <2>2 DEF Next, Loop, World, requestDHCP, NothingToRequest, Handle, HandleUnasked,
             HandleOffer, HandleAck, HandleOther, HandleNothing, SwallowReply, HandleConflict,
             NoWrap, Wrap, initiateDHCP, ProposeAPIPA, AcceptAPIPA, Offer, Answer, vars, world
    <3>2. InForce = Unset
      BY <2>2 DEF InForce
    <3>3. InForce' \in LocalConfigs \cup {LeasedConfig(s) : s \in bound'}
      BY <2>2, <1>0
    <3>4. bound \subseteq Servers
      BY DEF IndInv, TypeOK
    <3>5. Promise!Adopt(InForce')
      BY <3>1, <3>2, <3>3 DEF Promise!Adopt
    <3>6. InForce' \in LocalConfigs \cup {LeasedConfig(s) : s \in Servers}
      BY <3>1, <3>3, <3>4
    <3> QED
      BY <3>5, <3>6 DEF Promise!Next
  <2> QED
    BY <2>1, <2>2
<1> QED
  BY <1>1, <1>2, IndInit, IndNext, PTL DEF Spec, KeepsPromise, Promise!Spec
=============================================================================
