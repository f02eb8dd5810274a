------------------------------ MODULE IpConfig ------------------------------
(***************************************************************************)
(* How the device gets its IP address: the DHCP client of                  *)
(* applicationCore.c and the fallback to a 169.254.x.y address (APIPA) in  *)
(* the main loop of main.c and in handleARP of network.c.                  *)
(*                                                                         *)
(* A round of the main loop is three steps: "top" (a scheduled REQUEST is  *)
(* sent), "rx" (handlePacket: one frame at most) and "wrap" (iCount, which *)
(* counts rounds, may have wrapped to 0, about every 2 s).                 *)
(*                                                                         *)
(* The DHCP servers and the network are external: messages are lost,       *)
(* duplicated and reordered at will (a message once sent stays in net).    *)
(* The transaction ID is a constant of the build (MYID), so it never tells *)
(* an old answer from a new one and is left out, as are messages with the  *)
(* wrong ID, op or MAC, which handleDHCP ignores.  Every server's messages *)
(* carry a mask and a router.                                              *)
(***************************************************************************)
EXTENDS Naturals

CONSTANTS
  Servers,      \* DHCP servers, each with one address to lease
  Router(_),    \* the router that a server tells its clients of
  UseAPIPA,     \* USE_APIPA
  Rounds,       \* wraps of iCount before APIPA, 5
  LastOctet,    \* largest last octet of a proposed address, 254
  FirstOctet,   \* last octet of the first one, derived from the MAC address
  InUse,        \* the link-local addresses of other machines
  MaxConflicts  \* bound: addresses given up

ASSUME OctetAssumption ==
  /\ LastOctet \in Nat /\ FirstOctet \in 1..LastOctet
  /\ Rounds \in Nat \ {0} /\ MaxConflicts \in Nat

NullIP      == <<"null">>
Lease(s)    == <<"lease", s>>
LinkLocal(t, o) == <<"apipa", t, o>>        \* 169.254.t.o

LinkLocals == {LinkLocal(t, o) : t \in 0..MaxConflicts, o \in 1..LastOctet}
IPs        == {NullIP} \cup {Lease(s) : s \in Servers} \cup LinkLocals
Origins    == {"none", "apipa"} \cup Servers
Routers    == {"none"} \cup {Router(s) : s \in Servers}

States == {"DHCP_WAIT_OFFER", "DHCP_SEND_REQ", "DHCP_WAIT_ACK", "APIPA_TRY",
           "APIPA_FAIL", "IP_SET"}

Messages == [type : {"OFFER", "ACK", "NAK"}, from : Servers]

VARIABLES
  st,         \* MyState.IP
  cfg,        \* myIP, myPreferredIP, subnetMask (whose), GWIP, subnetBroadcastIP
  iCount2,
  phase,
  replies,    \* the probed addresses whose owners' ARP replies are on their way
  conflicts,  \* bound: addresses given up so far
  net,        \* DHCP messages to us
  discover,   \* has a DISCOVER been sent?
  requests,   \* the REQUESTs sent
  bound,      \* the servers that have bound their address to us
  offerer     \* history: the server whose OFFER was last taken up

vars == <<st, cfg, iCount2, phase, replies, conflicts, net, discover, requests, bound, offerer>>
world == <<net, discover, requests, bound, offerer>>

(* (~subnetMask) | myIP: all link-local addresses have the same broadcast *)
Broadcast(mask, ip) ==
  IF mask = "apipa" /\ ip \in LinkLocals THEN <<"apipa">> ELSE <<mask, ip>>

(* main() has called initiateDHCP before its loop *)
Init ==
  /\ st = "DHCP_WAIT_OFFER"
  /\ cfg = [myIP |-> NullIP, preferred |-> NullIP, mask |-> "none", gw |-> "none",
            bcast |-> Broadcast("none", NullIP)]
  /\ iCount2 = 0
  /\ phase = "top"
  /\ replies = {}
  /\ conflicts = 0
  /\ net = {} /\ discover = TRUE /\ requests = {} /\ bound = {}
  /\ offerer = "none"

-----------------------------------------------------------------------------
(* "Have OFFER, so request": the REQUEST names GWIP as the server *)
requestDHCP ==
  /\ phase = "top"
  /\ st = "DHCP_SEND_REQ"
  /\ cfg' = [cfg EXCEPT !.myIP = NullIP]
  /\ requests' = requests \cup {[ip |-> cfg.preferred, server |-> cfg.gw]}
  /\ st' = "DHCP_WAIT_ACK"
  /\ phase' = "rx"
  /\ UNCHANGED <<iCount2, replies, conflicts, net, discover, bound, offerer>>

NothingToRequest ==
  /\ phase = "top"
  /\ st # "DHCP_SEND_REQ"
  /\ phase' = "rx"
  /\ UNCHANGED <<st, cfg, iCount2, replies, conflicts, world>>

-----------------------------------------------------------------------------
(* handleDHCP *)

(* "We must have asked" *)
Asked == st \in {"DHCP_WAIT_OFFER", "DHCP_WAIT_ACK"}

SkipOptions(c, m) == c                                   \* mutant: options dropped
SkipMask(c, m) == [c EXCEPT !.gw = Router(m.from)]       \* mutant: mask dropped
processDHCPoptions(c, m) == [c EXCEPT !.mask = m.from, !.gw = Router(m.from)]

HandleUnasked(m) ==
  /\ phase = "rx" /\ m \in net
  /\ ~ Asked
  /\ phase' = "wrap"
  /\ UNCHANGED <<st, cfg, iCount2, replies, conflicts, world>>

(* "Let's take up that offer" *)
HandleOffer(m) ==
  /\ phase = "rx" /\ m \in net
  /\ Asked
  /\ m.type = "OFFER" /\ st = "DHCP_WAIT_OFFER"
  /\ cfg' = [processDHCPoptions(cfg, m) EXCEPT !.preferred = Lease(m.from)]
  /\ st' = "DHCP_SEND_REQ"
  /\ offerer' = m.from
  /\ phase' = "wrap"
  /\ UNCHANGED <<iCount2, replies, conflicts, net, discover, requests, bound>>

FinalOrOffer(m) == m.type \in {"ACK", "OFFER"}           \* mutant: an OFFER will do
FinalAck(m) == m.type = "ACK"

(* "All done": the address is the message's, whatever was requested *)
HandleAck(m) ==
  /\ phase = "rx" /\ m \in net
  /\ Asked
  /\ FinalAck(m) /\ st = "DHCP_WAIT_ACK"
  /\ LET c == processDHCPoptions(cfg, m)
     IN  cfg' = [c EXCEPT !.myIP = Lease(m.from), !.bcast = Broadcast(c.mask, Lease(m.from))]
  /\ st' = "IP_SET"
  /\ phase' = "wrap"
  /\ UNCHANGED <<iCount2, replies, conflicts, world>>

(* The message is of another type, but its options have been taken over *)
HandleOther(m) ==
  /\ phase = "rx" /\ m \in net
  /\ Asked
  /\ ~ (m.type = "OFFER" /\ st = "DHCP_WAIT_OFFER")
  /\ ~ (FinalAck(m) /\ st = "DHCP_WAIT_ACK")
  /\ cfg' = processDHCPoptions(cfg, m)
  /\ phase' = "wrap"
  /\ UNCHANGED <<st, iCount2, replies, conflicts, world>>

(* No frame, or one that has no bearing on the address *)
HandleNothing ==
  /\ phase = "rx"
  /\ phase' = "wrap"
  /\ UNCHANGED <<st, cfg, iCount2, replies, conflicts, world>>

(* An ARP reply: linkPacketHeader keeps it from handlePacket *)
SwallowReply ==
  /\ phase = "rx"
  /\ \E a \in replies : replies' = replies \ {a}
  /\ phase' = "wrap"
  /\ UNCHANGED <<st, cfg, iCount2, conflicts, world>>

NextOctetPast(a) == LinkLocal(a[2], a[3] + 1)            \* mutant: octet runs over
NextAddress(a) ==
  IF a[3] < LastOctet THEN LinkLocal(a[2], a[3] + 1) ELSE LinkLocal(a[2] + 1, 1)

(***************************************************************************)
(* The answer to an LLMNR question has to be sent to another subnet, and   *)
(* resolveMAC hands the ARPs it hears to handleARP: the reply to our probe *)
(* or our own reply to somebody's request for the address (own), which     *)
(* linkPacketHeader has left in the buffer.  "Someone already using my     *)
(* proposed IP".                                                           *)
(***************************************************************************)
HandleConflict(own) ==
  /\ phase = "rx"
  /\ st = "APIPA_TRY"
  /\ own \/ cfg.myIP \in replies
  /\ conflicts < MaxConflicts
  /\ conflicts' = conflicts + 1
  /\ cfg' = [cfg EXCEPT !.myIP = NextAddress(@)]
  /\ st' = "APIPA_FAIL"
  /\ replies' = IF own THEN replies ELSE replies \ {cfg.myIP}
  /\ phase' = "wrap"
  /\ UNCHANGED <<iCount2, world>>

-----------------------------------------------------------------------------
(* The end of a round: iCount has not wrapped, or there is nothing to do *)
NoWrap ==
  /\ phase = "wrap"
  /\ phase' = "top"
  /\ UNCHANGED <<st, cfg, iCount2, replies, conflicts, world>>

Wraps == phase = "wrap" /\ st # "IP_SET" /\ phase' = "top"

Counted == IF iCount2 < Rounds THEN iCount2 + 1 ELSE iCount2

GiveUpDHCP == UseAPIPA /\ (Counted >= Rounds \/ st = "APIPA_FAIL")

(* initiateDHCP, again *)
initiateDHCP ==
  /\ Wraps
  /\ ~ GiveUpDHCP
  /\ iCount2' = Counted
  /\ cfg' = [cfg EXCEPT !.preferred = cfg.myIP, !.myIP = NullIP]
  /\ discover' = TRUE
  /\ st' = "DHCP_WAIT_OFFER"
  /\ UNCHANGED <<replies, conflicts, net, requests, bound, offerer>>

(* Propose a link-local address, the first one or the next, and probe it *)
ProposeAPIPA ==
  /\ Wraps
  /\ GiveUpDHCP
  /\ st # "APIPA_TRY"
  /\ iCount2' = Counted
  /\ cfg' = IF st = "APIPA_FAIL" THEN cfg
            ELSE [cfg EXCEPT !.myIP = LinkLocal(0, FirstOctet), !.mask = "apipa",
                             !.bcast = Broadcast("apipa", LinkLocal(0, FirstOctet))]
  /\ replies' = replies \cup ({cfg'.myIP} \cap InUse)
  /\ st' = "APIPA_TRY"
  /\ UNCHANGED <<conflicts, world>>

(* "no ARP heard, so we're happy to use" *)
AcceptNever ==                                           \* mutant: probes for ever
  /\ Wraps
  /\ GiveUpDHCP
  /\ st = "APIPA_TRY"
  /\ UNCHANGED <<st, iCount2, cfg, replies, conflicts, world>>
AcceptAPIPA ==
  /\ Wraps
  /\ GiveUpDHCP
  /\ st = "APIPA_TRY"
  /\ iCount2' = Counted
  /\ st' = "IP_SET"
  /\ UNCHANGED <<cfg, replies, conflicts, world>>

-----------------------------------------------------------------------------
(* The servers *)

Offer(s) ==
  /\ discover
  /\ net' = net \cup {[type |-> "OFFER", from |-> s]}
  /\ UNCHANGED <<st, cfg, iCount2, phase, replies, conflicts, discover, requests, bound, offerer>>

(* A server answers the REQUESTs that name it, and no others *)
Answer(s, r) ==
  /\ r \in requests
  /\ r.server = s
  /\ \/ /\ r.ip = Lease(s)
        /\ net' = net \cup {[type |-> "ACK", from |-> s]}
        /\ bound' = bound \cup {s}
     \/ /\ net' = net \cup {[type |-> "NAK", from |-> s]}
        /\ UNCHANGED bound
  /\ UNCHANGED <<st, cfg, iCount2, phase, replies, conflicts, discover, requests, offerer>>

Handle(m) == HandleUnasked(m) \/ HandleOffer(m) \/ HandleAck(m) \/ HandleOther(m)

Wrap == initiateDHCP \/ ProposeAPIPA \/ AcceptAPIPA

Loop ==
  \/ requestDHCP \/ NothingToRequest
  \/ (\E m \in Messages : Handle(m))
  \/ HandleNothing \/ SwallowReply \/ (\E own \in BOOLEAN : HandleConflict(own))
  \/ NoWrap \/ Wrap

World == \E s \in Servers : Offer(s) \/ \E r \in requests : Answer(s, r)

Next == Loop \/ World

Spec == Init /\ [][Next]_vars

(* Fairness: the main loop goes round, and a 16-bit count of rounds wraps *)
FairSpec == Spec /\ WF_vars(Loop) /\ SF_vars(Wrap)

-----------------------------------------------------------------------------
Config == [myIP : IPs, preferred : IPs, mask : Origins, gw : Routers,
           bcast : {<<"apipa">>} \cup (Origins \X IPs)]

(* The type invariant *)
TypeOK ==
  /\ st \in States
  /\ cfg \in Config
  /\ iCount2 \in 0..Rounds
  /\ phase \in {"top", "rx", "wrap"}
  /\ replies \subseteq LinkLocals
  /\ conflicts \in 0..MaxConflicts
  /\ net \subseteq Messages
  /\ discover \in BOOLEAN
  /\ requests \subseteq [ip : IPs, server : Routers]
  /\ bound \subseteq Servers
  /\ offerer \in {"none"} \cup Servers

(***************************************************************************)
(* However the messages of several servers mix, and though handleDHCP      *)
(* takes over the options of every one of them, the configuration that is  *)
(* in force is of one origin: a leased address comes with the mask, the    *)
(* router and the broadcast address of the server that leases it, a        *)
(* 169.254.x.y address with that subnet's mask and broadcast address.      *)
(***************************************************************************)
OneOrigin ==
  st = "IP_SET" =>
    /\ cfg.bcast = Broadcast(cfg.mask, cfg.myIP)
    /\ \/ \E s \in Servers : cfg.myIP = Lease(s) /\ cfg.mask = s /\ cfg.gw = Router(s)
       \/ cfg.myIP \in LinkLocals /\ cfg.mask = "apipa"

(* A leased address is in use only after its server has bound it to us *)
LeaseIsBound ==
  st = "IP_SET" => \A s \in Servers : cfg.myIP = Lease(s) => s \in bound

(* "All done": late or repeated DHCP messages and ARPs change nothing *)
SetForGood == [][st = "IP_SET" => UNCHANGED <<st, cfg>>]_vars

(***************************************************************************)
(* However DHCP and the link-local fallback interleave, the device does    *)
(* what module Address promises: the address, mask, router and broadcast   *)
(* address that come into force do so in one step, are of one origin and,  *)
(* if leased, bound by their server, and neither late nor repeated         *)
(* messages and ARPs change them.                                          *)
(***************************************************************************)
Unset == <<>>
InForce ==
  IF st = "IP_SET" THEN <<cfg.myIP, cfg.mask, cfg.gw, cfg.bcast>> ELSE Unset

LeasedConfig(s) == <<Lease(s), s, Router(s), Broadcast(s, Lease(s))>>
LocalConfigs == {<<ip, "apipa", gw, <<"apipa">> >> : ip \in LinkLocals, gw \in Routers}

Promise ==
  INSTANCE Address WITH Leased <- LeasedConfig, Locals <- LocalConfigs, None <- Unset,
                        address <- InForce, granted <- bound

KeepsPromise == Promise!Spec

(***************************************************************************)
(* requestDHCP, "Have OFFER, so request", rounds of the main loop after    *)
(* the OFFER: whatever other messages, timeouts and link-local attempts    *)
(* come between, a REQUEST asks for the address and names the router of    *)
(* one and the same OFFER, the one last taken up.                          *)
(***************************************************************************)
RequestMatchesOffer ==
  [][\A r \in requests' \ requests :
       /\ offerer \in Servers
       /\ r = [ip |-> Lease(offerer), server |-> Router(offerer)]]_vars

(***************************************************************************)
(* prepDHCP: "Specify DHCP server who replied to us".  It is false unless  *)
(* every server is its clients' router: prepDHCP names GWIP.               *)
(***************************************************************************)
RequestNamesOfferer == [][\A r \in requests' \ requests : r.server = offerer]_vars

(***************************************************************************)
(* handleDHCP, on an OFFER: "Schedule a request".                          *)
(***************************************************************************)
ScheduledIsSent ==
  [][st = "DHCP_SEND_REQ" => st' \in {"DHCP_SEND_REQ", "DHCP_WAIT_ACK"}]_vars

(***************************************************************************)
(* main.c: "will use ARP to ensure address is not already in use".  An     *)
(* address that is taken into use has no other owner, unless the owner's   *)
(* reply to the probe is late.                                             *)
(***************************************************************************)
AddressIsFree ==
  [][st = "APIPA_TRY" /\ st' = "IP_SET" /\ cfg.myIP \in InUse
       => cfg.myIP \in replies]_vars

(* handleARP: an address is given up when "Someone [is] already using" it *)
GivenUpIsTaken ==
  [][st = "APIPA_TRY" /\ st' = "APIPA_FAIL" => cfg.myIP \in InUse]_vars

(* The device always gets an address in the end *)
AddressObtained == <>(st = "IP_SET")
=============================================================================
