--------------------------------- MODULE Arp ---------------------------------
(***************************************************************************)
(* The IP<->MAC table ARP_held of network.c: learnMAC() and knownMAC() on  *)
(* behalf of handlePacket(), resolveMAC() on behalf of launchIP4(), and    *)
(* refreshMACList(), which the one-second interrupt TIMER0_OVF calls.      *)
(*                                                                         *)
(* Two contexts share the table.  The main context (cpu) advances by one   *)
(* access to the table per step (the search for the stalest entry counts   *)
(* as one).  The interrupt (isr) advances by one round of its loop per     *)
(* step and is never itself interrupted: while it runs the main context    *)
(* stands still.  Nothing in the code disables the interrupt around an     *)
(* access, so it arrives anywhere.                                         *)
(*                                                                         *)
(* The other machines are external: owner gives the MAC address from which *)
(* the packets of an IP address come, the gateway's for a remote one.  So  *)
(* is the network: an ARP request of ours, or the reply to it, may be lost *)
(* (LoseARP), and the code does not ask again on its own.                  *)
(* The addresses that resolveMAC answers without looking at the table      *)
(* (null, broadcast, LLMNR, mDNS) are not targets here.                    *)
(***************************************************************************)
EXTENDS Integers

CONSTANTS
  IPs,                \* unicast addresses heard and sent to
  Local,              \* those of them on our subnet
  GWIP, myIP,         \* the gateway's and our own address
  NullIP,             \* 0.0.0.0, the source of a DHCP client
  MACs,
  NoMAC,              \* content of a table slot before its first use
  MAX_ARP_HELD,
  TICKS_TO_HOLD_MAC,
  TickRange,          \* half the values of int8_t ticks, 128
  MayMove             \* may an address move to another MAC?

ASSUME AddressAssumption == /\ Local \subseteq IPs /\ {GWIP, myIP} \subseteq Local
                            /\ NullIP \notin IPs
ASSUME HeldAssumption    == MAX_ARP_HELD \in Nat \ {0}
ASSUME TicksAssumption   == /\ TICKS_TO_HOLD_MAC \in Nat \ {0} /\ TickRange \in Nat
                            /\ TICKS_TO_HOLD_MAC < TickRange

Slots == 0..(MAX_ARP_HELD - 1)
Ticks == (-TickRange)..(TickRange - 1)
Off   == -1                            \* isr: no interrupt is being served

\* An age that stands for "longer ago than any entry may live"
Forgotten == TICKS_TO_HOLD_MAC + MAX_ARP_HELD

VARIABLES
  arp,       \* ARP_held and known_IP_addresses (n)
  cpu,       \* the main context: where it is and its local variables
  isr,       \* i of refreshMACList, or Off
  owner,     \* the world: where packets of an address come from
  resolved,  \* the last answer of resolveMAC
  asked,     \* the network: our ARP request or the reply to it is under way
  heard,     \* history: the pairs that learnMAC was called with
  age,       \* history: seconds since learnMAC last returned for an address
  shuffled   \* history: an entry was dropped under an index in use

history == <<heard, age, shuffled>>
vars == <<arp, cpu, isr, owner, resolved, asked, heard, age, shuffled>>

NextHop(ip) == IF ip \in Local THEN ip ELSE GWIP

Where == {"idle", "known", "found", "full", "setTicks", "setIP", "setMAC",
          "count", "resolve", "answer", "listen"}

Idle == [pc |-> "idle", ret |-> "idle", ip |-> NullIP, mac |-> NoMAC,
         i |-> 0, n |-> 0, full |-> FALSE, reg |-> FALSE, hop |-> NullIP]

Init ==
  /\ arp = [n |-> 0, ip |-> [k \in Slots |-> NullIP],
            mac |-> [k \in Slots |-> NoMAC], ticks |-> [k \in Slots |-> 0]]
  /\ cpu = Idle
  /\ isr = Off
  /\ owner \in {f \in [IPs -> MACs] :
                 /\ \A a, b \in Local : f[a] = f[b] => a = b
                 /\ \A a \in IPs \ Local : f[a] = f[GWIP]}
  /\ resolved = [hop |-> NullIP, mac |-> NoMAC]
  /\ asked = FALSE
  /\ heard = {}
  /\ age = [ip \in IPs |-> Forgotten]
  /\ shuffled = FALSE

-----------------------------------------------------------------------------
(* The interrupt: refreshMACList *)

Dec(t) == IF t = -TickRange THEN TickRange - 1 ELSE t - 1

DropIPOnly(t, i) ==                                          \* mutant: MACs not moved
  LET Down(f) == [k \in Slots |-> IF i <= k /\ k < t.n - 1 THEN f[k + 1] ELSE f[k]]
  IN  [t EXCEPT !.n = @ - 1, !.ip = Down(@), !.ticks = Down(@)]
Drop(t, i) ==
  LET Down(f) == [k \in Slots |-> IF i <= k /\ k < t.n - 1 THEN f[k + 1] ELSE f[k]]
  IN  [n |-> t.n - 1, ip |-> Down(t.ip), mac |-> Down(t.mac),
       ticks |-> Down([t.ticks EXCEPT ![i] = Dec(@)])]

(* A second has passed *)
TickStart ==
  /\ isr = Off
  /\ isr' = 0
  /\ age' = [ip \in IPs |-> IF age[ip] < Forgotten THEN age[ip] + 1 ELSE age[ip]]
  /\ UNCHANGED <<arp, cpu, owner, resolved, asked, heard, shuffled>>

(* "time expired at 0" *)
ExpiredLate(i) == arp.ticks[i] = -1                          \* mutant: --ticks tested
Expired(i) == arp.ticks[i] = 0

(***************************************************************************)
(* The interrupted learnMAC or resolveMAC holds index cpu.i, to use it, or *)
(* its search has passed entry k.                                          *)
(***************************************************************************)
Holding == {"found", "setTicks", "setIP", "setMAC", "count", "answer"}
InUse(k) == \/ cpu.pc \in Holding /\ k <= cpu.i
            \/ cpu.pc = "known" /\ k < cpu.i

(* One round of the loop *)
TickEntry ==
  /\ isr # Off
  /\ isr < arp.n
  /\ arp' = IF Expired(isr) THEN Drop(arp, isr)
                            ELSE [arp EXCEPT !.ticks[isr] = Dec(@)]
  /\ isr' = isr + 1
  /\ shuffled' = (shuffled \/ (Expired(isr) /\ InUse(isr)))
  /\ UNCHANGED <<cpu, owner, resolved, asked, heard, age>>

TickEnd ==
  /\ isr # Off
  /\ isr >= arp.n
  /\ isr' = Off
  /\ UNCHANGED <<arp, cpu, owner, resolved, asked, history>>

-----------------------------------------------------------------------------
(* knownMAC has looked at all entries *)
NotFoundEarly == cpu.i >= arp.n - 1                          \* mutant: last one missed
NotFound == cpu.i >= arp.n

(* learnMAC, called with ip and mac, after which the context is at ret *)

CallLearn(ip, mac, ret) ==
  /\ cpu' = IF ip = NullIP THEN [cpu EXCEPT !.pc = ret]
            ELSE [cpu EXCEPT !.pc = "known", !.ret = ret, !.ip = ip, !.mac = mac, !.i = 0]
  /\ heard' = IF ip = NullIP THEN heard ELSE heard \cup {<<ip, mac>>}
  /\ UNCHANGED <<age, shuffled>>

Return == /\ cpu' = [Idle EXCEPT !.pc = cpu.ret, !.hop = cpu.hop]
          /\ age' = [age EXCEPT ![cpu.ip] = 0]

(* handlePacket: an IP packet was heard *)
Hear(ip) ==
  /\ cpu.pc = "idle"
  /\ CallLearn(ip, IF ip = NullIP THEN NoMAC ELSE owner[ip], "idle")
  /\ UNCHANGED <<arp, isr, owner, resolved, asked>>

(* The loop of knownMAC, called from learnMAC *)
LearnScan ==
  /\ cpu.pc = "known"
  /\ cpu' = IF NotFound
            THEN [cpu EXCEPT !.pc = "full"]
            ELSE IF arp.ip[cpu.i] = cpu.ip THEN [cpu EXCEPT !.pc = "found"]
                 ELSE [cpu EXCEPT !.i = @ + 1]
  /\ UNCHANGED <<arp, isr, owner, resolved, asked, history>>

(* "We already have it - reset counter as it's fresh" *)
LearnFound ==
  /\ cpu.pc = "found"
  /\ arp' = [arp EXCEPT !.ticks[cpu.i] = TICKS_TO_HOLD_MAC]
  /\ Return
  /\ UNCHANGED <<isr, owner, resolved, asked, heard, shuffled>>

FullTooLate == arp.n > MAX_ARP_HELD                          \* mutant: off by one
Full == arp.n >= MAX_ARP_HELD

(* "We're maxed out": the first of the entries with the fewest ticks goes *)
Stalest(j) ==
  /\ \A k \in Slots : arp.ticks[j] <= arp.ticks[k]
  /\ \A k \in Slots : k < j => arp.ticks[j] < arp.ticks[k]

LearnReplace ==
  /\ cpu.pc = "full"
  /\ Full
  /\ \E j \in Slots : /\ Stalest(j)
                       /\ cpu' = [cpu EXCEPT !.pc = "setTicks", !.i = j, !.full = TRUE]
  /\ UNCHANGED <<arp, isr, owner, resolved, asked, history>>

(* "Free to add it to end" *)
LearnAppend ==
  /\ cpu.pc = "full"
  /\ ~ Full
  /\ \E reg \in BOOLEAN :
       cpu' = [cpu EXCEPT !.pc = "setTicks", !.i = arp.n, !.full = FALSE,
                          !.n = arp.n, !.reg = reg]
  /\ UNCHANGED <<arp, isr, owner, resolved, asked, history>>

(***************************************************************************)
(* The three writes of a pair.  known_IP_addresses is not volatile: for a  *)
(* new slot the compiled code may index with a register that holds the     *)
(* value it tested (reg), or read the variable again.                      *)
(***************************************************************************)
Index == IF cpu.full \/ cpu.reg THEN cpu.i ELSE arp.n

LearnTicks ==
  /\ cpu.pc = "setTicks"
  /\ arp' = [arp EXCEPT !.ticks[Index] = TICKS_TO_HOLD_MAC]
  /\ cpu' = [cpu EXCEPT !.pc = "setIP"]
  /\ UNCHANGED <<isr, owner, resolved, asked, history>>

LearnIP ==
  /\ cpu.pc = "setIP"
  /\ arp' = [arp EXCEPT !.ip[Index] = cpu.ip]
  /\ cpu' = [cpu EXCEPT !.pc = "setMAC"]
  /\ UNCHANGED <<isr, owner, resolved, asked, history>>

LearnMACWrite ==
  /\ cpu.pc = "setMAC"
  /\ arp' = [arp EXCEPT !.mac[Index] = cpu.mac]
  /\ IF cpu.full THEN Return ELSE cpu' = [cpu EXCEPT !.pc = "count"] /\ UNCHANGED age
  /\ UNCHANGED <<isr, owner, resolved, asked, heard, shuffled>>

(***************************************************************************)
(* known_IP_addresses++ reads, adds and writes back: an interrupt between  *)
(* the read and the write is overwritten.                                  *)
(***************************************************************************)
LearnCount ==
  /\ cpu.pc = "count"
  /\ \E n \in {cpu.n, arp.n} : arp' = [arp EXCEPT !.n = n + 1]
  /\ Return
  /\ UNCHANGED <<isr, owner, resolved, asked, heard, shuffled>>

-----------------------------------------------------------------------------
(* resolveMAC *)

Resolve(target) ==
  /\ cpu.pc = "idle"
  /\ cpu' = [cpu EXCEPT !.pc = "resolve", !.hop = NextHop(target)]
  /\ UNCHANGED <<arp, isr, owner, resolved, asked, history>>

(* The loop of knownMAC, on the next hop; launchARP when it is unknown *)
ResolveScan ==
  /\ cpu.pc = "resolve"
  /\ cpu' = IF NotFound
            THEN [cpu EXCEPT !.pc = "listen"]
            ELSE IF arp.ip[cpu.i] = cpu.hop THEN [cpu EXCEPT !.pc = "answer"]
                 ELSE [cpu EXCEPT !.i = @ + 1]
  /\ asked' = (asked \/ NotFound)
  /\ UNCHANGED <<arp, isr, owner, resolved, history>>

(* return (ARP_held.knownMAC[i]) *)
ResolveAnswer ==
  /\ cpu.pc = "answer"
  /\ resolved' = [hop |-> cpu.hop, mac |-> arp.mac[cpu.i]]
  /\ cpu' = Idle
  /\ UNCHANGED <<arp, isr, owner, asked, history>>

(***************************************************************************)
(* "Block until an ARP heard": handleARP on a reply, to our request or to  *)
(* nobody's.  Any ARP brings the loop round to launchARP once more.        *)
(***************************************************************************)
ListenReplyDeaf(ip) ==                                       \* mutant: not learnt
  /\ cpu.pc = "listen"
  /\ cpu' = [cpu EXCEPT !.pc = "resolve", !.i = 0]
  /\ asked' = (asked /\ ip # cpu.hop)
  /\ UNCHANGED <<arp, isr, owner, resolved, history>>
ListenReply(ip) ==
  /\ cpu.pc = "listen"
  /\ CallLearn(ip, owner[ip], "resolve")
  /\ asked' = (asked /\ ip # cpu.hop)
  /\ UNCHANGED <<arp, isr, owner, resolved>>

(***************************************************************************)
(* ... on a request for us: linkPacketHeader has already turned the buffer *)
(* into our own reply, from which handleARP learns our own pair ...        *)
(***************************************************************************)
ListenRequest ==
  /\ cpu.pc = "listen"
  /\ CallLearn(myIP, owner[myIP], "resolve")
  /\ UNCHANGED <<arp, isr, owner, resolved, asked>>

(* ... and on a request for another: nothing is learnt, the ARP is repeated *)
ListenOther ==
  /\ cpu.pc = "listen"
  /\ cpu' = [cpu EXCEPT !.pc = "resolve", !.i = 0]
  /\ UNCHANGED <<arp, isr, owner, resolved, asked, history>>

-----------------------------------------------------------------------------
(* The world: a machine gets new hardware or its address another machine *)
Move(ip, mac) ==
  /\ MayMove
  /\ ip # myIP
  /\ owner' = [owner EXCEPT ![ip] = mac]
  /\ UNCHANGED <<arp, cpu, isr, resolved, asked, history>>

(* Our ARP request or the reply to it is lost, or the next hop is off *)
LoseARP ==
  /\ asked
  /\ asked' = FALSE
  /\ UNCHANGED <<arp, cpu, isr, owner, resolved, history>>

Main ==
  /\ isr = Off
  /\ \/ \E ip \in (IPs \cup {NullIP}) \ {myIP} : Hear(ip)
     \/ LearnScan \/ LearnFound \/ LearnReplace \/ LearnAppend \/ LearnTicks \/ LearnIP
     \/ LearnMACWrite \/ LearnCount
     \/ \E ip \in IPs \ {myIP} : Resolve(ip)
     \/ ResolveScan \/ ResolveAnswer
     \/ \E ip \in Local \ {myIP} : ListenReply(ip)
     \/ ListenRequest \/ ListenOther

Next ==
  \/ Main
  \/ TickStart \/ TickEntry \/ TickEnd
  \/ \E ip \in IPs, mac \in MACs : Move(ip, mac)
  \/ LoseARP

Spec == Init /\ [][Next]_vars

(***************************************************************************)
(* Fairness: the processor runs, the interrupt returns, and a reply that   *)
(* is under way is read, whatever other frames come first.  Nothing obliges*)
(* the network to keep it: LoseARP may take it at any time.                *)
(***************************************************************************)
Running == {"known", "found", "full", "setTicks", "setIP", "setMAC", "count",
            "resolve", "answer"}

Fairness ==
  /\ WF_vars(Main /\ cpu.pc \in Running)
  /\ WF_vars(TickEntry \/ TickEnd)
  /\ \A ip \in Local \ {myIP} : SF_vars(isr = Off /\ asked /\ cpu.hop = ip /\ ListenReply(ip))

FairSpec == Spec /\ Fairness

-----------------------------------------------------------------------------
Table == [n : 0..MAX_ARP_HELD, ip : [Slots -> IPs \cup {NullIP}],
          mac : [Slots -> MACs \cup {NoMAC}], ticks : [Slots -> Ticks]]

Context == [pc : Where, ret : {"idle", "resolve"}, ip : IPs \cup {NullIP},
            mac : MACs \cup {NoMAC}, i : 0..MAX_ARP_HELD, n : 0..MAX_ARP_HELD,
            full : BOOLEAN, reg : BOOLEAN, hop : Local \cup {NullIP}]

(* The type invariant *)
TypeOK ==
  /\ arp \in Table
  /\ cpu \in Context
  /\ isr \in {Off} \cup 0..MAX_ARP_HELD
  /\ owner \in [IPs -> MACs]
  /\ resolved \in [hop : Local \cup {NullIP}, mac : MACs \cup {NoMAC}]
  /\ asked \in BOOLEAN
  /\ heard \subseteq IPs \X MACs
  /\ age \in [IPs -> 0..Forgotten]
  /\ shuffled \in BOOLEAN

(***************************************************************************)
(* No access of learnMAC or resolveMAC leaves the arrays of ARP_held, even *)
(* when the interrupt shortens the table between the test of               *)
(* known_IP_addresses and the use of the index.                            *)
(***************************************************************************)
IndexInBounds ==
  /\ cpu.pc \in {"found", "answer"} => cpu.i \in Slots
  /\ cpu.pc \in {"setTicks", "setIP", "setMAC"} => Index \in Slots
  /\ isr # Off /\ isr < arp.n => isr \in Slots

(***************************************************************************)
(* No address is in the table twice, wherever the interrupt arrives, unless*)
(* it drops an entry that knownMAC has passed or whose index is in use.    *)
(***************************************************************************)
NoDuplicates ==
  ~ shuffled =>
    \A j, k \in Slots : j < k /\ k < arp.n => arp.ip[j] # arp.ip[k]

(***************************************************************************)
(* resolveMAC returns a MAC from which the next hop was heard, never that  *)
(* of another machine, under the same condition on the interrupt.          *)
(***************************************************************************)
ResolvedWasHeard ==
  ~ shuffled /\ resolved.hop # NullIP => <<resolved.hop, resolved.mac>> \in heard

(***************************************************************************)
(* resolveMAC never returns the MAC of another machine than the next hop,  *)
(* as "Do we already know the MAC or can we get it with ARP?" promises.    *)
(* It is false: the interrupt shuffles the table between knownMAC and the  *)
(* use of the index that it returned.                                      *)
(***************************************************************************)
ResolvedIsNextHop ==
  resolved.hop # NullIP => resolved.mac = owner[resolved.hop]

(***************************************************************************)
(* "Stores MAC-IP pairs and an expiry time for each": an address that is in*)
(* the table was heard within the holding time, under the same condition.  *)
(* The table is longer lived by one second for each slot before the last,  *)
(* as the loop passes over the entry behind one that it drops.             *)
(***************************************************************************)
AddressIsFresh ==
  ~ shuffled /\ isr = Off /\ cpu.pc \notin {"setIP", "setMAC"} =>
    \A k \in Slots : k < arp.n => age[arp.ip[k]] < Forgotten

(***************************************************************************)
(* "Stores MAC-IP pairs": what learnMAC was called with is in the table    *)
(* when it returns.  It is false for an address that has moved: its ticks  *)
(* are reset and the old MAC stays.                                        *)
(***************************************************************************)
LearntIsStored ==
  [][cpu.pc \in {"found", "setMAC", "count"} /\ cpu'.pc = cpu.ret =>
       \E k \in Slots : k < arp'.n /\ arp'.ip[k] = cpu.ip /\ arp'.mac[k] = cpu.mac]_vars

(***************************************************************************)
(* refreshMACList is "Called every tick to decrement tics": when it        *)
(* returns, no address that it kept has the ticks it had before.  It is    *)
(* false for the one behind an entry that is dropped.                      *)
(***************************************************************************)
EveryPairAges ==
  isr = Off /\ cpu.pc = "idle" =>
    \A k \in Slots : k < arp.n => arp.ticks[k] + age[arp.ip[k]] = TICKS_TO_HOLD_MAC

(***************************************************************************)
(* resolveMAC returns, or waits with nothing of its own under way: neither *)
(* foreign ARPs nor full or expiring tables keep it from using the reply.  *)
(* It waits for ever when the request or the reply is lost and no other    *)
(* ARP is heard, as there is no timer.  An interrupt that hit the few      *)
(* microseconds between reply and use again and again would let the entry  *)
(* expire each time.                                                       *)
(***************************************************************************)
ResolveReturns ==
  \/ []<>(isr # Off /\ cpu.pc \in Running)
  \/ (cpu.pc = "resolve") ~> (cpu.pc = "idle" \/ (cpu.pc = "listen" /\ ~ asked))
=============================================================================
