------------------------------ MODULE ArpProofs ------------------------------
(***************************************************************************)
(* Proofs about the ARP table, for every interleaving of the interrupt     *)
(* with the main context.                                                  *)
(*                                                                         *)
(* The first part says that no index leaves the arrays (IndexSafe).        *)
(* IndexInBounds is not inductive: it takes SlotHeld, which says what the  *)
(* main context knows about its index between the test of                  *)
(* known_IP_addresses and the writes.                                      *)
(***************************************************************************)
EXTENDS Arp, TLAPS

(* What the main context's index is worth while it holds one *)
SlotHeld ==
  /\ cpu.pc \in {"found", "answer"} => cpu.i \in Slots
  /\ cpu.pc \in {"setTicks", "setIP", "setMAC"} =>
       IF cpu.full THEN cpu.i \in Slots
       ELSE cpu.i = cpu.n /\ cpu.n < MAX_ARP_HELD /\ arp.n <= cpu.n
  /\ cpu.pc = "count" => cpu.n < MAX_ARP_HELD /\ arp.n <= cpu.n

IndexInv == TypeOK /\ SlotHeld

(* Dropping an entry shortens a well-formed table by one *)
LEMMA DropType ==
  ASSUME TypeOK, isr \in Slots, isr < arp.n
  PROVE  /\ Drop(arp, isr).n = arp.n - 1
         /\ Drop(arp, isr) \in Table
<1>1. arp.n \in 1..MAX_ARP_HELD
  BY HeldAssumption DEF TypeOK, Table, Slots
<1>2. \A k \in Slots : k < arp.n - 1 => k + 1 \in Slots
  BY <1>1, HeldAssumption DEF Slots
<1>3. [arp.ticks EXCEPT ![isr] = Dec(@)] \in [Slots -> Ticks]
  BY TicksAssumption DEF TypeOK, Table, Dec, Ticks
<1> QED
  BY <1>1, <1>2, <1>3, HeldAssumption DEF Drop, TypeOK, Table

(* Init establishes the invariant *)
LEMMA IndexInit == Init => IndexInv
<1> SUFFICES ASSUME Init PROVE IndexInv
  OBVIOUS
<1>1. 0 \in 0..MAX_ARP_HELD /\ 0 \in Ticks /\ Forgotten \in 0..Forgotten
  BY HeldAssumption, TicksAssumption DEF Ticks, Forgotten
<1>2. arp \in Table
  BY <1>1 DEF Init, Table
<1>3. cpu \in Context
  BY <1>1 DEF Init, Idle, Context, Where
<1>4. isr \in {Off} \cup 0..MAX_ARP_HELD /\ owner \in [IPs -> MACs]
  BY DEF Init
<1>5. /\ resolved \in [hop : Local \cup {NullIP}, mac : MACs \cup {NoMAC}]
      /\ asked \in BOOLEAN /\ shuffled \in BOOLEAN
      /\ heard \subseteq IPs \X MACs
      /\ age \in [IPs -> 0..Forgotten]
  BY <1>1 DEF Init
<1>6. SlotHeld
  BY DEF Init, Idle, SlotHeld
<1> QED
  BY <1>2, <1>3, <1>4, <1>5, <1>6 DEF IndexInv, TypeOK

(* The call of learnMAC and the return from it keep the types *)
LEMMA CallType ==
  ASSUME TypeOK, NEW ip \in IPs \cup {NullIP}, NEW mac,
         ip # NullIP => mac \in MACs,
         NEW ret \in {"idle", "resolve"}, CallLearn(ip, mac, ret)
  PROVE  /\ cpu' \in Context
         /\ cpu'.pc \in {"idle", "resolve", "known"}
         /\ heard' \subseteq IPs \X MACs
         /\ UNCHANGED <<age, shuffled>>
<1>1. 0 \in 0..MAX_ARP_HELD
  BY HeldAssumption
<1>2. CASE ip = NullIP
  BY <1>1, <1>2 DEF CallLearn, TypeOK, Context, Where
<1>3. CASE ip # NullIP
  <2>1. <<ip, mac>> \in IPs \X MACs /\ heard \subseteq IPs \X MACs
    BY <1>3 DEF TypeOK
  <2>2. heard' = heard \cup {<<ip, mac>>} /\ UNCHANGED <<age, shuffled>>
    BY <1>3 DEF CallLearn
  <2>3. heard' \subseteq IPs \X MACs
    BY <2>1, <2>2, Zenon
  <2>4. cpu' \in Context /\ cpu'.pc = "known"
    BY <1>1, <1>3 DEF CallLearn, TypeOK, Context, Where
  <2> QED BY <2>2, <2>3, <2>4
<1> QED BY <1>2, <1>3

LEMMA ReturnType ==
  ASSUME TypeOK, Return
  PROVE  /\ cpu' \in Context
         /\ cpu'.pc \in {"idle", "resolve"}
         /\ age' \in [IPs -> 0..Forgotten]
<1>1. 0 \in 0..MAX_ARP_HELD /\ 0 \in 0..Forgotten
  BY HeldAssumption, TicksAssumption DEF Forgotten
<1>2. Idle \in Context
  BY <1>1 DEF Idle, Context, Where
<1>3. cpu.ret \in {"idle", "resolve"} /\ cpu.hop \in Local \cup {NullIP}
  BY DEF TypeOK, Context
<1>4. [Idle EXCEPT !.pc = cpu.ret] \in Context /\ [Idle EXCEPT !.pc = cpu.ret].pc = cpu.ret
  BY <1>2, <1>3 DEF Context, Where
<1>5. cpu' = [[Idle EXCEPT !.pc = cpu.ret] EXCEPT !.hop = cpu.hop]
  BY <1>2 DEF Return
<1>6. age' \in [IPs -> 0..Forgotten]
  BY <1>1 DEF Return, TypeOK
<1> QED
  BY <1>3, <1>4, <1>5, <1>6 DEF Context

(***************************************************************************)
(* Every step keeps the invariant, wherever the interrupt arrives.         *)
(***************************************************************************)
LEMMA IndexNext == IndexInv /\ [Next]_vars => IndexInv'
<1> SUFFICES ASSUME IndexInv, [Next]_vars PROVE IndexInv'
  OBVIOUS
<1> USE DEF IndexInv, history
<1>a. /\ TypeOK /\ SlotHeld
      /\ MAX_ARP_HELD \in Nat \ {0} /\ TICKS_TO_HOLD_MAC \in Ticks
      /\ 0 \in 0..MAX_ARP_HELD
  BY HeldAssumption, TicksAssumption DEF Ticks
<1>1. ASSUME NEW ip \in (IPs \cup {NullIP}) \ {myIP}, Hear(ip) PROVE IndexInv'
  <2>1. ip # NullIP => owner[ip] \in MACs
    BY <1>a DEF TypeOK
  <2>2. cpu' \in Context /\ cpu'.pc \in {"idle", "resolve", "known"}
        /\ heard' \subseteq IPs \X MACs /\ UNCHANGED <<age, shuffled>>
    BY <1>1, <1>a, <2>1, CallType DEF Hear
  <2> QED
    BY <1>1, <1>a, <2>2 DEF Hear, TypeOK, SlotHeld
<1>2. CASE LearnScan
  <2>1. arp.n \in 0..MAX_ARP_HELD /\ cpu.i \in 0..MAX_ARP_HELD /\ cpu \in Context
    BY <1>a DEF TypeOK, Table, Context
  <2>2. CASE NotFound
    <3>1. cpu' = [cpu EXCEPT !.pc = "full"]
      BY <1>2, <2>2 DEF LearnScan
    <3>2. cpu' \in Context /\ cpu'.pc = "full"
      BY <2>1, <3>1 DEF Context, Where
    <3> QED
      BY <1>2, <1>a, <3>2 DEF LearnScan, TypeOK, SlotHeld
  <2>3. CASE ~ NotFound
    <3>1. cpu.i \in Slots /\ cpu.i + 1 \in 0..MAX_ARP_HELD
      BY <1>a, <2>1, <2>3 DEF NotFound, Slots
    <3>2. \/ cpu' = [cpu EXCEPT !.pc = "found"]
          \/ cpu' = [cpu EXCEPT !.i = cpu.i + 1]
      BY <1>2, <2>3 DEF LearnScan
    <3>3. CASE cpu' = [cpu EXCEPT !.pc = "found"]
      <4>1. cpu' \in Context /\ cpu'.pc = "found" /\ cpu'.i = cpu.i
        BY <2>1, <3>3 DEF Context, Where
      <4> QED
        BY <1>2, <1>a, <3>1, <4>1 DEF LearnScan, TypeOK, SlotHeld
    <3>4. CASE cpu' = [cpu EXCEPT !.i = cpu.i + 1]
      <4>1. cpu' \in Context /\ cpu'.pc = cpu.pc
        BY <2>1, <3>1, <3>4 DEF Context
      <4> QED
        BY <1>2, <1>a, <4>1 DEF LearnScan, TypeOK, SlotHeld
    <3> QED BY <3>2, <3>3, <3>4
  <2> QED BY <2>2, <2>3
<1>3. CASE LearnFound
  <2>1. arp' \in Table
    BY <1>3, <1>a DEF LearnFound, TypeOK, Table
  <2> QED
    BY <1>3, <1>a, <2>1, ReturnType DEF LearnFound, TypeOK, SlotHeld
<1>4. CASE LearnReplace
  <2>1. PICK j \in Slots : cpu' = [cpu EXCEPT !.pc = "setTicks", !.i = j, !.full = TRUE]
    BY <1>4 DEF LearnReplace
  <2>2. j \in 0..MAX_ARP_HELD
    BY <1>a DEF Slots
  <2> QED
    BY <1>4, <1>a, <2>1, <2>2 DEF LearnReplace, TypeOK, Context, SlotHeld, Where
<1>5. CASE LearnAppend
  <2>1. arp.n \in 0..MAX_ARP_HELD /\ arp.n < MAX_ARP_HELD
    BY <1>5, <1>a DEF LearnAppend, Full, TypeOK, Table
  <2>2. PICK reg \in BOOLEAN :
          cpu' = [cpu EXCEPT !.pc = "setTicks", !.i = arp.n, !.full = FALSE,
                             !.n = arp.n, !.reg = reg]
    BY <1>5 DEF LearnAppend
  <2>3. cpu' \in Context
    BY <1>a, <2>1, <2>2 DEF TypeOK, Context, Where
  <2>4. cpu'.pc = "setTicks" /\ ~ cpu'.full /\ cpu'.i = arp.n /\ cpu'.n = arp.n
    BY <1>a, <2>2 DEF TypeOK, Context
  <2> QED
    BY <1>5, <1>a, <2>1, <2>3, <2>4 DEF LearnAppend, TypeOK, SlotHeld
<1>6. CASE LearnTicks
  <2>1. arp' \in Table /\ arp'.n = arp.n
    BY <1>6, <1>a DEF LearnTicks, TypeOK, Table
  <2> QED
    BY <1>6, <1>a, <2>1 DEF LearnTicks, TypeOK, Context, SlotHeld, Where
<1>7. CASE LearnIP
  <2>1. arp' \in Table /\ arp'.n = arp.n
    BY <1>7, <1>a DEF LearnIP, TypeOK, Table, Context
  <2> QED
    BY <1>7, <1>a, <2>1 DEF LearnIP, TypeOK, Context, SlotHeld, Where
<1>8. CASE LearnMACWrite
  <2>1. arp' \in Table /\ arp'.n = arp.n
    BY <1>8, <1>a DEF LearnMACWrite, TypeOK, Table, Context
  <2>2. CASE cpu.full
    BY <1>8, <1>a, <2>1, <2>2, ReturnType DEF LearnMACWrite, TypeOK, SlotHeld
  <2>3. CASE ~ cpu.full
    BY <1>8, <1>a, <2>1, <2>3 DEF LearnMACWrite, TypeOK, Context, SlotHeld, Where
  <2> QED BY <2>2, <2>3
<1>9. CASE LearnCount
  <2>1. arp' \in Table
    BY <1>9, <1>a DEF LearnCount, TypeOK, Table, Context, SlotHeld
  <2> QED
    BY <1>9, <1>a, <2>1, ReturnType DEF LearnCount, TypeOK, SlotHeld
<1>10. ASSUME NEW ip \in IPs \ {myIP}, Resolve(ip) PROVE IndexInv'
  <2>1. NextHop(ip) \in Local
    BY AddressAssumption DEF NextHop
  <2> QED
    BY <1>10, <1>a, <2>1 DEF Resolve, TypeOK, Context, SlotHeld, Where
<1>11. CASE ResolveScan
  <2>1. arp.n \in 0..MAX_ARP_HELD /\ cpu.i \in 0..MAX_ARP_HELD /\ cpu \in Context
    BY <1>a DEF TypeOK, Table, Context
  <2>2. CASE NotFound
    <3>1. cpu' = [cpu EXCEPT !.pc = "listen"]
      BY <1>11, <2>2 DEF ResolveScan
    <3>2. cpu' \in Context /\ cpu'.pc = "listen"
      BY <2>1, <3>1 DEF Context, Where
    <3> QED
      BY <1>11, <1>a, <3>2 DEF ResolveScan, TypeOK, SlotHeld
  <2>3. CASE ~ NotFound
    <3>1. cpu.i \in Slots /\ cpu.i + 1 \in 0..MAX_ARP_HELD
      BY <1>a, <2>1, <2>3 DEF NotFound, Slots
    <3>2. \/ cpu' = [cpu EXCEPT !.pc = "answer"]
          \/ cpu' = [cpu EXCEPT !.i = cpu.i + 1]
      BY <1>11, <2>3 DEF ResolveScan
    <3>3. CASE cpu' = [cpu EXCEPT !.pc = "answer"]
      <4>1. cpu' \in Context /\ cpu'.pc = "answer" /\ cpu'.i = cpu.i
        BY <2>1, <3>3 DEF Context, Where
      <4> QED
        BY <1>11, <1>a, <3>1, <4>1 DEF ResolveScan, TypeOK, SlotHeld
    <3>4. CASE cpu' = [cpu EXCEPT !.i = cpu.i + 1]
      <4>1. cpu' \in Context /\ cpu'.pc = cpu.pc
        BY <2>1, <3>1, <3>4 DEF Context
      <4> QED
        BY <1>11, <1>a, <4>1 DEF ResolveScan, TypeOK, SlotHeld
    <3> QED BY <3>2, <3>3, <3>4
  <2> QED BY <2>2, <2>3
<1>12. CASE ResolveAnswer
  <2>1. Idle \in Context /\ Idle.pc = "idle"
    BY <1>a DEF Idle, Context, Where
  <2>2. resolved' \in [hop : Local \cup {NullIP}, mac : MACs \cup {NoMAC}]
    BY <1>12, <1>a DEF ResolveAnswer, TypeOK, Table, Context, SlotHeld
  <2> QED
    BY <1>12, <1>a, <2>1, <2>2 DEF ResolveAnswer, TypeOK, SlotHeld
<1>13. ASSUME NEW ip \in Local \ {myIP}, ListenReply(ip) PROVE IndexInv'
  <2>1. ip \in IPs /\ owner[ip] \in MACs
    BY <1>a, AddressAssumption DEF TypeOK
  <2>2. cpu' \in Context /\ cpu'.pc \in {"idle", "resolve", "known"}
        /\ heard' \subseteq IPs \X MACs /\ UNCHANGED <<age, shuffled>>
    BY <1>13, <1>a, <2>1, CallType DEF ListenReply
  <2> QED
    BY <1>13, <1>a, <2>2 DEF ListenReply, TypeOK, SlotHeld
<1>14. CASE ListenRequest
  <2>1. myIP \in IPs /\ owner[myIP] \in MACs
    BY <1>a, AddressAssumption DEF TypeOK
  <2>2. cpu' \in Context /\ cpu'.pc \in {"idle", "resolve", "known"}
        /\ heard' \subseteq IPs \X MACs /\ UNCHANGED <<age, shuffled>>
    BY <1>14, <1>a, <2>1, CallType DEF ListenRequest
  <2> QED
    BY <1>14, <1>a, <2>2 DEF ListenRequest, TypeOK, SlotHeld
<1>15. CASE ListenOther
  BY <1>15, <1>a DEF ListenOther, TypeOK, Context, SlotHeld, Where
<1>16. CASE TickStart
  <2>1. age' \in [IPs -> 0..Forgotten]
    BY <1>16, <1>a, TicksAssumption DEF TickStart, TypeOK, Forgotten
  <2> QED
    BY <1>16, <1>a, <2>1 DEF TickStart, TypeOK, SlotHeld
<1>17. CASE TickEntry
  <2>1. isr \in Slots /\ isr + 1 \in 0..MAX_ARP_HELD
    BY <1>17, <1>a DEF TickEntry, TypeOK, Table, Off, Slots
  <2>2. arp' \in Table /\ arp'.n <= arp.n
    <3>1. CASE Expired(isr)
      <4>1. arp' = Drop(arp, isr) /\ isr < arp.n
        BY <1>17, <3>1 DEF TickEntry
      <4>2. Drop(arp, isr).n = arp.n - 1 /\ Drop(arp, isr) \in Table
        BY <1>a, <2>1, <4>1, DropType
      <4> QED
        BY <1>a, <4>1, <4>2 DEF TypeOK, Table
    <3>2. CASE ~ Expired(isr)
      <4>1. arp.ticks[isr] \in Ticks
        BY <1>a, <2>1 DEF TypeOK, Table
      <4>2. Dec(arp.ticks[isr]) \in Ticks
        BY <4>1, TicksAssumption DEF Dec, Ticks
      <4> QED
        BY <1>17, <1>a, <2>1, <3>2, <4>2 DEF TickEntry, TypeOK, Table
    <3> QED BY <3>1, <3>2
  <2> QED
    BY <1>17, <1>a, <2>1, <2>2 DEF TickEntry, TypeOK, Table, Context, SlotHeld
<1>18. CASE TickEnd
  BY <1>18, <1>a DEF TickEnd, TypeOK, SlotHeld
<1>19. ASSUME NEW ip \in IPs, NEW mac \in MACs, Move(ip, mac) PROVE IndexInv'
  BY <1>19, <1>a DEF Move, TypeOK, SlotHeld
<1>20. CASE LoseARP
  BY <1>20, <1>a DEF LoseARP, TypeOK, SlotHeld
<1>21. CASE UNCHANGED vars
  BY <1>21, <1>a DEF vars, TypeOK, SlotHeld
<1> QED
  BY <1>1, <1>2, <1>3, <1>4, <1>5, <1>6, <1>7, <1>8, <1>9, <1>10, <1>11, <1>12,
     <1>13, <1>14, <1>15, <1>16, <1>17, <1>18, <1>19, <1>20, <1>21 DEF Next, Main

(***************************************************************************)
(* learnMAC, knownMAC, resolveMAC and refreshMACList never index ARP_held  *)
(* out of bounds, whatever the table size and wherever the interrupt       *)
(* arrives.                                                                *)
(***************************************************************************)
THEOREM IndexSafe == Spec => [](TypeOK /\ IndexInBounds)
<1>1. IndexInv => TypeOK /\ IndexInBounds
  <2> SUFFICES ASSUME IndexInv PROVE TypeOK /\ IndexInBounds
    OBVIOUS
  <2>1. TypeOK /\ SlotHeld /\ MAX_ARP_HELD \in Nat
    BY HeldAssumption DEF IndexInv
  <2>2. arp.n \in 0..MAX_ARP_HELD
    BY <2>1 DEF TypeOK, Table
  <2> QED
    BY <2>1, <2>2 DEF IndexInBounds, Index, SlotHeld, TypeOK, Context, Slots, Off
<1> QED
  BY <1>1, IndexInit, IndexNext, PTL DEF Spec

(* Type correctness of the table and of both contexts that share it *)
THEOREM TypeCorrect == Spec => []TypeOK
<1>1. IndexInv => TypeOK
  BY DEF IndexInv
<1> QED
  BY <1>1, IndexInit, IndexNext, PTL DEF Spec

-----------------------------------------------------------------------------
(***************************************************************************)
(* The second part is about what the table says.  The interrupt may arrive *)
(* anywhere here too; a drop under an index in use is the one thing that   *)
(* the main context does not survive, and shuffled remembers it.           *)
(***************************************************************************)
Writing  == {"setTicks", "setIP", "setMAC", "count"}
Learning == {"known", "found", "full"} \cup Writing

(***************************************************************************)
(* What the interrupt leaves of the table, and what it leaves alone: the   *)
(* entries before the one that it drops, all of them if it drops none.     *)
(***************************************************************************)
LEMMA EntryShape ==
  ASSUME IndexInv, TickEntry, ~ shuffled'
  PROVE  /\ isr \in Slots /\ isr < arp.n /\ isr' = isr + 1 /\ ~ shuffled
         /\ UNCHANGED <<cpu, owner, resolved, heard, age>>
         /\ \/ /\ Expired(isr) /\ ~ InUse(isr) /\ arp'.n = arp.n - 1
               /\ \A k \in Slots : k < isr =>
                    /\ arp'.ip[k] = arp.ip[k] /\ arp'.mac[k] = arp.mac[k]
                    /\ arp'.ticks[k] = arp.ticks[k]
               /\ \A k \in Slots : isr <= k /\ k < arp.n - 1 =>
                    /\ k + 1 \in Slots
                    /\ arp'.ip[k] = arp.ip[k + 1] /\ arp'.mac[k] = arp.mac[k + 1]
                    /\ arp'.ticks[k] = arp.ticks[k + 1]
               /\ \A k \in Slots : k >= arp.n => arp'.ip[k] = arp.ip[k] /\ arp'.ticks[k] = arp.ticks[k]
            \/ /\ ~ Expired(isr) /\ arp'.n = arp.n /\ arp'.ip = arp.ip /\ arp'.mac = arp.mac
               /\ arp'.ticks = [arp.ticks EXCEPT ![isr] = Dec(arp.ticks[isr])]
<1>1. /\ arp \in Table /\ MAX_ARP_HELD \in Nat \ {0} /\ arp.n \in 0..MAX_ARP_HELD
      /\ isr \in {Off} \cup 0..MAX_ARP_HELD
  BY HeldAssumption DEF IndexInv, TypeOK, Table
<1>2. isr \in Slots /\ isr < arp.n /\ isr' = isr + 1 /\ UNCHANGED <<cpu, owner, resolved, heard, age>>
  BY <1>1 DEF TickEntry, Off, Slots
<1>3. ~ shuffled /\ (Expired(isr) => ~ InUse(isr))
  BY DEF TickEntry
<1>4. CASE Expired(isr)
  <2>1. arp' = Drop(arp, isr)
    BY <1>4 DEF TickEntry
  <2>2. \A k \in Slots : k < arp.n - 1 => k + 1 \in Slots
    BY <1>1 DEF Slots
  <2>3. arp'.n = arp.n - 1
    BY <2>1 DEF Drop
  <2>4. \A k \in Slots :
          arp'.ip[k] = IF isr <= k /\ k < arp.n - 1 THEN arp.ip[k + 1] ELSE arp.ip[k]
    BY <1>1, <2>1 DEF Drop
  <2>5. \A k \in Slots :
          arp'.mac[k] = IF isr <= k /\ k < arp.n - 1 THEN arp.mac[k + 1] ELSE arp.mac[k]
    BY <1>1, <2>1 DEF Drop
  <2>6. \A k \in Slots : k # isr =>
          arp'.ticks[k] = IF isr <= k /\ k < arp.n - 1 THEN arp.ticks[k + 1] ELSE arp.ticks[k]
    BY <1>1, <1>2, <2>1, <2>2 DEF Drop, Slots, Table
  <2>7. isr < arp.n - 1 => arp'.ticks[isr] = arp.ticks[isr + 1]
    BY <1>1, <1>2, <2>1, <2>2 DEF Drop, Slots, Table
  <2>8. \A k \in Slots : k < isr => ~ (isr <= k) /\ k # isr
    BY <1>2 DEF Slots
  <2>9. \A k \in Slots : k >= arp.n => ~ (k < arp.n - 1) /\ k # isr
    BY <1>1, <1>2 DEF Slots
  <2> QED BY <1>2, <1>3, <1>4, <2>2, <2>3, <2>4, <2>5, <2>6, <2>7, <2>8, <2>9
<1>5. CASE ~ Expired(isr)
  BY <1>1, <1>2, <1>3, <1>5 DEF TickEntry, Table
<1> QED BY <1>4, <1>5

-----------------------------------------------------------------------------
(***************************************************************************)
(* Every pair in the table was heard, and an index about to be used is     *)
(* that of the address looked for.  Where addresses are now does not       *)
(* matter: they may move.                                                  *)
(***************************************************************************)

(* Slot k is being overwritten and holds the new address with the old MAC *)
HalfWritten(k) == cpu.pc = "setMAC" /\ cpu.full /\ k = cpu.i

TableTrue ==
  /\ cpu.pc \in Learning => cpu.ip \in IPs /\ <<cpu.ip, cpu.mac>> \in heard
  /\ \A k \in Slots : k < arp.n /\ ~ HalfWritten(k) => <<arp.ip[k], arp.mac[k]>> \in heard
  /\ cpu.pc \in Writing /\ ~ cpu.full => cpu.n = arp.n /\ cpu.i = arp.n
  /\ cpu.pc = "setMAC" => arp.ip[cpu.i] = cpu.ip
  /\ cpu.pc = "count" => ~ cpu.full /\ arp.ip[arp.n] = cpu.ip /\ arp.mac[arp.n] = cpu.mac
  /\ cpu.pc = "answer" => cpu.i < arp.n /\ arp.ip[cpu.i] = cpu.hop
  /\ resolved.hop # NullIP => <<resolved.hop, resolved.mac>> \in heard

LEMMA TrueInit == Init => TableTrue
BY HeldAssumption DEF Init, Idle, Slots, TableTrue, HalfWritten, Writing, Learning

(* A call of learnMAC *)
LEMMA CallTrue ==
  ASSUME TypeOK, TableTrue, NEW ip \in IPs \cup {NullIP}, NEW mac,
         NEW ret \in {"idle", "resolve"}, CallLearn(ip, mac, ret),
         cpu.pc \in {"idle", "listen"},
         UNCHANGED <<arp, owner, resolved>>
  PROVE  TableTrue'
<1>1. cpu \in Context
  BY DEF TypeOK
<1>2. CASE ip = NullIP
  <2>1. cpu'.pc \in {"idle", "resolve"} /\ heard' = heard
    BY <1>1, <1>2 DEF CallLearn, Context
  <2> QED BY <2>1 DEF TableTrue, HalfWritten, Writing, Learning
<1>3. CASE ip # NullIP
  <2>1. cpu'.pc = "known" /\ cpu'.ip = ip /\ cpu'.mac = mac
    BY <1>1, <1>3 DEF CallLearn, Context
  <2>2. heard \subseteq heard' /\ <<ip, mac>> \in heard'
    BY <1>3 DEF CallLearn
  <2>3. \A k \in Slots : k < arp.n => <<arp.ip[k], arp.mac[k]>> \in heard'
    BY <2>2 DEF TableTrue, HalfWritten
  <2> QED BY <1>3, <2>1, <2>2, <2>3 DEF TableTrue, HalfWritten, Writing, Learning
<1> QED BY <1>2, <1>3

LEMMA TrueNext ==
  ASSUME IndexInv, IndexInv', TableTrue, [Next]_vars, ~ shuffled'
  PROVE  TableTrue'
<1> USE DEF history
<1>a. /\ TypeOK /\ SlotHeld /\ TypeOK'
      /\ arp \in Table /\ cpu \in Context /\ arp' \in Table /\ cpu' \in Context
      /\ MAX_ARP_HELD \in Nat \ {0} /\ arp.n \in 0..MAX_ARP_HELD
  BY HeldAssumption DEF IndexInv, TypeOK, Table
<1>1. ASSUME NEW ip \in (IPs \cup {NullIP}) \ {myIP}, Hear(ip) PROVE TableTrue'
  BY <1>1, <1>a, CallTrue DEF Hear
<1>2. CASE LearnScan
  <2>1. cpu.pc = "known" /\ cpu'.pc \in {"known", "full", "found"}
        /\ cpu'.ip = cpu.ip /\ cpu'.mac = cpu.mac
    BY <1>2, <1>a DEF LearnScan, Context
  <2> QED BY <1>2, <2>1 DEF LearnScan, TableTrue, HalfWritten, Writing, Learning
<1>3. CASE LearnFound
  <2>1. cpu.pc = "found" /\ cpu'.pc \in {"idle", "resolve"}
    BY <1>3, <1>a, ReturnType DEF LearnFound
  <2>2. arp'.n = arp.n /\ arp'.ip = arp.ip /\ arp'.mac = arp.mac
    BY <1>3, <1>a DEF LearnFound, Table
  <2> QED BY <1>3, <2>1, <2>2 DEF LearnFound, TableTrue, HalfWritten, Writing, Learning
<1>4. CASE LearnReplace
  <2>1. PICK j \in Slots : cpu' = [cpu EXCEPT !.pc = "setTicks", !.i = j, !.full = TRUE]
    BY <1>4 DEF LearnReplace
  <2>2. cpu.pc = "full" /\ cpu'.pc = "setTicks" /\ cpu'.full
        /\ cpu'.ip = cpu.ip /\ cpu'.mac = cpu.mac
    BY <1>4, <1>a, <2>1 DEF LearnReplace, Context
  <2> QED BY <1>4, <2>2 DEF LearnReplace, TableTrue, HalfWritten, Writing, Learning
<1>5. CASE LearnAppend
  <2>1. PICK reg \in BOOLEAN :
          cpu' = [cpu EXCEPT !.pc = "setTicks", !.i = arp.n, !.full = FALSE,
                             !.n = arp.n, !.reg = reg]
    BY <1>5 DEF LearnAppend
  <2>2. cpu.pc = "full" /\ cpu'.pc = "setTicks" /\ cpu'.i = arp.n /\ cpu'.n = arp.n
        /\ cpu'.ip = cpu.ip /\ cpu'.mac = cpu.mac
    BY <1>5, <1>a, <2>1 DEF LearnAppend, Context
  <2> QED BY <1>5, <2>2 DEF LearnAppend, TableTrue, HalfWritten, Writing, Learning
<1>i. ASSUME cpu.pc \in {"setTicks", "setIP", "setMAC"}
      PROVE  Index = cpu.i /\ cpu.i \in Slots /\ (~ cpu.full => cpu.i = arp.n /\ cpu.n = arp.n)
  BY <1>a, <1>i DEF Index, TableTrue, Writing, SlotHeld, Slots, Context
<1>6. CASE LearnTicks
  <2>1. cpu.pc = "setTicks" /\ cpu'.pc = "setIP" /\ cpu'.full = cpu.full
        /\ cpu'.ip = cpu.ip /\ cpu'.mac = cpu.mac /\ cpu'.i = cpu.i /\ cpu'.n = cpu.n
    BY <1>6, <1>a DEF LearnTicks, Context
  <2>2. arp'.n = arp.n /\ arp'.ip = arp.ip /\ arp'.mac = arp.mac
    BY <1>6, <1>a DEF LearnTicks, Table
  <2> QED BY <1>6, <2>1, <2>2 DEF LearnTicks, TableTrue, HalfWritten, Writing, Learning
<1>7. CASE LearnIP
  <2>1. cpu.pc = "setIP" /\ cpu'.pc = "setMAC" /\ cpu'.full = cpu.full
        /\ cpu'.ip = cpu.ip /\ cpu'.mac = cpu.mac /\ cpu'.i = cpu.i /\ cpu'.n = cpu.n
    BY <1>7, <1>a DEF LearnIP, Context
  <2>2. Index = cpu.i /\ cpu.i \in Slots /\ (~ cpu.full => cpu.i = arp.n)
    BY <1>i, <2>1
  <2>3. arp'.n = arp.n /\ arp'.ip = [arp.ip EXCEPT ![cpu.i] = cpu.ip] /\ arp'.mac = arp.mac
    BY <1>7, <1>a, <2>2 DEF LearnIP, Table
  <2>4. arp'.ip[cpu.i] = cpu.ip /\ \A k \in Slots : k # cpu.i => arp'.ip[k] = arp.ip[k]
    BY <1>a, <2>2, <2>3 DEF Table
  <2>5. \A k \in Slots : k < arp'.n /\ ~ HalfWritten(k)' => <<arp'.ip[k], arp'.mac[k]>> \in heard
    BY <1>a, <2>1, <2>2, <2>3, <2>4 DEF TableTrue, HalfWritten, Slots
  <2> QED BY <1>7, <2>1, <2>2, <2>3, <2>4, <2>5 DEF LearnIP, TableTrue, HalfWritten, Writing, Learning
<1>8. CASE LearnMACWrite
  <2>1. cpu.pc = "setMAC" /\ cpu.ip \in IPs /\ <<cpu.ip, cpu.mac>> \in heard /\ arp.ip[cpu.i] = cpu.ip
    BY <1>8 DEF LearnMACWrite, TableTrue, Writing, Learning
  <2>2. Index = cpu.i /\ cpu.i \in Slots /\ (~ cpu.full => cpu.i = arp.n /\ cpu.n = arp.n)
    BY <1>i, <2>1
  <2>3. arp'.n = arp.n /\ arp'.ip = arp.ip /\ arp'.mac = [arp.mac EXCEPT ![cpu.i] = cpu.mac]
    BY <1>8, <1>a, <2>2 DEF LearnMACWrite, Table
  <2>4. arp'.mac[cpu.i] = cpu.mac /\ \A k \in Slots : k # cpu.i => arp'.mac[k] = arp.mac[k]
    BY <1>a, <2>2, <2>3 DEF Table
  <2>5. \A k \in Slots : k < arp'.n => <<arp'.ip[k], arp'.mac[k]>> \in heard
    BY <1>a, <2>1, <2>2, <2>3, <2>4 DEF TableTrue, HalfWritten, Slots
  <2>6. CASE cpu.full
    <3>1. cpu'.pc \in {"idle", "resolve"}
      BY <1>8, <1>a, <2>6, ReturnType DEF LearnMACWrite
    <3> QED BY <1>8, <2>5, <3>1 DEF LearnMACWrite, TableTrue, HalfWritten, Writing, Learning
  <2>7. CASE ~ cpu.full
    <3>1. cpu'.pc = "count" /\ ~ cpu'.full /\ cpu'.ip = cpu.ip /\ cpu'.mac = cpu.mac
          /\ cpu'.i = cpu.i /\ cpu'.n = cpu.n
      BY <1>8, <1>a, <2>7 DEF LearnMACWrite, Context
    <3> QED BY <1>8, <2>1, <2>2, <2>3, <2>4, <2>5, <2>7, <3>1 DEF LearnMACWrite, TableTrue, HalfWritten, Writing, Learning
  <2> QED BY <2>6, <2>7
<1>9. CASE LearnCount
  <2>1. cpu.pc = "count" /\ cpu.n = arp.n /\ <<cpu.ip, cpu.mac>> \in heard
        /\ arp.ip[arp.n] = cpu.ip /\ arp.mac[arp.n] = cpu.mac
    BY <1>9 DEF LearnCount, TableTrue, Writing, Learning
  <2>2. arp'.n = arp.n + 1 /\ arp'.ip = arp.ip /\ arp'.mac = arp.mac
    BY <1>9, <1>a, <2>1 DEF LearnCount, Table
  <2>3. \A k \in Slots : k < arp.n + 1 => k < arp.n \/ k = arp.n
    BY <1>a DEF Slots
  <2>4. \A k \in Slots : k < arp'.n => <<arp'.ip[k], arp'.mac[k]>> \in heard
    BY <2>1, <2>2, <2>3 DEF TableTrue, HalfWritten
  <2>5. cpu'.pc \in {"idle", "resolve"}
    BY <1>9, <1>a, ReturnType DEF LearnCount
  <2> QED BY <1>9, <2>4, <2>5 DEF LearnCount, TableTrue, HalfWritten, Writing, Learning
<1>10. ASSUME NEW ip \in IPs \ {myIP}, Resolve(ip) PROVE TableTrue'
  <2>1. cpu.pc = "idle" /\ cpu'.pc = "resolve"
    BY <1>10, <1>a DEF Resolve, Context
  <2> QED BY <1>10, <2>1 DEF Resolve, TableTrue, HalfWritten, Writing, Learning
<1>11. CASE ResolveScan
  <2>1. cpu.pc = "resolve"
    BY <1>11 DEF ResolveScan
  <2>2. \/ cpu'.pc \in {"resolve", "listen"}
        \/ cpu'.pc = "answer" /\ cpu'.hop = cpu.hop /\ cpu'.i = cpu.i
           /\ cpu.i < arp.n /\ arp.ip[cpu.i] = cpu.hop
    BY <1>11, <1>a DEF ResolveScan, NotFound, Context
  <2> QED BY <1>11, <2>1, <2>2 DEF ResolveScan, TableTrue, HalfWritten, Writing, Learning
<1>12. CASE ResolveAnswer
  <2>1. cpu.i \in Slots /\ cpu.i < arp.n /\ arp.ip[cpu.i] = cpu.hop /\ cpu.pc = "answer"
    BY <1>12, <1>a DEF ResolveAnswer, SlotHeld, TableTrue
  <2>2. <<cpu.hop, arp.mac[cpu.i]>> \in heard
    BY <2>1 DEF TableTrue, HalfWritten
  <2>3. cpu'.pc = "idle"
    BY <1>12 DEF ResolveAnswer, Idle
  <2> QED BY <1>12, <2>1, <2>2, <2>3 DEF ResolveAnswer, TableTrue, HalfWritten, Writing, Learning
<1>13. ASSUME NEW ip \in Local \ {myIP}, ListenReply(ip) PROVE TableTrue'
  BY <1>13, <1>a, CallTrue, AddressAssumption DEF ListenReply
<1>14. CASE ListenRequest
  BY <1>14, <1>a, CallTrue, AddressAssumption DEF ListenRequest
<1>15. CASE ListenOther
  <2>1. cpu.pc = "listen" /\ cpu'.pc = "resolve"
    BY <1>15, <1>a DEF ListenOther, Context
  <2> QED BY <1>15, <2>1 DEF ListenOther, TableTrue, HalfWritten, Writing, Learning
<1>16. CASE TickStart
  BY <1>16 DEF TickStart, TableTrue, HalfWritten, Writing, Learning
<1>17. CASE TickEntry
  <2>1. /\ isr \in Slots /\ isr < arp.n /\ UNCHANGED <<cpu, owner, resolved, heard>>
        /\ isr \in Int /\ arp.n \in Int
        /\ (cpu.i \in Int)
    BY <1>17, <1>a, EntryShape DEF Slots, Context
  <2>2. CASE Expired(isr)
    <3>1. /\ ~ InUse(isr) /\ arp'.n = arp.n - 1
          /\ \A k \in Slots : k < isr => arp'.ip[k] = arp.ip[k] /\ arp'.mac[k] = arp.mac[k]
          /\ \A k \in Slots : isr <= k /\ k < arp.n - 1 =>
               k + 1 \in Slots /\ arp'.ip[k] = arp.ip[k + 1] /\ arp'.mac[k] = arp.mac[k + 1]
      BY <1>17, <2>2, EntryShape
    <3>2. cpu.pc \in Holding => cpu.i < isr /\ cpu.i < arp.n - 1
      BY <2>1, <3>1 DEF InUse
    <3>3. cpu.pc \in Writing => cpu.full /\ cpu.pc # "count"
      BY <2>1, <3>2 DEF Holding, Writing, TableTrue
    <3>4. ASSUME NEW k \in Slots, k < arp.n - 1, ~ HalfWritten(k)
          PROVE  <<arp'.ip[k], arp'.mac[k]>> \in heard
      <4>1. k \in Int
        BY DEF Slots
      <4>2. CASE k < isr
        <5>1. k < arp.n
          BY <2>1, <3>4, <4>1
        <5> QED BY <3>1, <3>4, <4>2, <5>1 DEF TableTrue
      <4>3. CASE isr <= k
        <5>1. k + 1 \in Slots /\ k + 1 < arp.n
          BY <2>1, <3>1, <3>4, <4>1, <4>3
        <5>2. ~ HalfWritten(k + 1)
          BY <2>1, <3>2, <4>1, <4>3 DEF HalfWritten, Holding
        <5> QED BY <3>1, <3>4, <4>3, <5>1, <5>2 DEF TableTrue
      <4> QED BY <2>1, <4>1, <4>2, <4>3
    <3>5. cpu.pc \in {"setMAC", "answer"} => cpu.i \in Slots /\ arp'.ip[cpu.i] = arp.ip[cpu.i]
      <4>1. cpu.pc \in {"setMAC", "answer"} => cpu.i \in Slots /\ cpu.i < isr
        BY <1>a, <3>2, <3>3 DEF SlotHeld, Writing, Holding
      <4> QED BY <3>1, <4>1
    <3> QED BY <2>1, <3>1, <3>2, <3>3, <3>4, <3>5 DEF TableTrue, HalfWritten, Holding, Writing
  <2>3. CASE ~ Expired(isr)
    <3>1. arp'.n = arp.n /\ arp'.ip = arp.ip /\ arp'.mac = arp.mac
      BY <1>17, <2>3, EntryShape
    <3> QED BY <2>1, <3>1 DEF TableTrue, HalfWritten
  <2> QED BY <2>2, <2>3
<1>18. CASE TickEnd
  BY <1>18 DEF TickEnd, TableTrue, HalfWritten, Writing, Learning
<1>19. ASSUME NEW ip \in IPs, NEW mac \in MACs, Move(ip, mac) PROVE TableTrue'
  BY <1>19 DEF Move, TableTrue, HalfWritten
<1>20. CASE LoseARP
  BY <1>20 DEF LoseARP, TableTrue, HalfWritten
<1>21. CASE UNCHANGED vars
  BY <1>21 DEF vars, TableTrue, HalfWritten
<1> QED
  BY <1>1, <1>2, <1>3, <1>4, <1>5, <1>6, <1>7, <1>8, <1>9, <1>10, <1>11, <1>12,
     <1>13, <1>14, <1>15, <1>16, <1>17, <1>18, <1>19, <1>20, <1>21 DEF Next, Main

(* Nothing takes back that an entry was dropped under an index in use *)
LEMMA OnceShuffled ==
  ASSUME [Next]_vars, ~ shuffled'
  PROVE  ~ shuffled
<1>1. CASE Main
  BY <1>1 DEF Main, history, CallLearn, Hear, LearnScan, LearnFound, LearnReplace, LearnAppend,
              LearnTicks, LearnIP, LearnMACWrite, LearnCount, Resolve, ResolveScan,
              ResolveAnswer, ListenReply, ListenRequest, ListenOther
<1>2. CASE TickStart \/ TickEntry \/ TickEnd
  BY <1>2 DEF TickStart, TickEntry, TickEnd, history
<1>3. CASE (\E ip \in IPs, mac \in MACs : Move(ip, mac)) \/ LoseARP
  BY <1>3 DEF Move, LoseARP, history
<1>4. CASE UNCHANGED vars
  BY <1>4 DEF vars
<1> QED BY <1>1, <1>2, <1>3, <1>4 DEF Next

(***************************************************************************)
(* resolveMAC returns a MAC from which the next hop was heard, for every   *)
(* size of the table and holding time, through every expiry, replacement   *)
(* and move and wherever the interrupt arrives, until it drops an entry    *)
(* under an index in use.                                                  *)
(***************************************************************************)
THEOREM ResolvesRight == Spec => []ResolvedWasHeard
<1> DEFINE IInv == IndexInv /\ (~ shuffled => TableTrue)
<1>1. Init => IInv
  BY IndexInit, TrueInit
<1>2. IInv /\ [Next]_vars => IInv'
  <2> SUFFICES ASSUME IndexInv, ~ shuffled => TableTrue, [Next]_vars
               PROVE  IndexInv' /\ (~ shuffled' => TableTrue')
    OBVIOUS
  <2>1. IndexInv'
    BY IndexNext
  <2>2. ASSUME ~ shuffled' PROVE TableTrue'
    BY <2>1, <2>2, OnceShuffled, TrueNext
  <2> QED BY <2>1, <2>2
<1>3. IInv => ResolvedWasHeard
  BY DEF TableTrue, ResolvedWasHeard
<1> HIDE DEF IInv
<1> QED
  BY <1>1, <1>2, <1>3, PTL DEF Spec

-----------------------------------------------------------------------------
(***************************************************************************)
(* An address is entered only after all entries were compared with it, and *)
(* a drop behind what was compared leaves it compared.                     *)
(***************************************************************************)
Unique ==
  /\ \A j, k \in Slots : j < k /\ k < arp.n => arp.ip[j] # arp.ip[k]
  /\ cpu.pc = "known" => \A k \in Slots : k < cpu.i /\ k < arp.n => arp.ip[k] # cpu.ip
  /\ cpu.pc = "full" => \A k \in Slots : k < arp.n => arp.ip[k] # cpu.ip
  /\ cpu.pc \in Writing => \A k \in Slots : k < arp.n /\ k # cpu.i => arp.ip[k] # cpu.ip
  /\ cpu.pc \in Writing /\ ~ cpu.full => cpu.n = arp.n /\ cpu.i = arp.n
  /\ cpu.pc \in {"setMAC", "count"} => arp.ip[cpu.i] = cpu.ip
  /\ cpu.pc = "count" => ~ cpu.full

LEMMA UniqueNext ==
  ASSUME IndexInv, IndexInv', Unique, [Next]_vars, ~ shuffled'
  PROVE  Unique'
<1> USE DEF history
<1>a. /\ TypeOK /\ SlotHeld /\ TypeOK'
      /\ arp \in Table /\ cpu \in Context /\ arp' \in Table /\ cpu' \in Context
      /\ MAX_ARP_HELD \in Nat \ {0} /\ arp.n \in 0..MAX_ARP_HELD
  BY HeldAssumption DEF IndexInv, TypeOK, Table
<1>q. ASSUME cpu'.pc \in {"idle", "listen", "resolve", "answer", "found"},
             arp'.n = arp.n, arp'.ip = arp.ip
      PROVE  Unique'
  BY <1>q DEF Unique, Writing
<1>c. ASSUME NEW ip \in IPs \cup {NullIP}, NEW mac, NEW ret \in {"idle", "resolve"},
             CallLearn(ip, mac, ret), UNCHANGED arp
      PROVE  Unique'
  <2>1. CASE ip = NullIP
    <3>1. cpu'.pc \in {"idle", "resolve"}
      BY <1>a, <1>c, <2>1 DEF CallLearn, Context
    <3> QED BY <1>c, <1>q, <3>1
  <2>2. CASE ip # NullIP
    <3>1. cpu'.pc = "known" /\ cpu'.i = 0
      BY <1>a, <1>c, <2>2 DEF CallLearn, Context
    <3>2. \A k \in Slots : ~ (k < 0)
      BY DEF Slots
    <3> QED BY <1>c, <3>1, <3>2 DEF Unique, Writing
  <2> QED BY <2>1, <2>2
<1>1. ASSUME NEW ip \in (IPs \cup {NullIP}) \ {myIP}, Hear(ip) PROVE Unique'
  BY <1>1, <1>c DEF Hear
<1>2. CASE LearnScan
  <2>0. cpu.pc = "known" /\ cpu.i \in 0..MAX_ARP_HELD /\ UNCHANGED arp
    BY <1>2, <1>a DEF LearnScan, Context
  <2>1. CASE NotFound
    <3>1. cpu'.pc = "full" /\ cpu'.ip = cpu.ip /\ cpu.i >= arp.n
      BY <1>2, <1>a, <2>1 DEF LearnScan, NotFound, Context
    <3>2. \A k \in Slots : k < arp.n => k < cpu.i
      BY <1>a, <2>0, <3>1 DEF Slots
    <3> QED BY <1>2, <2>0, <3>1, <3>2 DEF Unique, Writing
  <2>2. CASE ~ NotFound /\ arp.ip[cpu.i] = cpu.ip
    <3>1. cpu'.pc = "found"
      BY <1>2, <1>a, <2>2 DEF LearnScan, Context
    <3> QED BY <1>2, <1>q, <2>0, <3>1
  <2>3. CASE ~ NotFound /\ arp.ip[cpu.i] # cpu.ip
    <3>1. cpu'.pc = "known" /\ cpu'.ip = cpu.ip /\ cpu'.i = cpu.i + 1
      BY <1>2, <1>a, <2>3 DEF LearnScan, Context
    <3>2. \A k \in Slots : k < cpu.i + 1 => k < cpu.i \/ k = cpu.i
      BY <2>0 DEF Slots
    <3> QED BY <1>2, <2>0, <2>3, <3>1, <3>2 DEF Unique, Writing
  <2> QED BY <2>1, <2>2, <2>3
<1>3. CASE LearnFound
  <2>1. cpu'.pc \in {"idle", "resolve"}
    BY <1>3, <1>a, ReturnType DEF LearnFound
  <2>2. arp'.n = arp.n /\ arp'.ip = arp.ip
    BY <1>3, <1>a DEF LearnFound, Table
  <2> QED BY <1>3, <1>q, <2>1, <2>2
<1>4. CASE LearnReplace
  <2>1. PICK j \in Slots : cpu' = [cpu EXCEPT !.pc = "setTicks", !.i = j, !.full = TRUE]
    BY <1>4 DEF LearnReplace
  <2>2. cpu.pc = "full" /\ cpu'.pc = "setTicks" /\ cpu'.full /\ cpu'.ip = cpu.ip
    BY <1>4, <1>a, <2>1 DEF LearnReplace, Context
  <2> QED BY <1>4, <2>2 DEF LearnReplace, Unique, Writing
<1>5. CASE LearnAppend
  <2>1. PICK reg \in BOOLEAN :
          cpu' = [cpu EXCEPT !.pc = "setTicks", !.i = arp.n, !.full = FALSE,
                             !.n = arp.n, !.reg = reg]
    BY <1>5 DEF LearnAppend
  <2>2. cpu.pc = "full" /\ cpu'.pc = "setTicks" /\ cpu'.i = arp.n /\ cpu'.n = arp.n
        /\ cpu'.ip = cpu.ip
    BY <1>5, <1>a, <2>1 DEF LearnAppend, Context
  <2> QED BY <1>5, <2>2 DEF LearnAppend, Unique, Writing
<1>6. CASE LearnTicks
  <2>1. cpu.pc = "setTicks" /\ cpu'.pc = "setIP" /\ cpu'.full = cpu.full
        /\ cpu'.ip = cpu.ip /\ cpu'.i = cpu.i /\ cpu'.n = cpu.n
    BY <1>6, <1>a DEF LearnTicks, Context
  <2>2. arp'.n = arp.n /\ arp'.ip = arp.ip
    BY <1>6, <1>a DEF LearnTicks, Table
  <2> QED BY <1>6, <2>1, <2>2 DEF LearnTicks, Unique, Writing
<1>7. CASE LearnIP
  <2>1. cpu.pc = "setIP" /\ cpu'.pc = "setMAC" /\ cpu'.full = cpu.full
        /\ cpu'.ip = cpu.ip /\ cpu'.i = cpu.i /\ cpu'.n = cpu.n
    BY <1>7, <1>a DEF LearnIP, Context
  <2>2. Index = cpu.i /\ cpu.i \in Slots /\ (~ cpu.full => cpu.i = arp.n)
    BY <1>a, <2>1 DEF Index, Unique, Writing, SlotHeld, Slots, Context
  <2>3. arp'.n = arp.n /\ arp'.ip = [arp.ip EXCEPT ![cpu.i] = cpu.ip]
    BY <1>7, <1>a, <2>2 DEF LearnIP, Table
  <2>4. arp'.ip[cpu.i] = cpu.ip /\ \A k \in Slots : k # cpu.i => arp'.ip[k] = arp.ip[k]
    BY <1>a, <2>2, <2>3 DEF Table
  <2>5. \A k \in Slots : k < arp'.n /\ k # cpu.i => arp'.ip[k] # cpu.ip
    BY <2>1, <2>3, <2>4 DEF Unique, Writing
  <2>6. \A j, k \in Slots : j < k /\ k < arp'.n => arp'.ip[j] # arp'.ip[k]
    <3> SUFFICES ASSUME NEW j \in Slots, NEW k \in Slots, j < k, k < arp'.n
                 PROVE  arp'.ip[j] # arp'.ip[k]
      OBVIOUS
    <3>1. j < arp'.n /\ j # k
      BY <1>a, <2>3 DEF Slots
    <3>2. CASE j # cpu.i /\ k # cpu.i
      BY <2>3, <2>4, <3>2 DEF Unique
    <3>3. CASE j = cpu.i \/ k = cpu.i
      BY <2>4, <2>5, <3>1, <3>3
    <3> QED BY <3>2, <3>3
  <2> QED BY <1>7, <2>1, <2>2, <2>3, <2>4, <2>5, <2>6 DEF LearnIP, Unique, Writing
<1>8. CASE LearnMACWrite
  <2>1. cpu.pc = "setMAC" /\ arp.ip[cpu.i] = cpu.ip
    BY <1>8 DEF LearnMACWrite, Unique
  <2>2. arp'.n = arp.n /\ arp'.ip = arp.ip
    BY <1>8, <1>a DEF LearnMACWrite, Table
  <2>3. CASE cpu.full
    <3>1. cpu'.pc \in {"idle", "resolve"}
      BY <1>8, <1>a, <2>3, ReturnType DEF LearnMACWrite
    <3> QED BY <1>8, <1>q, <2>1, <2>2, <3>1
  <2>4. CASE ~ cpu.full
    <3>1. cpu'.pc = "count" /\ ~ cpu'.full /\ cpu'.ip = cpu.ip /\ cpu'.i = cpu.i /\ cpu'.n = cpu.n
      BY <1>8, <1>a, <2>4 DEF LearnMACWrite, Context
    <3> QED BY <1>8, <2>1, <2>2, <2>4, <3>1 DEF Unique, Writing
  <2> QED BY <2>3, <2>4
<1>9. CASE LearnCount
  <2>1. cpu.pc = "count" /\ cpu.n = arp.n /\ cpu.i = arp.n /\ arp.ip[arp.n] = cpu.ip
    BY <1>9 DEF LearnCount, Unique, Writing
  <2>2. arp'.n = arp.n + 1 /\ arp'.ip = arp.ip
    BY <1>9, <1>a, <2>1 DEF LearnCount, Table
  <2>3. \A k \in Slots : k < arp.n + 1 => k < arp.n \/ k = arp.n
    BY <1>a DEF Slots
  <2>4. \A k \in Slots : k < arp.n => arp.ip[k] # arp.ip[arp.n]
    BY <1>a, <2>1 DEF Unique, Writing, Slots
  <2>5. \A j, k \in Slots : j < k /\ k < arp'.n => arp'.ip[j] # arp'.ip[k]
    BY <2>2, <2>3, <2>4 DEF Unique
  <2>6. cpu'.pc \in {"idle", "resolve"}
    BY <1>9, <1>a, ReturnType DEF LearnCount
  <2> QED BY <1>9, <2>2, <2>5, <2>6 DEF Unique, Writing
<1>10. ASSUME NEW ip \in IPs \ {myIP}, Resolve(ip) PROVE Unique'
  <2>1. cpu'.pc = "resolve"
    BY <1>10, <1>a DEF Resolve, Context
  <2> QED BY <1>10, <1>q, <2>1 DEF Resolve
<1>11. CASE ResolveScan
  <2>1. cpu'.pc \in {"resolve", "listen", "answer"}
    BY <1>11, <1>a DEF ResolveScan, Context
  <2> QED BY <1>11, <1>q, <2>1 DEF ResolveScan
<1>12. CASE ResolveAnswer
  BY <1>12, <1>q DEF ResolveAnswer, Idle
<1>13. ASSUME NEW ip \in Local \ {myIP}, ListenReply(ip) PROVE Unique'
  BY <1>13, <1>c, AddressAssumption DEF ListenReply
<1>14. CASE ListenRequest
  BY <1>14, <1>c, AddressAssumption DEF ListenRequest
<1>15. CASE ListenOther
  <2>1. cpu'.pc = "resolve"
    BY <1>15, <1>a DEF ListenOther, Context
  <2> QED BY <1>15, <1>q, <2>1 DEF ListenOther
<1>16. CASE TickStart
  BY <1>16 DEF TickStart, Unique, Writing
<1>17. CASE TickEntry
  <2>1. /\ isr \in Slots /\ isr < arp.n /\ cpu' = cpu
        /\ isr \in Int /\ arp.n \in Int /\ cpu.i \in Int
    BY <1>17, <1>a, EntryShape DEF Slots, Context
  <2>2. CASE Expired(isr)
    <3>1. /\ ~ InUse(isr) /\ arp'.n = arp.n - 1
          /\ \A k \in Slots : k < isr => arp'.ip[k] = arp.ip[k]
          /\ \A k \in Slots : isr <= k /\ k < arp.n - 1 => k + 1 \in Slots /\ arp'.ip[k] = arp.ip[k + 1]
      BY <1>17, <2>2, EntryShape
    <3>2. cpu.pc \in Holding => cpu.i < isr
      BY <2>1, <3>1 DEF InUse
    <3>3. cpu.pc = "known" => cpu.i <= isr
      BY <2>1, <3>1 DEF InUse
    <3>4. cpu.pc \in Writing => cpu.full /\ cpu.pc # "count"
      BY <2>1, <3>2 DEF Holding, Writing, Unique
    <3>5. ASSUME NEW j \in Slots, NEW k \in Slots, j < k, k < arp.n - 1
          PROVE  arp'.ip[j] # arp'.ip[k]
      <4>1. /\ j \in Int /\ k \in Int /\ j < arp.n - 1
            /\ k < arp.n /\ j < k + 1 /\ j + 1 < k + 1 /\ k + 1 < arp.n
        BY <2>1, <3>5 DEF Slots
      <4>2. CASE isr <= j
        <5>1. isr <= k
          BY <2>1, <3>5, <4>1, <4>2
        <5> QED BY <3>1, <3>5, <4>1, <4>2, <5>1 DEF Unique
      <4>3. CASE j < isr /\ isr <= k
        BY <3>1, <3>5, <4>1, <4>3 DEF Unique
      <4>4. CASE k < isr
        <5>1. j < isr
          BY <2>1, <3>5, <4>1, <4>4
        <5> QED BY <3>1, <3>5, <4>1, <4>4, <5>1 DEF Unique
      <4> QED BY <2>1, <4>1, <4>2, <4>3, <4>4
    (* The entry that is in slot k now was in slot k or in the next one *)
    <3>6. ASSUME NEW k \in Slots, k < arp.n - 1
          PROVE  \E m \in {k, k + 1} : /\ m \in Slots /\ m < arp.n /\ arp'.ip[k] = arp.ip[m]
                                       /\ m = k \/ isr < m
                                       /\ m = k => k < isr
      <4>1. k \in Int /\ k < arp.n /\ k + 1 < arp.n
        BY <2>1, <3>6 DEF Slots
      <4>2. CASE k < isr
        BY <3>1, <4>1, <4>2
      <4>3. CASE isr <= k
        <5>1. k + 1 \in Slots /\ arp'.ip[k] = arp.ip[k + 1] /\ isr < k + 1 /\ k + 1 # k
          BY <2>1, <3>1, <3>6, <4>1, <4>3
        <5> QED BY <4>1, <5>1
      <4> QED BY <2>1, <4>1, <4>2, <4>3
    <3>7. cpu.pc = "known" =>
            \A k \in Slots : k < cpu.i /\ k < arp.n - 1 => arp'.ip[k] # cpu.ip
      <4> SUFFICES ASSUME cpu.pc = "known", NEW k \in Slots, k < cpu.i, k < arp.n - 1
                   PROVE  arp'.ip[k] # cpu.ip
        OBVIOUS
      <4>1. k < isr /\ k < arp.n
        BY <2>1, <3>3 DEF Slots
      <4> QED BY <3>1, <4>1 DEF Unique
    <3>8. cpu.pc = "full" => \A k \in Slots : k < arp.n - 1 => arp'.ip[k] # cpu.ip
      BY <3>6 DEF Unique
    <3>9. cpu.pc \in Writing =>
            \A k \in Slots : k < arp.n - 1 /\ k # cpu.i => arp'.ip[k] # cpu.ip
      <4> SUFFICES ASSUME cpu.pc \in Writing, NEW k \in Slots, k < arp.n - 1, k # cpu.i
                   PROVE  arp'.ip[k] # cpu.ip
        OBVIOUS
      <4>1. cpu.i < isr
        BY <3>2, <3>4 DEF Writing, Holding
      <4>2. PICK m \in {k, k + 1} : /\ m \in Slots /\ m < arp.n /\ arp'.ip[k] = arp.ip[m]
                                    /\ m = k \/ isr < m
        BY <3>6
      <4>3. m # cpu.i
        BY <2>1, <4>1, <4>2 DEF Slots
      <4> QED BY <4>2, <4>3 DEF Unique
    <3>10. cpu.pc = "setMAC" => arp'.ip[cpu.i] = cpu.ip
      <4>1. cpu.pc = "setMAC" => cpu.i \in Slots /\ cpu.i < isr
        BY <1>a, <3>2, <3>4 DEF SlotHeld, Writing, Holding
      <4> QED BY <3>1, <4>1 DEF Unique
    <3> QED BY <2>1, <3>1, <3>4, <3>5, <3>7, <3>8, <3>9, <3>10 DEF Unique, Writing
  <2>3. CASE ~ Expired(isr)
    <3>1. arp'.n = arp.n /\ arp'.ip = arp.ip
      BY <1>17, <2>3, EntryShape
    <3> QED BY <2>1, <3>1 DEF Unique
  <2> QED BY <2>2, <2>3
<1>18. CASE TickEnd
  BY <1>18 DEF TickEnd, Unique, Writing
<1>19. ASSUME NEW ip \in IPs, NEW mac \in MACs, Move(ip, mac) PROVE Unique'
  BY <1>19 DEF Move, Unique, Writing
<1>20. CASE LoseARP
  BY <1>20 DEF LoseARP, Unique, Writing
<1>21. CASE UNCHANGED vars
  BY <1>21 DEF vars, Unique, Writing
<1> QED
  BY <1>1, <1>2, <1>3, <1>4, <1>5, <1>6, <1>7, <1>8, <1>9, <1>10, <1>11, <1>12,
     <1>13, <1>14, <1>15, <1>16, <1>17, <1>18, <1>19, <1>20, <1>21 DEF Next, Main

(***************************************************************************)
(* learnMAC enters no address twice, whatever expires, is replaced or      *)
(* moves, for every table size and wherever the interrupt arrives, until   *)
(* it drops an entry that the search has passed or whose index is in use.  *)
(***************************************************************************)
THEOREM NoAddressTwice == Spec => []NoDuplicates
<1> DEFINE IInv == IndexInv /\ (~ shuffled => Unique)
<1>1. Init => IInv
  <2>1. Init => Unique
    BY HeldAssumption DEF Init, Idle, Slots, Unique, Writing
  <2> QED BY <2>1, IndexInit
<1>2. IInv /\ [Next]_vars => IInv'
  <2> SUFFICES ASSUME IndexInv, ~ shuffled => Unique, [Next]_vars
               PROVE  IndexInv' /\ (~ shuffled' => Unique')
    OBVIOUS
  <2>1. IndexInv'
    BY IndexNext
  <2>2. ASSUME ~ shuffled' PROVE Unique'
    BY <2>1, <2>2, OnceShuffled, UniqueNext
  <2> QED BY <2>1, <2>2
<1>3. IInv => NoDuplicates
  BY DEF Unique, NoDuplicates
<1> HIDE DEF IInv
<1> QED
  BY <1>1, <1>2, <1>3, PTL DEF Spec

-----------------------------------------------------------------------------
(***************************************************************************)
(* The age of an address and the ticks its entry has left make up the      *)
(* holding time, give or take the seconds the entry gained by sitting      *)
(* behind dropped ones: at most one for each slot it came down, so that    *)
(* slot k has k of them still to gain.  late = 1 while this second's round *)
(* has yet to come to the entry.                                           *)
(***************************************************************************)
AgeOf(k) == age[arp.ip[k]]

Lives(k, late) ==
  /\ arp.ticks[k] \in 0..TICKS_TO_HOLD_MAC
  /\ AgeOf(k) + arp.ticks[k] + k <= TICKS_TO_HOLD_MAC + MAX_ARP_HELD - 1 + late

(* Slot k is being overwritten: its ticks are new and its address is not *)
Overwritten(k) == cpu.pc \in {"setIP", "setMAC"} /\ cpu.full /\ k = cpu.i

TableFresh ==
  /\ \A k \in Slots : k < arp.n /\ ~ Overwritten(k) =>
       Lives(k, IF isr # Off /\ isr <= k THEN 1 ELSE 0)
  /\ cpu.pc = "found" => cpu.i < arp.n /\ arp.ip[cpu.i] = cpu.ip
  /\ cpu.pc \in {"setIP", "setMAC", "count"} => arp.ticks[cpu.i] \in 0..TICKS_TO_HOLD_MAC

LEMMA FreshNext ==
  ASSUME IndexInv, IndexInv', TableTrue, TableFresh, [Next]_vars, ~ shuffled'
  PROVE  TableFresh'
<1> USE DEF history
<1> DEFINE T == TICKS_TO_HOLD_MAC
<1>a. /\ TypeOK /\ SlotHeld /\ TypeOK'
      /\ arp \in Table /\ cpu \in Context /\ arp' \in Table /\ cpu' \in Context
      /\ MAX_ARP_HELD \in Nat \ {0} /\ arp.n \in 0..MAX_ARP_HELD
      /\ T \in Nat \ {0} /\ 0 \in 0..T /\ T \in 0..T
      /\ age \in [IPs -> 0..Forgotten] /\ age' \in [IPs -> 0..Forgotten]
      /\ heard \subseteq IPs \X MACs /\ Forgotten \in Nat
  BY HeldAssumption, TicksAssumption DEF IndexInv, TypeOK, Table, Forgotten
<1>p. ASSUME NEW k \in Slots, k < arp.n, ~ Overwritten(k)
      PROVE  arp.ip[k] \in IPs /\ AgeOf(k) \in Nat
  <2>1. ~ HalfWritten(k)
    BY <1>p DEF HalfWritten, Overwritten
  <2>2. <<arp.ip[k], arp.mac[k]>> \in IPs \X MACs
    BY <1>a, <1>p, <2>1 DEF TableTrue
  <2> QED BY <1>a, <2>2 DEF AgeOf
(* A step of the main context that leaves the table as it is *)
<1>q. ASSUME cpu'.pc \in {"idle", "listen", "resolve", "answer", "known", "full"},
             cpu.pc \notin {"setIP", "setMAC"}, UNCHANGED <<isr, arp, age>>
      PROVE  TableFresh'
  BY <1>q DEF TableFresh, Overwritten, Lives, AgeOf
<1>c. ASSUME NEW ip \in IPs \cup {NullIP}, NEW mac, NEW ret \in {"idle", "resolve"},
             CallLearn(ip, mac, ret), cpu.pc \in {"idle", "listen"}, UNCHANGED <<arp, isr>>
      PROVE  TableFresh'
  <2>1. cpu'.pc \in {"idle", "resolve", "known"} /\ age' = age
    BY <1>a, <1>c DEF CallLearn, Context
  <2> QED BY <1>c, <1>q, <2>1
(* When learnMAC returns the address it was called with is new *)
<1>r. ASSUME Return, isr = Off, isr' = Off, cpu.pc \in Learning, NEW j \in Slots,
             \A k \in Slots : k < arp'.n => k = j \/ (k < arp.n /\ ~ Overwritten(k)),
             \A k \in Slots : k # j => arp'.ip[k] = arp.ip[k] /\ arp'.ticks[k] = arp.ticks[k],
             arp'.ip[j] = cpu.ip, arp'.ticks[j] \in 0..T
      PROVE  TableFresh'
  <2>1. cpu'.pc \in {"idle", "resolve"} /\ cpu.ip \in IPs
    BY <1>a, <1>r, ReturnType DEF TableTrue
  <2>2. age'[cpu.ip] = 0 /\ \A ip \in IPs : age'[ip] <= age[ip] /\ age'[ip] \in Nat
    BY <1>a, <1>r, <2>1 DEF Return
  <2>3. ASSUME NEW k \in Slots, k < arp'.n PROVE Lives(k, 0)'
    <3>1. CASE k = j
      <4>1. AgeOf(k)' = 0
        BY <1>r, <2>2, <3>1 DEF AgeOf
      <4> QED BY <1>a, <1>r, <3>1, <4>1 DEF Lives, Slots
    <3>2. CASE k # j
      <4>1. k < arp.n /\ ~ Overwritten(k) /\ arp'.ip[k] = arp.ip[k] /\ arp'.ticks[k] = arp.ticks[k]
        BY <1>r, <2>3, <3>2
      <4>2. arp.ip[k] \in IPs /\ AgeOf(k) \in Nat /\ Lives(k, 0)
        BY <1>p, <1>r, <4>1 DEF TableFresh
      <4>3. AgeOf(k)' <= AgeOf(k) /\ AgeOf(k)' \in Nat
        BY <2>2, <4>1, <4>2 DEF AgeOf
      <4> QED BY <1>a, <4>1, <4>2, <4>3 DEF Lives, Slots
    <3> QED BY <3>1, <3>2
  <2> QED BY <1>r, <2>1, <2>3 DEF TableFresh
<1>1. ASSUME NEW ip \in (IPs \cup {NullIP}) \ {myIP}, Hear(ip) PROVE TableFresh'
  BY <1>1, <1>c DEF Hear
<1>2. CASE LearnScan
  <2>1. cpu.pc = "known" /\ cpu'.ip = cpu.ip /\ UNCHANGED <<arp, isr, age>>
    BY <1>2, <1>a DEF LearnScan, Context
  <2>2. cpu.i \in Int /\ arp.n \in Int
    BY <1>a DEF Context
  <2>3. CASE NotFound \/ arp.ip[cpu.i] # cpu.ip
    <3>1. cpu'.pc \in {"known", "full"}
      BY <1>2, <1>a, <2>3 DEF LearnScan, Context
    <3> QED BY <1>q, <2>1, <3>1
  <2>4. CASE ~ NotFound /\ arp.ip[cpu.i] = cpu.ip
    <3>1. cpu' = [cpu EXCEPT !.pc = "found"] /\ cpu.i < arp.n
      BY <1>2, <2>2, <2>4 DEF LearnScan, NotFound
    <3>2. cpu'.pc = "found" /\ cpu'.i = cpu.i
      BY <1>a, <3>1 DEF Context
    <3> QED BY <2>1, <2>4, <3>1, <3>2 DEF TableFresh, Overwritten, Lives, AgeOf
  <2> QED BY <2>3, <2>4
<1>3. ASSUME LearnFound, isr = Off PROVE TableFresh'
  <2>1. cpu.pc = "found" /\ Return /\ isr' = isr
    BY <1>3 DEF LearnFound
  <2>2. cpu.i \in Slots /\ cpu.i < arp.n /\ arp.ip[cpu.i] = cpu.ip
    BY <2>1, <1>a DEF SlotHeld, TableFresh
  <2>3. arp'.n = arp.n /\ arp'.ip = arp.ip /\ arp'.ticks = [arp.ticks EXCEPT ![cpu.i] = T]
    BY <1>3, <1>a DEF LearnFound, Table
  <2>4. arp'.ticks[cpu.i] = T /\ \A k \in Slots : k # cpu.i => arp'.ticks[k] = arp.ticks[k]
    BY <1>a, <2>2, <2>3 DEF Table
  <2>5. \A k \in Slots : ~ Overwritten(k)
    BY <2>1 DEF Overwritten
  <2> QED BY <1>3, <1>a, <1>r, <2>1, <2>2, <2>3, <2>4, <2>5 DEF Learning
<1>4. CASE LearnReplace
  <2>1. PICK j \in Slots : cpu' = [cpu EXCEPT !.pc = "setTicks", !.i = j, !.full = TRUE]
    BY <1>4 DEF LearnReplace
  <2>2. cpu.pc = "full" /\ cpu'.pc = "setTicks" /\ UNCHANGED <<arp, isr, age>>
    BY <1>4, <1>a, <2>1 DEF LearnReplace, Context
  <2> QED BY <2>2 DEF TableFresh, Overwritten, Lives, AgeOf
<1>5. CASE LearnAppend
  <2>1. PICK reg \in BOOLEAN :
          cpu' = [cpu EXCEPT !.pc = "setTicks", !.i = arp.n, !.full = FALSE,
                             !.n = arp.n, !.reg = reg]
    BY <1>5 DEF LearnAppend
  <2>2. cpu.pc = "full" /\ cpu'.pc = "setTicks" /\ UNCHANGED <<arp, isr, age>>
    BY <1>5, <1>a, <2>1 DEF LearnAppend, Context
  <2> QED BY <2>2 DEF TableFresh, Overwritten, Lives, AgeOf
<1>i. ASSUME cpu.pc \in {"setTicks", "setIP", "setMAC"}
      PROVE  Index = cpu.i /\ cpu.i \in Slots /\ (~ cpu.full => cpu.i = arp.n)
  BY <1>a, <1>i DEF Index, TableTrue, Writing, SlotHeld, Slots, Context
<1>6. CASE LearnTicks
  <2>1. cpu.pc = "setTicks" /\ cpu'.pc = "setIP" /\ cpu'.full = cpu.full /\ cpu'.i = cpu.i
        /\ UNCHANGED <<isr, age>>
    BY <1>6, <1>a DEF LearnTicks, Context
  <2>2. Index = cpu.i /\ cpu.i \in Slots /\ (~ cpu.full => cpu.i = arp.n)
    BY <1>i, <2>1
  <2>3. arp'.n = arp.n /\ arp'.ip = arp.ip /\ arp'.ticks = [arp.ticks EXCEPT ![cpu.i] = T]
    BY <1>6, <1>a, <2>2 DEF LearnTicks, Table
  <2>4. arp'.ticks[cpu.i] = T /\ \A k \in Slots : k # cpu.i => arp'.ticks[k] = arp.ticks[k]
    BY <1>a, <2>2, <2>3 DEF Table
  <2>5. ASSUME NEW k \in Slots, k < arp.n, ~ Overwritten(k)'
        PROVE  Lives(k, IF isr # Off /\ isr <= k THEN 1 ELSE 0)'
    <3>1. k # cpu.i
      BY <1>a, <2>1, <2>2, <2>5 DEF Overwritten, Slots
    <3>2. Lives(k, IF isr # Off /\ isr <= k THEN 1 ELSE 0)
      BY <2>1, <2>5 DEF TableFresh, Overwritten
    <3> QED BY <2>1, <2>3, <2>4, <3>1, <3>2 DEF Lives, AgeOf
  <2> QED BY <1>a, <2>1, <2>3, <2>4, <2>5 DEF TableFresh
<1>7. CASE LearnIP
  <2>1. cpu.pc = "setIP" /\ cpu'.pc = "setMAC" /\ cpu'.full = cpu.full /\ cpu'.i = cpu.i
        /\ UNCHANGED <<isr, age>>
    BY <1>7, <1>a DEF LearnIP, Context
  <2>2. Index = cpu.i /\ cpu.i \in Slots /\ (~ cpu.full => cpu.i = arp.n)
    BY <1>i, <2>1
  <2>3. arp'.n = arp.n /\ arp'.ticks = arp.ticks /\ arp'.ip = [arp.ip EXCEPT ![cpu.i] = cpu.ip]
    BY <1>7, <1>a, <2>2 DEF LearnIP, Table
  <2>4. \A k \in Slots : k # cpu.i => arp'.ip[k] = arp.ip[k]
    BY <1>a, <2>2, <2>3 DEF Table
  <2>5. ASSUME NEW k \in Slots, k < arp.n, ~ Overwritten(k)'
        PROVE  Lives(k, IF isr # Off /\ isr <= k THEN 1 ELSE 0)'
    <3>1. k # cpu.i
      BY <1>a, <2>1, <2>2, <2>5 DEF Overwritten, Slots
    <3>2. Lives(k, IF isr # Off /\ isr <= k THEN 1 ELSE 0)
      BY <2>1, <2>5, <3>1 DEF TableFresh, Overwritten
    <3> QED BY <2>1, <2>3, <2>4, <3>1, <3>2 DEF Lives, AgeOf
  <2> QED BY <1>7, <2>1, <2>3, <2>5 DEF TableFresh
<1>8. ASSUME LearnMACWrite, isr = Off PROVE TableFresh'
  <2>1. cpu.pc = "setMAC" /\ arp.ip[cpu.i] = cpu.ip /\ arp.ticks[cpu.i] \in 0..T /\ isr' = isr
    BY <1>8 DEF LearnMACWrite, TableTrue, TableFresh
  <2>2. cpu.i \in Slots /\ (~ cpu.full => cpu.i = arp.n)
    BY <1>i, <2>1
  <2>3. arp'.n = arp.n /\ arp'.ip = arp.ip /\ arp'.ticks = arp.ticks
    BY <1>8, <1>a, <2>2 DEF LearnMACWrite, Table
  <2>4. CASE cpu.full
    <3>1. Return
      BY <1>8, <2>4 DEF LearnMACWrite
    <3>2. \A k \in Slots : k # cpu.i => ~ Overwritten(k)
      BY DEF Overwritten
    <3> QED BY <1>8, <1>r, <2>1, <2>2, <2>3, <3>1, <3>2 DEF Learning, Writing
  <2>5. CASE ~ cpu.full
    <3>1. cpu'.pc = "count" /\ cpu'.i = cpu.i /\ age' = age
      BY <1>8, <1>a, <2>5 DEF LearnMACWrite, Context
    <3>2. \A k \in Slots : ~ Overwritten(k)
      BY <2>5 DEF Overwritten
    <3> QED BY <2>1, <2>3, <3>1, <3>2 DEF TableFresh, Overwritten, Lives, AgeOf
  <2> QED BY <2>4, <2>5
<1>9. ASSUME LearnCount, isr = Off PROVE TableFresh'
  <2>1. cpu.pc = "count" /\ cpu.n = arp.n /\ cpu.i = arp.n /\ arp.ip[arp.n] = cpu.ip
        /\ arp.ticks[arp.n] \in 0..T /\ Return /\ isr' = isr
    BY <1>9 DEF LearnCount, TableTrue, TableFresh, Writing
  <2>2. arp'.n = arp.n + 1 /\ arp'.ip = arp.ip /\ arp'.ticks = arp.ticks
    BY <1>9, <1>a, <2>1 DEF LearnCount, Table
  <2>3. arp.n \in Slots
    BY <1>a, <2>1 DEF SlotHeld, Slots
  <2>4. \A k \in Slots : k < arp.n + 1 => k = arp.n \/ k < arp.n
    BY <1>a DEF Slots
  <2>5. \A k \in Slots : ~ Overwritten(k)
    BY <2>1 DEF Overwritten
  <2> QED BY <1>9, <1>r, <2>1, <2>2, <2>3, <2>4, <2>5 DEF Learning, Writing
<1>10. ASSUME NEW ip \in IPs \ {myIP}, Resolve(ip) PROVE TableFresh'
  <2>1. cpu.pc = "idle" /\ cpu'.pc = "resolve"
    BY <1>10, <1>a DEF Resolve, Context
  <2> QED BY <1>10, <1>q, <2>1 DEF Resolve
<1>11. CASE ResolveScan
  <2>1. cpu.pc = "resolve" /\ cpu'.pc \in {"resolve", "listen", "answer"}
    BY <1>11, <1>a DEF ResolveScan, Context
  <2> QED BY <1>11, <1>q, <2>1 DEF ResolveScan
<1>12. CASE ResolveAnswer
  BY <1>12, <1>q DEF ResolveAnswer, Idle
<1>13. ASSUME NEW ip \in Local \ {myIP}, ListenReply(ip) PROVE TableFresh'
  BY <1>13, <1>c, AddressAssumption DEF ListenReply
<1>14. CASE ListenRequest
  BY <1>14, <1>c, AddressAssumption DEF ListenRequest
<1>15. CASE ListenOther
  <2>1. cpu.pc = "listen" /\ cpu'.pc = "resolve"
    BY <1>15, <1>a DEF ListenOther, Context
  <2> QED BY <1>15, <1>q, <2>1 DEF ListenOther
<1>16. CASE TickStart
  <2>1. isr = Off /\ isr' = 0 /\ UNCHANGED <<arp, cpu>>
    BY <1>16 DEF TickStart
  <2>2. \A ip \in IPs : age'[ip] <= age[ip] + 1 /\ age'[ip] \in Nat
    <3>1. \A ip \in IPs : age[ip] \in Nat
      BY <1>a
    <3> QED BY <1>16, <3>1 DEF TickStart
  <2>3. ASSUME NEW k \in Slots, k < arp.n, ~ Overwritten(k) PROVE Lives(k, 1)'
    <3>1. arp.ip[k] \in IPs /\ AgeOf(k) \in Nat
      BY <1>p, <2>3
    <3>2. AgeOf(k)' <= AgeOf(k) + 1 /\ AgeOf(k)' \in Nat
      BY <2>1, <2>2, <3>1 DEF AgeOf
    <3>3. Lives(k, 0)
      BY <2>1, <2>3 DEF TableFresh
    <3> QED BY <1>a, <2>1, <3>1, <3>2, <3>3 DEF Lives, Slots
  <2>4. \A k \in Slots : isr' # Off /\ isr' <= k
    BY <2>1 DEF Off, Slots
  <2> QED BY <2>1, <2>3, <2>4 DEF TableFresh, Overwritten
<1>17. CASE TickEntry
  <2>1. /\ isr \in Slots /\ isr # Off /\ isr < arp.n /\ isr' = isr + 1 /\ isr' # Off
        /\ UNCHANGED <<cpu, age>> /\ isr \in Int /\ arp.n \in Int /\ cpu.i \in Int
    BY <1>17, <1>a, EntryShape DEF Slots, Context, Off
  <2>2. ASSUME NEW k \in Slots, k < arp.n, ~ Overwritten(k)
        PROVE  /\ IF isr <= k THEN Lives(k, 1) ELSE Lives(k, 0)
               /\ AgeOf(k) \in Nat /\ k \in Nat
    <3>1. AgeOf(k) \in Nat
      BY <1>p, <2>2
    <3>2. Lives(k, IF isr # Off /\ isr <= k THEN 1 ELSE 0)
      BY <2>2 DEF TableFresh
    <3> QED BY <2>1, <3>1, <3>2 DEF Slots
  <2>3. CASE Expired(isr)
    <3>1. /\ ~ InUse(isr) /\ arp'.n = arp.n - 1
          /\ \A k \in Slots : k < isr => arp'.ip[k] = arp.ip[k] /\ arp'.ticks[k] = arp.ticks[k]
          /\ \A k \in Slots : isr <= k /\ k < arp.n - 1 =>
               k + 1 \in Slots /\ arp'.ip[k] = arp.ip[k + 1] /\ arp'.ticks[k] = arp.ticks[k + 1]
      BY <1>17, <2>3, EntryShape
    <3>2. cpu.pc \in Holding => cpu.i < isr /\ cpu.i < arp.n - 1
      BY <2>1, <3>1 DEF InUse
    <3>3. cpu.pc \in Writing => cpu.full /\ cpu.pc # "count"
      BY <2>1, <3>2 DEF Holding, Writing, TableTrue
    <3>4. ASSUME NEW k \in Slots, k < arp.n - 1, ~ Overwritten(k)
          PROVE  IF isr + 1 <= k THEN Lives(k, 1)' ELSE Lives(k, 0)'
      <4>1. k \in Int /\ k < arp.n
        BY <2>1, <3>4 DEF Slots
      <4>2. CASE isr <= k
        <5>1. /\ k + 1 \in Slots /\ k + 1 < arp.n /\ isr <= k + 1
              /\ arp'.ip[k] = arp.ip[k + 1] /\ arp'.ticks[k] = arp.ticks[k + 1]
          BY <2>1, <3>1, <3>4, <4>1, <4>2
        <5>2. ~ Overwritten(k + 1)
          BY <2>1, <3>2, <4>1, <4>2 DEF Overwritten, Holding
        <5>3. Lives(k + 1, 1) /\ AgeOf(k + 1) \in Nat /\ AgeOf(k)' = AgeOf(k + 1)
          BY <2>1, <2>2, <5>1, <5>2 DEF AgeOf
        <5>4. arp'.ticks[k] \in 0..T /\ AgeOf(k)' + arp'.ticks[k] + k <= T + MAX_ARP_HELD - 1
          BY <1>a, <4>1, <5>1, <5>3 DEF Lives
        <5> QED BY <1>a, <4>1, <5>1, <5>3, <5>4 DEF Lives
      <4>3. CASE k < isr
        <5>1. arp'.ip[k] = arp.ip[k] /\ arp'.ticks[k] = arp.ticks[k] /\ ~ (isr + 1 <= k) /\ ~ (isr <= k)
          BY <2>1, <3>1, <4>1, <4>3
        <5>2. Lives(k, 0) /\ AgeOf(k)' = AgeOf(k)
          BY <2>1, <2>2, <3>4, <4>1, <5>1 DEF AgeOf
        <5> QED BY <5>1, <5>2 DEF Lives
      <4> QED BY <2>1, <4>1, <4>2, <4>3
    <3>5. cpu.pc \in {"found", "setIP", "setMAC"} =>
            cpu.i \in Slots /\ arp'.ip[cpu.i] = arp.ip[cpu.i] /\ arp'.ticks[cpu.i] = arp.ticks[cpu.i]
      <4>1. cpu.pc \in {"found", "setIP", "setMAC"} => cpu.i \in Slots /\ cpu.i < isr
        BY <1>a, <3>2, <3>3 DEF SlotHeld, Writing, Holding
      <4> QED BY <3>1, <4>1
    <3>6. cpu.pc # "count"
      BY <3>3 DEF Writing
    <3>7. \A k \in Slots : Overwritten(k)' <=> Overwritten(k)
      BY <2>1 DEF Overwritten
    <3> QED
      BY <2>1, <3>1, <3>2, <3>4, <3>5, <3>6, <3>7 DEF TableFresh, Holding
  <2>4. CASE ~ Expired(isr)
    <3>1. /\ arp'.n = arp.n /\ arp'.ip = arp.ip
          /\ arp'.ticks = [arp.ticks EXCEPT ![isr] = Dec(arp.ticks[isr])]
      BY <1>17, <2>4, EntryShape
    <3>2. arp'.ticks[isr] = Dec(arp.ticks[isr]) /\ \A k \in Slots : k # isr => arp'.ticks[k] = arp.ticks[k]
      BY <1>a, <2>1, <3>1 DEF Table
    <3>3. arp.ticks[isr] \in 0..T => arp.ticks[isr] \in 1..T /\ arp'.ticks[isr] = arp.ticks[isr] - 1
      BY <1>a, <2>4, <3>2, TicksAssumption DEF Expired, Dec
    <3>4. ASSUME NEW k \in Slots, k < arp.n, ~ Overwritten(k)
          PROVE  IF isr + 1 <= k THEN Lives(k, 1)' ELSE Lives(k, 0)'
      <4>1. (IF isr <= k THEN Lives(k, 1) ELSE Lives(k, 0)) /\ AgeOf(k) \in Nat /\ k \in Nat
        BY <2>2, <3>4
      <4>2. AgeOf(k)' = AgeOf(k)
        BY <2>1, <3>1 DEF AgeOf
      <4>3. CASE k = isr
        <5>1. Lives(k, 1) /\ ~ (isr + 1 <= k)
          BY <2>1, <4>1, <4>3
        <5>2. arp.ticks[k] \in 1..T /\ arp'.ticks[k] = arp.ticks[k] - 1
          BY <3>3, <4>3, <5>1 DEF Lives
        <5> QED BY <1>a, <4>1, <4>2, <5>1, <5>2 DEF Lives
      <4>4. CASE k # isr
        <5>1. arp'.ticks[k] = arp.ticks[k] /\ (isr <= k <=> isr + 1 <= k)
          BY <2>1, <3>2, <4>1, <4>4
        <5> QED BY <4>1, <4>2, <5>1 DEF Lives
      <4> QED BY <4>3, <4>4
    <3>5. ASSUME cpu.pc \in {"setIP", "setMAC", "count"} PROVE arp'.ticks[cpu.i] \in 0..T
      <4>1. arp.ticks[cpu.i] \in 0..T
        BY <3>5 DEF TableFresh
      <4>2. cpu.i \in Slots
        BY <1>a, <3>5 DEF SlotHeld, TableTrue, Writing, Slots, Context
      <4>3. CASE cpu.i = isr
        BY <1>a, <3>3, <4>1, <4>3
      <4>4. CASE cpu.i # isr
        BY <3>2, <4>1, <4>2, <4>4
      <4> QED BY <4>3, <4>4
    <3>6. \A k \in Slots : Overwritten(k)' <=> Overwritten(k)
      BY <2>1 DEF Overwritten
    <3> QED BY <2>1, <3>1, <3>4, <3>5, <3>6 DEF TableFresh
  <2> QED BY <2>3, <2>4
<1>18. CASE TickEnd
  <2>1. isr # Off /\ isr >= arp.n /\ isr' = Off /\ UNCHANGED <<arp, cpu, age>>
        /\ isr \in 0..MAX_ARP_HELD
    BY <1>18, <1>a DEF TickEnd, TypeOK
  <2>2. \A k \in Slots : k < arp.n => ~ (isr <= k)
    BY <1>a, <2>1 DEF Slots
  <2> QED BY <2>1, <2>2 DEF TableFresh, Overwritten, Lives, AgeOf
<1>19. ASSUME NEW ip \in IPs, NEW mac \in MACs, Move(ip, mac) PROVE TableFresh'
  BY <1>19 DEF Move, TableFresh, Overwritten, Lives, AgeOf
<1>20. CASE LoseARP
  BY <1>20 DEF LoseARP, TableFresh, Overwritten, Lives, AgeOf
<1>21. CASE UNCHANGED vars
  BY <1>21 DEF vars, TableFresh, Overwritten, Lives, AgeOf
<1> QED
  BY <1>1, <1>2, <1>3, <1>4, <1>5, <1>6, <1>7, <1>8, <1>9, <1>10, <1>11, <1>12,
     <1>13, <1>14, <1>15, <1>16, <1>17, <1>18, <1>19, <1>20, <1>21 DEF Next, Main

(***************************************************************************)
(* Every address of the table was heard less than TICKS_TO_HOLD_MAC +      *)
(* MAX_ARP_HELD seconds ago: though refreshMACList passes over the entry   *)
(* behind a dropped one, an entry can profit from that only once for each  *)
(* slot it comes down.  Addresses may move and the interrupt may arrive    *)
(* anywhere, until it drops an entry under an index in use.                *)
(***************************************************************************)
THEOREM AddressesAreFresh == Spec => []AddressIsFresh
<1> DEFINE IInv == IndexInv /\ (~ shuffled => TableTrue /\ TableFresh)
<1>1. Init => IInv
  <2>1. Init => TableFresh
    BY DEF Init, Idle, Slots, TableFresh
  <2> QED BY <2>1, IndexInit, TrueInit
<1>2. IInv /\ [Next]_vars => IInv'
  <2> SUFFICES ASSUME IndexInv, ~ shuffled => TableTrue /\ TableFresh, [Next]_vars
               PROVE  IndexInv' /\ (~ shuffled' => TableTrue' /\ TableFresh')
    OBVIOUS
  <2>1. IndexInv'
    BY IndexNext
  <2>2. ASSUME ~ shuffled' PROVE TableTrue' /\ TableFresh'
    BY <2>1, <2>2, OnceShuffled, TrueNext, FreshNext
  <2> QED BY <2>1, <2>2
<1>3. IInv => AddressIsFresh
  <2> SUFFICES ASSUME IndexInv, TableTrue, TableFresh, isr = Off, cpu.pc \notin {"setIP", "setMAC"},
                      NEW k \in Slots, k < arp.n
               PROVE  AgeOf(k) < Forgotten
    BY DEF AddressIsFresh, AgeOf
  <2>1. Lives(k, 0)
    BY DEF TableFresh, Overwritten
  <2>2. <<arp.ip[k], arp.mac[k]>> \in IPs \X MACs
    BY DEF TableTrue, HalfWritten, IndexInv, TypeOK
  <2>3. AgeOf(k) \in Int
    <3>1. age \in [IPs -> 0..Forgotten] /\ Forgotten \in Nat
      BY TicksAssumption, HeldAssumption DEF IndexInv, TypeOK, Forgotten
    <3> QED BY <2>2, <3>1 DEF AgeOf
  <2> QED BY <2>1, <2>3, HeldAssumption, TicksAssumption DEF Lives, Slots, Forgotten
<1> HIDE DEF IInv
<1> QED
  BY <1>1, <1>2, <1>3, PTL DEF Spec
=============================================================================
