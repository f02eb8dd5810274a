----------------------------- MODULE LinkProofs -----------------------------
(***************************************************************************)
(* Proofs about Link, for every number of frames and every size of the     *)
(* ring: the driver reads no header that is not there, loses no space of   *)
(* the ring, and uses no register while another bank is selected (but for  *)
(* the clock output, in the builds that set it).                           *)
(*                                                                         *)
(* The strengthening (Good) adds how EPKTCNT relates to the frames in the  *)
(* ring (too low after a nested resolveMAC, but never too high), that the  *)
(* registers are in bank 0 while a frame is in progress, and how far the   *)
(* driver's currentBank can be from the chip's bank; InPlace adds where    *)
(* the main loop can be then.                                              *)
(***************************************************************************)
EXTENDS Link, TLAPS

(* The registers when n frames have been received *)
Good(l, n) ==
  /\ l \in Registers
  /\ l.freed + (IF l.inProgress THEN 1 ELSE 0) = l.next
  /\ l.count <= n - l.next + (IF l.inProgress THEN 1 ELSE 0)
  /\ l.next <= n
  /\ n - l.freed <= RingFrames
  /\ l.bank = l.currentBank \/ (l.bank = 0 /\ l.currentBank = 3)
  /\ l.inProgress => l.bank = 0
  /\ l.clocked \/ ~ l.astray

(* The main loop in its states *)
InPlace ==
  /\ wire \in Seq(AllKinds) /\ Len(wire) \in 0..MaxFrames
  /\ pc \in {"clock", "loop", "handler", "listen", "payload", "finish", "hung"}
  /\ cur \in 0..Len(wire)
  /\ pc \in {"loop", "clock"} => ~ link.inProgress /\ cur = 0
  /\ pc \in {"handler", "payload", "finish"} => cur # 0 /\ link.bank = 0

IndInv == InPlace /\ Good(link, Len(wire))

-----------------------------------------------------------------------------
(* The operations on the registers *)

(* An access changes only the history *)
LEMMA AccessFields ==
  ASSUME NEW l \in Registers, NEW b \in 0..3
  PROVE  /\ Access(l, b) \in Registers
         /\ Access(l, b).freed = l.freed /\ Access(l, b).next = l.next
         /\ Access(l, b).this = l.this /\ Access(l, b).count = l.count
         /\ Access(l, b).inProgress = l.inProgress
         /\ Access(l, b).bank = l.bank /\ Access(l, b).currentBank = l.currentBank
         /\ Access(l, b).clocked = l.clocked
         /\ ~ l.astray /\ l.bank = b => ~ Access(l, b).astray
BY DEF Access, Registers

(* Giving a frame back is an update of this shape *)
LEMMA DoneType ==
  ASSUME NEW m \in Registers, NEW f \in 0..MaxFrames, NEW c \in 0..255,
         NEW d, d = [m EXCEPT !.freed = f, !.count = c, !.inProgress = FALSE]
  PROVE  d \in Registers
BY DEF Registers

(* ... and taking the next one of this *)
LEMMA ReadType ==
  ASSUME NEW m \in Registers, NEW f \in 0..MaxFrames,
         NEW d, d = [m EXCEPT !.this = f, !.next = f, !.inProgress = TRUE]
  PROVE  d \in Registers
BY DEF Registers

(* A frame that is given back leaves the registers in order *)
LEMMA DoneGood ==
  ASSUME NEW l, NEW n \in 0..MaxFrames, Good(l, n), l.bank = 0
  PROVE  /\ Good(linkDoneWithPacket(l), n)
         /\ ~ linkDoneWithPacket(l).inProgress
         /\ linkDoneWithPacket(l).next = l.next
         /\ linkDoneWithPacket(l).bank = 0
<1>0. l \in Registers
  BY DEF Good
<1> DEFINE m == Access(l, 0)
           c == IF m.count > 0 THEN m.count - 1 ELSE 0
           d == linkDoneWithPacket(l)
<1>1. /\ m \in Registers /\ m.next = l.next /\ m.count = l.count
      /\ m.bank = l.bank /\ m.currentBank = l.currentBank /\ m.clocked = l.clocked
      /\ ~ l.astray => ~ m.astray
  BY <1>0, AccessFields
<1>2. d = [m EXCEPT !.freed = l.next, !.count = c, !.inProgress = FALSE]
  BY DEF linkDoneWithPacket
<1> HIDE DEF m, d
<1>3. c \in 0..255 /\ c = (IF l.count > 0 THEN l.count - 1 ELSE 0) /\ l.next \in 0..MaxFrames
  BY <1>0, <1>1 DEF Registers
<1> HIDE DEF c
<1>4. /\ d \in Registers /\ d.freed = l.next /\ d.count = c /\ d.inProgress = FALSE
      /\ d.next = l.next /\ d.bank = l.bank /\ d.currentBank = l.currentBank
      /\ d.astray = m.astray /\ d.clocked = m.clocked
  <2>1. m \in Registers /\ c \in 0..255 /\ l.next \in 0..MaxFrames
    BY <1>1, <1>3
  <2>2. d \in Registers
    BY <2>1, <1>2, DoneType
  <2>3. /\ d.freed = l.next /\ d.count = c /\ d.inProgress = FALSE /\ d.next = m.next
        /\ d.bank = m.bank /\ d.currentBank = m.currentBank /\ d.astray = m.astray
        /\ d.clocked = m.clocked
    BY <2>1, <1>2 DEF Registers
  <2> QED
    BY <2>2, <2>3, <1>1
<1>5. Good(d, n)
  <2>1. /\ l.freed \in Int /\ l.next \in Int /\ l.count \in Int /\ n \in Int
        /\ RingFrames \in Int /\ l.inProgress \in BOOLEAN
    BY <1>0, BoundAssumption DEF Registers
  <2>2. /\ l.freed + (IF l.inProgress THEN 1 ELSE 0) = l.next
        /\ l.count <= n - l.next + (IF l.inProgress THEN 1 ELSE 0)
        /\ l.next <= n
        /\ n - l.freed <= RingFrames
        /\ l.bank = l.currentBank \/ (l.bank = 0 /\ l.currentBank = 3)
        /\ l.clocked \/ ~ l.astray
    BY DEF Good
  <2>3. c <= n - l.next /\ n - l.next <= RingFrames /\ l.next + 0 = l.next
    BY <2>1, <2>2, <1>3
  <2>4. n - l.next + 0 = n - l.next
    BY <2>1
  <2> QED
    BY <2>2, <2>3, <2>4, <1>1, <1>4 DEF Good
<1> QED
  BY <1>4, <1>5 DEF d

(* What selecting a bank changes *)
LEMMA BankFields ==
  ASSUME NEW l \in Registers, NEW b \in 0..3
  PROVE  /\ setBank(l, b) \in Registers
         /\ setBank(l, b).freed = l.freed /\ setBank(l, b).next = l.next
         /\ setBank(l, b).count = l.count /\ setBank(l, b).inProgress = l.inProgress
         /\ setBank(l, b).currentBank = b /\ setBank(l, b).astray = l.astray
         /\ setBank(l, b).clocked = l.clocked
         /\ setBank(l, b).bank = (IF l.currentBank # b THEN b ELSE l.bank)
BY DEF setBank, Registers

(* So does selecting bank 0 or 1 and using one of its registers *)
LEMMA BankGood ==
  ASSUME NEW l, NEW n \in 0..MaxFrames, Good(l, n), NEW b \in {0, 1},
         l.inProgress => b = 0
  PROVE  /\ Good(Access(setBank(l, b), b), n)
         /\ Access(setBank(l, b), b).inProgress = l.inProgress
         /\ Access(setBank(l, b), b).next = l.next
         /\ Access(setBank(l, b), b).count = l.count
         /\ Access(setBank(l, b), b).bank = b
<1>0. l \in Registers /\ b \in 0..3
  BY DEF Good
<1> DEFINE m == setBank(l, b)
           a == Access(m, b)
<1>1. /\ m \in Registers /\ m.freed = l.freed /\ m.next = l.next /\ m.count = l.count
      /\ m.inProgress = l.inProgress /\ m.currentBank = b /\ m.astray = l.astray
      /\ m.clocked = l.clocked
      /\ m.bank = (IF l.currentBank # b THEN b ELSE l.bank)
  BY <1>0, BankFields
<1>2. m.bank = b
  BY <1>1 DEF Good
<1> HIDE DEF m
<1>3. /\ a \in Registers /\ a.freed = l.freed /\ a.next = l.next /\ a.count = l.count
      /\ a.inProgress = l.inProgress /\ a.currentBank = b /\ a.bank = b
      /\ a.clocked = l.clocked
      /\ ~ l.astray => ~ a.astray
  BY <1>0, <1>1, <1>2, AccessFields
<1> HIDE DEF a
<1>4. Good(a, n)
  BY <1>0, <1>3 DEF Good
<1> QED
  BY <1>3, <1>4 DEF a, m

(* linkPacketHeader up to its look at EPKTCNT *)
LEMMA PollGood ==
  ASSUME NEW l, NEW n \in 0..MaxFrames, Good(l, n)
  PROVE  /\ Good(Poll(l), n)
         /\ ~ Poll(l).inProgress
         /\ Poll(l).next = l.next
<1> DEFINE d == IF l.inProgress THEN linkDoneWithPacket(l) ELSE l
<1>0. l.inProgress => l.bank = 0
  BY DEF Good
<1>1. Good(d, n) /\ ~ d.inProgress /\ d.next = l.next
  BY <1>0, DoneGood
<1> HIDE DEF d
<1>2. Poll(l) = Access(setBank(d, 1), 1)
  BY DEF Poll, d
<1> QED
  BY <1>1, <1>2, BankGood

(* ... and up to the header of a frame that is there *)
LEMMA ReadGood ==
  ASSUME NEW l, NEW n \in 0..MaxFrames, Good(l, n), ~ l.inProgress, l.count > 0
  PROVE  /\ Good(ReadHeader(l), n)
         /\ ReadHeader(l).this = l.next + 1
         /\ ReadHeader(l).bank = 0
         /\ l.next + 1 <= n
<1> DEFINE m == Access(setBank(l, 0), 0)
           f == l.next + 1
           d == ReadHeader(l)
<1>1. Good(m, n) /\ ~ m.inProgress /\ m.next = l.next /\ m.count = l.count /\ m.bank = 0
  BY BankGood
<1>2. m \in Registers /\ l \in Registers
  BY <1>1 DEF Good
<1>0. /\ l.freed \in Int /\ l.next \in Nat /\ l.count \in Int /\ n \in Int /\ MaxFrames \in Int
      /\ RingFrames \in Int
  BY <1>2, BoundAssumption DEF Registers
<1>7. l.freed = l.next /\ l.count <= n - l.next
  BY <1>0 DEF Good
<1>3. f \in 0..MaxFrames /\ f <= n
  BY <1>0, <1>7
<1>4. d = [m EXCEPT !.this = f, !.next = f, !.inProgress = TRUE]
  BY DEF ReadHeader
<1> HIDE DEF m, f, d
<1>5. /\ d \in Registers /\ d.freed = m.freed /\ d.count = m.count /\ d.inProgress = TRUE
      /\ d.next = f /\ d.this = f
      /\ d.bank = m.bank /\ d.currentBank = m.currentBank /\ d.astray = m.astray
      /\ d.clocked = m.clocked
  <2>1. d \in Registers
    BY <1>2, <1>3, <1>4, ReadType
  <2>2. /\ d.freed = m.freed /\ d.count = m.count /\ d.inProgress = TRUE
        /\ d.next = f /\ d.this = f
        /\ d.bank = m.bank /\ d.currentBank = m.currentBank /\ d.astray = m.astray
        /\ d.clocked = m.clocked
    BY <1>2, <1>4 DEF Registers
  <2> QED
    BY <2>1, <2>2
<1>6. Good(d, n)
  <2>1. /\ m.freed = l.next /\ m.count <= n - l.next /\ n - m.freed <= RingFrames
        /\ m.bank = m.currentBank \/ (m.bank = 0 /\ m.currentBank = 3)
        /\ m.clocked \/ ~ m.astray
    <3>1. m.freed \in Int /\ m.next \in Int /\ m.count \in Int
      BY <1>2 DEF Registers
    <3> QED
      BY <3>1, <1>0, <1>1 DEF Good
  <2>2. m.freed + 1 = f /\ m.count <= n - f + 1
    BY <2>1, <1>0 DEF f
  <2> QED
    BY <2>1, <2>2, <1>1, <1>3, <1>5 DEF Good
<1> QED
  BY <1>1, <1>3, <1>5, <1>6 DEF d, f

(* A frame that is taken, and one that is taken and given back at once *)
LEMMA TakeGood ==
  ASSUME NEW l, NEW n \in 0..MaxFrames, Good(l, n), Poll(l).count > 0
  PROVE  /\ Good(ReadHeader(Poll(l)), n)
         /\ ReadHeader(Poll(l)).bank = 0
         /\ ReadHeader(Poll(l)).this \in 1..n
         /\ Good(linkDoneWithPacket(ReadHeader(Poll(l))), n)
         /\ ~ linkDoneWithPacket(ReadHeader(Poll(l))).inProgress
         /\ linkDoneWithPacket(ReadHeader(Poll(l))).bank = 0
<1>1. Good(Poll(l), n) /\ ~ Poll(l).inProgress
  BY PollGood
<1>2. Poll(l).next \in Nat /\ n \in Nat
  BY <1>1, BoundAssumption DEF Good, Registers
<1>3. /\ Good(ReadHeader(Poll(l)), n) /\ ReadHeader(Poll(l)).bank = 0
      /\ ReadHeader(Poll(l)).this = Poll(l).next + 1 /\ Poll(l).next + 1 <= n
  BY <1>1, ReadGood
<1> QED
  BY <1>2, <1>3, DoneGood

(* A frame that is sent *)
LEMMA SendGood ==
  ASSUME NEW l, NEW n \in 0..MaxFrames, Good(l, n)
  PROVE  /\ Good(linkPacketSend(l), n)
         /\ linkPacketSend(l).inProgress = l.inProgress
         /\ linkPacketSend(l).bank = 0
BY BankGood DEF linkPacketSend

(* A frame that the chip stores in the room there is *)
LEMMA ReceiveGood ==
  ASSUME NEW l, NEW n \in 0..MaxFrames, Good(l, n), n - l.freed < RingFrames,
         NEW k, k = [l EXCEPT !.count = l.count + 1], NEW m, m = n + 1
  PROVE  /\ Good(k, m)
         /\ k.inProgress = l.inProgress /\ k.bank = l.bank
<1>0. l \in Registers
  BY DEF Good
<1>1. /\ l.count \in 0..255 /\ l.freed \in 0..MaxFrames /\ l.next \in 0..MaxFrames
      /\ l.inProgress \in BOOLEAN /\ n \in Int /\ RingFrames \in Int /\ RingFrames < 255
      /\ MaxFrames \in Int
  BY <1>0, BoundAssumption DEF Registers
<1>2. /\ l.freed + (IF l.inProgress THEN 1 ELSE 0) = l.next
      /\ l.count <= n - l.next + (IF l.inProgress THEN 1 ELSE 0)
      /\ l.next <= n
      /\ l.bank = l.currentBank \/ (l.bank = 0 /\ l.currentBank = 3)
      /\ l.inProgress => l.bank = 0
      /\ l.clocked \/ ~ l.astray
  BY DEF Good
<1>3. /\ l.count + 1 \in 0..255 /\ n + 1 - l.freed <= RingFrames /\ l.next <= n + 1
      /\ l.count + 1 <= n + 1 - l.next + (IF l.inProgress THEN 1 ELSE 0)
  <2>1. l.count <= n - l.freed
    BY <1>1, <1>2
  <2>2. l.count + 1 \in 0..255
    BY <1>1, <2>1
  <2> QED
    BY <1>1, <1>2, <2>2
<1>4. /\ k \in Registers /\ k.count = l.count + 1 /\ k.freed = l.freed /\ k.next = l.next
      /\ k.inProgress = l.inProgress /\ k.bank = l.bank
      /\ k.currentBank = l.currentBank /\ k.astray = l.astray
      /\ k.clocked = l.clocked
  BY <1>0, <1>3 DEF Registers
<1>5. /\ k.freed + (IF k.inProgress THEN 1 ELSE 0) = k.next
      /\ k.count <= m - k.next + (IF k.inProgress THEN 1 ELSE 0)
      /\ k.next <= m
      /\ m - k.freed <= RingFrames
  BY <1>1, <1>2, <1>3, <1>4
<1>6. /\ k.bank = k.currentBank \/ (k.bank = 0 /\ k.currentBank = 3)
      /\ k.inProgress => k.bank = 0
      /\ k.clocked \/ ~ k.astray
  BY <1>2, <1>4
<1>7. Good(k, m)
  BY ONLY <1>4, <1>5, <1>6 DEF Good
<1> QED
  BY <1>4, <1>7

(* The history of nested requests is no register *)
LEMMA NestedGood ==
  ASSUME NEW l, NEW n \in 0..MaxFrames, Good(l, n), NEW b \in BOOLEAN,
         NEW k, k = [l EXCEPT !.nested = b]
  PROVE  Good(k, n) /\ k.bank = l.bank /\ k.inProgress = l.inProgress
<1>1. l \in Registers
  BY DEF Good
<1>2. /\ k \in Registers /\ k.count = l.count /\ k.freed = l.freed /\ k.next = l.next
      /\ k.inProgress = l.inProgress /\ k.bank = l.bank /\ k.clocked = l.clocked
      /\ k.currentBank = l.currentBank /\ k.astray = l.astray
  BY <1>1 DEF Registers
<1> QED
  BY <1>2 DEF Good

-----------------------------------------------------------------------------
LEMMA IndInit == Init => IndInv
<1> SUFFICES ASSUME Init PROVE IndInv
  OBVIOUS
<1>1. Len(wire) = 0 /\ wire \in Seq(AllKinds)
  BY DEF Init
<1>2. /\ link \in Registers /\ link.freed = 0 /\ link.next = 0 /\ link.count = 0
      /\ ~ link.inProgress /\ link.bank = 0 /\ link.currentBank = 3 /\ ~ link.astray
  BY BoundAssumption DEF Init, AfterInitialise, Registers
<1>3. Good(link, 0)
  BY <1>2, BoundAssumption DEF Good
<1>4. InPlace
  BY <1>1, <1>2, BoundAssumption DEF Init, InPlace
<1> QED
  BY <1>1, <1>3, <1>4 DEF IndInv

LEMMA IndNext == IndInv /\ [Next]_vars => IndInv'
<1> SUFFICES ASSUME IndInv, [Next]_vars PROVE IndInv'
  OBVIOUS
<1> DEFINE n == Len(wire)
<1>a. /\ n \in 0..MaxFrames /\ Good(link, n) /\ InPlace
  BY DEF IndInv, InPlace
<1>p. Good(Poll(link), n) /\ ~ Poll(link).inProgress
  BY <1>a, PollGood
<1>s. Good(linkPacketSend(link), n) /\ linkPacketSend(link).bank = 0
      /\ linkPacketSend(link).inProgress = link.inProgress
  BY <1>a, SendGood
<1> DEFINE h == ReadHeader(Poll(link))
           d == linkDoneWithPacket(h)
<1>t. ASSUME Pending
      PROVE  /\ Good(h, n) /\ h.bank = 0 /\ h.this \in 1..n
             /\ Good(d, n) /\ ~ d.inProgress /\ d.bank = 0
             /\ Good(linkPacketSend(d), n) /\ linkPacketSend(d).bank = 0
             /\ ~ linkPacketSend(d).inProgress
  BY <1>a, <1>t, TakeGood, SendGood DEF Pending
<1> HIDE DEF h, d
<1>1. ASSUME NEW kind \in Kinds, Receive(kind) PROVE IndInv'
  <2>1. /\ wire' \in Seq(AllKinds) /\ Len(wire') = n + 1
    BY <1>1, <1>a, KindsAssumption DEF Receive, InPlace
  <2>2. n + 1 \in 0..MaxFrames
    BY <1>1, <1>a, BoundAssumption DEF Receive
  <2>3. /\ link' = [link EXCEPT !.count = link.count + 1]
        /\ n - link.freed < RingFrames
    BY <1>1 DEF Receive
  <2>7. /\ Good(link', n + 1)
        /\ link'.inProgress = link.inProgress /\ link'.bank = link.bank
    BY <1>a, <2>3, ReceiveGood
  <2>8. InPlace'
    BY <1>1, <1>a, <2>1, <2>2, <2>7 DEF Receive, InPlace
  <2> QED
    BY <2>1, <2>7, <2>8 DEF IndInv
<1>2. CASE setClockoutScale
  <2> DEFINE m == setBank(link, 3)
  <2>0. link \in Registers /\ ~ link.inProgress
    BY <1>2, <1>a DEF setClockoutScale, InPlace, Good
  <2>1. /\ m \in Registers /\ m.freed = link.freed /\ m.next = link.next
        /\ m.count = link.count /\ m.inProgress = link.inProgress /\ m.currentBank = 3
        /\ m.bank = (IF link.currentBank # 3 THEN 3 ELSE link.bank)
    BY <2>0, BankFields
  <2> HIDE DEF m
  <2>2. link' = [Access(m, 3) EXCEPT !.clocked = TRUE]
    BY <1>2 DEF setClockoutScale, m
  <2>5. /\ Access(m, 3) \in Registers /\ Access(m, 3).freed = link.freed
        /\ Access(m, 3).next = link.next /\ Access(m, 3).count = link.count
        /\ Access(m, 3).inProgress = link.inProgress /\ Access(m, 3).currentBank = 3
        /\ Access(m, 3).bank = (IF link.currentBank # 3 THEN 3 ELSE link.bank)
    BY <2>1, AccessFields
  <2>3. /\ link' \in Registers /\ link'.freed = link.freed /\ link'.next = link.next
        /\ link'.count = link.count /\ link'.inProgress = link.inProgress
        /\ link'.currentBank = 3
        /\ link'.bank = (IF link.currentBank # 3 THEN 3 ELSE link.bank)
        /\ link'.clocked
    BY <2>2, <2>5 DEF Registers
  <2>4. Good(link', n)
    BY <1>a, <2>0, <2>3 DEF Good
  <2> QED
    BY <1>2, <1>a, <2>0, <2>3, <2>4 DEF setClockoutScale, IndInv, InPlace
<1>3. CASE HandleNothing
  BY <1>3, <1>a, <1>p DEF HandleNothing, IndInv, InPlace
<1>4. CASE HandleUnwanted
  <2>1. link' = d /\ Pending
    BY <1>4 DEF HandleUnwanted, d, h
  <2> QED
    BY <1>4, <1>a, <1>t, <2>1 DEF HandleUnwanted, IndInv, InPlace
<1>5. CASE HandleWanted
  <2>1. link' = h /\ cur' = h.this /\ Pending
    BY <1>5 DEF HandleWanted, h
  <2> QED
    BY <1>5, <1>a, <1>t, <2>1 DEF HandleWanted, IndInv, InPlace
<1>6. CASE HangOnChecksum
  <2>1. link' = h /\ Pending
    BY <1>6 DEF HangOnChecksum, h
  <2> QED
    BY <1>6, <1>a, <1>t, <2>1 DEF HangOnChecksum, IndInv, InPlace
<1>7. CASE HandlerQuiet
  BY <1>7, <1>a DEF HandlerQuiet, IndInv, InPlace
<1>8. CASE HandlerSends
  BY <1>8, <1>a, <1>s DEF HandlerSends, IndInv, InPlace
<1>9. CASE AskMAC
  <2> DEFINE m == linkPacketSend(link)
  <2>1. m \in Registers
    BY <1>s DEF Good
  <2>2. \E b \in BOOLEAN : link' = [m EXCEPT !.nested = b]
    BY <1>9, <2>1 DEF AskMAC, Registers
  <2>3. Good(link', n) /\ link'.bank = 0 /\ link'.inProgress = link.inProgress
    BY <1>a, <1>s, <2>2, NestedGood
  <2> QED
    BY <1>9, <1>a, <2>3 DEF AskMAC, IndInv, InPlace
<1>10. CASE ListenNothing
  BY <1>10, <1>a, <1>p DEF ListenNothing, IndInv, InPlace
<1>11. CASE ListenOther
  <2>1. Pending /\ (link' = d \/ link' = linkPacketSend(d) \/ link' = h)
    BY <1>11 DEF ListenOther, d, h
  <2> QED
    BY <1>11, <1>a, <1>t, <2>1 DEF ListenOther, IndInv, InPlace
<1>12. CASE ListenReply
  <2>1. link' = linkPacketSend(d) /\ Pending
    BY <1>12 DEF ListenReply, d, h
  <2> QED
    BY <1>12, <1>a, <1>t, <2>1 DEF ListenReply, IndInv, InPlace
<1>13. CASE ReadPayload
  <2>1. link' = linkPacketSend(link)
    BY <1>13 DEF ReadPayload, linkPacketSend
  <2> QED
    BY <1>13, <1>a, <1>s, <2>1 DEF ReadPayload, IndInv, InPlace
<1>14. CASE HandlerDone
  <2>1. Good(linkDoneWithPacket(link), n) /\ ~ linkDoneWithPacket(link).inProgress
    BY <1>14, <1>a, DoneGood DEF HandlerDone, InPlace
  <2> QED
    BY <1>14, <1>a, <2>1 DEF HandlerDone, IndInv, InPlace
<1>15. CASE UNCHANGED vars
  BY <1>15, <1>a DEF vars, IndInv, InPlace, Good
<1> QED
  BY <1>1, <1>2, <1>3, <1>4, <1>5, <1>6, <1>7, <1>8, <1>9, <1>10, <1>11, <1>12,
     <1>13, <1>14, <1>15 DEF Next, Loop

-----------------------------------------------------------------------------
(***************************************************************************)
(* For every ring and every mix of frames: the registers keep their types  *)
(* and linkPacketHeader never takes up a frame that is not there.          *)
(***************************************************************************)
THEOREM RingSound == Spec => [](TypeOK /\ NoPhantomFrame)
<1>1. IndInv => TypeOK
  BY BoundAssumption DEF IndInv, InPlace, Good, TypeOK
<1>2. IndInv => NoPhantomFrame
  <2> SUFFICES ASSUME IndInv, Pending PROVE link.next < Len(wire)
    BY DEF NoPhantomFrame
  <2>1. Len(wire) \in 0..MaxFrames /\ Good(link, Len(wire))
    BY DEF IndInv, InPlace
  <2>2. /\ Good(Poll(link), Len(wire)) /\ ~ Poll(link).inProgress
        /\ Poll(link).next = link.next
    BY <2>1, PollGood
  <2>3. Poll(link).next + 1 <= Len(wire)
    BY <2>1, <2>2, ReadGood DEF Pending
  <2> QED
    BY <2>1, <2>2, <2>3, BoundAssumption DEF Good, Registers
<1> QED
  BY <1>1, <1>2, IndInit, IndNext, PTL DEF Spec

(***************************************************************************)
(* Only the frame in progress still takes space in the ring, and between   *)
(* two packets none does, however resolveMAC nests in handlePacket.        *)
(***************************************************************************)
THEOREM SpaceIsReturned == Spec => []SpaceReturned
<1>1. IndInv => SpaceReturned
  BY DEF IndInv, InPlace, Good, SpaceReturned
<1> QED
  BY <1>1, IndInit, IndNext, PTL DEF Spec

(***************************************************************************)
(* No register is ever accessed while another bank is selected, but by     *)
(* setClockoutScale right after linkInitialise.                            *)
(***************************************************************************)
THEOREM BankIsRight == Spec => []RightBank
<1>1. IndInv => RightBank
  BY DEF IndInv, Good, RightBank
<1> QED
  BY <1>1, IndInit, IndNext, PTL DEF Spec
-----------------------------------------------------------------------------
(***************************************************************************)
(* As long as no handler had to ask for a MAC, EPKTCNT is exact at every   *)
(* step, and a handler still holds the frame it was called for.            *)
(***************************************************************************)
Exact(l, n) == l.count = n - l.next + (IF l.inProgress THEN 1 ELSE 0)

Undisturbed ==
  ~ link.nested =>
    /\ Exact(link, Len(wire))
    /\ pc = "listen" => cur = 0
    /\ pc \in {"handler", "payload", "finish"} =>
         link.inProgress /\ link.next = cur /\ link.this = cur

(* What each operation leaves of the history, of ptrThisPacket and of EPKTCNT *)
LEMMA DoneExact ==
  ASSUME NEW l \in Registers, NEW n \in 0..MaxFrames
  PROVE  LET d == linkDoneWithPacket(l)
         IN  /\ d.this = l.this /\ d.nested = l.nested /\ d.inProgress = FALSE
             /\ d.next = l.next
             /\ l.inProgress /\ Exact(l, n) /\ l.next <= n => Exact(d, n)
<1> DEFINE m == Access(l, 0)
           d == linkDoneWithPacket(l)
<1>1. m \in Registers /\ m.this = l.this /\ m.nested = l.nested /\ m.next = l.next
      /\ m.count = l.count
  BY DEF Access, Registers
<1>2. d = [m EXCEPT !.freed = l.next, !.count = IF @ > 0 THEN @ - 1 ELSE 0,
                    !.inProgress = FALSE]
  BY DEF linkDoneWithPacket
<1> HIDE DEF m, d
<1>3. /\ d.this = l.this /\ d.nested = l.nested /\ d.inProgress = FALSE
      /\ d.next = l.next /\ d.count = IF l.count > 0 THEN l.count - 1 ELSE 0
  BY <1>1, <1>2 DEF Registers
<1>4. ASSUME l.inProgress, Exact(l, n), l.next <= n PROVE Exact(d, n)
  <2>1. l.count = n - l.next + 1 /\ l.next \in Int /\ n \in Int
    BY <1>4 DEF Exact, Registers
  <2>2. l.count > 0
    BY <1>4, <2>1
  <2>3. d.count = n - l.next
    BY <1>3, <2>1, <2>2
  <2>4. n - l.next + 0 = n - l.next
    BY <2>1
  <2> QED
    BY <1>3, <2>3, <2>4 DEF Exact
<1> QED
  BY <1>3, <1>4 DEF d

LEMMA SelectExact ==
  ASSUME NEW l \in Registers, NEW n \in 0..MaxFrames, NEW b \in 0..3
  PROVE  LET a == Access(setBank(l, b), b)
         IN  /\ a \in Registers
             /\ a.this = l.this /\ a.nested = l.nested /\ a.inProgress = l.inProgress
             /\ a.next = l.next
             /\ Exact(l, n) => Exact(a, n)
<1> DEFINE m == setBank(l, b)
<1>1. m \in Registers /\ m.this = l.this /\ m.nested = l.nested /\ m.next = l.next
      /\ m.count = l.count /\ m.inProgress = l.inProgress
  BY DEF setBank, Registers
<1> HIDE DEF m
<1>2. /\ Access(m, b) \in Registers
      /\ Access(m, b).this = l.this /\ Access(m, b).nested = l.nested
      /\ Access(m, b).next = l.next /\ Access(m, b).count = l.count
      /\ Access(m, b).inProgress = l.inProgress
  BY <1>1 DEF Access, Registers
<1> QED
  BY <1>2 DEF m, Exact

LEMMA PollExact ==
  ASSUME NEW l, NEW n \in 0..MaxFrames, Good(l, n)
  PROVE  /\ Poll(l) \in Registers
         /\ Poll(l).nested = l.nested /\ Poll(l).next = l.next /\ Poll(l).inProgress = FALSE
         /\ Exact(l, n) => Exact(Poll(l), n)
<1> DEFINE d == IF l.inProgress THEN linkDoneWithPacket(l) ELSE l
<1>1. l \in Registers /\ l.next <= n
  BY DEF Good
<1>2. Good(d, n)
  BY DoneGood DEF Good
<1>3. d \in Registers /\ d.nested = l.nested /\ d.next = l.next /\ d.inProgress = FALSE
      /\ (Exact(l, n) => Exact(d, n))
  BY <1>1, <1>2, DoneExact DEF Good, Registers
<1> HIDE DEF d
<1>4. Poll(l) = Access(setBank(d, 1), 1)
  BY DEF Poll, d
<1> QED
  BY <1>3, <1>4, SelectExact

LEMMA ReadExact ==
  ASSUME NEW l \in Registers, NEW n \in 0..MaxFrames, l.inProgress = FALSE
  PROVE  /\ ReadHeader(l).nested = l.nested
         /\ ReadHeader(l).this = l.next + 1 /\ ReadHeader(l).next = l.next + 1
         /\ ReadHeader(l).inProgress = TRUE
         /\ Exact(l, n) => Exact(ReadHeader(l), n)
<1> DEFINE m == Access(setBank(l, 0), 0)
           h == ReadHeader(l)
<1>1. m \in Registers /\ m.nested = l.nested /\ m.next = l.next /\ m.inProgress = FALSE
      /\ (Exact(l, n) => Exact(m, n))
  BY SelectExact
<1>2. h = [m EXCEPT !.this = l.next + 1, !.next = l.next + 1, !.inProgress = TRUE]
  BY DEF ReadHeader
<1> HIDE DEF m, h
<1>3. /\ h.nested = l.nested /\ h.this = l.next + 1 /\ h.next = l.next + 1
      /\ h.inProgress = TRUE /\ h.count = m.count
  BY <1>1, <1>2 DEF Registers
<1>4. ASSUME Exact(l, n) PROVE Exact(h, n)
  <2>1. m.count = n - l.next + 0 /\ l.next \in Int
    BY <1>1, <1>4 DEF Exact, Registers
  <2>2. m.count = n - (l.next + 1) + 1
    BY <2>1
  <2> QED
    BY <1>3, <2>2 DEF Exact
<1> QED
  BY <1>3, <1>4 DEF h

LEMMA UndisturbedNext == IndInv /\ Undisturbed /\ [Next]_vars => Undisturbed'
<1> SUFFICES ASSUME IndInv, Undisturbed, [Next]_vars PROVE Undisturbed'
  OBVIOUS
<1> DEFINE n == Len(wire)
<1>a. n \in 0..MaxFrames /\ Good(link, n) /\ InPlace /\ link \in Registers /\ link.next <= n
  BY DEF IndInv, InPlace, Good
<1> DEFINE p == Poll(link)
           h == ReadHeader(p)
           d == linkDoneWithPacket(h)
           s == linkPacketSend(link)
<1>p. /\ Good(p, n) /\ p \in Registers /\ p.inProgress = FALSE
      /\ p.nested = link.nested /\ p.next = link.next
      /\ (Exact(link, n) => Exact(p, n))
  BY <1>a, PollGood, PollExact
<1>s. /\ s \in Registers /\ s.nested = link.nested /\ s.this = link.this
      /\ s.next = link.next /\ s.inProgress = link.inProgress
      /\ (Exact(link, n) => Exact(s, n))
  BY <1>a, SelectExact DEF linkPacketSend
<1>h. ASSUME Pending
      PROVE  /\ h \in Registers /\ h.next <= n /\ h.nested = link.nested
             /\ h.inProgress = TRUE /\ h.this = h.next
             /\ (Exact(link, n) => Exact(h, n))
             /\ d \in Registers /\ d.nested = link.nested /\ d.inProgress = FALSE
             /\ (Exact(link, n) => Exact(d, n))
             /\ linkPacketSend(d).nested = link.nested
             /\ (Exact(link, n) => Exact(linkPacketSend(d), n))
  <2>1. Good(h, n) /\ Good(d, n)
    BY <1>a, <1>h, TakeGood DEF Pending
  <2>2. h \in Registers /\ h.next <= n /\ d \in Registers
    BY <2>1 DEF Good
  <2>3. /\ h.nested = link.nested /\ h.inProgress = TRUE /\ h.this = h.next
        /\ (Exact(link, n) => Exact(h, n))
    BY <1>a, <1>p, ReadExact
  <2> HIDE DEF h
  <2>4. d.nested = link.nested /\ d.inProgress = FALSE /\ (Exact(link, n) => Exact(d, n))
    BY <1>a, <2>2, <2>3, DoneExact
  <2> HIDE DEF d
  <2> QED
    BY <1>a, <2>2, <2>3, <2>4, SelectExact DEF linkPacketSend
<1> HIDE DEF p, h, d, s
<1>1. ASSUME NEW kind \in Kinds, Receive(kind) PROVE Undisturbed'
  <2>1. Len(wire') = n + 1
    BY <1>1, <1>a, KindsAssumption DEF Receive, InPlace
  <2>2. /\ link'.count = link.count + 1 /\ link'.next = link.next /\ link'.this = link.this
        /\ link'.inProgress = link.inProgress /\ link'.nested = link.nested
    BY <1>1, <1>a DEF Receive, Registers
  <2>3. Exact(link, n) => Exact(link', n + 1)
    BY <1>a, <2>2 DEF Exact, Registers
  <2> QED
    BY <1>1, <2>1, <2>2, <2>3 DEF Receive, Undisturbed
<1>2. CASE setClockoutScale
  <2> DEFINE m == Access(setBank(link, 3), 3)
  <2>1. /\ m \in Registers /\ m.nested = link.nested /\ m.inProgress = link.inProgress
        /\ m.next = link.next /\ (Exact(link, n) => Exact(m, n))
    BY <1>a, SelectExact
  <2>2. link' = [m EXCEPT !.clocked = TRUE]
    BY <1>2 DEF setClockoutScale
  <2> HIDE DEF m
  <2>3. link'.nested = link.nested /\ (Exact(link, n) => Exact(link', n))
    BY <2>1, <2>2 DEF Exact, Registers
  <2> QED
    BY <1>2, <2>3 DEF setClockoutScale, Undisturbed
<1>3. CASE HandleNothing
  BY <1>3, <1>p DEF HandleNothing, Undisturbed, p
<1>4. CASE HandleUnwanted
  <2>1. link' = d /\ Pending
    BY <1>4 DEF HandleUnwanted, d, h, p
  <2> QED
    BY <1>4, <1>h, <2>1 DEF HandleUnwanted, Undisturbed
<1>5. CASE HandleWanted
  <2>1. link' = h /\ cur' = h.this /\ Pending
    BY <1>5 DEF HandleWanted, h, p
  <2> QED
    BY <1>5, <1>h, <2>1 DEF HandleWanted, Undisturbed
<1>6. CASE HangOnChecksum
  <2>1. link' = h /\ Pending
    BY <1>6 DEF HangOnChecksum, h, p
  <2> QED
    BY <1>6, <1>h, <2>1 DEF HangOnChecksum, Undisturbed
<1>7. CASE HandlerQuiet
  BY <1>7 DEF HandlerQuiet, Undisturbed
<1>8. CASE HandlerSends
  BY <1>8, <1>s DEF HandlerSends, Undisturbed, s
<1>9. CASE AskMAC
  <2>1. link' = [s EXCEPT !.nested = @ \/ pc = "handler"] /\ pc \in {"loop", "handler"}
    BY <1>9 DEF AskMAC, s
  <2>2. /\ ~ link'.nested => ~ link.nested /\ pc = "loop"
        /\ Exact(link, n) => Exact(link', n)
    BY <1>s, <2>1 DEF Exact, Registers
  <2>3. pc = "loop" => cur = 0
    BY <1>a DEF InPlace
  <2> QED
    BY <1>9, <2>2, <2>3 DEF AskMAC, Undisturbed
<1>10. CASE ListenNothing
  BY <1>10, <1>p DEF ListenNothing, Undisturbed, p
<1>11. CASE ListenOther
  <2>1. Pending /\ (link' = d \/ link' = linkPacketSend(d) \/ link' = h)
    BY <1>11 DEF ListenOther, d, h, p
  <2> QED
    BY <1>11, <1>h, <2>1 DEF ListenOther, Undisturbed
<1>12. CASE ListenReply
  <2>1. link' = linkPacketSend(d) /\ Pending
    BY <1>12 DEF ListenReply, d, h, p
  <2> QED
    BY <1>12, <1>h, <2>1 DEF ListenReply, Undisturbed
<1>13. CASE ReadPayload
  <2>1. link' = s
    BY <1>13 DEF ReadPayload, linkPacketSend, s
  <2> QED
    BY <1>13, <1>s, <2>1 DEF ReadPayload, Undisturbed
<1>14. CASE HandlerDone
  BY <1>14, <1>a, DoneExact DEF HandlerDone, Undisturbed
<1>15. CASE UNCHANGED vars
  BY <1>15 DEF vars, Undisturbed
<1> QED
  BY <1>1, <1>2, <1>3, <1>4, <1>5, <1>6, <1>7, <1>8, <1>9, <1>10, <1>11, <1>12,
     <1>13, <1>14, <1>15 DEF Next, Loop

LEMMA UndisturbedInit == Init => Undisturbed
BY DEF Init, AfterInitialise, Undisturbed, Exact

(***************************************************************************)
(* Between two packets EPKTCNT is the number of frames not yet read, for   *)
(* every ring and every mix of frames, unless a handler had to ask for a   *)
(* MAC: however often resolveMAC was called by the main loop itself.       *)
(***************************************************************************)
THEOREM CountExact == Spec => []CountIsExact
<1>1. IndInv /\ Undisturbed => CountIsExact
  <2> SUFFICES ASSUME IndInv, Undisturbed, pc = "loop", ~ link.nested
               PROVE  link.count = Len(wire) - link.next
    BY DEF CountIsExact
  <2>1. link.inProgress = FALSE /\ link.next \in Int /\ Len(wire) \in Int
    BY DEF IndInv, InPlace, Good, Registers
  <2> QED
    BY <2>1 DEF Undisturbed, Exact
<1> QED
  BY <1>1, IndInit, IndNext, UndisturbedInit, UndisturbedNext, PTL DEF Spec

(***************************************************************************)
(* The payload that sendHTML reads from the chip is that of the frame it   *)
(* was called for, which has not been given back, unless a handler had to  *)
(* ask for a MAC.                                                          *)
(***************************************************************************)
THEOREM PayloadCurrent == Spec => []PayloadIsCurrent
<1>1. IndInv /\ Undisturbed => PayloadIsCurrent
  <2> SUFFICES ASSUME IndInv, Undisturbed, pc = "payload", ~ link.nested
               PROVE  link.this = cur /\ link.freed < cur
    BY DEF PayloadIsCurrent, PayloadAlwaysCurrent
  <2>1. link.inProgress /\ link.next = cur /\ link.this = cur
    BY DEF Undisturbed
  <2>2. link.freed + 1 = link.next /\ link.freed \in Int
    BY <2>1 DEF IndInv, Good, Registers
  <2> QED
    BY <2>1, <2>2
<1> QED
  BY <1>1, IndInit, IndNext, UndisturbedInit, UndisturbedNext, PTL DEF Spec
=============================================================================
