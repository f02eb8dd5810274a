-------------------------------- MODULE Link --------------------------------
(***************************************************************************)
(* The receive side of the ENC28J60 driver (linkENC28J60.c) under the main *)
(* loop: handlePacket() reads one frame with linkPacketHeader(), and what  *)
(* it does about it may need a MAC address, for which resolveMAC() reads   *)
(* further frames with linkPacketHeader() while the first is still in      *)
(* progress.                                                               *)
(*                                                                         *)
(* Frames are numbered in the order in which the chip received them; the   *)
(* chip's pointers are frame numbers, and its ring holds RingFrames of     *)
(* them.  A frame is reduced to what linkPacketHeader and handlePacket     *)
(* make of it (Kinds).  The chip itself is external: it stores a frame     *)
(* when there is room and counts it in EPKTCNT, which PKTDEC decrements    *)
(* (and is taken to leave at zero).                                        *)
(***************************************************************************)
EXTENDS Integers, Sequences

CONSTANTS
  Kinds,       \* the kinds of frames on the wire, a subset of AllKinds
  RingFrames,  \* capacity of the receive ring
  MaxFrames,   \* bound: frames received
  MayNotKnow   \* may the MAC of a next hop be unknown?

(***************************************************************************)
(* link     linkPacketHeader is all it needs: a dud, an unknown Ethernet   *)
(*          type, a ping                                                   *)
(* arp      likewise, but resolveMAC looks at what is left in the buffer   *)
(* reply    the ARP reply that resolveMAC waits for                        *)
(* unwanted handlePacket turns it down: the wrong MAC, IP, IP checksum,    *)
(*          protocol                                                       *)
(* served   a UDP or TCP message that a handler reads before it sends      *)
(* post     a TCP message whose payload sendHTML reads from the chip, after*)
(*          handleTCP has acknowledged it                                  *)
(* bad      its UDP or TCP checksum is wrong, or unset                     *)
(***************************************************************************)
AllKinds == {"link", "arp", "reply", "unwanted", "served", "post", "bad"}

ASSUME KindsAssumption == Kinds \subseteq AllKinds
ASSUME BoundAssumption == RingFrames \in Nat \ {0} /\ MaxFrames \in Nat /\ RingFrames < 255

VARIABLES
  wire,  \* the frames the chip has received, by kind
  link,  \* the chip's registers and the driver's static variables
  pc,    \* where the main loop is
  cur    \* the frame that a handler is busy with, 0 if none

vars == <<wire, link, pc, cur>>

(***************************************************************************)
(* freed      ERXRDPT: the frames whose space has been given back          *)
(* next, this ptrNextPacket and ptrThisPacket                              *)
(* count      EPKTCNT                                                      *)
(* bank       the chip's register bank; currentBank is the driver's idea   *)
(* astray     history: a banked register was accessed in another bank      *)
(* clocked    history: setClockoutScale was called                         *)
(* nested     history: a handler had to ask for a MAC                      *)
(***************************************************************************)
Registers == [freed : 0..MaxFrames, next : 0..MaxFrames, this : 0..MaxFrames,
              count : 0..255, inProgress : BOOLEAN,
              bank : 0..3, currentBank : 0..3, astray : BOOLEAN,
              clocked : BOOLEAN, nested : BOOLEAN]

(***************************************************************************)
(* As linkInitialise leaves it: its last access to the PHY selected bank   *)
(* 3, and starting reception by writing ECON1 selected bank 0.             *)
(***************************************************************************)
AfterInitialise ==
  [freed |-> 0, next |-> 0, this |-> 0, count |-> 0, inProgress |-> FALSE,
   bank |-> 0, currentBank |-> 3, astray |-> FALSE, clocked |-> FALSE, nested |-> FALSE]

(* Some builds set the chip's clock output before they enter the loop *)
Init ==
  /\ wire = <<>>
  /\ link = AfterInitialise
  /\ pc \in {"clock", "loop"}
  /\ cur = 0

setBank(l, b) ==
  IF l.currentBank # b THEN [l EXCEPT !.bank = b, !.currentBank = b] ELSE l

(* An access to a register of bank b *)
Access(l, b) == [l EXCEPT !.astray = @ \/ l.bank # b]

linkDoneTwice(l) ==                                      \* mutant: PKTDEC repeated
  [Access(l, 0) EXCEPT !.freed = l.next, !.inProgress = FALSE,
                       !.count = IF @ > 1 THEN @ - 2 ELSE 0]
linkDoneUncounted(l) ==                                  \* mutant: no PKTDEC
  [Access(l, 0) EXCEPT !.freed = l.next, !.inProgress = FALSE]
linkDoneKept(l) ==                                       \* mutant: ERXRDPT not written
  [l EXCEPT !.count = IF @ > 0 THEN @ - 1 ELSE 0, !.inProgress = FALSE]
linkDoneWithPacket(l) ==
  [Access(l, 0) EXCEPT !.freed = l.next,
                       !.count = IF @ > 0 THEN @ - 1 ELSE 0,
                       !.inProgress = FALSE]

(* linkPacketHeader up to its look at EPKTCNT *)
Poll(l) ==
  Access(setBank(IF l.inProgress THEN linkDoneWithPacket(l) ELSE l, 1), 1)

(* ... and, when there is a frame, up to its header *)
ReadHeaderInBank1(l) ==                                  \* mutant: no setBank(0)
  [Access(l, 0) EXCEPT !.this = l.next + 1, !.next = l.next + 1, !.inProgress = TRUE]
ReadHeader(l) ==
  [Access(setBank(l, 0), 0) EXCEPT !.this = l.next + 1, !.next = l.next + 1,
                                   !.inProgress = TRUE]

linkPacketSend(l) == Access(setBank(l, 0), 0)

-----------------------------------------------------------------------------
(* The chip receives a frame *)
Receive(kind) ==
  /\ Len(wire) < MaxFrames
  /\ Len(wire) - link.freed < RingFrames
  /\ wire' = Append(wire, kind)
  /\ link' = [link EXCEPT !.count = @ + 1]
  /\ UNCHANGED <<pc, cur>>

(* setClockout12pt5MHz() *)
setClockoutScale ==
  /\ pc = "clock"
  /\ link' = [Access(setBank(link, 3), 3) EXCEPT !.clocked = TRUE]
  /\ pc' = "loop"
  /\ UNCHANGED <<wire, cur>>

-----------------------------------------------------------------------------
(* handlePacket: no frame *)
HandleNothing ==
  /\ pc = "loop"
  /\ Poll(link).count = 0
  /\ link' = Poll(link)
  /\ UNCHANGED <<wire, pc, cur>>

Pending == Poll(link).count > 0
Kind    == wire[link.next + 1]

(* ... a frame that no handler is interested in, an ARP reply included *)
HandleUnwanted ==
  /\ pc = "loop"
  /\ Pending
  /\ Kind \in {"link", "arp", "reply", "unwanted"}
  /\ link' = linkDoneWithPacket(ReadHeader(Poll(link)))
  /\ UNCHANGED <<wire, pc, cur>>

(* ... a frame for handleUDP or handleTCP *)
HandleWanted ==
  /\ pc = "loop"
  /\ Pending
  /\ Kind \in {"served", "post"}
  /\ link' = ReadHeader(Poll(link))
  /\ cur' = link'.this
  /\ pc' = "handler"
  /\ UNCHANGED wire

(***************************************************************************)
(* A checksum that is found wrong: "Debug - should not reach", while (1).  *)
(* resolveMAC has room for an ARP message only, and of a TCP segment that  *)
(* it reads TransportCsum also sums up the memory behind that room: it may *)
(* find any sum.                                                           *)
(***************************************************************************)
FoundWrong == IF pc = "listen" THEN {"bad", "unwanted", "served", "post"} ELSE {"bad"}

HangOnChecksum ==
  /\ pc \in {"loop", "listen"}
  /\ Pending
  /\ Kind \in FoundWrong
  /\ link' = ReadHeader(Poll(link))
  /\ pc' = "hung"
  /\ UNCHANGED <<wire, cur>>

(* The handler sends nothing *)
HandlerQuiet ==
  /\ pc = "handler"
  /\ pc' = "finish"
  /\ UNCHANGED <<wire, link, cur>>

(***************************************************************************)
(* The handler sends, to a known MAC.  What it sends after that goes to    *)
(* the same next hop.                                                      *)
(***************************************************************************)
HandlerSendsLast ==                                      \* mutant: frame given back
  /\ pc = "handler"
  /\ link' = linkDoneWithPacket(linkPacketSend(link))
  /\ pc' = IF wire[cur] = "post" THEN "payload" ELSE "finish"
  /\ UNCHANGED <<wire, cur>>
HandlerSends ==
  /\ pc = "handler"
  /\ link' = linkPacketSend(link)
  /\ pc' = IF wire[cur] = "post" THEN "payload" ELSE "finish"
  /\ UNCHANGED <<wire, cur>>

(* The handler, or the main loop itself, sends to one it must ask for *)
AskMAC ==
  /\ MayNotKnow
  /\ pc \in {"loop", "handler"}
  /\ link' = [linkPacketSend(link) EXCEPT !.nested = @ \/ pc = "handler"]
  /\ pc' = "listen"
  /\ UNCHANGED <<wire, cur>>

(* resolveMAC: "Block until an ARP heard" *)
ListenNothing ==
  /\ pc = "listen"
  /\ ~ Pending
  /\ link' = Poll(link)
  /\ UNCHANGED <<wire, pc, cur>>

(* Other frames are lost; after another ARP the request is repeated *)
ListenOther ==
  /\ pc = "listen"
  /\ Pending
  /\ \/ /\ Kind = "link"
        /\ link' = linkDoneWithPacket(ReadHeader(Poll(link)))
     \/ /\ Kind = "arp"
        /\ link' = linkPacketSend(linkDoneWithPacket(ReadHeader(Poll(link))))
     \/ /\ Kind \in {"unwanted", "served", "post"}
        /\ link' = ReadHeader(Poll(link))
  /\ UNCHANGED <<wire, pc, cur>>

(* The reply, after which the message itself goes out *)
ListenReply ==
  /\ pc = "listen"
  /\ Pending
  /\ Kind = "reply"
  /\ link' = linkPacketSend(linkDoneWithPacket(ReadHeader(Poll(link))))
  /\ pc' = IF cur = 0 THEN "loop" ELSE IF wire[cur] = "post" THEN "payload" ELSE "finish"
  /\ UNCHANGED <<wire, cur>>

(* sendHTML: linkReadRandomAccess, then linkNextByte *)
ReadPayload ==
  /\ pc = "payload"
  /\ link' = Access(setBank(link, 0), 0)
  /\ pc' = "finish"
  /\ UNCHANGED <<wire, cur>>

(* handlePacket gives the frame back *)
HandlerDone ==
  /\ pc = "finish"
  /\ link' = linkDoneWithPacket(link)
  /\ pc' = "loop"
  /\ cur' = 0
  /\ UNCHANGED wire

Loop ==
  \/ setClockoutScale \/ HandleNothing \/ HandleUnwanted \/ HandleWanted
  \/ HangOnChecksum \/ HandlerQuiet \/ HandlerSends \/ AskMAC
  \/ ListenNothing \/ ListenOther \/ ListenReply \/ ReadPayload \/ HandlerDone

Next == Loop \/ \E kind \in Kinds : Receive(kind)

Spec == Init /\ [][Next]_vars

(* Fairness: the main loop never stops *)
FairSpec == Spec /\ WF_vars(Loop)

-----------------------------------------------------------------------------
(* The type invariant *)
TypeOK ==
  /\ wire \in Seq(AllKinds) /\ Len(wire) <= MaxFrames
  /\ link \in Registers
  /\ pc \in {"clock", "loop", "handler", "listen", "payload", "finish", "hung"}
  /\ cur \in 0..MaxFrames

(***************************************************************************)
(* linkPacketHeader never reads a header that the chip has not written: a  *)
(* positive EPKTCNT means that there is a frame at ptrNextPacket, even     *)
(* after resolveMAC has read frames within a handler.                      *)
(***************************************************************************)
NoPhantomFrame == pc # "hung" /\ Pending => link.next < Len(wire)

(***************************************************************************)
(* Of the frames that were read only the one in progress still takes space *)
(* in the ring, and between two packets not even that: however resolveMAC  *)
(* nests in handlePacket, no space is lost and none is freed unread.       *)
(***************************************************************************)
SpaceReturned ==
  /\ link.freed + (IF link.inProgress THEN 1 ELSE 0) = link.next
  /\ pc = "loop" => ~ link.inProgress

(***************************************************************************)
(* readEthRegister, writeEthRegister: "Need to be in the right bank before *)
(* we start".  The driver's currentBank is right whenever it is relied on, *)
(* but for the one call of setClockoutScale, which writes to ECON1's bank. *)
(***************************************************************************)
RightBank == link.clocked \/ ~ link.astray

(***************************************************************************)
(* linkPacketsAvailable: "Count of available packets".  Between two        *)
(* packets EPKTCNT is the number of frames not yet read, as long as no     *)
(* handler had to ask for a MAC: resolveMAC gives the handler's frame back *)
(* and handlePacket does so again.                                         *)
(***************************************************************************)
CountIsExact == pc = "loop" /\ ~ link.nested => link.count = Len(wire) - link.next

(***************************************************************************)
(* linkDoneWithPacket: "Call when packet can be discarded from ENC28J60    *)
(* memory".  What sendHTML reads from the chip is the payload of the frame *)
(* it was called for, not given back yet; PayloadAlwaysCurrent drops the   *)
(* condition that no handler had to ask for a MAC, and does not hold.      *)
(***************************************************************************)
PayloadAlwaysCurrent == pc = "payload" => link.this = cur /\ link.freed < cur
PayloadIsCurrent == ~ link.nested => PayloadAlwaysCurrent

(***************************************************************************)
(* resolveMAC: "Stay blocked in this routine (DISCARDING other packets)    *)
(* until we have an ARP answer".  Where all checksums on the wire are      *)
(* right (no frame is "bad"), nothing stops the main loop for good.        *)
(***************************************************************************)
NeverHangs == pc # "hung"

(***************************************************************************)
(* Every frame that the chip has received is read, unless the main loop    *)
(* has stopped or a handler had to ask for a MAC.                          *)
(***************************************************************************)
EveryFrameRead ==
  \A n \in 1..MaxFrames :
    (Len(wire) >= n) ~> (link.next >= n \/ pc = "hung" \/ link.nested)
=============================================================================
