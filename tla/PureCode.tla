------------------------------ MODULE PureCode ------------------------------
(***************************************************************************)
(* The functions of Calendar, Lfsr, Pages, Names and Checksums, set to     *)
(* work: a clock that goes through the moments of every day at which       *)
(* something may change, a shift register that is stepped from its first   *)
(* value, and shuffled, a page that is drawn block by block, a name        *)
(* responder that hears a message, and a packet that is sent and received. *)
(***************************************************************************)
EXTENDS Almanac, Lfsr, Pages, Responder, Checksums

CONSTANTS
  First,       \* the two timers, TCNT0 and timecount, when the register is initialised
  Readings,    \* the timers when it is shuffled
  Envs,        \* a sequence of environments for the pages
  PageNames,
  Payloads(_, _), \* sizes of the TCP payloads that a page is cut into
  Packets,     \* packets to send: [how, b, length, data, dataAt]
  Damages,     \* what may happen to them on the way
  Stale        \* what the buffer holds where nothing was read into it

VARIABLES
  lfsr,        \* the shift register
  steps,       \* how often it was stepped, or -1 after a shuffle
  block,       \* the block of a page that was last drawn
  frame        \* a packet, the frame that it became, and what became of that

vars == <<time, lfsr, steps, block, heard, frame>>

NoBlock == [env |-> 0, page |-> "none", at |-> 0, len |-> 0]
NoFrame == [packet |-> <<>>, wire |-> <<>>, verdict |-> "none"]

Idle ==
  [time |-> Off, lfsr |-> 0, steps |-> Off, block |-> NoBlock, heard |-> Silence,
   frame |-> NoFrame]

Starts ==
  {[Idle EXCEPT !.time = 0],
   [Idle EXCEPT !.lfsr = initLFSR(First[1], First[2]), !.steps = 0]}
    \cup {[Idle EXCEPT !.block = [env |-> k, page |-> p, at |-> 0, len |-> 0]] :
            k \in DOMAIN Envs, p \in PageNames}
    \cup {[Idle EXCEPT !.heard = c] : c \in Calls}
    \cup {[Idle EXCEPT !.frame.packet = p, !.frame.verdict = "made"] : p \in Packets}

Init ==
  \E s \in Starts :
    /\ time = s.time /\ lfsr = s.lfsr /\ steps = s.steps
    /\ block = s.block /\ heard = s.heard /\ frame = s.frame

TimePasses ==
  /\ Pass
  /\ UNCHANGED <<lfsr, steps, block, heard, frame>>

Step ==
  /\ steps \in 0..65534
  /\ lfsr' = nextLFSR(lfsr)
  /\ steps' = steps + 1
  /\ UNCHANGED <<time, block, heard, frame>>

Shuffle ==
  /\ steps \in 0..65535
  /\ \E r \in Readings : lfsr' = shuffleTimeLFSR(lfsr, r[1], r[2])
  /\ steps' = Off
  /\ UNCHANGED <<time, block, heard, frame>>

(* The next block of the page: linkSendPacket calls the page's callback *)
Draw ==
  /\ block.page # "none"
  /\ LET at   == block.at + block.len
         left == PageLen(Envs[block.env], block.page) - at
     IN  /\ left > 0
         /\ \E n \in Payloads(block.env, block.page) :
              block' = [block EXCEPT !.at = at, !.len = BlockLen(Min({n, left}))]
  /\ UNCHANGED <<time, lfsr, steps, heard, frame>>

Reply ==
  /\ Respond
  /\ UNCHANGED <<time, lfsr, steps, block, frame>>

(* launchIP4 and linkPacketSend *)
Launch ==
  /\ frame.verdict = "made"
  /\ LET p == frame.packet
     IN  frame' = [packet |-> <<>>, verdict |-> "sent", wire |->
           CASE p.how = "short"   -> SendShort(p.b, p.length)
             [] p.how = "complex" -> SendComplex(p.b, p.dataAt, p.data, p.length)
             [] p.how = "DHCP"    -> SendDHCP(p.b, p.length)]
  /\ UNCHANGED <<time, lfsr, steps, block, heard>>

(***************************************************************************)
(* Such a frame is received, padded to the 60 bytes of Ethernet, as it was *)
(* sent or with a byte of it changed.                                      *)
(***************************************************************************)
Padded(f, pad) == [i \in 0..(Max({60, Cardinality(DOMAIN f)}) - 1) |->
                     IF i \in DOMAIN f THEN f[i] ELSE pad]

Hear ==
  /\ frame.verdict = "sent"
  /\ \E d \in Damages :
       LET f    == frame.wire
           chip == Padded(IF d.at \in DOMAIN f THEN [f EXCEPT ![d.at] = (@ + d.by) % 256] ELSE f, d.pad)
       IN  frame' = [frame EXCEPT !.wire = chip,
                       !.verdict = linkPacketHeader(chip, Cardinality(DOMAIN chip), Stale)]
  /\ UNCHANGED <<time, lfsr, steps, block, heard>>

Next == TimePasses \/ Step \/ Shuffle \/ Draw \/ Reply \/ Launch \/ Hear

Spec == Init /\ [][Next]_vars

-----------------------------------------------------------------------------
(***************************************************************************)
(* "maximum period": the register comes back to where it was after 65535   *)
(* steps and not before, and no shuffle on the way makes it 0, from which  *)
(* it would never move again.                                              *)
(***************************************************************************)
MaximumPeriod ==
  /\ steps > 0 => (lfsr = initLFSR(First[1], First[2]) <=> steps = 65535)
  /\ lfsr = 0 => time # Off \/ block # NoBlock \/ heard # Silence \/ frame.verdict # "none"

(***************************************************************************)
(* application.h: a callback offers "random access to data within an       *)
(* internal length" and "Returns the requested number (length) of bytes".  *)
(* However TCP and the block loop cut a page up, the blocks are the page:  *)
(* its texts in their places, for every 32 bytes of memory an Intel HEX    *)
(* record (byte count, address, type and data that add up to 0 with their  *)
(* checksum, a line each), and as long as the preamble announces.  All but *)
(* one: the block of the icon with its byte 122 has a byte too many.       *)
(***************************************************************************)
IconFault == block.page = "ISPbitmap" /\ 122 \in block.at..(block.at + block.len - 1)

Part(k, len) == [i \in 1..len |-> Text(k, i - 1)]
Joined(pieces, n) ==                     \* pieces of n bytes each
  [i \in 1..(n * Len(pieces)) |-> pieces[((i - 1) \div n) + 1][((i - 1) % n) + 1]]

InHex(bytes) ==
  Joined([i \in DOMAIN bytes |-> <<Nibble(bytes[i], TRUE), Nibble(bytes[i], FALSE)>>], 2)
Summed(bytes) == FoldSeq(+, 0, bytes)

Record(data, a) ==
  LET r == <<Len(data), a \div 256, a % 256, 0>> \o data
  IN  Append(r, CHOOSE c \in 0..255 : (Summed(r) + c) % 256 = 0)

Line(data, a) == <<COLON>> \o InHex(Record(data, a)) \o BR

Memory(env, base, a, n) == [i \in 1..n |-> Read(env, base + a + i - 1)]

Listing(env, base, size) ==
  Part(1, HeadLen)
    \o Joined(<<>> \o [k \in 1..(size \div 32) |->
                       Line(Memory(env, base, 32 * (k - 1), 32), 32 * (k - 1))], 79)
    \o Part(3, TailLen)

PrintedLine(data) == [i \in DOMAIN data |-> Printable(data[i])] \o BR

Whole == [k \in DOMAIN Envs, p \in PageNames |->
  LET env == Envs[k]
  IN  CASE p = "EEPROMData"  -> Listing(env, EEPROM_IN_SPIRAM, env.sizeOfEEPROM)
        [] p = "FlashData"   -> Listing(env, FLASH_IN_SPIRAM, env.sizeOfFlash)
        [] p = "EEPROMDataP" ->
             Part(1, HeadLen)
               \o Joined(<<>> \o [l \in 1..(env.sizeOfEEPROM \div 32) |->
                      PrintedLine(Memory(env, EEPROM_IN_SPIRAM, 32 * (l - 1), 32))], 36)
               \o Part(3, TailLen)
        [] p = "ProgData"    ->
             LET id == [i \in 1..3 |-> InHex(<<env.signature[i]>>)]
             IN  Part(1, HeadLen) \o Part(4, LONGEST_MICRO - 1)
                   \o id[1] \o <<DASH>> \o id[2] \o <<DASH>> \o id[3]
                   \o Part(2, MidLen) \o [i \in 1..8 |-> QUERY] \o Part(3, TailLen)
        [] p = "EraseCfm"    ->
             LET digits == InHex(<<env.cfmnonce>>)
             IN  [Part(1, HeadLen) EXCEPT ![NonceAt + 1] = digits[1], ![NonceAt + 2] = digits[2]]
        [] p = "HTTP_404"    -> Part(1, HeadLen + 1)
        [] p = "ISPbitmap"   -> [Part(5, ICON_BYTES) EXCEPT ![123] = 48]
        [] p \in {"UploadSuccess", "EraseData"} -> Part(1, HeadLen)]

BlocksMakeThePage ==
  block # NoBlock =>
    LET env   == Envs[block.env]
        whole == Whole[block.env, block.page]
        digit == [i \in 1..HTTP_NO_LEN |-> PreambleDigit(PageLen(env, block.page), i) - 48]
    IN  /\ Len(whole) = FoldLeft(LAMBDA n, d : 10 * n + d, 0, digit)
        /\ block.len > 0 /\ ~ IconFault =>
             Result(env, block.page, block.at, block.len)
               = SubSeq(whole, block.at + 1, block.at + block.len)

(***************************************************************************)
(* network.c: "16 bit 1s complement of ones complement sum of all 16 bit   *)
(* words".  However a packet is divided between the microcontroller and    *)
(* the chip, every frame that leaves has checksums that verify, a sum of 0 *)
(* modulo 65535 over the bytes of the packet in the order of the wire, and *)
(* a frame is accepted if and only if they do.                             *)
(***************************************************************************)
OnesSum(f, from, to) ==
  SumOver(LAMBDA i : f[i] * (IF (i - from) % 2 = 0 THEN 256 ELSE 1), from..to)

Verifies(f) ==
  LET end    == ETH_HEADER_SIZE + 256 * f[16] + f[17]
      pseudo == OnesSum(f, 26, 33) + f[23] + (end - TransportAt)
  IN  /\ OnesSum(f, 14, 33) % 65535 = 0
      /\ end <= Cardinality(DOMAIN f)
      /\ (OnesSum(f, TransportAt, end - 1) + (IF f[23] = ICMPinIP4 THEN 0 ELSE pseudo)) % 65535 = 0

ChecksumsAgree ==
  /\ frame.verdict = "sent" => Verifies(frame.wire)
  /\ frame.verdict \in {"accepted", "ignored", "hung"} =>
       (frame.verdict = "accepted" <=> Verifies(frame.wire))

=============================================================================
