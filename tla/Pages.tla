------------------------------- MODULE Pages --------------------------------
(***************************************************************************)
(* The pages of the networked programmer (application.c), as the callbacks *)
(* that TCP_ComplexDataOut and the block loop of linkSendPacket draw them  *)
(* from: a callback is asked for `length' bytes from `start' on and is     *)
(* called again and again until the page is out.                           *)
(*                                                                         *)
(* A byte that is computed is its ASCII code.  The constant texts stay     *)
(* abstract: Text(part, i) is the i-th byte of a part, and their lengths   *)
(* are constants.  So are the pixels of the icon.                          *)
(*                                                                         *)
(* An environment env holds what the callbacks read: chipData (vendor,     *)
(* family, code, sizeOfEEPROM, sizeOfFlash), cfmnonce, the kind of build   *)
(* (source, "ISP" or "RAM") and the contents of the SPI RAM (sram).        *)
(***************************************************************************)
EXTENDS Integers, Sequences, SequencesExt

CONSTANTS
  HeadLen, MidLen, TailLen,   \* sizeof(head) - 1, ...
  NonceAt                     \* where "PQ" is in the page EraseCfm

HEX_SHOW_BYTES == 32
HEX_LINE_LEN   == 15 + HEX_SHOW_BYTES * 2
BYTES_PER_LINE == 32
PR_LINE_LEN    == BYTES_PER_LINE + 4
LONGEST_MICRO  == 13
HTTP_NO_LEN    == 5
BLOCK_SIZE     == 370
ICON_BYTES     == 10344       \* 0x2868
EEPROM_IN_SPIRAM == 0
FLASH_IN_SPIRAM  == 1024

COLON == 58
DASH  == 45
QUERY == 63
DOT   == 46
BR    == <<60, 98, 114, 62>>  \* <br>

Text(part, i) == 1000 * part + i
hex(n) == IF n < 10 THEN 48 + n ELSE 55 + n

U8(n)  == n % 256
U16(n) == n % 65536

(* High or low half of a byte as a hexadecimal digit *)
Nibble(b, high) == hex(IF high THEN b \div 16 ELSE b % 16)

(***************************************************************************)
(* sendCommandData shifts out its four bytes and returns 0: all that the   *)
(* ISPread functions return.  The SPI RAM returns what it holds.           *)
(***************************************************************************)
ISPread == 0
memReadByte(env, a) == env.sram[a]
Read(env, a) == IF env.source = "ISP" THEN ISPread ELSE memReadByte(env, a)

(* The texts of one part *)
UploadSuccess(env, s) == Text(1, s)
EraseData(env, s)     == Text(1, s)
HTTP_404(env, s)      == Text(1, s)

(* EraseCfm replaces "PQ" by the place in the block, not in the page *)
EraseCfm(env, from, s) ==
  CASE s - from = NonceAt     -> Nibble(env.cfmnonce, TRUE)
    [] s - from = NonceAt + 1 -> Nibble(env.cfmnonce, FALSE)
    [] OTHER                  -> Text(1, s)

(* "xx-xx-xx" *)
Triple(bytes, off) ==
  IF off \in {2, 5} THEN DASH ELSE Nibble(bytes[off \div 3 + 1], off % 3 = 0)

ProgLen == HeadLen + MidLen + TailLen + LONGEST_MICRO - 1 + 8 + 8
ProgData(env, s) ==
  LET name == HeadLen
      sig  == name + LONGEST_MICRO - 1
      mid  == sig + 8
      fuse == mid + MidLen
      tail == fuse + 8
  IN  CASE s < name -> Text(1, s)
        [] name <= s /\ s < sig  -> Text(4, s - name)
        [] sig <= s /\ s < mid   -> Triple(env.signature, s - sig)
        [] mid <= s /\ s < fuse  -> Text(2, s - mid)
        [] fuse <= s /\ s < tail -> QUERY                     \* thisMicro is 0
        [] OTHER -> Text(3, s - tail)

-----------------------------------------------------------------------------
(* EEPROMData and FlashData: Intel HEX, HEX_SHOW_BYTES bytes a line *)

HexLen(size) == U16(HeadLen + TailLen + (size \div HEX_SHOW_BYTES) * HEX_LINE_LEN)

Bytes(env, base, adr) == [i \in 1..HEX_SHOW_BYTES |-> Read(env, base + adr * 16 + i - 1)]

PlainChecksum(env, base, adr) ==                       \* mutant: csum=~csum
  255 - U8(HEX_SHOW_BYTES + adr * 16 + adr \div 16 + FoldSeq(+, 0, Bytes(env, base, adr)))
Checksum(env, base, adr) ==
  U8(256 - U8(HEX_SHOW_BYTES + U8(adr * 16) + adr \div 16
              + FoldSeq(+, 0, Bytes(env, base, adr))))

HexByte(env, base, s) ==
  LET off == (s - HeadLen) % HEX_LINE_LEN
      adr == (HEX_SHOW_BYTES \div 16) * ((s - HeadLen) \div HEX_LINE_LEN)
      tgt == adr * 16 + off \div 2 - (IF off % 2 = 1 THEN 4 ELSE 5)
  IN  CASE off = 0 -> COLON
        [] off \in {1, 2} -> Nibble(HEX_SHOW_BYTES, off = 1)
        [] off = 3 -> hex((adr \div 256) % 16)
        [] off = 4 -> hex((adr \div 16) % 16)
        [] off = 5 -> hex(adr % 16)
        [] off \in 6..8 -> hex(0)
        [] off \in {HEX_LINE_LEN - 6, HEX_LINE_LEN - 5} ->
             Nibble(Checksum(env, base, adr), off = HEX_LINE_LEN - 6)
        [] off >= HEX_LINE_LEN - 4 -> BR[off - (HEX_LINE_LEN - 4) + 1]
        [] OTHER -> Nibble(Read(env, base + tgt), off % 2 = 1)

HexData(env, base, size, s) ==
  LET tail == HeadLen + (size \div HEX_SHOW_BYTES) * HEX_LINE_LEN
  IN  CASE s < HeadLen -> Text(1, s)
        [] HeadLen <= s /\ s < tail -> HexByte(env, base, s)
        [] OTHER -> Text(3, s - tail)

EEPROMData(env, s) == HexData(env, EEPROM_IN_SPIRAM, env.sizeOfEEPROM, s)
FlashData(env, s)  == HexData(env, FLASH_IN_SPIRAM, env.sizeOfFlash, s)

(* EEPROMDataP: what is neither printable nor reserved in HTML, a line of 32 *)
Printable(b) == IF b < 32 \/ b >= 128 \/ b \in {34, 39, 38, 60, 62} THEN DOT ELSE b

PrLen(size) == U16(HeadLen + TailLen + (size \div BYTES_PER_LINE) * PR_LINE_LEN)
EEPROMDataP(env, s) ==
  LET tail == HeadLen + (env.sizeOfEEPROM \div BYTES_PER_LINE) * PR_LINE_LEN
      off  == (s - HeadLen) % PR_LINE_LEN
      adr  == BYTES_PER_LINE * ((s - HeadLen) \div PR_LINE_LEN)
  IN  CASE s < HeadLen -> Text(1, s)
        [] HeadLen <= s /\ s < tail /\ off >= BYTES_PER_LINE -> BR[off - BYTES_PER_LINE + 1]
        [] HeadLen <= s /\ s < tail /\ off < BYTES_PER_LINE ->
             Printable(Read(env, EEPROM_IN_SPIRAM + adr + off))
        [] OTHER -> Text(3, s - tail)

(***************************************************************************)
(* ISPbitmap: at 122 an else is missing, and two bytes go into the result, *)
(* so that all later ones of the block are a place too far along.          *)
(***************************************************************************)
ISPbitmap(from, last) ==
  LET twice == 122 \in from..last
      Byte(s) == CASE s < 122 \/ ~ twice -> Text(5, s)
                   [] s = 122 -> 48
                   [] s = 123 -> 200
                   [] OTHER   -> Text(5, s - 1)
  IN  [k \in 1..(last - from + (IF twice THEN 2 ELSE 1)) |-> Byte(from + k - 1)]

-----------------------------------------------------------------------------
(* What a callback returns for (0,0,&dummy): the length of its page *)
PageLen(env, page) ==
  CASE page = "ProgData"    -> ProgLen
    [] page = "EEPROMData"  -> HexLen(env.sizeOfEEPROM)
    [] page = "FlashData"   -> HexLen(env.sizeOfFlash)
    [] page = "EEPROMDataP" -> PrLen(env.sizeOfEEPROM)
    [] page = "HTTP_404"    -> HeadLen + 1                    \* with its final 0
    [] page = "ISPbitmap"   -> ICON_BYTES
    [] page \in {"EraseCfm", "UploadSuccess", "EraseData"} -> HeadLen

(* What it puts into the result for place s of the page *)
PageByte(env, page, from, s) ==
  CASE page = "ProgData"      -> ProgData(env, s)
    [] page = "EEPROMData"    -> EEPROMData(env, s)
    [] page = "FlashData"     -> FlashData(env, s)
    [] page = "EEPROMDataP"   -> EEPROMDataP(env, s)
    [] page = "HTTP_404"      -> HTTP_404(env, s)
    [] page = "EraseCfm"      -> EraseCfm(env, from, s)
    [] page = "UploadSuccess" -> UploadSuccess(env, s)
    [] page = "EraseData"     -> EraseData(env, s)

(* The loop of a callback, called with (from, length, result) *)
Result(env, page, from, length) ==
  LET last == Min({from + length, PageLen(env, page)}) - 1
  IN  IF page = "ISPbitmap" THEN ISPbitmap(from, last)
      ELSE [k \in 1..(last - from + 1) |-> PageByte(env, page, from, from + k - 1)]

(* linkSendPacket: the size of the next block of a payload *)
BlockLen(left) == IF left > BLOCK_SIZE THEN BLOCK_SIZE ELSE left

(* PreambleData: the digits after "Content-Length: " *)
PreambleDigit(expectLen, i) == 48 + ((expectLen \div 10^(HTTP_NO_LEN - i)) % 10)
=============================================================================
