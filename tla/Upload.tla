------------------------------- MODULE Upload -------------------------------
(***************************************************************************)
(* The web server of the networked programmer: sendHTML in application.c,  *)
(* with the parser of a POST whose form carries an Intel HEX file, the SPI *)
(* RAM that the file goes to, and the chip that is programmed from it.     *)
(*                                                                         *)
(* sendHTML sees a request segment by segment.  A step here is one round   *)
(* of its loop, one byte; a segment may end after any byte in Ends, and a  *)
(* `break' skips what is left of the segment and no more.  The client may  *)
(* give up at the end of any segment and connect again.                    *)
(*                                                                         *)
(* uploadTo, bdry and bytesInPOST are written by the code and have no      *)
(* effect: the file always goes to the EEPROM, and the parser looks for no *)
(* boundary and counts no bytes once the header is over.                   *)
(***************************************************************************)
EXTENDS Integers, Sequences, FiniteSets, SequencesExt, Bitwise

CONSTANTS
  Uploads,       \* a sequence of POSTs, each [bytes, records, sound, ends]
  Pages,         \* pages that are asked for, other than the ones to erase
  Nonces,        \* what Rnd8bit may return
  Sizes,         \* values of chipData.sizeOfEEPROM (0 as built)
  Adrs,          \* the addresses of SPI RAM and EEPROM that are modelled
  MaxRequests    \* bound on the connections

ASSUME MaxRequestsAssumption == MaxRequests \in Nat \ {0}
ASSUME SizesAssumption == \A n \in Sizes : n % 16 = 0 /\ 0..(n - 1) \subseteq Adrs

MAX_RING_BUFFER == 82
LASTPLACE == MAX_RING_BUFFER - 1
CR    == 13
LF    == 10
SPACE == 32
COLON == 58
flashhex == <<102, 108, 97, 115, 104, 104, 101, 120>>

NoRequest == [kind |-> "none", n |-> 0]
Unanswered == "none"

VARIABLES
  sizeOfEEPROM,
  chip,          \* the EEPROM of the chip that is programmed
  sram,          \* the SPI RAM
  cfmnonce,
  POSTflags, ringBuffer, bufferPtr,
  skip,          \* has a `break' ended the loop for this segment?
  req,           \* the request of this connection
  pos,           \* how many of its bytes have been seen
  answer,        \* the page that was sent
  before,        \* history: sram when the connection was made
  resent,        \* history: did a segment begin with POST again?
  requests

parser == <<POSTflags, ringBuffer, bufferPtr, skip>>
target == <<sizeOfEEPROM, chip, sram>>
vars == <<target, parser, cfmnonce, req, pos, answer, before, resent, requests>>

\* Memory keeps what it held; the RAM of the controller starts as 0
Init ==
  /\ sizeOfEEPROM \in Sizes
  /\ chip = [a \in Adrs |-> 255]
  /\ sram = [a \in Adrs |-> 90]                         \* anything
  /\ cfmnonce = 0
  /\ POSTflags = "NONE" /\ bufferPtr = 0 /\ skip = FALSE
  /\ ringBuffer = [i \in 0..LASTPLACE |-> 0]
  /\ req = NoRequest /\ pos = 0 /\ answer = Unanswered
  /\ before = sram /\ resent = FALSE /\ requests = 0

Upload == Uploads[req.n]
AtEnd == req.kind = "POST" => pos \in Upload.ends \cup {0, Len(Upload.bytes)}

-----------------------------------------------------------------------------
(* A SYN, for a request that is to follow *)
Requests ==
  [kind : {"POST"}, n : DOMAIN Uploads] \cup [kind : Pages \cup {"erase.html"}, n : {0}]
    \cup [kind : {"erase"}, n : Nonces \cup {(n + 1) % 256 : n \in Nonces}]

resetKeepsFlags ==                                     \* mutant: POSTflags left as it is
  bufferPtr' = 0 /\ POSTflags' = POSTflags
resetHTTPServer ==
  bufferPtr' = 0 /\ POSTflags' = "NONE"

Connect ==
  /\ requests < MaxRequests /\ AtEnd
  /\ requests' = requests + 1
  /\ resetHTTPServer
  /\ req' \in Requests
  /\ pos' = 0 /\ answer' = Unanswered
  /\ before' = sram /\ resent' = FALSE /\ skip' = FALSE
  /\ UNCHANGED <<target, ringBuffer, cfmnonce>>

(* A segment that begins with "POST " *)
StartPOST ==
  /\ req.kind = "POST" /\ answer = Unanswered
  /\ POSTflags' = "READING"
  /\ ringBuffer' = [ringBuffer EXCEPT ![bufferPtr] = 0]
  /\ skip' = FALSE
  /\ UNCHANGED <<target, bufferPtr, cfmnonce, req, pos, answer, before, requests>>

First == StartPOST /\ pos = 0 /\ POSTflags = "NONE" /\ UNCHANGED resent

(* Sent again from its beginning and longer, when an ACK was lost *)
Resend ==
  /\ StartPOST /\ pos > 0 /\ AtEnd /\ pos < Len(Upload.bytes)
  /\ ~ resent /\ resent' = TRUE

(* Any other segment *)
NewSegment ==
  /\ req.kind = "POST" /\ skip /\ AtEnd
  /\ skip' = FALSE
  /\ UNCHANGED <<target, POSTflags, ringBuffer, bufferPtr, cfmnonce, req, pos, answer, before,
                 resent, requests>>

-----------------------------------------------------------------------------
(* A line of the file, as it lies in the ring from place 0 on *)

hexDigit(c) ==
  CASE c \in 65..70  -> c - 55
    [] c \in 97..102 -> c - 87
    [] OTHER         -> (c - 48) % 256

Pair(r, i) == ((hexDigit(r[i]) * 16) | hexDigit(r[i + 1])) % 256

ByteCount(r) == Pair(r, 0)
Address(r) ==
  (Pair(r, 4) | ((hexDigit(r[2]) * 4096) | (hexDigit(r[3]) * 256))) % 65536
Choice(r) == Pair(r, 6)
Datum(r, i) == Pair(r, 8 + 2 * i)
Data(r) == [i \in 0..(ByteCount(r) - 1) |-> Datum(r, i)]

\* The checksum of a line that is said to be longer than the ring is read from behind it
WithinRing(r) == 9 + 2 * ByteCount(r) <= LASTPLACE

csum(r) ==
  (Datum(r, ByteCount(r)) + ByteCount(r) + Address(r) + Address(r) \div 256 + Choice(r)
   + FoldFunction(+, 0, Data(r))) % 256

MaySucceed(r) == WithinRing(r) => csum(r) = 0
MayFail(r)    == WithinRing(r) => csum(r) # 0

memWriteOneMore(mem, address, len, data) ==            \* mutant: len counted down to -1
  [a \in Adrs |-> CASE a \in address..(address + len - 1) -> data[a - address]
                    [] a = address + len -> 0
                    [] OTHER -> mem[a]]
memWriteBufferMemoryArray(mem, address, len, data) ==
  [a \in Adrs |-> IF a \in address..(address + len - 1) THEN data[a - address] ELSE mem[a]]

(* The chip takes what is written; ISPreadEEPROMbyte returns 0 *)
ProgrammedShort ==                                     \* mutant: the last 16 bytes left out
  [a \in Adrs |-> IF a < sizeOfEEPROM - 16 THEN sram[a] ELSE chip[a]]
Programmed == [a \in Adrs |-> IF a < sizeOfEEPROM THEN sram[a] ELSE chip[a]]
ISPreadEEPROMbyte(a) == 0
valid == \A a \in 0..(sizeOfEEPROM - 1) : ISPreadEEPROMbyte(a) = sram[a]

-----------------------------------------------------------------------------
ringBufferIs(r, ptr, word) ==
  \A i \in DOMAIN word : r[(ptr + i - 1) % MAX_RING_BUFFER] = word[i]
Back(p, n) == (p + MAX_RING_BUFFER - n) % MAX_RING_BUFFER

(* One round of the loop, with c = linkNextByte() *)
Place == (bufferPtr + 1) % MAX_RING_BUFFER
Ring(c) == [ringBuffer EXCEPT ![Place] = c]

\* "\r\n\r\n"
EndOfBlock(c) ==
  /\ ringBuffer[bufferPtr] = CR /\ c = LF
  /\ ringBufferIs(Ring(c), Back(Place, 3), <<CR, LF>>)

HeaderByte(c) ==
  /\ POSTflags = "READING"
  /\ bufferPtr' = Place
  /\ POSTflags' = IF EndOfBlock(c) THEN "INTO_CONTENT" ELSE POSTflags
  /\ UNCHANGED <<target, skip, answer>>

ContentByte(c) ==
  /\ POSTflags \in {"INTO_CONTENT", "FILE_NEXT"}
  /\ IF ringBufferIs(Ring(c), Back(Place, 7), flashhex)
     THEN POSTflags' = "FILE_NEXT" /\ bufferPtr' = Place
     ELSE IF POSTflags = "FILE_NEXT" /\ EndOfBlock(c)
     THEN POSTflags' = "INTO_FILE" /\ bufferPtr' = LASTPLACE
     ELSE bufferPtr' = Place /\ UNCHANGED POSTflags
  /\ UNCHANGED <<target, skip, answer>>

\* "Strip spaces"
Stripped(c) == c = SPACE /\ Place # 0

SpaceByte(c) ==
  /\ POSTflags = "INTO_FILE" /\ Stripped(c)
  /\ UNCHANGED <<target, POSTflags, bufferPtr, skip, answer>>

LineByte(c) ==
  /\ POSTflags = "INTO_FILE" /\ ~ Stripped(c) /\ c # COLON
  /\ bufferPtr' = Place
  /\ skip' = (Place = LASTPLACE)                       \* overflow
  /\ UNCHANGED <<target, POSTflags, answer>>

FirstColon(c) ==
  /\ POSTflags = "INTO_FILE" /\ c = COLON /\ Place = 0
  /\ bufferPtr' = LASTPLACE
  /\ UNCHANGED <<target, POSTflags, skip, answer>>

EndOfLine(c) == POSTflags = "INTO_FILE" /\ c = COLON /\ Place # 0

BadLine(c) ==
  /\ EndOfLine(c)
  /\ Choice(Ring(c)) \in {0, 1} => MayFail(Ring(c))
  /\ skip' = TRUE /\ bufferPtr' = Place
  /\ UNCHANGED <<target, POSTflags, answer>>

DataLine(c) ==
  LET r == Ring(c)
  IN  /\ EndOfLine(c) /\ MaySucceed(r) /\ Choice(r) = 0
      /\ sram' = memWriteBufferMemoryArray(sram, Address(r), ByteCount(r), Data(r))
      /\ bufferPtr' = LASTPLACE
      /\ UNCHANGED <<sizeOfEEPROM, chip, POSTflags, skip, answer>>

EofLine(c) ==
  /\ EndOfLine(c) /\ MaySucceed(Ring(c)) /\ Choice(Ring(c)) = 1
  /\ POSTflags' = "NONE"
  /\ chip' = Programmed
  /\ answer' = IF valid THEN "UploadSuccess" ELSE "UploadFailure"
  /\ skip' = TRUE /\ bufferPtr' = Place
  /\ UNCHANGED <<sizeOfEEPROM, sram>>

NextByte ==
  /\ req.kind = "POST" /\ pos < Len(Upload.bytes)
  /\ pos' = pos + 1
  /\ LET c == Upload.bytes[pos + 1]
     IN  \/ /\ ~ skip
            /\ ringBuffer' = Ring(c)
            /\ \/ HeaderByte(c) \/ ContentByte(c)
               \/ SpaceByte(c) \/ LineByte(c) \/ FirstColon(c)
               \/ BadLine(c) \/ DataLine(c) \/ EofLine(c)
         \/ skip /\ UNCHANGED <<target, parser, answer>>
  /\ UNCHANGED <<cfmnonce, req, before, resent, requests>>

-----------------------------------------------------------------------------
(* A GET, in one segment *)
Served(page) ==
  /\ answer' = page
  /\ UNCHANGED <<target, parser, req, pos, before, resent, requests>>

Asked == req.kind # "POST" /\ req # NoRequest /\ answer = Unanswered /\ POSTflags = "NONE"

\* The icon, the pages, and 404 for any other.  A GET of the start page activates the
\* programmer and reads the signature; sendCommand returns 0, so the chip is unknown.
GetPage ==
  /\ Asked /\ req.kind \in Pages
  /\ Served(req.kind)
  /\ UNCHANGED cfmnonce

GetEraseCfm ==
  /\ Asked /\ req.kind = "erase.html"
  /\ cfmnonce' \in Nonces
  /\ Served("EraseCfm")

\* Any other "erase..." is for nobody: it is not even answered
GetErase ==
  /\ Asked /\ req.kind = "erase" /\ req.n = cfmnonce
  /\ chip' = [a \in Adrs |-> 255]
  /\ cfmnonce' = (cfmnonce + 1) % 256
  /\ answer' = "EraseData"
  /\ UNCHANGED <<sizeOfEEPROM, sram, parser, req, pos, before, resent, requests>>

Next ==
  \/ Connect \/ First \/ Resend \/ NewSegment \/ NextByte
  \/ GetPage \/ GetEraseCfm \/ GetErase

Spec == Init /\ [][Next]_vars

(***************************************************************************)
(* TCP delivers what a client sends that does not give up, and the server  *)
(* deals with every segment that arrives.                                  *)
(***************************************************************************)
FairSpec ==
  Spec /\ WF_vars(First) /\ WF_vars(NextByte)
       /\ WF_vars(GetPage) /\ WF_vars(GetEraseCfm) /\ WF_vars(GetErase)

-----------------------------------------------------------------------------
(* The SPI RAM with the first k records of the file put over what it held *)
Loaded(k) ==
  LET Covers(i, a) == a - Upload.records[i].address + 1 \in DOMAIN Upload.records[i].data
      Latest(a) == Max({i \in 1..k : Covers(i, a)})
  IN  [a \in Adrs |->
        IF \E i \in 1..k : Covers(i, a)
        THEN Upload.records[Latest(a)].data[a - Upload.records[Latest(a)].address + 1]
        ELSE before[a]]

Sound == req.kind = "POST" /\ Upload.sound

(***************************************************************************)
(* Wherever the segments end, in the middle of a digit pair or of a line   *)
(* end, and whatever was sent again or abandoned before: the SPI RAM holds *)
(* the first records of a sound file, whole and in order, over what it     *)
(* held before, and outside of an upload nothing writes to it.             *)
(***************************************************************************)
RecordsInOrder ==
  /\ Sound => \E k \in 0..Len(Upload.records) : sram = Loaded(k)
  /\ req.kind # "POST" => sram = before

(***************************************************************************)
(* An upload of a sound file is answered only after all of it is in the    *)
(* SPI RAM, and the chip has all of its EEPROM from there.                 *)
(***************************************************************************)
AnsweredIsStored ==
  Sound /\ answer # Unanswered =>
    /\ sram = Loaded(Len(Upload.records))
    /\ \A a \in 0..(sizeOfEEPROM - 1) : chip[a] = sram[a]

(***************************************************************************)
(* A client that does not give up gets an answer: a page, a page that says *)
(* that nothing was found, or the outcome of the upload of a sound file;   *)
(* no upload that was abandoned or spoilt before keeps the server from it. *)
(* The link to erase must be the last one given out, and the beginning of  *)
(* the POST must not be sent again.                                        *)
(***************************************************************************)
Expected == req # NoRequest /\ (req.kind = "POST" => Sound) /\ (req.kind = "erase" => req.n = cfmnonce)

RequestAnswered ==
  \A k \in 1..MaxRequests :
    (requests = k /\ Expected) ~> (answer # Unanswered \/ resent \/ requests # k)

(***************************************************************************)
(* "do inisit on what we expected": a file with a bad record is never      *)
(* reported as uploaded.  It can be: see the README.                       *)
(***************************************************************************)
SpoiltIsRefused == req.kind = "POST" /\ ~ Upload.sound => answer = Unanswered
=============================================================================
