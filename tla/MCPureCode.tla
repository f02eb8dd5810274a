----------------------------- MODULE MCPureCode -----------------------------
(* TLC instances of PureCode. *)
EXTENDS PureCode

\* About the hours at which the day and summer time change
Edges == {0, 1, 3599, 3600, 43200, 82799, 82800, 86399}

\* TCNT0 and timecount, at power up and later
Started == <<0, 0>>
Later == {<<0, 1>>, <<129, 204>>}

-----------------------------------------------------------------------------
\* Memory with every kind of byte in every kind of place
Contents == [a \in 0..5400 |-> (a * 37 + a \div 256) % 256]

Chip(source, eeprom, flash) ==
  [source |-> source, sizeOfEEPROM |-> eeprom, sizeOfFlash |-> flash,
   signature |-> <<255, 255, 255>>, cfmnonce |-> 165, sram |-> Contents]

\* As built (no sizes), both sources of data, and addresses of four digits
Programmers == << Chip("ISP", 0, 0), Chip("ISP", 64, 96), Chip("RAM", 64, 96),
                  Chip("RAM", 544, 4160) >>

AllPages == {"ISPbitmap", "ProgData", "EEPROMData", "FlashData", "EEPROMDataP", "HTTP_404",
               "EraseCfm", "UploadSuccess", "EraseData"}

\* A short page of one block, long ones in full segments, the others cut at will
Cuts(k, page) ==
  IF page \in {"EraseCfm", "ISPbitmap"} \/ k = 4 THEN {1460} ELSE {1, 7, 350, 1460}

-----------------------------------------------------------------------------
Questions(names, types, classes) == [name : names, type : types, class : classes]

Asking ==
  LET names  == OwnNames \cup Mistaken \cup {"other"}
      wide   == Questions(names, {"A", "AAAA", "ANY"}, {"IN", "8001", "CH"})
      narrow == Questions(names, {"A", "AAAA"}, {"IN"})
  IN  {<<x>> : x \in wide} \cup {<<x, y>> : x, y \in wide} \cup (narrow \X narrow \X narrow)

\* Queries, and a response or an error, or a message that has answers, for comparison
Messages ==
  [query : {TRUE}, plain : {TRUE}, questions : Asking]
    \cup [query : BOOLEAN, plain : BOOLEAN, questions : {q \in Asking : Len(q) = 1}]

-----------------------------------------------------------------------------
\* Contents of headers and payloads: high bytes, all kinds of bytes, none
Fill(k, i) == CASE k = 1 -> 255 [] k = 2 -> (i * 37 + 11) % 256 [] k = 3 -> 0

HeaderSize(protocol) == CASE protocol = ICMPinIP4 -> 8 [] protocol = UDPinIP4 -> 8 [] protocol = TCPinIP4 -> 20

\* A buffer for a packet with n bytes of payload, old bytes behind it
Buffer(protocol, n, k) ==
  LET len == IP_HEADER_SIZE + HeaderSize(protocol) + n
  IN  [i \in 0..(MAX_STORED_SIZE - 1) |->
         CASE i = 14 -> 69
           [] i = 16 -> len \div 256
           [] i = 17 -> len % 256
           [] i = 23 -> protocol
           [] protocol = UDPinIP4 /\ i = 38 -> (len - 20) \div 256
           [] protocol = UDPinIP4 /\ i = 39 -> (len - 20) % 256
           [] i >= 14 + len -> 165
           [] OTHER -> Fill(k, i)]

Short(protocol, n, k) ==
  [how |-> "short", b |-> Buffer(protocol, n, k), data |-> <<>>, dataAt |-> 0,
   length |-> TransportAt + HeaderSize(protocol) + n]

Complex(protocol, n, k) ==
  [how |-> "complex", b |-> Buffer(protocol, n, k), data |-> [i \in 0..(n - 1) |-> Fill(k, i)],
   dataAt |-> TransportAt + HeaderSize(protocol), length |-> n]

\* The fields up to the bootfile, and n bytes of options
DHCP(n, k) ==
  [how |-> "DHCP", data |-> <<>>, dataAt |-> 0,
   b |-> [Buffer(UDPinIP4, 240 + n, k) EXCEPT ![36] = 0, ![37] = 67],
   length |-> TransportAt + 8 + 240 + n]

\* A TCP packet whose sum is t before its carries are added in, or makes a checksum of 0
Tuned(n, t) ==
  LET b == [Buffer(TCPinIP4, n, 1) EXCEPT ![54] = 0, ![55] = 0]
      r == 1536 + BYTESWAP16(20 + n) + checksumBare(0, b, 26, 12)
             + checksumBare(0, b, 52, 1 + n \div 2) + OddByte(b, 54, n)
      w == IF t = 0 THEN 65535 - (r % 65535) ELSE (t - r) % 65536
  IN  [Short(TCPinIP4, n, 1) EXCEPT !.b = PutWord(b, 54, w)]

Packed ==
  {Short(p, n, k) : p \in {ICMPinIP4, UDPinIP4}, n \in {0, 1, 2, 17, 18, 47, 48}, k \in 1..3}
    \cup {Short(TCPinIP4, n, k) : n \in {0, 1, 5, 6, 7, 35, 36}, k \in 1..3}
    \cup {Complex(TCPinIP4, n, k) : n \in {1, 2, 35, 36, 37, 72, 73, 80}, k \in 1..3}
    \cup {Complex(UDPinIP4, n, k) : n \in {1, 36, 49, 73}, k \in 1..2}
    \cup {DHCP(n, k) : n \in {1, 2, 13, 14}, k \in 1..2}
    \cup {Tuned(n, t) : n \in {2, 3, 36}, t \in {0, 65535}}
Parcels == Packed

\* Padding of other senders, and a byte of any part of a packet that is changed
Accidents ==
  {[at |-> -1, by |-> 0, pad |-> p] : p \in {0, 90}}
    \cup {[at |-> a, by |-> b, pad |-> 0] : a \in {14, 23, 25, 33, 35, 41, 50, 53, 54, 60, 89, 90, 91, 126}, b \in {1, 128}}
=============================================================================
