------------------------------ MODULE MCUpload ------------------------------
(* TLC instance of Upload. *)
EXTENDS Upload

Text(n) == [i \in 1..n |-> 46]
Break == <<CR, LF>>
Digit(n) == IF n < 10 THEN 48 + n ELSE 55 + n
LowerCase(s) == [i \in DOMAIN s |-> IF s[i] \in 65..70 THEN s[i] + 32 ELSE s[i]]

InHex(s) == [i \in 1..(2 * Len(s)) |->
              Digit(IF i % 2 = 1 THEN s[(i + 1) \div 2] \div 16 ELSE s[i \div 2] % 16)]

Summed(s) == LET sum[i \in 0..Len(s)] == IF i = 0 THEN 0 ELSE sum[i - 1] + s[i] IN sum[Len(s)]

\* A record with its checksum, which `error' spoils
Line(type, address, data, error) ==
  LET s == <<Len(data), address \div 256, address % 256, type>> \o data
  IN  <<COLON>> \o InHex(Append(s, (error - Summed(s)) % 256))

Good(address, data) == [address |-> address, data |-> data]
Record(r) == Line(0, r.address, r.data, 0)
Eof == Line(1, 0, <<>>, 0)

\* The request of a browser: a header, the part with the file, the part of the button
Form(pad, file, boundary) ==
  <<80, 79, 83, 84, SPACE>> \o Text(pad) \o Break \o Break
    \o Text(3) \o flashhex \o Text(2) \o Break \o Break
    \o file
    \o Break \o Text(2 + boundary) \o Break \o Text(19) \o <<COLON>> \o Text(3)

Post(pad, file, boundary, records, sound, ends) ==
  LET bytes == Form(pad, file, boundary)
  IN  [bytes |-> bytes, records |-> records, sound |-> sound,
       ends |-> {p \in 5..Len(bytes) : p % ends = 0}]

Two   == <<Good(2, <<17>>), Good(3, <<171, 205>>)>>
Zeros == <<Good(0, [i \in 1..16 |-> 0])>>
Long  == <<Good(0, [i \in 1..34 |-> i]), Good(258, <<7>>)>>
Spoilt == Line(0, 1, <<9>>, 1) \o Break \o Line(0, 2, <<8>>, 0) \o Break

Built == <<
  \* two records
  Post(3, Record(Two[1]) \o Break \o Record(Two[2]) \o Break \o Eof, 1, Two, TRUE, 16),
  \* LF only, lower case, spaces, and a name that lies across the end of the ring
  Post(65, LowerCase(Record(Two[1]) \o <<SPACE, LF>> \o Record(Two[2]) \o <<LF>> \o Eof) \o <<LF>>,
       1, Two, TRUE, 40),
  \* all of the memory is 0, an empty line across the end of the ring, and the longest boundary that fits
  Post(58, Record(Zeros[1]) \o Break \o Eof, 46, Zeros, TRUE, 36),
  \* a line of 34 bytes, the most that fits, and a record at a high address
  Post(0, Record(Long[1]) \o Break \o Record(Long[2]) \o Break \o Eof, 0, Long, TRUE, 34),
  \* a record with a bad checksum, a record of unknown type, a line that is too long
  Post(0, Spoilt \o Text(70) \o Line(0, 3, <<7>>, 0) \o Break \o Eof, 1, <<>>, FALSE, 30),
  Post(0, Line(4, 0, <<0, 0>>, 0) \o Break \o Eof, 1, <<>>, FALSE, 20) >>

Forms == Built         \* a name of its own, so that TLC builds them only once

Links == {4, 5}
Memory == 0..15
Chips == {0, 16}
OtherPages == {"ProgData", "404"}
=============================================================================
