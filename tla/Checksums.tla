----------------------------- MODULE Checksums ------------------------------
(***************************************************************************)
(* The Internet checksums of network.c and linkENC28J60.c, which are put   *)
(* together from parts: the headers and the first bytes of a packet are in *)
(* the microcontroller's buffer, the others in the memory of the ENC28J60, *)
(* and a page is summed up block by block on its way there.                *)
(*                                                                         *)
(* A frame and a buffer are functions from 0 on to bytes.  A word of the   *)
(* microcontroller has its low byte first; the sums fit into the 32 bits   *)
(* they have.  IP options (which the device never sends) are left out.     *)
(***************************************************************************)
EXTENDS Integers, FiniteSetsExt

CONSTANT MAX_STORED_SIZE         \* bytes of a packet in the microcontroller

ETH_HEADER_SIZE == 14
IP_HEADER_SIZE  == 20
TCP_HEADER_SIZE == 20
UDP_HEADER_SIZE == 8
TransportAt     == ETH_HEADER_SIZE + IP_HEADER_SIZE
BLOCK_OF_PAGE   == MAX_STORED_SIZE - (TransportAt + TCP_HEADER_SIZE)

\* "Quickest if even no., achieved by MAX STORED even"
ASSUME StoredAssumption == BLOCK_OF_PAGE \in Nat \ {0} /\ MAX_STORED_SIZE % 2 = 0

ICMPinIP4 == 1
TCPinIP4  == 6
UDPinIP4  == 17

IP_CHECKSUM_AT == ETH_HEADER_SIZE + 10
CHECKSUM_AT(protocol) ==
  TransportAt + CASE protocol = ICMPinIP4 -> 2
                  [] protocol = UDPinIP4  -> 6
                  [] protocol = TCPinIP4  -> 16

BYTESWAP16(n) == (n % 256) * 256 + n \div 256

Word(f, at) == f[at] + 256 * f[at + 1]
PutWord(f, at, w) == [f EXCEPT ![at] = w % 256, ![at + 1] = w \div 256]

(* The sum of F(i) for i in S, by sixteens so that the folds stay flat *)
SumOver(F(_), S) ==
  MapThenSumSet(LAMBDA c : MapThenSumSet(F, {i \in S : i \div 16 = c}), {i \div 16 : i \in S})

(* The sum so far and n words from at on *)
checksumBare(scratch, f, at, n) ==
  scratch + SumOver(LAMBDA i : Word(f, at + 2 * i), 0..(n - 1))

(* A last odd byte, with a zero behind it *)
OddByte(f, at, bytes) == IF bytes % 2 = 1 THEN f[at + bytes - 1] ELSE 0

pktCsumRaw(f, at, bytes) == checksumBare(0, f, at, bytes \div 2) + OddByte(f, at, bytes)

resolveCsumOnce(csum) ==                                 \* mutant: one carry only
  65535 - (((csum % 65536) + csum \div 65536) % 65536)
resolveCsum(csum) ==
  LET once == (csum % 65536) + csum \div 65536
  IN  65535 - ((once + once \div 65536) % 65536)       \* "Could have regenerated a carry"

checksum(f, at, n) == resolveCsum(checksumBare(0, f, at, n))

headerLength(f) == f[ETH_HEADER_SIZE] % 16
totalLength(f)  == BYTESWAP16(Word(f, ETH_HEADER_SIZE + 2))
protocolOf(f)   == f[ETH_HEADER_SIZE + 9]

IP4checksum(f) == checksum(f, ETH_HEADER_SIZE, headerLength(f) * 2)

ICMPchecksum(f) ==
  LET length == totalLength(f) - headerLength(f) * 4
  IN  IF length % 2 = 1
      THEN checksum([f EXCEPT ![TransportAt + length] = 0], TransportAt, (length + 1) \div 2)
      ELSE checksum(f, TransportAt, length \div 2)

(***************************************************************************)
(* b is the buffer, of which inBuffer bytes are of the packet, and chip    *)
(* the packet in the ENC28J60; stop is where to stop, 0 for the end, and   *)
(* csum a sum made before.  The checksum in the packet is passed over.     *)
(***************************************************************************)
TransportCsum(chip, b, inBuffer, stop, csum, protocol) ==
  LET size    == ETH_HEADER_SIZE + totalLength(b)
      stopAt  == IF stop = 0 THEN size ELSE stop
      dataAt  == TransportAt + (IF protocol = TCPinIP4 THEN TCP_HEADER_SIZE ELSE UDP_HEADER_SIZE)
      payload == Min({inBuffer - dataAt, stopAt - dataAt})
      after   == CHECKSUM_AT(protocol) + 2
      header  == checksumBare(BYTESWAP16(protocol), b, TransportAt,
                              (CHECKSUM_AT(protocol) - TransportAt) \div 2)
      data    == checksumBare(0, b, after, (dataAt - after) \div 2 + payload \div 2)
      rest    == IF stopAt > inBuffer THEN pktCsumRaw(chip, inBuffer, stopAt - inBuffer)
                                      ELSE OddByte(b, dataAt, payload)
      length  == IF protocol = TCPinIP4 THEN BYTESWAP16(size - TransportAt)
                                        ELSE Word(b, TransportAt + 4)
  IN  resolveCsum(checksumBare(csum + header + data + rest + length, b, ETH_HEADER_SIZE + 12, 4))

-----------------------------------------------------------------------------
(* linkPacketSend: the frame that leaves for a buffer b *)

Inserted(f, b, chip, inBuffer, stop, csum) ==
  LET p == protocolOf(b)
      t == IF p = ICMPinIP4 THEN ICMPchecksum(PutWord(b, CHECKSUM_AT(p), 0))
                            ELSE TransportCsum(chip, b, inBuffer, stop, csum, p)
  IN  PutWord(PutWord(f, IP_CHECKSUM_AT, IP4checksum(PutWord(b, IP_CHECKSUM_AT, 0))),
              CHECKSUM_AT(p), t)

(* "Short packet within RAM array" *)
SendShort(b, length) ==
  LET f == [i \in 0..(length - 1) |-> b[i]]
  IN  Inserted(f, b, f, length, 0, 0)

(***************************************************************************)
(* "Complex packet with callback function": data is what the callback      *)
(* returns, in blocks, and the buffer keeps the last one.                  *)
(***************************************************************************)
BlockSum(data, len, i) ==
  pktCsumRaw(data, i, IF len - i > BLOCK_OF_PAGE THEN BLOCK_OF_PAGE ELSE len - i)
Precompute(data, len) ==
  MapThenSumSet(LAMBDA i : BlockSum(data, len, i), {i \in 0..(len - 1) : i % BLOCK_OF_PAGE = 0})

SendComplex(b, dataAt, data, len) ==
  LET f == [i \in 0..(dataAt + len - 1) |-> IF i < dataAt THEN b[i] ELSE data[i - dataAt]]
  IN  Inserted(f, b, f, Min({dataAt + len, MAX_STORED_SIZE}), dataAt, Precompute(data, len))

(***************************************************************************)
(* A message to a DHCP server has fields in the middle that are 0, and the *)
(* cookie, which the buffer does not hold.                                 *)
(***************************************************************************)
magic_cookie == <<99, 130, 83, 99>>
MAGIC_CSUM   == BYTESWAP16(46821)                        \* 0xB6E5
Zeros        == 10 + 64 + 128

SendDHCP(b, length) ==
  LET dataAt == TransportAt + UDP_HEADER_SIZE
      here   == dataAt + 34
      cookie == here + Zeros
      over   == length - (dataAt + Zeros + 4)
      csum   == checksumBare(BYTESWAP16(UDPinIP4) + MAGIC_CSUM, b, ETH_HEADER_SIZE + 12, 7)
                + Word(b, TransportAt + 4) + pktCsumRaw(b, dataAt, over)
      f == [i \in 0..(length - 1) |->
              IF i < here THEN b[i]
              ELSE IF i < cookie THEN 0
              ELSE IF i < cookie + 4 THEN magic_cookie[i - cookie + 1]
              ELSE b[i - Zeros - 4]]
  IN  PutWord(PutWord(f, IP_CHECKSUM_AT, IP4checksum(PutWord(b, IP_CHECKSUM_AT, 0))),
              CHECKSUM_AT(UDPinIP4), resolveCsum(csum))

-----------------------------------------------------------------------------
(***************************************************************************)
(* linkPacketHeader: what becomes of a frame in the chip.  One with a      *)
(* wrong UDP or TCP checksum ends in while (1).                            *)
(***************************************************************************)
linkPacketHeader(chip, size, stale) ==
  LET n == Min({size, MAX_STORED_SIZE})
      b == [i \in 0..(MAX_STORED_SIZE - 1) |-> IF i < n THEN chip[i] ELSE stale]
      p == protocolOf(b)
  IN  IF IP4checksum(b) # 0 THEN "ignored"
      ELSE IF p = ICMPinIP4 THEN IF ICMPchecksum(b) = 0 THEN "accepted" ELSE "ignored"
      ELSE IF TransportCsum(chip, b, n, 0, 0, p) = Word(b, CHECKSUM_AT(p)) THEN "accepted"
      ELSE "hung"
=============================================================================
