-------------------------------- MODULE Lfsr --------------------------------
(***************************************************************************)
(* The 16-bit shift register of lfsr.c behind ports, sequence numbers and  *)
(* the choice of an NTP server.                                            *)
(***************************************************************************)
EXTENDS Integers, Bitwise

TOGGLE_MASK == 46080         \* 0xB400

\* "0x08 ensures not initialised as 0"
initLFSR(tcnt0, timecount) == ((tcnt0 * 256) | timecount) | 8

\* "avoid if XOR would create 0"
shuffleLFSR(lfsr, shuffle) == IF shuffle # lfsr THEN lfsr ^^ shuffle ELSE lfsr

shuffleTimeLFSR(lfsr, tcnt0, timecount) == shuffleLFSR(lfsr, (timecount * 256) | tcnt0)

Output(lfsr) == lfsr % 2

nextLFSRShort(lfsr) ==                                         \* mutant: a tap is missing
  IF Output(lfsr) = 1 THEN (lfsr \div 2) ^^ 45056 ELSE lfsr \div 2
nextLFSR(lfsr) ==
  IF Output(lfsr) = 1 THEN (lfsr \div 2) ^^ TOGGLE_MASK ELSE lfsr \div 2
=============================================================================
