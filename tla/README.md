# A verification project for the microcontroller TCP/IP stack

TLA+ models of the stack in `src/` (an AVR microcontroller behind an ENC28J60
Ethernet chip), TLC configurations that check them on small instances, and
TLAPS proofs of what holds for every size. The models follow the build that
the repository is configured for, `HELLO_HTTP_WORLD` with `USE_DHCP`,
`USE_APIPA`, `USE_LLMNR` and `PROTECT_TCP`; where a property depends on another
build the module has a constant for it. `Clock` models the builds that have
`USE_NTP` and `USE_DNS` (`NETWORK_CONSOLE`, `MSF_CLOCK`), `Upload` and `Pages`
the networked programmer (`NET_PROG`), `Names` the builds with `USE_LLMNR` or
`USE_mDNS`.

## 1. Inventory

There is one main loop (`main.c`) and one interrupt (`ISR(TIMER0_OVF_vect)`,
once a second). The loop sends what is due, calls `handlePacket`, which reads
at most one frame, and looks at `iCount`, whose wrap is the only timer of the
IP configuration. Every send goes through `launchIP4`, which calls
`resolveMAC`, which blocks and reads further frames itself. All state is
global.

| component | source | state | operations | what makes it correct |
|---|---|---|---|---|
| TCP server | `transport.c`, `applicationHelloWorld.c` | `TCB[TCP_SERVER]` | `handleTCP`, `handleMetrics`, `TCP_SYN_ACK`, `TCP_ACK`, `TCP_ComplexDataOut`, `TCP_FIN`, `TCP_RST`, `sendHTML` | one answer per request, an answer that is whole, nothing acknowledged that was not handed over, strangers without effect, the TCB released |
| MAC table | `network.c` | `ARP_held`, `known_IP_addresses` | `learnMAC`, `knownMAC`, `resolveMAC`, `handleARP`; `refreshMACList` in the interrupt | indices in bounds, a MAC from which the next hop was heard, expiry, `resolveMAC` returns |
| ENC28J60 receive path | `linkENC28J60.c` | ring pointers, `EPKTCNT`, `inProgress`, bank and `currentBank` | `linkPacketHeader`, `linkDoneWithPacket`, `linkPacketSend`, `setBank` | no phantom frames, no lost space, an exact count, the right bank, a payload read from its own frame |
| IP configuration | `applicationCore.c`, `main.c`, `network.c` | `MyState.IP`, `myIP`, `myPreferredIP`, `subnetMask`, `GWIP`, `subnetBroadcastIP`, `iCount2` | `initiateDHCP`, `requestDHCP`, `handleDHCP`, the link-local fallback | one origin, a bound lease, final, no address in use by another, eventually an address |
| UDP ports | `transport.c` | `UDP_Port[]`, `UDP_low_port` | `handleUDP`, `newPort` | a fresh port, a search that ends |
| time (NTP, DNS) | `applicationCore.c`, `main.c` | `MyState.TIME`, `NTPIP`, `time_now` | `queryNTP`, `handleNTP`, `handleDNS` | never stuck in a waiting state, no stale answer taken |
| calendar | `applicationCore.c` | none | `leapYear`, `summerTimeCorrection`, `getTime`, `parseTime` | agrees with the Gregorian calendar, mutually inverse |
| name responders | `applicationCore.c` | none | `handleLLMNR`, `handleMDNS`, `hostMatch` | answers its own name, and no other but those `hostMatch` mistakes for it |
| checksums | `network.c`, `linkENC28J60.c` | none | `checksum`, `checksumBare`, `TransportCsum`, the sums made by `linkPacketSend` | what is sent verifies, what verifies is accepted, however a packet is split between buffer and chip |
| random numbers | `lfsr.c` | the register | `nextLFSR`, `shuffleLFSR` | never the zero state |
| HTTP POST upload | `application.c` | `ringBuffer`, `bufferPtr`, `POSTflags`, SPI RAM, `cfmnonce`, the chip | `sendHTML`, `resetHTTPServer` | records stored whole and in order, an answer only when all is stored, and one for every client that stays |
| pages | `application.c`, `applicationCore.c` | none | the callbacks (`EEPROMData`, `ProgData`, ...), `PreambleData` | the blocks make the page, however it is cut |
| FTP client | `application.c` | reply state, queue | `handleFTP` | in no build |
| programmer, clock hands, drivers | `isp.c`, `stepper.c`, `where.c`, `w25q.c`, `rtc.c`, `mem23SRAM.c`, `power.c`, `init.c` | hardware | register sequences | - |

What is hard here: the interrupt that changes a table the main loop is
reading; the nesting of `linkPacketHeader` in handlers through `resolveMAC`;
lost, repeated and reordered segments and DHCP messages; sequence numbers that
wrap; a single TCB and a timer that does not exist; a retry timer that races
an answer; a file that arrives in pieces and is parsed in a ring; a page that is
drawn and a checksum that is made in parts. `PROJECT.json` lists these as hazards, each at its line.

## 2. Modules

| module | models | state to code |
|---|---|---|
| `Tcp` | `handleTCP` on one segment, server role, any segment in any state | `tcb` is `TCB[TCP_SERVER]`; `out` the segments launched; `dataIn` the `newData` given to `TCP_DataIn`; `answers`, `finOut` histories |
| `TcpSystem` | `Tcp` with RFC 793 clients and a network (both external) | `handed` is the history of the bytes that `sendHTML` was given, `current` those of the connection that is open, `served` the pages sent and the number their first byte has; `lost` says that a segment was lost which nobody sends again |
| `Arp` | the MAC table under the main context and the interrupt | `arp` is `ARP_held`; `cpu` the program counter and locals of `learnMAC`/`resolveMAC`; `isr` the loop index of `refreshMACList`; `asked` says that an ARP request or the reply to it is under way (external); `heard`, `age`, `shuffled` histories |
| `Link` | the receive side of the driver under `handlePacket` and `resolveMAC` | `link` holds the chip's registers and the driver's static variables; frames are numbered |
| `Address` | abstract: what an IP configuration promises | `address` is the configuration in force, `granted` the servers that have bound theirs |
| `IpConfig` | DHCP and APIPA, an implementation of `Address` | `st` is `MyState.IP`, `cfg` the addresses, `phase` the place in a round of the main loop |
| `Clock` | the NTP and DNS client, `newPort` and the UDP dispatch, the seconds counted by the interrupt | `state` is `MyState.TIME`; `net` the datagrams under way (external); `since`, `torn`, `named`, `faults` histories |
| `Upload` | `sendHTML` of the programmer: POST parser, HEX file, SPI RAM, chip, GET requests, byte by byte | variables as in the code; `req`, `pos` the client's request (external); `before`, `resent` histories |
| `Calendar`, `Lfsr` | the pure functions of the calendar and of `lfsr.c`, as operators | no state |
| `Pages` | the page callbacks, `PreambleData`, the block loop of `linkPacketSend` | no state; `env` is what they read |
| `Names` | `hostMatch`, `handleLLMNR`, `handleMDNS` | no state |
| `Checksums` | the Internet checksums, in the buffer, in the chip and on the way between them | no state |
| `Almanac` | sets `Calendar` to work: a clock that passes through the moments of every day | `time` |
| `Responder` | sets `Names` to work: a query that is heard and answered or not | `heard` |
| `PureCode` | sets all of these to work: the clock of `Almanac`, the message of `Responder`, a register that is stepped and shuffled, a page drawn block by block, a packet sent, damaged and received | these and `lfsr`, `steps`, `block`, `frame` |
| `TcpProofs`, `TcpSystemProofs`, `ArpProofs`, `LinkProofs`, `IpConfigProofs`, `ClockProofs`, `PureProofs` | theorems | - |
| `Modular` | facts about remainders that the proofs share | no state |
| `MC...` | instances for TLC | - |

One action stands for one way through a handler, from its entry to its return,
sends included. The exceptions are deliberate: in `Arp` the main context
advances by one table access at a time, because the interrupt may arrive
between any two, and the choice of what the compiler keeps in a register
(`known_IP_addresses` is not volatile) is nondeterministic; in `Link` a handler
that must ask for a MAC is split where frames can arrive.

Operators marked *mutant* in the modules are wrong versions of the definition
below them. No specification uses them; they show, for every property, a
plausible bug that it would catch.

### Abstractions

* TCP: sequence numbers are modulo a constant `M` (2^32 in the code); payload
  is its length and whether it begins with GET. `windowSize` and `age` are
  written and never read in this build, and `scheduleReTx` returns at once, so
  there are no retransmissions by the server.
* ARP: addresses that `resolveMAC` answers without the table (broadcast,
  multicast) are left out. The interrupt is never masked in the code, so it may
  come at every access to the table. `shuffled` is set when it drops an entry
  that a search has passed or whose index is in use; what the code then does is
  in the model, and the invariants that it destroys are stated for behaviours in
  which it has not happened yet. An ARP request of ours or its reply may be
  lost at any time.
* Link: a frame is its kind; the ring is counted in frames; transmission is
  its bank access. `PKTDEC` at zero is taken to stay at zero.
* IP configuration: a server has one address to lease and always sends a mask
  and a router, which need not be itself; the transaction ID is a constant of
  the build and tells nothing apart. `iCount2` is counted up to the threshold
  only.
* Clock: a server's time and address are arbitrary values chosen when its answer
  is handled; which of three names is looked up, the names themselves and the
  records of an answer are left out (an answer gives an address or none). A
  time is read byte by byte, and a second may pass between any two (`Readings`,
  with the byte boundaries in `Cuts`); `torn` is set when that gives neither
  second's time. A datagram is gone when `Lifetime` queries have followed
  it. The address of the device is set.
* Upload: a request is one of a few byte sequences (`MCUpload`) with its allowed
  segment ends; what is not read by the parser (headers, other parts of the
  form) is a few bytes long. `uploadTo`, `bdry` and `bytesInPOST` are written
  without effect and left out. A line that claims to be longer than the ring has
  its checksum behind the ring: either outcome is possible. Reads of the chip
  return 0, as `sendCommandData` does.
* Pages: constant texts and pixels are opaque, only their lengths count
  (`HeadLen`, `MidLen`, `TailLen`).
* Names: a name is the host name, alone or in `local`, one that goes on behind
  `local`, a cross reference, or another. A question's type and class are the
  bytes behind the place where `hostMatch` ends its name. Messages are shorter
  than the 256 bytes that the index of 8 bits can count.
* Checksums: bytes and 16-bit arithmetic as in the code; the buffer has
  `MAX_STORED_SIZE` = 90 bytes in the run (424 in the code) so that packets are
  longer than it. Packets have no IP options.
* Link: in `resolveMAC` a TCP segment may be found right or wrong, since its
  checksum is taken over memory behind the buffer (`FoundWrong`).
* Calendar: the loops that count off years and months are given by the year and
  the month at which they stop.

## 3. Runs

| run | module and bounds | shows |
|---|---|---|
| `MCTcp` | 2 hosts, 2 ports, `M` = 4, pages of 2 segments | all segment sequences: `AnsweredOnce`, `ResetsOnlyOthers`, `NotTakenOver`, `StreamIsGapless` |
| `MCTcpStale` | 1 client, 2 connections of one port, duplication | `AckedButOneIsHanded`, `AnswerIsWhole`, `AckWithinSent`, `NoStaleData` |
| `MCTcpLive` | fairness, clients that may lose power, any segment may be lost | `ServerFreed` |
| `MCArp` | 2 slots, 3 addresses, interrupts anywhere | `IndexInBounds`, `NoDuplicates`, `ResolvedWasHeard`, `AddressIsFresh` |
| `MCArpLive` | 1 slot, 3 addresses that move, ARPs that are lost, interrupts anywhere, fairness | `ResolveReturns` |
| `MCLink` | every kind of frame, a ring of 2, 4 frames, MACs that may be unknown, fairness | `NoPhantomFrame`, `SpaceReturned`, `RightBank`, `CountIsExact`, `PayloadIsCurrent`, `EveryFrameRead` |
| `MCIpConfig` | 3 servers, one of which is not the router it names, the code's 5 rounds, 3 conflicts, fairness | `OneOrigin`, `KeepsPromise` (the refinement of `Address`), `RequestMatchesOffer`, `AddressObtained` |
| `MCClock` | 1 server, 4 ports, datagrams that outlive 2 queries, times modulo 4 read in two pieces, fairness | `AnswersLatestQuery`, `RenewedWhenDue`, `NewServerAsked`, `TimeObtained` |
| `MCPureCode` | 8 moments of every day from 2000 to 2028; all 65535 values of the register; pages for 4 chips cut at 1, 7, 350 and 1460 bytes; queries of up to 3 questions with every kind of name; packets of every kind and parity, up to 80 bytes beyond the headers, with a byte changed or not | `ParsedRight`, `MaximumPeriod`, `BlocksMakeThePage`, `OnlyOwnNameAnswered`, `ChecksumsAgree` |
| `MCUpload` | 2 connections, files that are sound, spoilt or cut short, segments that end inside digit pairs and line ends, an EEPROM of 0 and of 16 bytes, fairness | `RecordsInOrder`, `AnsweredIsStored`, `RequestAnswered` |

The bounds are chosen so that each case happens: `M` is small enough for every
sequence number to wrap in every state (`MCTcp`) or is larger than all bytes of
the run with the first numbers just below the wrap (`TcpSystem`, where an old
connection must stay distinguishable, as 2^32 numbers do for it); a page takes
two segments and a request at least two bytes; the ARP table overflows with
the addresses given (two slots where the code has three, and three addresses to
fill them; the proofs cover every size; `MCArpLive` has one slot, so that every
foreign ARP drives out the reply); the ring of two frames is filled
within a handler and emptied by `resolveMAC`; three conflicts take a link-local
address over its octet limit; ports and seconds wrap within a few queries, and
`Lifetime` is the largest for which a port does not come round to a datagram
that is still under way (as it does not among 16384 ports); 29 years have every
weekday for every change to summer time, seven leap years and the year 2000;
the packets include ones whose sum carries twice and whose checksum is 0; a page
block is larger and smaller than a line; the ring of the parser wraps before the
file begins, and is filled to its end by a line.
`MaxConns`, `MaxOpens`, `MaxFrames`, `MaxConflicts` and `LastYear` bound
counters only. Deadlock is not checked where a bounded environment runs out of
connections, frames, conflicts, years or requests; it is in `MCClock`, where a second can
always pass.

### Where comments and code disagree

These runs are expected to be violated. Each checks one statement of a comment
against what the code does:

| run | statement | what happens |
|---|---|---|
| `MCArpRace` | `ResolvedIsNextHop`: `network.c:415` | an interrupt between look-up and use: another machine's MAC |
| `MCLinkHang` | `NeverHangs`: `network.c:417` "Stay blocked in this routine (DISCARDING other packets) until we have an ARP answer" | a TCP segment is not discarded: it is read into a buffer of 42 bytes, its checksum is taken over what lies behind it and found wrong, and `linkPacketHeader` ends in `while (1)` |

Further disagreements, met while modelling. The modules state them as
properties; the constants given reproduce the counterexample when the property
is added to the configuration of the module:

| property | statement | what happens | with |
|---|---|---|---|
| `TcpSystem!AckedIsHanded` | `transport.c:347` "You provide the ack for the byte you next expect." | the ACK that completes the handshake sets `lastByteReceived` to the byte still to come; a duplicate that is acknowledged next gets an ACK for a byte nobody has read. `AckedButOneIsHanded` says it is never more than that one byte | as `MCTcpStale` |
| `TcpSystem!ServerFreed` without either condition | `Transport.h:102` "Unused connection will timeout after this many s." | the call of `cleanupOldTCP` is commented out (`transport.c:112`) and `scheduleReTx` returns at once (`transport.c:274`): a client that loses power keeps the server, and so does one lost SYN ACK or FIN of the server, or one lost ACK of the client | as `MCTcpLive` |
| `TcpSystem!AckedButOneIsHanded` | `transport.c:772` "Accept only if we have in order data receipt" | a second data segment overtakes the first and completes the handshake; both are acknowledged, neither is read | `Pipelined = TRUE`, `StreamLen = 4` |
| `TcpSystem!NeverHeardBefore` | `transport.c:200` "newData is TCP data (not header) that we haven't heard before" | any ACK establishes (`transport.c:682`): a replayed SYN, ACK and GET are served again | `MaxOpens = 2`, duplication |
| `TcpSystem!ReadIsAnswered` | `transport.c:710` "Note if ACK not required, this isn't new data, so we ignore" | an ACK is required of every FIN, so the FIN of an earlier connection is acted on and ends the connection; a duplicate SYN opens the next one, the request is read there, and the client has seen a FIN and no page | `MaxOpens = 3`, duplication |
| `Arp!LearntIsStored` | `network.c:154` "Stores MAC-IP pairs" | an address that moved keeps its old MAC while it is heard: only its ticks are reset (`network.c:167`) | `MayMove = TRUE` |
| `Arp!EveryPairAges` | `network.c:121` "Called every tick to decrement tics" | the entry behind a dropped one is passed over | as `MCArp` |
| `Link!CountIsExact` without `nested` | `linkENC28J60.c:58` "Count of available packets" | a frame is given back twice and `EPKTCNT` is one too low | as `MCLink` |
| `Link!PayloadAlwaysCurrent` | `linkENC28J60.c:64` "Call when packet can be discarded from ENC28J60 memory" | `sendHTML` reads the payload after `handleTCP` has sent its ACK; when that needed an ARP, `linkPacketHeader` has given the frame back and moved on to another | as `MCLink` |
| `Link!NeverHangs` | `transport.c:870` "silently reject if necessary" | `while (1)` on a wrong checksum | `"bad"` in `Kinds` |
| `Link!RightBank` | `linkENC28J60.c:154` "Need to be in the right bank" | `currentBank` is stale after `linkInitialise`: the one write of `setClockoutScale` goes to bank 0 | `RightBank` without `clocked` |
| `IpConfig!RequestNamesOfferer` | `applicationCore.c:881` "Specify DHCP server who replied to us" | the router is named (`applicationCore.c:883`), which need not be the server | as `MCIpConfig` |
| `IpConfig!AddressIsFree` | `main.c:32` "will use ARP to ensure address is not already in use" | the reply to the probe is discarded in `linkPacketHeader` | as `MCIpConfig` |
| `IpConfig!GivenUpIsTaken` | `network.c:324` "Someone already using my proposed IP" | it was the device's own reply | as `MCIpConfig` |
| `IpConfig!ScheduledIsSent` | `applicationCore.c:1032` "Schedule a request" | the wrap of `iCount` in the same round forgets it | as `MCIpConfig` |
| `Clock!TimeObtained` without its condition | `main.c:519` "Make sure we don't stay in 'time requested' indefinitely if no reply." | the code under that comment is commented out (`main.c:513`): one lost answer leaves TIME_WAIT_DNS or TIME_REQUESTED for ever | as `MCClock` |
| `Clock!NewServerAsked` without `"repeated"` | `main.c:535` "enforcing new DNS" | a repeated DNS answer from before the renewal sets `NTPIP` again | as `MCClock` |
| `Clock!NeverRenewedEarly` | `main.c:535` "if not recently done" | the interrupt counts `time_now` up while it is being read: with a carry between the bytes read, a clock just set looks a day old | as `MCClock` |
| `Responder!NoOtherNameMatches` | `applicationCore.c:804` "looks for matching hostname, e.g. "host" will match "host" or "host.local"" | the end of the name is not looked for behind `local` (`applicationCore.c:828`), so the bytes of a further label are taken for type and class; a cross reference passes in front of all names, too (`applicationCore.c:812`) | as `MCPureCode` |
| `Almanac!SummerInSummer` | `applicationCore.c:165` "European rules as at 2009." | the test for winter is `month < 2`: February is taken for October, and summer | as `MCPureCode` |
| `Almanac!GetTimeIsUT` | `applicationCore.c:212` "seconds from 1 Jan 2000 0000 UT" | `getTime` adds the hour of summer time | as `MCPureCode` |
| `Almanac!ParsedRight` without `Regular` | the same | the first second of a month is the 32nd (or 29th to 31st) of the one before, since the loops stop when the time is equal; in the last hour of a month of summer the day is 0 | as `MCPureCode` |

| `PureCode!BlocksMakeThePage` without `IconFault` | `application.h:313` "Returns the requested number (length) of bytes from start in the result pointer" | an `else` is missing at `application.c:1743`: byte 122 of the icon puts two bytes into the result, the rest of that block is a place too far along and a byte too long | as `MCPureCode` |
| `Upload!SpoiltIsRefused` | `application.c:703` "do inisit on what we expected" | the error answers are commented out (`application.c:735`, `:761`) and a bad record only skips the rest of its segment: when a file of short records arrives in small segments, the ones after it are stored and the end record is answered | one bad record, six short good ones, segments of 8 bytes |
| `Upload!RequestAnswered` without `resent` | - | a POST that is sent again from its beginning in another cut starts the parser anew in the middle of the body (`application.c:707`); nothing is answered | as `MCUpload` |

And, without a property of their own, since the model simply does what the code
does:

* `application.c:858` "File ends when we see boundary again": the parser never
  looks for it once it is in the file. The end record is acted on at the next
  `:`, in the part of the form that follows, and the boundary between them has
  to fit into the line buffer: one of more than 46 characters, of the "1 to 70"
  of `application.c:881`, leaves the upload without an answer. `MCUpload` has one
  of 46.
* `application.c:767`: every upload goes to the EEPROM, whichever button was
  pressed; "Upload Successful" compares what is read back, which is 0, over
  `sizeOfEEPROM` bytes, which is 0 as built.
* `application.c:1086` "won't repeat": the nonce of 8 bits repeats, and link
  `erase00` is good from power up. A link that is out of date is not answered
  at all.
* `application.c:1601`: the length of a listing has 16 bits; one of more than 26 KB
  of flash is announced too short.
* `applicationCore.c:816`: after the first question of an mDNS query, only names
  that point back are compared at the right place (`OnlyOwnNameAnswered` says
  what is answered all the same).
* `linkENC28J60.c:773`, `:1064`: a UDP datagram that has no checksum, or 0xFFFF for
  a sum of 0, is found wrong, and ends in `while (1)`; one whose sum is 0 is sent
  as if it had none.
* `linkENC28J60.c:764` "is this right if options existed?": it is not; the header
  of TCP or UDP is looked for where the options are, and their length is taken
  off twice.

### Fairness

* The main loop never stops and the interrupt returns: weak fairness of
  `Link!Loop`, `IpConfig!Loop` and of the steps of `Arp`'s two contexts.
* `iCount` is a counter of rounds, so it wraps again and again: strong
  fairness of the steps that its wrap enables (`IpConfig!Wrap`).
* In `TcpSystem` the network may lose any segment. A client's SYN, data or FIN
  that is sent again whenever it is lost is handled in the end (strong fairness of
  `Handled`, weak fairness of the client that sends), and a client with power
  reads what is there for it. Nothing obliges the network to keep what is not
  sent again: all segments of the server, and a client's bare ACKs. Nothing
  obliges a client to begin. `ServerFreed` is about behaviours in which no such
  segment is lost and no client loses its power; otherwise the code has neither
  a retransmission nor a timeout to release the TCB.
* In `Arp` a reply to our own request that is under way is read, however many
  other ARPs come first (strong fairness of `ListenReply` while `asked`), unless
  `LoseARP` takes it, which it may at any time. The code asks once, and again only
  when some other ARP is heard; it blocks for ever otherwise, as `main.c:39` says
  ("Will HANG if no response"), and `ResolveReturns` names that outcome. It also
  excepts behaviours in which an interrupt hits the few instructions between
  reply and use again and again, so that the entry expires each time.
* In `Clock` the main loop comes round to its visits (weak fairness of the two
  queries), and a datagram that is not lost is answered and read (weak fairness
  of `Answer` and `handleUDP`). The code asks only once, so `TimeObtained` is
  about behaviours in which nothing is lost and every name is found.

* In `Upload` TCP delivers what a client sends that does not give up, and the
  server deals with every segment (weak fairness of `First`, `NextByte` and the
  GETs). Nothing obliges a client to connect or to stay; `RequestAnswered` ends
  where it gives up or sends its POST again.

## 4. Proofs

All theorems hold for every value of the constants under the named
assumptions in the modules that declare them.

* `TcpProofs`: `TypeCorrect` (the inductive invariant is `TypeOK` itself,
  with lemmas that `Plus` and `LastByte` stay within the modulus),
  `OneAnswerPerConnection`, `ConnectionNotTakenOver`, `ResetsAreForOthers` and
  `StreamHasNoGap`. `AnsweredOnce` is not inductive: that a second page is
  impossible follows only because a page leaves ESTABLISHED, so it is proved
  together with `FinMatchesStatus`. The lemmas `StepShape`, `OutShape` and
  `CounterShape` say once, for all ways through `handleTCP`, how a step may
  change status, counters and peer and what it launches; that a page is cut
  without a gap, for every length and payload limit, is the one lemma about
  `TCP_ComplexDataOut` behind them.
* `TcpSystemProofs`: the server among any number of clients, on the network
  that loses, delays, reorders and duplicates. The lemmas `PeerShape` and
  `ServerShape` say what a step of a client and of the server adds to the
  network. `SysTypeCorrect` rests on `SysTyped`: every segment under way lies
  in the stretch of numbers of the connection it is of.
  `AcksAreWithinSent` rests on `AckInv`: every acknowledgement in the system,
  in the TCB, under way or about to be made by a client, lies behind what the
  server has sent by no more than the leaps of `lastByteSent` so far (a new
  ISN or a page). Sequence numbers are compared in half their range, so this
  needs `LeapsFit`: the leaps that fall into the life of a segment (two for each
  of `MaxOpens` connections) make up less than half of it. `LeapsFit` holds
  in `MCTcpStale` (K = 4), and with the code's numbers for about 16000
  connections within the life of a segment.
  `StaleDataIsRejected` adds `DataInv`: while the handshake is on, only the
  connection whose SYN opened the server's can acknowledge the server's SYN
  (the reason is the fresh ISN, by `AckInv`), and from then on the last byte
  received lies in that connection's stretch. Its second hypothesis,
  `StretchesFit`, is about the client: consecutive initial sequence numbers
  are further apart than a request is long, and all connections of the model
  lie within half the range.
  Its second part is about what a client may conclude. The first thing is
  `AckedIsReadButOne`, for requests of one segment of two
  bytes or more that are not followed by the FIN before they are acknowledged
  (`OneSegment`), under the hypotheses of `StaleDataIsRejected`. It rests on
  `ReadInv`: the segments of a client begin at the first byte of the request,
  behind it or behind the FIN, so the ACK that completes the handshake cannot
  set `lastByteReceived` to a place within the request. Wherever it does stand
  there, `sendHTML` was given the request, and an acknowledgement under way of
  two bytes or more says the same. Without `OneSegment` the statement is not
  true of the code: a pure ACK sent after data can complete the handshake at a
  later byte, and data that is then packed differently when sent again is
  acknowledged unread. With a request of one byte the byte that is miscounted
  is all of it.
  The second thing is `PageIsWhole`: a client that gets data has had its request read,
  and one that sees the server's FIN has all of one page or, where none was sent
  on the connection it is in, nothing (`AnswerIsWhole`), for requests of any
  packing, under the hypotheses of `StaleDataIsRejected`. The difficulty is that
  the state keeps no trace of a connection of the server that is over, while its
  segments are still under way. `PageInv` therefore says that there *is* a log of
  all of them, `\E g : Log(g, K) /\ ...`: of each the peer, the peer's connection,
  the number of the first byte and the length of the page. Numbers of different
  connections are disjoint, and since all leaps together fit into half of the
  range (`LeapsFit`) also disjoint modulo `M`, so a sequence number identifies its
  connection (`SameConnOf`). Every segment from the server under way belongs
  to one entry, a FIN only to one that the server has ended, and what an open
  client has taken is the beginning of exactly one entry: a later segment with
  the expected number can only be of the same one. Each handler extends the log
  (`PageBySyn`: a new entry with an empty page), gives its last entry a page
  (`PageLater`), or leaves it.
* `ArpProofs`: all for any arrival of the interrupt and for addresses that move.
  `TypeCorrect` and `IndexSafe` hold without a condition; the strengthening says
  what each value of the program counter knows of its index although the table may
  have shrunk since. The others are about the behaviour until the interrupt drops
  an entry under an index in use (`shuffled`), since after that the statements are
  false of the code (`MCArpRace`). The lemma `EntryShape` shows that any
  other drop is harmless: what lies below the dropped entry keeps its place, and
  the entries in use do.
  `ResolvesRight` rests on `TableTrue`: every pair in the table, every pair being
  written and every index about to be used is one that was heard.
  `NoAddressTwice` rests on `Unique`: what the search of `knownMAC` has compared
  so far stays compared until the entry is complete. `AddressesAreFresh` rests on
  `TableFresh`: age, remaining ticks and slot number of an entry add up to a
  constant bound, because an entry that `refreshMACList` passes over comes down a
  slot. That makes the bound of `AddressIsFresh` (one second for each slot) the
  right one.
* `LinkProofs`: `RingSound`, `SpaceIsReturned` and `BankIsRight` from one
  inductive invariant: the frame count is never too high (it may be too low),
  freed space and frames read differ by the frame in progress, and while one is
  in progress the chip is in bank 0 and `currentBank` agrees with it. What
  `FoundWrong` adds to the model does not matter to them. `CountExact` and
  `PayloadCurrent` rest on `Undisturbed`: as long as no handler had to ask for a
  MAC the count is exact at every step, the frame in progress included, and a
  handler still holds the frame it was called for.
* `IpConfigProofs`: `TypeCorrect`, `ConfigSound`, `RequestIsOfOneOffer`,
  `ConfigIsFinal`, and `PromiseKept`: `IpConfig` implements `Address` under the
  mapping of the configuration in force and of the leases bound. The
  strengthening says that an ACK under way was bound by its server, that a
  scheduled or outstanding request has its offerer's address and router, and
  that a link-local address is proposed with its mask.
* `ClockProofs`: `TypeCorrect`, whose core is that the search of `newPort` ends:
  among more ports than protocols one is free, so the `CHOOSE` has a witness.
  `RenewalIsDue` rests on `ElapsedIsSince`: as long as less than the refresh time
  has passed and no reading was cut in two, the unsigned difference of `time_now`
  and `time_set` is exactly the number of seconds that the interrupt has counted.
  It assumes nothing about when the interrupt comes: `ReadingsType` and
  `NoneElapsed` deal with a second that passes within a reading.
  `NewServerIsAsked` rests on `OneAtATime`: without repetition there is one
  question at a time, so an old DNS answer cannot arrive at the present port.
  `LatestQueryIsAnswered` rests on `PortsInv`: the latest port is ahead of a
  message's by the number of queries since, or by one more where `newPort`
  passed over the other protocol's port, and it does that at most once in the
  life of a message. This is where `PortsAssumption` (two more ports than the
  queries a message survives) is needed.

* `PureProofs`: what `PureCode` says of names and of the calendar, for the
  modules `Responder` and `Almanac`, of which it takes the variables `heard` and
  `time` with their actions unchanged (`PureCode` itself uses `Bitwise`, and no
  theorem can). Both are about loops, so both need an induction over data, which
  the library has only with an operator for a parameter. Here it is first-order:
  a set of naturals that is not empty has a least element (`LeastElement`, from
  the theorem that `<` is well-founded on them), applied to the set of rounds
  in which the claim is false (`FirstRound`). A recursive function is equal to
  its closed form because the closed form solves its equation.
  `OwnNameIsAnswered`: whatever message is heard, of however many questions with
  whatever names, a reply means a question for the device's own name or for one
  that `hostMatch` mistakes for it (`Mistaken`), has the length of the records for
  it, and is not missing when the first name is the device's own and the names up
  to such a question refer back. The
  lemmas `StaysWithin` and `PassesOver` say where the loop of `handleMDNS` can be.
  `CalendarIsRight`: for any moments of the day and any last year up to 2100,
  `parseTime` gives the Gregorian date of the reference definition, the weekday
  and the hour of summer time, `getTime` undoes it in winter, and a day that the
  month does not have appears at the edges of months only. The lemmas on the way:
  `YearStarts` and `MonthStarts` give the loops' sums in closed form,
  `GregorianDays` says that they are the day numbers of the Gregorian calendar,
  `YearFound` and `MonthFound` where the loops stop, `SundayFormula` that
  `31 - (5 * year / 4 + k) % 7` is the last Sunday of March and October, and
  `SummerRight` that summer time is found between them, in every month but
  February. `LastYearAssumption` (no later than the beginning of 2100, which is
  none of the fourth years that are leap years) is needed for `SundayFormula`;
  the code's 32 bits of seconds from 2000 last until 2136.

Model-checked only:

* `MaximumPeriod`, `BlocksMakeThePage` and `ChecksumsAgree` in `PureCode`, and
  `RecordsInOrder` and `AnsweredIsStored` in `Upload`: their statements are
  about what a fold over bytes computes, or they use `Bitwise`;
* all liveness (`ServerFreed`, `ResolveReturns`, `EveryFrameRead`,
  `AddressObtained`, `TimeObtained`, `RequestAnswered`), which depends on
  fairness and `ENABLED`.

## 5. Not modelled, and the plan

Not modelled: the peripheral drivers and the programmer's SPI sequences (pure
I/O without decisions), configuration headers, LCD output and wording; the FTP
client, which no configuration compiles (`USE_FTP` is commented out and it calls
functions that are not in the repository); the applications of other builds
(stepper clock, whereabouts, house and power meter pages); IP options; the TCP
client role, which no build of this repository uses but FTP's.

Left of the plan, in this order:

1. `Ring`: the byte arithmetic of the receive ring (errata 14, wrap of a
   header), refining the numbered frames of `Link`.
2. An abstract link service (frames are delivered in order, each once or not
   at all) that `Link` with known MACs implements.
3. DHCP servers that leave options out, in `IpConfig`.
