--------------------------------- MODULE Tcp ---------------------------------
(***************************************************************************)
(* The TCP server endpoint of transport.c, in the build of                 *)
(* applicationHelloWorld.c (HELLO_HTTP_WORLD): the one transmission        *)
(* control block TCB[TCP_SERVER], the handler handleTCP() for one received *)
(* segment, and the HTTP application sendHTML() that it calls.             *)
(*                                                                         *)
(* Nothing is assumed of the senders here: any segment may arrive in any   *)
(* state (Next).  TcpSystem composes this endpoint with conforming clients *)
(* and an unreliable network.                                              *)
(*                                                                         *)
(* Left out, because in this build it has no effect on any state kept      *)
(* here: TCB.windowSize and TCB.age are written and never read (the only   *)
(* reader of age, cleanupOldTCP, has no caller: its call in retxTCP is     *)
(* commented out), and the retransmission table ReTx[] stays empty because *)
(* scheduleReTx() returns before it does anything, so that retxTCP,        *)
(* countdownTCP and the cancel functions never find an active entry.       *)
(***************************************************************************)
EXTENDS Integers, Sequences

CONSTANTS
  Hosts,       \* IP addresses of remote machines
  Ports,       \* TCP ports of remote machines
  NoPeer,      \* the zero address and port of TCB[] before the first connection
  FlagSets,    \* combinations of header flags on the wire
  M,           \* number of sequence numbers, 2^32 in the code
  ISNs,        \* values Rnd32bit() may give initialiseTCP
  ISNSteps,    \* values of 1500+Rnd16bit() in TCP_SYN_ACK
  MaxPayload,  \* MAX_PAYLOAD, the most data one segment carries (1460)
  RespLens     \* lengths of the pages that sendHTML sends

ASSUME ModulusAssumption  == M \in Nat /\ M > 3
ASSUME ISNAssumption      == ISNs \subseteq 0..(M-1) /\ ISNs # {}
ASSUME ISNStepAssumption  == ISNSteps \subseteq Nat \ {0} /\ ISNSteps # {}
ASSUME PayloadAssumption  == MaxPayload \in Nat \ {0}
ASSUME ResponseAssumption == RespLens \subseteq Nat \ {0} /\ RespLens # {}

Peers  == [ip : Hosts, port : Ports]
SeqNo  == 0..(M-1)
Flags  == {"FIN", "SYN", "RST", "PSH", "ACK", "URG"}

ASSUME FlagSetsAssumption == FlagSets \subseteq SUBSET Flags

\* The values that status takes in TCB[TCP_SERVER]
Status == {"CLOSED", "SYN_RCVD", "ESTABLISHED",
           "FIN_WAIT1", "FIN_WAIT2", "LAST_ACK"}

(***************************************************************************)
(* A received segment.  len is the payload length; get says that the       *)
(* payload begins with an HTTP GET (an Ethernet frame is padded past the   *)
(* place of those four characters, so an empty payload does not).          *)
(***************************************************************************)
RcvdSegment == {s \in [src : Peers, flags : FlagSets, seq : SeqNo, ack : SeqNo,
                       len : 0..MaxPayload, get : BOOLEAN] : s.get => s.len > 0}

(***************************************************************************)
(* A segment the server launches.                                          *)
(***************************************************************************)
SentSegment == [dst : Peers, flags : SUBSET Flags, seq : SeqNo, ack : SeqNo,
                len : Nat]

VARIABLES
  tcb,      \* TCB[TCP_SERVER]
  out,      \* the segments the last handler launched, in order
  dataIn,   \* newData of the last handler's call of TCP_DataIn, 0 if none
  answers,  \* history: pages sent on the current connection
  finOut    \* history: FIN segments sent on the current connection

vars == <<tcb, out, dataIn, answers, finOut>>

-----------------------------------------------------------------------------
(* Sequence arithmetic: int32_t subtraction, positive when a is after b *)
Diff(a, b) == ((a - b + M \div 2) % M) - M \div 2
PlusWide(a, n) == a + n                                 \* mutant: no wrap
Plus(a, n) == (a + n) % M

(* The flag combinations that PROTECT_TCP lets through *)
ValidFlags(f) ==
  /\ "FIN" \in f => "ACK" \in f
  /\ "PSH" \in f => "ACK" \in f
  /\ "URG" \in f => "ACK" \in f
  /\ ~ {"FIN", "RST"} \subseteq f
  /\ ~ {"FIN", "SYN"} \subseteq f
  /\ ~ {"RST", "SYN"} \subseteq f
  /\ f # {}
  /\ f # Flags
  /\ f \ {"SYN"} # {"FIN", "URG", "PSH"}
  /\ f # {"FIN", "SYN", "ACK", "URG", "RST"}

(* A segment with the header defaultHead() gives it *)
Segment(t, flags, len) ==
  [dst |-> t.remote, flags |-> flags, seq |-> t.lastByteSent,
   ack |-> Plus(t.lastByteReceived, 1), len |-> len]

TCP_ACK(t) == <<Segment(t, {"ACK"}, 0)>>

TCP_FIN(t) == <<Segment(t, {"FIN", "ACK"}, 0)>>

(* ... after which "Closing was our idea" *)
ForgetFin(t) == t                                       \* mutant: status kept
AfterFin(t) ==
  IF t.status = "ESTABLISHED" THEN [t EXCEPT !.status = "FIN_WAIT1"] ELSE t

TCP_RST(dst, ack) ==
  <<[dst |-> dst, flags |-> {"RST"}, seq |-> 0, ack |-> ack, len |-> 0]>>

(***************************************************************************)
(* TCP_ComplexDataOut: n bytes in segments of at most MaxPayload bytes,    *)
(* each sent at the lastByteSent its predecessors left.                    *)
(***************************************************************************)
OverlappingDataOut(t, n) ==                             \* mutant: nothing advances
  [k \in 1..((n + MaxPayload - 1) \div MaxPayload) |-> Segment(t, {"ACK"}, MaxPayload)]
TCP_ComplexDataOut(t, n) ==
  LET chunks == (n + MaxPayload - 1) \div MaxPayload
      Size(k) == IF k < chunks THEN MaxPayload ELSE n - (chunks - 1) * MaxPayload
  IN  [k \in 1..chunks |->
         Segment([t EXCEPT !.lastByteSent = Plus(@, (k - 1) * MaxPayload)],
                 {"ACK"}, Size(k))]

NotAdvanced(t, n) == t                                  \* mutant: lastByteSent kept
AfterDataOut(t, n) == [t EXCEPT !.lastByteSent = Plus(@, n)]

(***************************************************************************)
(* handleMetrics: what segment s adds to the stream received so far.       *)
(***************************************************************************)
Fin(s) == "FIN" \in s.flags

InOrder(t, s) == Diff(s.seq, t.lastByteReceived) <= 1

LastByte(s) == Plus(s.seq, s.len - 1 + (IF Fin(s) THEN 1 ELSE 0))

AckNeeded(t, s) == InOrder(t, s) /\ (s.len # 0 \/ Fin(s))

UnsignedNewData(t, s) ==                                \* mutant: unsigned delta
  IF InOrder(t, s) THEN (LastByte(s) - t.lastByteReceived) % M ELSE 0
NewData(t, s) ==
  LET delta == Diff(LastByte(s), t.lastByteReceived)
  IN  IF InOrder(t, s) /\ delta > 0 THEN delta ELSE 0

Received(t, s) ==
  IF NewData(t, s) > 0 THEN [t EXCEPT !.lastByteReceived = LastByte(s)] ELSE t

(* "In all cases, if ACK field is significant": note the newest ack *)
Acked(t, s) ==
  IF "ACK" \in s.flags /\ Diff(s.ack, t.lastAckReceived) > 0
  THEN [t EXCEPT !.lastAckReceived = s.ack] ELSE t

-----------------------------------------------------------------------------
Init ==
  /\ \E isn \in ISNs :
       tcb = [status |-> "CLOSED", remote |-> NoPeer, lastByteSent |-> isn,
              lastByteReceived |-> 0, lastAckReceived |-> 0]
  /\ out = <<>>
  /\ dataIn = 0
  /\ answers = 0
  /\ finOut = 0

Silent == out' = <<>> /\ dataIn' = 0

(* "A new connection and we're ready" *)
AlmostListening == tcb.status \in {"CLOSED", "FIN_WAIT2"}  \* mutant: too early
Listening == tcb.status = "CLOSED"

(* The server's initial sequence number, step after the last one it used *)
FreshISN(step) == step                                  \* mutant: assigned, not added
NextISN(step) == Plus(tcb.lastByteSent, step)

SameConnection == UNCHANGED <<answers, finOut>>

(***************************************************************************)
(* handleTCP, one action for each way through it.  s is the segment.       *)
(***************************************************************************)

(* Rejected by PROTECT_TCP *)
HandleInvalid(s) ==
  /\ ~ ValidFlags(s.flags)
  /\ Silent
  /\ UNCHANGED tcb
  /\ SameConnection

(* A new connection: TCP_SYN_ACK *)
HandleSyn(s) ==
  /\ ValidFlags(s.flags)
  /\ Listening
  /\ "SYN" \in s.flags
  /\ \E step \in ISNSteps :
       LET isn == NextISN(step)
       IN  /\ tcb' = [status |-> "SYN_RCVD", remote |-> s.src,
                      lastByteSent |-> Plus(isn, 1), lastByteReceived |-> s.seq,
                      lastAckReceived |-> Plus(isn, -1)]
           /\ out' = <<[dst |-> s.src, flags |-> {"SYN", "ACK"}, seq |-> isn,
                        ack |-> Plus(s.seq, 1), len |-> 0]>>
  /\ dataIn' = 0
  /\ answers' = 0
  /\ finOut' = 0

(* Nothing but a SYN is heard by a closed server *)
HandleClosed(s) ==
  /\ ValidFlags(s.flags)
  /\ Listening
  /\ "SYN" \notin s.flags
  /\ Silent
  /\ UNCHANGED tcb
  /\ SameConnection

(* Busy with another port: the newcomer is reset *)
HandleBusyAnyPort(s) ==                                 \* mutant: port not compared
  /\ ValidFlags(s.flags)
  /\ ~ Listening
  /\ out' = TCP_RST(s.src, Plus(s.seq, 1))
  /\ dataIn' = 0
  /\ UNCHANGED tcb
  /\ SameConnection
HandleBusy(s) ==
  /\ ValidFlags(s.flags)
  /\ ~ Listening
  /\ s.src.port # tcb.remote.port
  /\ out' = TCP_RST(s.src, Plus(s.seq, 1))
  /\ dataIn' = 0
  /\ UNCHANGED tcb
  /\ SameConnection

(* The same port of another machine matches no TCB *)
HandleStranger(s) ==
  /\ ValidFlags(s.flags)
  /\ ~ Listening
  /\ s.src.port = tcb.remote.port
  /\ s.src.ip # tcb.remote.ip
  /\ Silent
  /\ UNCHANGED tcb
  /\ SameConnection

Matches(s) == ValidFlags(s.flags) /\ ~ Listening /\ s.src = tcb.remote

HandleReset(s) ==
  /\ Matches(s)
  /\ "RST" \in s.flags
  /\ tcb' = [tcb EXCEPT !.status = "CLOSED"]
  /\ Silent
  /\ SameConnection

(* The handshake is over; the expected ACK also sets the counters *)
HandshakenWithData(t, s) ==                             \* mutant: payload counted
  IF s.ack = t.lastByteSent
  THEN [t EXCEPT !.status = "ESTABLISHED", !.lastAckReceived = s.ack,
                 !.lastByteReceived = LastByte(s)]
  ELSE [t EXCEPT !.status = "ESTABLISHED"]
Handshaken(t, s) ==
  IF s.ack = t.lastByteSent
  THEN [t EXCEPT !.status = "ESTABLISHED", !.lastAckReceived = s.ack,
                 !.lastByteReceived = s.seq]
  ELSE [t EXCEPT !.status = "ESTABLISHED"]

(* Any ACK completes the handshake; what it carries is not looked at *)
HandleSynRcvd(s) ==
  /\ Matches(s) /\ "RST" \notin s.flags
  /\ tcb.status = "SYN_RCVD"
  /\ tcb' = IF "ACK" \in s.flags THEN Handshaken(Acked(tcb, s), s) ELSE tcb
  /\ Silent
  /\ SameConnection

(* The segment is out of order or empty: no answer, no data for sendHTML *)
HandleEstablishedIdle(s) ==
  /\ Matches(s) /\ "RST" \notin s.flags
  /\ tcb.status = "ESTABLISHED"
  /\ ~ AckNeeded(tcb, s)
  /\ tcb' = Received(Acked(tcb, s), s)
  /\ Silent
  /\ SameConnection

(* TCP_DataIn hands new data to sendHTML, which answers a GET with a page *)
sendHTML(s, newData) == newData # 0 /\ s.get

(***************************************************************************)
(* The segment is acknowledged at once and then handed to sendHTML, which  *)
(* answers a GET with a page and a FIN.  Their FIN is answered by (another)*)
(* FIN of ours.                                                            *)
(***************************************************************************)
HandleEstablishedData(s) ==
  /\ Matches(s) /\ "RST" \notin s.flags
  /\ tcb.status = "ESTABLISHED"
  /\ AckNeeded(tcb, s)
  /\ \E page \in RespLens :
     LET t1    == Received(Acked(tcb, s), s)
         new   == NewData(tcb, s)
         reply == sendHTML(s, new)
         t2    == IF reply THEN AfterDataOut(t1, page) ELSE t1
     IN  /\ tcb' = CASE Fin(s)             -> [t2 EXCEPT !.status = "LAST_ACK"]
                     [] ~ Fin(s) /\ reply   -> AfterFin(t2)
                     [] ~ Fin(s) /\ ~ reply -> t2
         /\ out' = TCP_ACK(t1)
                   \o (IF reply THEN TCP_ComplexDataOut(t1, page) \o TCP_FIN(t2)
                                ELSE <<>>)
                   \o (IF Fin(s) THEN TCP_FIN(t2) ELSE <<>>)
         /\ dataIn' = new
         /\ answers' = answers + (IF reply THEN 1 ELSE 0)
         /\ finOut' = finOut + (IF reply THEN 1 ELSE 0) + (IF Fin(s) THEN 1 ELSE 0)

(* Our FIN is out.  Their FIN closes, whatever its place in the stream *)
HandleFinWait1(s) ==
  /\ Matches(s) /\ "RST" \notin s.flags
  /\ tcb.status = "FIN_WAIT1"
  /\ LET t1 == Received(Acked(tcb, s), s)
     IN  /\ tcb' = CASE Fin(s) -> [t1 EXCEPT !.status = "CLOSED"]
                     [] ~ Fin(s) /\ "ACK" \in s.flags -> [t1 EXCEPT !.status = "FIN_WAIT2"]
                     [] OTHER -> t1
         /\ out' = IF Fin(s) THEN TCP_ACK(t1) ELSE <<>>
  /\ dataIn' = 0
  /\ SameConnection

HandleFinWait2Deaf(s) ==                                \* mutant: their FIN ignored
  /\ Matches(s) /\ "RST" \notin s.flags
  /\ tcb.status = "FIN_WAIT2"
  /\ tcb' = Acked(tcb, s)
  /\ Silent
  /\ SameConnection

HandleFinWait2(s) ==
  /\ Matches(s) /\ "RST" \notin s.flags
  /\ tcb.status = "FIN_WAIT2"
  /\ LET t1 == Acked(tcb, s)
     IN  /\ tcb' = IF Fin(s) THEN [t1 EXCEPT !.status = "CLOSED"] ELSE t1
         /\ out' = IF Fin(s) THEN TCP_ACK(t1) ELSE <<>>
  /\ dataIn' = 0
  /\ SameConnection

HandleLastAck(s) ==
  /\ Matches(s) /\ "RST" \notin s.flags
  /\ tcb.status = "LAST_ACK"
  /\ tcb' = IF "ACK" \in s.flags THEN [Acked(tcb, s) EXCEPT !.status = "CLOSED"]
                                 ELSE tcb
  /\ Silent
  /\ SameConnection

handleTCP(s) ==
  \/ HandleInvalid(s)
  \/ HandleSyn(s)
  \/ HandleClosed(s)
  \/ HandleBusy(s)
  \/ HandleStranger(s)
  \/ HandleReset(s)
  \/ HandleSynRcvd(s)
  \/ HandleEstablishedIdle(s)
  \/ HandleEstablishedData(s)
  \/ HandleFinWait1(s)
  \/ HandleFinWait2(s)
  \/ HandleLastAck(s)

Next == \E s \in RcvdSegment : handleTCP(s)

Spec == Init /\ [][Next]_vars

-----------------------------------------------------------------------------
TCBType == [status : Status, remote : Peers \cup {NoPeer}, lastByteSent : SeqNo,
            lastByteReceived : SeqNo, lastAckReceived : SeqNo]

(* The type invariant *)
TypeOK ==
  /\ tcb \in TCBType
  /\ tcb.status # "CLOSED" => tcb.remote \in Peers
  /\ out \in Seq(SentSegment)
  /\ dataIn \in Nat
  /\ answers \in Nat
  /\ finOut \in Nat

(***************************************************************************)
(* However often a request is duplicated or retransmitted, handleTCP and   *)
(* sendHTML answer it at most once on a connection, and sendHTML's FIN and *)
(* the FIN for the peer's FIN are the only ones.                           *)
(***************************************************************************)
AnsweredOnce == answers <= 1 /\ finOut <= 2

(***************************************************************************)
(* The server says FIN exactly when it leaves the data transfer states:    *)
(* no page is on its way before the handshake is over, and it never waits  *)
(* in FIN_WAIT1, FIN_WAIT2 or LAST_ACK for the end of a connection that it *)
(* has not itself ended.                                                   *)
(***************************************************************************)
FinMatchesStatus ==
  /\ tcb.status \in {"SYN_RCVD", "ESTABLISHED"} => finOut = 0 /\ answers = 0
  /\ tcb.status \in {"FIN_WAIT1", "FIN_WAIT2", "LAST_ACK"} => finOut > 0

(***************************************************************************)
(* While a connection is open handleTCP resets everybody else and never    *)
(* the connected peer: a RST goes to another peer, and anything else goes  *)
(* to the connected one.                                                   *)
(***************************************************************************)
ResetsOnlyOthers ==
  tcb.status # "CLOSED" =>
    \A i \in 1..Len(out) : "RST" \in out[i].flags <=> out[i].dst # tcb.remote

(***************************************************************************)
(* An open connection is never taken over: until it is closed, whatever    *)
(* segments arrive, its peer stays.                                        *)
(***************************************************************************)
NotTakenOver ==
  [][tcb.status # "CLOSED" => tcb'.remote = tcb.remote]_vars

(***************************************************************************)
(* The bytes that leave the server are one gapless stream, whatever the    *)
(* length of the page and its split by TCP_ComplexDataOut: each segment to *)
(* the peer starts where the payload of the one before ended, the first at *)
(* the old lastByteSent, and lastByteSent ends where the last one does.    *)
(* (TCP_FIN does not advance lastByteSent; only payload bytes are counted.)*)
(***************************************************************************)
StreamIsGapless ==
  [][ (tcb.status # "CLOSED" /\ out' # <<>> /\ out'[1].dst = tcb.remote) =>
        /\ out'[1].seq = tcb.lastByteSent
        /\ \A i \in 1..(Len(out') - 1) :
             out'[i+1].seq = Plus(out'[i].seq, out'[i].len)
        /\ tcb'.lastByteSent = Plus(out'[Len(out')].seq, out'[Len(out')].len) ]_vars
=============================================================================
