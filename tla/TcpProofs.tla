------------------------------ MODULE TcpProofs ------------------------------
(***************************************************************************)
(* Proofs about module Tcp, for any set of peers, any modulus of the       *)
(* sequence numbers, any payload limit and any page lengths, and for an    *)
(* arbitrary environment: whatever segments arrive.                        *)
(***************************************************************************)
EXTENDS Tcp, Modular

(* What handleTCP needs of a segment; TcpSystem's have further fields *)
IsSegment(s) ==
  /\ s.src \in Peers /\ s.flags \in SUBSET Flags
  /\ s.seq \in SeqNo /\ s.ack \in SeqNo /\ s.len \in Nat

LEMMA RcvdIsSegment == \A s \in RcvdSegment : IsSegment(s)
BY FlagSetsAssumption, PayloadAssumption DEF RcvdSegment, IsSegment

(* Sequence numbers stay sequence numbers *)
LEMMA PlusType ==
  ASSUME NEW a \in Int, NEW n \in Int
  PROVE  Plus(a, n) \in SeqNo
BY ModulusAssumption DEF Plus, SeqNo

LEMMA SeqNoInt ==
  /\ \A x \in SeqNo : x \in Int
  /\ 0 \in SeqNo
BY ModulusAssumption DEF SeqNo

LEMMA DiffType ==
  ASSUME NEW a \in SeqNo, NEW b \in SeqNo
  PROVE  Diff(a, b) \in Int
BY ModulusAssumption DEF Diff, SeqNo

(* TCP_ComplexDataOut cuts n bytes into non-empty segments *)
LEMMA ChunkCount ==
  ASSUME NEW n \in Nat \ {0}
  PROVE  LET c == (n + MaxPayload - 1) \div MaxPayload
         IN  /\ c \in Nat \ {0}
             /\ (c - 1) * MaxPayload < n
             /\ n <= c * MaxPayload
<1> DEFINE c == (n + MaxPayload - 1) \div MaxPayload
<1>1. c \in Int
  BY PayloadAssumption
<1>2. c * MaxPayload <= n + MaxPayload - 1 /\ n + MaxPayload - 1 < c * MaxPayload + MaxPayload
  BY PayloadAssumption
<1>3. c >= 1
  BY <1>1, <1>2, PayloadAssumption
<1>4. (c - 1) * MaxPayload = c * MaxPayload - MaxPayload
  BY <1>1, PayloadAssumption
<1> QED
  BY <1>1, <1>2, <1>3, <1>4, PayloadAssumption

LEMMA SegmentType ==
  ASSUME NEW t \in TCBType, t.remote \in Peers,
         NEW flags \in SUBSET Flags, NEW len \in Nat
  PROVE  Segment(t, flags, len) \in SentSegment
<1>1. t.lastByteSent \in SeqNo /\ t.lastByteReceived \in Int
  BY DEF TCBType, SeqNo
<1>2. Plus(t.lastByteReceived, 1) \in SeqNo
  BY <1>1, PlusType
<1> QED
  BY <1>1, <1>2 DEF Segment, SentSegment

LEMMA FunctionIsSeq ==
  ASSUME NEW S, NEW c \in Nat, NEW f \in [1..c -> S]
  PROVE  f \in Seq(S) /\ Len(f) = c
OBVIOUS

LEMMA DataOutType ==
  ASSUME NEW t \in TCBType, t.remote \in Peers, NEW n \in Nat \ {0}
  PROVE  TCP_ComplexDataOut(t, n) \in Seq(SentSegment)
<1> DEFINE c == (n + MaxPayload - 1) \div MaxPayload
           Size(k) == IF k < c THEN MaxPayload ELSE n - (c - 1) * MaxPayload
           u(k) == [t EXCEPT !.lastByteSent = Plus(@, (k - 1) * MaxPayload)]
<1>1. c \in Nat \ {0} /\ (c - 1) * MaxPayload < n
  BY ChunkCount
<1>2. ASSUME NEW k \in 1..c
      PROVE  Segment(u(k), {"ACK"}, Size(k)) \in SentSegment
  <2>1. (k - 1) * MaxPayload \in Int /\ (c - 1) * MaxPayload \in Int
    BY <1>1, PayloadAssumption
  <2>2. Size(k) \in Nat
    BY <1>1, <2>1, PayloadAssumption
  <2>3. t.lastByteSent \in Int
    BY DEF TCBType, SeqNo
  <2>4. Plus(t.lastByteSent, (k - 1) * MaxPayload) \in SeqNo
    BY <2>1, <2>3, PlusType
  <2>5. u(k) \in TCBType /\ u(k).remote \in Peers
    BY <2>4 DEF TCBType
  <2> QED
    BY <2>2, <2>5, SegmentType DEF Flags
<1>3. TCP_ComplexDataOut(t, n) = [k \in 1..c |-> Segment(u(k), {"ACK"}, Size(k))]
  BY DEF TCP_ComplexDataOut
<1>4. TCP_ComplexDataOut(t, n) \in [1..c -> SentSegment]
  <2> HIDE DEF u, Size, c
  <2> QED BY <1>2, <1>3
<1> QED
  BY <1>1, <1>4, FunctionIsSeq

LEMMA AckedType ==
  ASSUME NEW t \in TCBType, NEW s, IsSegment(s)
  PROVE  /\ Acked(t, s) \in TCBType
         /\ Acked(t, s).remote = t.remote
         /\ Acked(t, s).status = t.status
         /\ Acked(t, s).lastByteSent = t.lastByteSent
         /\ Acked(t, s).lastByteReceived = t.lastByteReceived
BY DEF Acked, TCBType, IsSegment

LEMMA ReceivedType ==
  ASSUME NEW t \in TCBType, NEW s, IsSegment(s)
  PROVE  /\ Received(t, s) \in TCBType
         /\ Received(t, s).remote = t.remote
         /\ Received(t, s).status = t.status
         /\ Received(t, s).lastByteSent = t.lastByteSent
         /\ NewData(t, s) \in Nat
<1>1. s.seq \in SeqNo /\ s.seq \in Int /\ s.len \in Int
  BY DEF IsSegment, SeqNo
<1>2. LastByte(s) \in SeqNo
  <2>1. s.len - 1 + (IF Fin(s) THEN 1 ELSE 0) \in Int
    BY <1>1
  <2> QED
    BY <1>1, <2>1, PlusType DEF LastByte
<1>3. t.lastByteReceived \in SeqNo
  BY DEF TCBType
<1>4. Diff(LastByte(s), t.lastByteReceived) \in Int
  BY <1>2, <1>3, DiffType
<1>5. NewData(t, s) \in Nat
  BY <1>4 DEF NewData
<1> QED
  BY <1>2, <1>5 DEF Received, TCBType

LEMMA ConcatType ==
  ASSUME NEW S, NEW a \in Seq(S), NEW b \in Seq(S)
  PROVE  a \o b \in Seq(S)
OBVIOUS

LEMMA EmptySeqType == ASSUME NEW S PROVE <<>> \in Seq(S)
OBVIOUS

(* The segments handleTCP builds from a TCB with a peer *)
LEMMA RepliesType ==
  ASSUME NEW t \in TCBType, t.remote \in Peers
  PROVE  TCP_ACK(t) \in Seq(SentSegment) /\ TCP_FIN(t) \in Seq(SentSegment)
<1>1. Segment(t, {"ACK"}, 0) \in SentSegment /\ Segment(t, {"FIN", "ACK"}, 0) \in SentSegment
  BY SegmentType DEF Flags
<1> QED
  BY <1>1 DEF TCP_ACK, TCP_FIN

(***************************************************************************)
(* handleTCP keeps the types, whatever the segment.                        *)
(***************************************************************************)
LEMMA TypeStep ==
  ASSUME TypeOK, NEW s, IsSegment(s), handleTCP(s)
  PROVE  TypeOK'
<1>0. /\ s.src \in Peers /\ s.seq \in SeqNo /\ s.ack \in SeqNo /\ s.seq \in Int
      /\ tcb \in TCBType /\ <<>> \in Seq(SentSegment) /\ 0 \in Nat
  BY DEF IsSegment, TypeOK, SeqNo
<1>q. UNCHANGED tcb /\ UNCHANGED answers /\ UNCHANGED finOut /\ dataIn' = 0
        /\ out' \in Seq(SentSegment) => TypeOK'
  BY DEF TypeOK
<1>1. CASE HandleInvalid(s)
  BY <1>1, <1>0, <1>q DEF HandleInvalid, Silent, SameConnection
<1>2. CASE HandleSyn(s)
  <2>1. PICK step \in ISNSteps :
          LET isn == NextISN(step)
          IN  /\ tcb' = [status |-> "SYN_RCVD", remote |-> s.src,
                         lastByteSent |-> Plus(isn, 1), lastByteReceived |-> s.seq,
                         lastAckReceived |-> Plus(isn, -1)]
              /\ out' = <<[dst |-> s.src, flags |-> {"SYN", "ACK"}, seq |-> isn,
                           ack |-> Plus(s.seq, 1), len |-> 0]>>
    BY <1>2 DEF HandleSyn
  <2> DEFINE isn == NextISN(step)
  <2>2. step \in Int /\ tcb.lastByteSent \in Int
    BY <1>0, ISNStepAssumption DEF TCBType, SeqNo
  <2>3. isn \in SeqNo /\ isn \in Int
    BY <2>2, PlusType, SeqNoInt DEF NextISN
  <2>4. Plus(isn, 1) \in SeqNo /\ Plus(isn, -1) \in SeqNo /\ Plus(s.seq, 1) \in SeqNo
    BY <2>3, <1>0, PlusType
  <2>5. tcb' \in TCBType /\ tcb'.remote \in Peers
    <3> HIDE DEF isn
    <3> QED BY <2>1, <2>4, <1>0 DEF TCBType, Status, isn
  <2>6. out' \in Seq(SentSegment)
    BY <2>1, <2>3, <2>4, <1>0 DEF SentSegment, Flags
  <2> QED
    BY <1>2, <2>5, <2>6 DEF HandleSyn, TypeOK
<1>3. CASE HandleClosed(s)
  BY <1>3, <1>0, <1>q DEF HandleClosed, Silent, SameConnection
<1>4. CASE HandleBusy(s)
  <2>1. Plus(s.seq, 1) \in SeqNo /\ 0 \in SeqNo
    <3>1. Plus(s.seq, 1) \in SeqNo
      BY <1>0, PlusType
    <3> QED BY <3>1, SeqNoInt
  <2>2. TCP_RST(s.src, Plus(s.seq, 1)) \in Seq(SentSegment)
    BY <2>1, <1>0 DEF TCP_RST, SentSegment, Flags
  <2> QED
    BY <1>4, <2>2, <1>q DEF HandleBusy, SameConnection
<1>5. CASE HandleStranger(s)
  BY <1>5, <1>0, <1>q DEF HandleStranger, Silent, SameConnection
<1>m. ASSUME Matches(s) PROVE tcb.remote \in Peers
  BY <1>m DEF Matches, Listening, TypeOK
<1> DEFINE a == Acked(tcb, s)
           t1 == Received(a, s)
<1>t. /\ a \in TCBType /\ a.remote = tcb.remote
      /\ t1 \in TCBType /\ t1.remote = tcb.remote
  BY <1>0, AckedType, ReceivedType
<1>6. CASE HandleReset(s)
  BY <1>6, <1>0 DEF HandleReset, Silent, SameConnection, TypeOK, TCBType, Status
<1>7. CASE HandleSynRcvd(s)
  <2>1. tcb' \in TCBType /\ tcb'.remote = tcb.remote
    <3>1. tcb' = tcb \/ tcb' = [a EXCEPT !.status = "ESTABLISHED"]
          \/ tcb' = [a EXCEPT !.status = "ESTABLISHED",
                              !.lastAckReceived = s.ack, !.lastByteReceived = s.seq]
      BY <1>7 DEF HandleSynRcvd, Handshaken
    <3> HIDE DEF a
    <3> QED BY <3>1, <1>t, <1>0 DEF TCBType, Status
  <2> QED
    BY <1>7, <1>0, <1>m, <2>1 DEF HandleSynRcvd, Silent, SameConnection, TypeOK
<1>8. CASE HandleEstablishedIdle(s)
  BY <1>8, <1>0, <1>m, <1>t DEF HandleEstablishedIdle, Silent, SameConnection, TypeOK
<1>9. CASE HandleEstablishedData(s)
  <2>1. PICK page \in RespLens :
          LET new   == NewData(tcb, s)
              reply == new # 0 /\ s.get
              t2    == IF reply THEN AfterDataOut(t1, page) ELSE t1
          IN  /\ tcb' = CASE Fin(s)             -> [t2 EXCEPT !.status = "LAST_ACK"]
                          [] ~ Fin(s) /\ reply   -> AfterFin(t2)
                          [] ~ Fin(s) /\ ~ reply -> t2
              /\ out' = TCP_ACK(t1)
                        \o (IF reply THEN TCP_ComplexDataOut(t1, page) \o TCP_FIN(t2)
                                     ELSE <<>>)
                        \o (IF Fin(s) THEN TCP_FIN(t2) ELSE <<>>)
              /\ dataIn' = new
              /\ answers' = answers + (IF reply THEN 1 ELSE 0)
              /\ finOut' = finOut + (IF reply THEN 1 ELSE 0) + (IF Fin(s) THEN 1 ELSE 0)
    BY <1>9 DEF HandleEstablishedData, sendHTML
  <2> DEFINE new   == NewData(tcb, s)
             reply == new # 0 /\ s.get
             t2    == IF reply THEN AfterDataOut(t1, page) ELSE t1
             paged == IF reply THEN TCP_ComplexDataOut(t1, page) \o TCP_FIN(t2)
                               ELSE <<>>
             last  == IF Fin(s) THEN TCP_FIN(t2) ELSE <<>>
  <2>2. t1.remote \in Peers
    BY <1>9, <1>m, <1>t DEF HandleEstablishedData, sendHTML
  <2>3. Plus(t1.lastByteSent, page) \in SeqNo
    <3>1. t1.lastByteSent \in Int /\ page \in Int
      BY <1>t, ResponseAssumption DEF TCBType, SeqNo
    <3> QED BY <3>1, PlusType
  <2>4. t2 \in TCBType /\ t2.remote \in Peers
    <3> HIDE DEF t1
    <3> QED BY <2>2, <2>3, <1>t DEF TCBType, AfterDataOut
  <2>5. tcb' \in TCBType /\ tcb'.remote \in Peers
    <3>1. tcb' = [t2 EXCEPT !.status = "LAST_ACK"] \/ tcb' = AfterFin(t2) \/ tcb' = t2
      BY <2>1
    <3> HIDE DEF t2
    <3> QED BY <2>4, <3>1 DEF TCBType, Status, AfterFin
  <2>6. TCP_ACK(t1) \in Seq(SentSegment) /\ TCP_FIN(t2) \in Seq(SentSegment)
    <3> HIDE DEF t1, t2
    <3> QED BY <1>t, <2>2, <2>4, RepliesType
  <2>7. TCP_ComplexDataOut(t1, page) \in Seq(SentSegment)
    <3> HIDE DEF t1
    <3> QED BY <1>t, <2>2, DataOutType, ResponseAssumption
  <2>8. paged \in Seq(SentSegment) /\ last \in Seq(SentSegment)
    <3> HIDE DEF t1, t2, reply
    <3> QED BY <2>6, <2>7, ConcatType, EmptySeqType
  <2>9. out' \in Seq(SentSegment)
    <3>1. out' = TCP_ACK(t1) \o paged \o last
      BY <2>1
    <3> HIDE DEF t1, paged, last
    <3> QED BY <3>1, <2>6, <2>8, ConcatType
  <2>10. dataIn' \in Nat /\ answers' \in Nat /\ finOut' \in Nat
    <3>1. NewData(tcb, s) \in Nat
      BY <1>0, ReceivedType
    <3> QED BY <2>1, <3>1 DEF TypeOK
  <2> QED
    BY <2>5, <2>9, <2>10 DEF TypeOK
<1>10. CASE HandleFinWait1(s)
  <2>1. tcb' \in TCBType /\ tcb'.remote = tcb.remote
    <3>1. tcb' = [t1 EXCEPT !.status = "CLOSED"] \/ tcb' = t1
          \/ tcb' = [t1 EXCEPT !.status = "FIN_WAIT2"]
      BY <1>10 DEF HandleFinWait1
    <3> HIDE DEF t1
    <3> QED BY <3>1, <1>t DEF TCBType, Status
  <2>2. tcb.remote \in Peers
    BY <1>10, <1>m DEF HandleFinWait1
  <2>3. out' \in Seq(SentSegment)
    <3>1. out' = IF Fin(s) THEN TCP_ACK(t1) ELSE <<>>
      BY <1>10 DEF HandleFinWait1
    <3> HIDE DEF t1
    <3> QED BY <3>1, <2>2, <1>t, RepliesType, EmptySeqType
  <2> QED
    BY <1>10, <2>1, <2>2, <2>3 DEF HandleFinWait1, SameConnection, TypeOK
<1>11. CASE HandleFinWait2(s)
  <2>1. tcb' \in TCBType /\ tcb'.remote = tcb.remote
    <3>1. tcb' = [a EXCEPT !.status = "CLOSED"] \/ tcb' = a
      BY <1>11 DEF HandleFinWait2
    <3> HIDE DEF a
    <3> QED BY <3>1, <1>t DEF TCBType, Status
  <2>2. tcb.remote \in Peers
    BY <1>11, <1>m DEF HandleFinWait2
  <2>3. out' \in Seq(SentSegment)
    <3>1. out' = IF Fin(s) THEN TCP_ACK(a) ELSE <<>>
      BY <1>11 DEF HandleFinWait2
    <3> HIDE DEF a
    <3> QED BY <3>1, <2>2, <1>t, RepliesType, EmptySeqType
  <2> QED
    BY <1>11, <2>1, <2>2, <2>3 DEF HandleFinWait2, SameConnection, TypeOK
<1>12. CASE HandleLastAck(s)
  <2>1. tcb' \in TCBType /\ tcb'.remote = tcb.remote
    <3>1. tcb' = [a EXCEPT !.status = "CLOSED"] \/ tcb' = tcb
      BY <1>12 DEF HandleLastAck
    <3> HIDE DEF a
    <3> QED BY <3>1, <1>t, <1>0 DEF TCBType, Status
  <2> QED
    BY <1>12, <1>0, <1>m, <2>1 DEF HandleLastAck, Silent, SameConnection, TypeOK
<1> QED
  BY <1>1, <1>2, <1>3, <1>4, <1>5, <1>6, <1>7, <1>8, <1>9, <1>10, <1>11, <1>12
     DEF handleTCP

(***************************************************************************)
(* Type correctness of the server for every segment that may arrive:       *)
(* handleTCP keeps status, peer and sequence numbers of the TCB in their   *)
(* ranges and launches only well-formed segments.                          *)
(***************************************************************************)
THEOREM TypeCorrect == Spec => []TypeOK
<1>1. Init => TypeOK
  BY ISNAssumption, ModulusAssumption DEF Init, TypeOK, TCBType, Status, SeqNo
<1>2. ASSUME TypeOK, [Next]_vars PROVE TypeOK'
  <2>1. CASE UNCHANGED vars
    BY <1>2, <2>1 DEF vars, TypeOK
  <2>2. ASSUME NEW s \in RcvdSegment, handleTCP(s) PROVE TypeOK'
    BY <1>2, <2>2, TypeStep, RcvdIsSegment
  <2> QED
    BY <1>2, <2>1, <2>2 DEF Next
<1> QED
  BY <1>1, <1>2, PTL DEF Spec

-----------------------------------------------------------------------------
(* What one step does to status, peer and the history counters *)
LEMMA StepShape ==
  ASSUME TypeOK, NEW s, IsSegment(s), handleTCP(s)
  PROVE  \/ tcb' = tcb /\ UNCHANGED <<answers, finOut>>
         \/ /\ tcb.status = "CLOSED" /\ tcb'.status = "SYN_RCVD"
            /\ answers' = 0 /\ finOut' = 0
         \/ /\ tcb'.remote = tcb.remote /\ UNCHANGED <<answers, finOut>>
            /\ \/ tcb'.status = "CLOSED"
               \/ tcb'.status = tcb.status
               \/ tcb.status = "SYN_RCVD" /\ tcb'.status = "ESTABLISHED"
               \/ tcb.status = "FIN_WAIT1" /\ tcb'.status = "FIN_WAIT2"
         \/ /\ tcb'.remote = tcb.remote /\ tcb.status = "ESTABLISHED"
            /\ answers' \in {answers, answers + 1}
            /\ \/ tcb'.status = "ESTABLISHED" /\ answers' = answers /\ finOut' = finOut
               \/ tcb'.status \in {"FIN_WAIT1", "LAST_ACK"} /\ finOut' = finOut + 1
               \/ tcb'.status = "LAST_ACK" /\ finOut' = finOut + 2
<1> DEFINE a == Acked(tcb, s)
           t1 == Received(a, s)
<1>0. tcb \in TCBType /\ answers \in Nat /\ finOut \in Nat
  BY DEF TypeOK
<1>t. /\ a \in TCBType /\ a.remote = tcb.remote /\ a.status = tcb.status
      /\ t1 \in TCBType /\ t1.remote = tcb.remote /\ t1.status = tcb.status
  BY <1>0, AckedType, ReceivedType
<1>1. CASE HandleInvalid(s) \/ HandleClosed(s) \/ HandleBusy(s) \/ HandleStranger(s)
  BY <1>1 DEF HandleInvalid, HandleClosed, HandleBusy, HandleStranger, SameConnection
<1>2. CASE HandleSyn(s)
  BY <1>2 DEF HandleSyn, Listening
<1>3. CASE HandleReset(s)
  BY <1>3, <1>0 DEF HandleReset, SameConnection, TCBType
<1>4. CASE HandleSynRcvd(s)
  <2>1. tcb' = tcb \/ tcb' = [a EXCEPT !.status = "ESTABLISHED"]
        \/ tcb' = [a EXCEPT !.status = "ESTABLISHED",
                            !.lastAckReceived = s.ack, !.lastByteReceived = s.seq]
    BY <1>4 DEF HandleSynRcvd, Handshaken
  <2>2. tcb.status = "SYN_RCVD" /\ UNCHANGED <<answers, finOut>>
    BY <1>4 DEF HandleSynRcvd, SameConnection
  <2> HIDE DEF a
  <2> QED BY <2>1, <2>2, <1>t, <1>0 DEF TCBType
<1>5. CASE HandleEstablishedIdle(s)
  BY <1>5, <1>t DEF HandleEstablishedIdle, SameConnection
<1>6. CASE HandleEstablishedData(s)
  <2> DEFINE new == NewData(tcb, s)
             reply == new # 0 /\ s.get
  <2>1. PICK page \in RespLens :
          LET t2 == IF reply THEN AfterDataOut(t1, page) ELSE t1
          IN  /\ tcb' = CASE Fin(s)             -> [t2 EXCEPT !.status = "LAST_ACK"]
                          [] ~ Fin(s) /\ reply   -> AfterFin(t2)
                          [] ~ Fin(s) /\ ~ reply -> t2
              /\ answers' = answers + (IF reply THEN 1 ELSE 0)
              /\ finOut' = finOut + (IF reply THEN 1 ELSE 0) + (IF Fin(s) THEN 1 ELSE 0)
    BY <1>6 DEF HandleEstablishedData, sendHTML
  <2>2. tcb.status = "ESTABLISHED"
    BY <1>6 DEF HandleEstablishedData, sendHTML
  <2> HIDE DEF t1, reply
  <2>3. tcb'.remote = tcb.remote
    BY <2>1, <1>t DEF TCBType, AfterDataOut, AfterFin
  <2>4. CASE ~ reply /\ ~ Fin(s)
    BY <2>1, <2>2, <2>3, <2>4, <1>t, <1>0
  <2>5. CASE reply /\ ~ Fin(s)
    BY <2>1, <2>2, <2>3, <2>5, <1>t, <1>0 DEF TCBType, AfterDataOut, AfterFin
  <2>6. CASE ~ reply /\ Fin(s)
    BY <2>1, <2>2, <2>3, <2>6, <1>t, <1>0 DEF TCBType, AfterDataOut, AfterFin
  <2>7. CASE reply /\ Fin(s)
    <3>1. answers' = answers + 1 /\ finOut' = finOut + 2
      BY <2>1, <2>7, <1>0
    <3>2. tcb'.status = "LAST_ACK"
      BY <2>1, <2>7, <1>t DEF TCBType, AfterDataOut
    <3> QED BY <3>1, <3>2, <2>2, <2>3
  <2> QED BY <2>4, <2>5, <2>6, <2>7
<1>7. CASE HandleFinWait1(s)
  <2>1. tcb' = [t1 EXCEPT !.status = "CLOSED"] \/ tcb' = t1
        \/ tcb' = [t1 EXCEPT !.status = "FIN_WAIT2"]
    BY <1>7 DEF HandleFinWait1
  <2>2. tcb.status = "FIN_WAIT1" /\ UNCHANGED <<answers, finOut>>
    BY <1>7 DEF HandleFinWait1, SameConnection
  <2> HIDE DEF t1
  <2> QED BY <2>1, <2>2, <1>t DEF TCBType
<1>8. CASE HandleFinWait2(s)
  <2>1. tcb' = [a EXCEPT !.status = "CLOSED"] \/ tcb' = a
    BY <1>8 DEF HandleFinWait2
  <2>2. UNCHANGED <<answers, finOut>>
    BY <1>8 DEF HandleFinWait2, SameConnection
  <2> HIDE DEF a
  <2> QED BY <2>1, <2>2, <1>t DEF TCBType
<1>9. CASE HandleLastAck(s)
  <2>1. tcb' = [a EXCEPT !.status = "CLOSED"] \/ tcb' = tcb
    BY <1>9 DEF HandleLastAck
  <2>2. UNCHANGED <<answers, finOut>>
    BY <1>9 DEF HandleLastAck, SameConnection
  <2> HIDE DEF a
  <2> QED BY <2>1, <2>2, <1>t, <1>0 DEF TCBType
<1> QED
  BY <1>1, <1>2, <1>3, <1>4, <1>5, <1>6, <1>7, <1>8, <1>9 DEF handleTCP

(***************************************************************************)
(* handleTCP answers a request at most once per connection, and it is in a *)
(* closing state exactly when its FIN has left.  The two are inductive     *)
(* only together: that nothing was answered yet in ESTABLISHED is what     *)
(* bounds the answers.                                                     *)
(***************************************************************************)
THEOREM OneAnswerPerConnection == Spec => [](AnsweredOnce /\ FinMatchesStatus)
<1> DEFINE IInv == AnsweredOnce /\ FinMatchesStatus
<1>1. Init => IInv
  BY DEF Init, AnsweredOnce, FinMatchesStatus
<1>2. ASSUME TypeOK, IInv, [Next]_vars PROVE IInv'
  <2>1. CASE UNCHANGED vars
    BY <1>2, <2>1 DEF vars, AnsweredOnce, FinMatchesStatus
  <2>2. ASSUME NEW s \in RcvdSegment, handleTCP(s) PROVE IInv'
    <3>1. answers \in Nat /\ finOut \in Nat
      BY <1>2 DEF TypeOK
    <3> QED
      BY <1>2, <2>2, <3>1, StepShape, RcvdIsSegment DEF AnsweredOnce, FinMatchesStatus
  <2> QED
    BY <1>2, <2>1, <2>2 DEF Next
<1> QED
  BY <1>1, <1>2, TypeCorrect, PTL DEF Spec

(***************************************************************************)
(* No segment, from whomever, changes the peer of an open connection.      *)
(***************************************************************************)
THEOREM ConnectionNotTakenOver == Spec => NotTakenOver
<1>1. ASSUME TypeOK, [Next]_vars
      PROVE  [tcb.status # "CLOSED" => tcb'.remote = tcb.remote]_vars
  <2>1. ASSUME NEW s \in RcvdSegment, handleTCP(s), tcb.status # "CLOSED"
        PROVE  tcb'.remote = tcb.remote
    BY <1>1, <2>1, StepShape, RcvdIsSegment
  <2> QED
    BY <1>1, <2>1 DEF Next
<1> QED
  BY <1>1, TypeCorrect, PTL DEF Spec, NotTakenOver

-----------------------------------------------------------------------------
(***************************************************************************)
(* The segments o go to peer p and carry the n bytes from sequence number  *)
(* x on, without a gap, a FIN only behind the last of them.                *)
(***************************************************************************)
Stream(o, p, x, n) ==
  /\ o \in Seq(SentSegment) /\ Len(o) > 0
  /\ \A i \in 1..Len(o) :
       /\ o[i].dst = p /\ "RST" \notin o[i].flags
       /\ "SYN" \notin o[i].flags
       /\ \E k \in 0..n : /\ o[i].seq = Plus(x, k) /\ k + o[i].len <= n
                          /\ "FIN" \in o[i].flags => k = n
  /\ o[1].seq = x
  /\ \A i \in 1..(Len(o) - 1) : o[i + 1].seq = Plus(o[i].seq, o[i].len)
  /\ Plus(x, n) = Plus(o[Len(o)].seq, o[Len(o)].len)

NoFin(o) == \A i \in 1..Len(o) : "FIN" \notin o[i].flags

LEMMA ElementType ==
  ASSUME NEW S, NEW o \in Seq(S), NEW i \in 1..Len(o)
  PROVE  o[i] \in S
OBVIOUS

LEMMA PlusZero == \A x \in SeqNo : Plus(x, 0) = x
BY ModulusAssumption DEF Plus, SeqNo

LEMMA PlusPlus ==
  ASSUME NEW x \in Int, NEW m \in Int, NEW n \in Int
  PROVE  Plus(Plus(x, m), n) = Plus(x, m + n)
<1>1. M \in Nat \ {0} /\ x + m \in Int
  BY ModulusAssumption
<1>2. (((x + m) % M) + n) % M = ((x + m) + n) % M
  BY <1>1, ModPlusMod
<1>3. (x + m) + n = x + (m + n)
  OBVIOUS
<1> QED
  BY <1>2, <1>3 DEF Plus

(* Two streams, the second of which begins where the first ends *)
LEMMA StreamConcat ==
  ASSUME NEW p, NEW x \in SeqNo, NEW m \in Nat, NEW n \in Nat, NEW a, NEW b,
         Stream(a, p, x, m), Stream(b, p, Plus(x, m), n), NoFin(a) \/ n = 0
  PROVE  Stream(a \o b, p, x, m + n)
<1> DEFINE c == a \o b
           y == Plus(x, m)
<1>0. x \in Int /\ y \in SeqNo /\ y \in Int
  BY PlusType DEF SeqNo
<1>1. a \in Seq(SentSegment) /\ b \in Seq(SentSegment) /\ Len(a) \in Nat \ {0} /\ Len(b) \in Nat \ {0}
  BY DEF Stream
<1>2. /\ c \in Seq(SentSegment) /\ Len(c) = Len(a) + Len(b)
      /\ \A i \in 1..Len(a) : c[i] = a[i]
      /\ \A i \in 1..Len(b) : c[Len(a) + i] = b[i]
  BY <1>1
<1>3. \A i \in 1..Len(c) : i \in 1..Len(a) \/ \E j \in 1..Len(b) : i = Len(a) + j
  <2> SUFFICES ASSUME NEW i \in 1..Len(c), i \notin 1..Len(a)
               PROVE  \E j \in 1..Len(b) : i = Len(a) + j
    OBVIOUS
  <2>1. i - Len(a) \in 1..Len(b) /\ i = Len(a) + (i - Len(a))
    BY <1>1, <1>2
  <2> QED BY <2>1
<1> HIDE DEF c
<1>4. ASSUME NEW j \in 1..Len(b)
      PROVE  \E k \in 0..(m + n) : /\ b[j].seq = Plus(x, k) /\ k + b[j].len <= m + n
                                   /\ "FIN" \in b[j].flags => k = m + n
  <2>1. PICK k \in 0..n : /\ b[j].seq = Plus(y, k) /\ k + b[j].len <= n
                          /\ "FIN" \in b[j].flags => k = n
    BY DEF Stream
  <2>2. Plus(y, k) = Plus(x, m + k)
    BY <1>0, PlusPlus
  <2>3. b[j].len \in Nat
    <3>1. b[j] \in SentSegment
      BY <1>1, ElementType
    <3> QED BY <3>1 DEF SentSegment
  <2>4. m + k \in 0..(m + n) /\ (m + k) + b[j].len <= m + n /\ (k = n => m + k = m + n)
    BY <2>1, <2>3
  <2> QED
    BY <2>1, <2>2, <2>4
<1>5. ASSUME NEW j \in 1..Len(a)
      PROVE  \E k \in 0..(m + n) : /\ a[j].seq = Plus(x, k) /\ k + a[j].len <= m + n
                                   /\ "FIN" \in a[j].flags => k = m + n
  <2>1. PICK k \in 0..m : /\ a[j].seq = Plus(x, k) /\ k + a[j].len <= m
                          /\ "FIN" \in a[j].flags => k = m
    BY DEF Stream
  <2>2. a[j].len \in Nat
    <3>1. a[j] \in SentSegment
      BY <1>1, ElementType
    <3> QED BY <3>1 DEF SentSegment
  <2>3. k \in 0..(m + n) /\ k + a[j].len <= m + n /\ (n = 0 /\ k = m => k = m + n)
    BY <2>1, <2>2
  <2>4. "FIN" \in a[j].flags => k = m + n
    BY <2>1, <2>3 DEF NoFin
  <2> QED
    BY <2>1, <2>3, <2>4
<1>6. \A i \in 1..Len(c) :
       /\ c[i].dst = p /\ "RST" \notin c[i].flags
       /\ "SYN" \notin c[i].flags
       /\ \E k \in 0..(m + n) : /\ c[i].seq = Plus(x, k) /\ k + c[i].len <= m + n
                                /\ "FIN" \in c[i].flags => k = m + n
  <2> SUFFICES ASSUME NEW i \in 1..Len(c)
               PROVE  /\ c[i].dst = p /\ "RST" \notin c[i].flags
                      /\ "SYN" \notin c[i].flags
                      /\ \E k \in 0..(m + n) : /\ c[i].seq = Plus(x, k) /\ k + c[i].len <= m + n
                                               /\ "FIN" \in c[i].flags => k = m + n
    OBVIOUS
  <2>1. CASE i \in 1..Len(a)
    <3>1. c[i] = a[i]
      BY <1>2, <2>1
    <3> QED BY <1>5, <2>1, <3>1 DEF Stream
  <2>2. ASSUME NEW j \in 1..Len(b), i = Len(a) + j
        PROVE  /\ c[i].dst = p /\ "RST" \notin c[i].flags
               /\ "SYN" \notin c[i].flags
               /\ \E k \in 0..(m + n) : /\ c[i].seq = Plus(x, k) /\ k + c[i].len <= m + n
                                        /\ "FIN" \in c[i].flags => k = m + n
    <3>1. c[i] = b[j]
      BY <1>2, <2>2
    <3> QED BY <1>4, <3>1 DEF Stream
  <2> QED BY <1>3, <2>1, <2>2
<1>7. c[1].seq = x /\ 1 \in 1..Len(a)
  BY <1>1, <1>2 DEF Stream
<1>8. ASSUME NEW i \in 1..(Len(c) - 1)
      PROVE  c[i + 1].seq = Plus(c[i].seq, c[i].len)
  <2>1. CASE i < Len(a)
    <3>1. i \in 1..Len(a) /\ i + 1 \in 1..Len(a) /\ i \in 1..(Len(a) - 1)
      BY <1>1, <1>2, <2>1
    <3>2. c[i] = a[i] /\ c[i + 1] = a[i + 1]
      BY <1>2, <3>1
    <3> QED BY <3>1, <3>2 DEF Stream
  <2>2. CASE i = Len(a)
    <3>1. c[i] = a[Len(a)] /\ c[i + 1] = b[1]
      BY <1>1, <1>2, <2>2
    <3>2. b[1].seq = y /\ y = Plus(a[Len(a)].seq, a[Len(a)].len)
      BY DEF Stream
    <3> QED BY <3>1, <3>2
  <2>3. CASE i > Len(a)
    <3> DEFINE j == i - Len(a)
    <3>0. Len(a) \in Nat /\ Len(b) \in Nat /\ i \in 1..(Len(a) + Len(b) - 1)
      BY <1>1, <1>2
    <3>1. j \in 1..(Len(b) - 1) /\ j \in 1..Len(b) /\ j + 1 \in 1..Len(b)
          /\ i = Len(a) + j /\ i + 1 = Len(a) + (j + 1)
      BY <3>0, <2>3
    <3> HIDE DEF j
    <3>2. c[i] = b[j] /\ c[i + 1] = b[j + 1]
      BY <1>2, <3>1
    <3>3. b[j + 1].seq = Plus(b[j].seq, b[j].len)
      BY <3>1 DEF Stream
    <3> QED BY <3>2, <3>3
  <2> QED BY <1>1, <1>2, <2>1, <2>2, <2>3
<1>9. Plus(x, m + n) = Plus(c[Len(c)].seq, c[Len(c)].len)
  <2>1. c[Len(c)] = b[Len(b)]
    BY <1>1, <1>2
  <2>2. Plus(y, n) = Plus(b[Len(b)].seq, b[Len(b)].len)
    BY DEF Stream
  <2>3. Plus(y, n) = Plus(x, m + n)
    BY <1>0, PlusPlus
  <2> QED BY <2>1, <2>2, <2>3
<1>10. Len(c) > 0
  BY <1>1, <1>2
<1>11. Stream(c, p, x, m + n)
  BY ONLY <1>2, <1>6, <1>7, <1>8, <1>9, <1>10, Zenon DEF Stream
<1> QED
  BY <1>11 DEF c

(* An ACK or a FIN carries no bytes *)
LEMMA StreamReplies ==
  ASSUME NEW t \in TCBType, t.remote \in Peers
  PROVE  /\ Stream(TCP_ACK(t), t.remote, t.lastByteSent, 0) /\ NoFin(TCP_ACK(t))
         /\ Stream(TCP_FIN(t), t.remote, t.lastByteSent, 0)
<1> DEFINE x == t.lastByteSent
<1>1. x \in SeqNo /\ Plus(x, 0) = x
  BY PlusZero DEF TCBType
<1>2. ASSUME NEW f \in {{"ACK"}, {"FIN", "ACK"}}
      PROVE  Stream(<<Segment(t, f, 0)>>, t.remote, x, 0)
  <2> DEFINE g == Segment(t, f, 0)
             o == <<g>>
  <2>1. g \in SentSegment
    BY SegmentType DEF Flags
  <2>2. g.dst = t.remote /\ g.flags = f /\ g.seq = x /\ g.len = 0
    BY DEF Segment
  <2>3. "RST" \notin f /\ "SYN" \notin f
    OBVIOUS
  <2> HIDE DEF g, x
  <2>4. o \in Seq(SentSegment) /\ Len(o) = 1 /\ o[1] = g
    BY <2>1
  <2>5. 1..0 = {} /\ \A i \in 1..1 : i = 1
    OBVIOUS
  <2>6. \E k \in 0..0 : /\ g.seq = Plus(x, k) /\ k + g.len <= 0
                        /\ "FIN" \in g.flags => k = 0
    BY <1>1, <2>2
  <2> HIDE DEF o
  <2>7. \A i \in 1..Len(o) :
         /\ o[i].dst = t.remote /\ "RST" \notin o[i].flags
         /\ "SYN" \notin o[i].flags
         /\ \E k \in 0..0 : /\ o[i].seq = Plus(x, k) /\ k + o[i].len <= 0
                            /\ "FIN" \in o[i].flags => k = 0
    BY <2>2, <2>3, <2>4, <2>5, <2>6
  <2>8. /\ \A i \in 1..(Len(o) - 1) : o[i + 1].seq = Plus(o[i].seq, o[i].len)
        /\ Len(o) > 0 /\ o[1].seq = x /\ Plus(x, 0) = Plus(o[Len(o)].seq, o[Len(o)].len)
    BY <1>1, <2>2, <2>4, <2>5
  <2>9. Stream(o, t.remote, x, 0)
    BY ONLY <2>4, <2>7, <2>8, Zenon DEF Stream
  <2> QED
    BY <2>9 DEF o, g
<1>3. NoFin(TCP_ACK(t))
  BY DEF NoFin, TCP_ACK, Segment
<1> QED
  BY <1>2, <1>3 DEF TCP_ACK, TCP_FIN

(* TCP_ComplexDataOut sends all of the page, and in order *)
LEMMA StreamData ==
  ASSUME NEW t \in TCBType, t.remote \in Peers, NEW n \in Nat \ {0}
  PROVE  /\ Stream(TCP_ComplexDataOut(t, n), t.remote, t.lastByteSent, n)
         /\ NoFin(TCP_ComplexDataOut(t, n))
<1> DEFINE c == (n + MaxPayload - 1) \div MaxPayload
           Size(k) == IF k < c THEN MaxPayload ELSE n - (c - 1) * MaxPayload
           u(k) == [t EXCEPT !.lastByteSent = Plus(@, (k - 1) * MaxPayload)]
           o == TCP_ComplexDataOut(t, n)
           x == t.lastByteSent
<1>0. c \in Nat \ {0} /\ (c - 1) * MaxPayload < n /\ n <= c * MaxPayload
  BY ChunkCount
<1> HIDE DEF c
<1>1. o = [k \in 1..c |-> Segment(u(k), {"ACK"}, Size(k))]
  BY DEF TCP_ComplexDataOut, c
<1>2. o \in Seq(SentSegment)
  BY DataOutType
<1>3. Len(o) = c
  <2>1. DOMAIN o = 1..c
    BY <1>1
  <2>2. DOMAIN o = 1..Len(o) /\ Len(o) \in Nat
    BY <1>2
  <2> QED BY <2>1, <2>2, <1>0
<1>4. ASSUME NEW k \in 1..c
      PROVE  /\ o[k].dst = t.remote /\ o[k].flags = {"ACK"}
             /\ o[k].seq = Plus(x, (k - 1) * MaxPayload) /\ o[k].len = Size(k)
  <2>1. u(k).remote = t.remote /\ u(k).lastByteSent = Plus(x, (k - 1) * MaxPayload)
    BY DEF TCBType
  <2>2. o[k] = Segment(u(k), {"ACK"}, Size(k))
    BY <1>1
  <2> HIDE DEF u, Size, x, o
  <2> QED
    BY <2>1, <2>2 DEF Segment
<1> HIDE DEF o, u
<1>5. x \in SeqNo /\ x \in Int
  BY DEF TCBType, SeqNo
<1> HIDE DEF x
<1>6. ASSUME NEW k \in 1..c
      PROVE  /\ (k - 1) * MaxPayload \in 0..n
             /\ Size(k) \in Nat
             /\ (k - 1) * MaxPayload + Size(k) <= n
             /\ k < c => Size(k) = MaxPayload /\ (k - 1) * MaxPayload + MaxPayload = k * MaxPayload
             /\ k = c => (k - 1) * MaxPayload + Size(k) = n
  <2>1. /\ (k - 1) * MaxPayload \in Nat /\ (c - 1) * MaxPayload \in Nat
        /\ (k - 1) * MaxPayload + MaxPayload = k * MaxPayload
    BY <1>0, PayloadAssumption
  <2>2. CASE k = c
    BY <1>0, <2>1, <2>2, PayloadAssumption
  <2>3. CASE k < c
    <3>1. k * MaxPayload <= (c - 1) * MaxPayload
      <4>1. \A i, j, b \in Nat : i <= j => i * b <= j * b
        OBVIOUS
      <4>2. k \in Nat /\ c - 1 \in Nat /\ MaxPayload \in Nat /\ k <= c - 1
        BY <1>0, <2>3, PayloadAssumption
      <4> QED BY <4>1, <4>2
    <3> QED
      BY <1>0, <2>1, <2>3, <3>1, PayloadAssumption
  <2> QED BY <1>0, <2>2, <2>3
<1> HIDE DEF Size
<1>7. ASSUME NEW i \in 1..Len(o)
      PROVE  /\ o[i].dst = t.remote /\ "RST" \notin o[i].flags
             /\ "SYN" \notin o[i].flags /\ "FIN" \notin o[i].flags
             /\ \E k \in 0..n : /\ o[i].seq = Plus(x, k) /\ k + o[i].len <= n
                                /\ "FIN" \in o[i].flags => k = n
  <2>1. i \in 1..c
    BY <1>3
  <2>2. /\ o[i].dst = t.remote /\ o[i].flags = {"ACK"}
        /\ o[i].seq = Plus(x, (i - 1) * MaxPayload) /\ o[i].len = Size(i)
    BY <1>4, <2>1
  <2>3. (i - 1) * MaxPayload \in 0..n /\ (i - 1) * MaxPayload + o[i].len <= n
    BY <1>6, <2>1, <2>2
  <2>4. "RST" \notin {"ACK"} /\ "SYN" \notin {"ACK"} /\ "FIN" \notin {"ACK"}
    OBVIOUS
  <2> DEFINE k == (i - 1) * MaxPayload
  <2>5. k \in 0..n /\ o[i].seq = Plus(x, k) /\ k + o[i].len <= n
    BY <2>2, <2>3
  <2> HIDE DEF k
  <2> QED
    BY <2>2, <2>4, <2>5
<1>8. o[1].seq = x
  <2>1. (1 - 1) * MaxPayload = 0 /\ 1 \in 1..c
    BY <1>0, PayloadAssumption
  <2> QED BY <1>4, <1>5, <2>1, PlusZero
<1>9. ASSUME NEW i \in 1..(Len(o) - 1)
      PROVE  o[i + 1].seq = Plus(o[i].seq, o[i].len)
  <2>1. i \in 1..c /\ i + 1 \in 1..c /\ i < c /\ (i + 1) - 1 = i
    BY <1>0, <1>3
  <2>2. o[i + 1].seq = Plus(x, i * MaxPayload)
    BY <1>4, <2>1
  <2>3. o[i].seq = Plus(x, (i - 1) * MaxPayload) /\ o[i].len = MaxPayload
    BY <1>4, <1>6, <2>1
  <2>4. (i - 1) * MaxPayload \in Int /\ (i - 1) * MaxPayload + MaxPayload = i * MaxPayload
    BY <1>6, <2>1
  <2> QED
    <3> DEFINE k == (i - 1) * MaxPayload
    <3>1. k \in Int /\ MaxPayload \in Int
      BY <2>4, PayloadAssumption
    <3> HIDE DEF k
    <3>2. Plus(Plus(x, k), MaxPayload) = Plus(x, k + MaxPayload)
      BY <1>5, <3>1, PlusPlus
    <3> QED BY <2>2, <2>3, <2>4, <3>2 DEF k
<1>10. Plus(x, n) = Plus(o[Len(o)].seq, o[Len(o)].len)
  <2>1. c \in 1..c
    BY <1>0
  <2>2. o[c].seq = Plus(x, (c - 1) * MaxPayload) /\ o[c].len = Size(c)
    BY <1>4, <2>1
  <2>3. (c - 1) * MaxPayload \in Int /\ Size(c) \in Int /\ (c - 1) * MaxPayload + Size(c) = n
    BY <1>6, <2>1
  <2> QED
    BY <1>3, <1>5, <2>2, <2>3, PlusPlus
<1>11. NoFin(o)
  BY <1>7 DEF NoFin
<1>12. Stream(o, t.remote, x, n)
  BY <1>0, <1>2, <1>3, <1>7, <1>8, <1>9, <1>10 DEF Stream
<1> QED
  BY <1>11, <1>12 DEF o, x

(***************************************************************************)
(* What one step launches: nothing, the SYN of a new connection, a reset   *)
(* for a stranger, or a stretch of the stream to the connected peer, which *)
(* is a page when sendHTML answers and carries no byte when it does not.   *)
(***************************************************************************)
Launched(n) ==
  /\ tcb.status # "SYN_RCVD" /\ tcb'.remote = tcb.remote
  /\ Stream(out', tcb.remote, tcb.lastByteSent, n)
  /\ tcb'.lastByteSent = Plus(tcb.lastByteSent, n)
  /\ NoFin(out') \/ finOut' > 0
  /\ \/ n = 0 /\ answers' = answers
     \/ n \in RespLens /\ tcb.status = "ESTABLISHED" /\ answers' = answers + 1 /\ finOut' > 0

LEMMA ConcatAssociates ==
  ASSUME NEW S, NEW a \in Seq(S), NEW b \in Seq(S), NEW c \in Seq(S)
  PROVE  (a \o b) \o c = a \o (b \o c)
OBVIOUS

LEMMA OutShape ==
  ASSUME TypeOK, NEW s, IsSegment(s), handleTCP(s)
  PROVE  \/ /\ out' = <<>> /\ tcb'.lastByteSent = tcb.lastByteSent
            /\ tcb'.remote = tcb.remote /\ UNCHANGED <<answers, finOut>>
         \/ HandleSyn(s)
         \/ HandleBusy(s)
         \/ Matches(s) /\ "RST" \notin s.flags /\ \E n \in Nat : Launched(n)
<1> DEFINE a == Acked(tcb, s)
           t1 == Received(a, s)
<1>0. tcb \in TCBType /\ answers \in Nat /\ finOut \in Nat
  BY DEF TypeOK
<1>t. /\ a \in TCBType /\ a.remote = tcb.remote /\ a.lastByteSent = tcb.lastByteSent
      /\ t1 \in TCBType /\ t1.remote = tcb.remote /\ t1.lastByteSent = tcb.lastByteSent
  BY <1>0, AckedType, ReceivedType
<1>x. tcb.lastByteSent \in SeqNo /\ Plus(tcb.lastByteSent, 0) = tcb.lastByteSent
  BY <1>0, PlusZero DEF TCBType
<1>1. CASE HandleInvalid(s) \/ HandleClosed(s) \/ HandleStranger(s) \/ HandleReset(s)
  BY <1>1, <1>0 DEF HandleInvalid, HandleClosed, HandleStranger, HandleReset, Silent,
                    SameConnection, TCBType
<1>2. CASE HandleSyn(s) \/ HandleBusy(s)
  BY <1>2
<1>3. CASE HandleSynRcvd(s)
  <2>1. tcb' = tcb \/ tcb' = [a EXCEPT !.status = "ESTABLISHED"]
        \/ tcb' = [a EXCEPT !.status = "ESTABLISHED",
                            !.lastAckReceived = s.ack, !.lastByteReceived = s.seq]
    BY <1>3 DEF HandleSynRcvd, Handshaken
  <2> HIDE DEF a
  <2> QED BY <2>1, <1>3, <1>t, <1>0 DEF HandleSynRcvd, Silent, SameConnection, TCBType
<1>4. CASE HandleEstablishedIdle(s)
  BY <1>4, <1>t DEF HandleEstablishedIdle, Silent, SameConnection
<1>5. CASE HandleLastAck(s)
  <2>1. tcb' = [a EXCEPT !.status = "CLOSED"] \/ tcb' = tcb
    BY <1>5 DEF HandleLastAck
  <2> HIDE DEF a
  <2> QED BY <2>1, <1>5, <1>t, <1>0 DEF HandleLastAck, Silent, SameConnection, TCBType
<1>m. ASSUME Matches(s) PROVE tcb.remote \in Peers
  BY <1>m DEF Matches, Listening, TypeOK
<1>6. CASE HandleFinWait1(s) \/ HandleFinWait2(s)
  <2>1. /\ Matches(s) /\ "RST" \notin s.flags /\ UNCHANGED <<answers, finOut>>
        /\ tcb.status # "SYN_RCVD"
    BY <1>6 DEF HandleFinWait1, HandleFinWait2, SameConnection
  <2>2. PICK t \in {a, t1} :
          /\ tcb' = t \/ \E st \in Status : tcb' = [t EXCEPT !.status = st]
          /\ out' = IF Fin(s) THEN TCP_ACK(t) ELSE <<>>
    <3>1. CASE HandleFinWait1(s)
      <4>1. /\ tcb' = t1 \/ tcb' = [t1 EXCEPT !.status = "CLOSED"] \/ tcb' = [t1 EXCEPT !.status = "FIN_WAIT2"]
            /\ out' = IF Fin(s) THEN TCP_ACK(t1) ELSE <<>>
        BY <3>1 DEF HandleFinWait1
      <4> HIDE DEF t1
      <4> QED BY <4>1 DEF Status
    <3>2. CASE HandleFinWait2(s)
      <4>1. /\ tcb' = a \/ tcb' = [a EXCEPT !.status = "CLOSED"]
            /\ out' = IF Fin(s) THEN TCP_ACK(a) ELSE <<>>
        BY <3>2 DEF HandleFinWait2
      <4> HIDE DEF a
      <4> QED BY <4>1 DEF Status
    <3> QED BY <1>6, <3>1, <3>2
  <2>3. t \in TCBType /\ t.remote = tcb.remote /\ t.lastByteSent = tcb.lastByteSent
    BY <1>t, <2>2
  <2> HIDE DEF a, t1
  <2>4. tcb'.remote = tcb.remote /\ tcb'.lastByteSent = tcb.lastByteSent
    BY <2>2, <2>3 DEF TCBType
  <2>5. CASE ~ Fin(s)
    BY <2>1, <2>2, <2>4, <2>5
  <2>6. CASE Fin(s)
    <3>1. tcb.remote \in Peers
      BY <2>1, <1>m
    <3>2. Stream(TCP_ACK(t), t.remote, t.lastByteSent, 0) /\ NoFin(TCP_ACK(t))
      BY <2>3, <3>1, StreamReplies
    <3>3. out' = TCP_ACK(t)
      BY <2>2, <2>6
    <3>4. Launched(0)
      BY <2>1, <2>3, <2>4, <3>2, <3>3, <1>x DEF Launched
    <3> QED BY <2>1, <3>4
  <2> QED BY <2>5, <2>6
<1>7. CASE HandleEstablishedData(s)
  <2> DEFINE reply == sendHTML(s, NewData(tcb, s))
  <2>0. Matches(s) /\ "RST" \notin s.flags /\ tcb.status = "ESTABLISHED" /\ tcb.remote \in Peers
    BY <1>7, <1>m DEF HandleEstablishedData
  <2>1. PICK page \in RespLens :
          LET t2 == IF reply THEN AfterDataOut(t1, page) ELSE t1
          IN  /\ tcb' = CASE Fin(s)             -> [t2 EXCEPT !.status = "LAST_ACK"]
                          [] ~ Fin(s) /\ reply   -> AfterFin(t2)
                          [] ~ Fin(s) /\ ~ reply -> t2
              /\ out' = TCP_ACK(t1)
                        \o (IF reply THEN TCP_ComplexDataOut(t1, page) \o TCP_FIN(t2)
                                     ELSE <<>>)
                        \o (IF Fin(s) THEN TCP_FIN(t2) ELSE <<>>)
              /\ answers' = answers + (IF reply THEN 1 ELSE 0)
              /\ finOut' = finOut + (IF reply THEN 1 ELSE 0) + (IF Fin(s) THEN 1 ELSE 0)
    BY <1>7 DEF HandleEstablishedData
  <2> DEFINE t2 == IF reply THEN AfterDataOut(t1, page) ELSE t1
             n  == IF reply THEN page ELSE 0
             x  == tcb.lastByteSent
             p  == tcb.remote
  <2>2. page \in Nat \ {0} /\ n \in Nat
    BY ResponseAssumption
  <2>3. Plus(x, n) \in SeqNo
    <3>1. x \in Int
      BY <1>x DEF SeqNo
    <3> HIDE DEF n
    <3> QED BY <2>2, <3>1, PlusType
  <2>4. t2 \in TCBType /\ t2.remote = p /\ t2.lastByteSent = Plus(x, n)
    <3> HIDE DEF t1, reply
    <3> QED BY <2>3, <1>t, <1>x DEF TCBType, AfterDataOut
  <2>5. tcb' = [t2 EXCEPT !.status = "LAST_ACK"] \/ tcb' = AfterFin(t2) \/ tcb' = t2
    BY <2>1
  <2>6. /\ out' = TCP_ACK(t1)
                  \o (IF reply THEN TCP_ComplexDataOut(t1, page) \o TCP_FIN(t2) ELSE <<>>)
                  \o (IF Fin(s) THEN TCP_FIN(t2) ELSE <<>>)
        /\ answers' = answers + (IF reply THEN 1 ELSE 0)
        /\ finOut' = finOut + (IF reply THEN 1 ELSE 0) + (IF Fin(s) THEN 1 ELSE 0)
    BY <2>1
  <2> HIDE DEF a, t1, t2
  <2>7. tcb'.remote = p /\ tcb'.lastByteSent = Plus(x, n)
    BY <2>4, <2>5 DEF TCBType, AfterFin
  <2> HIDE DEF reply
  <2> DEFINE A == TCP_ACK(t1)
             D == TCP_ComplexDataOut(t1, page)
             F == TCP_FIN(t2)
  <2>8. /\ Stream(A, p, x, 0) /\ NoFin(A)
        /\ Stream(D, p, x, page) /\ NoFin(D)
        /\ Stream(F, p, Plus(x, n), 0)
    <3>1. Stream(A, p, x, 0) /\ NoFin(A)
      BY <1>t, <2>0, StreamReplies
    <3>2. Stream(D, p, x, page) /\ NoFin(D)
      BY <1>t, <2>0, <2>2, StreamData
    <3>3. Stream(F, p, Plus(x, n), 0)
      BY <2>4, <2>0, StreamReplies
    <3> QED BY <3>1, <3>2, <3>3
  <2>9. A \in Seq(SentSegment) /\ D \in Seq(SentSegment) /\ F \in Seq(SentSegment)
    BY <2>8 DEF Stream
  <2> HIDE DEF A, D, F
  <2>10. CASE ~ reply
    <3>1. n = 0 /\ Plus(x, n) = x
      BY <2>10, <1>x
    <3>2. Stream(A \o F, p, x, 0 + 0)
      BY <3>1, <2>8, <1>x, StreamConcat
    <3>3. out' = IF Fin(s) THEN A \o F ELSE A
      BY <2>6, <2>9, <2>10 DEF A, F
    <3>4. Stream(out', p, x, 0) /\ (NoFin(out') \/ finOut' > 0)
      BY <3>2, <3>3, <2>6, <2>8, <2>10, <1>0
    <3>5. Launched(0)
      BY <3>1, <3>4, <2>0, <2>6, <2>7, <2>10, <1>0 DEF Launched
    <3> QED BY <2>0, <3>5
  <2>11. CASE reply
    <3>1. n = page /\ 0 + page = page /\ page + 0 = page /\ Plus(x, page) \in SeqNo
      BY <2>2, <2>3, <2>11
    <3>2. Stream(A \o D, p, x, page) /\ NoFin(D)
      <4>1. Stream(A \o D, p, x, 0 + page)
        BY <2>2, <2>8, <1>x, StreamConcat
      <4> QED BY <4>1, <3>1, <2>8
    <3>3. Stream((A \o D) \o F, p, x, page)
      <4>1. Stream((A \o D) \o F, p, x, page + 0)
        BY <2>2, <2>8, <3>1, <3>2, <1>x, StreamConcat
      <4> QED BY <4>1, <3>1
    <3>4. Stream(((A \o D) \o F) \o F, p, x, page)
      <4>1. Stream(((A \o D) \o F) \o F, p, x, page + 0)
        BY <2>2, <2>8, <3>1, <3>3, <1>x, StreamConcat
      <4> QED BY <4>1, <3>1
    <3>5. out' = IF Fin(s) THEN ((A \o D) \o F) \o F ELSE (A \o D) \o F
      <4>1. out' = A \o (D \o F) \o (IF Fin(s) THEN F ELSE <<>>)
        BY <2>6, <2>11 DEF A, D, F
      <4>2. A \o (D \o F) = (A \o D) \o F
        BY <2>9, ConcatAssociates
      <4>3. (A \o D) \o F \in Seq(SentSegment)
        BY <2>9, ConcatType
      <4> DEFINE G == (A \o D) \o F
      <4>4. out' = G \o (IF Fin(s) THEN F ELSE <<>>) /\ G \in Seq(SentSegment)
        BY <4>1, <4>2, <4>3
      <4> HIDE DEF G
      <4>5. out' = IF Fin(s) THEN G \o F ELSE G
        BY <4>4
      <4> QED BY <4>5 DEF G
    <3>6. Stream(out', p, x, page)
      BY <3>3, <3>4, <3>5
    <3>7. finOut' > 0 /\ answers' = answers + 1
      BY <2>6, <2>11, <1>0
    <3>8. Launched(page)
      BY <3>1, <3>6, <3>7, <2>0, <2>7 DEF Launched
    <3> QED BY <2>0, <2>2, <3>8
  <2> QED BY <2>10, <2>11
<1> QED
  BY <1>1, <1>2, <1>3, <1>4, <1>5, <1>6, <1>7 DEF handleTCP

(***************************************************************************)
(* What one step does to the counters of what was received: a step other   *)
(* than a SYN's takes an acknowledgement only from a segment that has one, *)
(* and moves lastByteReceived only to the place of the segment that ends   *)
(* the handshake or to the end of one that brings new data.                *)
(***************************************************************************)
LEMMA CounterShape ==
  ASSUME TypeOK, NEW s, IsSegment(s), handleTCP(s), ~ HandleSyn(s)
  PROVE  /\ \/ tcb'.lastAckReceived = tcb.lastAckReceived
            \/ "ACK" \in s.flags /\ tcb'.lastAckReceived = s.ack
         /\ \/ tcb'.lastByteReceived = tcb.lastByteReceived
            \/ /\ Matches(s) /\ "RST" \notin s.flags /\ tcb.status = "SYN_RCVD"
               /\ "ACK" \in s.flags /\ s.ack = tcb.lastByteSent
               /\ tcb'.lastByteReceived = s.seq
            \/ /\ Matches(s) /\ "RST" \notin s.flags /\ NewData(tcb, s) > 0
               /\ tcb'.lastByteReceived = LastByte(s)
         /\ dataIn' # 0 => Matches(s) /\ "RST" \notin s.flags /\ NewData(tcb, s) > 0
<1> DEFINE a == Acked(tcb, s)
           t1 == Received(a, s)
<1>0. tcb \in TCBType
  BY DEF TypeOK
<1>a. /\ a \in TCBType /\ a.lastByteReceived = tcb.lastByteReceived
      /\ a.lastByteSent = tcb.lastByteSent
      /\ \/ a.lastAckReceived = tcb.lastAckReceived
         \/ "ACK" \in s.flags /\ a.lastAckReceived = s.ack
  <2>1. /\ \/ a.lastAckReceived = tcb.lastAckReceived
           \/ "ACK" \in s.flags /\ a.lastAckReceived = s.ack
    BY <1>0 DEF Acked, TCBType
  <2> QED BY <1>0, <2>1, AckedType
<1>n. NewData(a, s) = NewData(tcb, s) /\ NewData(tcb, s) \in Nat
  <2>1. NewData(a, s) = NewData(tcb, s)
    BY <1>a DEF NewData, InOrder
  <2> QED BY <1>0, <2>1, ReceivedType
<1>t. /\ t1 \in TCBType /\ t1.lastAckReceived = a.lastAckReceived
      /\ \/ t1.lastByteReceived = tcb.lastByteReceived
         \/ NewData(tcb, s) > 0 /\ t1.lastByteReceived = LastByte(s)
  <2>1. t1 \in TCBType
    BY <1>a, ReceivedType
  <2> HIDE DEF a
  <2> QED BY <1>a, <1>n, <2>1 DEF Received, TCBType
<1> HIDE DEF a, t1
<1>1. CASE HandleInvalid(s) \/ HandleClosed(s) \/ HandleBusy(s) \/ HandleStranger(s)
           \/ HandleReset(s)
  BY <1>1, <1>0 DEF HandleInvalid, HandleClosed, HandleBusy, HandleStranger, HandleReset,
                    Silent, TCBType
<1>2. CASE HandleSynRcvd(s)
  <2>1. \/ tcb' = tcb
        \/ "ACK" \in s.flags /\ tcb' = [a EXCEPT !.status = "ESTABLISHED"]
        \/ /\ "ACK" \in s.flags /\ s.ack = tcb.lastByteSent
           /\ tcb' = [a EXCEPT !.status = "ESTABLISHED",
                               !.lastAckReceived = s.ack, !.lastByteReceived = s.seq]
    BY <1>2, <1>a DEF HandleSynRcvd, Handshaken, a
  <2> QED BY <1>2, <2>1, <1>a DEF HandleSynRcvd, Silent, TCBType
<1>3. CASE HandleEstablishedIdle(s)
  BY <1>3, <1>t, <1>a DEF HandleEstablishedIdle, Silent, a, t1
<1>4. CASE HandleEstablishedData(s)
  <2>1. PICK page \in RespLens :
          \E t2 \in {t1, AfterDataOut(t1, page)} :
            /\ tcb' = [t2 EXCEPT !.status = "LAST_ACK"] \/ tcb' = AfterFin(t2) \/ tcb' = t2
            /\ dataIn' = NewData(tcb, s)
    BY <1>4 DEF HandleEstablishedData, a, t1
  <2>2. /\ tcb'.lastAckReceived = t1.lastAckReceived
        /\ tcb'.lastByteReceived = t1.lastByteReceived
        /\ dataIn' = NewData(tcb, s)
    BY <2>1, <1>t DEF TCBType, AfterDataOut, AfterFin
  <2> QED BY <1>4, <2>2, <1>t, <1>a, <1>n DEF HandleEstablishedData
<1>5. CASE HandleFinWait1(s)
  <2>1. tcb' = t1 \/ tcb' = [t1 EXCEPT !.status = "CLOSED"]
        \/ tcb' = [t1 EXCEPT !.status = "FIN_WAIT2"]
    BY <1>5 DEF HandleFinWait1, a, t1
  <2> QED BY <1>5, <2>1, <1>t, <1>a DEF HandleFinWait1, TCBType
<1>6. CASE HandleFinWait2(s)
  <2>1. tcb' = a \/ tcb' = [a EXCEPT !.status = "CLOSED"]
    BY <1>6 DEF HandleFinWait2, a
  <2> QED BY <1>6, <2>1, <1>a DEF HandleFinWait2, TCBType
<1>7. CASE HandleLastAck(s)
  <2>1. tcb' = tcb \/ tcb' = [a EXCEPT !.status = "CLOSED"]
    BY <1>7 DEF HandleLastAck, a
  <2> QED BY <1>7, <2>1, <1>a DEF HandleLastAck, Silent, TCBType
<1> QED
  BY <1>1, <1>2, <1>3, <1>4, <1>5, <1>6, <1>7 DEF handleTCP

(***************************************************************************)
(* Whoever sends whatever, handleTCP sends its resets to peers it is not   *)
(* connected to, and everything else to the one it is connected to.        *)
(***************************************************************************)
THEOREM ResetsAreForOthers == Spec => []ResetsOnlyOthers
<1>1. Init => ResetsOnlyOthers
  BY DEF Init, ResetsOnlyOthers
<1>2. ASSUME TypeOK, ResetsOnlyOthers, [Next]_vars PROVE ResetsOnlyOthers'
  <2>1. CASE UNCHANGED vars
    BY <1>2, <2>1 DEF vars, ResetsOnlyOthers
  <2>2. ASSUME NEW s \in RcvdSegment, handleTCP(s) PROVE ResetsOnlyOthers'
    <3>1. IsSegment(s)
      BY RcvdIsSegment
    <3>2. CASE out' = <<>>
      BY <3>2 DEF ResetsOnlyOthers
    <3>3. CASE HandleSyn(s)
      BY <3>3 DEF HandleSyn, ResetsOnlyOthers
    <3>4. CASE HandleBusy(s)
      <4>1. s.src # tcb.remote /\ tcb' = tcb /\ out' = TCP_RST(s.src, Plus(s.seq, 1))
        BY <3>4 DEF HandleBusy
      <4> QED BY <4>1 DEF TCP_RST, ResetsOnlyOthers
    <3>5. ASSUME NEW n \in Nat, Launched(n) PROVE ResetsOnlyOthers'
      BY <3>5 DEF Launched, Stream, ResetsOnlyOthers
    <3> QED BY <1>2, <2>2, <3>1, <3>2, <3>3, <3>4, <3>5, OutShape
  <2> QED
    BY <1>2, <2>1, <2>2 DEF Next
<1> QED
  BY <1>1, <1>2, TypeCorrect, PTL DEF Spec

(***************************************************************************)
(* For every page length and payload limit, TCP_ComplexDataOut and the     *)
(* control segments around it make one gapless stream, also where the      *)
(* sequence numbers wrap.                                                  *)
(***************************************************************************)
THEOREM StreamHasNoGap == Spec => StreamIsGapless
<1> DEFINE Gapless ==
     (tcb.status # "CLOSED" /\ out' # <<>> /\ out'[1].dst = tcb.remote) =>
        /\ out'[1].seq = tcb.lastByteSent
        /\ \A i \in 1..(Len(out') - 1) :
             out'[i+1].seq = Plus(out'[i].seq, out'[i].len)
        /\ tcb'.lastByteSent = Plus(out'[Len(out')].seq, out'[Len(out')].len)
<1>1. ASSUME TypeOK, [Next]_vars
      PROVE  [Gapless]_vars
  <2>1. ASSUME NEW s \in RcvdSegment, handleTCP(s) PROVE Gapless
    <3>1. IsSegment(s)
      BY RcvdIsSegment
    <3>2. CASE out' = <<>>
      BY <3>2
    <3>3. CASE HandleSyn(s)
      BY <3>3 DEF HandleSyn, Listening
    <3>4. CASE HandleBusy(s)
      <4>1. s.src # tcb.remote /\ out' = TCP_RST(s.src, Plus(s.seq, 1))
        BY <3>4 DEF HandleBusy
      <4> QED BY <4>1 DEF TCP_RST
    <3>5. ASSUME NEW n \in Nat, Launched(n) PROVE Gapless
      BY <3>5 DEF Launched, Stream
    <3> HIDE DEF Gapless
    <3> QED BY <1>1, <2>1, <3>1, <3>2, <3>3, <3>4, <3>5, OutShape
  <2> HIDE DEF Gapless
  <2> QED
    BY <1>1, <2>1 DEF Next
<1> QED
  BY <1>1, TypeCorrect, PTL DEF Spec, StreamIsGapless
=============================================================================
