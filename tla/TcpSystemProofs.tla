--------------------------- MODULE TcpSystemProofs ---------------------------
(***************************************************************************)
(* Proofs about module TcpSystem: the server of module Tcp among any       *)
(* number of clients, with a network that loses, delays, reorders and      *)
(* duplicates.                                                             *)
(***************************************************************************)
EXTENDS TcpSystem, TcpProofs

(* Place j of the stream of a client's connection c, its SYN at place 0 *)
Place(c, j) == Plus(0, c * IssStep + j)

FinOf(s) == IF "FIN" \in s.flags THEN 1 ELSE 0

(* A segment of a client: it lies within its connection's stretch of numbers *)
FromClients(s) ==
  /\ s.src \in Clients /\ s.conn \in 0..MaxConns
  /\ s.flags \in {{"SYN"}, {"ACK"}, {"FIN", "ACK"}, {"RST"}}
  /\ s.seq \in SeqNo /\ s.ack \in SeqNo /\ s.len \in Nat
  /\ "RST" \notin s.flags =>
       \E j \in 0..(StreamLen + 2) : /\ s.seq = Place(s.conn, j)
                                     /\ j + s.len + FinOf(s) <= StreamLen + 2
  /\ "SYN" \in s.flags => s.seq = Place(s.conn, 0)

SysTyped ==
  /\ TypeOK
  /\ client \in [Clients -> Client]
  /\ \A s \in toServer : FromClients(s)
  /\ toPeers \subseteq SentSegment
  /\ opens \in 0..MaxOpens
  /\ current.conn \in 0..MaxConns
  /\ current = [conn |-> current.conn, bytes |-> current.bytes]
  /\ lost \in BOOLEAN

(***************************************************************************)
(* How far an acknowledgement lies behind all that the server has sent,    *)
(* and how often lastByteSent has leapt: once when a connection is opened  *)
(* and once when the page is sent.  K is the largest of these leaps.       *)
(***************************************************************************)
Fins == IF finOut > 0 THEN 1 ELSE 0

Top == tcb.lastByteSent + Fins

Below(z, a) == (z - a) % M

Lag(a) == Below(Top, a)

Leaps == 2 * opens - (IF tcb.status \in {"SYN_RCVD", "ESTABLISHED"} THEN 1 ELSE 0)

(* K is large enough for every leap, and all leaps together are well within M *)
LeapsFit(K) ==
  /\ \A step \in ISNSteps : step + 1 <= K
  /\ \A page \in RespLens : page + 1 <= K
  /\ 2 * MaxOpens * K < M \div 2

(* The sequence number that a client expects after segment r *)
EndOf(r) == Plus(r.seq, IF "SYN" \in r.flags THEN 1 ELSE r.len + FinOf(r))

AckInv(K) ==
  /\ tcb.status # "CLOSED" => opens > 0
  /\ opens > 0 => Lag(tcb.lastAckReceived) <= Leaps * K
  /\ \A s \in toServer : "ACK" \in s.flags => Lag(s.ack) <= Leaps * K
  /\ \A p \in Clients : client[p].st = "OPEN" => Lag(client[p].rcv) <= Leaps * K
  /\ \A r \in toPeers : "RST" \notin r.flags => Lag(EndOf(r)) <= Leaps * K

(***************************************************************************)
(* While the handshake is on, only the client connection whose SYN opened  *)
(* the server's can acknowledge the server's SYN; from then on the last    *)
(* byte received lies in that connection's stretch.                        *)
(***************************************************************************)
OpenerKnown ==
  tcb.status = "SYN_RCVD" =>
    /\ finOut = 0
    /\ \A s \in toServer : "ACK" \in s.flags /\ s.ack = tcb.lastByteSent =>
         s.src = tcb.remote /\ s.conn = current.conn
    /\ \A p \in Clients : client[p].st = "OPEN" /\ client[p].rcv = tcb.lastByteSent =>
         p = tcb.remote /\ client[p].conn = current.conn
    /\ \A r \in toPeers : "RST" \notin r.flags /\ EndOf(r) = tcb.lastByteSent =>
         r.flags = {"SYN", "ACK"} /\ r.dst = tcb.remote /\ r.ack = Place(current.conn, 1)

(* A client's connections have stretches of their own, all within half the range *)
StretchesFit ==
  /\ IssStep >= StreamLen + 5
  /\ MaxConns * IssStep + StreamLen + 4 <= M \div 2

DataInv ==
  /\ OpenerKnown
  /\ tcb.status # "CLOSED" =>
       \E j \in 0..(StreamLen + 2) : tcb.lastByteReceived = Place(current.conn, j)
  /\ NoStaleData

-----------------------------------------------------------------------------
(* Places in a client's stream *)
LEMMA PlaceType ==
  ASSUME NEW c \in 0..MaxConns, NEW j \in Int
  PROVE  /\ c * IssStep \in Int
         /\ Place(c, j) \in SeqNo
         /\ \A i \in Int : Plus(Place(c, j), i) = Place(c, j + i)
<1>1. c * IssStep \in Int /\ c * IssStep + j \in Int
  BY BoundsAssumption
<1>2. Place(c, j) \in SeqNo
  BY <1>1, PlusType DEF Place
<1>3. ASSUME NEW i \in Int PROVE Plus(Place(c, j), i) = Place(c, j + i)
  <2> DEFINE b == c * IssStep
  <2>1. b \in Int
    BY <1>1
  <2> HIDE DEF b
  <2>2. Plus(Plus(0, b + j), i) = Plus(0, (b + j) + i)
    BY <2>1, PlusPlus
  <2>3. (b + j) + i = b + (j + i)
    BY <2>1
  <2> QED BY <2>2, <2>3 DEF Place, b
<1> QED BY <1>1, <1>2, <1>3

LEMMA ClientPlaces ==
  ASSUME NEW p \in Clients, client[p].conn \in 0..MaxConns
  PROVE  /\ Iss(p) = Place(client[p].conn, 0)
         /\ Plus(Iss(p), 1) = Place(client[p].conn, 1)
         /\ \A i \in Int : At(p, i) = Place(client[p].conn, 1 + i)
<1> DEFINE c == client[p].conn
<1>1. c * IssStep \in Int /\ c * IssStep + 0 = c * IssStep
  BY BoundsAssumption
<1>2. Iss(p) = Place(c, 0)
  BY <1>1 DEF Iss, Place
<1> HIDE DEF c
<1>3. \A i \in Int : Plus(Place(c, 0), i) = Place(c, 0 + i)
  BY PlaceType DEF c
<1>4. ASSUME NEW i \in Int PROVE At(p, i) = Place(c, 1 + i)
  <2>1. 1 + i \in Int /\ 0 + (1 + i) = 1 + i
    OBVIOUS
  <2> QED BY <1>2, <1>3, <2>1 DEF At
<1>5. Plus(Iss(p), 1) = Place(c, 1)
  BY <1>2, <1>3
<1> QED BY <1>2, <1>4, <1>5 DEF c

(***************************************************************************)
(* What a step of client p puts on the network: a segment of its current   *)
(* connection that acknowledges all that the client has got.               *)
(***************************************************************************)
Sent(p, s) ==
  /\ FromClients(s) /\ s.src = p /\ s.conn = client[p].conn
  /\ "ACK" \in s.flags => client'[p].st = "OPEN" /\ s.ack = client'[p].rcv

(* The fields of a segment that a client makes *)
LEMMA FromClientFields ==
  ASSUME NEW p \in Clients, client[p].conn \in 0..MaxConns,
         NEW f, NEW seq, NEW ack, NEW from, NEW len
  PROVE  LET s == FromClient(p, f, seq, ack, from, len)
         IN  /\ s.src = p /\ s.conn = client[p].conn /\ s.flags = f /\ s.seq = seq
             /\ s.ack = ack /\ s.len = len
BY DEF FromClient

(* ... and when it is one of FromClients *)
LEMMA MadeByClient ==
  ASSUME NEW p \in Clients, client[p].conn \in 0..MaxConns,
         NEW f \in {{"SYN"}, {"ACK"}, {"FIN", "ACK"}},
         NEW j \in 0..(StreamLen + 2), NEW ack \in SeqNo, NEW from, NEW len \in Nat,
         j + len + (IF "FIN" \in f THEN 1 ELSE 0) <= StreamLen + 2,
         "SYN" \in f => j = 0
  PROVE  FromClients(FromClient(p, f, Place(client[p].conn, j), ack, from, len))
<1> DEFINE s == FromClient(p, f, Place(client[p].conn, j), ack, from, len)
<1>1. /\ s.src = p /\ s.conn = client[p].conn /\ s.flags = f
      /\ s.seq = Place(client[p].conn, j) /\ s.ack = ack /\ s.len = len
  BY FromClientFields
<1>2. s.seq \in SeqNo
  <2>1. j \in Int
    BY StreamAssumption
  <2> QED BY <1>1, <2>1, PlaceType
<1> HIDE DEF s
<1>3. FromClients(s)
  BY <1>1, <1>2 DEF FromClients, FinOf
<1> QED BY <1>3 DEF s

(***************************************************************************)
(* What one step of client p does: the others and the server stay as they  *)
(* are, and p is afterwards in an open connection only if it was in the    *)
(* same one before or a SYN ACK for it has arrived; what it then expects   *)
(* next is what it expected before or the end of a segment that arrived.   *)
(***************************************************************************)
PeerMove(p) ==
  /\ UNCHANGED <<serverVars, lost>>
  /\ client' \in [Clients -> Client]
  /\ \A q \in Clients \ {p} : client'[q] = client[q]
  /\ toPeers' \subseteq toPeers
  /\ \A s \in toServer' : s \in toServer \/ Sent(p, s)
  /\ client'[p].st = "OPEN" =>
       /\ client'[p].conn = client[p].conn
       /\ \/ client[p].st = "OPEN" /\ client'[p].rcv = client[p].rcv
          \/ \E r \in toPeers :
               /\ r.dst = p /\ "RST" \notin r.flags /\ client'[p].rcv = EndOf(r)
               /\ \/ client[p].st = "OPEN" /\ "SYN" \notin r.flags
                  \/ r.flags = {"SYN", "ACK"} /\ r.ack = Place(client[p].conn, 1)

LEMMA PeerShape ==
  ASSUME SysTyped, NEW p \in Clients, PeerStep(p)
  PROVE  PeerMove(p)
<1> DEFINE c == client[p]
<1>0. /\ client \in [Clients -> Client] /\ c \in Client /\ c.conn \in 0..MaxConns
      /\ UNCHANGED <<serverVars, lost>>
  BY DEF SysTyped, PeerStep, Client
<1>s. StreamLen \in Nat /\ MaxConns \in Nat /\ 0 \in SeqNo
  BY StreamAssumption, BoundsAssumption, SeqNoInt
<1>f. /\ c.una \in 0..(StreamLen + 1) /\ c.nxt \in 0..StreamLen /\ c.rcv \in SeqNo
      /\ c.fin \in BOOLEAN /\ c.st \in {"CLOSED", "SYN_SENT", "OPEN", "OFF"}
      /\ c.got \in Nat /\ c.eof \in BOOLEAN
  BY <1>0 DEF Client
<1>p. /\ Iss(p) = Place(c.conn, 0) /\ Plus(Iss(p), 1) = Place(c.conn, 1)
      /\ \A i \in Int : At(p, i) = Place(c.conn, 1 + i)
  BY <1>0, ClientPlaces
<1>r. ASSUME NEW r \in toPeers
      PROVE  /\ r.seq \in SeqNo /\ r.seq \in Int /\ r.ack \in SeqNo /\ r.len \in Nat
  BY DEF SysTyped, SentSegment, SeqNo
<1>c. ASSUME NEW r, Consume(r) PROVE toPeers' \subseteq toPeers
  BY <1>c DEF Consume
(* A client that has changed in one of the ways below keeps its type *)
<1>k. ASSUME NEW d \in Client, client' = [client EXCEPT ![p] = d]
      PROVE  /\ client' \in [Clients -> Client] /\ client'[p] = d
             /\ \A q \in Clients \ {p} : client'[q] = client[q]
  BY <1>0, <1>k
<1>1. CASE PeerConnect(p)
  <2> DEFINE d == [st |-> "SYN_SENT", conn |-> c.conn + 1, una |-> 0, nxt |-> 0,
                   fin |-> FALSE, rcv |-> 0, got |-> 0, eof |-> FALSE]
  <2>1. client' = [client EXCEPT ![p] = d] /\ UNCHANGED <<toServer, toPeers>> /\ c.conn + 1 \in 0..MaxConns
    BY <1>1, <1>0, <1>s DEF PeerConnect
  <2>2. d \in Client /\ d.st # "OPEN"
    BY <2>1, <1>s DEF Client
  <2> HIDE DEF d
  <2> QED BY <2>1, <2>2, <1>k, <1>0 DEF PeerMove
<1>2. CASE PeerSendSyn(p)
  <2> DEFINE s == FromClient(p, {"SYN"}, Place(c.conn, 0), 0, 0, 0)
  <2>1. c.st = "SYN_SENT" /\ toServer' = toServer \cup {s} /\ UNCHANGED <<client, toPeers>>
    BY <1>2, <1>p DEF PeerSendSyn, Launch
  <2>2. FromClients(s)
    <3>1. /\ 0 \in 0..(StreamLen + 2) /\ 0 \in Nat
          /\ 0 + 0 + (IF "FIN" \in {"SYN"} THEN 1 ELSE 0) <= StreamLen + 2
      BY <1>s
    <3> QED BY <3>1, <1>0, <1>s, MadeByClient
  <2>3. s.src = p /\ s.conn = c.conn /\ "ACK" \notin s.flags
    BY <1>0, FromClientFields
  <2> HIDE DEF s
  <2>4. Sent(p, s)
    BY <2>2, <2>3 DEF Sent
  <2> QED BY <2>1, <2>4, <1>0 DEF PeerMove
<1>3. CASE PeerSendData(p)
  <2>1. PICK from \in {c.una, c.nxt}, len \in MinSeg..StreamLen :
          /\ from + len <= StreamLen
          /\ Launch(FromClient(p, IF c.fin /\ from + len = StreamLen THEN {"FIN", "ACK"} ELSE {"ACK"},
                               At(p, from), c.rcv, from, len))
          /\ client' = [client EXCEPT ![p].nxt = IF from + len > @ THEN from + len ELSE @]
    BY <1>3 DEF PeerSendData
  <2> DEFINE f == IF c.fin /\ from + len = StreamLen THEN {"FIN", "ACK"} ELSE {"ACK"}
             s == FromClient(p, f, Place(c.conn, 1 + from), c.rcv, from, len)
             d == [c EXCEPT !.nxt = IF from + len > c.nxt THEN from + len ELSE c.nxt]
  <2>2. from \in Nat /\ len \in Nat /\ from \in Int
    BY <1>f, <1>s, StreamAssumption
  <2>3. toServer' = toServer \cup {s} /\ client' = [client EXCEPT ![p] = d] /\ toPeers' = toPeers /\ c.st = "OPEN"
    BY <1>3, <2>1, <2>2, <1>p, <1>0 DEF PeerSendData, Launch
  <2>4. d \in Client /\ d.st = c.st /\ d.conn = c.conn /\ d.rcv = c.rcv
    <3>1. (IF from + len > c.nxt THEN from + len ELSE c.nxt) \in 0..StreamLen
      BY <2>1, <2>2, <1>f, <1>s
    <3> QED BY <3>1, <1>0 DEF Client
  <2>5. FromClients(s) /\ "ACK" \in f
    <3>1. /\ 1 + from \in 0..(StreamLen + 2)
          /\ (1 + from) + len + (IF "FIN" \in f THEN 1 ELSE 0) <= StreamLen + 2
      BY <2>1, <2>2, <1>s
    <3>2. f \in {{"ACK"}, {"FIN", "ACK"}} /\ "SYN" \notin f /\ "ACK" \in f
      OBVIOUS
    <3> HIDE DEF f
    <3> QED BY <3>1, <3>2, <2>2, <1>0, <1>f, MadeByClient
  <2>6. s.src = p /\ s.conn = c.conn /\ s.ack = c.rcv
    BY <1>0, FromClientFields
  <2> HIDE DEF s, d, f
  <2>7. client'[p] = d
    BY <2>3, <2>4, <1>k
  <2>8. Sent(p, s)
    BY <2>3, <2>4, <2>5, <2>6, <2>7 DEF Sent
  <2> QED BY <2>3, <2>4, <2>7, <2>8, <1>k, <1>0 DEF PeerMove
<1>4. CASE PeerClose(p)
  <2> DEFINE s == FromClient(p, {"FIN", "ACK"}, Place(c.conn, 1 + StreamLen), c.rcv, StreamLen, 0)
             d == [c EXCEPT !.fin = TRUE]
  <2>1. toServer' = toServer \cup {s} /\ client' = [client EXCEPT ![p] = d] /\ toPeers' = toPeers /\ c.st = "OPEN"
    BY <1>4, <1>p, <1>s, <1>0 DEF PeerClose, Launch
  <2>2. d \in Client /\ d.st = c.st /\ d.conn = c.conn /\ d.rcv = c.rcv
    BY <1>0 DEF Client
  <2>3. FromClients(s)
    <3>1. /\ 1 + StreamLen \in 0..(StreamLen + 2) /\ 0 \in Nat
          /\ (1 + StreamLen) + 0 + (IF "FIN" \in {"FIN", "ACK"} THEN 1 ELSE 0) <= StreamLen + 2
      BY <1>s
    <3>2. "SYN" \notin {"FIN", "ACK"}
      OBVIOUS
    <3> QED BY <3>1, <3>2, <1>0, <1>f, MadeByClient
  <2>4. s.src = p /\ s.conn = c.conn /\ s.ack = c.rcv
    BY <1>0, FromClientFields
  <2> HIDE DEF s, d
  <2>5. client'[p] = d
    BY <2>1, <2>2, <1>k
  <2>6. Sent(p, s)
    BY <2>1, <2>2, <2>3, <2>4, <2>5 DEF Sent
  <2> QED BY <2>1, <2>2, <2>5, <2>6, <1>k, <1>0 DEF PeerMove
<1>5. CASE PeerDone(p) \/ PeerVanish(p)
  <2>1. PICK st \in {"CLOSED", "OFF"} : client' = [client EXCEPT ![p].st = st]
    BY <1>5 DEF PeerDone, PeerVanish
  <2> DEFINE d == [c EXCEPT !.st = st]
  <2>2. client' = [client EXCEPT ![p] = d] /\ UNCHANGED <<toServer, toPeers>>
    BY <1>5, <2>1, <1>0 DEF PeerDone, PeerVanish
  <2>3. d \in Client /\ d.st # "OPEN"
    BY <1>0 DEF Client
  <2> HIDE DEF d
  <2> QED BY <2>2, <2>3, <1>k, <1>0 DEF PeerMove
<1>6. ASSUME NEW r \in toPeers, PeerRcvSynAck(p, r) PROVE PeerMove(p)
  <2> DEFINE s == FromClient(p, {"ACK"}, Place(c.conn, 1), Plus(r.seq, 1), 0, 0)
             d == [c EXCEPT !.st = "OPEN", !.rcv = Plus(r.seq, 1)]
  <2>0. At(p, 0) = Place(c.conn, 1)
    <3>1. 0 \in Int /\ 1 + 0 = 1
      OBVIOUS
    <3> QED BY <1>p, <3>1
  <2>1. /\ toServer' = toServer \cup {s} /\ client' = [client EXCEPT ![p] = d]
        /\ Consume(r) /\ r.dst = p /\ r.flags = {"SYN", "ACK"} /\ r.ack = Place(c.conn, 1)
    <3>1. client' = [client EXCEPT ![p] = d]
      BY <1>6, <1>0 DEF PeerRcvSynAck, Client
    <3>2. toServer' = toServer \cup {s}
      BY <1>6, <2>0 DEF PeerRcvSynAck, Launch
    <3> QED BY <3>1, <3>2, <1>6, <1>p DEF PeerRcvSynAck
  <2>2. Plus(r.seq, 1) \in SeqNo
    BY <1>r, PlusType
  <2>3. d \in Client /\ d.st = "OPEN" /\ d.conn = c.conn /\ d.rcv = Plus(r.seq, 1)
    BY <2>2, <1>0 DEF Client
  <2>4. FromClients(s)
    <3>1. /\ 1 \in 0..(StreamLen + 2) /\ 0 \in Nat
          /\ 1 + 0 + (IF "FIN" \in {"ACK"} THEN 1 ELSE 0) <= StreamLen + 2
      BY <1>s
    <3>2. "SYN" \notin {"ACK"}
      OBVIOUS
    <3> QED BY <3>1, <3>2, <2>2, <1>0, MadeByClient
  <2>5. s.src = p /\ s.conn = c.conn /\ s.ack = Plus(r.seq, 1)
    BY <1>0, FromClientFields
  <2> HIDE DEF s, d
  <2>6. client'[p] = d
    BY <2>1, <2>3, <1>k
  <2>7. Sent(p, s)
    BY <2>3, <2>4, <2>5, <2>6 DEF Sent
  <2>8. EndOf(r) = Plus(r.seq, 1) /\ "RST" \notin r.flags
    BY <2>1 DEF EndOf
  <2> QED BY <2>1, <2>3, <2>6, <2>7, <2>8, <1>c, <1>k, <1>0 DEF PeerMove
<1>7. ASSUME NEW r \in toPeers, PeerReceive(p, r) PROVE PeerMove(p)
  <2> DEFINE size  == r.len + FinOf(r)
             acked == Diff(r.ack, At(p, 0))
             sent  == c.nxt + (IF c.fin THEN 1 ELSE 0)
  <2>0. /\ c.st = "OPEN" /\ r.dst = p /\ "RST" \notin r.flags /\ Consume(r)
        /\ \/ /\ r.seq = c.rcv /\ "SYN" \notin r.flags
              /\ client' = [client EXCEPT
                   ![p].una = IF acked > @ /\ acked <= sent THEN acked ELSE @,
                   ![p].rcv = Plus(c.rcv, size),
                   ![p].got = @ + r.len,
                   ![p].eof = @ \/ "FIN" \in r.flags]
              /\ IF size > 0 THEN Launch(PureAck(p, Plus(c.rcv, size))) ELSE UNCHANGED toServer
           \/ /\ Launch(PureAck(p, c.rcv)) /\ UNCHANGED client
    BY <1>7 DEF PeerReceive, FinOf
  <2>1. acked \in Int
    <3>1. At(p, 0) \in SeqNo
      <4>1. 0 \in Int /\ 1 + 0 = 1 /\ 1 \in Int
        OBVIOUS
      <4> QED BY <4>1, <1>p, <1>0, PlaceType
    <3> QED BY <3>1, <1>r, DiffType
  <2>2. size \in Nat
    BY <1>r DEF FinOf
  <2>3. Plus(c.rcv, size) \in SeqNo
    <3>1. c.rcv \in Int /\ size \in Int
      BY <1>f, <2>2, SeqNoInt
    <3> HIDE DEF size
    <3> QED BY <3>1, PlusType
  <2>4. ASSUME NEW a \in SeqNo
        PROVE  /\ FromClients(PureAck(p, a)) /\ PureAck(p, a).src = p
               /\ PureAck(p, a).conn = c.conn /\ PureAck(p, a).ack = a
    <3> DEFINE j == 1 + sent
    <3>1. sent \in Int /\ j \in 0..(StreamLen + 2)
      BY <1>f, <1>s
    <3>2. SndNxt(p) = Place(c.conn, j)
      BY <1>p, <3>1 DEF SndNxt
    <3> HIDE DEF j
    <3>3. PureAck(p, a) = FromClient(p, {"ACK"}, Place(c.conn, j), a, 0, 0)
      BY <3>2 DEF PureAck
    <3>4. /\ j + 0 + (IF "FIN" \in {"ACK"} THEN 1 ELSE 0) <= StreamLen + 2
          /\ 0 \in Nat /\ "SYN" \notin {"ACK"}
      BY <3>1, <1>s
    <3>5. FromClients(FromClient(p, {"ACK"}, Place(c.conn, j), a, 0, 0))
      BY <3>1, <3>4, <1>0, MadeByClient
    <3> QED BY <3>3, <3>5, <1>0, FromClientFields
  <2> HIDE DEF acked, sent
  <2>5. CASE /\ r.seq = c.rcv /\ "SYN" \notin r.flags
             /\ client' = [client EXCEPT
                  ![p].una = IF acked > @ /\ acked <= sent THEN acked ELSE @,
                  ![p].rcv = Plus(c.rcv, size),
                  ![p].got = @ + r.len,
                  ![p].eof = @ \/ "FIN" \in r.flags]
             /\ IF size > 0 THEN Launch(PureAck(p, Plus(c.rcv, size))) ELSE UNCHANGED toServer
    <3> DEFINE una == IF acked > c.una /\ acked <= sent THEN acked ELSE c.una
               eof == c.eof \/ "FIN" \in r.flags
               got == c.got + r.len
               rcv == Plus(c.rcv, size)
               d == [c EXCEPT !.una = una, !.rcv = rcv, !.got = got, !.eof = eof]
               s == PureAck(p, rcv)
    <3>1. client' = [client EXCEPT ![p] = d]
      <4> HIDE DEF size
      <4> QED BY <2>5, <1>0 DEF Client
    <3>2. una \in 0..(StreamLen + 1) /\ got \in Nat /\ eof \in BOOLEAN /\ rcv \in SeqNo
      BY <2>1, <2>3, <1>f, <1>r, <1>s DEF sent
    <3>3. /\ FromClients(s) /\ s.src = p /\ s.conn = c.conn /\ s.ack = rcv
      BY <2>4, <3>2
    <3>4. rcv = EndOf(r)
      BY <2>5 DEF EndOf
    <3>5. \A q \in toServer' : q \in toServer \/ q = s
      BY <2>5 DEF Launch
    <3> HIDE DEF una, eof, got, rcv, s
    <3>6. d \in Client /\ d.st = c.st /\ d.conn = c.conn /\ d.rcv = rcv
      BY <3>2, <1>0 DEF Client
    <3> HIDE DEF d
    <3>7. client'[p] = d
      BY <3>1, <3>6, <1>k
    <3>8. Sent(p, s)
      BY <3>3, <3>6, <3>7, <2>0 DEF Sent
    <3> QED BY <2>0, <2>5, <3>1, <3>4, <3>5, <3>6, <3>7, <3>8, <1>c, <1>k, <1>0 DEF PeerMove
  <2>6. CASE Launch(PureAck(p, c.rcv)) /\ UNCHANGED client
    <3> DEFINE s == PureAck(p, c.rcv)
    <3>1. /\ FromClients(s) /\ s.src = p /\ s.conn = c.conn /\ s.ack = c.rcv
      BY <2>4, <1>f
    <3>2. \A q \in toServer' : q \in toServer \/ q = s
      BY <2>6 DEF Launch
    <3> HIDE DEF s
    <3>3. Sent(p, s)
      BY <2>0, <2>6, <3>1 DEF Sent
    <3> QED BY <2>0, <2>6, <3>2, <3>3, <1>c, <1>0 DEF PeerMove
  <2> QED BY <2>0, <2>5, <2>6
<1>8. ASSUME NEW r \in toPeers, PeerRejects(p, r) PROVE PeerMove(p)
  <2> DEFINE s == FromClient(p, {"RST"}, r.ack, 0, 0, 0)
             d == [c EXCEPT !.st = IF c.st = "OPEN" THEN "CLOSED" ELSE c.st]
  <2>1. toServer' = toServer \cup {s} /\ client' = [client EXCEPT ![p] = d] /\ Consume(r)
    BY <1>8, <1>0 DEF PeerRejects, Launch
  <2>2. d \in Client /\ d.st # "OPEN"
    BY <1>0, <1>f DEF Client
  <2>3. /\ s.src = p /\ s.conn = c.conn /\ s.flags = {"RST"} /\ s.seq = r.ack
        /\ s.ack = 0 /\ s.len = 0
    BY <1>0, FromClientFields
  <2> HIDE DEF s, d
  <2>4. Sent(p, s)
    BY <2>3, <1>0, <1>r, <1>s DEF Sent, FromClients
  <2> QED BY <2>1, <2>2, <2>4, <1>c, <1>k, <1>0 DEF PeerMove
<1>9. ASSUME NEW r \in toPeers, PeerIgnoresReset(p, r) PROVE PeerMove(p)
  <2>1. UNCHANGED <<client, toServer>> /\ Consume(r)
    BY <1>9 DEF PeerIgnoresReset
  <2> QED BY <2>1, <1>c, <1>0 DEF PeerMove
<1> QED
  BY <1>1, <1>2, <1>3, <1>4, <1>5, <1>6, <1>7, <1>8, <1>9 DEF PeerStep

-----------------------------------------------------------------------------
LEMMA ClientSegment == \A s : FromClients(s) => IsSegment(s)
BY ClientsAssumption DEF FromClients, IsSegment, Flags

(***************************************************************************)
(* A step of the server: what it launches is new on the network, and it    *)
(* counts a connection exactly when handleTCP has answered a SYN.          *)
(***************************************************************************)
ServerMove(s) ==
  /\ UNCHANGED <<client, lost>>
  /\ toServer' \subseteq toServer
  /\ \A r \in toPeers' : r \in toPeers \/ \E i \in 1..Len(out') : r = out'[i]
  /\ opens' \in 0..MaxOpens
  /\ HandleSyn(s) => /\ opens' = opens + 1
                     /\ current' = [conn |-> s.conn, bytes |-> {}]
  /\ ~ HandleSyn(s) =>
       /\ opens' = opens
       /\ current' = [conn |-> current.conn, bytes |-> current'.bytes]
       /\ \A b \in current'.bytes :
            \/ b \in current.bytes
            \/ dataIn' # 0 /\ \E i \in 0..(s.len - 1) : b = <<s.src, s.conn, s.from + i>>

LEMMA SynOpens ==
  ASSUME TypeOK, NEW s, IsSegment(s), handleTCP(s)
  PROVE  HandleSyn(s) <=> tcb.status = "CLOSED" /\ tcb'.status = "SYN_RCVD"
<1>1. HandleSyn(s) => tcb.status = "CLOSED" /\ tcb'.status = "SYN_RCVD"
  BY DEF HandleSyn, Listening
<1>2. ASSUME tcb.status = "CLOSED", tcb'.status = "SYN_RCVD" PROVE HandleSyn(s)
  <2>1. ~ Matches(s)
    BY <1>2 DEF Matches, Listening
  <2>2. HandleInvalid(s) \/ HandleSyn(s) \/ HandleClosed(s) \/ HandleBusy(s) \/ HandleStranger(s)
    BY <2>1 DEF handleTCP, HandleReset, HandleSynRcvd, HandleEstablishedIdle,
                HandleEstablishedData, HandleFinWait1, HandleFinWait2, HandleLastAck
  <2>3. tcb' # tcb
    BY <1>2
  <2> QED BY <2>2, <2>3 DEF HandleInvalid, HandleClosed, HandleBusy, HandleStranger
<1> QED BY <1>1, <1>2

LEMMA ServerShape ==
  ASSUME SysTyped, NEW s \in toServer, ServerReceive(s)
  PROVE  IsSegment(s) /\ handleTCP(s) /\ FromClients(s) /\ ServerMove(s)
<1>1. FromClients(s) /\ IsSegment(s) /\ handleTCP(s) /\ TypeOK
  BY ClientSegment DEF SysTyped, ServerReceive
<1> DEFINE opened == tcb.status = "CLOSED" /\ tcb'.status = "SYN_RCVD"
           bytes  == IF dataIn' = 0 THEN {}
                     ELSE {<<s.src, s.conn, s.from + i>> : i \in 0..(s.len - 1)}
<1>2. /\ opens' = opens + (IF opened THEN 1 ELSE 0)
      /\ current' = IF opened THEN [conn |-> s.conn, bytes |-> {}]
                    ELSE [current EXCEPT !.bytes = @ \cup bytes]
      /\ opens' <= MaxOpens
      /\ toServer' \subseteq toServer
      /\ toPeers' = toPeers \cup {out'[i] : i \in 1..Len(out')}
      /\ UNCHANGED <<client, lost>>
  BY DEF ServerReceive
<1>3. HandleSyn(s) <=> opened
  BY <1>1, SynOpens
<1>4. opens \in Nat /\ MaxOpens \in Nat /\ current = [conn |-> current.conn, bytes |-> current.bytes]
  BY BoundsAssumption DEF SysTyped
<1>5. opens' \in 0..MaxOpens
  BY <1>2, <1>4
<1> HIDE DEF opened
<1>6. ASSUME HandleSyn(s)
      PROVE  opens' = opens + 1 /\ current' = [conn |-> s.conn, bytes |-> {}]
  BY <1>2, <1>3, <1>6
<1>7. ASSUME ~ HandleSyn(s)
      PROVE  /\ opens' = opens
             /\ current' = [conn |-> current.conn, bytes |-> current'.bytes]
             /\ \A b \in current'.bytes :
                  \/ b \in current.bytes
                  \/ dataIn' # 0 /\ \E i \in 0..(s.len - 1) : b = <<s.src, s.conn, s.from + i>>
  <2>1. opens' = opens /\ current' = [current EXCEPT !.bytes = @ \cup bytes]
    BY <1>2, <1>3, <1>4, <1>7
  <2> HIDE DEF bytes
  <2>2. current' = [conn |-> current.conn, bytes |-> current.bytes \cup bytes]
    BY <2>1, <1>4
  <2>3. current'.bytes = current.bytes \cup bytes
    BY <2>2
  <2>4. \A b \in bytes : dataIn' # 0 /\ \E i \in 0..(s.len - 1) : b = <<s.src, s.conn, s.from + i>>
    BY DEF bytes
  <2> QED BY <2>1, <2>2, <2>3, <2>4
<1>8. \A r \in toPeers' : r \in toPeers \/ \E i \in 1..Len(out') : r = out'[i]
  BY <1>2
<1>9. ServerMove(s)
  BY ONLY <1>2, <1>5, <1>6, <1>7, <1>8, Zenon DEF ServerMove
<1> QED BY <1>1, <1>9

LEMMA SysTypedInit == SysInit => SysTyped
<1> SUFFICES ASSUME SysInit PROVE SysTyped
  OBVIOUS
<1>1. TypeOK
  BY ISNAssumption, ModulusAssumption DEF SysInit, Init, TypeOK, TCBType, Status, SeqNo
<1>2. MaxConns \in Nat /\ MaxOpens \in Nat /\ StreamLen \in Nat /\ 0 \in SeqNo
  BY BoundsAssumption, StreamAssumption, SeqNoInt
<1>3. client \in [Clients -> Client]
  BY <1>2 DEF SysInit, Client
<1>4. lost \in BOOLEAN
  BY Zenon DEF SysInit
<1> QED
  BY <1>1, <1>2, <1>3, <1>4 DEF SysInit, SysTyped

(***************************************************************************)
(* A step of the network, or none: segments may be gone, and nothing else  *)
(* has changed for the server and the clients.                             *)
(***************************************************************************)
Thinned ==
  /\ UNCHANGED <<serverVars, client>>
  /\ toServer' \subseteq toServer
  /\ toPeers' \subseteq toPeers

LEMMA NetworkShape ==
  ASSUME SysTyped, \/ UNCHANGED sysVars
                   \/ \E s \in toServer : LoseToServer(s)
                   \/ \E r \in toPeers : LoseToPeers(r)
  PROVE  Thinned /\ lost' \in BOOLEAN
BY DEF sysVars, serverVars, Thinned, LoseToServer, LoseToPeers, SysTyped

LEMMA SysTypedStep ==
  ASSUME SysTyped, [SysNext]_sysVars
  PROVE  SysTyped'
<1>1. CASE Thinned /\ lost' \in BOOLEAN
  BY <1>1 DEF Thinned, serverVars, SysTyped, TypeOK, FromClients
<1>2. ASSUME NEW s \in toServer, ServerReceive(s) PROVE SysTyped'
  <2>1. IsSegment(s) /\ handleTCP(s) /\ FromClients(s) /\ ServerMove(s)
    BY <1>2, ServerShape
  <2>2. TypeOK'
    BY <2>1, TypeStep DEF SysTyped
  <2>3. toPeers' \subseteq SentSegment
    <3>1. \A i \in 1..Len(out') : out'[i] \in SentSegment
      BY <2>2, ElementType DEF TypeOK
    <3> QED BY <2>1, <3>1 DEF ServerMove, SysTyped
  <2>4. (\A q \in toServer : FromClients(q))'
    BY <2>1 DEF ServerMove, SysTyped, FromClients
  <2>5. current'.conn \in 0..MaxConns /\ current' = [conn |-> current'.conn, bytes |-> current'.bytes]
    <3>1. CASE HandleSyn(s)
      BY <2>1, <3>1 DEF ServerMove, FromClients
    <3>2. CASE ~ HandleSyn(s)
      <4>1. current' = [conn |-> current.conn, bytes |-> current'.bytes]
        BY <2>1, <3>2 DEF ServerMove
      <4>2. current'.conn = current.conn
        BY <4>1
      <4> QED BY <4>1, <4>2 DEF SysTyped
    <3> QED BY <3>1, <3>2
  <2> QED
    BY <2>1, <2>2, <2>3, <2>4, <2>5 DEF SysTyped, ServerMove
<1>3. ASSUME NEW p \in Clients, PeerStep(p) PROVE SysTyped'
  <2>1. PeerMove(p)
    BY <1>3, PeerShape
  <2>2. TypeOK'
    BY <2>1 DEF PeerMove, serverVars, SysTyped, TypeOK
  <2>3. (\A q \in toServer : FromClients(q))'
    BY <2>1 DEF PeerMove, Sent, SysTyped, FromClients
  <2> QED
    BY <2>1, <2>2, <2>3 DEF PeerMove, serverVars, SysTyped
<1> QED
  BY <1>1, <1>2, <1>3, NetworkShape DEF SysNext

(***************************************************************************)
(* Type correctness of the server among its clients, for any number of     *)
(* them: the segments that handleTCP launches and those that answer them   *)
(* stay within their ranges, and so do the clients' counters.              *)
(***************************************************************************)
THEOREM SysTypeCorrect == SysSpec => []SysTypeOK
<1>1. SysTyped => SysTypeOK
  BY DEF SysTyped, SysTypeOK, FromClients
<1> QED
  BY <1>1, SysTypedInit, SysTypedStep, PTL DEF SysSpec

-----------------------------------------------------------------------------
(* Who was a little behind z is n more behind z + n *)
LEMMA BelowShift ==
  ASSUME NEW z \in Int, NEW y \in Int, NEW n \in Nat, NEW a \in Int,
         y % M = (z + n) % M, Below(z, a) + n < M
  PROVE  Below(y, a) = Below(z, a) + n
<1>0. M \in Nat \ {0} /\ -a \in Int /\ n \in Int /\ z + n \in Int /\ z - a \in Int
  BY ModulusAssumption
<1>1. ((y % M) + (-a)) % M = (y + (-a)) % M
  BY ONLY <1>0, y \in Int, ModPlusMod
<1>2. (((z + n) % M) + (-a)) % M = ((z + n) + (-a)) % M
  BY ONLY <1>0, ModPlusMod
<1>3. (((z - a) % M) + n) % M = ((z - a) + n) % M
  BY ONLY <1>0, ModPlusMod
<1>4. y + (-a) = y - a /\ (z + n) + (-a) = (z - a) + n
  OBVIOUS
<1>5. (z - a) % M \in Nat
  BY <1>0
<1>6. ((z - a) % M) + n \in 0..(M - 1)
  BY <1>0, <1>5 DEF Below
<1>7. (((z - a) % M) + n) % M = ((z - a) % M) + n
  BY ONLY <1>0, <1>6, ModSmall
<1>8. (y - a) % M = ((z - a) % M) + n
  BY ONLY <1>1, <1>2, <1>3, <1>4, <1>7, y % M = (z + n) % M
<1> QED BY <1>8 DEF Below

LEMMA BelowType ==
  ASSUME NEW z \in Int, NEW a \in Int
  PROVE  Below(z, a) \in 0..(M - 1)
<1>1. M \in Nat \ {0} /\ z - a \in Int
  BY ModulusAssumption
<1> QED BY <1>1 DEF Below

(* Products with K are monotonic *)
LEMMA ProductMonotonic ==
  ASSUME NEW K \in Nat, NEW i \in Int, NEW j \in Int
  PROVE  /\ i * K \in Int /\ (i <= j => i * K <= j * K)
         /\ (i + 1 <= j => i * K + K <= j * K)
<1>1. \A m \in Nat, k \in Nat : m * k \in Nat
  OBVIOUS
<1>2. i * K \in Int /\ j * K \in Int /\ j * K = i * K + (j - i) * K
  OBVIOUS
<1>3. i + 1 <= j => (j - i) * K = K + (j - i - 1) * K
  OBVIOUS
<1>4. i <= j => (j - i) * K \in Nat
  BY <1>1
<1>5. i + 1 <= j => (j - i - 1) * K \in Nat
  BY <1>1
<1> QED BY <1>2, <1>3, <1>4, <1>5

(* The leaps of all connections together stay far from a wrap *)
LEMMA LeapsBound ==
  ASSUME SysTyped, NEW K \in Nat, LeapsFit(K)
  PROVE  /\ Leaps \in Int /\ Leaps * K \in Int /\ Leaps * K < M \div 2
         /\ opens > 0 => Leaps >= 1 /\ K <= Leaps * K
<1>1. opens \in 0..MaxOpens /\ MaxOpens \in Nat
  BY BoundsAssumption DEF SysTyped
<1>2. Leaps \in Int /\ Leaps <= 2 * MaxOpens /\ (opens > 0 => Leaps >= 1)
  BY <1>1 DEF Leaps
<1> HIDE DEF Leaps
<1>3. Leaps * K \in Int /\ Leaps * K <= (2 * MaxOpens) * K
  BY <1>1, <1>2, ProductMonotonic
<1>4. Leaps >= 1 => 0 * K + K <= Leaps * K
  BY <1>2, ProductMonotonic
<1>5. 0 * K = 0 /\ (2 * MaxOpens) * K \in Int /\ M \div 2 \in Int
  BY <1>1, ModulusAssumption
<1> QED
  BY <1>2, <1>3, <1>4, <1>5 DEF LeapsFit

LEMMA KPositive ==
  ASSUME NEW K \in Nat, LeapsFit(K)
  PROVE  K >= 2
<1>1. PICK step \in ISNSteps : TRUE
  BY ISNStepAssumption
<1>2. step \in Nat \ {0} /\ step + 1 <= K
  BY ISNStepAssumption DEF LeapsFit
<1> QED BY <1>2

LEMMA TopType == ASSUME TypeOK PROVE Top \in Int /\ tcb.lastByteSent \in Int /\ Fins \in {0, 1}
BY DEF TypeOK, TCBType, SeqNo, Top, Fins

(* lastByteSent advances by m and the server's FINs from Fins to f *)
LEMMA TopAdvance ==
  ASSUME NEW x \in Int, NEW m \in Int, NEW f \in Int, NEW g \in Int
  PROVE  (Plus(x, m) + f) % M = ((x + g) + (m + f - g)) % M
<1>1. M \in Nat \ {0} /\ x + m \in Int
  BY ModulusAssumption
<1>2. (((x + m) % M) + f) % M = ((x + m) + f) % M
  BY ONLY <1>1, f \in Int, ModPlusMod
<1>3. (x + m) + f = (x + g) + (m + f - g)
  OBVIOUS
<1> QED BY <1>2, <1>3 DEF Plus

(***************************************************************************)
(* One step of the server moves the top of what it has sent by n, which is *)
(* paid for by a leap, and by one at least when a connection is opened.    *)
(***************************************************************************)
LEMMA Advance ==
  ASSUME SysTyped, SysTyped', NEW K \in Nat, LeapsFit(K),
         NEW s \in toServer, ServerReceive(s)
  PROVE  \E n \in Nat : /\ Top' % M = (Top + n) % M
                        /\ Leaps * K + n <= Leaps' * K
                        /\ HandleSyn(s) => n > 0
<1>0. IsSegment(s) /\ handleTCP(s) /\ ServerMove(s) /\ TypeOK
  BY ServerShape DEF SysTyped
<1>t. Top \in Int /\ tcb.lastByteSent \in Int /\ Fins \in {0, 1} /\ Fins' \in {0, 1}
  <2>1. TypeOK'
    BY DEF SysTyped
  <2>2. Fins' \in {0, 1}
    BY DEF Fins
  <2> QED BY <1>0, <2>2, TopType
<1>o. opens \in Nat
  BY BoundsAssumption DEF SysTyped
<1>k. K >= 2
  BY KPositive
<1>p. ASSUME NEW i \in Int, NEW j \in Int
      PROVE  /\ i * K \in Int /\ (i <= j => i * K <= j * K)
             /\ (i + 1 <= j => i * K + K <= j * K)
  BY ProductMonotonic
<1>z. Leaps \in Int /\ Leaps' \in Int
  <2>1. opens' \in Nat
    BY BoundsAssumption DEF SysTyped
  <2> QED BY <1>o, <2>1 DEF Leaps
<1>q. ASSUME NEW m \in Int, tcb'.lastByteSent = Plus(tcb.lastByteSent, m)
      PROVE  Top' % M = (Top + (m + Fins' - Fins)) % M
  <2>1. (Plus(tcb.lastByteSent, m) + Fins') % M
          = ((tcb.lastByteSent + Fins) + (m + Fins' - Fins)) % M
    <3> DEFINE x == tcb.lastByteSent
               g == Fins
               f == Fins'
    <3>1. x \in Int /\ g \in Int /\ f \in Int
      BY <1>t
    <3> HIDE DEF x, g, f
    <3>2. (Plus(x, m) + f) % M = ((x + g) + (m + f - g)) % M
      BY <3>1, TopAdvance
    <3> QED BY <3>2 DEF x, g, f
  <2> QED BY <1>q, <2>1 DEF Top
<1>1. CASE HandleSyn(s)
  <2>1. PICK step \in ISNSteps : tcb'.lastByteSent = Plus(Plus(tcb.lastByteSent, step), 1)
    BY <1>1 DEF HandleSyn, NextISN
  <2>2. step \in Nat \ {0} /\ step + 1 <= K
    BY ISNStepAssumption DEF LeapsFit
  <2>3. tcb'.lastByteSent = Plus(tcb.lastByteSent, step + 1)
    <3>1. tcb.lastByteSent \in Int /\ step \in Int /\ 1 \in Int
      BY <2>2, <1>t
    <3>2. Plus(Plus(tcb.lastByteSent, step), 1) = Plus(tcb.lastByteSent, step + 1)
      BY ONLY <3>1, PlusPlus
    <3> QED BY <2>1, <3>2
  <2>4. Fins' = 0 /\ tcb.status = "CLOSED" /\ tcb'.status = "SYN_RCVD"
    BY <1>1 DEF HandleSyn, Listening, Fins
  <2> DEFINE n == step + 1 + Fins' - Fins
  <2>5. n \in Nat /\ n > 0 /\ n <= K
    BY <2>2, <2>4, <1>t
  <2>6. Top' % M = (Top + n) % M
    BY <2>2, <2>3, <1>q
  <2>7. Leaps' = Leaps + 1
    BY <2>4, <1>0, <1>1, <1>o DEF Leaps, ServerMove
  <2>8. Leaps * K \in Int /\ Leaps' * K \in Int /\ Leaps * K + K <= Leaps' * K
    BY <2>7, <1>z, <1>p
  <2> HIDE DEF n
  <2>9. Leaps * K + n <= Leaps' * K
    BY <2>5, <2>8
  <2> QED BY <2>5, <2>6, <2>9
<1>2. CASE ~ HandleSyn(s)
  <2>1. opens' = opens
    BY <1>0, <1>2 DEF ServerMove
  <2>2. ~ (tcb.status = "CLOSED" /\ tcb'.status = "SYN_RCVD")
    BY <1>0, <1>2, SynOpens
  <2>3. /\ tcb'.status \in {"SYN_RCVD", "ESTABLISHED"} => tcb.status \in {"SYN_RCVD", "ESTABLISHED"}
        /\ \/ finOut' = finOut /\ answers' \in {answers, answers + 1}
           \/ tcb.status = "ESTABLISHED" /\ tcb'.status \in {"FIN_WAIT1", "LAST_ACK"}
        /\ answers' = answers + 1 => 
             tcb.status = "ESTABLISHED" /\ tcb'.status \in {"FIN_WAIT1", "LAST_ACK"}
    <3>1. answers \in Nat /\ finOut \in Nat
      BY <1>0 DEF TypeOK
    <3> QED BY <2>2, <3>1, <1>0, StepShape
  <2>4. Leaps' >= Leaps
    BY <2>1, <2>3, <1>o DEF Leaps
  <2>5. Leaps * K \in Int /\ Leaps' * K \in Int /\ Leaps * K <= Leaps' * K
    BY <2>4, <1>z, <1>p
  <2>6. CASE tcb'.lastByteSent = tcb.lastByteSent /\ finOut' = finOut
    <3>1. Top' = Top /\ Top + 0 = Top /\ Leaps * K + 0 <= Leaps' * K
      BY <2>5, <2>6, <1>t DEF Top, Fins
    <3>2. Top' % M = (Top + 0) % M
      BY <3>1
    <3> QED BY <1>2, <3>1, <3>2
  <2>7. ASSUME NEW m \in Nat, Launched(m),
               tcb.status = "ESTABLISHED", tcb'.status \in {"FIN_WAIT1", "LAST_ACK"}
        PROVE  \E n \in Nat : /\ Top' % M = (Top + n) % M
                              /\ Leaps * K + n <= Leaps' * K
                              /\ HandleSyn(s) => n > 0
    <3>1. m = 0 \/ m \in RespLens
      BY <2>7 DEF Launched
    <3>2. m + 1 <= K
      BY <3>1, <1>k DEF LeapsFit
    <3>3. Leaps' = Leaps + 1
      BY <2>1, <2>7, <1>o DEF Leaps
    <3>4. Leaps * K + K <= Leaps' * K
      BY <3>3, <1>z, <1>p
    <3>5. m + Fins' - Fins \in Int /\ Top' % M = (Top + (m + Fins' - Fins)) % M
      BY <2>7, <1>t, <1>q DEF Launched
    <3>6. Fins <= Fins'
      BY <1>0, <2>7, StepShape DEF Fins, TypeOK
    <3> DEFINE n == m + Fins' - Fins
    <3>7. n \in Nat /\ n <= K /\ Top' % M = (Top + n) % M
      <4>1. n \in Nat /\ n <= K
        <5>1. m \in Nat /\ K \in Nat /\ Fins \in {0, 1} /\ Fins' \in {0, 1}
          BY <1>t
        <5>2. \A f, g \in {0, 1} : g <= f => m + f - g \in Nat /\ m + f - g <= m + 1
          OBVIOUS
        <5>3. n \in Nat /\ n <= m + 1
          BY <5>1, <5>2, <3>6
        <5> HIDE DEF n
        <5> QED BY <5>1, <5>3, <3>2
      <4> QED BY <4>1, <3>5
    <3> HIDE DEF n
    <3>8. Leaps * K + n <= Leaps' * K
      BY <3>4, <3>7, <2>5
    <3> QED BY <1>2, <3>7, <3>8
  <2>8. CASE \E m \in Nat : Launched(m)
    <3>1. PICK m \in Nat : Launched(m)
      BY <2>8
    <3>2. CASE tcb.status = "ESTABLISHED" /\ tcb'.status \in {"FIN_WAIT1", "LAST_ACK"}
      BY <2>7, <3>1, <3>2
    <3>3. CASE ~ (tcb.status = "ESTABLISHED" /\ tcb'.status \in {"FIN_WAIT1", "LAST_ACK"})
      <4>1. m = 0 /\ finOut' = finOut
        BY <2>3, <3>1, <3>3 DEF Launched
      <4>2. tcb'.lastByteSent = tcb.lastByteSent
        <5>1. tcb.lastByteSent \in SeqNo
          BY <1>0 DEF TypeOK, TCBType
        <5> QED BY <3>1, <4>1, <5>1, PlusZero DEF Launched
      <4> QED BY <2>6, <4>1, <4>2
    <3> QED BY <3>2, <3>3
  <2>9. CASE HandleBusy(s)
    BY <2>6, <2>9 DEF HandleBusy, SameConnection
  <2> QED BY <1>0, <1>2, <2>6, <2>8, <2>9, OutShape
<1> QED BY <1>1, <1>2

(* Distances within one stretch of the server's stream *)
LEMMA BelowWithin ==
  ASSUME NEW x \in Int, NEW i \in Int, NEW f \in Int, NEW k \in Int, i + f - k \in 0..(M - 1)
  PROVE  Below(Plus(x, i) + f, Plus(x, k)) = i + f - k
<1> DEFINE v == (x + k) % M
           q == (x + k) \div M
           d == i + f - k
<1>0. M \in Nat \ {0} /\ x + i \in Int /\ x + k \in Int /\ d \in Int /\ d \in 0..(M - 1)
  BY ModulusAssumption
<1>1. v \in Int /\ q \in Int /\ x + k = q * M + v
  BY <1>0
<1> HIDE DEF v, q, d
<1>2. f - v \in Int
  BY <1>1
<1>3. (((x + i) % M) + (f - v)) % M = ((x + i) + (f - v)) % M
  BY ONLY <1>0, <1>2, ModPlusMod
<1>4. (x + i) + (f - v) = d + q * M
  BY <1>0, <1>1 DEF d
<1>5. (d + q * M) % M = d % M
  BY ONLY <1>0, <1>1, ModShift
<1>6. d % M = d
  BY <1>0, ModSmall
<1>7. ((x + i) % M) + (f - v) = (((x + i) % M) + f) - v
  BY <1>0, <1>1
<1>8. ((((x + i) % M) + f) - v) % M = d
  BY ONLY <1>3, <1>4, <1>5, <1>6, <1>7
<1> QED BY <1>8 DEF Below, Plus, v, d

LEMMA EndType == ASSUME NEW r \in SentSegment PROVE EndOf(r) \in SeqNo /\ EndOf(r) \in Int
<1>1. r.seq \in Int /\ (IF "SYN" \in r.flags THEN 1 ELSE r.len + FinOf(r)) \in Int
  BY DEF SentSegment, FinOf, SeqNo
<1>2. EndOf(r) \in SeqNo
  BY <1>1, PlusType DEF EndOf
<1> QED BY <1>2, SeqNoInt

(***************************************************************************)
(* Nothing that the server launches ends beyond the top of what it has     *)
(* sent, or further below it than one leap.                                *)
(***************************************************************************)
LEMMA LaunchedBelow ==
  ASSUME SysTyped, SysTyped', NEW K \in Nat, LeapsFit(K), K < M,
         NEW s \in toServer, ServerReceive(s),
         NEW i \in 1..Len(out'), "RST" \notin out'[i].flags
  PROVE  /\ Below(Top', EndOf(out'[i])) <= K
         /\ tcb.status # "CLOSED" \/ HandleSyn(s)
<1> DEFINE r == out'[i]
<1>0. IsSegment(s) /\ handleTCP(s) /\ TypeOK /\ TypeOK'
  BY ServerShape DEF SysTyped
<1>r. r \in SentSegment
  BY <1>0, ElementType DEF TypeOK
<1>k. K >= 2
  BY KPositive
<1>1. CASE HandleSyn(s)
  <2>1. PICK step \in ISNSteps :
          LET isn == NextISN(step)
          IN  /\ tcb' = [status |-> "SYN_RCVD", remote |-> s.src,
                         lastByteSent |-> Plus(isn, 1), lastByteReceived |-> s.seq,
                         lastAckReceived |-> Plus(isn, -1)]
              /\ out' = <<[dst |-> s.src, flags |-> {"SYN", "ACK"}, seq |-> isn,
                           ack |-> Plus(s.seq, 1), len |-> 0]>>
    BY <1>1 DEF HandleSyn
  <2> DEFINE isn == NextISN(step)
  <2>2. isn \in Int
    <3>1. tcb.lastByteSent \in Int /\ step \in Int
      BY <1>0, ISNStepAssumption DEF TypeOK, TCBType, SeqNo
    <3> QED BY <3>1, PlusType, SeqNoInt DEF NextISN
  <2>3. tcb'.lastByteSent = Plus(isn, 1) /\ EndOf(r) = Plus(isn, 1) /\ Fins' = 0
    BY <1>1, <2>1 DEF EndOf, Fins, HandleSyn
  <2> HIDE DEF isn
  <2>4. Below(Plus(isn, 1) + 0, Plus(isn, 1)) = 1 + 0 - 1
    <3>1. 1 + 0 - 1 \in 0..(M - 1)
      BY ModulusAssumption
    <3> QED BY <2>2, <3>1, BelowWithin
  <2> QED BY <1>1, <1>k, <2>3, <2>4 DEF Top
<1>2. ASSUME Matches(s), NEW n \in Nat, Launched(n) PROVE Below(Top', EndOf(r)) <= K /\ tcb.status # "CLOSED"
  <2>1. /\ "SYN" \notin r.flags
        /\ \E k \in 0..n : /\ r.seq = Plus(tcb.lastByteSent, k) /\ k + r.len <= n
                           /\ "FIN" \in r.flags => k = n
        /\ tcb'.lastByteSent = Plus(tcb.lastByteSent, n)
        /\ "FIN" \in r.flags => Fins' = 1
        /\ n = 0 \/ n \in RespLens
    BY <1>2 DEF Launched, Stream, NoFin, Fins
  <2>2. PICK k \in 0..n : /\ r.seq = Plus(tcb.lastByteSent, k) /\ k + r.len <= n
                          /\ "FIN" \in r.flags => k = n
    BY <2>1
  <2> DEFINE x == tcb.lastByteSent
             e == k + (r.len + FinOf(r))
             f == Fins'
  <2>3. x \in Int /\ r.len \in Nat /\ FinOf(r) \in {0, 1} /\ f \in {0, 1} /\ k \in Int
    <3>1. x \in Int /\ k \in Int
      BY <1>0 DEF TypeOK, TCBType, SeqNo
    <3>2. r.len \in Nat
      BY <1>r DEF SentSegment
    <3>3. FinOf(r) \in {0, 1} /\ f \in {0, 1}
      BY DEF FinOf, Fins
    <3> QED BY <3>1, <3>2, <3>3
  <2>4. e \in Nat /\ e <= n + f /\ n + 1 <= K
    <3>1. n + 1 <= K
      BY <2>1, <1>k DEF LeapsFit
    <3>2. CASE "FIN" \in r.flags
      BY <2>1, <2>2, <2>3, <3>1, <3>2 DEF FinOf
    <3>3. CASE "FIN" \notin r.flags
      BY <2>2, <2>3, <3>1, <3>3 DEF FinOf
    <3> QED BY <3>2, <3>3
  <2>5. EndOf(r) = Plus(x, e)
    <3>1. r.len + FinOf(r) \in Int
      BY <2>3
    <3>2. Plus(Plus(x, k), r.len + FinOf(r)) = Plus(x, e)
      BY <2>3, <3>1, PlusPlus
    <3> QED BY <2>1, <2>2, <3>2 DEF EndOf
  <2>6. f \in Int /\ e \in Int
    BY <2>3, <2>4
  <2> HIDE DEF x, e, f
  <2>7. n + f - e \in 0..(M - 1) /\ n + f - e <= K
    BY <2>3, <2>4, ModulusAssumption
  <2>8. Below(Plus(x, n) + f, Plus(x, e)) = n + f - e
    BY <2>3, <2>6, <2>7, BelowWithin
  <2>9. Top' = Plus(x, n) + f
    BY <2>1 DEF Top, x, f
  <2> QED BY <1>2, <2>5, <2>7, <2>8, <2>9 DEF Matches, Listening
<1>3. CASE HandleBusy(s)
  BY <1>3 DEF HandleBusy, TCP_RST
<1> QED BY <1>0, <1>1, <1>2, <1>3, OutShape

LEMMA AckInvStep ==
  ASSUME SysTyped, SysTyped', NEW K \in Nat, LeapsFit(K), AckInv(K), [SysNext]_sysVars
  PROVE  AckInv(K)'
<1> DEFINE B == Leaps * K
           C == Leaps' * K
<1>t. TypeOK /\ TypeOK' /\ Top \in Int /\ Top' \in Int
  <2>1. TypeOK /\ TypeOK'
    BY DEF SysTyped
  <2>2. Top' \in Int
    BY <2>1 DEF TypeOK, TCBType, SeqNo, Top, Fins
  <2> QED BY <2>1, <2>2, TopType
<1>b. B \in Int /\ C \in Int /\ C < M \div 2 /\ (opens' > 0 => K <= C)
  <2>1. B \in Int
    BY LeapsBound
  <2>2. opens' \in 0..MaxOpens /\ MaxOpens \in Nat
    BY BoundsAssumption DEF SysTyped
  <2>3. Leaps' \in Int /\ Leaps' <= 2 * MaxOpens /\ (opens' > 0 => Leaps' >= 1)
    <3>1. Leaps' \in {2 * opens' - 1, 2 * opens' - 0}
      BY DEF Leaps
    <3>2. \A o \in 0..MaxOpens :
            /\ 2 * o - 1 \in Int /\ 2 * o - 1 <= 2 * MaxOpens /\ (o > 0 => 2 * o - 1 >= 1)
            /\ 2 * o - 0 \in Int /\ 2 * o - 0 <= 2 * MaxOpens /\ (o > 0 => 2 * o - 0 >= 1)
      BY <2>2
    <3> HIDE DEF B, C
    <3> QED BY ONLY <2>2, <3>1, <3>2
  <2> DEFINE l == Leaps'
  <2>4. l \in Int /\ l <= 2 * MaxOpens /\ (opens' > 0 => l >= 1)
    BY <2>3
  <2> HIDE DEF l
  <2>5. /\ l * K \in Int /\ l * K <= (2 * MaxOpens) * K
        /\ (0 + 1 <= l => 0 * K + K <= l * K)
    <3>1. 2 * MaxOpens \in Int
      BY <2>2
    <3> QED BY <2>4, <3>1, ProductMonotonic
  <2>6. 0 * K = 0 /\ (2 * MaxOpens) * K \in Int /\ M \div 2 \in Int
    BY <2>2, ModulusAssumption
  <2>7. (2 * MaxOpens) * K < M \div 2
    BY DEF LeapsFit
  <2>8. l * K \in Int /\ l * K < M \div 2 /\ (opens' > 0 => K <= l * K)
    BY <2>4, <2>5, <2>6, <2>7
  <2> QED BY <2>1, <2>8 DEF l
<1>m. M \in Nat /\ M \div 2 \in Int /\ M \div 2 < M
  BY ModulusAssumption
<1>i. /\ tcb.status # "CLOSED" => opens > 0
      /\ opens > 0 => Below(Top, tcb.lastAckReceived) <= B
      /\ \A s \in toServer : "ACK" \in s.flags => Below(Top, s.ack) <= B
      /\ \A p \in Clients : client[p].st = "OPEN" => Below(Top, client[p].rcv) <= B
      /\ \A r \in toPeers : "RST" \notin r.flags => Below(Top, EndOf(r)) <= B
  BY DEF AckInv, Lag
<1>g. SUFFICES
      /\ tcb'.status # "CLOSED" => opens' > 0
      /\ opens' > 0 => Below(Top', tcb'.lastAckReceived) <= C
      /\ \A s \in toServer' : "ACK" \in s.flags => Below(Top', s.ack) <= C
      /\ \A p \in Clients : client'[p].st = "OPEN" => Below(Top', client'[p].rcv) <= C
      /\ \A r \in toPeers' : "RST" \notin r.flags => Below(Top', EndOf(r)) <= C
  BY DEF AckInv, Lag, EndOf, FinOf
<1> HIDE DEF B, C
<1>1. CASE Thinned
  <2>1. Top' = Top /\ C = B
    BY <1>1 DEF Thinned, serverVars, Top, Fins, Leaps, B, C
  <2> QED BY <1>1, <1>i, <2>1 DEF Thinned, serverVars
<1>2. ASSUME NEW p \in Clients, PeerStep(p)
      PROVE
      /\ tcb'.status # "CLOSED" => opens' > 0
      /\ opens' > 0 => Below(Top', tcb'.lastAckReceived) <= C
      /\ \A s \in toServer' : "ACK" \in s.flags => Below(Top', s.ack) <= C
      /\ \A q \in Clients : client'[q].st = "OPEN" => Below(Top', client'[q].rcv) <= C
      /\ \A r \in toPeers' : "RST" \notin r.flags => Below(Top', EndOf(r)) <= C
  <2>1. PeerMove(p)
    BY <1>2, PeerShape
  <2>2. Top' = Top /\ C = B /\ tcb' = tcb /\ opens' = opens
    BY <2>1 DEF PeerMove, serverVars, Top, Fins, Leaps, B, C
  <2>3. client'[p].st = "OPEN" => Below(Top, client'[p].rcv) <= B
    BY <2>1, <1>i DEF PeerMove
  <2>4. \A s \in toServer' : "ACK" \in s.flags => Below(Top, s.ack) <= B
    BY <2>1, <2>3, <1>i DEF PeerMove, Sent
  <2>5. \A q \in Clients : client'[q].st = "OPEN" => Below(Top, client'[q].rcv) <= B
    BY <2>1, <2>3, <1>i DEF PeerMove
  <2>6. \A r \in toPeers' : r \in toPeers
    BY <2>1 DEF PeerMove
  <2> QED BY <2>2, <2>4, <2>5, <2>6, <1>i
<1>3. ASSUME NEW s \in toServer, ServerReceive(s)
      PROVE
      /\ tcb'.status # "CLOSED" => opens' > 0
      /\ opens' > 0 => Below(Top', tcb'.lastAckReceived) <= C
      /\ \A q \in toServer' : "ACK" \in q.flags => Below(Top', q.ack) <= C
      /\ \A p \in Clients : client'[p].st = "OPEN" => Below(Top', client'[p].rcv) <= C
      /\ \A r \in toPeers' : "RST" \notin r.flags => Below(Top', EndOf(r)) <= C
  <2>0. IsSegment(s) /\ handleTCP(s) /\ FromClients(s) /\ ServerMove(s)
    BY <1>3, ServerShape
  <2>1. PICK n \in Nat : /\ Top' % M = (Top + n) % M /\ B + n <= C
                         /\ HandleSyn(s) => n > 0
    BY <1>3, Advance DEF B, C
  <2>2. ASSUME NEW a \in Int, Below(Top, a) <= B
        PROVE  Below(Top', a) <= C
    <3>1. Below(Top, a) \in Int
      BY <1>t, BelowType
    <3>2. Below(Top, a) + n < M /\ Below(Top, a) + n <= C
      BY <2>1, <2>2, <3>1, <1>b, <1>m
    <3>3. Below(Top', a) = Below(Top, a) + n
      BY <2>1, <3>2, <1>t, BelowShift
    <3> QED BY <3>2, <3>3
  <2>3. /\ \A q \in toServer : q.ack \in Int
        /\ \A p \in Clients : client[p].rcv \in Int
        /\ \A r \in toPeers : EndOf(r) \in Int
        /\ tcb.lastAckReceived \in Int /\ opens \in Nat
    <3>1. \A q \in toServer : q.ack \in Int
      BY SeqNoInt DEF SysTyped, FromClients
    <3>2. \A p \in Clients : client[p].rcv \in Int
      BY SeqNoInt DEF SysTyped, Client
    <3>3. \A r \in toPeers : EndOf(r) \in Int
      BY EndType DEF SysTyped
    <3>4. tcb.lastAckReceived \in Int /\ opens \in Nat
      BY <1>t, SeqNoInt, BoundsAssumption DEF SysTyped, TypeOK, TCBType
    <3> QED BY <3>1, <3>2, <3>3, <3>4
  <2>4. \A q \in toServer' : "ACK" \in q.flags => Below(Top', q.ack) <= C
    BY <2>0, <2>2, <2>3, <1>i DEF ServerMove
  <2>5. \A p \in Clients : client'[p].st = "OPEN" => Below(Top', client'[p].rcv) <= C
    BY <2>0, <2>2, <2>3, <1>i DEF ServerMove
  <2>6. tcb'.status # "CLOSED" => opens' > 0
    <3>1. CASE HandleSyn(s)
      BY <2>0, <2>3, <3>1 DEF ServerMove
    <3>2. CASE ~ HandleSyn(s)
      <4>1. opens' = opens
        BY <2>0, <3>2 DEF ServerMove
      <4>2. tcb.status = "CLOSED" => tcb'.status = "CLOSED"
        BY <2>0, <3>2, <1>t, SynOpens, StepShape
      <4> QED BY <4>1, <4>2, <1>i
    <3> QED BY <3>1, <3>2
  <2>7. opens' > 0 => Below(Top', tcb'.lastAckReceived) <= C
    <3>1. CASE HandleSyn(s)
      <4>1. PICK step \in ISNSteps :
              tcb' = [status |-> "SYN_RCVD", remote |-> s.src,
                      lastByteSent |-> Plus(NextISN(step), 1), lastByteReceived |-> s.seq,
                      lastAckReceived |-> Plus(NextISN(step), -1)]
        BY <3>1 DEF HandleSyn
      <4> DEFINE isn == NextISN(step)
      <4>2. isn \in Int
        <5>1. tcb.lastByteSent \in Int /\ step \in Int
          BY <1>t, ISNStepAssumption DEF TypeOK, TCBType, SeqNo
        <5> QED BY <5>1, PlusType, SeqNoInt DEF NextISN
      <4>3. /\ tcb'.lastByteSent = Plus(isn, 1) /\ tcb'.lastAckReceived = Plus(isn, -1)
            /\ Fins' = 0
        BY <3>1, <4>1 DEF HandleSyn, Fins
      <4> HIDE DEF isn
      <4>4. Below(Plus(isn, 1) + 0, Plus(isn, -1)) = 2
        <5>1. 1 + 0 - (-1) = 2 /\ 2 \in 0..(M - 1) /\ -1 \in Int
          BY ModulusAssumption
        <5> QED BY <4>2, <5>1, BelowWithin
      <4>5. Top' = Plus(isn, 1) + 0
        BY <4>3 DEF Top
      <4>6. opens' > 0 => 2 <= C
        BY <1>b, KPositive
      <4> QED BY <4>3, <4>4, <4>5, <4>6
    <3>2. CASE ~ HandleSyn(s)
      <4>1. opens' = opens
        BY <2>0, <3>2 DEF ServerMove
      <4>2. \/ tcb'.lastAckReceived = tcb.lastAckReceived
            \/ "ACK" \in s.flags /\ tcb'.lastAckReceived = s.ack
        BY <2>0, <3>2, <1>t, CounterShape
      <4> QED BY <4>1, <4>2, <2>2, <2>3, <1>i
    <3> QED BY <3>1, <3>2
  <2>8. \A r \in toPeers' : "RST" \notin r.flags => Below(Top', EndOf(r)) <= C
    <3> SUFFICES ASSUME NEW r \in toPeers', "RST" \notin r.flags
                 PROVE  Below(Top', EndOf(r)) <= C
      OBVIOUS
    <3>1. CASE r \in toPeers
      BY <3>1, <2>2, <2>3, <1>i
    <3>2. ASSUME NEW i \in 1..Len(out'), r = out'[i] PROVE Below(Top', EndOf(r)) <= C
      <4>1. opens' > 0 => K < M
        BY <1>b, <1>m
      <4>2. tcb.status # "CLOSED" => opens' > 0
        BY <2>0, <2>3, <1>i DEF ServerMove
      <4>3. HandleSyn(s) => opens' > 0
        BY <2>0, <2>3 DEF ServerMove
      <4>4. CASE opens' > 0
        <5>1. Below(Top', EndOf(r)) <= K
          BY <1>3, <3>2, <4>1, <4>4, LaunchedBelow
        <5>2. Below(Top', EndOf(r)) \in Int
          <6>1. r \in SentSegment
            BY DEF SysTyped
          <6>2. EndOf(r) \in Int
            BY <6>1, EndType
          <6> DEFINE z == Top'
          <6>3. z \in Int
            BY <1>t
          <6> HIDE DEF z
          <6>4. Below(z, EndOf(r)) \in 0..(M - 1)
            BY <6>2, <6>3, BelowType
          <6> QED BY <6>4, <1>m DEF z
        <5> QED BY <4>4, <5>1, <5>2, <1>b
      <4>5. CASE ~ (opens' > 0)
        <5>1. tcb.status = "CLOSED" /\ ~ HandleSyn(s)
          BY <4>2, <4>3, <4>5
        <5>2. ~ Matches(s) /\ ~ HandleBusy(s)
          BY <5>1 DEF Matches, HandleBusy, Listening
        <5>3. out' = <<>>
          BY <2>0, <5>1, <5>2, <1>t, OutShape
        <5> QED BY <3>2, <5>3
      <4> QED BY <4>4, <4>5
    <3> QED BY <2>0, <3>1, <3>2 DEF ServerMove
  <2> QED BY <2>4, <2>5, <2>6, <2>7, <2>8
<1> QED BY <1>1, <1>2, <1>3, NetworkShape DEF SysNext

(* Numbers a known distance apart, less than half of the range *)
LEMMA DiffIs ==
  ASSUME NEW a \in Int, NEW b \in Int, NEW d \in Int, NEW q \in Int, a - b = d + q * M,
         -(M \div 2) <= d, d < M \div 2 \/ d = 1
  PROVE  Diff(a, b) = d
<1> DEFINE h == M \div 2
<1>1. M \in Nat \ {0} /\ h \in Nat /\ h + h <= M /\ 1 + h <= M - 1
  BY ModulusAssumption
<1>2. h = M \div 2
  OBVIOUS
<1> HIDE DEF h
<1>3. d + h \in Int /\ d + h \in 0..(M - 1)
  BY <1>1, <1>2
<1>4. ((d + h) + q * M) % M = (d + h) % M
  BY ONLY <1>1, <1>3, q \in Int, ModShift
<1>5. (d + h) % M = d + h
  BY ONLY <1>1, <1>3, ModSmall
<1>6. (a - b) + h = (d + h) + q * M
  BY <1>1
<1>7. (a - b + h) % M = d + h
  BY <1>4, <1>5, <1>6
<1> QED BY <1>1, <1>2, <1>7 DEF Diff

LEMMA DiffFromBelow ==
  ASSUME NEW a \in Int, NEW x \in Int, NEW f \in {0, 1}, Below(x + f, a) < M \div 2
  PROVE  Diff(a, x) <= f
<1> DEFINE g == ((x + f) - a) % M
           q == ((x + f) - a) \div M
<1>0. M \in Nat \ {0} /\ M \div 2 \in Nat /\ (x + f) - a \in Int
  BY ModulusAssumption
<1>1. g \in Nat /\ q \in Int /\ (x + f) - a = q * M + g
  BY <1>0
<1>2. g < M \div 2
  BY DEF Below
<1> HIDE DEF g, q
<1>3. -q \in Int /\ (-q) * M = -(q * M) /\ q * M \in Int
  BY <1>0, <1>1
<1>4. f - g \in Int /\ a - x = (f - g) + (-q) * M
  BY <1>0, <1>1, <1>3
<1>5. -(M \div 2) <= f - g /\ (f - g < M \div 2 \/ f - g = 1) /\ f - g <= f
  <2>1. M \div 2 >= 1
    BY ModulusAssumption
  <2> QED BY <1>0, <1>1, <1>2, <2>1
<1>6. Diff(a, x) = f - g
  BY <1>3, <1>4, <1>5, DiffIs
<1> QED BY <1>5, <1>6

LEMMA AckInvInit == ASSUME NEW K \in Nat, SysInit PROVE AckInv(K)
BY DEF SysInit, Init, AckInv

(***************************************************************************)
(* lastAckReceived never runs ahead of what the server has sent: for any   *)
(* number of clients, whatever is duplicated, reordered or lost, the       *)
(* acknowledgement that handleTCP notes as the newest one lies at most at  *)
(* the server's FIN.  The hypothesis is that of sequence numbers: what the *)
(* server sends while a segment may still be under way (a step of the ISN  *)
(* or a page for each of MaxOpens connections) is less than half their     *)
(* range.  The invariant says it of every acknowledgement in the system,   *)
(* those of the clients' and of the network's included.                    *)
(***************************************************************************)
THEOREM AcksAreWithinSent ==
  ASSUME NEW K \in Nat, LeapsFit(K)
  PROVE  SysSpec => []AckWithinSent
<1>1. SysInit => SysTyped /\ AckInv(K)
  BY SysTypedInit, AckInvInit
<1>2. SysTyped /\ AckInv(K) /\ [SysNext]_sysVars => (SysTyped /\ AckInv(K))'
  BY SysTypedStep, AckInvStep
<1>3. ASSUME SysTyped, AckInv(K) PROVE AckWithinSent
  <2> SUFFICES ASSUME tcb.status # "CLOSED"
               PROVE  Diff(tcb.lastAckReceived, tcb.lastByteSent) <= (IF finOut > 0 THEN 1 ELSE 0)
    BY DEF AckWithinSent
  <2>1. /\ TypeOK /\ tcb.lastAckReceived \in Int /\ tcb.lastByteSent \in Int
        /\ Fins \in {0, 1} /\ Top \in Int
    BY <1>3, TopType, SeqNoInt DEF SysTyped, TypeOK, TCBType
  <2>2. Below(Top, tcb.lastAckReceived) <= Leaps * K
    BY <1>3 DEF AckInv, Lag
  <2>3. Leaps * K \in Int /\ Leaps * K < M \div 2
    BY <1>3, LeapsBound
  <2>4. Below(Top, tcb.lastAckReceived) \in Int /\ M \div 2 \in Int
    <3>1. Below(Top, tcb.lastAckReceived) \in 0..(M - 1)
      BY <2>1, BelowType
    <3> QED BY <3>1, ModulusAssumption
  <2>5. Below(tcb.lastByteSent + Fins, tcb.lastAckReceived) < M \div 2
    <3>1. Below(Top, tcb.lastAckReceived) < M \div 2
      BY <2>2, <2>3, <2>4
    <3> QED BY <3>1 DEF Top
  <2>6. Diff(tcb.lastAckReceived, tcb.lastByteSent) <= Fins
    BY <2>1, <2>5, DiffFromBelow
  <2> QED BY <2>6 DEF Fins
<1> QED
  BY <1>1, <1>2, <1>3, PTL DEF SysSpec

-----------------------------------------------------------------------------
(* The distance of two places in the streams of two connections *)
LEMMA PlaceDiff ==
  ASSUME StretchesFit, NEW c \in 0..MaxConns, NEW e \in 0..MaxConns,
         NEW i \in (-1)..(StreamLen + 2), NEW j \in (-1)..(StreamLen + 2)
  PROVE  /\ (c - e) * IssStep \in Int
         /\ Diff(Place(c, i), Place(e, j)) = (c - e) * IssStep + (i - j)
<1>0. M \in Nat \ {0} /\ MaxConns \in Nat /\ IssStep \in Nat /\ StreamLen \in Nat
      /\ c \in Int /\ e \in Int /\ i \in Int /\ j \in Int /\ M \div 2 \in Int
  BY ModulusAssumption, BoundsAssumption, StreamAssumption
<1> DEFINE u == c * IssStep
           v == e * IssStep
           w == MaxConns * IssStep
           d == (c - e) * IssStep + (i - j)
<1>1. u \in Nat /\ v \in Nat /\ w \in Int /\ (c - e) * IssStep = u - v
  BY <1>0
<1>2. u <= w /\ v <= w
  BY <1>0, ProductMonotonic
<1>3. w + StreamLen + 4 <= M \div 2
  BY DEF StretchesFit
<1>4. d = (u - v) + (i - j) /\ (c - e) * IssStep \in Int
  BY <1>1
<1> HIDE DEF u, v, w, d
<1>5. d \in Int /\ -(M \div 2) <= d /\ d < M \div 2
  BY <1>0, <1>1, <1>2, <1>3, <1>4
<1> DEFINE a == Place(c, i)
           b == Place(e, j)
           r == (u + i) \div M
           s == (v + j) \div M
<1>6. a = (u + i) % M /\ b = (v + j) % M
  <2>1. 0 + (u + i) = u + i /\ 0 + (v + j) = v + j
    BY <1>0, <1>1
  <2> QED BY <2>1 DEF Place, Plus, u, v
<1>7. /\ a \in Int /\ b \in Int /\ r \in Int /\ s \in Int
      /\ u + i = r * M + a /\ v + j = s * M + b
  <2>1. u + i \in Int /\ v + j \in Int
    BY <1>0, <1>1
  <2>2. ASSUME NEW y \in Int
        PROVE  y % M \in Int /\ y \div M \in Int /\ y = (y \div M) * M + (y % M)
    BY ONLY <1>0, y \in Int
  <2>3. /\ (u + i) % M \in Int /\ r \in Int /\ u + i = r * M + ((u + i) % M)
        /\ (v + j) % M \in Int /\ s \in Int /\ v + j = s * M + ((v + j) % M)
    BY ONLY <2>1, <2>2 DEF r, s
  <2> HIDE DEF a, b, r, s
  <2> QED BY ONLY <1>6, <2>3
<1> HIDE DEF a, b, r, s
<1>8. s - r \in Int /\ (s - r) * M = s * M - r * M /\ s * M \in Int /\ r * M \in Int
  BY <1>0, <1>7
<1>9. a - b = d + (s - r) * M
  BY <1>0, <1>1, <1>4, <1>7, <1>8
<1>10. Diff(a, b) = d
  BY <1>5, <1>7, <1>8, <1>9, DiffIs
<1> QED BY <1>4, <1>10 DEF a, b, d

(* Different connections are a stretch apart *)
LEMMA ConnsApart ==
  ASSUME StretchesFit, NEW c \in 0..MaxConns, NEW e \in 0..MaxConns, c > e
  PROVE  /\ (c - e) * IssStep >= IssStep
         /\ (e - c) * IssStep = -((c - e) * IssStep)
<1>1. IssStep \in Nat \ {0} /\ c - e \in Int /\ c - e >= 1
  BY BoundsAssumption, StreamAssumption DEF StretchesFit
<1>2. (c - e) * IssStep >= IssStep
  BY <1>1, MultipleAtLeast
<1>3. \A m \in Int : (-m) * IssStep = -(m * IssStep)
  BY <1>1
<1>4. -(c - e) = e - c
  BY <1>1
<1> QED BY <1>1, <1>2, <1>3, <1>4

LEMMA ConnUnique ==
  ASSUME StretchesFit, NEW c \in 0..MaxConns, NEW e \in 0..MaxConns, Place(c, 1) = Place(e, 1)
  PROVE  c = e
<1>0. 1 \in (-1)..(StreamLen + 2) /\ c \in Int /\ e \in Int /\ IssStep \in Nat /\ IssStep >= 1
  BY StreamAssumption, BoundsAssumption DEF StretchesFit
<1>1. /\ (c - e) * IssStep \in Int
      /\ Diff(Place(c, 1), Place(e, 1)) = (c - e) * IssStep + (1 - 1)
  BY <1>0, PlaceDiff
<1>2. Diff(Place(e, 1), Place(e, 1)) = (e - e) * IssStep + (1 - 1)
  BY <1>0, PlaceDiff
<1>3. (e - e) * IssStep = 0
  BY <1>0
<1>4. (c - e) * IssStep = 0
  BY <1>1, <1>2, <1>3
<1>5. CASE c > e
  BY <1>0, <1>4, <1>5, ConnsApart
<1>6. CASE e > c
  BY <1>0, <1>4, <1>6, ConnsApart
<1> QED BY <1>0, <1>5, <1>6

(***************************************************************************)
(* handleMetrics finds new data only in a segment of the connection that   *)
(* lastByteReceived belongs to: an older one is behind it, a newer one out *)
(* of order.                                                               *)
(***************************************************************************)
LEMMA NewDataIsOurs ==
  ASSUME StretchesFit, NEW t, NEW s, FromClients(s), "RST" \notin s.flags,
         NEW c \in 0..MaxConns, NEW j \in 0..(StreamLen + 2),
         t.lastByteReceived = Place(c, j), NewData(t, s) > 0
  PROVE  s.conn = c /\ \E m \in 0..(StreamLen + 2) : LastByte(s) = Place(c, m)
<1>0. /\ IssStep \in Nat /\ StreamLen \in Nat /\ IssStep >= StreamLen + 5
      /\ c \in Int /\ j \in Int
  BY BoundsAssumption, StreamAssumption DEF StretchesFit
<1>1. PICK k \in 0..(StreamLen + 2) : /\ s.seq = Place(s.conn, k)
                                      /\ k + s.len + FinOf(s) <= StreamLen + 2
  BY DEF FromClients
<1> DEFINE e == s.conn
           l == k + (s.len - 1 + FinOf(s))
<1>2. e \in 0..MaxConns /\ e \in Int /\ s.len \in Nat /\ FinOf(s) \in {0, 1} /\ k \in Int
  BY BoundsAssumption DEF FromClients, FinOf
<1>3. /\ l \in (-1)..(StreamLen + 1) /\ l \in (-1)..(StreamLen + 2) /\ l \in Int
      /\ k \in (-1)..(StreamLen + 2) /\ j \in (-1)..(StreamLen + 2)
      /\ s.len - 1 + FinOf(s) \in Int
  BY <1>0, <1>1, <1>2
<1>4. LastByte(s) = Place(e, l)
  <2>1. LastByte(s) = Plus(Place(e, k), s.len - 1 + FinOf(s))
    BY <1>1 DEF LastByte, FinOf, Fin
  <2> QED BY <1>2, <1>3, <2>1, PlaceType
<1> HIDE DEF l, e
<1>5. Diff(Place(e, k), Place(c, j)) <= 1 /\ Diff(Place(e, l), Place(c, j)) > 0
  <2>1. Diff(s.seq, t.lastByteReceived) <= 1 /\ Diff(LastByte(s), t.lastByteReceived) > 0
    BY DEF NewData, InOrder
  <2> QED BY <1>1, <1>4, <2>1 DEF e
<1>6. /\ (e - c) * IssStep \in Int
      /\ (e - c) * IssStep + (k - j) <= 1 /\ (e - c) * IssStep + (l - j) > 0
  BY <1>2, <1>3, <1>5, PlaceDiff
<1>7. ~ (e > c)
  <2> SUFFICES ASSUME e > c PROVE FALSE
    OBVIOUS
  <2>1. (e - c) * IssStep >= IssStep
    BY <1>2, ConnsApart
  <2> DEFINE g == (e - c) * IssStep
  <2>2. g \in Int /\ g >= IssStep /\ g + (k - j) <= 1 /\ k - j >= -(StreamLen + 2)
    BY <1>0, <1>1, <1>6, <2>1
  <2> HIDE DEF g
  <2> QED BY <1>0, <1>3, <2>2
<1>8. ~ (c > e)
  <2> SUFFICES ASSUME c > e PROVE FALSE
    OBVIOUS
  <2>1. (c - e) * IssStep >= IssStep /\ (e - c) * IssStep = -((c - e) * IssStep)
    BY <1>2, ConnsApart
  <2>2. (c - e) * IssStep \in Int
    BY <1>0, <1>2
  <2> QED BY <1>0, <1>3, <1>6, <2>1, <2>2
<1>9. e = c
  BY <1>0, <1>2, <1>7, <1>8
<1>10. (e - c) * IssStep = 0
  BY <1>0, <1>9
<1>11. l \in 0..(StreamLen + 2)
  BY <1>0, <1>3, <1>6, <1>10
<1> QED BY <1>4, <1>9, <1>11 DEF e

(***************************************************************************)
(* The number that acknowledges the server's new SYN is on nobody's way    *)
(* yet when the connection is opened.                                      *)
(***************************************************************************)
LEMMA SynIsFresh ==
  ASSUME SysTyped, SysTyped', NEW K \in Nat, LeapsFit(K), AckInv(K),
         NEW s \in toServer, ServerReceive(s), HandleSyn(s)
  PROVE  /\ \A q \in toServer : "ACK" \in q.flags => q.ack # tcb'.lastByteSent
         /\ \A p \in Clients : client[p].st = "OPEN" => client[p].rcv # tcb'.lastByteSent
         /\ \A r \in toPeers : "RST" \notin r.flags => EndOf(r) # tcb'.lastByteSent
<1>1. PICK n \in Nat : /\ Top' % M = (Top + n) % M /\ Leaps * K + n <= Leaps' * K
                       /\ n > 0
  BY Advance
<1>2. Top \in Int /\ Top' = tcb'.lastByteSent /\ Top' \in Int
  <2>1. TypeOK /\ TypeOK' /\ Fins' = 0
    BY DEF SysTyped, HandleSyn, Fins
  <2>2. tcb'.lastByteSent \in Int
    BY <2>1 DEF TypeOK, TCBType, SeqNo
  <2> QED BY <2>1, <2>2, TopType DEF Top
<1>3. Leaps * K \in Int /\ Leaps' * K \in Int /\ Leaps' * K < M
  <2>1. Leaps * K \in Int
    BY LeapsBound
  <2>2. (Leaps * K)' \in Int /\ (Leaps * K)' < M \div 2
    <3>1. Leaps \in Int /\ Leaps * K \in Int /\ Leaps * K < M \div 2
      BY LeapsBound
    <3>2. ServerMove(s) /\ tcb.status = "CLOSED" /\ tcb'.status = "SYN_RCVD" /\ opens \in Nat
      BY ServerShape, BoundsAssumption DEF HandleSyn, Listening, SysTyped
    <3>3. opens' = opens + 1 /\ opens' \in 0..MaxOpens /\ MaxOpens \in Nat
      BY <3>2, BoundsAssumption DEF ServerMove
    <3>4. Leaps' = 2 * opens' - 1
      BY <3>2 DEF Leaps
    <3> DEFINE l == Leaps'
    <3>5. l \in Int /\ l <= 2 * MaxOpens /\ 2 * MaxOpens \in Int
      BY <3>2, <3>3, <3>4
    <3> HIDE DEF l
    <3>6. l * K \in Int /\ l * K <= (2 * MaxOpens) * K
      BY <3>5, ProductMonotonic
    <3>7. (2 * MaxOpens) * K < M \div 2 /\ (2 * MaxOpens) * K \in Int /\ M \div 2 \in Int
      BY <3>5, ModulusAssumption DEF LeapsFit
    <3>8. l * K < M \div 2
      BY <3>6, <3>7
    <3> QED BY <3>6, <3>8 DEF l
  <2> DEFINE C == Leaps' * K
  <2>3. C \in Int /\ C < M \div 2
    BY <2>2
  <2> HIDE DEF C
  <2>4. C < M
    BY <2>3, ModulusAssumption
  <2> QED BY <2>1, <2>3, <2>4 DEF C
<1>4. ASSUME NEW a \in Int, Below(Top, a) <= Leaps * K
      PROVE  a # tcb'.lastByteSent
  <2> DEFINE z == Top'
             B == Leaps * K
             C == Leaps' * K
  <2>1. /\ z \in Int /\ z % M = (Top + n) % M /\ B \in Int /\ C \in Int
        /\ C < M /\ B + n <= C /\ Below(Top, a) <= B
    BY <1>1, <1>2, <1>3, <1>4
  <2> HIDE DEF z, B, C
  <2>2. Below(Top, a) \in 0..(M - 1) /\ M \in Nat
    BY <1>2, BelowType, ModulusAssumption
  <2>3. Below(Top, a) + n < M /\ Below(Top, a) + n > 0
    BY <2>1, <2>2, <1>1
  <2>4. Below(z, a) = Below(Top, a) + n
    BY <1>2, <2>1, <2>3, BelowShift
  <2>5. Below(z, z) = 0
    <3>1. z - z = 0 /\ 0 \in 0..(M - 1) /\ M \in Nat \ {0}
      BY <2>1, ModulusAssumption
    <3>2. 0 % M = 0
      BY ONLY <3>1, ModSmall
    <3> QED BY <3>1, <3>2 DEF Below
  <2>6. a # z
    BY <2>3, <2>4, <2>5
  <2> QED BY <2>6, <1>2 DEF z
<1>5. \A q \in toServer : "ACK" \in q.flags => q.ack # tcb'.lastByteSent
  <2>1. \A q \in toServer : q.ack \in Int
    BY SeqNoInt DEF SysTyped, FromClients
  <2> QED BY <2>1, <1>4 DEF AckInv, Lag
<1>6. \A p \in Clients : client[p].st = "OPEN" => client[p].rcv # tcb'.lastByteSent
  <2>1. \A p \in Clients : client[p].rcv \in Int
    BY SeqNoInt DEF SysTyped, Client
  <2> QED BY <2>1, <1>4 DEF AckInv, Lag
<1>7. \A r \in toPeers : "RST" \notin r.flags => EndOf(r) # tcb'.lastByteSent
  <2>1. \A r \in toPeers : EndOf(r) \in Int
    BY EndType DEF SysTyped
  <2> QED BY <2>1, <1>4 DEF AckInv, Lag
<1> QED BY <1>5, <1>6, <1>7

LEMMA DataInvStep ==
  ASSUME SysTyped, SysTyped', NEW K \in Nat, LeapsFit(K), StretchesFit, AckInv(K), DataInv,
         [SysNext]_sysVars
  PROVE  DataInv'
<1>0. TypeOK /\ current.conn \in 0..MaxConns
  BY DEF SysTyped
<1>1. CASE Thinned
  BY <1>1 DEF Thinned, serverVars, DataInv, OpenerKnown, NoStaleData, EndOf, FinOf
<1>2. ASSUME NEW p \in Clients, PeerStep(p) PROVE DataInv'
  <2>1. PeerMove(p)
    BY <1>2, PeerShape
  <2>2. /\ tcb' = tcb /\ current' = current /\ finOut' = finOut
    BY <2>1 DEF PeerMove, serverVars
  <2>3. ASSUME tcb.status = "SYN_RCVD", NEW r \in toPeers, "RST" \notin r.flags,
               EndOf(r) = tcb.lastByteSent
        PROVE  r.flags = {"SYN", "ACK"} /\ r.dst = tcb.remote /\ r.ack = Place(current.conn, 1)
    BY <2>3 DEF DataInv, OpenerKnown
  <2>4. ASSUME tcb.status = "SYN_RCVD", client'[p].st = "OPEN",
               client'[p].rcv = tcb.lastByteSent
        PROVE  p = tcb.remote /\ client'[p].conn = current.conn
    <3>1. client'[p].conn = client[p].conn /\ client[p].conn \in 0..MaxConns
      BY <2>1, <2>4 DEF PeerMove, SysTyped, Client
    <3>2. CASE client[p].st = "OPEN" /\ client'[p].rcv = client[p].rcv
      BY <2>4, <3>1, <3>2 DEF DataInv, OpenerKnown
    <3>3. ASSUME NEW r \in toPeers, r.dst = p, "RST" \notin r.flags, client'[p].rcv = EndOf(r),
                 \/ client[p].st = "OPEN" /\ "SYN" \notin r.flags
                 \/ r.flags = {"SYN", "ACK"} /\ r.ack = Place(client[p].conn, 1)
          PROVE  p = tcb.remote /\ client'[p].conn = current.conn
      <4>1. r.flags = {"SYN", "ACK"} /\ r.dst = tcb.remote /\ r.ack = Place(current.conn, 1)
        BY <2>3, <2>4, <3>3
      <4>2. Place(client[p].conn, 1) = Place(current.conn, 1)
        BY <3>3, <4>1
      <4>3. client[p].conn = current.conn
        BY <1>0, <3>1, <4>2, ConnUnique
      <4> QED BY <3>1, <3>3, <4>1, <4>3
    <3> QED BY <2>1, <2>4, <3>2, <3>3 DEF PeerMove
  <2>5. ASSUME tcb.status = "SYN_RCVD", NEW s \in toServer', "ACK" \in s.flags,
               s.ack = tcb.lastByteSent
        PROVE  s.src = tcb.remote /\ s.conn = current.conn
    <3>1. CASE s \in toServer
      BY <2>5, <3>1 DEF DataInv, OpenerKnown
    <3>2. CASE Sent(p, s)
      <4>1. client'[p].st = "OPEN" /\ s.ack = client'[p].rcv /\ s.src = p /\ s.conn = client[p].conn
        BY <2>5, <3>2 DEF Sent
      <4>2. client'[p].conn = client[p].conn
        BY <2>1, <4>1 DEF PeerMove
      <4> QED BY <2>4, <2>5, <4>1, <4>2
    <3> QED BY <2>1, <3>1, <3>2 DEF PeerMove
  <2>6. ASSUME tcb.status = "SYN_RCVD", NEW q \in Clients, client'[q].st = "OPEN",
               client'[q].rcv = tcb.lastByteSent
        PROVE  q = tcb.remote /\ client'[q].conn = current.conn
    <3>1. CASE q = p
      BY <2>4, <2>6, <3>1
    <3>2. CASE q # p
      BY <2>1, <2>6, <3>2 DEF PeerMove, DataInv, OpenerKnown
    <3> QED BY <3>1, <3>2
  <2>7. toPeers' \subseteq toPeers /\ (tcb.status = "SYN_RCVD" => finOut' = 0)
    BY <2>1, <2>2 DEF PeerMove, DataInv, OpenerKnown
  <2>8. OpenerKnown'
    BY <2>2, <2>3, <2>5, <2>6, <2>7 DEF OpenerKnown, EndOf, FinOf, Place
  <2>9. NoStaleData' /\ (tcb.status # "CLOSED" =>
          \E j \in 0..(StreamLen + 2) : tcb.lastByteReceived = Place(current.conn, j))'
    BY <2>2 DEF DataInv, NoStaleData, Place
  <2> QED BY <2>8, <2>9 DEF DataInv
<1>3. ASSUME NEW s \in toServer, ServerReceive(s) PROVE DataInv'
  <2>0. IsSegment(s) /\ handleTCP(s) /\ FromClients(s) /\ ServerMove(s)
    BY <1>3, ServerShape
  <2>c. client' = client /\ toServer' \subseteq toServer
    BY <2>0 DEF ServerMove
  <2>1. CASE HandleSyn(s)
    <3>1. current'.conn = s.conn /\ current'.bytes = {}
      BY <2>0, <2>1 DEF ServerMove
    <3>2. s.seq = Place(s.conn, 0) /\ s.conn \in 0..MaxConns
      BY <2>0, <2>1 DEF HandleSyn, FromClients
    <3>3. PICK step \in ISNSteps :
          LET isn == NextISN(step)
          IN  /\ tcb' = [status |-> "SYN_RCVD", remote |-> s.src,
                         lastByteSent |-> Plus(isn, 1), lastByteReceived |-> s.seq,
                         lastAckReceived |-> Plus(isn, -1)]
              /\ out' = <<[dst |-> s.src, flags |-> {"SYN", "ACK"}, seq |-> isn,
                           ack |-> Plus(s.seq, 1), len |-> 0]>>
      BY <2>1 DEF HandleSyn
    <3>4. Plus(s.seq, 1) = Place(s.conn, 1)
      <4>1. 0 \in Int /\ 1 \in Int /\ 0 + 1 = 1
        OBVIOUS
      <4> QED BY <3>2, <4>1, PlaceType
    <3>5. /\ tcb'.status = "SYN_RCVD" /\ tcb'.remote = s.src /\ tcb'.lastByteReceived = s.seq
          /\ finOut' = 0
      BY <2>1, <3>3 DEF HandleSyn
    <3>6. ASSUME NEW i \in 1..Len(out')
          PROVE  /\ out'[i].flags = {"SYN", "ACK"} /\ out'[i].dst = tcb'.remote
                 /\ out'[i].ack = Place(current'.conn, 1)
      BY <3>1, <3>3, <3>4
    <3>7. /\ \A q \in toServer : "ACK" \in q.flags => q.ack # tcb'.lastByteSent
          /\ \A p \in Clients : client[p].st = "OPEN" => client[p].rcv # tcb'.lastByteSent
          /\ \A r \in toPeers : "RST" \notin r.flags => EndOf(r) # tcb'.lastByteSent
      BY <1>3, <2>1, SynIsFresh
    <3>8. ASSUME NEW r \in toPeers', "RST" \notin r.flags, EndOf(r) = tcb'.lastByteSent
          PROVE  r.flags = {"SYN", "ACK"} /\ r.dst = tcb'.remote /\ r.ack = Place(current'.conn, 1)
      BY <2>0, <3>6, <3>7, <3>8 DEF ServerMove
    <3>9. OpenerKnown'
      BY <2>c, <3>5, <3>7, <3>8 DEF OpenerKnown, EndOf, FinOf, Place
    <3>10. \E j \in 0..(StreamLen + 2) : tcb'.lastByteReceived = Place(current'.conn, j)
      <4>1. 0 \in 0..(StreamLen + 2)
        BY StreamAssumption
      <4> QED BY <3>1, <3>2, <3>5, <4>1
    <3>11. NoStaleData'
      BY <3>1 DEF NoStaleData
    <3> QED BY <3>9, <3>10, <3>11 DEF DataInv, Place
  <2>2. CASE ~ HandleSyn(s)
    <3>1. /\ current'.conn = current.conn
          /\ \A b \in current'.bytes :
               \/ b \in current.bytes
               \/ dataIn' # 0 /\ \E i \in 0..(s.len - 1) : b = <<s.src, s.conn, s.from + i>>
      <4>1. current' = [conn |-> current.conn, bytes |-> current'.bytes]
        BY <2>0, <2>2 DEF ServerMove
      <4>2. current'.conn = current.conn
        BY <4>1
      <4> QED BY <2>0, <2>2, <4>2 DEF ServerMove
    <3>2. ~ (tcb.status = "CLOSED" /\ tcb'.status = "SYN_RCVD")
      BY <2>0, <2>2, <1>0, SynOpens
    <3>3. /\ tcb'.remote = tcb.remote
          /\ tcb'.status # "CLOSED" => tcb.status # "CLOSED"
          /\ tcb'.status = "SYN_RCVD" => tcb.status = "SYN_RCVD" /\ finOut' = finOut
      BY <2>0, <3>2, <1>0, StepShape
    <3>4. ASSUME Matches(s), "RST" \notin s.flags, NewData(tcb, s) > 0
          PROVE  s.src = tcb.remote /\ s.conn = current.conn
                 /\ \E m \in 0..(StreamLen + 2) : LastByte(s) = Place(current.conn, m)
      <4>1. s.src = tcb.remote /\ tcb.status # "CLOSED"
        BY <3>4 DEF Matches, Listening
      <4>2. PICK j \in 0..(StreamLen + 2) : tcb.lastByteReceived = Place(current.conn, j)
        BY <4>1 DEF DataInv
      <4> QED BY <1>0, <2>0, <3>4, <4>1, <4>2, NewDataIsOurs
    <3>5. /\ \/ tcb'.lastByteReceived = tcb.lastByteReceived
             \/ /\ Matches(s) /\ "RST" \notin s.flags /\ tcb.status = "SYN_RCVD"
                /\ "ACK" \in s.flags /\ s.ack = tcb.lastByteSent
                /\ tcb'.lastByteReceived = s.seq
             \/ /\ Matches(s) /\ "RST" \notin s.flags /\ NewData(tcb, s) > 0
                /\ tcb'.lastByteReceived = LastByte(s)
          /\ dataIn' # 0 => Matches(s) /\ "RST" \notin s.flags /\ NewData(tcb, s) > 0
      BY <2>0, <2>2, <1>0, CounterShape
    <3>6. ASSUME tcb'.status # "CLOSED"
          PROVE  \E j \in 0..(StreamLen + 2) : tcb'.lastByteReceived = Place(current.conn, j)
      <4>1. CASE tcb'.lastByteReceived = tcb.lastByteReceived
        BY <3>3, <3>6, <4>1 DEF DataInv
      <4>2. CASE /\ Matches(s) /\ "RST" \notin s.flags /\ tcb.status = "SYN_RCVD"
                 /\ "ACK" \in s.flags /\ s.ack = tcb.lastByteSent
                 /\ tcb'.lastByteReceived = s.seq
        <5>1. s.conn = current.conn
          BY <4>2 DEF DataInv, OpenerKnown
        <5>2. \E j \in 0..(StreamLen + 2) : s.seq = Place(s.conn, j)
          BY <2>0, <4>2 DEF FromClients
        <5> QED BY <4>2, <5>1, <5>2
      <4>3. CASE /\ Matches(s) /\ "RST" \notin s.flags /\ NewData(tcb, s) > 0
                 /\ tcb'.lastByteReceived = LastByte(s)
        BY <3>4, <4>3
      <4> QED BY <3>5, <4>1, <4>2, <4>3
    <3>7. NoStaleData'
      <4> SUFFICES ASSUME NEW b \in current'.bytes
                   PROVE  b[1] = tcb'.remote /\ b[2] = current'.conn
        BY DEF NoStaleData
      <4>1. CASE b \in current.bytes
        BY <3>1, <3>3, <4>1 DEF DataInv, NoStaleData
      <4>2. ASSUME dataIn' # 0, NEW i \in 0..(s.len - 1), b = <<s.src, s.conn, s.from + i>>
            PROVE  b[1] = tcb'.remote /\ b[2] = current'.conn
        BY <3>1, <3>3, <3>4, <3>5, <4>2
      <4> QED BY <3>1, <4>1, <4>2
    <3>8. ASSUME tcb'.status = "SYN_RCVD" PROVE OpenerKnown'
      <4>1. tcb.status = "SYN_RCVD" /\ finOut' = finOut /\ tcb'.remote = tcb.remote
        BY <3>3, <3>8
      <4>2. /\ tcb'.lastByteSent = tcb.lastByteSent
            /\ \A i \in 1..Len(out') : "RST" \in out'[i].flags
        <5>1. CASE out' = <<>> /\ tcb'.lastByteSent = tcb.lastByteSent
          BY <5>1
        <5>2. CASE HandleBusy(s)
          BY <5>2 DEF HandleBusy, TCP_RST
        <5>3. ASSUME NEW n \in Nat, Launched(n) PROVE FALSE
          BY <4>1, <5>3 DEF Launched
        <5> QED BY <2>0, <2>2, <1>0, <5>1, <5>2, <5>3, OutShape
      <4>3. \A r \in toPeers' : r \in toPeers \/ "RST" \in r.flags
        BY <2>0, <4>2 DEF ServerMove
      <4>4. /\ finOut = 0
            /\ \A q \in toServer : "ACK" \in q.flags /\ q.ack = tcb.lastByteSent =>
                 q.src = tcb.remote /\ q.conn = current.conn
            /\ \A p \in Clients : client[p].st = "OPEN" /\ client[p].rcv = tcb.lastByteSent =>
                 p = tcb.remote /\ client[p].conn = current.conn
            /\ \A r \in toPeers : "RST" \notin r.flags /\ EndOf(r) = tcb.lastByteSent =>
                 r.flags = {"SYN", "ACK"} /\ r.dst = tcb.remote /\ r.ack = Place(current.conn, 1)
        BY <4>1 DEF DataInv, OpenerKnown
      <4> QED BY <2>c, <3>1, <4>1, <4>2, <4>3, <4>4 DEF OpenerKnown, EndOf, FinOf, Place
    <3>9. OpenerKnown'
      BY <3>8 DEF OpenerKnown
    <3> QED BY <3>1, <3>6, <3>7, <3>9 DEF DataInv, Place
  <2> QED BY <2>1, <2>2
<1> QED BY <1>1, <1>2, <1>3, NetworkShape DEF SysNext

(***************************************************************************)
(* What sendHTML is given on a connection belongs to the client connection *)
(* whose SYN opened it, for any number of clients and any delay or         *)
(* duplication of their segments.  The hypotheses are those of sequence    *)
(* numbers: a client leaves more room between its initial sequence numbers *)
(* than a request takes, and all of the numbers under way are within half  *)
(* of their range.                                                         *)
(***************************************************************************)
THEOREM StaleDataIsRejected ==
  ASSUME NEW K \in Nat, LeapsFit(K), StretchesFit
  PROVE  SysSpec => []NoStaleData
<1> DEFINE IInv == SysTyped /\ AckInv(K) /\ DataInv
<1>1. SysInit => IInv
  <2>1. SysInit => DataInv
    BY DEF SysInit, Init, DataInv, OpenerKnown, NoStaleData
  <2> QED BY <2>1, SysTypedInit, AckInvInit
<1>2. IInv /\ [SysNext]_sysVars => IInv'
  BY SysTypedStep, AckInvStep, DataInvStep
<1>3. IInv => NoStaleData
  BY DEF DataInv
<1> QED
  BY <1>1, <1>2, <1>3, PTL DEF SysSpec

-----------------------------------------------------------------------------
(***************************************************************************)
(* What a client may conclude from what it gets of the server: from        *)
(* acknowledgements, that its request was read; from data and the FIN,     *)
(* that it has (all of) one page of the connection it is in.               *)
(***************************************************************************)

(***************************************************************************)
(* Acknowledgements: for requests that fit into one segment and are not    *)
(* sent ahead of their acknowledgement.                                    *)
(***************************************************************************)

(* A request is one segment of two bytes at least, and the FIN comes after its ACK *)
OneSegment == MinSeg = StreamLen /\ ~ Pipelined /\ StreamLen >= 2

(* All of p's n-th request was given to sendHTML *)
Whole(p, n) == \A i \in 0..(StreamLen - 1) : <<p, n, i>> \in handed

(* Where the segments of a client begin: only the request has a payload *)
Packed(s) ==
  /\ s.get => s.len # 0
  /\ s.len # 0 => /\ s.len = StreamLen /\ s.from = 0 /\ s.seq = Place(s.conn, 1)
                  /\ s.flags \in {{"ACK"}, {"FIN", "ACK"}}
  /\ s.len = 0 => /\ s.flags = {"ACK"} =>
                       s.seq \in {Place(s.conn, 1), Place(s.conn, StreamLen + 1),
                                  Place(s.conn, StreamLen + 2)}
                  /\ s.flags = {"FIN", "ACK"} => s.seq = Place(s.conn, StreamLen + 1)

(* What client p has sent, and what it takes for acknowledged *)
Polite(p) ==
  LET c == client[p] IN
  /\ c.nxt \in {0, StreamLen}
  /\ c.fin => c.nxt = StreamLen /\ Whole(p, c.conn)
  /\ c.una >= 2 => Whole(p, c.conn)

(* An acknowledgement of two bytes or more, but not of the FIN, says that all was read *)
Honest(r) ==
  "RST" \notin r.flags =>
    \A n \in 0..MaxConns, a \in 2..StreamLen : r.ack = Place(n, 1 + a) => Whole(r.dst, n)

(***************************************************************************)
(* The invariant.  The handshake may set lastByteReceived to the first     *)
(* byte of the request, or behind all of it, but not in between; from      *)
(* there on it moves only by what sendHTML is given, by a FIN, or, in      *)
(* FIN_WAIT1, when sendHTML has been given a request.                      *)
(***************************************************************************)
ReadInv ==
  /\ \A s \in toServer : Packed(s)
  /\ \A p \in Clients : Polite(p)
  /\ \A r \in toPeers : Honest(r)
  /\ \A a \in 2..StreamLen :
       tcb.lastByteReceived = Place(current.conn, a) => Whole(tcb.remote, current.conn)
  /\ tcb.status = "FIN_WAIT1" => Whole(tcb.remote, current.conn)
-----------------------------------------------------------------------------
(* No two places of any connections share a sequence number *)
LEMMA PlaceUnique ==
  ASSUME StretchesFit, NEW c \in 0..MaxConns, NEW e \in 0..MaxConns,
         NEW i \in (-1)..(StreamLen + 2), NEW j \in (-1)..(StreamLen + 2),
         Place(c, i) = Place(e, j)
  PROVE  c = e /\ i = j
<1>0. /\ c \in Int /\ e \in Int /\ i \in Int /\ j \in Int /\ IssStep \in Nat /\ StreamLen \in Nat
      /\ IssStep >= StreamLen + 5
  BY StreamAssumption, BoundsAssumption DEF StretchesFit
<1>1. /\ (c - e) * IssStep \in Int
      /\ Diff(Place(c, i), Place(e, j)) = (c - e) * IssStep + (i - j)
  BY PlaceDiff
<1>2. Diff(Place(e, j), Place(e, j)) = (e - e) * IssStep + (j - j)
  BY PlaceDiff
<1>3. (e - e) * IssStep = 0 /\ j - j = 0
  BY <1>0
<1>4. (c - e) * IssStep + (i - j) = 0
  BY <1>1, <1>2, <1>3
<1>5. ~ (c > e)
  <2> SUFFICES ASSUME c > e PROVE FALSE
    OBVIOUS
  <2> DEFINE g == (c - e) * IssStep
  <2>1. g \in Int /\ g >= IssStep /\ g + (i - j) = 0
    BY <1>1, <1>4, ConnsApart
  <2> HIDE DEF g
  <2> QED BY <1>0, <2>1
<1>6. ~ (e > c)
  <2> SUFFICES ASSUME e > c PROVE FALSE
    OBVIOUS
  <2> DEFINE g == (e - c) * IssStep
             h == (c - e) * IssStep
  <2>1. g \in Int /\ h \in Int /\ g >= IssStep /\ h = -g /\ h + (i - j) = 0
    <3>1. (e - c) * IssStep \in Int
      BY <1>0
    <3> QED BY <3>1, <1>1, <1>4, ConnsApart
  <2> HIDE DEF g, h
  <2> QED BY <1>0, <2>1
<1>7. c = e
  BY <1>0, <1>5, <1>6
<1>8. (c - e) * IssStep = 0
  BY <1>0, <1>7
<1> QED BY <1>0, <1>4, <1>7, <1>8

(* Plus undoes Diff *)
LEMMA PlusDiff ==
  ASSUME NEW x \in SeqNo, NEW y \in SeqNo
  PROVE  x = Plus(y, Diff(x, y))
<1> DEFINE h == M \div 2
           e == x - y + h
           q == e \div M
           u == e % M
<1>0. M \in Nat \ {0} /\ h \in Int /\ x \in 0..(M - 1) /\ x \in Int /\ y \in Int /\ e \in Int
  BY ModulusAssumption DEF SeqNo
<1>1. u \in Int /\ q \in Int /\ e = q * M + u
  <2> HIDE DEF e
  <2> QED BY <1>0
<1> HIDE DEF q, u
<1>2. Diff(x, y) = u - h
  BY DEF Diff, u
<1>3. q * M \in Int /\ (-q) * M = -(q * M)
  BY <1>0, <1>1
<1>4. y + (u - h) = x + (-q) * M
  <2> HIDE DEF h
  <2> QED BY <1>0, <1>1, <1>3
<1>5. -q \in Int
  BY <1>1
<1>6. (x + (-q) * M) % M = x % M /\ x % M = x
  BY <1>0, <1>5, ModShift, ModSmall
<1> QED BY <1>2, <1>4, <1>6 DEF Plus

(* A segment with neither payload nor FIN never counts as new data *)
LEMMA NothingNew ==
  ASSUME StretchesFit, NEW t, NEW s, FromClients(s), "RST" \notin s.flags,
         NEW c \in 0..MaxConns, NEW j \in 0..(StreamLen + 2),
         t.lastByteReceived = Place(c, j), s.len = 0, "FIN" \notin s.flags
  PROVE  ~ (NewData(t, s) > 0)
<1> SUFFICES ASSUME NewData(t, s) > 0 PROVE FALSE
  OBVIOUS
<1>0. StreamLen \in Nat /\ c \in Int /\ j \in Int /\ s.conn \in 0..MaxConns /\ s.conn \in Int
  BY BoundsAssumption, StreamAssumption DEF FromClients
<1>1. PICK k \in 0..(StreamLen + 2) : s.seq = Place(s.conn, k)
  BY DEF FromClients
<1>2. /\ k \in Int /\ -1 \in Int /\ k \in (-1)..(StreamLen + 2) /\ k + (-1) \in (-1)..(StreamLen + 2)
      /\ j \in (-1)..(StreamLen + 2)
  BY <1>0
<1>3. LastByte(s) = Place(s.conn, k + (-1))
  <2>1. LastByte(s) = Plus(Place(s.conn, k), -1)
    <3>1. s.len - 1 + (IF "FIN" \in s.flags THEN 1 ELSE 0) = -1
      OBVIOUS
    <3> QED BY <1>1, <3>1 DEF LastByte, Fin
  <2> QED BY <1>0, <1>2, <2>1, PlaceType
<1>4. Diff(s.seq, t.lastByteReceived) <= 1 /\ Diff(LastByte(s), t.lastByteReceived) > 0
  BY DEF NewData, InOrder
<1> DEFINE g == (s.conn - c) * IssStep
<1>5. g \in Int /\ g + (k - j) <= 1 /\ g + ((k + (-1)) - j) > 0
  <2> DEFINE e == s.conn
             l == k + (-1)
  <2>1. /\ e \in 0..MaxConns /\ l \in (-1)..(StreamLen + 2)
        /\ Diff(Place(e, k), Place(c, j)) <= 1 /\ Diff(Place(e, l), Place(c, j)) > 0
    BY <1>0, <1>1, <1>2, <1>3, <1>4
  <2> HIDE DEF e, l
  <2>2. /\ (e - c) * IssStep \in Int
        /\ (e - c) * IssStep + (k - j) <= 1 /\ (e - c) * IssStep + (l - j) > 0
    BY <1>2, <2>1, PlaceDiff
  <2> QED BY <2>2 DEF e, l
<1> HIDE DEF g
<1> QED BY <1>0, <1>2, <1>5

-----------------------------------------------------------------------------
(***************************************************************************)
(* How handleTCP moves lastByteReceived, with what it gives to sendHTML,   *)
(* and that FIN_WAIT1 is entered only with an answer.                      *)
(***************************************************************************)
LEMMA DataShape ==
  ASSUME TypeOK, NEW s, IsSegment(s), handleTCP(s), ~ HandleSyn(s)
  PROVE  /\ \/ tcb'.lastByteReceived = tcb.lastByteReceived
            \/ /\ Matches(s) /\ "RST" \notin s.flags /\ tcb.status = "SYN_RCVD"
               /\ "ACK" \in s.flags /\ s.ack = tcb.lastByteSent
               /\ tcb'.lastByteReceived = s.seq
            \/ /\ Matches(s) /\ "RST" \notin s.flags /\ NewData(tcb, s) > 0
               /\ tcb'.lastByteReceived = LastByte(s)
               /\ \/ tcb.status = "FIN_WAIT1"
                  \/ s.len # 0 => dataIn' # 0
         /\ tcb'.status = "FIN_WAIT1" => tcb.status = "FIN_WAIT1" \/ (s.get /\ dataIn' # 0)
<1> DEFINE a == Acked(tcb, s)
           t1 == Received(a, s)
<1>0. tcb \in TCBType
  BY DEF TypeOK
<1>a. /\ a \in TCBType /\ a.lastByteReceived = tcb.lastByteReceived /\ a.status = tcb.status
      /\ t1 \in TCBType /\ t1.status = tcb.status /\ NewData(a, s) = NewData(tcb, s)
      /\ NewData(tcb, s) \in Nat
  <2>1. a \in TCBType /\ a.lastByteReceived = tcb.lastByteReceived /\ a.status = tcb.status
    BY <1>0, AckedType
  <2>2. t1 \in TCBType /\ t1.status = a.status /\ NewData(tcb, s) \in Nat
    BY <1>0, <2>1, ReceivedType
  <2>3. NewData(a, s) = NewData(tcb, s)
    BY <2>1 DEF NewData, InOrder
  <2> QED BY <2>1, <2>2, <2>3
<1>b. \/ t1.lastByteReceived = tcb.lastByteReceived
      \/ NewData(tcb, s) > 0 /\ t1.lastByteReceived = LastByte(s)
  BY <1>a DEF Received, TCBType
<1> HIDE DEF t1
<1>1. CASE HandleInvalid(s) \/ HandleClosed(s) \/ HandleBusy(s) \/ HandleStranger(s) \/ HandleReset(s)
  BY <1>1, <1>0 DEF HandleInvalid, HandleClosed, HandleBusy, HandleStranger, HandleReset, TCBType
<1>2. CASE HandleSynRcvd(s)
  <2>1. tcb' = tcb \/ tcb' = [a EXCEPT !.status = "ESTABLISHED"]
        \/ /\ s.ack = a.lastByteSent /\ "ACK" \in s.flags
           /\ tcb' = [a EXCEPT !.status = "ESTABLISHED",
                               !.lastAckReceived = s.ack, !.lastByteReceived = s.seq]
    BY <1>2 DEF HandleSynRcvd, Handshaken
  <2>2. a.lastByteSent = tcb.lastByteSent
    BY <1>0, AckedType
  <2>3. Matches(s) /\ "RST" \notin s.flags /\ tcb.status = "SYN_RCVD"
    BY <1>2 DEF HandleSynRcvd
  <2> HIDE DEF a
  <2> QED BY <2>1, <2>2, <2>3, <1>a, <1>0 DEF TCBType
<1>3. CASE HandleEstablishedIdle(s)
  <2>1. /\ tcb' = t1 /\ Matches(s) /\ "RST" \notin s.flags /\ ~ AckNeeded(tcb, s)
        /\ tcb.status = "ESTABLISHED"
    BY <1>3 DEF HandleEstablishedIdle, t1
  <2>2. NewData(tcb, s) > 0 => s.len = 0
    BY <2>1 DEF NewData, AckNeeded
  <2> QED BY <1>a, <1>b, <2>1, <2>2
<1>4. CASE HandleEstablishedData(s)
  <2>1. PICK page \in RespLens :
          LET t2 == IF sendHTML(s, NewData(tcb, s)) THEN AfterDataOut(t1, page) ELSE t1
          IN  tcb' = CASE Fin(s)             -> [t2 EXCEPT !.status = "LAST_ACK"]
                       [] ~ Fin(s) /\ sendHTML(s, NewData(tcb, s))   -> AfterFin(t2)
                       [] ~ Fin(s) /\ ~ sendHTML(s, NewData(tcb, s)) -> t2
    BY <1>4 DEF HandleEstablishedData, t1
  <2>2. /\ dataIn' = NewData(tcb, s) /\ Matches(s) /\ "RST" \notin s.flags
        /\ tcb.status = "ESTABLISHED"
    BY <1>4 DEF HandleEstablishedData
  <2> DEFINE reply == sendHTML(s, NewData(tcb, s))
             t2 == IF reply THEN AfterDataOut(t1, page) ELSE t1
  <2>3. t2.lastByteReceived = t1.lastByteReceived /\ t2.status = t1.status
        /\ t2 = [status |-> t2.status, remote |-> t2.remote, lastByteSent |-> t2.lastByteSent,
                 lastByteReceived |-> t2.lastByteReceived, lastAckReceived |-> t2.lastAckReceived]
    BY <1>a DEF AfterDataOut, TCBType
  <2>4. reply => s.get /\ dataIn' # 0
    BY <2>2 DEF sendHTML
  <2>5. tcb' = CASE Fin(s)            -> [t2 EXCEPT !.status = "LAST_ACK"]
                 [] ~ Fin(s) /\ reply   -> AfterFin(t2)
                 [] ~ Fin(s) /\ ~ reply -> t2
    BY <2>1
  <2> HIDE DEF t2, reply
  <2>6. \/ tcb' = [t2 EXCEPT !.status = "LAST_ACK"]
        \/ reply /\ tcb' = [t2 EXCEPT !.status = "FIN_WAIT1"]
        \/ tcb' = t2
    BY <2>5 DEF AfterFin
  <2>7. tcb'.lastByteReceived = t1.lastByteReceived /\ (tcb'.status = "FIN_WAIT1" => reply)
    BY <2>2, <2>3, <2>6, <1>a
  <2> QED BY <1>a, <1>b, <2>2, <2>4, <2>7
<1>5. CASE HandleFinWait1(s)
  <2>1. /\ Matches(s) /\ "RST" \notin s.flags /\ tcb.status = "FIN_WAIT1"
        /\ \/ tcb' = t1 \/ tcb' = [t1 EXCEPT !.status = "CLOSED"]
           \/ tcb' = [t1 EXCEPT !.status = "FIN_WAIT2"]
    BY <1>5 DEF HandleFinWait1, t1
  <2>2. tcb'.lastByteReceived = t1.lastByteReceived
    BY <2>1, <1>a DEF TCBType
  <2> QED BY <1>b, <2>1, <2>2
<1>6. CASE HandleFinWait2(s) \/ HandleLastAck(s)
  <2>1. /\ tcb.status \in {"FIN_WAIT2", "LAST_ACK"}
        /\ tcb' = tcb \/ tcb' = a \/ tcb' = [a EXCEPT !.status = "CLOSED"]
    BY <1>6 DEF HandleFinWait2, HandleLastAck
  <2> HIDE DEF a
  <2> QED BY <2>1, <1>a, <1>0 DEF TCBType
<1> QED
  BY <1>1, <1>2, <1>3, <1>4, <1>5, <1>6 DEF handleTCP

(* What is addressed to p and acknowledges x *)
AckingTo(p, x) == {r \in SentSegment : r.dst = p /\ r.ack = x}

LEMMA SegmentAcks ==
  ASSUME NEW t \in TCBType, t.remote \in Peers, NEW f \in SUBSET Flags, NEW len \in Nat
  PROVE  Segment(t, f, len) \in AckingTo(t.remote, Plus(t.lastByteReceived, 1))
BY SegmentType DEF AckingTo, Segment

LEMMA DataOutAcks ==
  ASSUME NEW t \in TCBType, t.remote \in Peers, NEW n \in Nat \ {0}
  PROVE  TCP_ComplexDataOut(t, n) \in Seq(AckingTo(t.remote, Plus(t.lastByteReceived, 1)))
<1> DEFINE o == TCP_ComplexDataOut(t, n)
           S == AckingTo(t.remote, Plus(t.lastByteReceived, 1))
<1>1. o \in Seq(SentSegment)
  BY DataOutType
<1>2. ASSUME NEW i \in 1..Len(o) PROVE o[i] \in S
  <2> DEFINE c == (n + MaxPayload - 1) \div MaxPayload
             Size(k) == IF k < c THEN MaxPayload ELSE n - (c - 1) * MaxPayload
             u(k) == [t EXCEPT !.lastByteSent = Plus(@, (k - 1) * MaxPayload)]
  <2>1. c \in Nat
    BY ChunkCount
  <2>2. o = [k \in 1..c |-> Segment(u(k), {"ACK"}, Size(k))]
    BY DEF TCP_ComplexDataOut
  <2>3. o[i] \in SentSegment
    BY <1>1, ElementType
  <2> HIDE DEF c
  <2>4. i \in 1..c
    BY <2>1, <2>2
  <2>5. o[i] = Segment(u(i), {"ACK"}, Size(i))
    BY <2>2, <2>4
  <2>6. u(i).remote = t.remote /\ u(i).lastByteReceived = t.lastByteReceived
    BY DEF TCBType
  <2> HIDE DEF o, u, Size
  <2>7. o[i].dst = t.remote /\ o[i].ack = Plus(t.lastByteReceived, 1)
    BY <2>5, <2>6 DEF Segment
  <2> QED BY <2>3, <2>7 DEF AckingTo
<1> HIDE DEF o, S
<1>3. o \in [1..Len(o) -> S] /\ Len(o) \in Nat
  BY <1>1, <1>2
<1>4. o \in Seq(S)
  BY <1>3, FunctionIsSeq
<1> QED BY <1>4 DEF o, S

(***************************************************************************)
(* What is launched on an open connection acknowledges the last byte that  *)
(* is counted as received when the handler returns: the ACK, the page and  *)
(* the FINs alike.                                                         *)
(***************************************************************************)
LEMMA AckShape ==
  ASSUME TypeOK, NEW s, IsSegment(s), handleTCP(s), ~ HandleSyn(s), NEW i \in 1..Len(out')
  PROVE  \/ "RST" \in out'[i].flags
         \/ /\ tcb.status # "CLOSED" /\ out'[i].dst = tcb.remote
            /\ out'[i].ack = Plus(tcb'.lastByteReceived, 1)
<1> DEFINE a == Acked(tcb, s)
           t1 == Received(a, s)
           S == AckingTo(tcb.remote, Plus(t1.lastByteReceived, 1))
<1>0. tcb \in TCBType
  BY DEF TypeOK
<1>a. /\ a \in TCBType /\ a.remote = tcb.remote /\ a.lastByteReceived = tcb.lastByteReceived
      /\ t1 \in TCBType /\ t1.remote = tcb.remote
  BY <1>0, AckedType, ReceivedType
<1>e. out' # <<>>
  BY <1>0
<1>1. CASE HandleInvalid(s) \/ HandleClosed(s) \/ HandleStranger(s) \/ HandleReset(s)
           \/ HandleSynRcvd(s) \/ HandleEstablishedIdle(s) \/ HandleLastAck(s)
  BY <1>1, <1>e DEF HandleInvalid, HandleClosed, HandleStranger, HandleReset, HandleSynRcvd,
                    HandleEstablishedIdle, HandleLastAck, Silent
<1>2. CASE HandleBusy(s)
  BY <1>2 DEF HandleBusy, TCP_RST
<1>3. CASE HandleEstablishedData(s)
  <2>0. tcb.status # "CLOSED" /\ tcb.remote \in Peers
    BY <1>3 DEF HandleEstablishedData, TypeOK
  <2> DEFINE reply == sendHTML(s, NewData(tcb, s))
  <2>1. PICK page \in RespLens :
          LET t2 == IF reply THEN AfterDataOut(t1, page) ELSE t1
          IN  /\ tcb' = CASE Fin(s)             -> [t2 EXCEPT !.status = "LAST_ACK"]
                          [] ~ Fin(s) /\ reply   -> AfterFin(t2)
                          [] ~ Fin(s) /\ ~ reply -> t2
              /\ out' = TCP_ACK(t1)
                        \o (IF reply THEN TCP_ComplexDataOut(t1, page) \o TCP_FIN(t2) ELSE <<>>)
                        \o (IF Fin(s) THEN TCP_FIN(t2) ELSE <<>>)
    BY <1>3 DEF HandleEstablishedData
  <2> DEFINE t2 == IF reply THEN AfterDataOut(t1, page) ELSE t1
  <2>p. page \in Nat \ {0} /\ page \in Int
    BY ResponseAssumption
  <2> HIDE DEF t1, reply
  <2>2. t2 \in TCBType /\ t2.remote = tcb.remote /\ t2.lastByteReceived = t1.lastByteReceived
    <3>1. t1.lastByteSent \in Int
      BY <1>a, SeqNoInt DEF TCBType
    <3>2. Plus(t1.lastByteSent, page) \in SeqNo
      BY <3>1, <2>p, PlusType
    <3> QED BY <3>2, <1>a DEF AfterDataOut, TCBType
  <2>3. /\ tcb' = CASE Fin(s)             -> [t2 EXCEPT !.status = "LAST_ACK"]
                    [] ~ Fin(s) /\ reply   -> AfterFin(t2)
                    [] ~ Fin(s) /\ ~ reply -> t2
        /\ out' = TCP_ACK(t1)
                  \o (IF reply THEN TCP_ComplexDataOut(t1, page) \o TCP_FIN(t2) ELSE <<>>)
                  \o (IF Fin(s) THEN TCP_FIN(t2) ELSE <<>>)
    BY <2>1
  <2> HIDE DEF t2
  <2>4. tcb'.lastByteReceived = t1.lastByteReceived
    <3>1. \/ tcb' = [t2 EXCEPT !.status = "LAST_ACK"]
          \/ tcb' = [t2 EXCEPT !.status = "FIN_WAIT1"]
          \/ tcb' = t2
      BY <2>3 DEF AfterFin
    <3> QED BY <3>1, <2>2 DEF TCBType
  <2>5. /\ Segment(t1, {"ACK"}, 0) \in S /\ Segment(t2, {"FIN", "ACK"}, 0) \in S
    <3>1. {"ACK"} \in SUBSET Flags /\ {"FIN", "ACK"} \in SUBSET Flags /\ 0 \in Nat
      BY DEF Flags
    <3> QED BY <3>1, <1>a, <2>0, <2>2, SegmentAcks
  <2>6. TCP_ACK(t1) \in Seq(S) /\ TCP_FIN(t2) \in Seq(S) /\ <<>> \in Seq(S)
    <3> HIDE DEF S
    <3> QED BY <2>5 DEF TCP_ACK, TCP_FIN
  <2>7. TCP_ComplexDataOut(t1, page) \in Seq(S)
    BY <1>a, <2>0, <2>p, DataOutAcks
  <2> HIDE DEF S
  <2>8. out' \in Seq(S)
    <3> DEFINE x == TCP_ACK(t1)
               y == TCP_ComplexDataOut(t1, page)
               z == TCP_FIN(t2)
               m == IF reply THEN y \o z ELSE <<>>
               q == IF Fin(s) THEN z ELSE <<>>
    <3>1. y \o z \in Seq(S)
      BY <2>6, <2>7, ConcatType
    <3>2. m \in Seq(S) /\ q \in Seq(S)
      BY <2>6, <3>1
    <3>3. out' = (x \o m) \o q
      BY <2>3
    <3> HIDE DEF x, y, z, m, q
    <3>4. x \in Seq(S)
      BY <2>6 DEF x
    <3>5. x \o m \in Seq(S)
      BY <3>2, <3>4, ConcatType
    <3> QED BY <3>2, <3>3, <3>5, ConcatType
  <2>9. out'[i] \in S
    BY <2>8, ElementType
  <2> QED BY <2>0, <2>4, <2>9 DEF S, AckingTo
<1>4. CASE HandleFinWait1(s) \/ HandleFinWait2(s)
  <2>1. PICK t \in {a, t1} : /\ out' = <<Segment(t, {"ACK"}, 0)>>
                             /\ tcb' = [t EXCEPT !.status = "CLOSED"]
                             /\ tcb.status # "CLOSED"
    BY <1>4, <1>e DEF HandleFinWait1, HandleFinWait2, TCP_ACK
  <2> HIDE DEF a, t1
  <2>2. t \in TCBType /\ t.remote = tcb.remote
    BY <1>a
  <2>3. tcb'.lastByteReceived = t.lastByteReceived
    BY <2>1, <2>2 DEF TCBType
  <2>4. out'[i] = Segment(t, {"ACK"}, 0)
    BY <2>1
  <2> QED BY <2>1, <2>2, <2>3, <2>4 DEF Segment
<1> QED
  BY <1>1, <1>2, <1>3, <1>4 DEF handleTCP

-----------------------------------------------------------------------------
(* The rest of the fields of a segment that a client makes *)
LEMMA FromClientRest ==
  ASSUME NEW p \in Clients, client[p].conn \in 0..MaxConns,
         NEW f, NEW seq, NEW ack, NEW from, NEW len
  PROVE  LET s == FromClient(p, f, seq, ack, from, len)
         IN  /\ s.conn = client[p].conn /\ s.flags = f /\ s.seq = seq /\ s.len = len
             /\ s.from = from /\ s.get = (from = 0 /\ len >= GetLen)
BY DEF FromClient

LEMMA PackedWithout ==
  ASSUME NEW p \in Clients, client[p].conn \in 0..MaxConns, NEW f, NEW seq, NEW ack, NEW from,
         f = {"ACK"} => seq \in {Place(client[p].conn, 1), Place(client[p].conn, StreamLen + 1),
                                Place(client[p].conn, StreamLen + 2)},
         f = {"FIN", "ACK"} => seq = Place(client[p].conn, StreamLen + 1)
  PROVE  Packed(FromClient(p, f, seq, ack, from, 0))
<1> DEFINE s == FromClient(p, f, seq, ack, from, 0)
<1>1. /\ s.conn = client[p].conn /\ s.flags = f /\ s.seq = seq /\ s.len = 0
      /\ s.get = (from = 0 /\ 0 >= GetLen)
  BY FromClientRest
<1>2. ~ (0 >= GetLen)
  BY StreamAssumption
<1> HIDE DEF s
<1>3. Packed(s)
  BY <1>1, <1>2 DEF Packed
<1> QED BY <1>3 DEF s

(* Nothing that a client does on its own breaks the invariant *)
LEMMA ReadByPeer ==
  ASSUME OneSegment, StretchesFit, SysTyped, ReadInv, NEW p \in Clients, PeerStep(p)
  PROVE  ReadInv'
<1> DEFINE c == client[p]
<1>0. /\ client \in [Clients -> Client] /\ c \in Client /\ c.conn \in 0..MaxConns
      /\ UNCHANGED <<tcb, handed, current>> /\ toPeers' \subseteq toPeers
  <2>1. PeerMove(p)
    BY PeerShape
  <2> QED BY <2>1 DEF SysTyped, PeerMove, serverVars, Client
<1>s. StreamLen \in Nat /\ StreamLen >= 2 /\ MinSeg = StreamLen /\ ~ Pipelined
  BY StreamAssumption DEF OneSegment
<1>f. /\ c.una \in 0..(StreamLen + 1) /\ c.nxt \in {0, StreamLen} /\ c.una \in Int /\ c.nxt \in Int
      /\ (c.fin => c.nxt = StreamLen /\ Whole(p, c.conn))
      /\ (c.una >= 2 => Whole(p, c.conn))
  BY <1>0, <1>s DEF ReadInv, Polite, Client
<1>p. /\ Iss(p) = Place(c.conn, 0) /\ Plus(Iss(p), 1) = Place(c.conn, 1)
      /\ \A i \in Int : At(p, i) = Place(c.conn, 1 + i)
  BY <1>0, ClientPlaces
<1>g. /\ At(p, 0) = Place(c.conn, 1) /\ At(p, StreamLen) = Place(c.conn, StreamLen + 1)
      /\ At(p, StreamLen + 1) = Place(c.conn, StreamLen + 2)
  <2>1. /\ 0 \in Int /\ 1 + 0 = 1 /\ StreamLen \in Int /\ 1 + StreamLen = StreamLen + 1
        /\ StreamLen + 1 \in Int /\ 1 + (StreamLen + 1) = StreamLen + 2
    BY <1>s
  <2> QED BY <1>p, <2>1
<1>q. ASSUME \A s \in toServer' : s \in toServer \/ Packed(s),
             \A q \in Clients \ {p} : client'[q] = client[q],
             /\ client'[p].nxt \in {0, StreamLen}
             /\ client'[p].fin => client'[p].nxt = StreamLen /\ Whole(p, client'[p].conn)
             /\ client'[p].una >= 2 => Whole(p, client'[p].conn)
      PROVE  ReadInv'
  <2>1. (\A s \in toServer : Packed(s))'
    BY <1>q DEF ReadInv, Packed, Place
  <2>2. (\A q \in Clients : Polite(q))'
    <3> SUFFICES ASSUME NEW q \in Clients PROVE Polite(q)'
      OBVIOUS
    <3>1. CASE q = p
      BY <1>0, <1>q, <3>1 DEF Polite, Whole
    <3>2. CASE q # p
      <4>1. client'[q] = client[q] /\ Polite(q)
        BY <1>q, <3>2 DEF ReadInv
      <4> QED BY <4>1, <1>0 DEF Polite, Whole
    <3> QED BY <3>1, <3>2
  <2>3. (\A r \in toPeers : Honest(r))'
    BY <1>0 DEF ReadInv, Honest, Whole, Place
  <2>4. /\ (\A a \in 2..StreamLen :
             tcb.lastByteReceived = Place(current.conn, a) => Whole(tcb.remote, current.conn))'
        /\ (tcb.status = "FIN_WAIT1" => Whole(tcb.remote, current.conn))'
    BY <1>0 DEF ReadInv, Whole, Place
  <2> QED BY <2>1, <2>2, <2>3, <2>4 DEF ReadInv
<1>k. ASSUME NEW d, client' = [client EXCEPT ![p] = d]
      PROVE  client'[p] = d /\ \A q \in Clients \ {p} : client'[q] = client[q]
  BY <1>0, <1>k
<1>1. CASE PeerConnect(p)
  <2> DEFINE d == [st |-> "SYN_SENT", conn |-> c.conn + 1, una |-> 0, nxt |-> 0,
                   fin |-> FALSE, rcv |-> 0, got |-> 0, eof |-> FALSE]
  <2>1. client' = [client EXCEPT ![p] = d] /\ toServer' = toServer
    BY <1>1, <1>0 DEF PeerConnect
  <2>2. d.nxt = 0 /\ d.fin = FALSE /\ d.una = 0
    OBVIOUS
  <2> HIDE DEF d
  <2>3. client'[p] = d /\ \A q \in Clients \ {p} : client'[q] = client[q]
    BY <2>1, <1>k
  <2> QED BY <2>1, <2>2, <2>3, <1>q
<1>2. CASE PeerSendSyn(p)
  <2> DEFINE s == FromClient(p, {"SYN"}, Iss(p), 0, 0, 0)
  <2>1. toServer' = toServer \cup {s} /\ client' = client
    BY <1>2 DEF PeerSendSyn, Launch
  <2>2. Packed(s)
    <3>1. {"SYN"} # {"ACK"} /\ {"SYN"} # {"FIN", "ACK"}
      OBVIOUS
    <3> QED BY <1>0, <3>1, PackedWithout
  <2> HIDE DEF s
  <2> QED BY <2>1, <2>2, <1>f, <1>q
<1>3. CASE PeerSendData(p)
  <2>1. PICK from \in {c.una, c.nxt}, len \in MinSeg..StreamLen :
          /\ from + len <= StreamLen
          /\ Launch(FromClient(p, IF c.fin /\ from + len = StreamLen THEN {"FIN", "ACK"} ELSE {"ACK"},
                               At(p, from), c.rcv, from, len))
          /\ client' = [client EXCEPT ![p].nxt = IF from + len > @ THEN from + len ELSE @]
    BY <1>3 DEF PeerSendData
  <2>2. from = 0 /\ len = StreamLen
    <3>1. from \in Nat /\ len = StreamLen
      BY <1>f, <1>s
    <3> QED BY <2>1, <3>1, <1>s
  <2> DEFINE f == IF c.fin /\ from + len = StreamLen THEN {"FIN", "ACK"} ELSE {"ACK"}
             s == FromClient(p, f, At(p, from), c.rcv, from, len)
             d == [c EXCEPT !.nxt = IF from + len > c.nxt THEN from + len ELSE c.nxt]
  <2>3. toServer' = toServer \cup {s} /\ client' = [client EXCEPT ![p] = d]
    BY <2>1, <1>0 DEF Launch
  <2>4. /\ d.nxt = StreamLen /\ d.fin = c.fin /\ d.una = c.una /\ d.conn = c.conn
    BY <2>2, <1>f, <1>s, <1>0 DEF Client
  <2>5. Packed(s)
    <3>1. /\ s.conn = c.conn /\ s.flags = f /\ s.seq = At(p, from) /\ s.len = len /\ s.from = from
      BY <1>0, FromClientRest
    <3>2. f \in {{"ACK"}, {"FIN", "ACK"}} /\ len # 0 /\ At(p, from) = Place(c.conn, 1)
      BY <1>g, <1>s, <2>2
    <3> HIDE DEF s, f
    <3> QED BY <2>2, <3>1, <3>2 DEF Packed
  <2> HIDE DEF d, s, f
  <2>6. client'[p] = d /\ \A q \in Clients \ {p} : client'[q] = client[q]
    BY <2>3, <1>k
  <2> QED BY <2>3, <2>4, <2>5, <2>6, <1>f, <1>q
<1>4. CASE PeerClose(p)
  <2> DEFINE s == FromClient(p, {"FIN", "ACK"}, At(p, StreamLen), c.rcv, StreamLen, 0)
             d == [c EXCEPT !.fin = TRUE]
  <2>1. toServer' = toServer \cup {s} /\ client' = [client EXCEPT ![p] = d]
    BY <1>4, <1>0 DEF PeerClose, Launch
  <2>2. c.nxt = StreamLen /\ c.una = StreamLen
    BY <1>4, <1>s DEF PeerClose
  <2>3. Packed(s)
    <3>1. {"FIN", "ACK"} # {"ACK"}
      OBVIOUS
    <3> QED BY <1>0, <1>g, <3>1, PackedWithout
  <2>4. d.nxt = c.nxt /\ d.una = c.una /\ d.conn = c.conn
    BY <1>0 DEF Client
  <2>5. Whole(p, c.conn)
    BY <2>2, <1>f, <1>s
  <2> HIDE DEF s, d
  <2>6. client'[p] = d /\ \A q \in Clients \ {p} : client'[q] = client[q]
    BY <2>1, <1>k
  <2> QED BY <2>1, <2>2, <2>3, <2>4, <2>5, <2>6, <1>q
<1>5. CASE PeerDone(p) \/ PeerVanish(p)
  <2>1. PICK st \in {"CLOSED", "OFF"} : client' = [client EXCEPT ![p].st = st] /\ toServer' = toServer
    BY <1>5 DEF PeerDone, PeerVanish
  <2> DEFINE d == [c EXCEPT !.st = st]
  <2>2. client' = [client EXCEPT ![p] = d]
    BY <2>1, <1>0
  <2>3. d.nxt = c.nxt /\ d.una = c.una /\ d.conn = c.conn /\ d.fin = c.fin
    BY <1>0 DEF Client
  <2> HIDE DEF d
  <2>4. client'[p] = d /\ \A q \in Clients \ {p} : client'[q] = client[q]
    BY <2>2, <1>k
  <2> QED BY <2>1, <2>3, <2>4, <1>f, <1>q
<1>6. ASSUME NEW r \in toPeers, PeerRcvSynAck(p, r) PROVE ReadInv'
  <2> DEFINE s == FromClient(p, {"ACK"}, At(p, 0), Plus(r.seq, 1), 0, 0)
             d == [c EXCEPT !.st = "OPEN", !.rcv = Plus(r.seq, 1)]
  <2>1. toServer' = toServer \cup {s} /\ client' = [client EXCEPT ![p] = d]
    <3>1. client' = [client EXCEPT ![p] = d]
      BY <1>6, <1>0 DEF PeerRcvSynAck, Client
    <3> QED BY <3>1, <1>6 DEF PeerRcvSynAck, Launch
  <2>2. Packed(s)
    <3>1. {"ACK"} # {"FIN", "ACK"}
      OBVIOUS
    <3> QED BY <1>0, <1>g, <3>1, PackedWithout
  <2>3. d.nxt = c.nxt /\ d.una = c.una /\ d.conn = c.conn /\ d.fin = c.fin
    BY <1>0 DEF Client
  <2> HIDE DEF s, d
  <2>4. client'[p] = d /\ \A q \in Clients \ {p} : client'[q] = client[q]
    BY <2>1, <1>k
  <2> QED BY <2>1, <2>2, <2>3, <2>4, <1>f, <1>q
<1>7. ASSUME NEW r \in toPeers, PeerReceive(p, r) PROVE ReadInv'
  <2> DEFINE acked == Diff(r.ack, At(p, 0))
             sent  == c.nxt + (IF c.fin THEN 1 ELSE 0)
  <2>1. ASSUME NEW a PROVE Packed(PureAck(p, a))
    <3>1. SndNxt(p) \in {Place(c.conn, 1), Place(c.conn, StreamLen + 1), Place(c.conn, StreamLen + 2)}
      <4>1. sent \in {0, StreamLen, StreamLen + 1}
        BY <1>f, <1>s
      <4>2. SndNxt(p) = At(p, sent)
        BY DEF SndNxt
      <4> HIDE DEF sent
      <4> QED BY <1>g, <4>1, <4>2
    <3>2. {"ACK"} # {"FIN", "ACK"}
      OBVIOUS
    <3> QED BY <1>0, <3>1, <3>2, PackedWithout DEF PureAck
  <2>2. \A s \in toServer' : s \in toServer \/ Packed(s)
    BY <1>7, <2>1 DEF PeerReceive, Launch
  <2>3. PICK una, rcv, got, eof :
          /\ client' = [client EXCEPT ![p] = [c EXCEPT !.una = una, !.rcv = rcv, !.got = got, !.eof = eof]]
             \/ client' = client
          /\ una = c.una \/ (acked = una /\ acked > c.una /\ acked <= sent)
    <3>1. CASE UNCHANGED client
      BY <3>1
    <3>2. CASE client' # client
      <4> DEFINE una == IF acked > c.una /\ acked <= sent THEN acked ELSE c.una
                 size == r.len + (IF "FIN" \in r.flags THEN 1 ELSE 0)
                 rcv == Plus(c.rcv, size)
                 got == c.got + r.len
                 eof == c.eof \/ "FIN" \in r.flags
      <4>1. client' = [client EXCEPT
             ![p].una = IF acked > @ /\ acked <= sent THEN acked ELSE @,
             ![p].rcv = rcv,
             ![p].got = @ + r.len,
             ![p].eof = @ \/ "FIN" \in r.flags]
        BY <1>7, <3>2 DEF PeerReceive
      <4> HIDE DEF acked, sent, rcv
      <4>2. client' = [client EXCEPT ![p] = [c EXCEPT !.una = una, !.rcv = rcv, !.got = got, !.eof = eof]]
        BY <4>1, <1>0 DEF Client
      <4>3. una = c.una \/ (acked = una /\ acked > c.una /\ acked <= sent)
        OBVIOUS
      <4> QED BY <4>2, <4>3
    <3> QED BY <3>1, <3>2
  <2>4. ASSUME una >= 2 PROVE Whole(p, c.conn)
    <3>1. CASE una = c.una
      BY <2>4, <3>1, <1>f
    <3>2. CASE c.fin
      BY <3>2, <1>f
    <3>3. CASE ~ c.fin /\ acked = una /\ acked <= sent
      <4>1. r.ack \in SeqNo /\ r.dst = p /\ "RST" \notin r.flags
        BY <1>7 DEF PeerReceive, SysTyped, SentSegment
      <4>2. Place(c.conn, 1) \in SeqNo /\ acked = Diff(r.ack, Place(c.conn, 1)) /\ acked \in Int
        <5>1. 1 \in Int
          OBVIOUS
        <5>2. Place(c.conn, 1) \in SeqNo
          BY <5>1, <1>0, PlaceType
        <5> QED BY <5>2, <1>g, <4>1, DiffType
      <4>3. acked \in 2..StreamLen
        BY <2>4, <3>3, <4>2, <1>f, <1>s
      <4>4. r.ack = Place(c.conn, 1 + acked)
        <5>1. \A x \in SeqNo, y \in SeqNo : x = Plus(y, Diff(x, y))
          BY PlusDiff
        <5>2. r.ack = Plus(Place(c.conn, 1), acked)
          BY <4>1, <4>2, <5>1
        <5>3. 1 \in Int
          OBVIOUS
        <5> HIDE DEF acked
        <5> QED BY <5>2, <5>3, <4>2, <1>0, PlaceType
      <4> HIDE DEF acked
      <4>5. Honest(r)
        BY DEF ReadInv
      <4> QED BY <4>1, <4>3, <4>4, <4>5, <1>0 DEF Honest
    <3> QED BY <2>3, <3>1, <3>2, <3>3
  <2> HIDE DEF acked, sent
  <2>5. CASE client' = client
    BY <2>2, <2>5, <1>f, <1>q
  <2>6. CASE client' = [client EXCEPT ![p] = [c EXCEPT !.una = una, !.rcv = rcv, !.got = got, !.eof = eof]]
    <3> DEFINE d == [c EXCEPT !.una = una, !.rcv = rcv, !.got = got, !.eof = eof]
    <3>1. client' = [client EXCEPT ![p] = d]
      BY <2>6
    <3>2. d.nxt = c.nxt /\ d.una = una /\ d.conn = c.conn /\ d.fin = c.fin
      BY <1>0 DEF Client
    <3> HIDE DEF d
    <3>3. client'[p] = d /\ \A q \in Clients \ {p} : client'[q] = client[q]
      BY <3>1, <1>k
    <3> QED BY <2>2, <2>4, <3>2, <3>3, <1>f, <1>q
  <2> QED BY <2>3, <2>5, <2>6
<1>8. ASSUME NEW r \in toPeers, PeerRejects(p, r) PROVE ReadInv'
  <2> DEFINE s == FromClient(p, {"RST"}, r.ack, 0, 0, 0)
             d == [c EXCEPT !.st = IF c.st = "OPEN" THEN "CLOSED" ELSE c.st]
  <2>1. toServer' = toServer \cup {s} /\ client' = [client EXCEPT ![p] = d]
    BY <1>8, <1>0 DEF PeerRejects, Launch
  <2>2. Packed(s)
    <3>1. {"RST"} # {"ACK"} /\ {"RST"} # {"FIN", "ACK"}
      OBVIOUS
    <3> QED BY <1>0, <3>1, PackedWithout
  <2>3. d.nxt = c.nxt /\ d.una = c.una /\ d.conn = c.conn /\ d.fin = c.fin
    BY <1>0 DEF Client
  <2> HIDE DEF s, d
  <2>4. client'[p] = d /\ \A q \in Clients \ {p} : client'[q] = client[q]
    BY <2>1, <1>k
  <2> QED BY <2>1, <2>2, <2>3, <2>4, <1>f, <1>q
<1>9. ASSUME NEW r \in toPeers, PeerIgnoresReset(p, r) PROVE ReadInv'
  <2>1. client' = client /\ toServer' = toServer
    BY <1>9 DEF PeerIgnoresReset
  <2> QED BY <2>1, <1>f, <1>q
<1> QED
  BY <1>1, <1>2, <1>3, <1>4, <1>5, <1>6, <1>7, <1>8, <1>9 DEF PeerStep

-----------------------------------------------------------------------------
(* What sendHTML was given stays given, and it is given a request as a whole *)
LEMMA HandedGrows ==
  ASSUME NEW s \in toServer, ServerReceive(s), Packed(s), StreamLen \in Nat
  PROVE  /\ handed \subseteq handed'
         /\ dataIn' # 0 /\ s.len # 0 =>
              \A i \in 0..(StreamLen - 1) : <<s.src, s.conn, i>> \in handed'
<1> DEFINE bytes == IF dataIn' = 0 THEN {}
                    ELSE {<<s.src, s.conn, s.from + i>> : i \in 0..(s.len - 1)}
<1>1. handed' = handed \cup bytes
  BY DEF ServerReceive
<1>2. ASSUME dataIn' # 0, s.len # 0, NEW i \in 0..(StreamLen - 1)
      PROVE  <<s.src, s.conn, i>> \in bytes
  <2>1. s.from = 0 /\ s.len = StreamLen /\ i \in 0..(s.len - 1) /\ 0 + i = i
    BY <1>2 DEF Packed
  <2>2. s.from + i = i
    BY <2>1
  <2>3. <<s.src, s.conn, s.from + i>> \in {<<s.src, s.conn, s.from + k>> : k \in 0..(s.len - 1)}
    BY <2>1
  <2> QED BY <1>2, <2>2, <2>3
<1> HIDE DEF bytes
<1> QED BY <1>1, <1>2

(* No segment that the server handles breaks the invariant *)
LEMMA ReadByServer ==
  ASSUME OneSegment, StretchesFit, SysTyped, DataInv, ReadInv, NEW s \in toServer, ServerReceive(s)
  PROVE  ReadInv'
<1>0. /\ TypeOK /\ current.conn \in 0..MaxConns /\ Packed(s)
      /\ IsSegment(s) /\ handleTCP(s) /\ FromClients(s) /\ ServerMove(s)
  BY ServerShape DEF SysTyped, ReadInv
<1>s. StreamLen \in Nat /\ StreamLen >= 2
  BY StreamAssumption DEF OneSegment
<1>t. tcb'.lastByteReceived \in SeqNo
  <2>1. TypeOK'
    BY <1>0, TypeStep
  <2> QED BY <2>1 DEF TypeOK, TCBType
<1>h. /\ handed \subseteq handed'
      /\ dataIn' # 0 /\ s.len # 0 =>
           \A i \in 0..(StreamLen - 1) : <<s.src, s.conn, i>> \in handed'
  BY <1>0, <1>s, HandedGrows
<1> DEFINE WholeNow(p, n) == \A i \in 0..(StreamLen - 1) : <<p, n, i>> \in handed'
<1>w. \A p, n : Whole(p, n) => WholeNow(p, n)
  BY <1>h DEF Whole
<1>c. client' = client /\ toServer' \subseteq toServer
  BY <1>0 DEF ServerMove
<1>1. (\A q \in toServer : Packed(q))'
  BY <1>c DEF ReadInv, Packed, Place
<1>2. (\A p \in Clients : Polite(p))'
  <2> SUFFICES ASSUME NEW p \in Clients PROVE Polite(p)'
    OBVIOUS
  <2>1. Polite(p)
    BY DEF ReadInv
  <2> QED BY <2>1, <1>c, <1>w DEF Polite, Whole
(* Where the server's counter is, given what a number means *)
<1>p. ASSUME NEW n \in 0..MaxConns, NEW a \in 2..StreamLen, NEW x \in SeqNo,
             Plus(x, 1) = Place(n, 1 + a)
      PROVE  x = Place(n, a)
  <2>1. a \in Int /\ 1 + a \in Int /\ -1 \in Int /\ (1 + a) + (-1) = a /\ 1 + (-1) = 0 /\ 1 \in Int
    BY <1>s
  <2>2. Plus(Plus(x, 1), -1) = Plus(x, 1 + (-1)) /\ x \in Int
    BY <2>1, SeqNoInt, PlusPlus
  <2>3. Plus(Plus(x, 1), -1) = x
    BY <2>1, <2>2, PlusZero
  <2>4. Plus(Place(n, 1 + a), -1) = Place(n, a)
    BY <2>1, PlaceType
  <2> QED BY <1>p, <2>3, <2>4
<1>r. \A a \in 2..StreamLen : a \in (-1)..(StreamLen + 2) /\ a \in Int
  BY <1>s
(* Two places are one *)
<1>u. ASSUME NEW n \in 0..MaxConns, NEW m \in 0..MaxConns, NEW j \in 0..(StreamLen + 2),
             NEW a \in 2..StreamLen, Place(m, j) = Place(n, a)
      PROVE  m = n /\ j = a
  <2>1. j \in (-1)..(StreamLen + 2) /\ a \in (-1)..(StreamLen + 2)
    BY <1>s
  <2> QED BY <1>u, <2>1, PlaceUnique
<1>3. ASSUME NEW c, c = current'.conn, NEW p, p = tcb'.remote,
             \A a \in 2..StreamLen : tcb'.lastByteReceived = Place(c, a) => WholeNow(p, c),
             tcb'.status = "FIN_WAIT1" => WholeNow(p, c),
             \A i \in 1..Len(out') : "RST" \notin out'[i].flags =>
                \A n \in 0..MaxConns, a \in 2..StreamLen :
                   out'[i].ack = Place(n, 1 + a) => WholeNow(out'[i].dst, n)
      PROVE  ReadInv'
  <2>1. (\A r \in toPeers : Honest(r))'
    <3> SUFFICES ASSUME NEW r \in toPeers', "RST" \notin r.flags, NEW n \in 0..MaxConns,
                        NEW a \in 2..StreamLen, r.ack = Place(n, 1 + a)
                 PROVE  WholeNow(r.dst, n)
      BY DEF Honest, Whole, Place
    <3>1. CASE r \in toPeers
      <4>1. Whole(r.dst, n)
        BY <3>1 DEF ReadInv, Honest
      <4> QED BY <4>1, <1>w
    <3>2. ASSUME NEW i \in 1..Len(out'), r = out'[i] PROVE WholeNow(r.dst, n)
      BY <1>3, <3>2
    <3> QED BY <3>1, <3>2, <1>0 DEF ServerMove
  <2>2. /\ (\A a \in 2..StreamLen :
             tcb.lastByteReceived = Place(current.conn, a) => Whole(tcb.remote, current.conn))'
        /\ (tcb.status = "FIN_WAIT1" => Whole(tcb.remote, current.conn))'
    BY <1>3 DEF Whole, Place
  <2> QED BY <1>1, <1>2, <2>1, <2>2 DEF ReadInv
<1>4. CASE HandleSyn(s)
  <2>1. current'.conn = s.conn
    BY <1>0, <1>4 DEF ServerMove
  <2>2. s.seq = Place(s.conn, 0) /\ s.conn \in 0..MaxConns
    BY <1>0, <1>4 DEF HandleSyn, FromClients
  <2>3. PICK step \in ISNSteps :
          LET isn == NextISN(step)
          IN  /\ tcb' = [status |-> "SYN_RCVD", remote |-> s.src,
                         lastByteSent |-> Plus(isn, 1), lastByteReceived |-> s.seq,
                         lastAckReceived |-> Plus(isn, -1)]
              /\ out' = <<[dst |-> s.src, flags |-> {"SYN", "ACK"}, seq |-> isn,
                           ack |-> Plus(s.seq, 1), len |-> 0]>>
    BY <1>4 DEF HandleSyn
  <2>4. tcb'.status = "SYN_RCVD" /\ tcb'.lastByteReceived = s.seq
        /\ \A i \in 1..Len(out') : out'[i].ack = Plus(s.seq, 1)
    BY <2>3
  <2>5. ASSUME NEW n \in 0..MaxConns, NEW a \in 2..StreamLen PROVE s.seq # Place(n, a)
    <3>1. 0 \in 0..(StreamLen + 2) /\ a # 0
      BY <1>s
    <3> QED BY <2>2, <3>1, <1>u
  <2>6. s.seq \in SeqNo
    BY <1>t, <2>4
  <2>7. \A n \in 0..MaxConns, a \in 2..StreamLen : Plus(s.seq, 1) # Place(n, 1 + a)
    BY <2>5, <2>6, <1>p
  <2>8. \A a \in 2..StreamLen : tcb'.lastByteReceived # Place(current'.conn, a)
    BY <2>1, <2>2, <2>4, <2>5
  <2> HIDE DEF WholeNow
  <2> QED BY <2>4, <2>7, <2>8, <1>3
<1>5. CASE ~ HandleSyn(s)
  <2> DEFINE c == current.conn
  <2>1. current'.conn = c
    <3>1. current' = [conn |-> current.conn, bytes |-> current'.bytes]
      BY <1>0, <1>5 DEF ServerMove
    <3>2. current'.conn = current.conn
      BY <3>1
    <3> QED BY <3>2
  <2>2. tcb'.remote = tcb.remote
    <3>1. ~ (tcb.status = "CLOSED" /\ tcb'.status = "SYN_RCVD")
      BY <1>0, <1>5, SynOpens
    <3> QED BY <1>0, <3>1, StepShape
  <2>3. /\ \/ tcb'.lastByteReceived = tcb.lastByteReceived
           \/ /\ Matches(s) /\ "RST" \notin s.flags /\ tcb.status = "SYN_RCVD"
              /\ "ACK" \in s.flags /\ s.ack = tcb.lastByteSent
              /\ tcb'.lastByteReceived = s.seq
           \/ /\ Matches(s) /\ "RST" \notin s.flags /\ NewData(tcb, s) > 0
              /\ tcb'.lastByteReceived = LastByte(s)
              /\ \/ tcb.status = "FIN_WAIT1"
                 \/ s.len # 0 => dataIn' # 0
        /\ tcb'.status = "FIN_WAIT1" => tcb.status = "FIN_WAIT1" \/ (s.get /\ dataIn' # 0)
    BY <1>0, <1>5, DataShape
  <2>4. ASSUME tcb.status # "CLOSED"
        PROVE  \E j \in 0..(StreamLen + 2) : tcb.lastByteReceived = Place(c, j)
    BY <2>4 DEF DataInv
  <2>5. ASSUME Matches(s), "RST" \notin s.flags, NewData(tcb, s) > 0
        PROVE  /\ s.src = tcb.remote /\ s.conn = c
               /\ \E m \in 0..(StreamLen + 2) : LastByte(s) = Place(c, m)
               /\ ~ (s.len = 0 /\ "FIN" \notin s.flags)
    <3>1. s.src = tcb.remote /\ tcb.status # "CLOSED"
      BY <2>5 DEF Matches, Listening
    <3>2. PICK j \in 0..(StreamLen + 2) : tcb.lastByteReceived = Place(c, j)
      BY <2>4, <3>1
    <3>3. s.conn = c /\ \E m \in 0..(StreamLen + 2) : LastByte(s) = Place(c, m)
      BY <1>0, <2>5, <3>2, NewDataIsOurs
    <3>4. ~ (s.len = 0 /\ "FIN" \notin s.flags)
      BY <1>0, <2>5, <3>2, NothingNew
    <3> QED BY <3>1, <3>3, <3>4
  <2>6. ASSUME Matches(s), "RST" \notin s.flags, tcb.status = "SYN_RCVD",
               "ACK" \in s.flags, s.ack = tcb.lastByteSent
        PROVE  s.conn = c
    BY <2>6 DEF DataInv, OpenerKnown
  <2>7. ASSUME NEW a \in 2..StreamLen, tcb'.lastByteReceived = Place(c, a)
        PROVE  WholeNow(tcb.remote, c)
    <3>1. CASE tcb'.lastByteReceived = tcb.lastByteReceived
      <4>1. Whole(tcb.remote, c)
        BY <2>7, <3>1 DEF ReadInv
      <4> QED BY <4>1, <1>w
    <3>2. CASE /\ Matches(s) /\ "RST" \notin s.flags /\ tcb.status = "SYN_RCVD"
               /\ "ACK" \in s.flags /\ s.ack = tcb.lastByteSent
               /\ tcb'.lastByteReceived = s.seq
      <4>1. s.conn = c
        BY <2>6, <3>2
      <4>2. s.flags \in {{"ACK"}, {"FIN", "ACK"}}
        BY <1>0, <3>2 DEF FromClients
      <4>3. s.seq \in {Place(c, 1), Place(c, StreamLen + 1), Place(c, StreamLen + 2)}
        BY <1>0, <4>1, <4>2 DEF Packed
      <4>4. PICK j \in {1, StreamLen + 1, StreamLen + 2} : s.seq = Place(c, j)
        BY <4>3
      <4>5. j \in 0..(StreamLen + 2) /\ j # a
        BY <1>s
      <4> QED BY <2>7, <3>2, <4>4, <4>5, <1>0, <1>u
    <3>3. CASE /\ Matches(s) /\ "RST" \notin s.flags /\ NewData(tcb, s) > 0
               /\ tcb'.lastByteReceived = LastByte(s)
               /\ \/ tcb.status = "FIN_WAIT1"
                  \/ s.len # 0 => dataIn' # 0
      <4>1. s.src = tcb.remote /\ s.conn = c /\ ~ (s.len = 0 /\ "FIN" \notin s.flags)
        BY <2>5, <3>3
      <4>2. CASE tcb.status = "FIN_WAIT1"
        <5>1. Whole(tcb.remote, c)
          BY <4>2 DEF ReadInv
        <5> QED BY <5>1, <1>w
      <4>3. CASE s.len # 0 /\ dataIn' # 0
        BY <4>1, <4>3, <1>h
      <4>4. CASE s.len = 0
        <5>1. "FIN" \in s.flags /\ s.flags \in {{"SYN"}, {"ACK"}, {"FIN", "ACK"}, {"RST"}}
          BY <4>1, <4>4, <1>0 DEF FromClients
        <5>2. s.flags = {"FIN", "ACK"}
          BY <5>1
        <5>3. s.seq = Place(c, StreamLen + 1)
          BY <4>1, <4>4, <5>2, <1>0 DEF Packed
        <5>4. LastByte(s) = Plus(s.seq, 0)
          <6>1. s.len - 1 + (IF "FIN" \in s.flags THEN 1 ELSE 0) = 0
            BY <4>4, <5>1
          <6> QED BY <6>1 DEF LastByte, Fin
        <5>5. LastByte(s) = s.seq
          BY <5>4, <1>0, PlusZero DEF FromClients
        <5>6. StreamLen + 1 \in 0..(StreamLen + 2) /\ StreamLen + 1 # a
          BY <1>s
        <5>7. Place(c, StreamLen + 1) = Place(c, a)
          BY <2>7, <3>3, <5>3, <5>5
        <5>8. c \in 0..MaxConns
          BY <1>0
        <5> QED BY <5>6, <5>7, <5>8, <1>u
      <4> QED BY <3>3, <4>2, <4>3, <4>4
    <3> QED BY <2>3, <3>1, <3>2, <3>3
  <2>8. ASSUME tcb.status # "CLOSED"
        PROVE  \E j \in 0..(StreamLen + 2) : tcb'.lastByteReceived = Place(c, j)
    <3>1. CASE tcb'.lastByteReceived = tcb.lastByteReceived
      BY <2>4, <2>8, <3>1
    <3>2. CASE /\ Matches(s) /\ "RST" \notin s.flags /\ tcb.status = "SYN_RCVD"
               /\ "ACK" \in s.flags /\ s.ack = tcb.lastByteSent
               /\ tcb'.lastByteReceived = s.seq
      <4>1. s.conn = c
        BY <2>6, <3>2
      <4>2. \E j \in 0..(StreamLen + 2) : s.seq = Place(s.conn, j)
        BY <1>0, <3>2 DEF FromClients
      <4> QED BY <3>2, <4>1, <4>2
    <3>3. CASE /\ Matches(s) /\ "RST" \notin s.flags /\ NewData(tcb, s) > 0
               /\ tcb'.lastByteReceived = LastByte(s)
      BY <2>5, <3>3
    <3> QED BY <2>3, <3>1, <3>2, <3>3
  <2>9. ASSUME tcb'.status = "FIN_WAIT1" PROVE WholeNow(tcb.remote, c)
    <3>1. CASE tcb.status = "FIN_WAIT1"
      <4>1. Whole(tcb.remote, c)
        BY <3>1 DEF ReadInv
      <4> QED BY <4>1, <1>w
    <3>2. CASE s.get /\ dataIn' # 0
      <4>1. Matches(s) /\ "RST" \notin s.flags /\ NewData(tcb, s) > 0
        BY <3>2, <1>0, <1>5, CounterShape
      <4>2. s.src = tcb.remote /\ s.conn = c
        BY <4>1, <2>5
      <4>3. s.len # 0
        BY <3>2, <1>0 DEF Packed
      <4> QED BY <3>2, <4>2, <4>3, <1>h
    <3> QED BY <2>3, <2>9, <3>1, <3>2
  <2>10. ASSUME NEW i \in 1..Len(out'), "RST" \notin out'[i].flags, NEW n \in 0..MaxConns,
                NEW a \in 2..StreamLen, out'[i].ack = Place(n, 1 + a)
         PROVE  WholeNow(out'[i].dst, n)
    <3>1. /\ tcb.status # "CLOSED" /\ out'[i].dst = tcb.remote
          /\ out'[i].ack = Plus(tcb'.lastByteReceived, 1)
      BY <2>10, <1>0, <1>5, AckShape
    <3> DEFINE x == tcb'.lastByteReceived
    <3>2. x \in SeqNo /\ Plus(x, 1) = Place(n, 1 + a)
      BY <1>t, <2>10, <3>1
    <3>3. PICK j \in 0..(StreamLen + 2) : x = Place(c, j)
      BY <2>8, <3>1
    <3> HIDE DEF x
    <3>4. x = Place(n, a)
      BY <3>2, <1>p
    <3>5. c = n
      <4>1. c \in 0..MaxConns /\ Place(c, j) = Place(n, a)
        BY <3>3, <3>4, <1>0
      <4> HIDE DEF c
      <4> QED BY <4>1, <1>u
    <3> QED BY <3>1, <3>4, <3>5, <2>7 DEF x
  <2> HIDE DEF WholeNow
  <2> QED BY <2>1, <2>2, <2>7, <2>9, <2>10, <1>3
<1> QED BY <1>4, <1>5

-----------------------------------------------------------------------------
(***************************************************************************)
(* handleTCP acknowledges no more than one byte that sendHTML was not      *)
(* given, for any number of clients whose requests are one segment each,   *)
(* whatever is lost, delayed, reordered or duplicated and however often a  *)
(* client connects.  The hypotheses on the sequence numbers are those of   *)
(* StaleDataIsRejected.                                                    *)
(***************************************************************************)
THEOREM AckedIsReadButOne ==
  ASSUME NEW K \in Nat, LeapsFit(K), StretchesFit, OneSegment
  PROVE  SysSpec => []AckedButOneIsHanded
<1> DEFINE IInv == SysTyped /\ AckInv(K) /\ DataInv /\ ReadInv
<1>1. SysInit => IInv
  <2> SUFFICES ASSUME SysInit PROVE IInv
    OBVIOUS
  <2>1. DataInv
    BY DEF SysInit, Init, DataInv, OpenerKnown, NoStaleData
  <2>2. SysTyped /\ AckInv(K)
    BY SysTypedInit, AckInvInit
  <2>3. StreamLen \in Nat /\ StreamLen >= 2 /\ 0 \in 0..MaxConns
    BY StreamAssumption, BoundsAssumption DEF OneSegment
  <2>4. \A p \in Clients : Polite(p)
    BY <2>3 DEF SysInit, Polite
  <2>5. \A a \in 2..StreamLen : tcb.lastByteReceived # Place(current.conn, a)
    <3> SUFFICES ASSUME NEW a \in 2..StreamLen PROVE 0 # Place(0, a)
      BY DEF SysInit, Init
    <3>1. Place(0, 0) = 0
      <4>1. 0 * IssStep + 0 = 0 /\ 0 + 0 = 0
        BY BoundsAssumption
      <4>2. Plus(0, 0) = 0
        BY PlusZero, SeqNoInt
      <4> QED BY <4>1, <4>2 DEF Place
    <3>2. 0 \in (-1)..(StreamLen + 2) /\ a \in (-1)..(StreamLen + 2) /\ a # 0
      BY <2>3
    <3> QED BY <2>3, <3>1, <3>2, PlaceUnique
  <2>6. ReadInv
    BY <2>4, <2>5 DEF SysInit, Init, ReadInv
  <2> QED BY <2>1, <2>2, <2>6
<1>2. IInv /\ [SysNext]_sysVars => IInv'
  <2> SUFFICES ASSUME IInv, [SysNext]_sysVars PROVE IInv'
    OBVIOUS
  <2>1. SysTyped' /\ AckInv(K)' /\ DataInv'
    BY SysTypedStep, AckInvStep, DataInvStep
  <2>2. CASE Thinned
    <3>1. ReadInv'
      BY <2>2 DEF Thinned, serverVars, ReadInv, Packed, Polite, Honest, Whole, Place
    <3> QED BY <2>1, <3>1
  <2>3. CASE \/ \E s \in toServer : ServerReceive(s)
             \/ \E p \in Clients : PeerStep(p)
    BY <2>1, <2>3, ReadByPeer, ReadByServer
  <2> QED BY <2>2, <2>3, NetworkShape DEF SysNext
<1>3. IInv => AckedButOneIsHanded
  <2> SUFFICES ASSUME IInv, NEW p \in Clients, NEW i \in 0..(StreamLen - 1), i < client[p].una - 1
               PROVE  <<p, client[p].conn, i>> \in handed
    BY DEF AckedButOneIsHanded, Given
  <2>1. client[p].una \in Int /\ StreamLen \in Nat
    BY StreamAssumption DEF SysTyped, Client
  <2>2. client[p].una >= 2
    BY <2>1
  <2>3. Whole(p, client[p].conn)
    BY <2>2 DEF ReadInv, Polite
  <2> QED BY <2>3 DEF Whole
<1> QED
  BY <1>1, <1>2, <1>3, PTL DEF SysSpec

-----------------------------------------------------------------------------
(***************************************************************************)
(* Pages: what a client may conclude from the data and the FIN it has got. *)
(***************************************************************************)

(***************************************************************************)
(* The connections that the server has had, in order: g[k] says with whom, *)
(* of which of the client's connections, at which number the bytes to the  *)
(* client begin (counted on beyond M), and how many there are.  The state  *)
(* keeps no such record; the invariant says that there is one.             *)
(***************************************************************************)
Conn == [peer : Clients, conn : 0..MaxConns, first : Nat, page : Nat]

Disjoint(g) == \A k, l \in 1..opens : k < l => g[k].first + g[k].page + 2 <= g[l].first

Bounded(g, K) == opens > 0 => g[opens].first + 2 <= g[1].first + (2 * opens - 1) * K

PagesRead(g) ==
  \A k \in 1..opens : g[k].page # 0 =>
    g[k].page \in RespLens /\ <<g[k].peer, g[k].conn, 0>> \in handed

Latest(g) ==
  opens > 0 => /\ tcb.remote = g[opens].peer /\ current.conn = g[opens].conn
               /\ tcb.lastByteSent = Plus(0, g[opens].first + g[opens].page)
               /\ answers = 0 => g[opens].page = 0

ServedPages(g) ==
  \A p, b : <<p, b>> \in served <=>
    \E k \in 1..opens : g[k].page # 0 /\ p = g[k].peer /\ b = Plus(0, g[k].first)

Log(g, K) ==
  /\ g \in [1..opens -> Conn]
  /\ Disjoint(g) /\ Bounded(g, K) /\ PagesRead(g) /\ Latest(g) /\ ServedPages(g)

(* Segment r is one of connection c *)
Belongs(r, c) ==
  /\ r.dst = c.peer
  /\ \/ r.flags = {"SYN", "ACK"} /\ r.seq = Plus(0, c.first - 1) /\ r.ack = Place(c.conn, 1)
     \/ /\ "SYN" \notin r.flags
        /\ \E k \in 0..c.page : /\ r.seq = Plus(0, c.first + k) /\ k + r.len <= c.page
                                /\ "FIN" \in r.flags => k = c.page

(* A connection that the server has ended sends no more *)
Ended(k) == k = opens => finOut > 0

Eof(p) == IF client[p].eof THEN 1 ELSE 0

(* Client p has taken the first bytes of connection c *)
Taken(p, c) ==
  /\ p = c.peer /\ client[p].conn = c.conn /\ client[p].got <= c.page
  /\ client[p].rcv = Plus(0, c.first + (client[p].got + Eof(p)))
  /\ client[p].eof => client[p].got = c.page

SegmentsOf(g) ==
  \A r \in toPeers : "RST" \notin r.flags =>
    \E k \in 1..opens : Belongs(r, g[k]) /\ ("FIN" \in r.flags => Ended(k))

ClientsOf(g) ==
  \A p \in Clients : client[p].st = "OPEN" =>
    \E k \in 1..opens : Taken(p, g[k]) /\ (client[p].eof => Ended(k))

(* A segment with a GET brings the first byte of a request *)
GetsFirst == \A s \in toServer : s.get => s.from = 0 /\ s.len > 0

Waiting == \A p \in Clients : client[p].st = "SYN_SENT" => client[p].got = 0 /\ ~ client[p].eof

PageInv(K) ==
  /\ FinMatchesStatus /\ GetsFirst /\ Waiting
  /\ \E g : Log(g, K) /\ SegmentsOf(g) /\ ClientsOf(g)
-----------------------------------------------------------------------------
(* Numbers less than M apart that are the same modulo M are the same *)
LEMMA WrapUnique ==
  ASSUME NEW a \in Int, NEW b \in Int, a - b < M, b - a < M, Plus(0, a) = Plus(0, b)
  PROVE  a = b
<1> DEFINE r == a % M
           c == a \div M
           d == b \div M
<1>1. M \in Nat \ {0}
  BY ModulusAssumption
<1>2. a % M = b % M
  BY DEF Plus
<1>3. c \in Int /\ d \in Int /\ r \in Int /\ a = c * M + r /\ b = d * M + r
  BY <1>1, <1>2
<1> HIDE DEF r, c, d
<1>4. /\ c - d \in Int /\ d - c \in Int /\ a - b = (c - d) * M /\ b - a = (d - c) * M
  BY <1>1, <1>3
<1>5. ~ (c - d >= 1)
  BY <1>1, <1>4, MultipleAtLeast
<1>6. ~ (d - c >= 1)
  BY <1>1, <1>4, MultipleAtLeast
<1>7. c = d
  BY <1>3, <1>5, <1>6
<1> QED BY <1>3, <1>7

(* What one connection is within the log *)
LEMMA LogType ==
  ASSUME NEW K, NEW g, Log(g, K), opens \in Nat, NEW k \in 1..opens
  PROVE  /\ g[k].first \in Nat /\ g[k].page \in Nat /\ g[k].peer \in Clients
         /\ g[k].conn \in 0..MaxConns /\ k \in Nat /\ 1 \in 1..opens /\ opens \in 1..opens
<1>1. g[k] \in Conn
  BY DEF Log
<1> QED BY <1>1 DEF Conn

(* All numbers of all connections lie within less than M *)
LEMMA LogSpan ==
  ASSUME NEW K \in Nat, LeapsFit(K), opens \in 0..MaxOpens, NEW g, Log(g, K),
         NEW k \in 1..opens, NEW l \in 1..opens
  PROVE  (g[l].first + g[l].page + 1) - g[k].first < M
<1>o. opens \in Nat /\ MaxOpens \in Nat /\ opens > 0
  BY BoundsAssumption
<1>t. /\ g[k].first \in Nat /\ g[l].first \in Nat /\ g[l].page \in Nat
      /\ g[1].first \in Nat /\ g[opens].first \in Nat /\ g[opens].page \in Nat
      /\ g[1].page \in Nat /\ g[k].page \in Nat /\ k \in Nat /\ l \in Nat
      /\ 1 \in 1..opens /\ opens \in 1..opens
  <2>1. 1 \in 1..opens /\ opens \in 1..opens
    BY <1>o
  <2> QED BY <1>o, <2>1, LogType
<1>1. g[1].first <= g[k].first
  <2>1. CASE k = 1
    BY <2>1, <1>t
  <2>2. CASE 1 < k
    BY <2>2, <1>t DEF Log, Disjoint
  <2> QED BY <2>1, <2>2, <1>t
<1>2. g[l].first + g[l].page <= g[opens].first + g[opens].page
  <2>1. CASE l = opens
    BY <2>1, <1>t
  <2>2. CASE l < opens
    BY <2>2, <1>t DEF Log, Disjoint
  <2> QED BY <2>1, <2>2, <1>t, <1>o
<1>3. g[opens].page + 1 <= K
  <2>1. CASE g[opens].page # 0
    BY <2>1, <1>t DEF Log, PagesRead, LeapsFit
  <2>2. CASE g[opens].page = 0
    BY <2>2, KPositive
  <2> QED BY <2>1, <2>2
<1>4. /\ (2 * opens - 1) * K \in Int /\ (2 * opens - 1) * K + K <= (2 * MaxOpens) * K
      /\ (2 * MaxOpens) * K \in Int
  <2>1. /\ 2 * opens - 1 \in Int /\ 2 * MaxOpens \in Int
        /\ (2 * opens - 1) + 1 <= 2 * MaxOpens
    BY <1>o
  <2> QED BY <2>1, <1>o, ProductMonotonic
<1>5. g[opens].first + 2 <= g[1].first + (2 * opens - 1) * K
  BY <1>o DEF Log, Bounded
<1>6. (2 * MaxOpens) * K < M \div 2 /\ M \div 2 <= M /\ M \div 2 \in Int /\ M \in Int
  BY ModulusAssumption DEF LeapsFit
<1> DEFINE A == (2 * opens - 1) * K
           B == (2 * MaxOpens) * K
<1>7. A \in Int /\ B \in Int /\ A + K <= B /\ B < M \div 2 /\ g[opens].first + 2 <= g[1].first + A
  BY <1>4, <1>5, <1>6
<1> HIDE DEF A, B
<1> QED BY <1>t, <1>1, <1>2, <1>3, <1>6, <1>7

(***************************************************************************)
(* A number that a client waits for on one connection is that of a byte or *)
(* FIN of the same connection, if of any.                                  *)
(***************************************************************************)
LEMMA SameConnOf ==
  ASSUME NEW K \in Nat, LeapsFit(K), opens \in 0..MaxOpens, NEW g, Log(g, K),
         NEW k \in 1..opens, NEW l \in 1..opens,
         NEW i \in 0..g[k].page, NEW j \in 0..(g[l].page + 1),
         Plus(0, g[k].first + i) = Plus(0, g[l].first + j)
  PROVE  k = l /\ i = j
<1>o. opens \in Nat
  BY BoundsAssumption
<1>t. /\ g[k].first \in Nat /\ g[l].first \in Nat /\ g[l].page \in Nat /\ g[k].page \in Nat
      /\ k \in Nat /\ l \in Nat
  BY <1>o, LogType
<1>i. i \in Nat /\ j \in Nat /\ i <= g[k].page /\ j <= g[l].page + 1
  BY <1>t
<1>1. (g[k].first + g[k].page + 1) - g[l].first < M /\ (g[l].first + g[l].page + 1) - g[k].first < M
  BY LogSpan
<1>2. g[k].first + i = g[l].first + j
  <2> DEFINE a == g[k].first + i
             b == g[l].first + j
  <2>1. a \in Int /\ b \in Int /\ a - b < M /\ b - a < M
    BY <1>t, <1>i, <1>1, ModulusAssumption
  <2> HIDE DEF a, b
  <2>2. Plus(0, a) = Plus(0, b)
    BY DEF a, b
  <2>3. a = b
    BY <2>1, <2>2, WrapUnique
  <2> QED BY <2>3 DEF a, b
<1>3. ~ (k < l)
  <2> SUFFICES ASSUME k < l PROVE FALSE
    OBVIOUS
  <2>1. g[k].first + g[k].page + 2 <= g[l].first
    BY DEF Log, Disjoint
  <2> QED BY <2>1, <1>2, <1>t, <1>i
<1>4. ~ (l < k)
  <2> SUFFICES ASSUME l < k PROVE FALSE
    OBVIOUS
  <2>1. g[l].first + g[l].page + 2 <= g[k].first
    BY DEF Log, Disjoint
  <2> QED BY <2>1, <1>2, <1>t, <1>i
<1>5. k = l
  BY <1>3, <1>4, <1>t
<1> QED BY <1>2, <1>5, <1>t, <1>i

-----------------------------------------------------------------------------
(***************************************************************************)
(* What a step of client p does to what it has got: an open connection     *)
(* takes at most the bytes of one segment that begins where it is, and a   *)
(* connection opens with nothing got, behind the SYN ACK that opens it.    *)
(***************************************************************************)
TakesSegment(p, r) ==
  /\ r.dst = p /\ "RST" \notin r.flags /\ "SYN" \notin r.flags /\ r.seq = client[p].rcv
  /\ client'[p].rcv = Plus(client[p].rcv, r.len + FinOf(r))
  /\ client'[p].got = client[p].got + r.len
  /\ client'[p].eof <=> client[p].eof \/ "FIN" \in r.flags

TakesSynAck(p, r) ==
  /\ r.dst = p /\ r.flags = {"SYN", "ACK"} /\ r.ack = Place(client[p].conn, 1)
  /\ client'[p].rcv = Plus(r.seq, 1)

PeerTakes(p) ==
  /\ \A s \in toServer' : s \in toServer \/ (s.get => s.from = 0 /\ s.len > 0)
  /\ client'[p].st = "SYN_SENT" =>
       \/ client[p].st = "SYN_SENT" /\ client'[p].got = client[p].got
          /\ (client'[p].eof <=> client[p].eof)
       \/ client'[p].got = 0 /\ ~ client'[p].eof
  /\ client'[p].st = "OPEN" =>
       \/ /\ client[p].st = "OPEN" /\ client'[p].rcv = client[p].rcv
          /\ client'[p].got = client[p].got /\ (client'[p].eof <=> client[p].eof)
       \/ client[p].st = "OPEN" /\ \E r \in toPeers : TakesSegment(p, r)
       \/ /\ client[p].st = "SYN_SENT" /\ \E r \in toPeers : TakesSynAck(p, r)
          /\ client'[p].got = client[p].got /\ (client'[p].eof <=> client[p].eof)

LEMMA GetIsFirst ==
  ASSUME NEW p, NEW f, NEW seq, NEW ack, NEW from, NEW len \in Nat,
         FromClient(p, f, seq, ack, from, len).get
  PROVE  /\ FromClient(p, f, seq, ack, from, len).from = 0
         /\ FromClient(p, f, seq, ack, from, len).len > 0
<1> DEFINE s == FromClient(p, f, seq, ack, from, len)
<1>1. s.get = (from = 0 /\ len >= GetLen) /\ s.from = from /\ s.len = len
  BY Zenon DEF FromClient
<1>2. s.get
  OBVIOUS
<1> HIDE DEF s
<1>3. from = 0 /\ len >= GetLen
  BY <1>1, <1>2, Zenon
<1>4. len > 0
  BY <1>3, StreamAssumption
<1>5. s.from = 0 /\ s.len > 0
  BY <1>1, <1>3, <1>4
<1> QED BY <1>5 DEF s

LEMMA PeerTakesShape ==
  ASSUME SysTyped, NEW p \in Clients, PeerStep(p)
  PROVE  PeerTakes(p)
<1> DEFINE c == client[p]
<1>0. /\ client \in [Clients -> Client] /\ c \in Client /\ c.conn \in 0..MaxConns
  BY DEF SysTyped, Client
<1>p. Plus(Iss(p), 1) = Place(c.conn, 1)
  BY <1>0, ClientPlaces
<1>n. StreamLen \in Nat /\ MinSeg \in Nat /\ 0 \in Nat
  BY StreamAssumption
<1>k. ASSUME NEW d, client' = [client EXCEPT ![p] = d]
      PROVE  client'[p] = d
  BY <1>0, <1>k
<1>l. ASSUME NEW f, NEW seq, NEW ack, NEW from, NEW len \in Nat,
             toServer' \subseteq toServer \cup {FromClient(p, f, seq, ack, from, len)}
      PROVE  \A s \in toServer' : s \in toServer \/ (s.get => s.from = 0 /\ s.len > 0)
  BY <1>l, GetIsFirst
<1>1. CASE PeerConnect(p)
  <2> DEFINE d == [st |-> "SYN_SENT", conn |-> c.conn + 1, una |-> 0, nxt |-> 0,
                   fin |-> FALSE, rcv |-> 0, got |-> 0, eof |-> FALSE]
  <2>1. client' = [client EXCEPT ![p] = d] /\ toServer' = toServer
    BY <1>1, <1>0 DEF PeerConnect
  <2>2. d.st = "SYN_SENT" /\ d.got = 0 /\ ~ d.eof
    OBVIOUS
  <2> HIDE DEF d
  <2>3. client'[p] = d
    BY <2>1, <1>k
  <2> QED BY <2>1, <2>2, <2>3 DEF PeerTakes
<1>2. CASE PeerSendSyn(p)
  <2>1. client' = client /\ c.st = "SYN_SENT" /\ toServer' = toServer \cup {FromClient(p, {"SYN"}, Iss(p), 0, 0, 0)}
    BY <1>2 DEF PeerSendSyn, Launch
  <2>2. \A s \in toServer' : s \in toServer \/ (s.get => s.from = 0 /\ s.len > 0)
    BY <2>1, <1>l, <1>n
  <2> QED BY <2>1, <2>2 DEF PeerTakes
<1>3. CASE PeerSendData(p)
  <2>1. PICK from \in {c.una, c.nxt}, len \in MinSeg..StreamLen :
          /\ Launch(FromClient(p, IF c.fin /\ from + len = StreamLen THEN {"FIN", "ACK"} ELSE {"ACK"},
                               At(p, from), c.rcv, from, len))
          /\ client' = [client EXCEPT ![p].nxt = IF from + len > @ THEN from + len ELSE @]
    BY <1>3 DEF PeerSendData
  <2> DEFINE d == [c EXCEPT !.nxt = IF from + len > c.nxt THEN from + len ELSE c.nxt]
  <2>2. client' = [client EXCEPT ![p] = d] /\ c.st = "OPEN" /\ len \in Nat
    <3>1. client' = [client EXCEPT ![p] = d]
      BY <2>1, <1>0 DEF Client
    <3>2. len \in Nat /\ c.st = "OPEN"
      BY <1>3, <1>n DEF PeerSendData
    <3> QED BY <3>1, <3>2
  <2>3. d.st = c.st /\ d.rcv = c.rcv /\ d.got = c.got /\ d.eof = c.eof
    BY <1>0 DEF Client
  <2>4. \A s \in toServer' : s \in toServer \/ (s.get => s.from = 0 /\ s.len > 0)
    BY <2>1, <2>2, <1>l DEF Launch
  <2> HIDE DEF d
  <2>5. client'[p] = d
    BY <2>2, <1>k
  <2> QED BY <2>2, <2>3, <2>4, <2>5 DEF PeerTakes
<1>4. CASE PeerClose(p)
  <2> DEFINE d == [c EXCEPT !.fin = TRUE]
  <2>1. client' = [client EXCEPT ![p] = d] /\ c.st = "OPEN"
        /\ toServer' = toServer \cup {FromClient(p, {"FIN", "ACK"}, At(p, StreamLen), c.rcv, StreamLen, 0)}
    BY <1>4, <1>0 DEF PeerClose, Launch
  <2>2. d.st = c.st /\ d.rcv = c.rcv /\ d.got = c.got /\ d.eof = c.eof
    BY <1>0 DEF Client
  <2>3. \A s \in toServer' : s \in toServer \/ (s.get => s.from = 0 /\ s.len > 0)
    BY <2>1, <1>l, <1>n
  <2> HIDE DEF d
  <2>4. client'[p] = d
    BY <2>1, <1>k
  <2> QED BY <2>1, <2>2, <2>3, <2>4 DEF PeerTakes
<1>5. CASE PeerDone(p) \/ PeerVanish(p)
  <2>1. PICK st \in {"CLOSED", "OFF"} : client' = [client EXCEPT ![p].st = st] /\ toServer' = toServer
    BY <1>5 DEF PeerDone, PeerVanish
  <2> DEFINE d == [c EXCEPT !.st = st]
  <2>2. client' = [client EXCEPT ![p] = d] /\ d.st = st
    BY <2>1, <1>0 DEF Client
  <2> HIDE DEF d
  <2>3. client'[p] = d
    BY <2>2, <1>k
  <2> QED BY <2>1, <2>2, <2>3 DEF PeerTakes
<1>6. ASSUME NEW r \in toPeers, PeerRcvSynAck(p, r) PROVE PeerTakes(p)
  <2> DEFINE d == [c EXCEPT !.st = "OPEN", !.rcv = Plus(r.seq, 1)]
  <2>1. client' = [client EXCEPT ![p] = d]
    BY <1>6, <1>0 DEF PeerRcvSynAck, Client
  <2>2. /\ r.dst = p /\ r.flags = {"SYN", "ACK"} /\ r.ack = Place(c.conn, 1) /\ c.st = "SYN_SENT"
        /\ toServer' = toServer \cup {FromClient(p, {"ACK"}, At(p, 0), Plus(r.seq, 1), 0, 0)}
    BY <1>6, <1>p DEF PeerRcvSynAck, Launch
  <2>3. d.st = "OPEN" /\ d.rcv = Plus(r.seq, 1) /\ d.got = c.got /\ d.eof = c.eof
    BY <1>0 DEF Client
  <2>4. \A s \in toServer' : s \in toServer \/ (s.get => s.from = 0 /\ s.len > 0)
    BY <2>2, <1>l, <1>n
  <2> HIDE DEF d
  <2>5. client'[p] = d
    BY <2>1, <1>k
  <2>6. TakesSynAck(p, r)
    BY <2>2, <2>3, <2>5 DEF TakesSynAck
  <2> QED BY <2>2, <2>3, <2>4, <2>5, <2>6 DEF PeerTakes
<1>7. ASSUME NEW r \in toPeers, PeerReceive(p, r) PROVE PeerTakes(p)
  <2> DEFINE size  == r.len + FinOf(r)
             acked == Diff(r.ack, At(p, 0))
             sent  == c.nxt + (IF c.fin THEN 1 ELSE 0)
             una   == IF acked > c.una /\ acked <= sent THEN acked ELSE c.una
  <2>0. /\ c.st = "OPEN" /\ r.dst = p /\ "RST" \notin r.flags
        /\ \/ /\ r.seq = c.rcv /\ "SYN" \notin r.flags
              /\ client' = [client EXCEPT
                   ![p].una = IF acked > @ /\ acked <= sent THEN acked ELSE @,
                   ![p].rcv = Plus(c.rcv, size),
                   ![p].got = @ + r.len,
                   ![p].eof = @ \/ "FIN" \in r.flags]
              /\ IF size > 0 THEN Launch(PureAck(p, Plus(c.rcv, size))) ELSE UNCHANGED toServer
           \/ /\ Launch(PureAck(p, c.rcv)) /\ UNCHANGED client
    BY <1>7 DEF PeerReceive, FinOf
  <2>1. \A s \in toServer' : s \in toServer \/ (s.get => s.from = 0 /\ s.len > 0)
    <3>1. PICK a : toServer' \subseteq toServer \cup {FromClient(p, {"ACK"}, SndNxt(p), a, 0, 0)}
      <4>1. toServer' \subseteq toServer \cup {PureAck(p, Plus(c.rcv, size))}
            \/ toServer' \subseteq toServer \cup {PureAck(p, c.rcv)}
        BY <2>0 DEF Launch
      <4> QED BY <4>1 DEF PureAck
    <3> QED BY <3>1, <1>l, <1>n
  <2> HIDE DEF size, acked, sent
  <2>2. CASE /\ r.seq = c.rcv /\ "SYN" \notin r.flags
             /\ client' = [client EXCEPT
                   ![p].una = IF acked > @ /\ acked <= sent THEN acked ELSE @,
                   ![p].rcv = Plus(c.rcv, size),
                   ![p].got = @ + r.len,
                   ![p].eof = @ \/ "FIN" \in r.flags]
    <3> DEFINE eof == c.eof \/ "FIN" \in r.flags
               got == c.got + r.len
               rcv == Plus(c.rcv, size)
               d == [c EXCEPT !.una = una, !.rcv = rcv, !.got = got, !.eof = eof]
    <3>1. client' = [client EXCEPT ![p] = d]
      BY <2>2, <1>0 DEF Client
    <3> HIDE DEF eof, got, rcv, una
    <3>2. d.st = c.st /\ d.rcv = rcv /\ d.got = got /\ d.eof = eof
      BY <1>0 DEF Client
    <3> HIDE DEF d
    <3>3. client'[p] = d
      BY <3>1, <1>k
    <3>4. client'[p].eof <=> c.eof \/ "FIN" \in r.flags
      BY <3>2, <3>3 DEF eof
    <3>5. TakesSegment(p, r)
      BY <2>0, <2>2, <3>2, <3>3, <3>4 DEF TakesSegment, got, rcv, size
    <3> QED BY <2>0, <2>1, <3>2, <3>3, <3>5 DEF PeerTakes
  <2>3. CASE UNCHANGED client
    BY <2>0, <2>1, <2>3 DEF PeerTakes
  <2> QED BY <2>0, <2>2, <2>3
<1>8. ASSUME NEW r \in toPeers, PeerRejects(p, r) PROVE PeerTakes(p)
  <2> DEFINE d == [c EXCEPT !.st = IF c.st = "OPEN" THEN "CLOSED" ELSE c.st]
  <2>1. /\ client' = [client EXCEPT ![p] = d] /\ c.st \in {"CLOSED", "SYN_SENT", "OPEN"}
        /\ toServer' = toServer \cup {FromClient(p, {"RST"}, r.ack, 0, 0, 0)}
    BY <1>8, <1>0 DEF PeerRejects, Launch
  <2>2. d.st # "OPEN" /\ (d.st = "SYN_SENT" => c.st = "SYN_SENT") /\ d.got = c.got /\ d.eof = c.eof
    BY <2>1, <1>0 DEF Client
  <2>3. \A s \in toServer' : s \in toServer \/ (s.get => s.from = 0 /\ s.len > 0)
    BY <2>1, <1>l, <1>n
  <2> HIDE DEF d
  <2>4. client'[p] = d
    BY <2>1, <1>k
  <2> QED BY <2>2, <2>3, <2>4 DEF PeerTakes
<1>9. ASSUME NEW r \in toPeers, PeerIgnoresReset(p, r) PROVE PeerTakes(p)
  <2>1. UNCHANGED <<client, toServer>>
    BY <1>9 DEF PeerIgnoresReset
  <2> QED BY <2>1 DEF PeerTakes
<1> QED
  BY <1>1, <1>2, <1>3, <1>4, <1>5, <1>6, <1>7, <1>8, <1>9 DEF PeerStep

(* A number counted on beyond M, counted on *)
LEMMA CountOn ==
  ASSUME NEW a \in Int, NEW n \in Int
  PROVE  Plus(Plus(0, a), n) = Plus(0, a + n)
BY 0 \in Int, PlusPlus

(* Nothing that a client does on its own breaks the invariant *)
LEMMA PageByPeer ==
  ASSUME NEW K \in Nat, LeapsFit(K), StretchesFit, SysTyped, PageInv(K), NEW p \in Clients, PeerStep(p)
  PROVE  PageInv(K)'
<1>1. PeerMove(p) /\ PeerTakes(p)
  BY PeerShape, PeerTakesShape
<1>2. /\ UNCHANGED <<tcb, answers, finOut, opens, handed, current, served>>
      /\ \A q \in Clients \ {p} : client'[q] = client[q]
      /\ toPeers' \subseteq toPeers
  BY <1>1 DEF PeerMove, serverVars
<1>g. PICK g : Log(g, K) /\ SegmentsOf(g) /\ ClientsOf(g)
  BY DEF PageInv
<1>o. opens \in 0..MaxOpens /\ opens \in Nat /\ client \in [Clients -> Client]
  BY BoundsAssumption DEF SysTyped
<1>t. ASSUME NEW k \in 1..opens
      PROVE  /\ g[k].first \in Nat /\ g[k].page \in Nat /\ g[k].conn \in 0..MaxConns
             /\ g[k].first \in Int /\ g[k].page \in Int
  BY <1>o, <1>g, LogType
<1>3. FinMatchesStatus' /\ GetsFirst' /\ Waiting'
  <2>1. FinMatchesStatus'
    BY <1>2 DEF PageInv, FinMatchesStatus
  <2>2. GetsFirst'
    BY <1>1 DEF PageInv, GetsFirst, PeerTakes
  <2>3. Waiting'
    <3> SUFFICES ASSUME NEW q \in Clients, client'[q].st = "SYN_SENT"
                 PROVE  client'[q].got = 0 /\ ~ client'[q].eof
      BY DEF Waiting
    <3>1. CASE q = p
      BY <1>1, <3>1 DEF PeerTakes, PageInv, Waiting
    <3>2. CASE q # p
      BY <1>2, <3>2 DEF PageInv, Waiting
    <3> QED BY <3>1, <3>2
  <2> QED BY <2>1, <2>2, <2>3
<1>4. Log(g, K)'
  BY <1>2, <1>g DEF Log, Disjoint, Bounded, PagesRead, Latest, ServedPages
<1>5. SegmentsOf(g)'
  BY <1>2, <1>g DEF SegmentsOf, Belongs, Ended, Place
<1>s. ASSUME NEW r \in toPeers, "RST" \notin r.flags
      PROVE  /\ r.seq \in SeqNo /\ r.len \in Nat /\ FinOf(r) \in {0, 1}
             /\ \E l \in 1..opens : Belongs(r, g[l]) /\ ("FIN" \in r.flags => Ended(l))
  <2>1. r \in SentSegment
    BY DEF SysTyped
  <2>2. FinOf(r) \in {0, 1}
    BY DEF FinOf
  <2> QED BY <1>g, <1>s, <2>1, <2>2 DEF SegmentsOf, SentSegment
<1>6. ASSUME NEW r \in toPeers, TakesSegment(p, r), client[p].st = "OPEN", client'[p].st = "OPEN"
      PROVE  \E k \in 1..opens : Taken(p, g[k])' /\ (client'[p].eof => Ended(k)')
  <2>1. PICK k \in 1..opens : Taken(p, g[k]) /\ (client[p].eof => Ended(k))
    BY <1>6, <1>g DEF ClientsOf
  <2>2. /\ "RST" \notin r.flags /\ "SYN" \notin r.flags /\ r.seq = client[p].rcv
        /\ client'[p].rcv = Plus(client[p].rcv, r.len + FinOf(r))
        /\ client'[p].got = client[p].got + r.len
        /\ client'[p].eof <=> client[p].eof \/ "FIN" \in r.flags
        /\ client'[p].conn = client[p].conn
    BY <1>1, <1>6 DEF TakesSegment, PeerMove
  <2>3. PICK l \in 1..opens : Belongs(r, g[l]) /\ ("FIN" \in r.flags => Ended(l))
    BY <1>s, <2>2
  <2>4. PICK j \in 0..g[l].page : /\ r.seq = Plus(0, g[l].first + j) /\ j + r.len <= g[l].page
                                  /\ "FIN" \in r.flags => j = g[l].page
    BY <2>2, <2>3 DEF Belongs
  <2> DEFINE i == client[p].got
  <2>5. i \in Nat /\ r.len \in Nat /\ FinOf(r) \in {0, 1} /\ Eof(p) \in {0, 1} /\ j \in Int
    BY <1>o, <1>s, <1>t, <2>2 DEF Client, Eof
  <2>6. /\ p = g[k].peer /\ client[p].conn = g[k].conn /\ i <= g[k].page
        /\ client[p].rcv = Plus(0, g[k].first + (i + Eof(p)))
        /\ client[p].eof => i = g[k].page
    BY <2>1 DEF Taken
  <2> HIDE DEF i
  <2>7. i + Eof(p) \in 0..(g[k].page + 1)
    BY <1>t, <2>5, <2>6
  <2>8. l = k /\ j = i + Eof(p)
    <3> DEFINE m == i + Eof(p)
    <3>1. m \in 0..(g[k].page + 1)
      BY <2>7
    <3>2. Plus(0, g[l].first + j) = Plus(0, g[k].first + m)
      BY <2>2, <2>4, <2>6
    <3> HIDE DEF m
    <3>3. l = k /\ j = m
      BY <1>o, <1>g, <3>1, <3>2, SameConnOf
    <3> QED BY <3>3 DEF m
  <2>9. ~ client[p].eof /\ Eof(p) = 0 /\ j = i
    <3>1. CASE client[p].eof
      BY <2>4, <2>5, <2>6, <2>8, <3>1, <1>t DEF Eof
    <3>2. CASE ~ client[p].eof
      BY <2>5, <2>8, <3>2 DEF Eof
    <3> QED BY <3>1, <3>2
  <2>10. /\ i + r.len <= g[k].page /\ ("FIN" \in r.flags => i + r.len = g[k].page)
    BY <2>4, <2>5, <2>8, <2>9, <1>t
  <2>11. client'[p].rcv = Plus(0, g[k].first + ((i + r.len) + FinOf(r)))
    <3> DEFINE a == g[k].first + i
               n == r.len + FinOf(r)
    <3>1. a \in Int /\ n \in Int /\ a + n = g[k].first + ((i + r.len) + FinOf(r))
      BY <2>5, <1>t
    <3>2. client[p].rcv = Plus(0, a)
      BY <2>4, <2>2, <2>8, <2>9
    <3> HIDE DEF a, n
    <3>3. Plus(Plus(0, a), n) = Plus(0, a + n)
      BY <3>1, CountOn
    <3> QED BY <2>2, <3>1, <3>2, <3>3 DEF n
  <2>12. (IF client'[p].eof THEN 1 ELSE 0) = FinOf(r)
    BY <2>2, <2>9 DEF FinOf
  <2>13. Taken(p, g[k])'
    BY <2>2, <2>6, <2>9, <2>10, <2>11, <2>12 DEF Taken, Eof, i
  <2>14. client'[p].eof => Ended(k)'
    BY <1>2, <2>2, <2>3, <2>8, <2>9 DEF Ended
  <2> QED BY <2>13, <2>14
<1>7. ASSUME NEW r \in toPeers, TakesSynAck(p, r), client[p].st = "SYN_SENT", client'[p].st = "OPEN",
             client'[p].got = client[p].got, client'[p].eof <=> client[p].eof
      PROVE  \E k \in 1..opens : Taken(p, g[k])' /\ (client'[p].eof => Ended(k)')
  <2>1. client'[p].got = 0 /\ ~ client'[p].eof
    BY <1>7 DEF PageInv, Waiting
  <2>2. /\ r.dst = p /\ r.flags = {"SYN", "ACK"} /\ r.ack = Place(client[p].conn, 1)
        /\ client'[p].rcv = Plus(r.seq, 1) /\ client'[p].conn = client[p].conn
        /\ "RST" \notin r.flags /\ "SYN" \in r.flags
    BY <1>1, <1>7 DEF TakesSynAck, PeerMove
  <2>3. PICK l \in 1..opens : Belongs(r, g[l])
    BY <1>s, <2>2
  <2>4. p = g[l].peer /\ r.seq = Plus(0, g[l].first - 1) /\ r.ack = Place(g[l].conn, 1)
    BY <2>2, <2>3 DEF Belongs
  <2>5. client[p].conn \in 0..MaxConns
    BY <1>o DEF Client
  <2>6. client[p].conn = g[l].conn
    <3>1. Place(client[p].conn, 1) = Place(g[l].conn, 1) /\ g[l].conn \in 0..MaxConns
      BY <2>2, <2>4, <1>t
    <3> QED BY <2>5, <3>1, ConnUnique
  <2>7. client'[p].rcv = Plus(0, g[l].first)
    <3> DEFINE a == g[l].first - 1
    <3>1. a \in Int /\ 1 \in Int /\ a + 1 = g[l].first
      BY <1>t
    <3>2. r.seq = Plus(0, a)
      BY <2>4
    <3> HIDE DEF a
    <3> QED BY <2>2, <3>1, <3>2, CountOn
  <2>8. g[l].first + (0 + 0) = g[l].first /\ 0 <= g[l].page
    BY <1>t
  <2>9. Taken(p, g[l])'
    BY <2>1, <2>2, <2>4, <2>6, <2>7, <2>8 DEF Taken, Eof
  <2> QED BY <2>1, <2>9
<1>8. ClientsOf(g)'
  <2> SUFFICES ASSUME NEW q \in Clients, client'[q].st = "OPEN"
               PROVE  \E k \in 1..opens : Taken(q, g[k])' /\ (client'[q].eof => Ended(k)')
    BY <1>2 DEF ClientsOf, Taken, Ended, Eof
  <2>1. CASE q # p
    BY <1>2, <1>g, <2>1 DEF ClientsOf, Taken, Ended, Eof
  <2>2. CASE q = p
    <3>1. CASE /\ client[p].st = "OPEN" /\ client'[p].rcv = client[p].rcv
               /\ client'[p].got = client[p].got /\ (client'[p].eof <=> client[p].eof)
      <4>1. PICK k \in 1..opens : Taken(p, g[k]) /\ (client[p].eof => Ended(k))
        BY <3>1, <1>g DEF ClientsOf
      <4>2. client'[p].conn = client[p].conn
        BY <1>1, <2>2 DEF PeerMove
      <4>3. Taken(p, g[k])'
        BY <3>1, <4>1, <4>2 DEF Taken, Eof
      <4>4. client'[p].eof => Ended(k)'
        BY <1>2, <3>1, <4>1 DEF Ended
      <4> QED BY <2>2, <4>3, <4>4
    <3> QED BY <1>1, <1>6, <1>7, <2>2, <3>1 DEF PeerTakes
  <2> QED BY <2>1, <2>2
<1> QED
  BY <1>3, <1>4, <1>5, <1>8 DEF PageInv

-----------------------------------------------------------------------------
(* sendHTML answers only what it is given, and only a GET *)
LEMMA AnswersGet ==
  ASSUME TypeOK, NEW s, IsSegment(s), handleTCP(s), answers' = answers + 1, ~ HandleSyn(s)
  PROVE  s.get /\ dataIn' # 0 /\ Matches(s) /\ "RST" \notin s.flags
<1>0. answers \in Nat
  BY DEF TypeOK
<1>1. CASE HandleEstablishedData(s)
  <2>1. PICK page \in RespLens :
          /\ dataIn' = NewData(tcb, s)
          /\ answers' = answers + (IF sendHTML(s, NewData(tcb, s)) THEN 1 ELSE 0)
    BY <1>1 DEF HandleEstablishedData
  <2>2. sendHTML(s, NewData(tcb, s))
    BY <2>1, <1>0
  <2> QED BY <1>1, <2>1, <2>2 DEF sendHTML, HandleEstablishedData
<1>2. answers' # answers
  BY <1>0
<1> QED
  BY <1>1, <1>2 DEF handleTCP, HandleInvalid, HandleClosed, HandleBusy, HandleStranger, HandleReset,
    HandleSynRcvd, HandleEstablishedIdle, HandleFinWait1, HandleFinWait2, HandleLastAck, SameConnection

(***************************************************************************)
(* What the server sends in a step of an open connection: n bytes of a     *)
(* page, if any, from lastByteSent on, and a FIN only behind them.         *)
(***************************************************************************)
Sends(s, n) ==
  /\ tcb'.remote = tcb.remote /\ tcb'.lastByteSent = Plus(tcb.lastByteSent, n)
  /\ \/ n = 0 /\ answers' = answers
     \/ n \in RespLens /\ tcb.status = "ESTABLISHED" /\ answers' = answers + 1 /\ finOut' > 0
  /\ \A i \in 1..Len(out') : "RST" \notin out'[i].flags =>
       /\ tcb.status # "CLOSED" /\ out'[i].dst = tcb.remote /\ "SYN" \notin out'[i].flags
       /\ \E k \in 0..n : /\ out'[i].seq = Plus(tcb.lastByteSent, k) /\ k + out'[i].len <= n
                          /\ "FIN" \in out'[i].flags => k = n /\ finOut' > 0

LEMMA ServerSends ==
  ASSUME TypeOK, NEW s, IsSegment(s), handleTCP(s), ~ HandleSyn(s)
  PROVE  \E n \in Nat : Sends(s, n)
<1>0. Plus(tcb.lastByteSent, 0) = tcb.lastByteSent
  BY PlusZero DEF TypeOK, TCBType
<1>1. CASE /\ out' = <<>> /\ tcb'.lastByteSent = tcb.lastByteSent
           /\ tcb'.remote = tcb.remote /\ UNCHANGED <<answers, finOut>>
  BY <1>0, <1>1 DEF Sends
<1>2. CASE HandleBusy(s)
  <2>1. /\ tcb' = tcb /\ answers' = answers /\ out' = TCP_RST(s.src, Plus(s.seq, 1))
    BY <1>2 DEF HandleBusy, SameConnection
  <2> QED BY <1>0, <2>1 DEF Sends, TCP_RST
<1>3. ASSUME Matches(s), NEW n \in Nat, Launched(n) PROVE Sends(s, n)
  <2>1. tcb.status # "CLOSED"
    BY <1>3 DEF Matches, Listening
  <2> QED BY <1>3, <2>1 DEF Launched, Stream, NoFin, Sends
<1> QED BY <1>1, <1>2, <1>3, OutShape

(* FIN and page as the status says, as in OneAnswerPerConnection *)
LEMMA FinStep ==
  ASSUME TypeOK, FinMatchesStatus, NEW s, IsSegment(s), handleTCP(s)
  PROVE  FinMatchesStatus' /\ (~ HandleSyn(s) => finOut' >= finOut)
<1>1. answers \in Nat /\ finOut \in Nat
  BY DEF TypeOK
<1>2. FinMatchesStatus'
  BY <1>1, StepShape DEF FinMatchesStatus
<1>3. HandleSyn(s) <=> tcb.status = "CLOSED" /\ tcb'.status = "SYN_RCVD"
  BY SynOpens
<1> QED BY <1>1, <1>2, <1>3, StepShape

(* The numbers of a new connection begin behind all of the one before, but not far *)
LEMMA NewFirst ==
  ASSUME NEW K \in Nat, LeapsFit(K), SysTyped, NEW g, Log(g, K),
         NEW s \in toServer, ServerReceive(s), HandleSyn(s)
  PROVE  \E F \in Nat :
           /\ tcb'.lastByteSent = Plus(0, F) /\ tcb'.remote = s.src /\ answers' = 0
           /\ \A i \in 1..Len(out') :
                /\ out'[i].dst = s.src /\ out'[i].flags = {"SYN", "ACK"}
                /\ out'[i].seq = Plus(0, F - 1) /\ out'[i].ack = Place(s.conn, 1)
           /\ opens > 0 => /\ g[opens].first + g[opens].page + 2 <= F
                           /\ F <= g[opens].first + g[opens].page + K
<1>0. FromClients(s) /\ TypeOK /\ tcb.lastByteSent \in SeqNo /\ tcb.lastByteSent \in Int
  BY ServerShape, TopType DEF SysTyped, TypeOK, TCBType
<1>1. PICK step \in ISNSteps :
        LET isn == NextISN(step)
        IN  /\ tcb' = [status |-> "SYN_RCVD", remote |-> s.src,
                       lastByteSent |-> Plus(isn, 1), lastByteReceived |-> s.seq,
                       lastAckReceived |-> Plus(isn, -1)]
            /\ out' = <<[dst |-> s.src, flags |-> {"SYN", "ACK"}, seq |-> isn,
                         ack |-> Plus(s.seq, 1), len |-> 0]>>
  BY DEF HandleSyn
<1>2. step \in Nat /\ step >= 1 /\ step + 1 <= K /\ step \in Int
  BY ISNStepAssumption DEF LeapsFit
<1> DEFINE isn == NextISN(step)
<1>3. isn \in SeqNo /\ isn \in Int /\ isn = Plus(tcb.lastByteSent, step)
  <2>1. Plus(tcb.lastByteSent, step) \in SeqNo
    BY <1>0, <1>2, PlusType
  <2> QED BY <2>1, SeqNoInt DEF NextISN
<1>4. Plus(s.seq, 1) = Place(s.conn, 1)
  <2>1. 0 \in Int /\ 1 \in Int /\ 0 + 1 = 1 /\ s.conn \in 0..MaxConns /\ s.seq = Place(s.conn, 0)
    BY <1>0 DEF FromClients, HandleSyn
  <2> QED BY <2>1, PlaceType
<1> HIDE DEF isn
<1>5. /\ tcb'.lastByteSent = Plus(isn, 1) /\ tcb'.remote = s.src /\ answers' = 0
      /\ \A i \in 1..Len(out') :
           /\ out'[i].dst = s.src /\ out'[i].flags = {"SYN", "ACK"}
           /\ out'[i].seq = isn /\ out'[i].ack = Place(s.conn, 1)
  BY <1>1, <1>4 DEF HandleSyn, isn
<1>6. CASE opens = 0
  <2> DEFINE F == isn + 1
  <2>1. F \in Nat /\ F - 1 = isn /\ 0 + F = F /\ 0 + isn = isn
    BY <1>3, ModulusAssumption DEF SeqNo
  <2>2. Plus(0, F) = Plus(isn, 1)
    BY <2>1 DEF Plus
  <2>3. Plus(0, F - 1) = isn
    <3>1. Plus(0, F - 1) = Plus(isn, 0)
      BY <2>1, <1>3 DEF Plus
    <3> QED BY <3>1, <1>3, PlusZero
  <2> HIDE DEF F
  <2> QED BY <1>5, <1>6, <2>1, <2>2, <2>3
<1>7. CASE opens # 0
  <2>0. opens \in Nat /\ opens > 0 /\ opens \in 1..opens
    BY <1>7, BoundsAssumption DEF SysTyped
  <2> DEFINE f == g[opens].first
             q == g[opens].page
             F == f + q + step + 1
  <2>1. f \in Nat /\ q \in Nat
    BY <2>0, LogType
  <2>2. tcb.lastByteSent = Plus(0, f + q)
    BY <2>0 DEF Log, Latest
  <2> HIDE DEF f, q
  <2>3. F \in Nat /\ f + q + 2 <= F /\ F <= f + q + K
        /\ f + q \in Int /\ (f + q) + step \in Int /\ ((f + q) + step) + 1 = F /\ F - 1 = (f + q) + step
    BY <1>2, <2>1
  <2> HIDE DEF F
  <2>4. isn = Plus(0, F - 1)
    BY <1>2, <1>3, <2>2, <2>3, CountOn
  <2>5. Plus(isn, 1) = Plus(0, F)
    <3>1. F - 1 \in Int /\ 1 \in Int /\ (F - 1) + 1 = F
      BY <2>3
    <3> QED BY <2>4, <3>1, CountOn
  <2> QED BY <1>5, <2>3, <2>4, <2>5 DEF f, q
<1> QED BY <1>6, <1>7

(* A SYN that opens a connection adds to the log *)
LEMMA PageBySyn ==
  ASSUME NEW K \in Nat, LeapsFit(K), SysTyped,
         NEW g, Log(g, K), SegmentsOf(g), ClientsOf(g),
         NEW s \in toServer, ServerReceive(s), HandleSyn(s)
  PROVE  \E h : (Log(h, K) /\ SegmentsOf(h) /\ ClientsOf(h))'
<1>0. /\ IsSegment(s) /\ FromClients(s) /\ ServerMove(s) /\ answers \in Nat
      /\ opens \in Nat /\ s.src \in Clients /\ s.conn \in 0..MaxConns
  <2>1. IsSegment(s) /\ FromClients(s) /\ ServerMove(s)
    BY ServerShape
  <2>2. answers \in Nat /\ opens \in Nat
    BY BoundsAssumption DEF SysTyped, TypeOK
  <2> QED BY <2>1, <2>2 DEF FromClients
<1>1. PICK F \in Nat :
        /\ tcb'.lastByteSent = Plus(0, F) /\ tcb'.remote = s.src /\ answers' = 0
        /\ \A i \in 1..Len(out') :
             /\ out'[i].dst = s.src /\ out'[i].flags = {"SYN", "ACK"}
             /\ out'[i].seq = Plus(0, F - 1) /\ out'[i].ack = Place(s.conn, 1)
        /\ opens > 0 => /\ g[opens].first + g[opens].page + 2 <= F
                        /\ F <= g[opens].first + g[opens].page + K
  BY NewFirst
<1>2. PICK new : new = [peer |-> s.src, conn |-> s.conn, first |-> F, page |-> 0]
  OBVIOUS
<1>3. PICK h : h = [k \in 1..(opens + 1) |-> IF k <= opens THEN g[k] ELSE new]
  OBVIOUS
<1>4. PICK o \in Nat : o = opens
  BY <1>0
<1>5. /\ new \in Conn /\ new.peer = s.src /\ new.conn = s.conn /\ new.first = F /\ new.page = 0
  BY <1>0, <1>2 DEF Conn
<1>6. /\ opens' = o + 1 /\ current'.conn = s.conn /\ client' = client /\ handed \subseteq handed'
      /\ \A r \in toPeers' : r \in toPeers \/ \E i \in 1..Len(out') : r = out'[i]
      /\ served' = served
  <2>1. opens' = o + 1 /\ current'.conn = s.conn /\ client' = client
        /\ \A r \in toPeers' : r \in toPeers \/ \E i \in 1..Len(out') : r = out'[i]
    BY <1>0, <1>4 DEF ServerMove
  <2>2. handed \subseteq handed' /\ served' = served \cup (IF answers' > answers THEN {<<s.src, tcb.lastByteSent>>} ELSE {})
    BY DEF ServerReceive
  <2>3. ~ (answers' > answers)
    BY <1>0, <1>1
  <2> QED BY <2>1, <2>2, <2>3
<1>7. /\ h \in [1..(o + 1) -> Conn] /\ h[o + 1] = new /\ \A k \in 1..o : h[k] = g[k]
      /\ \A k \in 1..(o + 1) : k \in 1..o \/ k = o + 1
      /\ 1..o \subseteq 1..(o + 1) /\ o + 1 \in 1..(o + 1)
  <2>1. g \in [1..o -> Conn]
    BY <1>4 DEF Log
  <2> QED BY <1>3, <1>4, <1>5, <2>1
<1>t. ASSUME NEW k \in 1..o
      PROVE  g[k].first \in Nat /\ g[k].page \in Nat /\ k \in Nat
  BY <1>4, LogType
<1>8. (Disjoint(h))'
  <2> SUFFICES ASSUME NEW k \in 1..(o + 1), NEW l \in 1..(o + 1), k < l
               PROVE  h[k].first + h[k].page + 2 <= h[l].first
    BY <1>6 DEF Disjoint
  <2>1. k \in 1..o /\ o \in 1..o /\ o > 0
    BY <1>7, <1>4
  <2>2. CASE l \in 1..o
    BY <1>4, <1>7, <2>1, <2>2 DEF Log, Disjoint
  <2>3. CASE l = o + 1
    <3>1. h[l].first = F /\ g[o].first + g[o].page + 2 <= F /\ F \in Nat
      BY <1>1, <1>4, <1>5, <1>7, <2>1, <2>3
    <3>2. CASE k = o
      BY <1>7, <2>1, <3>1, <3>2
    <3>3. CASE k # o
      <4>1. k < o
        BY <2>1, <3>3
      <4>2. g[k].first + g[k].page + 2 <= g[o].first
        BY <1>4, <2>1, <4>1 DEF Log, Disjoint
      <4>3. /\ g[k].first \in Nat /\ g[k].page \in Nat /\ g[o].first \in Nat /\ g[o].page \in Nat
            /\ h[k] = g[k]
        BY <1>7, <2>1, <1>t
      <4> QED BY <3>1, <4>2, <4>3
    <3> QED BY <3>2, <3>3
  <2> QED BY <1>7, <2>2, <2>3
<1>9. (Bounded(h, K))'
  <2> SUFFICES h[o + 1].first + 2 <= h[1].first + (2 * (o + 1) - 1) * K
    BY <1>6 DEF Bounded
  <2>1. K >= 2 /\ h[o + 1].first = F /\ F \in Nat
    BY KPositive, <1>5, <1>7
  <2>2. CASE o = 0
    <3>1. (2 * (o + 1) - 1) = 1 /\ 1 * K = K /\ o + 1 = 1
      BY <2>2
    <3>2. h[o + 1].first = F /\ h[1].first = F
      BY <2>1, <3>1
    <3> QED BY <2>1, <3>1, <3>2
  <2>3. CASE o # 0
    <3>1. 1 \in 1..o /\ o \in 1..o /\ o > 0
      BY <1>4, <2>3
    <3>2. /\ g[o].first + 2 <= g[1].first + (2 * o - 1) * K
          /\ F <= g[o].first + g[o].page + K
      BY <1>1, <1>4, <3>1 DEF Log, Bounded
    <3>3. g[o].page <= K
      <4>1. CASE g[o].page # 0
        <5>1. g[o].page \in RespLens
          BY <1>4, <4>1, <3>1 DEF Log, PagesRead
        <5>2. g[o].page + 1 <= K /\ g[o].page \in Nat
          BY <3>1, <5>1, <1>t DEF LeapsFit
        <5> QED BY <5>2
      <4>2. CASE g[o].page = 0
        BY <4>2
      <4> QED BY <4>1, <4>2
    <3>4. (2 * (o + 1) - 1) * K = ((2 * o - 1) * K + K) + K /\ (2 * o - 1) * K \in Int
      BY <1>4
    <3> DEFINE A == (2 * o - 1) * K
               B == (2 * (o + 1) - 1) * K
    <3>5. A \in Int /\ B = (A + K) + K /\ g[o].first + 2 <= g[1].first + A /\ h[1].first = g[1].first
      BY <3>1, <3>2, <3>4, <1>7
    <3> HIDE DEF A, B
    <3>6. F + 2 <= g[1].first + B
      BY <1>t, <3>1, <3>2, <3>3, <3>5
    <3> QED BY <2>1, <3>5, <3>6 DEF B
  <2> QED BY <2>2, <2>3
<1>10. (PagesRead(h))'
  <2> SUFFICES ASSUME NEW k \in 1..(o + 1), h[k].page # 0
               PROVE  h[k].page \in RespLens /\ <<h[k].peer, h[k].conn, 0>> \in handed'
    BY <1>6 DEF PagesRead
  <2>1. k \in 1..o
    BY <1>5, <1>7
  <2> QED BY <1>4, <1>6, <1>7, <2>1 DEF Log, PagesRead
<1>11. (Latest(h))'
  <2>1. F + 0 = F
    OBVIOUS
  <2> QED BY <1>1, <1>5, <1>6, <1>7, <2>1 DEF Latest
<1>12. (ServedPages(h))'
  <2> SUFFICES ASSUME NEW p, NEW b
               PROVE  <<p, b>> \in served' <=>
                        \E k \in 1..opens' : h[k].page # 0 /\ p = h[k].peer /\ b = Plus(0, h[k].first)
    BY Zenon DEF ServedPages
  <2>1. <<p, b>> \in served <=> \E k \in 1..o : g[k].page # 0 /\ p = g[k].peer /\ b = Plus(0, g[k].first)
    <3>1. ServedPages(g)
      BY DEF Log
    <3>2. <<p, b>> \in served <=> \E k \in 1..opens : g[k].page # 0 /\ p = g[k].peer /\ b = Plus(0, g[k].first)
      BY <3>1 DEF ServedPages
    <3> QED BY <1>4, <3>2
  <2>2. (\E k \in 1..o : g[k].page # 0 /\ p = g[k].peer /\ b = Plus(0, g[k].first))
        <=> \E k \in 1..(o + 1) : h[k].page # 0 /\ p = h[k].peer /\ b = Plus(0, h[k].first)
    BY <1>5, <1>7
  <2> QED BY <1>6, <2>1, <2>2
<1>13. Log(h, K)'
  <2>1. (h \in [1..opens -> Conn])'
    BY <1>6, <1>7
  <2> QED BY <2>1, <1>8, <1>9, <1>10, <1>11, <1>12 DEF Log
<1>14. SegmentsOf(h)'
  <2> SUFFICES ASSUME NEW r \in toPeers', "RST" \notin r.flags
               PROVE  \E k \in 1..(o + 1) : Belongs(r, h[k]) /\ ("FIN" \in r.flags => Ended(k)')
    BY <1>6 DEF SegmentsOf, Belongs, Place
  <2>1. CASE r \in toPeers
    <3>1. PICK k \in 1..o : Belongs(r, g[k])
      BY <1>4, <2>1 DEF SegmentsOf
    <3>2. k # o + 1
      BY <1>4
    <3> QED BY <1>6, <1>7, <3>1, <3>2 DEF Ended
  <2>2. ASSUME NEW i \in 1..Len(out'), r = out'[i]
        PROVE  \E k \in 1..(o + 1) : Belongs(r, h[k]) /\ ("FIN" \in r.flags => Ended(k)')
    <3>1. Belongs(r, new) /\ "FIN" \notin r.flags
      BY <1>1, <1>5, <2>2 DEF Belongs
    <3> QED BY <1>7, <3>1
  <2> QED BY <1>6, <2>1, <2>2
<1>15. ClientsOf(h)'
  <2> SUFFICES ASSUME NEW p \in Clients, client[p].st = "OPEN"
               PROVE  \E k \in 1..(o + 1) : Taken(p, h[k])' /\ (client[p].eof => Ended(k)')
    BY <1>6 DEF ClientsOf
  <2>1. PICK k \in 1..o : Taken(p, g[k])
    BY <1>4 DEF ClientsOf
  <2>2. k # o + 1
    BY <1>4
  <2> QED BY <1>6, <1>7, <2>1, <2>2 DEF Ended, Taken, Eof
<1> QED BY <1>13, <1>14, <1>15

(* What a later segment adds: nothing, or the page of the latest connection *)
LEMMA PageLater ==
  ASSUME NEW K \in Nat, LeapsFit(K), StretchesFit, SysTyped, AckInv(K), DataInv, PageInv(K),
         NEW g, Log(g, K), SegmentsOf(g), ClientsOf(g),
         NEW s \in toServer, ServerReceive(s), ~ HandleSyn(s)
  PROVE  \E h : (Log(h, K) /\ SegmentsOf(h) /\ ClientsOf(h))'
<1>0. /\ IsSegment(s) /\ handleTCP(s) /\ FromClients(s) /\ ServerMove(s) /\ TypeOK
      /\ answers \in Nat /\ finOut \in Nat /\ opens \in Nat
  <2>1. IsSegment(s) /\ handleTCP(s) /\ FromClients(s) /\ ServerMove(s)
    BY ServerShape
  <2>2. answers \in Nat /\ finOut \in Nat /\ opens \in Nat /\ TypeOK
    BY BoundsAssumption DEF SysTyped, TypeOK
  <2> QED BY <2>1, <2>2
<1>n. PICK n \in Nat : Sends(s, n)
  BY <1>0, ServerSends
<1>1. PICK h : h = IF n = 0 THEN g ELSE [g EXCEPT ![opens] = [@ EXCEPT !.page = n]]
  OBVIOUS
<1>2. PICK o \in Nat : o = opens
  BY <1>0
<1>3. /\ tcb'.remote = tcb.remote /\ tcb'.lastByteSent = Plus(tcb.lastByteSent, n)
      /\ \/ n = 0 /\ answers' = answers
         \/ n \in RespLens /\ tcb.status = "ESTABLISHED" /\ answers' = answers + 1 /\ finOut' > 0
      /\ \A i \in 1..Len(out') : "RST" \notin out'[i].flags =>
           /\ tcb.status # "CLOSED" /\ out'[i].dst = tcb.remote /\ "SYN" \notin out'[i].flags
           /\ \E k \in 0..n : /\ out'[i].seq = Plus(tcb.lastByteSent, k) /\ k + out'[i].len <= n
                              /\ "FIN" \in out'[i].flags => k = n /\ finOut' > 0
  BY <1>n DEF Sends
<1>4. finOut' >= finOut /\ (tcb.status # "CLOSED" => o > 0)
  BY <1>0, <1>2, FinStep DEF PageInv, AckInv
<1>5. /\ opens' = o /\ current'.conn = current.conn /\ client' = client
      /\ \A r \in toPeers' : r \in toPeers \/ \E i \in 1..Len(out') : r = out'[i]
  <2>1. current' = [conn |-> current.conn, bytes |-> current'.bytes]
    BY <1>0 DEF ServerMove
  <2>2. current'.conn = current.conn
    BY <2>1
  <2> QED BY <1>0, <1>2, <2>2 DEF ServerMove
<1>6. /\ handed \subseteq handed'
      /\ n # 0 => <<tcb.remote, current.conn, 0>> \in handed'
  <2> DEFINE bytes == IF dataIn' = 0 THEN {}
                      ELSE {<<s.src, s.conn, s.from + i>> : i \in 0..(s.len - 1)}
  <2>1. handed' = handed \cup bytes
    BY DEF ServerReceive
  <2>2. ASSUME n # 0 PROVE <<tcb.remote, current.conn, 0>> \in bytes
    <3>1. s.get /\ dataIn' # 0 /\ Matches(s) /\ "RST" \notin s.flags
      BY <1>0, <1>3, <2>2, AnswersGet
    <3>2. NewData(tcb, s) > 0
      BY <1>0, <3>1, CounterShape
    <3>3. s.src = tcb.remote /\ tcb.status # "CLOSED"
      BY <3>1 DEF Matches, Listening
    <3>4. s.conn = current.conn
      <4>1. PICK j \in 0..(StreamLen + 2) : tcb.lastByteReceived = Place(current.conn, j)
        BY <3>3 DEF DataInv
      <4>2. current.conn \in 0..MaxConns
        BY DEF SysTyped
      <4> QED BY <1>0, <3>1, <3>2, <4>1, <4>2, NewDataIsOurs
    <3>5. s.from = 0 /\ s.len > 0
      BY <3>1 DEF PageInv, GetsFirst
    <3>6. 0 \in 0..(s.len - 1) /\ s.from + 0 = 0
      BY <3>5, <1>0 DEF FromClients
    <3>7. <<s.src, s.conn, s.from + 0>> \in {<<s.src, s.conn, s.from + i>> : i \in 0..(s.len - 1)}
      BY <3>6
    <3> QED BY <3>1, <3>3, <3>4, <3>6, <3>7
  <2> HIDE DEF bytes
  <2> QED BY <2>1, <2>2
<1>7. n # 0 => /\ o > 0 /\ answers = 0 /\ finOut = 0 /\ g[o].page = 0 /\ n \in RespLens
               /\ answers' = 1 /\ finOut' > 0
  <2> SUFFICES ASSUME n # 0
               PROVE  /\ o > 0 /\ answers = 0 /\ finOut = 0 /\ g[o].page = 0 /\ n \in RespLens
                      /\ answers' = 1 /\ finOut' > 0
    OBVIOUS
  <2>1. tcb.status = "ESTABLISHED" /\ n \in RespLens /\ answers' = answers + 1 /\ finOut' > 0
    BY <1>3
  <2>2. finOut = 0 /\ answers = 0 /\ o > 0
    BY <1>4, <2>1 DEF PageInv, FinMatchesStatus
  <2> QED BY <1>2, <2>1, <2>2 DEF Log, Latest
<1>8. /\ h \in [1..o -> Conn]
      /\ \A k \in 1..o : /\ h[k].peer = g[k].peer /\ h[k].conn = g[k].conn
                         /\ h[k].first = g[k].first
                         /\ h[k].page = (IF k = o /\ n # 0 THEN n ELSE g[k].page)
  <2>1. g \in [1..o -> Conn]
    BY <1>2 DEF Log
  <2>2. CASE n = 0
    BY <1>1, <2>1, <2>2
  <2>3. CASE n # 0
    <3>1. o \in 1..o /\ h = [g EXCEPT ![o] = [g[o] EXCEPT !.page = n]]
      BY <1>1, <1>2, <1>7, <2>1, <2>3
    <3>2. PICK d : d = [g[o] EXCEPT !.page = n]
      OBVIOUS
    <3>3. /\ d \in Conn /\ d.peer = g[o].peer /\ d.conn = g[o].conn /\ d.first = g[o].first
          /\ d.page = n
      BY <2>1, <3>1, <3>2 DEF Conn
    <3>4. h \in [1..o -> Conn] /\ h[o] = d /\ \A k \in 1..o : k # o => h[k] = g[k]
      BY <2>1, <3>1, <3>2, <3>3
    <3> QED BY <2>3, <3>3, <3>4
  <2> QED BY <2>2, <2>3
<1>t. ASSUME NEW k \in 1..o
      PROVE  g[k].first \in Nat /\ g[k].page \in Nat /\ k \in Nat
  BY <1>2, LogType
<1>9. (Disjoint(h))'
  <2> SUFFICES ASSUME NEW k \in 1..o, NEW l \in 1..o, k < l
               PROVE  h[k].first + h[k].page + 2 <= h[l].first
    BY <1>5 DEF Disjoint
  <2>1. g[k].first + g[k].page + 2 <= g[l].first
    BY <1>2 DEF Log, Disjoint
  <2>2. k # o
    BY <1>t
  <2> QED BY <1>8, <2>1, <2>2
<1>10. (Bounded(h, K))'
  <2> SUFFICES ASSUME o > 0
               PROVE  h[o].first + 2 <= h[1].first + (2 * o - 1) * K
    BY <1>5 DEF Bounded
  <2>1. 1 \in 1..o /\ o \in 1..o
    OBVIOUS
  <2>2. g[o].first + 2 <= g[1].first + (2 * o - 1) * K
    BY <1>2 DEF Log, Bounded
  <2>3. h[o].first = g[o].first /\ h[1].first = g[1].first
    BY <1>8, <2>1
  <2> QED BY <2>2, <2>3
<1>11. (PagesRead(h))'
  <2> SUFFICES ASSUME NEW k \in 1..o, h[k].page # 0
               PROVE  h[k].page \in RespLens /\ <<h[k].peer, h[k].conn, 0>> \in handed'
    BY <1>5 DEF PagesRead
  <2>1. CASE k = o /\ n # 0
    <3>1. tcb.remote = g[o].peer /\ current.conn = g[o].conn
      BY <1>2, <1>7, <2>1 DEF Log, Latest
    <3> QED BY <1>6, <1>7, <1>8, <2>1, <3>1
  <2>2. CASE ~ (k = o /\ n # 0)
    <3>1. h[k].page = g[k].page /\ h[k].peer = g[k].peer /\ h[k].conn = g[k].conn
      BY <1>8, <2>2
    <3>2. g[k].page \in RespLens /\ <<g[k].peer, g[k].conn, 0>> \in handed
      BY <1>2, <3>1 DEF Log, PagesRead
    <3> QED BY <1>6, <3>1, <3>2
  <2> QED BY <2>1, <2>2
<1>12. (Latest(h))'
  <2> SUFFICES ASSUME o > 0
               PROVE  /\ tcb'.remote = h[o].peer /\ current'.conn = h[o].conn
                      /\ tcb'.lastByteSent = Plus(0, h[o].first + h[o].page)
                      /\ answers' = 0 => h[o].page = 0
    BY <1>5 DEF Latest
  <2>1. o \in 1..o
    OBVIOUS
  <2>2. /\ tcb.remote = g[o].peer /\ current.conn = g[o].conn
        /\ tcb.lastByteSent = Plus(0, g[o].first + g[o].page)
        /\ answers = 0 => g[o].page = 0
    BY <1>2 DEF Log, Latest
  <2>3. tcb'.lastByteSent = Plus(0, h[o].first + h[o].page)
    <3> DEFINE a == g[o].first + g[o].page
    <3>1. a \in Int /\ n \in Int /\ a + n = h[o].first + h[o].page
      BY <1>7, <1>8, <1>t, <2>1
    <3>2. tcb.lastByteSent = Plus(0, a)
      BY <2>2
    <3> HIDE DEF a
    <3>3. Plus(Plus(0, a), n) = Plus(0, a + n)
      BY <3>1, CountOn
    <3> QED BY <1>3, <3>1, <3>2, <3>3
  <2>4. answers' = 0 => h[o].page = 0
    <3>1. CASE n = 0
      <4>1. answers' # 0 \/ answers' = answers
        BY <1>0, <1>3
      <4>2. h[o].page = g[o].page
        BY <1>8, <2>1, <3>1
      <4> QED BY <2>2, <4>1, <4>2
    <3>2. CASE n # 0
      BY <1>7, <3>2
    <3> QED BY <3>1, <3>2
  <2> QED BY <1>3, <1>5, <1>8, <2>1, <2>2, <2>3, <2>4
<1>13. (ServedPages(h))'
  <2> SUFFICES ASSUME NEW p, NEW b
               PROVE  <<p, b>> \in served' <=>
                        \E k \in 1..opens' : h[k].page # 0 /\ p = h[k].peer /\ b = Plus(0, h[k].first)
    BY Zenon DEF ServedPages
  <2>1. <<p, b>> \in served <=> \E k \in 1..o : g[k].page # 0 /\ p = g[k].peer /\ b = Plus(0, g[k].first)
    <3>1. ServedPages(g)
      BY DEF Log
    <3>2. <<p, b>> \in served <=> \E k \in 1..opens : g[k].page # 0 /\ p = g[k].peer /\ b = Plus(0, g[k].first)
      BY <3>1 DEF ServedPages
    <3> QED BY <1>2, <3>2
  <2>2. served' = served \cup (IF answers' > answers THEN {<<s.src, tcb.lastByteSent>>} ELSE {})
    BY DEF ServerReceive
  <2>3. CASE n = 0
    <3>1. served' = served
      BY <1>0, <1>3, <1>7, <2>2, <2>3, ResponseAssumption
    <3>2. h = g
      BY <1>1, <2>3
    <3> QED BY <1>5, <2>1, <3>1, <3>2
  <2>4. CASE n # 0
    <3>0. o \in 1..o /\ answers = 0 /\ answers' = 1
      BY <1>7, <2>4
    <3>1. s.src = tcb.remote
      BY <1>0, <1>3, <2>4, AnswersGet DEF Matches
    <3>2. tcb.remote = g[o].peer /\ tcb.lastByteSent = Plus(0, g[o].first)
      <4>1. tcb.remote = g[o].peer /\ tcb.lastByteSent = Plus(0, g[o].first + g[o].page)
        BY <1>2, <1>7, <2>4 DEF Log, Latest
      <4>2. g[o].first + g[o].page = g[o].first
        BY <1>7, <1>t, <2>4, <3>0
      <4> QED BY <4>1, <4>2
    <3>3. served' = served \cup {<<g[o].peer, Plus(0, g[o].first)>>}
      BY <2>2, <3>0, <3>1, <3>2
    <3>4. <<p, b>> \in served' <=> <<p, b>> \in served \/ (p = g[o].peer /\ b = Plus(0, g[o].first))
      BY <3>3
    <3>5. (\E k \in 1..o : h[k].page # 0 /\ p = h[k].peer /\ b = Plus(0, h[k].first))
          <=> \/ \E k \in 1..o : g[k].page # 0 /\ p = g[k].peer /\ b = Plus(0, g[k].first)
              \/ p = g[o].peer /\ b = Plus(0, g[o].first)
      BY <1>7, <1>8, <2>4, <3>0
    <3> QED BY <1>5, <2>1, <3>4, <3>5
  <2> QED BY <2>3, <2>4
<1>14. Log(h, K)'
  <2>1. (h \in [1..opens -> Conn])'
    BY <1>5, <1>8
  <2> QED BY <2>1, <1>9, <1>10, <1>11, <1>12, <1>13 DEF Log
<1>15. SegmentsOf(h)'
  <2> SUFFICES ASSUME NEW r \in toPeers', "RST" \notin r.flags
               PROVE  \E k \in 1..o : Belongs(r, h[k]) /\ ("FIN" \in r.flags => Ended(k)')
    BY <1>5 DEF SegmentsOf, Belongs, Place
  <2>1. CASE r \in toPeers
    <3>1. PICK k \in 1..o : Belongs(r, g[k]) /\ ("FIN" \in r.flags => Ended(k))
      BY <1>2, <2>1 DEF SegmentsOf
    <3>2. "FIN" \in r.flags => Ended(k)'
      <4>1. finOut' \in Int
        BY <1>0, TypeStep DEF TypeOK
      <4> QED BY <1>0, <1>2, <1>4, <1>5, <3>1, <4>1 DEF Ended
    <3>3. CASE k = o /\ n # 0
      <4>1. "FIN" \notin r.flags /\ g[k].page = 0
        BY <1>0, <1>2, <1>7, <3>1, <3>3 DEF Ended
      <4>2. r.len \in Nat
        BY <2>1 DEF SysTyped, SentSegment
      <4>3. h[k].page = n /\ h[k].first = g[k].first /\ h[k].peer = g[k].peer /\ h[k].conn = g[k].conn
        BY <1>8, <3>3
      <4>4. Belongs(r, h[k])
        <5>1. CASE r.flags = {"SYN", "ACK"} /\ r.seq = Plus(0, g[k].first - 1) /\ r.ack = Place(g[k].conn, 1)
          BY <3>1, <4>3, <5>1 DEF Belongs
        <5>2. ASSUME "SYN" \notin r.flags, NEW j \in 0..g[k].page,
                     r.seq = Plus(0, g[k].first + j), j + r.len <= g[k].page
              PROVE  Belongs(r, h[k])
          <6>1. j \in 0..n /\ j + r.len <= n
            BY <4>1, <4>2, <5>2
          <6> QED BY <3>1, <4>1, <4>3, <5>2, <6>1 DEF Belongs
        <5> QED BY <3>1, <5>1, <5>2 DEF Belongs
      <4> QED BY <3>2, <4>4
    <3>4. CASE ~ (k = o /\ n # 0)
      <4>1. Belongs(r, h[k])
        BY <1>8, <3>1, <3>4 DEF Belongs
      <4> QED BY <3>2, <4>1
    <3> QED BY <3>3, <3>4
  <2>2. ASSUME NEW i \in 1..Len(out'), r = out'[i]
        PROVE  \E k \in 1..o : Belongs(r, h[k]) /\ ("FIN" \in r.flags => Ended(k)')
    <3>1. /\ tcb.status # "CLOSED" /\ r.dst = tcb.remote /\ "SYN" \notin r.flags
      BY <1>3, <2>2
    <3>2. PICK k \in 0..n : /\ r.seq = Plus(tcb.lastByteSent, k) /\ k + r.len <= n
                            /\ "FIN" \in r.flags => k = n /\ finOut' > 0
      BY <1>3, <2>2
    <3>3. o \in 1..o /\ o > 0
      BY <1>4, <3>1
    <3>4. tcb.remote = g[o].peer /\ tcb.lastByteSent = Plus(0, g[o].first + g[o].page)
      BY <1>2, <3>3 DEF Log, Latest
    <3>5. r.len \in Nat
      <4>1. TypeOK'
        BY <1>0, TypeStep
      <4>2. r \in SentSegment
        BY <2>2, <4>1, ElementType DEF TypeOK
      <4> QED BY <4>2 DEF SentSegment
    <3> DEFINE a == g[o].first + g[o].page
               j == g[o].page + k
    <3>6. /\ a \in Int /\ k \in Int /\ a + k = g[o].first + j
          /\ j \in 0..h[o].page /\ j + r.len <= h[o].page /\ (k = n => j = h[o].page)
      <4>1. g[o].first \in Nat /\ g[o].page \in Nat /\ k \in Nat /\ k <= n
        BY <1>t, <3>3
      <4>2. CASE n = 0
        <5>1. h[o].page = g[o].page
          BY <1>8, <3>3, <4>2
        <5> QED BY <3>2, <3>5, <4>1, <4>2, <5>1
      <4>3. CASE n # 0
        <5>1. h[o].page = n /\ g[o].page = 0
          BY <1>7, <1>8, <3>3, <4>3
        <5> QED BY <3>2, <3>5, <4>1, <5>1
      <4> QED BY <4>2, <4>3
    <3>7. r.seq = Plus(0, g[o].first + j)
      <4>1. r.seq = Plus(Plus(0, a), k)
        BY <3>2, <3>4
      <4> HIDE DEF a, j
      <4> QED BY <3>6, <4>1, CountOn
    <3> HIDE DEF a, j
    <3>8. Belongs(r, h[o])
      BY <1>8, <3>1, <3>2, <3>3, <3>4, <3>6, <3>7 DEF Belongs
    <3>9. "FIN" \in r.flags => Ended(o)'
      BY <3>2 DEF Ended
    <3> QED BY <3>3, <3>8, <3>9
  <2> QED BY <1>5, <2>1, <2>2
<1>16. ClientsOf(h)'
  <2> SUFFICES ASSUME NEW p \in Clients, client[p].st = "OPEN"
               PROVE  \E k \in 1..o : Taken(p, h[k])' /\ (client[p].eof => Ended(k)')
    BY <1>5 DEF ClientsOf
  <2>1. PICK k \in 1..o : Taken(p, g[k]) /\ (client[p].eof => Ended(k))
    BY <1>2 DEF ClientsOf
  <2>2. client[p].eof => Ended(k)'
    <3>1. finOut' \in Int
      BY <1>0, TypeStep DEF TypeOK
    <3> QED BY <1>0, <1>2, <1>4, <1>5, <2>1, <3>1 DEF Ended
  <2>3. client[p].got \in Nat
    BY DEF SysTyped, Client
  <2>4. CASE k = o /\ n # 0
    <3>1. ~ client[p].eof /\ g[k].page = 0 /\ h[k].page = n
      BY <1>0, <1>2, <1>7, <1>8, <2>1, <2>4 DEF Ended
    <3>2. client[p].got <= n
      BY <2>1, <2>3, <3>1 DEF Taken
    <3>3. Taken(p, h[k])'
      BY <1>5, <1>8, <2>1, <3>1, <3>2 DEF Taken, Eof
    <3> QED BY <2>2, <3>3
  <2>5. CASE ~ (k = o /\ n # 0)
    <3>1. Taken(p, h[k])'
      BY <1>5, <1>8, <2>1, <2>5 DEF Taken, Eof
    <3> QED BY <2>2, <3>1
  <2> QED BY <2>4, <2>5
<1> QED BY <1>14, <1>15, <1>16

-----------------------------------------------------------------------------
(* The invariant is inductive *)
LEMMA PageInvStep ==
  ASSUME NEW K \in Nat, LeapsFit(K), StretchesFit, SysTyped, AckInv(K), DataInv, PageInv(K),
         [SysNext]_sysVars
  PROVE  PageInv(K)'
<1>1. CASE Thinned
  <2>1. PICK g : Log(g, K) /\ SegmentsOf(g) /\ ClientsOf(g)
    BY DEF PageInv
  <2>2. (Log(g, K) /\ SegmentsOf(g) /\ ClientsOf(g))'
    BY <1>1, <2>1 DEF Thinned, serverVars, Log, SegmentsOf, ClientsOf, Disjoint, Bounded, PagesRead, Latest,
                      ServedPages, Belongs, Ended, Taken, Eof, Place
  <2>3. FinMatchesStatus' /\ GetsFirst' /\ Waiting'
    BY <1>1 DEF Thinned, serverVars, PageInv, FinMatchesStatus, GetsFirst, Waiting
  <2> QED BY <2>2, <2>3 DEF PageInv
<1>2. ASSUME NEW s \in toServer, ServerReceive(s) PROVE PageInv(K)'
  <2>1. PICK g : Log(g, K) /\ SegmentsOf(g) /\ ClientsOf(g)
    BY DEF PageInv
  <2>2. \E h : (Log(h, K) /\ SegmentsOf(h) /\ ClientsOf(h))'
    BY <1>2, <2>1, PageBySyn, PageLater
  <2>3. IsSegment(s) /\ handleTCP(s) /\ ServerMove(s) /\ TypeOK
    BY <1>2, ServerShape DEF SysTyped
  <2>4. FinMatchesStatus'
    BY <2>3, FinStep DEF PageInv
  <2>5. GetsFirst' /\ Waiting'
    BY <2>3 DEF ServerMove, PageInv, GetsFirst, Waiting
  <2> QED BY <2>2, <2>4, <2>5 DEF PageInv
<1> QED BY <1>1, <1>2, PageByPeer, NetworkShape DEF SysNext

LEMMA PageInvInit == ASSUME NEW K \in Nat, SysInit PROVE PageInv(K)
<1>1. PICK g : g = [k \in 1..0 |-> k]
  OBVIOUS
<1>2. /\ opens = 0 /\ toPeers = {} /\ toServer = {} /\ served = {}
      /\ \A p \in Clients : client[p].st = "CLOSED"
      /\ tcb.status = "CLOSED"
  BY DEF SysInit, Init
<1>3. 1..opens = {}
  BY <1>2
<1>4. g \in [1..opens -> Conn]
  BY <1>1, <1>2, <1>3
<1>5. Log(g, K)
  BY <1>2, <1>3, <1>4 DEF Log, Disjoint, Bounded, PagesRead, Latest, ServedPages
<1>6. SegmentsOf(g) /\ ClientsOf(g)
  BY <1>2 DEF SegmentsOf, ClientsOf
<1> QED BY <1>2, <1>5, <1>6 DEF PageInv, FinMatchesStatus, GetsFirst, Waiting

(***************************************************************************)
(* End to end, for any number of clients and pages of any lengths: a       *)
(* client that gets any byte of the page had its own request read by       *)
(* sendHTML, and one that sees the server's FIN has the whole page, or     *)
(* nothing at all if none was sent on its connection, whatever is lost,    *)
(* delayed, reordered or duplicated.  No byte of an earlier connection's   *)
(* page is ever taken for one of the present one.  The hypotheses are      *)
(* those of StaleDataIsRejected.                                           *)
(***************************************************************************)
THEOREM PageIsWhole ==
  ASSUME NEW K \in Nat, LeapsFit(K), StretchesFit
  PROVE  SysSpec => []AnswerIsWhole
<1> DEFINE IInv == SysTyped /\ AckInv(K) /\ DataInv /\ PageInv(K)
<1>1. SysInit => IInv
  <2>1. SysInit => DataInv
    BY DEF SysInit, Init, DataInv, OpenerKnown, NoStaleData
  <2> QED BY <2>1, SysTypedInit, AckInvInit, PageInvInit
<1>2. IInv /\ [SysNext]_sysVars => IInv'
  BY SysTypedStep, AckInvStep, DataInvStep, PageInvStep
<1>3. IInv => AnswerIsWhole
  <2> SUFFICES ASSUME IInv, NEW p \in Clients, client[p].st = "OPEN"
               PROVE  /\ client[p].got > 0 => <<p, Start(p)>> \in served /\ <<p, client[p].conn, 0>> \in handed
                      /\ client[p].eof => IF <<p, Start(p)>> \in served THEN client[p].got \in RespLens
                                                                       ELSE client[p].got = 0
    BY DEF AnswerIsWhole
  <2>g. PICK g : Log(g, K) /\ SegmentsOf(g) /\ ClientsOf(g)
    BY DEF PageInv
  <2>o. opens \in 0..MaxOpens /\ opens \in Nat /\ client[p].got \in Nat
    BY BoundsAssumption DEF SysTyped, Client
  <2>1. PICK k \in 1..opens : Taken(p, g[k])
    BY <2>g DEF ClientsOf
  <2>t. ASSUME NEW l \in 1..opens PROVE g[l].first \in Nat /\ g[l].page \in Nat
    BY <2>o, <2>g, LogType
  <2>2. /\ p = g[k].peer /\ client[p].conn = g[k].conn /\ client[p].got <= g[k].page
        /\ client[p].rcv = Plus(0, g[k].first + (client[p].got + Eof(p)))
        /\ client[p].eof => client[p].got = g[k].page
    BY <2>1 DEF Taken
  <2>3. Start(p) = Plus(0, g[k].first)
    <3> DEFINE a == g[k].first + (client[p].got + Eof(p))
               m == - client[p].got - (IF client[p].eof THEN 1 ELSE 0)
    <3>1. a \in Int /\ m \in Int /\ a + m = g[k].first
      BY <2>o, <2>t DEF Eof
    <3>2. Start(p) = Plus(client[p].rcv, m) /\ client[p].rcv = Plus(0, a)
      BY <2>2 DEF Start
    <3> HIDE DEF a, m
    <3> QED BY <3>1, <3>2, CountOn
  <2>4. <<p, Start(p)>> \in served <=> \E l \in 1..opens : g[l].page # 0 /\ p = g[l].peer /\ Start(p) = Plus(0, g[l].first)
    BY <2>g DEF Log, ServedPages
  <2>5. ASSUME g[k].page # 0
        PROVE  /\ g[k].page \in RespLens /\ <<p, client[p].conn, 0>> \in handed
               /\ <<p, Start(p)>> \in served
    BY <2>2, <2>3, <2>4, <2>5, <2>g DEF Log, PagesRead
  <2>6. ASSUME <<p, Start(p)>> \in served PROVE g[k].page # 0
    <3>1. PICK l \in 1..opens : g[l].page # 0 /\ Start(p) = Plus(0, g[l].first)
      BY <2>4, <2>6
    <3>2. 0 \in 0..g[k].page /\ 0 \in 0..(g[l].page + 1) /\ g[k].first + 0 = g[k].first /\ g[l].first + 0 = g[l].first
      BY <2>t
    <3>3. Plus(0, g[k].first + 0) = Plus(0, g[l].first + 0)
      BY <2>3, <3>1, <3>2
    <3>4. k = l
      BY <2>o, <2>g, <3>2, <3>3, SameConnOf
    <3> QED BY <3>1, <3>4
  <2>7. client[p].got > 0 => g[k].page # 0
    BY <2>o, <2>2
  <2> QED BY <2>2, <2>5, <2>6, <2>7
<1> QED
  BY <1>1, <1>2, <1>3, PTL DEF SysSpec
=============================================================================
