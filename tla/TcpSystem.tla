------------------------------ MODULE TcpSystem ------------------------------
(***************************************************************************)
(* The TCP server of module Tcp together with HTTP clients that follow RFC *)
(* 793 and a network that delays, reorders, loses and (in the directions   *)
(* listed in Duplicates) duplicates segments.                              *)
(*                                                                         *)
(* The server's steps are exactly handleTCP on a segment of the network.   *)
(* The clients and the network are not part of the repository: the clients *)
(* are reduced to what a request and its answer need.                      *)
(***************************************************************************)
EXTENDS Tcp, FiniteSets

CONSTANTS
  Clients,     \* the remote endpoints that run a client
  StreamLen,   \* length of a client's request, in bytes
  MinSeg,      \* the shortest data segment a client sends
  GetLen,      \* a first segment this long is recognised as a GET
  Pipelined,   \* may a client send data before earlier data is acknowledged?
  Duplicates,  \* directions in which the network duplicates
  MayVanish,   \* may a client lose power?
  MayLose,     \* may the network lose a segment for good?
  IssStep,     \* distance of a client's successive initial sequence numbers
  MaxConns,    \* bound: connections one client starts
  MaxOpens     \* bound: connections the server accepts

ASSUME ClientsAssumption == Clients \subseteq Peers
ASSUME StreamAssumption  == /\ StreamLen \in Nat \ {0} /\ MinSeg \in 1..StreamLen
                            /\ GetLen \in 1..StreamLen /\ StreamLen <= MaxPayload
ASSUME BoundsAssumption  == IssStep \in Nat /\ MaxConns \in Nat /\ MaxOpens \in Nat
ASSUME DuplicatesAssumption == Duplicates \subseteq {"toServer", "toPeers"}

VARIABLES
  client,    \* client[p]: the connection of client p
  toServer,  \* segments under way to the server
  toPeers,   \* segments under way to the clients
  opens,     \* connections the server has accepted
  handed,    \* history: <<p, n, i>>, byte i of p's n-th request was given to sendHTML
  current,   \* history: of the server's connection, the client's number and bytes given
  served,    \* history: <<p, b>>, a page was sent to p as the bytes from b
  lost       \* history: a segment was lost that nobody sends again

sysVars == <<tcb, out, dataIn, answers, finOut, client, toServer, toPeers, opens,
             handed, current, served, lost>>
serverVars == <<tcb, out, dataIn, answers, finOut, opens, handed, current, served>>

(***************************************************************************)
(* A client: una and nxt count the bytes (the FIN included) acknowledged   *)
(* and sent; rcv is the next sequence number it expects; got counts the    *)
(* bytes of the answer; eof says that it has the server's FIN.             *)
(***************************************************************************)
Client == [st : {"CLOSED", "SYN_SENT", "OPEN", "OFF"}, conn : 0..MaxConns,
           una : 0..(StreamLen + 1), nxt : 0..StreamLen, fin : BOOLEAN,
           rcv : SeqNo, got : Nat, eof : BOOLEAN]

Iss(p)     == Plus(0, client[p].conn * IssStep)
At(p, i)   == Plus(Iss(p), 1 + i)          \* sequence number of byte i
SndNxt(p)  == At(p, client[p].nxt + (IF client[p].fin THEN 1 ELSE 0))

FromClient(p, flags, seq, ack, from, len) ==
  [src |-> p, flags |-> flags, seq |-> seq, ack |-> ack, len |-> len,
   get |-> from = 0 /\ len >= GetLen, conn |-> client[p].conn, from |-> from]

PureAck(p, rcv) == FromClient(p, {"ACK"}, SndNxt(p), rcv, 0, 0)

SysInit ==
  /\ Init
  /\ client = [p \in Clients |->
       [st |-> "CLOSED", conn |-> 0, una |-> 0, nxt |-> 0, fin |-> FALSE,
        rcv |-> 0, got |-> 0, eof |-> FALSE]]
  /\ toServer = {} /\ toPeers = {} /\ opens = 0 /\ handed = {}
  /\ current = [conn |-> 0, bytes |-> {}] /\ served = {} /\ lost = FALSE

-----------------------------------------------------------------------------
(* The server handles one segment *)
ServerReceive(s) ==
  /\ s \in toServer
  /\ handleTCP(s)
  /\ LET opened == tcb.status = "CLOSED" /\ tcb'.status = "SYN_RCVD"
         bytes  == IF dataIn' = 0 THEN {}
                   ELSE {<<s.src, s.conn, s.from + i>> : i \in 0..(s.len - 1)}
     IN  /\ opens' = opens + (IF opened THEN 1 ELSE 0)
         /\ handed' = handed \cup bytes
         /\ current' = IF opened THEN [conn |-> s.conn, bytes |-> {}]
                       ELSE [current EXCEPT !.bytes = @ \cup bytes]
  /\ served' = served \cup (IF answers' > answers THEN {<<s.src, tcb.lastByteSent>>} ELSE {})
  /\ opens' <= MaxOpens
  /\ toServer' = IF "toServer" \in Duplicates THEN toServer ELSE toServer \ {s}
  /\ toPeers' = toPeers \cup {out'[i] : i \in 1..Len(out')}
  /\ UNCHANGED <<client, lost>>

-----------------------------------------------------------------------------
(* The clients *)
Launch(s) == toServer' = toServer \cup {s}

Consume(r) == toPeers' = IF "toPeers" \in Duplicates THEN toPeers ELSE toPeers \ {r}

PeerConnect(p) ==
  /\ client[p].st \in {"CLOSED", "OFF"}
  /\ client[p].conn < MaxConns
  /\ client' = [client EXCEPT ![p] =
       [st |-> "SYN_SENT", conn |-> @.conn + 1, una |-> 0, nxt |-> 0,
        fin |-> FALSE, rcv |-> 0, got |-> 0, eof |-> FALSE]]
  /\ UNCHANGED <<toServer, toPeers>>

PeerSendSyn(p) ==
  /\ client[p].st = "SYN_SENT"
  /\ Launch(FromClient(p, {"SYN"}, Iss(p), 0, 0, 0))
  /\ UNCHANGED <<client, toPeers>>

(* New data from nxt, or a retransmission, possibly repacketised, from una *)
PeerSendData(p) ==
  LET c == client[p] IN
  /\ c.st = "OPEN"
  /\ \E from \in {c.una, c.nxt}, len \in MinSeg..StreamLen :
       /\ from + len <= StreamLen
       /\ from = c.nxt => ~ c.fin /\ (Pipelined \/ c.una = c.nxt)
       /\ Launch(FromClient(p, IF c.fin /\ from + len = StreamLen THEN {"FIN", "ACK"} ELSE {"ACK"},
                            At(p, from), c.rcv, from, len))
       /\ client' = [client EXCEPT ![p].nxt = IF from + len > @ THEN from + len ELSE @]
  /\ UNCHANGED toPeers

(* The whole request is out: close, at the latest after the server's FIN *)
PeerClose(p) ==
  LET c == client[p] IN
  /\ c.st = "OPEN" /\ c.nxt = StreamLen /\ c.una <= StreamLen
  /\ Pipelined \/ c.una = StreamLen
  /\ client' = [client EXCEPT ![p].fin = TRUE]
  /\ Launch(FromClient(p, {"FIN", "ACK"}, At(p, StreamLen), c.rcv, StreamLen, 0))
  /\ UNCHANGED toPeers

PeerRcvSynAck(p, r) ==
  /\ r \in toPeers /\ r.dst = p /\ {"SYN", "ACK"} = r.flags
  /\ client[p].st = "SYN_SENT" /\ r.ack = Plus(Iss(p), 1)
  /\ client' = [client EXCEPT ![p].st = "OPEN", ![p].rcv = Plus(r.seq, 1)]
  /\ Launch(FromClient(p, {"ACK"}, At(p, 0), Plus(r.seq, 1), 0, 0))
  /\ Consume(r)

(***************************************************************************)
(* A segment of an open connection.  One that is ahead of the stream waits *)
(* in the client's reassembly queue; one that is behind is answered by an  *)
(* ACK and changes nothing.                                                *)
(***************************************************************************)
PeerReceive(p, r) ==
  LET c     == client[p]
      size  == r.len + (IF "FIN" \in r.flags THEN 1 ELSE 0)
      acked == Diff(r.ack, At(p, 0))
      sent  == c.nxt + (IF c.fin THEN 1 ELSE 0)
      rcv   == Plus(c.rcv, size)
  IN
  /\ r \in toPeers /\ r.dst = p /\ "RST" \notin r.flags
  /\ c.st = "OPEN"
  /\ \/ /\ r.seq = c.rcv /\ "SYN" \notin r.flags
        /\ client' = [client EXCEPT
             ![p].una = IF acked > @ /\ acked <= sent THEN acked ELSE @,
             ![p].rcv = rcv,
             ![p].got = @ + r.len,
             ![p].eof = @ \/ "FIN" \in r.flags]
        /\ IF size > 0 THEN Launch(PureAck(p, rcv)) ELSE UNCHANGED toServer
     \/ /\ Diff(r.seq, c.rcv) < 0
        /\ Launch(PureAck(p, c.rcv))
        /\ UNCHANGED client
  /\ Consume(r)

(***************************************************************************)
(* A segment for no connection of the client is answered by a reset; a SYN *)
(* within the window of an open one also ends that connection.             *)
(***************************************************************************)
PeerRejects(p, r) ==
  /\ r \in toPeers /\ r.dst = p /\ "RST" \notin r.flags
  /\ \/ client[p].st = "CLOSED"
     \/ client[p].st = "SYN_SENT" /\ r.ack # Plus(Iss(p), 1)
     \/ client[p].st = "OPEN" /\ "SYN" \in r.flags /\ Diff(r.seq, client[p].rcv) >= 0
  /\ client' = [client EXCEPT ![p].st = IF @ = "OPEN" THEN "CLOSED" ELSE @]
  /\ Launch(FromClient(p, {"RST"}, r.ack, 0, 0, 0))
  /\ Consume(r)

(* The server's reset carries sequence number 0 and no ACK: RFC 793 ignores it *)
PeerIgnoresReset(p, r) ==
  /\ r \in toPeers /\ r.dst = p /\ "RST" \in r.flags
  /\ ~ (client[p].st = "OPEN" /\ r.seq = client[p].rcv)
  /\ Consume(r)
  /\ UNCHANGED <<client, toServer>>

(* The client has the server's FIN and the acknowledgement of its own *)
PeerDone(p) ==
  /\ client[p].st = "OPEN" /\ client[p].eof /\ client[p].una = StreamLen + 1
  /\ client' = [client EXCEPT ![p].st = "CLOSED"]
  /\ UNCHANGED <<toServer, toPeers>>

PeerVanish(p) ==
  /\ MayVanish
  /\ client[p].st \in {"SYN_SENT", "OPEN"}
  /\ client' = [client EXCEPT ![p].st = "OFF"]
  /\ UNCHANGED <<toServer, toPeers>>

PeerStep(p) ==
  /\ \/ PeerConnect(p) \/ PeerSendSyn(p) \/ PeerSendData(p) \/ PeerClose(p)
     \/ PeerDone(p) \/ PeerVanish(p)
     \/ \E r \in toPeers : \/ PeerRcvSynAck(p, r) \/ PeerReceive(p, r)
                           \/ PeerRejects(p, r) \/ PeerIgnoresReset(p, r)
  /\ UNCHANGED <<serverVars, lost>>

-----------------------------------------------------------------------------
(***************************************************************************)
(* The network loses a segment for good.  Clients send their SYN, data and *)
(* FIN again; the server sends nothing again, as scheduleReTx returns at   *)
(* once, and nobody repeats an ACK of its own accord.                      *)
(***************************************************************************)
SentAgain(s) == s.len > 0 \/ "SYN" \in s.flags \/ "FIN" \in s.flags

LoseToServer(s) ==
  /\ MayLose /\ s \in toServer
  /\ toServer' = toServer \ {s}
  /\ lost' = (lost \/ ~ SentAgain(s))
  /\ UNCHANGED <<serverVars, client, toPeers>>

LoseToPeers(r) ==
  /\ MayLose /\ r \in toPeers
  /\ toPeers' = toPeers \ {r}
  /\ lost' = TRUE
  /\ UNCHANGED <<serverVars, client, toServer>>

SysNext ==
  \/ \E s \in toServer : ServerReceive(s) \/ LoseToServer(s)
  \/ \E p \in Clients : PeerStep(p)
  \/ \E r \in toPeers : LoseToPeers(r)

SysSpec == SysInit /\ [][SysNext]_sysVars

(***************************************************************************)
(* Fairness: the main loop never stops calling handlePacket, so that a     *)
(* segment that stays available, or is sent again whenever it is lost, is  *)
(* handled; a client that has power retransmits and takes what the network *)
(* delivers.  Nothing obliges the network to deliver: what nobody sends    *)
(* again it may lose.  Nothing obliges a client to connect, to send its    *)
(* request or to vanish.                                                   *)
(***************************************************************************)
Handled(p, f, full) ==
  \E s \in toServer : s.src = p /\ s.flags = f /\ (s.len > 0) = full /\ ServerReceive(s)

PeerProgress(p) ==
  /\ \/ \E r \in toPeers : \/ PeerRcvSynAck(p, r) \/ PeerReceive(p, r)
                           \/ PeerRejects(p, r) \/ PeerIgnoresReset(p, r)
  /\ UNCHANGED <<serverVars, lost>>

SysFairness ==
  /\ \A p \in Clients, f \in FlagSets, full \in BOOLEAN : SF_sysVars(Handled(p, f, full))
  /\ \A p \in Clients :
       /\ WF_sysVars(PeerProgress(p))
       /\ WF_sysVars(PeerSendData(p) /\ UNCHANGED <<serverVars, lost>>)
       /\ WF_sysVars(PeerClose(p) /\ UNCHANGED <<serverVars, lost>>)

FairSysSpec == SysSpec /\ SysFairness

-----------------------------------------------------------------------------
(* The type invariant of the composition *)
SysTypeOK ==
  /\ TypeOK
  /\ client \in [Clients -> Client]
  /\ \A s \in toServer : s.src \in Clients /\ s.seq \in SeqNo /\ s.ack \in SeqNo
  /\ toPeers \subseteq SentSegment
  /\ opens \in 0..MaxOpens
  /\ lost \in BOOLEAN

(***************************************************************************)
(* defaultHead: "You provide the ack for the byte you next expect".  No    *)
(* byte is acknowledged to a client that sendHTML was never given.         *)
(***************************************************************************)
Given(p, n) == \A i \in 0..(StreamLen - 1) : i < n => <<p, client[p].conn, i>> \in handed

AckedIsHanded == \A p \in Clients : client[p].st = "OPEN" => Given(p, client[p].una)

(***************************************************************************)
(* The server's acknowledgements are ahead of sendHTML by one byte at most *)
(* (the one by which the end of the handshake is miscounted), whatever old *)
(* duplicates arrive while a connection is opened.                         *)
(***************************************************************************)
AckedButOneIsHanded ==
  \A p \in Clients : client[p].st = "OPEN" => Given(p, client[p].una - 1)

(***************************************************************************)
(* End to end: a client that gets any of the page had its request read by  *)
(* sendHTML, and one that sees the server's FIN has the whole page or, if  *)
(* no page was sent on the connection whose SYN ACK it has taken, nothing. *)
(***************************************************************************)
Start(p) == Plus(client[p].rcv, - client[p].got - (IF client[p].eof THEN 1 ELSE 0))

AnswerIsWhole ==
  \A p \in Clients : client[p].st = "OPEN" =>
    /\ client[p].got > 0 => <<p, Start(p)>> \in served /\ <<p, client[p].conn, 0>> \in handed
    /\ client[p].eof => IF <<p, Start(p)>> \in served THEN client[p].got \in RespLens
                                                     ELSE client[p].got = 0

(***************************************************************************)
(* A client that sees the server's FIN and no page had no request read.    *)
(* Not so: the FIN of an earlier connection is acted upon (transport.c:719)*)
(* although nothing in it is new, and ends the connection under the client,*)
(* whose duplicate SYN then opens another one on which its request is read.*)
(***************************************************************************)
ReadIsAnswered ==
  \A p \in Clients :
    client[p].st = "OPEN" /\ client[p].eof /\ client[p].got = 0
      => <<p, client[p].conn, 0>> \notin handed

(***************************************************************************)
(* TCB.lastAckReceived never runs ahead of what the server has sent (its   *)
(* FIN included), whatever old acknowledgements the network still delivers.*)
(***************************************************************************)
AckWithinSent ==
  tcb.status # "CLOSED" =>
    Diff(tcb.lastAckReceived, tcb.lastByteSent) <= (IF finOut > 0 THEN 1 ELSE 0)

(***************************************************************************)
(* What sendHTML is given on a connection belongs to the client connection *)
(* whose SYN opened it: an old duplicate of an earlier connection from the *)
(* same port is never taken for data of the later one, nor the other way   *)
(* round.                                                                  *)
(***************************************************************************)
NoStaleData ==
  \A b \in current.bytes : b[1] = tcb.remote /\ b[2] = current.conn

(***************************************************************************)
(* TCP_DataIn: "newData is TCP data (not header) that we haven't heard     *)
(* before".  No byte is new on two connections of the server.              *)
(***************************************************************************)
NeverHeardBefore ==
  [][(current'.bytes \ current.bytes) \cap handed = {}]_sysVars

(***************************************************************************)
(* The server always becomes free for the next client, although clients'   *)
(* SYNs, requests and FINs are lost, as long as no client loses its power  *)
(* and the network loses nothing that nobody sends again: no segment of    *)
(* the server and no ACK.  Without these conditions it does not, although  *)
(* TCP_MAX_AGE promises a timeout: nothing calls cleanupOldTCP.            *)
(***************************************************************************)
ServerFreed ==
  [](~ lost /\ \A p \in Clients : client[p].st # "OFF") => []<>(tcb.status = "CLOSED")
=============================================================================
