------------------------------- MODULE Names --------------------------------
(***************************************************************************)
(* The name responders of applicationCore.c: handleLLMNR and handleMDNS,   *)
(* which answer a question for the device's host name with its address.    *)
(*                                                                         *)
(* A message is [query, plain, questions]: is it a query without an error  *)
(* code, is it without answers and authorities, and its questions, as many *)
(* as QDCOUNT says.  A question is [name, type, class]: what stands at its *)
(* index, and the four bytes behind the place where hostMatch ends it.     *)
(*                                                                         *)
(* A name is the host name, alone or in "local", in any case; "ptr", bytes *)
(* C0 and up of a cross reference; or "other".  "host.local.more" is one   *)
(* that goes on behind "local": hostMatch takes the length of the next     *)
(* label for the end of the name, so type and class are bytes of that      *)
(* label, and the questions after it are what is found from there.         *)
(* Messages are shorter than the 256 bytes that the index can count.       *)
(***************************************************************************)
EXTENDS Naturals, Sequences

CONSTANTS HostLen, OtherLen    \* strlen(myhost), and the size of another name

OwnNames == {"host", "host.local"}

(* Names that hostMatch accepts although they need not be those of the device *)
Mistaken == {"host.local.more", "ptr"}

NameLen(name) ==
  CASE name = "host"  -> HostLen + 2
    [] name \in {"host.local", "host.local.more"} -> HostLen + 8
    [] name = "ptr"   -> 2
    [] name = "other" -> OtherLen

(***************************************************************************)
(* hostMatch(DNS,i), with i at question j: the question whose name ends at *)
(* the index it returns, or 0.  A cross reference always matches, wherever *)
(* it leads; any other name is looked for at the start of the message,     *)
(* whatever i is.                                                          *)
(***************************************************************************)
hostMatchAny(q, j) == j                                  \* mutant: length not compared
hostMatch(q, j) ==
  IF q[j].name = "ptr" THEN j
  ELSE IF q[1].name \in OwnNames \cup {"host.local.more"} THEN 1 ELSE 0

AddressType(x)  == x.type = "A"
InternetLLMNR(x) == x.class = "IN"
InternetMDNS(x) == x.class \in {"IN", "8001"}            \* "Apple asks '8001'"

Unanswered == 0

(* The length of the reply to m, or Unanswered *)
handleLLMNR(m) ==
  LET i == hostMatch(m.questions, 1)
      x == m.questions[i]
  IN  IF /\ Len(m.questions) = 1
         /\ m.plain /\ m.query
         /\ i # 0
         /\ AddressType(x) \/ x.type = "ANY"
         /\ InternetLLMNR(x)
      THEN 2 * (NameLen(x.name) + 4) + 8 + 14
      ELSE Unanswered

(* The question that i is at in round j of the loop of handleMDNS, or 0 *)
AtQuestion(q) ==
  LET at[j \in 1..Len(q)] ==
        IF j = 1 THEN 1
        ELSE IF at[j - 1] = 0 THEN 0
        ELSE LET r == hostMatch(q, at[j - 1]) IN IF r = 0 THEN 0 ELSE r + 1
  IN  at

handleMDNS(m) ==
  LET q  == m.questions
      at == AtQuestion(q)
      Answers(j) ==
        /\ at[j] # 0
        /\ LET r == hostMatch(q, at[j])
           IN  r # 0 /\ AddressType(q[r]) /\ InternetMDNS(q[r])
  IN  IF m.plain /\ m.query /\ \E j \in 1..Len(q) : Answers(j)
      THEN 12 + NameLen(q[1].name) + 14
      ELSE Unanswered
=============================================================================
