----------------------------- MODULE Responder ------------------------------
(***************************************************************************)
(* A name responder of Names set to work: it hears a message and replies,  *)
(* or does not.                                                            *)
(***************************************************************************)
EXTENDS Integers, Names

CONSTANT Heard       \* the messages that the name responders hear

Question == [name  : OwnNames \cup Mistaken \cup {"other"},
             type  : {"A", "AAAA", "ANY"},
             class : {"IN", "8001", "CH"}]

Message == [query : BOOLEAN, plain : BOOLEAN, questions : Seq(Question)]

ASSUME HeardAssumption == Heard \subseteq Message
ASSUME NameLenAssumption == HostLen \in Nat /\ OtherLen \in Nat

VARIABLE heard       \* a message, and the length of the reply to it

NotYet == -1
Silence == [by |-> "none", m |-> <<>>, reply |-> NotYet]

Calls == {[by |-> by, m |-> m, reply |-> NotYet] : by \in {"LLMNR", "mDNS"}, m \in Heard}

HearInit == heard \in Calls \cup {Silence}

Respond ==
  /\ heard.by # "none" /\ heard.reply = NotYet
  /\ heard' = [heard EXCEPT !.reply = IF heard.by = "LLMNR" THEN handleLLMNR(heard.m)
                                                           ELSE handleMDNS(heard.m)]

HearSpec == HearInit /\ [][Respond]_heard

-----------------------------------------------------------------------------
(***************************************************************************)
(* A name responder answers only when it was asked for the address of the  *)
(* device, or for a name that hostMatch mistakes for its own: the first    *)
(* name is one of these, and a question with it, or with a cross reference *)
(* after it, is for an IPv4 address.  Any other name stays unanswered.  It *)
(* does answer when the first name is its own and all names up to the      *)
(* question refer back; and the length of the datagram is that of the      *)
(* header and the records in it.                                           *)
(***************************************************************************)
IsTaken(q, k) ==
  /\ q[1].name \in OwnNames \cup Mistaken
  /\ k = 1 \/ q[k].name = "ptr"

Asks(by, x) ==
  IF by = "LLMNR" THEN x.type \in {"A", "ANY"} /\ x.class = "IN"
                  ELSE x.type = "A" /\ x.class \in {"IN", "8001"}

ReplyLen(by, name) ==
  LET question == NameLen(name) + 4
      answer   == NameLen(name) + 4 + 4 + 2 + 4
  IN  12 + answer + (IF by = "LLMNR" THEN question ELSE 0)

OnlyOwnNameAnswered ==
  heard.reply # NotYet =>
    LET q == heard.m.questions
        Asked(k) == IsTaken(q, k) /\ Asks(heard.by, q[k])
    IN  /\ heard.reply # Unanswered =>
             /\ heard.m.query /\ heard.m.plain
             /\ \E k \in DOMAIN q : Asked(k)
             /\ heard.reply = ReplyLen(heard.by, q[1].name)
        /\ /\ heard.m.query /\ heard.m.plain
           /\ heard.by = "LLMNR" => Len(q) = 1
           /\ \E k \in DOMAIN q : Asked(k) /\ \A i \in 2..k : q[i].name = "ptr"
           /\ q[1].name \in OwnNames
           => heard.reply # Unanswered

(***************************************************************************)
(* The comment on hostMatch has more to say: `"host" will match "host" or  *)
(* "host.local"' and nothing else.  The code does not keep this: it does   *)
(* not look for the end of the name behind "local", and lets a cross       *)
(* reference pass even in front of all names.                              *)
(***************************************************************************)
NoOtherNameMatches ==
  heard.reply \notin {NotYet, Unanswered} => heard.m.questions[1].name \in OwnNames
=============================================================================
