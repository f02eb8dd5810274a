----------------------------- MODULE PureProofs -----------------------------
(***************************************************************************)
(* Proofs about the functions without state: the name responders answer    *)
(* for no name but those that hostMatch takes for theirs, and the calendar *)
(* is the Gregorian one, with the exceptions that ParsedRight names.       *)
(***************************************************************************)
EXTENDS Responder, Almanac, WellFoundedInduction, TLAPS

(* Induction in a form without an operator: a nonempty set has a least element *)
LEMMA LeastElement ==
  ASSUME NEW T \in SUBSET Nat, T # {}
  PROVE  \E x \in T : \A y \in T : x <= y
<1> DEFINE R == {ss \in Nat \X Nat : ss[1] < ss[2]}
<1>1. R = OpToRel(<, Nat)
  BY DEF OpToRel
<1>2. IsWellFoundedOn(R, Nat)
  BY <1>1, NatLessThanWellFounded
<1>3. \A x, y \in Nat : <<y, x>> \in R <=> y < x
  OBVIOUS
<1> HIDE DEF R
<1>4. \E x \in T : \A y \in T : ~ (<<y, x>> \in R)
  BY <1>2, WFMin
<1>5. PICK x \in T : \A y \in T : ~ (<<y, x>> \in R)
  BY <1>4
<1>6. ASSUME NEW y \in T PROVE x <= y
  <2>1. x \in Nat /\ y \in Nat /\ ~ (y < x)
    BY <1>3, <1>5
  <2> QED BY <2>1
<1> QED BY <1>6

(* There is a first round in which something is not so, if there is any *)
LEMMA FirstRound ==
  ASSUME NEW T \in SUBSET Nat, NEW n \in T
  PROVE  \E x \in T : x = 0 \/ (x > 0 /\ x - 1 \in Nat /\ x - 1 \notin T)
<1>1. PICK x \in T : \A y \in T : x <= y
  BY LeastElement
<1>2. x \in Nat
  OBVIOUS
<1>3. x # 0 => x > 0 /\ x - 1 \in Nat /\ ~ (x <= x - 1)
  BY <1>2
<1> QED BY <1>1, <1>3

-----------------------------------------------------------------------------
(* The loop of handleMDNS *)

(* Where the loop goes on when it is at question i *)
Onward(q, i) ==
  IF i = 0 THEN 0 ELSE LET r == hostMatch(q, i) IN IF r = 0 THEN 0 ELSE r + 1

Rounds(at, q, n) == at = [j \in 1..n |-> IF j = 1 THEN 1 ELSE Onward(q, at[j - 1])]

(* The recursion of AtQuestion has a solution, for any number of rounds *)
LEMMA RoundsExist ==
  ASSUME NEW q, NEW n \in Nat
  PROVE  \E at : Rounds(at, q, n)
<1> DEFINE T == {k \in Nat : ~ \E at : Rounds(at, q, k)}
<1> SUFFICES ASSUME n \in T PROVE FALSE
  OBVIOUS
<1>1. PICK k \in T : k = 0 \/ (k > 0 /\ k - 1 \in Nat /\ k - 1 \notin T)
  BY FirstRound
<1>2. k \in Nat /\ ~ \E at : Rounds(at, q, k)
  OBVIOUS
<1>3. CASE k = 0
  <2>1. Rounds([j \in 1..0 |-> 0], q, 0)
    BY DEF Rounds
  <2> QED BY <1>2, <1>3, <2>1
<1>4. CASE k > 0 /\ k - 1 \in Nat /\ k - 1 \notin T
  <2>1. PICK f : Rounds(f, q, k - 1)
    BY <1>4
  <2> DEFINE e(j) == IF j = 1 THEN 1 ELSE Onward(q, f[j - 1])
             g == [j \in 1..k |-> e(j)]
  <2>2. \A j \in 1..(k - 1) : f[j] = e(j)
    BY <2>1 DEF Rounds
  <2>3. ASSUME NEW j \in 1..k, j # 1 PROVE j - 1 \in 1..(k - 1) /\ j - 1 \in 1..k
    BY <1>2, <2>3
  <2>4. ASSUME NEW j \in 1..k PROVE g[j] = e(j)
    OBVIOUS
  <2>5. ASSUME NEW j \in 1..k, j # 1 PROVE f[j - 1] = g[j - 1]
    <3> HIDE DEF e, g
    <3> QED BY <2>2, <2>3, <2>4, <2>5
  <2>6. ASSUME NEW j \in 1..k PROVE e(j) = IF j = 1 THEN 1 ELSE Onward(q, g[j - 1])
    <3> HIDE DEF g
    <3> QED BY <2>5
  <2>7. g = [j \in 1..k |-> IF j = 1 THEN 1 ELSE Onward(q, g[j - 1])]
    <3> DEFINE h(j) == IF j = 1 THEN 1 ELSE Onward(q, g[j - 1])
    <3>1. \A j \in 1..k : e(j) = h(j)
      BY <2>6
    <3> HIDE DEF e, h
    <3>2. g = [j \in 1..k |-> h(j)]
      BY <3>1
    <3> QED BY <3>2 DEF h
  <2>8. Rounds(g, q, k)
    BY <2>7 DEF Rounds
  <2> QED BY <1>2, <2>8
<1> QED BY <1>1, <1>3, <1>4

LEMMA AtQuestionRounds ==
  ASSUME NEW q \in Seq(Question)
  PROVE  Rounds(AtQuestion(q), q, Len(q))
<1>1. AtQuestion(q) = CHOOSE at : Rounds(at, q, Len(q))
  BY DEF AtQuestion, Rounds, Onward
<1>2. \E at : Rounds(at, q, Len(q))
  BY RoundsExist
<1> QED BY <1>1, <1>2

(***************************************************************************)
(* handleMDNS stays within the questions of the message: in round j it is  *)
(* at one of the first j, and beyond the first only for a name it takes    *)
(* for its own.                                                            *)
(***************************************************************************)
AtMost(q, at, j) ==
  /\ at[j] \in 0..j
  /\ j > 1 /\ at[j] # 0 => q[1].name \in OwnNames \cup Mistaken

LEMMA StaysWithin ==
  ASSUME NEW q \in Seq(Question), NEW j \in 1..Len(q)
  PROVE  AtMost(q, AtQuestion(q), j)
<1> DEFINE at == AtQuestion(q)
           T == {k \in Nat : k + 1 \in 1..Len(q) /\ ~ AtMost(q, at, k + 1)}
<1>1. ASSUME NEW k \in 1..Len(q) PROVE at[k] = IF k = 1 THEN 1 ELSE Onward(q, at[k - 1])
  BY AtQuestionRounds DEF Rounds
<1> HIDE DEF at
<1> SUFFICES ASSUME ~ AtMost(q, at, j) PROVE FALSE
  BY DEF at
<1>2. j - 1 \in T
  OBVIOUS
<1>3. PICK k \in T : k = 0 \/ (k > 0 /\ k - 1 \in Nat /\ k - 1 \notin T)
  BY <1>2, FirstRound
<1>4. k \in Nat /\ k + 1 \in 1..Len(q) /\ ~ AtMost(q, at, k + 1)
  OBVIOUS
<1> HIDE DEF T
<1>5. CASE k = 0
  BY <1>1, <1>4, <1>5 DEF AtMost
<1>6. CASE k > 0 /\ k - 1 \in Nat /\ k - 1 \notin T
  <2>1. AtMost(q, at, k) /\ k \in 1..Len(q)
    BY <1>4, <1>6 DEF T
  <2>2. at[k + 1] = Onward(q, at[k])
    BY <1>1, <1>4, <1>6
  <2>3. at[k] # 0 => hostMatch(q, at[k]) \in {0, 1, at[k]}
    BY DEF hostMatch
  <2>4. at[k + 1] \in 0..(k + 1)
    BY <2>1, <2>2, <2>3, <1>4 DEF AtMost, Onward
  <2>5. ASSUME at[k + 1] # 0 PROVE q[1].name \in OwnNames \cup Mistaken
    <3>1. at[k] # 0 /\ hostMatch(q, at[k]) # 0
      BY <2>2, <2>5 DEF Onward
    <3>2. CASE k = 1
      <4>1. at[k] = 1 /\ q # <<>>
        BY <1>1, <3>2, <2>1
      <4> QED BY <3>1, <4>1 DEF hostMatch, Mistaken
    <3>3. CASE k > 1
      BY <3>1, <3>3, <2>1 DEF AtMost
    <3> QED BY <1>4, <1>6, <3>2, <3>3
  <2> QED BY <2>4, <2>5, <1>4 DEF AtMost
<1> QED BY <1>3, <1>5, <1>6

(* It goes on as long as the names refer back to the host name *)
LEMMA PassesOver ==
  ASSUME NEW q \in Seq(Question), q # <<>>, q[1].name \in OwnNames,
         NEW k \in 1..Len(q), \A i \in 2..k : q[i].name = "ptr"
  PROVE  AtQuestion(q)[k] = k /\ hostMatch(q, k) = k
<1> DEFINE at == AtQuestion(q)
           T == {i \in Nat : i + 1 \in 1..k /\ at[i + 1] # i + 1}
<1>1. ASSUME NEW i \in 1..Len(q) PROVE at[i] = IF i = 1 THEN 1 ELSE Onward(q, at[i - 1])
  BY AtQuestionRounds DEF Rounds
<1>2. ASSUME NEW i \in 1..k PROVE hostMatch(q, i) = i
  <2>1. i = 1 \/ i \in 2..k
    OBVIOUS
  <2> QED BY <2>1 DEF hostMatch, OwnNames
<1> HIDE DEF at
<1> SUFFICES ASSUME at[k] # k PROVE FALSE
  BY <1>2 DEF at
<1>3. k - 1 \in T
  OBVIOUS
<1>4. PICK i \in T : i = 0 \/ (i > 0 /\ i - 1 \in Nat /\ i - 1 \notin T)
  BY <1>3, FirstRound
<1>5. i \in Nat /\ i + 1 \in 1..k /\ at[i + 1] # i + 1
  OBVIOUS
<1> HIDE DEF T
<1>6. CASE i = 0
  BY <1>1, <1>5, <1>6
<1>7. CASE i > 0 /\ i - 1 \in Nat /\ i - 1 \notin T
  <2>1. at[i] = i /\ i \in 1..k
    BY <1>5, <1>7 DEF T
  <2>2. at[i + 1] = Onward(q, i)
    BY <1>1, <1>5, <1>7, <2>1
  <2> QED BY <1>2, <1>5, <2>1, <2>2, <1>7 DEF Onward
<1> QED BY <1>4, <1>6, <1>7

-----------------------------------------------------------------------------
(* What a reply to m says of it *)
Deserved(by, m, reply) ==
  LET q == m.questions
      Asked(k) == IsTaken(q, k) /\ Asks(by, q[k])
  IN  /\ reply # Unanswered =>
           /\ m.query /\ m.plain
           /\ \E k \in DOMAIN q : Asked(k)
           /\ reply = ReplyLen(by, q[1].name)
      /\ /\ m.query /\ m.plain
         /\ by = "LLMNR" => Len(q) = 1
         /\ \E k \in DOMAIN q : Asked(k) /\ \A i \in 2..k : q[i].name = "ptr"
         /\ q[1].name \in OwnNames
         => reply # Unanswered

LEMMA NameLenIsNat ==
  ASSUME NEW x \in Question
  PROVE  NameLen(x.name) \in Nat
BY NameLenAssumption DEF NameLen, Question, OwnNames, Mistaken

LEMMA LLMNRDeserved ==
  ASSUME NEW m \in Heard
  PROVE  Deserved("LLMNR", m, handleLLMNR(m))
<1> DEFINE q == m.questions
           i == hostMatch(q, 1)
           N == NameLen(q[1].name)
<1>1. q \in Seq(Question)
  BY HeardAssumption DEF Message
<1>2. ASSUME Len(q) = 1
      PROVE  q[1] \in Question /\ DOMAIN q = {1} /\ N \in Nat
    <2>1. q[1] \in Question /\ DOMAIN q = {1}
      BY <1>1, <1>2
    <2> QED BY <2>1, NameLenIsNat
<1>3. i = IF q[1].name \in OwnNames \cup Mistaken THEN 1 ELSE 0
  BY DEF hostMatch, Mistaken, OwnNames
<1>4. handleLLMNR(m) =
        IF Len(q) = 1 /\ m.plain /\ m.query /\ i # 0
             /\ (AddressType(q[i]) \/ q[i].type = "ANY") /\ InternetLLMNR(q[i])
        THEN 2 * (NameLen(q[i].name) + 4) + 8 + 14 ELSE Unanswered
  BY DEF handleLLMNR
<1>5. ASSUME Len(q) = 1, N \in Nat
      PROVE  /\ 2 * (N + 4) + 8 + 14 = ReplyLen("LLMNR", q[1].name)
             /\ 2 * (N + 4) + 8 + 14 # Unanswered
  BY <1>5 DEF ReplyLen, Unanswered
<1> HIDE DEF q, i, N
<1>6. ASSUME handleLLMNR(m) # Unanswered
      PROVE  /\ m.query /\ m.plain
             /\ \E k \in DOMAIN q : IsTaken(q, k) /\ Asks("LLMNR", q[k])
             /\ handleLLMNR(m) = ReplyLen("LLMNR", q[1].name)
  <2>1. /\ Len(q) = 1 /\ m.plain /\ m.query /\ i # 0
        /\ AddressType(q[i]) \/ q[i].type = "ANY"
        /\ InternetLLMNR(q[i])
        /\ handleLLMNR(m) = 2 * (NameLen(q[i].name) + 4) + 8 + 14
    BY <1>4, <1>6
  <2>2. i = 1 /\ q[1].name \in OwnNames \cup Mistaken
    BY <1>3, <2>1
  <2>3. 1 \in DOMAIN q /\ IsTaken(q, 1) /\ Asks("LLMNR", q[1])
    BY <1>2, <2>1, <2>2 DEF IsTaken, Asks, AddressType, InternetLLMNR
  <2>4. handleLLMNR(m) = ReplyLen("LLMNR", q[1].name)
    BY <1>2, <1>5, <2>1, <2>2 DEF N
  <2> QED BY <2>1, <2>3, <2>4
<1>7. ASSUME m.query, m.plain, Len(q) = 1,
             NEW k \in DOMAIN q, IsTaken(q, k) /\ Asks("LLMNR", q[k])
      PROVE  handleLLMNR(m) # Unanswered
  <2>1. k = 1 /\ i = 1
    BY <1>2, <1>3, <1>7 DEF IsTaken
  <2>3. handleLLMNR(m) = 2 * (N + 4) + 8 + 14
    BY <1>4, <1>7, <2>1 DEF Asks, AddressType, InternetLLMNR, N
  <2> QED BY <1>2, <1>5, <1>7, <2>3
<1> QED BY <1>6, <1>7 DEF Deserved, q

LEMMA MDNSDeserved ==
  ASSUME NEW m \in Heard
  PROVE  Deserved("mDNS", m, handleMDNS(m))
<1> DEFINE q == m.questions
           at == AtQuestion(q)
           N == NameLen(q[1].name)
           Answers(j) == /\ at[j] # 0
                         /\ hostMatch(q, at[j]) # 0
                         /\ AddressType(q[hostMatch(q, at[j])])
                         /\ InternetMDNS(q[hostMatch(q, at[j])])
<1>1. q \in Seq(Question)
  BY HeardAssumption DEF Message
<1>2. handleMDNS(m) = IF m.plain /\ m.query /\ \E j \in 1..Len(q) : Answers(j)
                      THEN 12 + N + 14 ELSE Unanswered
  BY DEF handleMDNS
<1>3. ASSUME NEW j \in 1..Len(q)
      PROVE  /\ N \in Nat /\ q # <<>>
             /\ 12 + N + 14 # Unanswered /\ 12 + N + 14 = ReplyLen("mDNS", q[1].name)
  <2>1. q[1] \in Question /\ q # <<>>
    BY <1>1
  <2>2. N \in Nat
    BY <2>1, NameLenIsNat
  <2> QED BY <2>1, <2>2 DEF ReplyLen, Unanswered
<1>4. ASSUME NEW j \in 1..Len(q) PROVE AtMost(q, at, j)
  BY <1>1, StaysWithin
<1>5. ASSUME q # <<>>, q[1].name \in OwnNames,
             NEW k \in 1..Len(q), \A i \in 2..k : q[i].name = "ptr"
      PROVE  at[k] = k /\ hostMatch(q, k) = k
  BY <1>1, <1>5, PassesOver
<1>6. DOMAIN q = 1..Len(q) /\ Len(q) \in Nat
  BY <1>1
<1> HIDE DEF q, at, N
<1>7. ASSUME handleMDNS(m) # Unanswered
      PROVE  /\ m.query /\ m.plain
             /\ \E k \in DOMAIN q : IsTaken(q, k) /\ Asks("mDNS", q[k])
             /\ handleMDNS(m) = ReplyLen("mDNS", q[1].name)
  <2>1. m.plain /\ m.query /\ handleMDNS(m) = 12 + N + 14 /\ \E j \in 1..Len(q) : Answers(j)
    BY <1>2, <1>7
  <2>2. PICK j \in 1..Len(q) : Answers(j)
    BY <2>1
  <2> DEFINE r == hostMatch(q, at[j])
  <2>3. j \in 1..Len(q) /\ at[j] \in 0..j /\ (j > 1 => q[1].name \in OwnNames \cup Mistaken)
    BY <1>4, <2>2 DEF AtMost
  <2>4. j = 1 => at[j] = 1
    BY <2>2, <2>3
  <2>5. /\ r \in 1..Len(q) /\ q[1].name \in OwnNames \cup Mistaken
        /\ r = 1 \/ q[r].name = "ptr"
    BY <1>6, <2>2, <2>3, <2>4 DEF hostMatch, Mistaken
  <2>6. IsTaken(q, r) /\ Asks("mDNS", q[r])
    BY <2>2, <2>5 DEF IsTaken, Asks, AddressType, InternetMDNS
  <2>7. handleMDNS(m) = ReplyLen("mDNS", q[1].name)
    BY <1>3, <2>1, <2>2
  <2> QED BY <1>6, <2>1, <2>5, <2>6, <2>7
<1>8. ASSUME m.query, m.plain, NEW k \in DOMAIN q, IsTaken(q, k) /\ Asks("mDNS", q[k]),
             \A i \in 2..k : q[i].name = "ptr", q[1].name \in OwnNames
      PROVE  handleMDNS(m) # Unanswered
  <2>1. k \in 1..Len(q) /\ q # <<>>
    BY <1>3, <1>6
  <2>3. at[k] = k /\ hostMatch(q, k) = k
    BY <1>5, <1>8, <2>1
  <2>4. Answers(k)
    BY <1>8, <2>1, <1>6, <2>3 DEF Asks, AddressType, InternetMDNS
  <2>5. handleMDNS(m) = 12 + N + 14
    BY <1>2, <1>8, <2>1, <2>4
  <2> QED BY <1>3, <2>1, <2>5
<1> QED BY <1>7, <1>8 DEF Deserved, q

(***************************************************************************)
(* A name responder replies to its own name, and to a name that goes on    *)
(* behind its own or is a cross reference, which hostMatch mistakes for    *)
(* it, but to no other; and does reply to its own.  For messages of any    *)
(* number of questions, with any names.                                    *)
(***************************************************************************)
THEOREM OwnNameIsAnswered == HearSpec => []OnlyOwnNameAnswered
<1> DEFINE Replied(by, m) == [by |-> by, m |-> m,
                              reply |-> IF by = "LLMNR" THEN handleLLMNR(m) ELSE handleMDNS(m)]
           Inv == heard \in Calls \cup {Silence}
                             \cup {Replied(by, m) : by \in {"LLMNR", "mDNS"}, m \in Heard}
<1>1. HearInit => Inv
  BY DEF HearInit
<1>2. Inv /\ [Respond]_heard => Inv'
  <2> SUFFICES ASSUME Inv, [Respond]_heard PROVE Inv'
    OBVIOUS
  <2>1. CASE UNCHANGED heard
    BY <2>1
  <2>2. CASE Respond
    <3>1. heard \in Calls \/ \E by \in {"LLMNR", "mDNS"}, m \in Heard : heard = Replied(by, m)
      BY <2>2 DEF Respond, Silence
    <3>2. PICK by \in {"LLMNR", "mDNS"}, m \in Heard : heard.by = by /\ heard.m = m
                 /\ DOMAIN heard = {"by", "m", "reply"}
                 /\ heard = [by |-> by, m |-> m, reply |-> heard.reply]
      BY <3>1 DEF Calls
    <3>3. heard' = Replied(by, m)
      BY <3>2, <2>2 DEF Respond
    <3> QED BY <3>3
  <2> QED BY <2>1, <2>2
<1>3. Inv => OnlyOwnNameAnswered
  <2> SUFFICES ASSUME Inv, heard.reply # NotYet
               PROVE  Deserved(heard.by, heard.m, heard.reply)
    BY DEF OnlyOwnNameAnswered, Deserved
  <2>1. PICK by \in {"LLMNR", "mDNS"}, m \in Heard : heard = Replied(by, m)
    BY DEF Calls, Silence
  <2> QED BY <2>1, LLMNRDeserved, MDNSDeserved
<1> QED BY <1>1, <1>2, <1>3, PTL DEF HearSpec

-----------------------------------------------------------------------------
(* Days from the beginning of 2000 to that of year y; the next leap year is 2004 *)
Days(y) == 365 * (y - 2000) + (y + 3) \div 4 - 500

LEMMA DaysAreInt == ASSUME NEW y \in Int PROVE Days(y) \in Int
BY DEF Days

LEMMA LeapYears ==
  ASSUME NEW y \in Int, 2000 <= y, y <= 2100
  PROVE  /\ leapYear(y) \in {0, 1}
         /\ y < 2100 => leapYear(y) = IF y % 4 = 0 THEN 1 ELSE 0
         /\ y = 2100 => leapYear(y) = 0
BY DEF leapYear

LEMMA DaysOfYear ==
  ASSUME NEW y \in Int, 2000 <= y, y < 2100
  PROVE  Days(y + 1) = Days(y) + 365 + leapYear(y)
<1>1. leapYear(y) = IF y % 4 = 0 THEN 1 ELSE 0
  BY LeapYears
<1> QED BY <1>1 DEF Days

LEMMA YearStarts ==
  ASSUME NEW y \in 2000..LastYear
  PROVE  YearStart[y] = Days(y)
<1> DEFINE S == 2000..LastYear
           E(f, z) == IF z = 2000 THEN 0 ELSE f[z - 1] + 365 + leapYear(z - 1)
           Solves(f) == f = [z \in S |-> E(f, z)]
           g == [z \in S |-> Days(z)]
<1>l. LastYear \in Int /\ 2001 <= LastYear /\ LastYear <= 2100
  BY LastYearAssumption
<1>0. YearStart = CHOOSE f : Solves(f)
  BY DEF YearStart
<1>1. ASSUME NEW z \in S PROVE Days(z) = E(g, z)
  <2>1. CASE z = 2000
    BY <2>1 DEF Days
  <2>2. CASE z # 2000
    <3>1. z - 1 \in Int /\ 2000 <= z - 1 /\ z - 1 < 2100 /\ z - 1 \in S /\ (z - 1) + 1 = z
      BY <2>2, <1>l
    <3>2. g[z - 1] = Days(z - 1)
      BY <3>1
    <3>3. Days(z) = Days(z - 1) + 365 + leapYear(z - 1)
      BY <3>1, DaysOfYear
    <3> HIDE DEF g
    <3> QED BY <3>2, <3>3, <2>2
  <2> QED BY <2>1, <2>2
<1>2. ASSUME NEW f, Solves(f), NEW z \in S PROVE f[z] = E(f, z)
  <2> HIDE DEF E, S
  <2> QED BY <1>2
<1> HIDE DEF S, E
<1>3. Solves(g)
  BY <1>1
<1>4. Solves(YearStart)
  <2> HIDE DEF Solves
  <2> QED BY <1>0, <1>3
<1>5. ASSUME NEW z \in 2000..LastYear
      PROVE  YearStart[z] = IF z = 2000 THEN 0 ELSE YearStart[z - 1] + 365 + leapYear(z - 1)
  <2>1. YearStart[z] = E(YearStart, z)
    <3> HIDE DEF Solves
    <3> QED BY <1>2, <1>4 DEF S
  <2> QED BY <2>1 DEF E
<1> DEFINE T == {k \in Nat : 2000 + k \in 2000..LastYear /\ YearStart[2000 + k] # Days(2000 + k)}
<1> SUFFICES ASSUME YearStart[y] # Days(y) PROVE FALSE
  OBVIOUS
<1>6. y - 2000 \in T
  BY <1>l
<1>7. PICK k \in T : k = 0 \/ (k > 0 /\ k - 1 \in Nat /\ k - 1 \notin T)
  <2>1. T \in SUBSET Nat
    OBVIOUS
  <2> HIDE DEF T
  <2> QED BY <1>6, <2>1, FirstRound
<1>8. k \in Nat /\ 2000 + k \in 2000..LastYear /\ YearStart[2000 + k] # Days(2000 + k)
  OBVIOUS
<1> HIDE DEF T
<1>9. CASE k = 0
  <2>1. YearStart[2000] = 0 /\ Days(2000) = 0
    BY <1>5, <1>l DEF Days
  <2> QED BY <1>8, <1>9, <2>1
<1>10. CASE k > 0 /\ k - 1 \in Nat /\ k - 1 \notin T
  <2> DEFINE z == 2000 + k
  <2>1. z \in 2000..LastYear /\ z # 2000 /\ z - 1 = 2000 + (k - 1) /\ z - 1 \in 2000..LastYear
        /\ z - 1 \in Int /\ 2000 <= z - 1 /\ z - 1 < 2100 /\ (z - 1) + 1 = z
    BY <1>8, <1>10, <1>l
  <2>2. YearStart[z - 1] = Days(z - 1)
    BY <1>10, <2>1 DEF T
  <2>3. Days(z) = Days(z - 1) + 365 + leapYear(z - 1)
    BY <2>1, DaysOfYear
  <2>4. YearStart[z] = YearStart[z - 1] + 365 + leapYear(z - 1)
    BY <1>5, <2>1
  <2> QED BY <1>8, <2>2, <2>3, <2>4
<1> QED BY <1>7, <1>9, <1>10

(* Days from the beginning of a year to that of its month m, with l days more in February *)
Before(m, l) ==
  CASE m = 1 -> 0        [] m = 2 -> 31       [] m = 3 -> 59 + l   [] m = 4 -> 90 + l
    [] m = 5 -> 120 + l  [] m = 6 -> 151 + l  [] m = 7 -> 181 + l  [] m = 8 -> 212 + l
    [] m = 9 -> 243 + l  [] m = 10 -> 273 + l [] m = 11 -> 304 + l [] m = 12 -> 334 + l
    [] m = 13 -> 365 + l

LEMMA MarchAndOctober ==
  ASSUME NEW l \in {0, 1}
  PROVE  Before(3, l) = 59 + l /\ Before(10, l) = 273 + l
<1>1. ASSUME NEW m \in {3, 10} PROVE Before(m, l) = IF m = 3 THEN 59 + l ELSE 273 + l
  BY DEF Before
<1> QED BY <1>1

LEMMA Months ==
  ASSUME NEW m \in 1..12
  PROVE  m \in {1, 2, 3, 4, 5, 6, 7, 8, 9, 10, 11, 12}
OBVIOUS

LEMMA DaysOfMonth ==
  ASSUME NEW m \in 1..12, NEW y \in Int, 2000 <= y, y <= 2100, NEW l \in {0, 1}, l = leapYear(y)
  PROVE  /\ Before(m, l) \in 0..335 /\ Before(m + 1, l) \in Nat
         /\ Before(m + 1, l) = Before(m, l) + mon(m, y)
         /\ mon(m, y) \in 28..31
<1>1. m \in {1, 2, 3, 4, 5, 6, 7, 8, 9, 10, 11, 12}
  BY Months
<1> QED BY <1>1 DEF Before, mon

LEMMA MonthStarts ==
  ASSUME NEW y \in Int, 2000 <= y, y <= 2100, NEW l, l = leapYear(y), NEW s, s = MonthStart(y)
  PROVE  \A m \in 1..12 : s[m] = Before(m, l)
<1> DEFINE E(f, n) == IF n = 1 THEN 0 ELSE f[n - 1] + mon(n - 1, y)
           Solves(f) == f = [n \in 1..12 |-> E(f, n)]
           b(n) == Before(n, l)
           g == [n \in 1..12 |-> b(n)]
<1>1. b(1) = 0 /\ \A n \in 2..12 : b(n) = b(n - 1) + mon(n - 1, y) /\ b(n) \in Nat
  <2>1. b(1) = 0
    BY DEF Before
  <2>l. l \in {0, 1}
    BY LeapYears
  <2>0. ASSUME NEW n \in 1..12
        PROVE  Before(n, l) \in 0..335 /\ Before(n + 1, l) = Before(n, l) + mon(n, y)
    BY <2>l, Months DEF Before, mon
  <2>2. ASSUME NEW n \in 2..12 PROVE b(n) = b(n - 1) + mon(n - 1, y) /\ b(n) \in Nat
    <3>1. n - 1 \in 1..12 /\ n \in 1..12 /\ (n - 1) + 1 = n
      OBVIOUS
    <3>2. Before((n - 1) + 1, l) = Before(n - 1, l) + mon(n - 1, y) /\ Before(n, l) \in 0..335
      BY <3>1, <2>0
    <3> QED BY <3>1, <3>2
  <2> QED BY <2>1, <2>2
<1> HIDE DEF b
<1>2. ASSUME NEW n \in 1..12 PROVE b(n) = E(g, n)
  <2>1. CASE n = 1
    BY <2>1, <1>1
  <2>2. CASE n # 1
    <3>1. n - 1 \in 1..12 /\ n \in 2..12
      BY <2>2
    <3> QED BY <3>1, <1>1, <2>2
  <2> QED BY <2>1, <2>2
<1>3. Solves(g)
  <2> HIDE DEF E
  <2>1. [n \in 1..12 |-> b(n)] = [n \in 1..12 |-> E(g, n)]
    BY <1>2
  <2> QED BY <2>1
<1> DEFINE f == MonthStart(y)
<1>4. f = CHOOSE h : Solves(h)
  BY DEF MonthStart
<1>5. Solves(f)
  <2> HIDE DEF Solves, f
  <2> QED BY <1>3, <1>4
<1>6. ASSUME NEW n \in 1..12 PROVE f[n] = IF n = 1 THEN 0 ELSE f[n - 1] + mon(n - 1, y)
  <2> HIDE DEF f
  <2> QED BY <1>5
<1> HIDE DEF f
<1>7. f[1] = b(1)
  BY <1>1, <1>6
<1>8. ASSUME NEW n \in 2..12, f[n - 1] = b(n - 1) PROVE f[n] = b(n)
  <2>1. n \in 1..12 /\ n # 1
    OBVIOUS
  <2> QED BY <2>1, <1>1, <1>6, <1>8
<1>9. f[2] = b(2) /\ f[3] = b(3) /\ f[4] = b(4) /\ f[5] = b(5) /\ f[6] = b(6) /\ f[7] = b(7)
      /\ f[8] = b(8) /\ f[9] = b(9) /\ f[10] = b(10) /\ f[11] = b(11) /\ f[12] = b(12)
  BY <1>7, <1>8
<1> QED BY <1>7, <1>9, Months DEF f, b

(* The calendar of YearStart and MonthStart is the Gregorian one *)
LEMMA GregorianDays ==
  ASSUME NEW y \in Int, 2000 <= y, y <= 2100, NEW m \in 1..12, NEW d \in Int
  PROVE  DaysSince2000(y, m, d) = Days(y) + Before(m, leapYear(y)) + d - 1
<1>1. Gregorian(2000, 1, 1) = 730425
  BY DEF Gregorian
<1>2. m \in {1, 2, 3, 4, 5, 6, 7, 8, 9, 10, 11, 12}
  BY Months
<1>3. CASE y < 2100
  <2>1. leapYear(y) = IF y % 4 = 0 THEN 1 ELSE 0
    BY <1>3, LeapYears
  <2>2. y \div 100 = 20 /\ y \div 400 = 5
    BY <1>3
  <2>3. /\ (y - 1) \div 100 = IF y = 2000 THEN 19 ELSE 20
        /\ (y - 1) \div 400 = IF y = 2000 THEN 4 ELSE 5
    BY <1>3
  <2>4. (y + 3) \div 4 = y \div 4 + (IF y % 4 = 0 THEN 0 ELSE 1)
    OBVIOUS
  <2>5. (y - 1) \div 4 = y \div 4 - (IF y % 4 = 0 THEN 1 ELSE 0)
    OBVIOUS
  <2> DEFINE q == y \div 4
  <2>6. q \in Int
    OBVIOUS
  <2>7. CASE m > 2
    <3>1. Gregorian(y, m, d) = 365 * y + q - 20 + 5 + (153 * ((m + 9) % 12) + 2) \div 5 + d - 1
      BY <2>2, <2>7 DEF Gregorian
    <3>2. (153 * ((m + 9) % 12) + 2) \div 5 = Before(m, 0) - 59
      BY <1>2, <2>7 DEF Before
    <3>3. Before(m, leapYear(y)) = Before(m, 0) + leapYear(y) /\ Before(m, 0) \in Int
      BY <1>2, <2>7, <2>1 DEF Before
    <3> QED BY <1>1, <2>1, <2>4, <2>6, <3>1, <3>2, <3>3 DEF DaysSince2000, Days
  <2>8. CASE m <= 2
    <3>1. Gregorian(y, m, d) = 365 * (y - 1) + (y - 1) \div 4 - (y - 1) \div 100 + (y - 1) \div 400
                               + (153 * ((m + 9) % 12) + 2) \div 5 + d - 1
      BY <2>8 DEF Gregorian
    <3>2. (153 * ((m + 9) % 12) + 2) \div 5 = Before(m, leapYear(y)) + 306
          /\ Before(m, leapYear(y)) \in Int
      BY <1>2, <2>8 DEF Before
    <3>3. y = 2000 => y % 4 = 0 /\ q = 500
      OBVIOUS
    <3> QED BY <1>1, <2>3, <2>4, <2>5, <2>6, <3>1, <3>2, <3>3 DEF DaysSince2000, Days
  <2> QED BY <2>7, <2>8
<1>4. CASE y = 2100
  <2>1. leapYear(2100) = 0
    BY LeapYears, <1>4
  <2> QED BY <1>1, <1>2, <1>4, <2>1 DEF DaysSince2000, Gregorian, Days, Before
<1> QED BY <1>3, <1>4

-----------------------------------------------------------------------------
(* The loops of parseTime *)

(* The loop over the years stops at the year of t, or of the second before t *)
LEMMA YearFound ==
  ASSUME NEW t \in Nat, t < YearStart[LastYear] * DAY_IN_SECONDS, NEW y, y = YearOf(t)
  PROVE  /\ y \in 2000..(LastYear - 1)
         /\ Days(y) * 86400 <= t /\ t <= Days(y + 1) * 86400
         /\ y > 2000 => Days(y) * 86400 < t
<1> DEFINE Ok(z) == /\ Stops(t, YearStart[z], 365 + leapYear(z))
                    /\ z > 2000 => ~ Stops(t, YearStart[z - 1], 365 + leapYear(z - 1))
<1>l. LastYear \in Int /\ 2001 <= LastYear /\ LastYear <= 2100
  BY LastYearAssumption
<1>1. ASSUME NEW z \in 2000..(LastYear - 1)
      PROVE  Stops(t, YearStart[z], 365 + leapYear(z)) <=> t <= Days(z + 1) * 86400
  <2>1. z \in Int /\ 2000 <= z /\ z < 2100 /\ z \in 2000..LastYear
    BY <1>l
  <2>2. YearStart[z] = Days(z) /\ Days(z + 1) = Days(z) + 365 + leapYear(z)
    BY <2>1, YearStarts, DaysOfYear
  <2>3. Days(z) \in Int /\ leapYear(z) \in {0, 1}
    BY <2>1, LeapYears, DaysAreInt
  <2> QED BY <2>2, <2>3 DEF Stops, Left, DAY_IN_SECONDS
<1>2. ASSUME NEW z \in 2000..(LastYear - 1)
      PROVE  Ok(z) <=> t <= Days(z + 1) * 86400 /\ (z > 2000 => ~ (t <= Days(z) * 86400))
  <2>1. CASE z > 2000
    <3>1. z - 1 \in 2000..(LastYear - 1) /\ (z - 1) + 1 = z
      BY <2>1, <1>l
    <3>2. Stops(t, YearStart[z - 1], 365 + leapYear(z - 1)) <=> t <= Days(z) * 86400
      BY <1>1, <3>1
    <3> QED BY <1>1, <3>2
  <2>2. CASE ~ (z > 2000)
    BY <1>1, <2>2
  <2> QED BY <2>1, <2>2
<1> HIDE DEF Ok
<1>3. \E z \in 2000..(LastYear - 1) : Ok(z)
  <2> DEFINE T == {k \in Nat : 2000 + k \in 2000..(LastYear - 1) /\ t <= Days(2001 + k) * 86400}
  <2>1. LastYear - 2001 \in T
    <3>1. LastYear \in 2000..LastYear /\ YearStart[LastYear] = Days(LastYear)
      BY <1>l, YearStarts
    <3>2. Days(LastYear) \in Int
      BY <1>l, DaysAreInt
    <3>3. t <= Days(LastYear) * 86400 /\ 2001 + (LastYear - 2001) = LastYear
      BY <3>1, <3>2, <1>l DEF DAY_IN_SECONDS
    <3> QED BY <3>3, <1>l
  <2>2. PICK k \in T : k = 0 \/ (k > 0 /\ k - 1 \in Nat /\ k - 1 \notin T)
    <3>1. T \in SUBSET Nat
      OBVIOUS
    <3>2. PICK n : n \in T
      BY <2>1
    <3> HIDE DEF T
    <3> QED BY <3>1, <3>2, FirstRound
  <2>3. k \in Nat /\ 2000 + k \in 2000..(LastYear - 1) /\ t <= Days(2001 + k) * 86400
    OBVIOUS
  <2>4. k # 0 => ~ (t <= Days(2000 + k) * 86400)
    <3> SUFFICES ASSUME k # 0 PROVE ~ (t <= Days(2000 + k) * 86400)
      OBVIOUS
    <3>1. k - 1 \notin T /\ k - 1 \in Nat
      BY <2>2
    <3>2. 2000 + (k - 1) \in 2000..(LastYear - 1) /\ 2001 + (k - 1) = 2000 + k
      BY <2>3, <3>1, <1>l
    <3> QED BY <3>1, <3>2
  <2> HIDE DEF T
  <2>5. (2000 + k) + 1 = 2001 + k /\ (2000 + k > 2000 => k # 0)
    BY <2>3
  <2>6. Ok(2000 + k)
    BY <1>2, <2>3, <2>4, <2>5
  <2> QED BY <2>3, <2>6
<1>4. y = CHOOSE z \in 2000..(LastYear - 1) : Ok(z)
  BY DEF YearOf, Ok
<1>5. y \in 2000..(LastYear - 1) /\ Ok(y)
  BY <1>3, <1>4
<1>6. t <= Days(y + 1) * 86400 /\ (y > 2000 => ~ (t <= Days(y) * 86400))
  BY <1>2, <1>5
<1>7. Days(y) \in Int /\ Days(2000) = 0 /\ (y = 2000 \/ y > 2000)
  BY <1>5, <1>l DEF Days
<1> QED BY <1>5, <1>6, <1>7

(* The loop over the months stops at that of t, or of the second before t *)
LEMMA MonthFound ==
  ASSUME NEW y \in Int, 2000 <= y, y <= 2100, NEW l \in {0, 1}, l = leapYear(y),
         NEW t \in Nat, t <= (365 + l) * 86400, NEW m, m = MonthOf(t, y)
  PROVE  /\ m \in 1..12
         /\ Before(m, l) * 86400 <= t /\ t <= Before(m + 1, l) * 86400
<1> DEFINE start == MonthStart(y)
           Ok(n) == /\ Stops(t, start[n], mon(n, y))
                    /\ n > 1 => ~ Stops(t, start[n - 1], mon(n - 1, y))
<1>s. \A n \in 1..12 : start[n] = Before(n, l)
  <2>1. start = MonthStart(y)
    OBVIOUS
  <2> HIDE DEF start, Ok
  <2> QED BY <2>1, MonthStarts
<1>1. ASSUME NEW n \in 1..12
      PROVE  Stops(t, start[n], mon(n, y)) <=> t <= Before(n + 1, l) * 86400
  <2>1. start[n] = Before(n, l)
    BY <1>s
  <2>2. Before(n, l) \in Int /\ mon(n, y) \in Int /\ Before(n + 1, l) = Before(n, l) + mon(n, y)
    BY Months DEF Before, mon
  <2> HIDE DEF start
  <2> QED BY <2>1, <2>2 DEF Stops, Left, DAY_IN_SECONDS
<1>2. ASSUME NEW n \in 1..12
      PROVE  Ok(n) <=> t <= Before(n + 1, l) * 86400 /\ (n > 1 => ~ (t <= Before(n, l) * 86400))
  <2>1. CASE n > 1
    <3>1. n - 1 \in 1..12 /\ (n - 1) + 1 = n
      BY <2>1
    <3>2. Stops(t, start[n - 1], mon(n - 1, y)) <=> t <= Before(n, l) * 86400
      BY <1>1, <3>1
    <3> QED BY <1>1, <3>2
  <2>2. CASE ~ (n > 1)
    BY <1>1, <2>2
  <2> QED BY <2>1, <2>2
<1>3. m = CHOOSE n \in 1..12 : Ok(n)
  BY DEF MonthOf
<1> HIDE DEF Ok, start
<1>4. \E n \in 1..12 : Ok(n)
  <2> DEFINE In(n) == t <= Before(n + 1, l) * 86400 /\ (n > 1 => ~ (t <= Before(n, l) * 86400))
  <2>1. \/ In(1) \/ In(2) \/ In(3) \/ In(4) \/ In(5) \/ In(6) \/ In(7) \/ In(8) \/ In(9)
        \/ In(10) \/ In(11) \/ In(12)
    BY DEF Before
  <2> HIDE DEF In
  <2>2. \E n \in 1..12 : In(n)
    BY <2>1
  <2> QED BY <1>2, <2>2 DEF In
<1>5. m \in 1..12 /\ Ok(m)
  BY <1>3, <1>4
<1>6. t <= Before(m + 1, l) * 86400 /\ (m > 1 => ~ (t <= Before(m, l) * 86400))
  BY <1>2, <1>5
<1>7. Before(m, l) \in Int /\ (m = 1 => Before(m, l) = 0) /\ (m = 1 \/ m > 1)
  BY <1>5, Months DEF Before
<1> QED BY <1>5, <1>6, <1>7

-----------------------------------------------------------------------------
(* Summer time *)

(* The day after which the clocks are changed is the last Sunday of the month *)
LEMMA SundayIn ==
  ASSUME NEW y \in Int, 2000 <= y, y <= 2100, NEW m \in {3, 10}
  PROVE  /\ LastSunday(y, m) \in 25..31
         /\ (Days(y) + Before(m, leapYear(y)) + LastSunday(y, m) - 1 + 5) % 7 = 6
<1> DEFINE b == Days(y) + Before(m, leapYear(y)) + 4
<1>1. b \in Int
  <2>1. Days(y) \in Int /\ leapYear(y) \in {0, 1}
    BY LeapYears, DaysAreInt
  <2>2. Before(m, leapYear(y)) \in Int
    BY <2>1 DEF Before
  <2> QED BY <2>1, <2>2
<1>2. ASSUME NEW d \in 25..31
      PROVE  Weekday(DaysSince2000(y, m, d)) = (b + d) % 7
  <2>1. DaysSince2000(y, m, d) = Days(y) + Before(m, leapYear(y)) + d - 1
    BY GregorianDays
  <2>2. Days(y) \in Int /\ Before(m, leapYear(y)) \in Int
    BY LeapYears, DaysAreInt DEF Before
  <2> QED BY <2>1, <2>2 DEF Weekday
<1>3. LastSunday(y, m) = CHOOSE d \in 25..31 : Weekday(DaysSince2000(y, m, d)) = 6
  BY DEF LastSunday
<1>b. (Days(y) + Before(m, leapYear(y)) + LastSunday(y, m) - 1 + 5) % 7 = (b + LastSunday(y, m)) % 7
      \/ LastSunday(y, m) \notin 25..31
  <2>1. Days(y) \in Int /\ Before(m, leapYear(y)) \in Int
    BY LeapYears, DaysAreInt DEF Before
  <2> QED BY <2>1
<1> HIDE DEF b
<1>4. \E d \in 25..31 : (b + d) % 7 = 6
  BY <1>1
<1>5. \E d \in 25..31 : Weekday(DaysSince2000(y, m, d)) = 6
  BY <1>2, <1>4
<1>6. LastSunday(y, m) \in 25..31 /\ Weekday(DaysSince2000(y, m, LastSunday(y, m))) = 6
  BY <1>3, <1>5
<1> QED BY <1>2, <1>6, <1>b

LEMMA SundayFormula ==
  ASSUME NEW y \in Int, 2000 <= y, y < 2100
  PROVE  /\ LastSunday(y, 3) = 31 - (((5 * y) \div 4 + 4) % 7)
         /\ LastSunday(y, 10) = 31 - (((5 * y) \div 4 + 1) % 7)
<1> DEFINE a == y \div 4
           b == y % 4
           l == leapYear(y)
<1>1. /\ a \in 500..524 /\ b \in 0..3 /\ y = 4 * a + b
      /\ l = (IF b = 0 THEN 1 ELSE 0) /\ (y + 3) \div 4 = a + (IF b = 0 THEN 0 ELSE 1)
      /\ (5 * y) \div 4 = 5 * a + b
  BY LeapYears
<1>2. Before(3, l) = 59 + l /\ Before(10, l) = 273 + l
  <2>1. l \in {0, 1}
    BY LeapYears
  <2> HIDE DEF l
  <2> QED BY <2>1, MarchAndOctober
<1>3. /\ LastSunday(y, 3) \in 25..31 /\ LastSunday(y, 10) \in 25..31
      /\ (Days(y) + Before(3, l) + LastSunday(y, 3) - 1 + 5) % 7 = 6
      /\ (Days(y) + Before(10, l) + LastSunday(y, 10) - 1 + 5) % 7 = 6
  BY SundayIn
<1>4. Days(y) = 365 * (y - 2000) + (y + 3) \div 4 - 500
  BY DEF Days
<1> HIDE DEF a, b, l
<1>5. Days(y) + l = 1461 * a + 365 * b - 730499
  BY <1>1, <1>4, SMT
<1> DEFINE s3 == LastSunday(y, 3)
           s10 == LastSunday(y, 10)
<1>6. /\ Days(y) + Before(3, l) + s3 - 1 + 5 = 1461 * a + 365 * b - 730436 + s3
      /\ Days(y) + Before(10, l) + s10 - 1 + 5 = 1461 * a + 365 * b - 730222 + s10
  <2>1. Days(y) \in Int /\ l \in Int /\ a \in Int /\ b \in Int
    BY <1>1, DaysAreInt
  <2>2. s3 \in Int /\ s10 \in Int
    BY <1>3
  <2> HIDE DEF s3, s10
  <2> QED BY <2>1, <2>2, <1>2, <1>5, SMT
<1>7. (1461 * a + 365 * b - 730436 + s3) % 7 = 6 /\ (1461 * a + 365 * b - 730222 + s10) % 7 = 6
  BY <1>3, <1>6, SMT
<1> HIDE DEF s3, s10
<1>8. s3 \in 25..31 /\ s10 \in 25..31
  BY <1>3 DEF s3, s10
<1>9. s3 = 31 - ((5 * a + b + 4) % 7)
  BY <1>1, <1>7, <1>8, SMTT(30)
<1>10. s10 = 31 - ((5 * a + b + 1) % 7)
  BY <1>1, <1>7, <1>8, SMTT(30)
<1> QED BY <1>1, <1>9, <1>10 DEF s3, s10

(* Summer time begins and ends within a year *)
Begins(y) == (Days(y) + Before(3, leapYear(y)) + LastSunday(y, 3) - 1) * 86400 + 3600
Ends(y) == (Days(y) + Before(10, leapYear(y)) + LastSunday(y, 10) - 1) * 86400 + 3600

LEMMA Within ==
  ASSUME NEW y \in Int, 2000 <= y, y <= 2100
  PROVE  /\ Begins(y) \in Int /\ Ends(y) \in Int
         /\ Days(y) * 86400 < Begins(y) /\ Ends(y) < (Days(y) + 365) * 86400
<1>1. leapYear(y) \in {0, 1} /\ Days(y) \in Int
  BY LeapYears, DaysAreInt
<1>2. LastSunday(y, 3) \in 25..31 /\ LastSunday(y, 10) \in 25..31
  BY SundayIn
<1>3. Before(3, leapYear(y)) = 59 + leapYear(y) /\ Before(10, leapYear(y)) = 273 + leapYear(y)
  BY <1>1, MarchAndOctober
<1> QED BY <1>1, <1>2, <1>3 DEF Begins, Ends

LEMMA SummerOfYear ==
  ASSUME NEW y \in Int, 2000 <= y, y < 2100, y < LastYear, NEW t \in Nat,
         Days(y) * 86400 <= t, t <= Days(y + 1) * 86400
  PROVE  SummerTime(t) <=> Begins(y) <= t /\ t < Ends(y)
<1>l. LastYear \in Int /\ 2001 <= LastYear /\ LastYear <= 2100
  BY LastYearAssumption
<1>1. ASSUME NEW z \in 2000..LastYear
      PROVE  /\ DaysSince2000(z, 3, LastSunday(z, 3)) * DAY_IN_SECONDS + HOUR_IN_SECONDS = Begins(z)
             /\ DaysSince2000(z, 10, LastSunday(z, 10)) * DAY_IN_SECONDS + HOUR_IN_SECONDS = Ends(z)
  <2>1. z \in Int /\ 2000 <= z /\ z <= 2100 /\ 3 \in 1..12 /\ 10 \in 1..12
    BY <1>l
  <2>2. LastSunday(z, 3) \in Int /\ LastSunday(z, 10) \in Int
    BY <2>1, SundayIn
  <2>3. DaysSince2000(z, 3, LastSunday(z, 3)) = Days(z) + Before(3, leapYear(z)) + LastSunday(z, 3) - 1
    BY <2>1, <2>2, GregorianDays
  <2>4. DaysSince2000(z, 10, LastSunday(z, 10)) = Days(z) + Before(10, leapYear(z)) + LastSunday(z, 10) - 1
    BY <2>1, <2>2, GregorianDays
  <2> QED BY <2>3, <2>4 DEF Begins, Ends, DAY_IN_SECONDS, HOUR_IN_SECONDS
<1>2. SummerTime(t) <=> \E z \in 2000..LastYear : t >= Begins(z) /\ t < Ends(z)
  BY <1>1 DEF SummerTime
<1>3. ASSUME NEW z \in 2000..LastYear, t >= Begins(z), t < Ends(z)
      PROVE  z = y
  <2>1. /\ z \in Int /\ 2000 <= z /\ z <= 2100 /\ Begins(z) \in Int /\ Ends(z) \in Int
        /\ Days(z) * 86400 < Begins(z) /\ Ends(z) < (Days(z) + 365) * 86400
    BY <1>l, Within
  <2>2. Days(z) \in Int /\ Days(y) \in Int /\ Days(y + 1) \in Int
    BY <2>1, DaysAreInt
  <2>3. Days(z) * 86400 < Days(y + 1) * 86400 /\ Days(y) * 86400 < (Days(z) + 365) * 86400
    BY <1>3, <2>1, <2>2
  <2>4. Days(z) < Days(y + 1) /\ Days(y) < Days(z) + 365
    BY <2>2, <2>3
  <2> QED BY <2>1, <2>4 DEF Days
<1> QED BY <1>2, <1>3, <1>l

-----------------------------------------------------------------------------
(* What parseTime finds *)

(***************************************************************************)
(* The date before the hour of summer time is added: p is the time within  *)
(* the month m of year y, of l days more in February; the last second that *)
(* is taken for one of the month is the first of the next.                 *)
(***************************************************************************)
Date(y, m, p, t) ==
  [year |-> y, month |-> m, day |-> p \div 86400 + 1, hour |-> (p % 86400) \div 3600,
   minute |-> ((p % 86400) % 3600) \div 60, secs |-> (p % 86400) % 60,
   wk_day |-> (t \div 86400 + 5) % 7, BST |-> 0]

Dated(t, y, l, m, p) ==
  /\ y \in Int /\ 2000 <= y /\ y < 2100 /\ y < LastYear
  /\ l \in {0, 1} /\ l = leapYear(y) /\ m \in 1..12
  /\ p \in Nat /\ p <= mon(m, y) * 86400
  /\ t = (Days(y) + Before(m, l)) * 86400 + p
  /\ Days(y) * 86400 <= t /\ t <= Days(y + 1) * 86400

LEMMA DateFound ==
  ASSUME NEW t \in Nat, t < YearStart[LastYear] * DAY_IN_SECONDS
  PROVE  \E y, l, m, p :
           /\ Dated(t, y, l, m, p)
           /\ parseTime(t) = LET d == Date(y, m, p, t)
                            IN  IF summerTimeCorrection(d.hour, d.day, d.month, d.year) = 1
                                THEN InSummer(d) ELSE d
<1> DEFINE y == YearOf(t)
           l == leapYear(y)
           u == Left(t, YearStart[y])
           m == MonthOf(u, y)
           p == Left(u, MonthStart(y)[m])
<1>l. LastYear \in Int /\ 2001 <= LastYear /\ LastYear <= 2100
  BY LastYearAssumption
<1>1. y \in 2000..(LastYear - 1) /\ Days(y) * 86400 <= t /\ t <= Days(y + 1) * 86400
  <2> HIDE DEF y
  <2>1. y = YearOf(t)
    BY DEF y
  <2> QED BY <2>1, YearFound
<1>p. parseTime(t) = LET d == Date(y, m, p, t)
                     IN  IF summerTimeCorrection(d.hour, d.day, d.month, d.year) = 1
                         THEN InSummer(d) ELSE d
  BY DEF parseTime, Date, DAY_IN_SECONDS, HOUR_IN_SECONDS, MINUTE_IN_SECONDS
<1> HIDE DEF y
<1>2. /\ y \in Int /\ 2000 <= y /\ y < 2100 /\ y \in 2000..LastYear /\ y < LastYear
      /\ y \in Int /\ Days(y) \in Int
  BY <1>1, <1>l, DaysAreInt
<1>3. l \in {0, 1} /\ Days(y + 1) = Days(y) + 365 + l /\ YearStart[y] = Days(y)
  BY <1>2, LeapYears, DaysOfYear, YearStarts
<1>4. u = t - Days(y) * 86400
  BY <1>3 DEF Left, DAY_IN_SECONDS
<1>5. u \in Nat /\ u <= (365 + l) * 86400
  <2> HIDE DEF l, u
  <2> QED BY <1>1, <1>2, <1>3, <1>4
<1>6. m \in 1..12 /\ Before(m, l) * 86400 <= u /\ u <= Before(m + 1, l) * 86400
  <2>1. m = MonthOf(u, y) /\ l = leapYear(y)
    OBVIOUS
  <2> HIDE DEF u, l, m
  <2> QED BY <2>1, <1>2, <1>3, <1>5, MonthFound
<1>l2. l = leapYear(y)
  OBVIOUS
<1>7. MonthStart(y)[m] = Before(m, l)
  <2> DEFINE s == MonthStart(y)
  <2>1. s = MonthStart(y)
    OBVIOUS
  <2> HIDE DEF l, u, m, s
  <2>2. s[m] = Before(m, l)
    BY <1>2, <1>6, <1>l2, <2>1, MonthStarts
  <2> QED BY <2>1, <2>2
<1>8. p = u - Before(m, l) * 86400
  BY <1>7 DEF Left, DAY_IN_SECONDS
<1> HIDE DEF l, u, m, p
<1>9. Before(m, l) \in Int /\ Before(m + 1, l) = Before(m, l) + mon(m, y) /\ mon(m, y) \in Int
  BY <1>3, <1>6, <1>l2, Months DEF Before, mon
<1>10. p \in Nat /\ p <= mon(m, y) * 86400 /\ t = (Days(y) + Before(m, l)) * 86400 + p
  BY <1>2, <1>4, <1>5, <1>6, <1>8, <1>9
<1>11. Dated(t, y, l, m, p)
  BY <1>1, <1>2, <1>3, <1>6, <1>10, <1>l2 DEF Dated
<1> QED BY <1>p, <1>11

(* Summer time is found by the rule of the last Sundays, but for February *)
LEMMA SummerRight ==
  ASSUME NEW t \in Nat, NEW y, NEW l, NEW m, NEW p, Dated(t, y, l, m, p),
         m # 2, p < mon(m, y) * 86400
  PROVE  summerTimeCorrection((p % 86400) \div 3600, p \div 86400 + 1, m, y) = 1 <=> SummerTime(t)
<1> DEFINE s3 == LastSunday(y, 3)
           s10 == LastSunday(y, 10)
           day == p \div 86400 + 1
           hour == (p % 86400) \div 3600
           sum == summerTimeCorrection(hour, day, m, y)
<1>1. /\ y \in Int /\ 2000 <= y /\ y < 2100 /\ y < LastYear /\ l \in {0, 1} /\ l = leapYear(y)
      /\ m \in 1..12 /\ p \in Nat /\ t = (Days(y) + Before(m, l)) * 86400 + p
      /\ Days(y) * 86400 <= t /\ t <= Days(y + 1) * 86400 /\ Days(y) \in Int
  BY DaysAreInt DEF Dated
<1>2. s3 \in 25..31 /\ s10 \in 25..31
  BY <1>1, SundayIn
<1>3. SummerTime(t) <=> Begins(y) <= t /\ t < Ends(y)
  BY <1>1, SummerOfYear
<1>4. /\ Begins(y) = (Days(y) + 59 + l + s3 - 1) * 86400 + 3600
      /\ Ends(y) = (Days(y) + 273 + l + s10 - 1) * 86400 + 3600
  <2>1. Before(3, l) = 59 + l /\ Before(10, l) = 273 + l
    BY <1>1, MarchAndOctober
  <2>2. Before(3, leapYear(y)) = 59 + l /\ Before(10, leapYear(y)) = 273 + l
    BY <1>1, <2>1
  <2> QED BY <1>1, <1>2, <2>2 DEF Begins, Ends
<1>5. s3 = 31 - (((5 * y) \div 4 + 4) % 7) /\ s10 = 31 - (((5 * y) \div 4 + 1) % 7)
  BY <1>1, SundayFormula
<1>6. sum = CASE m < 2 \/ m > 10 -> 0
              [] m > 3 /\ m < 10 -> 1
              [] m = 3 -> IF day > s3 \/ (day = s3 /\ hour >= 1) THEN 1 ELSE 0
              [] OTHER -> IF day > s10 \/ (day = s10 /\ hour >= 1) THEN 0 ELSE 1
  <2> HIDE DEF day, hour
  <2> QED BY <1>5 DEF summerTimeCorrection
<1>7. ASSUME NEW s \in 25..31
      PROVE  (day > s \/ (day = s /\ hour >= 1)) <=> p >= (s - 1) * 86400 + 3600
  BY <1>1, SMT
<1> HIDE DEF s3, s10, day, hour, sum
<1>8. sum = 1 <=> SummerTime(t)
  <2>1. CASE m = 1 \/ m > 10
    <3>1. sum = 0
      BY <1>1, <1>6, <2>1
    <3>2. Before(m, l) \in {0, 304 + l, 334 + l} /\ (m = 1 <=> Before(m, l) = 0)
      BY <1>1, <2>1, Months DEF Before
    <3>3. m = 1 => p < 31 * 86400
      BY DEF mon
    <3>4. ~ (Begins(y) <= t /\ t < Ends(y))
      BY <1>1, <1>2, <1>4, <3>2, <3>3, <2>1
    <3> QED BY <3>1, <3>4, <1>3
  <2>2. CASE m > 3 /\ m < 10
    <3>1. sum = 1
      BY <1>1, <1>6, <2>2
    <3>2. /\ Before(m, l) \in (90 + l)..(243 + l)
          /\ Before(m, l) + mon(m, y) <= 273 + l /\ mon(m, y) \in Int
      BY <1>1, <2>2, Months DEF Before, mon
    <3>3. Begins(y) <= t /\ t < Ends(y)
      BY <1>1, <1>2, <1>4, <3>2, <2>2
    <3> QED BY <3>1, <3>3, <1>3
  <2>3. CASE m = 3
    <3>1. sum = 1 <=> p >= (s3 - 1) * 86400 + 3600
      BY <1>2, <1>6, <1>7, <2>3
    <3>2. Before(m, l) = 59 + l
      BY <1>1, <2>3, MarchAndOctober
    <3>3. p < 31 * 86400
      BY <2>3 DEF mon
    <3>4. Begins(y) <= t <=> p >= (s3 - 1) * 86400 + 3600
      BY <1>1, <1>2, <1>4, <3>2
    <3>5. t < Ends(y)
      BY <1>1, <1>2, <1>4, <3>2, <3>3
    <3> QED BY <3>1, <3>4, <3>5, <1>3
  <2>4. CASE m = 10
    <3>1. sum = 1 <=> ~ (p >= (s10 - 1) * 86400 + 3600)
      BY <1>2, <1>6, <1>7, <2>4
    <3>2. Before(m, l) = 273 + l
      BY <1>1, <2>4, MarchAndOctober
    <3>4. Begins(y) <= t
      BY <1>1, <1>2, <1>4, <3>2
    <3>5. t < Ends(y) <=> ~ (p >= (s10 - 1) * 86400 + 3600)
      BY <1>1, <1>2, <1>4, <3>2
    <3> QED BY <3>1, <3>4, <3>5, <1>3
  <2> QED BY <1>1, <2>1, <2>2, <2>3, <2>4
<1> QED BY <1>8 DEF sum, hour, day

LEMMA HoursOfDay ==
  ASSUME NEW D \in Int, NEW p \in Nat, NEW t, t = D * 86400 + p
  PROVE  /\ t \in Int /\ t \div 86400 = D + p \div 86400 /\ t % 86400 = p % 86400
         /\ p \div 86400 \in Nat /\ p % 86400 \in Nat /\ p % 86400 < 86400
         /\ p = (p \div 86400) * 86400 + (p % 86400)
         /\ p % 86400 = ((p % 86400) \div 3600) * 3600
                        + (((p % 86400) % 3600) \div 60) * 60 + ((p % 86400) % 60)
         /\ (p % 86400) \div 3600 \in Int /\ ((p % 86400) % 3600) \div 60 \in Int
         /\ (p % 86400) % 60 \in Int
<1>1. /\ t \in Int /\ t \div 86400 = D + p \div 86400 /\ t % 86400 = p % 86400
      /\ p \div 86400 \in Nat /\ p % 86400 \in Nat /\ p % 86400 < 86400
      /\ p = (p \div 86400) * 86400 + (p % 86400)
  BY SMT
<1>2. ASSUME NEW s \in Nat
      PROVE  s = (s \div 3600) * 3600 + ((s % 3600) \div 60) * 60 + (s % 60)
  BY SMT
<1> QED BY <1>1, <1>2

(* The time after the last day of a month is the first of the next *)
LEMMA NextMonth ==
  ASSUME NEW t, NEW y, NEW l, NEW m, NEW p, Dated(t, y, l, m, p)
  PROVE  MonthBegins((Days(y) + Before(m, l) + mon(m, y)) * 86400)
<1>l. LastYear \in Int /\ 2001 <= LastYear /\ LastYear <= 2100
  BY LastYearAssumption
<1>1. /\ y \in Int /\ 2000 <= y /\ y < 2100 /\ y < LastYear /\ l \in {0, 1} /\ l = leapYear(y)
      /\ m \in 1..12 /\ Days(y) \in Int
  BY DaysAreInt DEF Dated
<1>2. Before(m + 1, l) = Before(m, l) + mon(m, y) /\ Before(m, l) \in Int /\ mon(m, y) \in Int
      /\ Before(m + 1, l) \in Int
  BY <1>1, Months DEF Before, mon
<1>3. CASE m < 12
  <2>1. m + 1 \in 1..12
    BY <1>1, <1>3
  <2>2. DaysSince2000(y, m + 1, 1) = Days(y) + Before(m + 1, l) + 1 - 1
    <3> DEFINE n == m + 1
    <3>1. n \in 1..12
      BY <2>1
    <3> HIDE DEF n
    <3>2. DaysSince2000(y, n, 1) = Days(y) + Before(n, leapYear(y)) + 1 - 1
      BY <1>1, <3>1, GregorianDays
    <3> QED BY <1>1, <3>2 DEF n
  <2>3. (Days(y) + Before(m, l) + mon(m, y)) * 86400 = DaysSince2000(y, m + 1, 1) * DAY_IN_SECONDS
    BY <1>1, <1>2, <2>2 DEF DAY_IN_SECONDS
  <2>4. y \in 2000..LastYear
    BY <1>1, <1>l
  <2> QED BY <2>1, <2>3, <2>4 DEF MonthBegins
<1>4. CASE m = 12
  <2> DEFINE z == y + 1
  <2>1. z \in Int /\ 2000 <= z /\ z <= 2100 /\ z \in 2000..LastYear
    BY <1>1, <1>l
  <2>2. Before(m, l) = 334 + l /\ mon(m, y) = 31
    BY <1>4 DEF Before, mon
  <2>3. Days(z) = Days(y) + 365 + l
    BY <1>1, DaysOfYear
  <2> HIDE DEF z
  <2>4. DaysSince2000(z, 1, 1) = Days(z) + Before(1, leapYear(z)) + 1 - 1
    BY <2>1, GregorianDays
  <2>5. ASSUME NEW k PROVE Before(1, k) = 0
    <3>1. ASSUME NEW n, n = 1 PROVE Before(n, k) = 0
      BY <3>1 DEF Before
    <3> QED BY <3>1
  <2>6. Before(1, leapYear(z)) = 0
    BY <2>5
  <2>7. (Days(y) + Before(m, l) + mon(m, y)) * 86400 = DaysSince2000(z, 1, 1) * DAY_IN_SECONDS
    BY <1>1, <2>2, <2>3, <2>4, <2>6 DEF DAY_IN_SECONDS
  <2> QED BY <2>1, <2>7 DEF MonthBegins
<1> QED BY <1>1, <1>3, <1>4

(* The hour of summer time, added to a date *)
LEMMA HourAdded ==
  ASSUME NEW y, NEW m, NEW k, NEW h, NEW i, NEW s, NEW w, NEW d,
         d = [year |-> y, month |-> m, day |-> k, hour |-> h, minute |-> i, secs |-> s,
              wk_day |-> w, BST |-> 0]
  PROVE  LET e == InSummer(d)
         IN  /\ e.year = y /\ e.minute = i /\ e.secs = s /\ e.BST = 1
             /\ h < 23 => e.month = m /\ e.day = k /\ e.hour = h + 1 /\ e.wk_day = w
             /\ ~ (h < 23) => /\ e.hour = 0 /\ e.wk_day = (w + 1) % 7
                              /\ k + 1 > mon(m, y) => e.day = 0 /\ e.month = m + 1
                              /\ ~ (k + 1 > mon(m, y)) => e.day = k + 1 /\ e.month = m
BY DEF InSummer

LEMMA Corrections ==
  ASSUME NEW h, NEW k, NEW m, NEW y
  PROVE  summerTimeCorrection(h, k, m, y) \in {0, 1}
BY DEF summerTimeCorrection

-----------------------------------------------------------------------------
(* The time that the clock shows stays below the beginning of the last year *)
TimeInv == time = Off \/ (time \in Nat /\ time < YearStart[LastYear] * DAY_IN_SECONDS)

LEMMA LastYearStart == YearStart[LastYear] \in Nat /\ YearStart[LastYear] > 0
<1>1. LastYear \in Int /\ 2001 <= LastYear /\ LastYear <= 2100 /\ LastYear \in 2000..LastYear
  BY LastYearAssumption
<1>2. YearStart[LastYear] = Days(LastYear)
  BY <1>1, YearStarts
<1> QED BY <1>1, <1>2 DEF Days

LEMMA NextIsNat ==
  ASSUME time \in Nat
  PROVE  NextMoment \in Nat
<1> DEFINE later == {m \in Moments : m > time % DAY_IN_SECONDS}
           today == time - (time % DAY_IN_SECONDS)
           next == CHOOSE m \in later : \A n \in later : m <= n
<1>1. today \in Nat /\ today + DAY_IN_SECONDS \in Nat
  BY DEF DAY_IN_SECONDS
<1>2. NextMoment = IF later = {} THEN today + DAY_IN_SECONDS ELSE today + next
  BY DEF NextMoment
<1>3. later # {} => next \in Nat
  <2> SUFFICES ASSUME later # {} PROVE next \in Nat
    OBVIOUS
  <2>1. later \in SUBSET Nat
    <3>1. DAY_IN_SECONDS \in Int
      BY DEF DAY_IN_SECONDS
    <3>2. ASSUME NEW a \in Int, NEW x \in 0..(a - 1) PROVE x \in Nat
      OBVIOUS
    <3>3. Moments \subseteq Nat
      BY <3>1, <3>2, MomentsAssumption
    <3> QED BY <3>3, Zenon
  <2> HIDE DEF later
  <2>2. \E m \in later : \A n \in later : m <= n
    BY <2>1, LeastElement
  <2> QED BY <2>1, <2>2
<1> HIDE DEF later, today, next
<1> QED BY <1>1, <1>2, <1>3

LEMMA TimeStays == TimeSpec => []TimeInv
<1>1. TimeInit => TimeInv
  BY LastYearStart DEF TimeInit, TimeInv, DAY_IN_SECONDS
<1>2. TimeInv /\ [Pass]_time => TimeInv'
  <2> SUFFICES ASSUME TimeInv, [Pass]_time PROVE TimeInv'
    OBVIOUS
  <2>1. CASE Pass
    <3>1. time \in Nat /\ time' = NextMoment /\ NextMoment < YearStart[LastYear] * DAY_IN_SECONDS
      BY <2>1 DEF Pass, TimeInv
    <3>2. time' \in Nat /\ time' < YearStart[LastYear] * DAY_IN_SECONDS
      BY <3>1, NextIsNat
    <3> QED BY <3>2 DEF TimeInv
  <2>2. CASE UNCHANGED time
    BY <2>2 DEF TimeInv
  <2> QED BY <2>1, <2>2
<1> QED BY <1>1, <1>2, PTL DEF TimeSpec

LEMMA ParsedWell == TimeInv => ParsedRight
<1> SUFFICES ASSUME time \in Nat, time < YearStart[LastYear] * DAY_IN_SECONDS
             PROVE  LET d == parseTime(time)
                    IN  /\ Regular(time) => Agrees(d, time)
                        /\ Regular(time) /\ d.BST = 0 =>
                             getTime(d.day, d.month, d.year, d.hour, d.minute, d.secs) = time
                        /\ d.day \notin 1..mon(d.month, d.year) => AtEdge(time)
  BY DEF TimeInv, ParsedRight
<1>1. PICK y, l, m, p :
        /\ Dated(time, y, l, m, p)
        /\ parseTime(time) = LET d == Date(y, m, p, time)
                             IN  IF summerTimeCorrection(d.hour, d.day, d.month, d.year) = 1
                                 THEN InSummer(d) ELSE d
  BY DateFound
<1> DEFINE D == Days(y) + Before(m, l)
           k == p \div 86400 + 1
           q == p % 86400
           h == q \div 3600
           i == (q % 3600) \div 60
           s == q % 60
           w == (time \div 86400 + 5) % 7
           M == mon(m, y)
           b == Before(m, l)
           c == summerTimeCorrection(h, k, m, y)
           e == Date(y, m, p, time)
           d == parseTime(time)
<1>l. LastYear \in Int /\ 2001 <= LastYear /\ LastYear <= 2100
  BY LastYearAssumption
<1>2. /\ y \in Int /\ 2000 <= y /\ y < 2100 /\ y < LastYear /\ l \in {0, 1} /\ l = leapYear(y)
      /\ m \in 1..12 /\ p \in Nat /\ p <= M * 86400 /\ time = D * 86400 + p
      /\ Days(y) \in Int
  BY <1>1, DaysAreInt DEF Dated
<1>3. b \in Int /\ M \in Int /\ 28 <= M
  <2>1. Before(m, l) \in Int /\ mon(m, y) \in Int /\ 28 <= mon(m, y)
    BY <1>2, Months DEF Before, mon
  <2> QED BY <2>1
<1>4. e = [year |-> y, month |-> m, day |-> k, hour |-> h, minute |-> i, secs |-> s,
           wk_day |-> w, BST |-> 0]
  BY DEF Date
<1>5. d = IF c = 1 THEN InSummer(e) ELSE e
  BY <1>1, <1>4
<1>6. /\ time \div 86400 = D + k - 1 /\ time % 86400 = q
      /\ k \in Nat /\ k > 0 /\ q \in Nat /\ q < 86400 /\ p = (k - 1) * 86400 + q
      /\ q = h * 3600 + i * 60 + s /\ h \in Int /\ i \in Int /\ s \in Int
  <2>1. D \in Int
    BY <1>2, <1>3
  <2> HIDE DEF D
  <2> QED BY <1>2, <2>1, HoursOfDay
<1>7. ASSUME NEW n \in Int
      PROVE  DaysSince2000(y, m, n) = D + n - 1
  BY <1>2, GregorianDays
<1>8. MonthBegins((D + M) * 86400)
  BY <1>1, NextMonth
<1>9. m # 2 /\ k <= M => (c = 1 <=> SummerTime(time))
  <2>1. k <= M => p < M * 86400
    <3> HIDE DEF k, q, M
    <3> QED BY <1>2, <1>3, <1>6
  <2> QED BY <1>1, <2>1, SummerRight
<1>10. c \in {0, 1} /\ (c = 1 => m # 1 /\ m # 11 /\ m # 12)
  BY <1>2, Corrections DEF summerTimeCorrection
<1>11. w = Weekday(D + k - 1) /\ w \in Int
  BY <1>2, <1>3, <1>6 DEF Weekday
<1>12. YearStart[y] = Days(y) /\ MonthStart(y)[m] = b
  <2>1. y \in 2000..LastYear
    BY <1>2, <1>l
  <2>2. YearStart[y] = Days(y)
    BY <2>1, YearStarts
  <2> DEFINE st == MonthStart(y)
  <2>3. st = MonthStart(y)
    OBVIOUS
  <2> HIDE DEF st
  <2>4. st[m] = Before(m, l)
    BY <1>2, <2>3, MonthStarts
  <2> QED BY <2>2, <2>3, <2>4
<1>D. D = Days(y) + b /\ D \in Int
  BY <1>2, <1>3
<1> HIDE DEF D, k, q, h, i, s, w, M, b, c, e, d
<1>13. Regular(time) <=> d.month # 2 /\ d.day \in 1..mon(d.month, d.year)
  BY DEF Regular, d
<1>14. k - 1 < M \/ (k - 1 = M /\ q = 0)
  BY <1>2, <1>3, <1>6
<1>15. k > M => k - 1 = M /\ q = 0
  BY <1>14, <1>3, <1>6
<1>16. k > M => AtEdge(time)
  <2> SUFFICES ASSUME k > M PROVE AtEdge(time)
    OBVIOUS
  <2>1. time = (D + M) * 86400
    BY <1>15, <1>2, <1>3, <1>6, <1>D
  <2> QED BY <2>1, <1>8 DEF AtEdge
<1>17. CASE c # 1
  <2>1. d = e /\ c = 0
    BY <1>5, <1>10, <1>17
  <2>2. /\ d.year = y /\ d.month = m /\ d.day = k /\ d.hour = h /\ d.minute = i /\ d.secs = s
        /\ d.wk_day = w /\ d.BST = 0
    BY <2>1, <1>4
  <2>3. Regular(time) => m # 2 /\ k <= M
    BY <1>13, <2>2 DEF M
  <2>4. Regular(time) => Agrees(d, time)
    <3>1. DaysSince2000(y, m, k) = D + k - 1
      BY <1>6, <1>7
    <3>2. time = (D + k - 1) * 86400 + h * 3600 + i * 60 + s
      BY <1>2, <1>6, <1>D
    <3>3. time + 0 * 3600 = time
      OBVIOUS
    <3> QED BY <2>1, <2>2, <2>3, <1>9, <1>6, <1>11, <3>1, <3>2, <3>3
         DEF Agrees, DAY_IN_SECONDS, HOUR_IN_SECONDS, MINUTE_IN_SECONDS
  <2>5. getTime(d.day, d.month, d.year, d.hour, d.minute, d.secs) = time
    <3>1. getTime(k, m, y, h, i, s) = (Days(y) + b + k - 1) * 86400 + h * 3600 + i * 60 + s + c * 3600
      BY <1>12 DEF getTime, c, DAY_IN_SECONDS, HOUR_IN_SECONDS, MINUTE_IN_SECONDS
    <3>2. (Days(y) + b + k - 1) * 86400 + h * 3600 + i * 60 + s + c * 3600 = time
      BY <1>2, <1>3, <1>6, <1>D, <2>1
    <3> QED BY <2>2, <3>1, <3>2
  <2>6. d.day \notin 1..mon(d.month, d.year) => AtEdge(time)
    BY <1>3, <1>6, <1>16, <2>2 DEF M
  <2> QED BY <2>4, <2>5, <2>6 DEF d
<1>18. CASE c = 1
  <2>1. d = InSummer(e)
    BY <1>5, <1>18
  <2>2. /\ d.year = y /\ d.minute = i /\ d.secs = s /\ d.BST = 1
        /\ h < 23 => d.month = m /\ d.day = k /\ d.hour = h + 1 /\ d.wk_day = w
        /\ ~ (h < 23) => /\ d.hour = 0 /\ d.wk_day = (w + 1) % 7
                         /\ k + 1 > M => d.day = 0 /\ d.month = m + 1
                         /\ ~ (k + 1 > M) => d.day = k + 1 /\ d.month = m
    BY <2>1, <1>4, HourAdded DEF M
  <2>3. CASE h < 23
    <3>1. Regular(time) => m # 2 /\ k <= M
      BY <1>13, <2>2, <2>3 DEF M
    <3>2. Regular(time) => Agrees(d, time)
      <4>1. DaysSince2000(y, m, k) = D + k - 1
        BY <1>6, <1>7
      <4>2. time + 1 * 3600 = (D + k - 1) * 86400 + (h + 1) * 3600 + i * 60 + s
        BY <1>2, <1>6, <1>D
      <4>3. (time + 1 * 3600) \div 86400 = D + k - 1
        <5>1. q + 3600 < 86400
          <6>1. q < 82800
            BY <2>3, <1>6 DEF h
          <6> QED BY <6>1, <1>6
        <5>2. time + 1 * 3600 = (D + k - 1) * 86400 + (q + 3600)
          BY <1>2, <1>6, <1>D
        <5> DEFINE r == q + 3600
                   N == D + k - 1
        <5>3. r \in Nat /\ r < 86400 /\ N \in Int
          BY <5>1, <1>6, <1>D
        <5> HIDE DEF r, N
        <5>4. (N * 86400 + r) \div 86400 = N
          BY <5>3, SMT
        <5> QED BY <5>2, <5>4 DEF r, N
      <4> QED BY <2>2, <2>3, <3>1, <1>9, <1>18, <1>11, <4>1, <4>2, <4>3
           DEF Agrees, DAY_IN_SECONDS, HOUR_IN_SECONDS, MINUTE_IN_SECONDS
    <3>3. d.day \notin 1..mon(d.month, d.year) => AtEdge(time)
      BY <1>3, <1>6, <1>16, <2>2, <2>3 DEF M
    <3> QED BY <2>2, <3>2, <3>3 DEF d
  <2>4. CASE ~ (h < 23) /\ k + 1 <= M
    <3>1. d.hour = 0 /\ d.wk_day = (w + 1) % 7 /\ d.day = k + 1 /\ d.month = m
      BY <2>2, <2>4, <1>3, <1>6
    <3>2. Regular(time) => m # 2
      BY <1>13, <3>1
    <3>3. d.day \in 1..mon(d.month, d.year)
      BY <3>1, <2>2, <2>4, <1>3, <1>6 DEF M
    <3>4. Regular(time) => Agrees(d, time)
      <4>1. DaysSince2000(y, m, k + 1) = D + k
        BY <1>6, <1>7, <1>D
      <4>2. 82800 <= q /\ h = 23
        BY <2>4, <1>6 DEF h
      <4>3. time + 1 * 3600 = (D + k) * 86400 + 0 * 3600 + i * 60 + s
        BY <1>2, <1>6, <1>D, <4>2
      <4>4. (time + 1 * 3600) \div 86400 = D + k
        <5> DEFINE r == q - 82800
                   N == D + k
        <5>1. time + 1 * 3600 = N * 86400 + r
          BY <1>2, <1>6, <1>D
        <5>2. r \in Nat /\ r < 86400 /\ N \in Int
          BY <4>2, <1>6, <1>D
        <5> HIDE DEF r, N
        <5>3. (N * 86400 + r) \div 86400 = N
          BY <5>2, SMT
        <5> QED BY <5>1, <5>3 DEF r, N
      <4>5. (w + 1) % 7 = Weekday(D + k)
        <5> DEFINE N == D + k - 1
        <5>1. N \in Int /\ D + k = N + 1
          BY <1>6, <1>D
        <5> HIDE DEF N
        <5>2. (((N + 5) % 7) + 1) % 7 = (N + 1 + 5) % 7
          BY <5>1, SMT
        <5> QED BY <1>11, <5>1, <5>2 DEF Weekday, N
      <4>6. k <= M
        BY <2>4, <1>3, <1>6
      <4> QED BY <2>2, <3>1, <3>2, <1>9, <1>18, <4>1, <4>3, <4>4, <4>5, <4>6
           DEF Agrees, DAY_IN_SECONDS, HOUR_IN_SECONDS, MINUTE_IN_SECONDS
    <3> QED BY <2>2, <3>3, <3>4 DEF d
  <2>5. CASE ~ (h < 23) /\ ~ (k + 1 <= M)
    <3>1. d.day = 0
      BY <2>2, <2>5, <1>3, <1>6
    <3>2. ~ Regular(time)
      BY <1>13, <3>1
    <3>3. 82800 <= q
      BY <2>5, <1>6 DEF h
    <3>4. k = M
      BY <3>3, <2>5, <1>3, <1>6, <1>14
    <3>5. AtEdge(time)
      <4>1. (time \div DAY_IN_SECONDS + 1) * DAY_IN_SECONDS = (D + M) * 86400
        <5>1. time \div 86400 + 1 = D + M
          BY <1>6, <1>D, <3>4
        <5> QED BY <5>1 DEF DAY_IN_SECONDS
      <4>2. time % DAY_IN_SECONDS >= 23 * HOUR_IN_SECONDS
        BY <1>6, <3>3 DEF DAY_IN_SECONDS, HOUR_IN_SECONDS
      <4> QED BY <4>1, <4>2, <1>8 DEF AtEdge
    <3> QED BY <3>2, <3>5 DEF d
  <2> QED BY <2>3, <2>4, <2>5
<1> QED BY <1>17, <1>18

(***************************************************************************)
(* For any moments of the day and any last year: what parseTime makes of   *)
(* a time is the Gregorian date, the day of the week and the hour of       *)
(* European summer time, but in February and at the edges of months;       *)
(* getTime undoes it in winter; and a day that the month does not have     *)
(* appears in the first second of a month or in the last hour of one.      *)
(***************************************************************************)
THEOREM CalendarIsRight == TimeSpec => []ParsedRight
BY TimeStays, ParsedWell, PTL
=============================================================================
