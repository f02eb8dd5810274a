----------------------------- MODULE ClockProofs -----------------------------
(***************************************************************************)
(* Proofs about module Clock, for any range of ports and of times and for  *)
(* an arbitrary network.                                                   *)
(***************************************************************************)
EXTENDS Clock, Modular

LEMMA ModulusNat == Modulus \in Nat /\ Refresh \in Nat /\ Refresh + 1 < Modulus
BY TimeAssumption

LEMMA PlusType ==
  ASSUME NEW t \in Times
  PROVE  Plus(t, 1) \in Times
BY ModulusNat DEF Plus, Times

(* A time that is read in two parts is still a time *)
LEMMA ReadingsType ==
  ASSUME NEW t \in Times, NEW r \in Readings(t)
  PROVE  r.value \in Times /\ r.now \in {t, Plus(t, 1)} /\ r.now \in Times
<1>1. ASSUME NEW c \in Nat \ {0}, NEW d \in Nat, NEW x \in 0..(c * d - 1), NEW y \in Nat
      PROVE  (x \div c) * c + (y % c) \in 0..(c * d - 1)
  <2>1. y % c \in 0..(c - 1) /\ c * d \in Nat
    OBVIOUS
  <2>2. x \div c \in 0..(d - 1)
    OBVIOUS
  <2>3. (x \div c) * c \in Nat /\ (x \div c) * c <= (d - 1) * c
    BY <2>2
  <2>4. (d - 1) * c = c * d - c
    OBVIOUS
  <2> QED
    BY <2>1, <2>3, <2>4
<1> DEFINE u == Plus(t, 1)
<1>2. u \in Times
  BY PlusType
<1> HIDE DEF u
<1>3. ASSUME NEW c \in Cuts, NEW x \in Times, NEW y \in Times
      PROVE  (x \div c) * c + (y % c) \in Times
  <2>1. PICK d \in 1..Modulus : Modulus = c * d
    BY TimeAssumption
  <2>2. c \in Nat \ {0} /\ d \in Nat
    BY <2>1, TimeAssumption
  <2>3. x \in 0..(c * d - 1) /\ y \in Nat
    BY <2>1 DEF Times
  <2>4. (x \div c) * c + (y % c) \in 0..(c * d - 1)
    BY ONLY <1>1, <2>2, <2>3
  <2> QED
    BY <2>1, <2>4 DEF Times
<1>4. \/ r = [value |-> t, now |-> t]
      \/ \E c \in Cuts : r = [value |-> (t \div c) * c + (u % c), now |-> u]
      \/ \E c \in Cuts : r = [value |-> (u \div c) * c + (t % c), now |-> u]
  BY DEF Readings, u
<1> QED
  BY <1>2, <1>3, <1>4 DEF u

-----------------------------------------------------------------------------
(* The search of newPort ends: of any three ports in a row one is free *)

LEMMA AdvancedPorts ==
  ASSUME UDP_low_port \in DynamicPorts
  PROVE  /\ \A k \in Nat : Advanced(k) \in DynamicPorts
         /\ Advanced(1) # Advanced(2) /\ Advanced(2) # Advanced(3) /\ Advanced(1) # Advanced(3)
<1> DEFINE d == UDP_low_port - START_DYNAMIC_PORTS
<1>1. PortCount \in Nat /\ PortCount >= 3 /\ d \in 0..(PortCount - 1)
  BY PortsAssumption DEF PortCount, DynamicPorts
<1>2. \A k \in Nat : (d + k) % PortCount \in 0..(PortCount - 1)
  BY <1>1
<1>3. \A k \in {1, 2, 3} : (d + k) % PortCount = IF d + k < PortCount THEN d + k ELSE d + k - PortCount
  BY <1>1
<1> QED
  BY <1>1, <1>2, <1>3, PortsAssumption DEF Advanced, PortCount, DynamicPorts

LEMMA NewPortType ==
  ASSUME UDP_low_port \in DynamicPorts
  PROVE  newPort \in DynamicPorts /\ ~ InUse(newPort)
<1> DEFINE Good(k) == ~ InUse(Advanced(k)) /\ \A j \in 1..(k - 1) : InUse(Advanced(j))
<1>1. PortCount \in Nat /\ 1 \in 1..PortCount /\ 2 \in 1..PortCount /\ 3 \in 1..PortCount
  BY PortsAssumption DEF PortCount
<1>2. ~ (InUse(Advanced(1)) /\ InUse(Advanced(2)) /\ InUse(Advanced(3)))
  <2>1. \A q : InUse(q) <=> UDP_Port["dns"] = q \/ UDP_Port["ntp"] = q
    BY DEF InUse, Protocols
  <2> QED
    BY <2>1, AdvancedPorts
<1>3. \E k \in 1..PortCount : Good(k)
  <2>1. CASE ~ InUse(Advanced(1))
    BY <2>1, <1>1
  <2>2. CASE InUse(Advanced(1)) /\ ~ InUse(Advanced(2))
    <3>1. \A j \in 1..(2 - 1) : j = 1
      OBVIOUS
    <3> QED
      BY <2>2, <3>1, <1>1
  <2>3. CASE InUse(Advanced(1)) /\ InUse(Advanced(2)) /\ ~ InUse(Advanced(3))
    <3>1. \A j \in 1..(3 - 1) : j = 1 \/ j = 2
      OBVIOUS
    <3> QED
      BY <2>3, <3>1, <1>1
  <2> QED
    BY <2>1, <2>2, <2>3, <1>2
<1> DEFINE c == CHOOSE k \in 1..PortCount : Good(k)
<1>4. c \in 1..PortCount /\ Good(c)
  BY <1>3
<1>5. newPort = Advanced(c)
  BY DEF newPort
<1> HIDE DEF c
<1>6. c \in Nat
  BY <1>4, <1>1
<1> QED
  BY <1>4, <1>5, <1>6, AdvancedPorts

-----------------------------------------------------------------------------
LEMMA OutdatedType ==
  ASSUME net \subseteq Messages, NEW proto
  PROVE  Outdated(proto) \subseteq Messages
BY DEF Outdated, Messages

LEMMA AskType ==
  ASSUME TypeOK, NEW proto \in Protocols, Ask(proto)
  PROVE  /\ UDP_Port' \in [Protocols -> DynamicPorts \cup {0}]
         /\ UDP_low_port' \in DynamicPorts
         /\ net' \subseteq Messages
<1>1. newPort \in DynamicPorts
  BY NewPortType DEF TypeOK
<1> HIDE DEF newPort
<1>2. \A m \in Messages : m.age < Lifetime => [m EXCEPT !.age = @ + 1] \in Messages
  BY PortsAssumption DEF Messages
<1>3. [proto |-> proto, kind |-> "query", port |-> newPort, old |-> FALSE, age |-> 0] \in Messages
  BY <1>1, PortsAssumption DEF Messages
<1>4. net' \subseteq Messages
  BY <1>2, <1>3, OutdatedType DEF Ask, TypeOK
<1> QED
  BY <1>1, <1>4 DEF Ask, TypeOK

(***************************************************************************)
(* What is stored is of its type after any sequence of answers and losses; *)
(* with it, newPort always finds a port.                                   *)
(***************************************************************************)
THEOREM TypeCorrect == Spec => []TypeOK
<1>1. Init => TypeOK
  <2>1. START_DYNAMIC_PORTS \in DynamicPorts
    BY PortsAssumption DEF DynamicPorts
  <2>2. 0 \in Times /\ 0 \in 0..(Refresh + 1)
    BY ModulusNat DEF Times
  <2> QED
    BY <2>1, <2>2 DEF Init, TypeOK, States
<1>2. TypeOK /\ [Next]_vars => TypeOK'
  <2> SUFFICES ASSUME TypeOK, [Next]_vars PROVE TypeOK'
    OBVIOUS
  <2>1. CASE queryDomainName
    BY <2>1, AskType DEF queryDomainName, TypeOK, States, Protocols
  <2>2. CASE queryNTP
    BY <2>2, AskType DEF queryNTP, TypeOK, States, Protocols
  <2>3. CASE Renew
    <3>1. time_now' \in Times
      BY <2>3, ReadingsType DEF Renew, Due, TypeOK
    <3>2. since' \in 0..(Refresh + 1) /\ torn' \in BOOLEAN
      BY <2>3, ModulusNat DEF Renew, Due, Torn, Counted, TypeOK
    <3> QED
      BY <2>3, <3>1, <3>2, OutdatedType DEF Renew, TypeOK, States
  <2>4. CASE Tick
    BY <2>4, PlusType, ModulusNat DEF Tick, Counted, TypeOK
  <2>5. ASSUME NEW m \in net, handleUDP(m) PROVE TypeOK'
    <3>1. net' \subseteq net /\ faults' \subseteq faults \cup {"unanswered", "repeated"}
      BY <2>5 DEF handleUDP, HandleStray, handleNTP, handleDNS, handleDNSError, Delivered
    <3>2. 0 \in 0..(Refresh + 1) /\ 1 \in 0..(Refresh + 1)
      BY ModulusNat
    <3>3. CASE HandleStray(m)
      BY <3>1, <3>3 DEF HandleStray, TypeOK
    <3>4. CASE handleNTP(m)
      <4>1. time_now' \in Times /\ time_set' \in Times
        BY <3>4, ReadingsType DEF handleNTP
      <4> QED
        BY <3>1, <3>2, <3>4, <4>1 DEF handleNTP, Torn, TypeOK, States
    <3>5. CASE handleDNS(m)
      BY <3>1, <3>5 DEF handleDNS, TypeOK, Messages
    <3>6. CASE handleDNSError(m)
      BY <3>1, <3>6 DEF handleDNSError, TypeOK
    <3> QED
      BY <2>5, <3>3, <3>4, <3>5, <3>6 DEF handleUDP
  <2>6. ASSUME NEW m \in net, Answer(m) PROVE TypeOK'
    <3>1. [m EXCEPT !.kind = "answer"] \in Messages
      BY DEF TypeOK, Messages
    <3> QED
      BY <2>6, <3>1 DEF Answer, TypeOK
  <2>7. ASSUME NEW m \in net, Lose(m) PROVE TypeOK'
    BY <2>7 DEF Lose, TypeOK
  <2>8. CASE UNCHANGED vars
    BY <2>8 DEF vars, TypeOK
  <2> QED
    BY <2>1, <2>2, <2>3, <2>4, <2>5, <2>6, <2>7, <2>8 DEF Next, Visit
<1> QED
  BY <1>1, <1>2, PTL DEF Spec
-----------------------------------------------------------------------------
(***************************************************************************)
(* As long as the clock is not due, time_now - time_set, taken modulo the  *)
(* range of a time, is the number of seconds since it was set, if time_set *)
(* was read as a whole.                                                    *)
(***************************************************************************)
ElapsedIsSince ==
  state = "TIME_SET" /\ ~ torn /\ since <= Refresh => Elapsed(time_now) = since

LEMMA ElapsedAdvances ==
  ASSUME NEW t \in Times, NEW s \in Times, NEW n \in 0..Refresh, (t - s) % Modulus = n
  PROVE  (Plus(t, 1) - s) % Modulus = n + 1
<1>1. Modulus \in Nat /\ n + 1 < Modulus /\ Modulus > 0
  BY ModulusNat
<1>2. t \in 0..(Modulus - 1) /\ s \in 0..(Modulus - 1)
  BY DEF Times
<1>3. n = IF t >= s THEN t - s ELSE t - s + Modulus
  BY <1>1, <1>2
<1>4. Plus(t, 1) = IF t + 1 < Modulus THEN t + 1 ELSE 0
  BY <1>1, <1>2 DEF Plus
<1> QED
  BY <1>1, <1>2, <1>3, <1>4

(* A second more has passed, on the clock and since it was set *)
LEMMA SecondPasses ==
  ASSUME TypeOK, ElapsedIsSince, state = "TIME_SET", ~ torn, Counted <= Refresh
  PROVE  Elapsed(Plus(time_now, 1)) = Counted
<1>1. since \in 0..Refresh /\ Counted = since + 1
  BY ModulusNat DEF TypeOK, Counted
<1>2. (time_now - time_set) % Modulus = since
  BY <1>1 DEF ElapsedIsSince, Elapsed
<1> QED
  BY <1>1, <1>2, ElapsedAdvances DEF TypeOK, Elapsed

(* Just after the clock was set *)
LEMMA NoneElapsed ==
  ASSUME NEW t \in Times
  PROVE  (t - t) % Modulus = 0 /\ (Refresh >= 1 => (Plus(t, 1) - t) % Modulus = 1)
<1>1. t \in Int /\ t - t = 0 /\ 0 \in 0..Refresh
  BY ModulusNat DEF Times
<1>2. (t - t) % Modulus = 0
  BY <1>1, ModulusNat
<1>3. (Plus(t, 1) - t) % Modulus = 0 + 1
  BY <1>1, <1>2, ElapsedAdvances
<1> QED
  BY <1>2, <1>3

(***************************************************************************)
(* The clock is renewed only when it is due, wherever the interrupt comes, *)
(* unless a carry cut a reading of time_now, for every width of the time   *)
(* and every refresh time.                                                 *)
(***************************************************************************)
THEOREM RenewalIsDue == Spec => RenewedWhenDue
<1>1. Init => ElapsedIsSince
  BY DEF Init, ElapsedIsSince
<1>2. TypeOK /\ ElapsedIsSince /\ [Next]_vars => ElapsedIsSince'
  <2> SUFFICES ASSUME TypeOK, ElapsedIsSince, [Next]_vars PROVE ElapsedIsSince'
    OBVIOUS
  <2>1. CASE queryDomainName
    BY <2>1 DEF queryDomainName, ElapsedIsSince
  <2>2. CASE queryNTP
    BY <2>2 DEF queryNTP, ElapsedIsSince
  <2>3. CASE Renew
    BY <2>3 DEF Renew, ElapsedIsSince
  <2>4. CASE Tick
    <3> SUFFICES ASSUME state = "TIME_SET", ~ torn, Counted <= Refresh
                 PROVE  (time_now' - time_set) % Modulus = Counted
      BY <2>4 DEF Tick, ElapsedIsSince, Elapsed
    <3> QED
      BY <2>4, SecondPasses DEF Tick, Elapsed
  <2>5. ASSUME NEW m \in net, handleNTP(m) PROVE ElapsedIsSince'
    <3>0. PICK t \in Times : \E r \in Readings(t) :
            /\ time_now' = r.now /\ time_set' = r.value
            /\ since' = IF r.value = r.now THEN 0 ELSE 1
            /\ torn' = Torn(r, t)
      BY <2>5 DEF handleNTP
    <3>1. PICK r \in Readings(t) :
            /\ time_now' = r.now /\ time_set' = r.value
            /\ since' = IF r.value = r.now THEN 0 ELSE 1
            /\ torn' = Torn(r, t)
      BY <3>0
    <3>2. SUFFICES ASSUME ~ torn', since' <= Refresh
                   PROVE  (time_now' - time_set') % Modulus = since'
      BY DEF ElapsedIsSince, Elapsed
    <3>3. CASE r.value = r.now
      BY <3>1, <3>3, ReadingsType, NoneElapsed
    <3>4. CASE r.value # r.now
      <4>1. r.value = t /\ r.now = Plus(t, 1) /\ since' = 1
        BY <3>1, <3>2, <3>4, ReadingsType DEF Torn
      <4>2. Refresh >= 1
        BY <3>2, <4>1, ModulusNat
      <4> QED
        BY <3>1, <4>1, <4>2, NoneElapsed
    <3> QED
      BY <3>3, <3>4
  <2>6. ASSUME NEW m \in net, HandleStray(m) \/ handleDNS(m) \/ handleDNSError(m) \/ Answer(m) \/ Lose(m)
        PROVE ElapsedIsSince'
    BY <2>6 DEF HandleStray, handleDNS, handleDNSError, Answer, Lose, ElapsedIsSince, Elapsed
  <2>7. CASE UNCHANGED vars
    BY <2>7 DEF vars, ElapsedIsSince, Elapsed
  <2> QED
    BY <2>1, <2>2, <2>3, <2>4, <2>5, <2>6, <2>7 DEF Next, Visit, handleUDP
<1>3. TypeOK /\ ElapsedIsSince /\ [Next]_vars
        => (state = "TIME_SET" /\ state' = "TIME_UNSET" => since' > Refresh \/ torn')
  <2> SUFFICES ASSUME TypeOK, ElapsedIsSince, [Next]_vars,
                      state = "TIME_SET", state' = "TIME_UNSET", ~ torn'
               PROVE  since' > Refresh
    OBVIOUS
  <2>1. Renew
    BY DEF Next, Visit, handleUDP, vars, queryDomainName, queryNTP, Tick, HandleStray,
           handleNTP, handleDNS, handleDNSError, Answer, Lose
  <2>2. PICK r \in Readings(time_now) :
          /\ Elapsed(r.value) > Refresh
          /\ since' = IF r.now = time_now THEN since ELSE Counted
          /\ r.value \in {time_now, r.now} /\ ~ torn
    BY <2>1 DEF Renew, Due, Torn
  <2>3. r.now \in {time_now, Plus(time_now, 1)} /\ since \in Nat /\ Refresh \in Nat
    BY <2>2, ReadingsType, ModulusNat DEF TypeOK
  <2>4. since <= Refresh => Elapsed(time_now) = since
    BY <2>2 DEF ElapsedIsSince
  <2>5. Counted <= Refresh => Elapsed(Plus(time_now, 1)) = Counted
    BY <2>2, SecondPasses
  <2>6. Counted \in Nat /\ Counted >= since
    BY <2>3 DEF Counted
  <2>7. CASE r.value = time_now
    BY <2>2, <2>3, <2>4, <2>6, <2>7
  <2>8. CASE r.value = r.now /\ r.now # time_now
    BY <2>2, <2>3, <2>5, <2>6, <2>8
  <2> QED
    BY <2>2, <2>7, <2>8
<1> QED
  BY <1>1, <1>2, <1>3, TypeCorrect, PTL DEF Spec, RenewedWhenDue

-----------------------------------------------------------------------------
(***************************************************************************)
(* While the network has repeated nothing there is one message at most, in *)
(* the state that waits for it: an answer to a query made before a renewal *)
(* cannot come in afterwards.                                              *)
(***************************************************************************)
OneAtATime ==
  "repeated" \notin faults =>
    /\ \A m, n \in net : m = n
    /\ \A m \in net : m.proto = "dns" => state = "TIME_WAIT_DNS" /\ NTPIP = NullIP /\ ~ m.old
    /\ \A m \in net : m.proto = "ntp" => state = "TIME_REQUESTED"
    /\ NTPIP # NullIP => named

(***************************************************************************)
(* The server that is asked for the time was looked up after the last      *)
(* renewal, whatever is lost or delayed, as long as nothing is repeated.   *)
(***************************************************************************)
THEOREM NewServerIsAsked == Spec => NewServerAsked
<1>1. Init => OneAtATime
  BY DEF Init, OneAtATime
<1>2. TypeOK /\ OneAtATime /\ [Next]_vars => OneAtATime'
  <2> SUFFICES ASSUME TypeOK, OneAtATime, [Next]_vars, "repeated" \notin faults'
               PROVE  OneAtATime'
    BY DEF OneAtATime
  <2>0. \A m \in net : m.proto = "dns" \/ m.proto = "ntp"
    BY DEF TypeOK, Messages, Protocols
  <2>1. CASE queryDomainName
    <3>1. net = {}
      BY <2>0, <2>1 DEF queryDomainName, OneAtATime
    <3>2. net' = {[proto |-> "dns", kind |-> "query", port |-> newPort, old |-> FALSE, age |-> 0]}
      BY <2>1, <3>1 DEF queryDomainName, Ask, Outdated
    <3> HIDE DEF newPort
    <3> QED
      BY <2>1, <3>2 DEF queryDomainName, OneAtATime
  <2>2. CASE queryNTP
    <3>1. net = {} /\ named
      BY <2>0, <2>2 DEF queryNTP, OneAtATime
    <3>2. net' = {[proto |-> "ntp", kind |-> "query", port |-> newPort, old |-> FALSE, age |-> 0]}
      BY <2>2, <3>1 DEF queryNTP, Ask, Outdated
    <3> HIDE DEF newPort
    <3> QED
      BY <2>2, <3>1, <3>2 DEF queryNTP, OneAtATime
  <2>3. CASE Renew
    <3>1. net = {}
      BY <2>0, <2>3 DEF Renew, Due, OneAtATime
    <3>2. net' = {}
      BY <2>3, <3>1 DEF Renew, Outdated
    <3> QED
      BY <2>3, <3>2 DEF Renew, Due, OneAtATime
  <2>4. CASE Tick
    BY <2>4 DEF Tick, OneAtATime
  <2>5. ASSUME NEW m \in net, handleUDP(m) PROVE OneAtATime'
    <3>1. net = {m} /\ net' = {} /\ "repeated" \notin faults
      BY <2>5 DEF handleUDP, HandleStray, handleNTP, handleDNS, handleDNSError, Delivered,
                  OneAtATime
    <3>2. NTPIP' # NullIP => named'
      BY <2>5, <3>1 DEF handleUDP, HandleStray, handleNTP, handleDNS, handleDNSError, OneAtATime
    <3> QED
      BY <3>1, <3>2 DEF OneAtATime
  <2>6. ASSUME NEW m \in net, Answer(m) PROVE OneAtATime'
    <3>1. net = {m} /\ net' = {[m EXCEPT !.kind = "answer"]}
      BY <2>6 DEF Answer, OneAtATime
    <3>2. m \in Messages
      BY DEF TypeOK
    <3>3. LET a == [m EXCEPT !.kind = "answer"] IN a.proto = m.proto /\ a.old = m.old
      BY <3>2 DEF Messages
    <3> QED
      BY <2>6, <3>1, <3>3 DEF Answer, OneAtATime
  <2>7. ASSUME NEW m \in net, Lose(m) PROVE OneAtATime'
    BY <2>7 DEF Lose, OneAtATime
  <2>8. CASE UNCHANGED vars
    BY <2>8 DEF vars, OneAtATime
  <2> QED
    BY <2>1, <2>2, <2>3, <2>4, <2>5, <2>6, <2>7, <2>8 DEF Next, Visit
<1>3. OneAtATime /\ [Next]_vars
        => (state' = "TIME_REQUESTED" => state = "TIME_REQUESTED" \/ named \/ "repeated" \in faults)
  <2> SUFFICES ASSUME OneAtATime, [Next]_vars, state' = "TIME_REQUESTED", state # "TIME_REQUESTED"
               PROVE  named \/ "repeated" \in faults
    OBVIOUS
  <2>1. queryNTP
    BY DEF Next, Visit, handleUDP, vars, queryDomainName, Renew, Tick, HandleStray,
           handleNTP, handleDNS, handleDNSError, Answer, Lose
  <2> QED
    BY <2>1 DEF queryNTP, OneAtATime
<1> QED
  BY <1>1, <1>2, <1>3, TypeCorrect, PTL DEF Spec, NewServerAsked

-----------------------------------------------------------------------------
(***************************************************************************)
(* Ports come round only after PortCount queries, but for the ports that   *)
(* newPort passes over.  There is at most one such port between a message  *)
(* and the end of the round: the one that the other protocol had when the  *)
(* message was sent.  So the latest port is as far ahead of a message's as *)
(* queries have followed it, or one farther, and then neither port in use  *)
(* is ahead of the message any more.                                       *)
(***************************************************************************)
Behind(x) == (UDP_low_port - x) % PortCount

Passed(m) ==
  \/ Behind(m.port) <= m.age
  \/ /\ Behind(m.port) = m.age + 1
     /\ \A p \in Protocols : UDP_Port[p] # 0 => Behind(UDP_Port[p]) <= Behind(m.port)

PortsInv ==
  /\ (\A p \in Protocols : UDP_Port[p] = 0) \/ \E p \in Protocols : UDP_Port[p] = UDP_low_port
  /\ \A m \in net : Passed(m)
  /\ AnswersLatestQuery

LEMMA PortNumbers ==
  /\ PortCount \in Nat \ {0} /\ Lifetime \in Nat /\ Lifetime + 2 <= PortCount /\ PortCount >= 3
  /\ DynamicPorts \subseteq Int /\ START_DYNAMIC_PORTS \in Int /\ 0 \notin DynamicPorts
BY PortsAssumption DEF PortCount, DynamicPorts

LEMMA BehindType ==
  ASSUME UDP_low_port \in DynamicPorts, NEW x \in DynamicPorts
  PROVE  Behind(x) \in 0..(PortCount - 1) /\ (Behind(x) = 0 <=> x = UDP_low_port)
<1> DEFINE e == UDP_low_port - x
<1>1. e \in Int /\ e < PortCount /\ -PortCount < e
  BY PortsAssumption DEF DynamicPorts, PortCount
<1>2. \A P \in Nat \ {0} : \A z \in Int : z < P /\ -P < z => z % P = IF z >= 0 THEN z ELSE z + P
  OBVIOUS
<1>3. e % PortCount = IF e >= 0 THEN e ELSE e + PortCount
  BY <1>1, <1>2, PortNumbers
<1> QED
  BY <1>1, <1>3, PortNumbers DEF Behind

LEMMA NoneBehind ==
  ASSUME NEW z \in DynamicPorts
  PROVE  (z - z) % PortCount = 0
<1>1. z \in Int /\ PortCount \in Nat \ {0}
  BY PortNumbers
<1>2. z - z = 0 /\ 0 \in 0..(PortCount - 1)
  BY <1>1
<1>3. 0 % PortCount = 0
  BY ONLY <1>1, <1>2, ModSmall
<1> QED BY <1>2, <1>3

(* An advance of the latest port leaves every port that much farther behind *)
LEMMA BehindAdvanced ==
  ASSUME UDP_low_port \in DynamicPorts, NEW x \in DynamicPorts, NEW k \in Nat
  PROVE  (Advanced(k) - x) % PortCount = (Behind(x) + k) % PortCount
<1> DEFINE S == START_DYNAMIC_PORTS
           u == UDP_low_port
           P == PortCount
<1>1. u \in Int /\ x \in Int /\ S \in Int /\ P \in Nat \ {0} /\ k \in Int
  BY PortNumbers
<1>2. Advanced(k) - x = ((u - S + k) % P) + (S - x)
  <2>1. \A a \in Int : (S + a) - x = a + (S - x)
    BY <1>1
  <2>2. (u - S + k) % P \in Int
    BY <1>1
  <2> QED BY <2>1, <2>2 DEF Advanced
<1>3. (((u - S + k) % P) + (S - x)) % P = ((u - S + k) + (S - x)) % P
  <2>1. u - S + k \in Int /\ S - x \in Int
    BY <1>1
  <2> QED BY ONLY <1>1, <2>1, ModPlusMod
<1>4. (((u - x) % P) + k) % P = ((u - x) + k) % P
  <2>1. u - x \in Int
    BY <1>1
  <2> QED BY ONLY <1>1, <2>1, ModPlusMod
<1>5. (u - S + k) + (S - x) = (u - x) + k
  BY <1>1
<1> QED
  BY <1>2, <1>3, <1>4, <1>5 DEF Behind

(* ... the port ahead of the latest being the one farthest behind *)
LEMMA AheadIsLast ==
  ASSUME UDP_low_port \in DynamicPorts, NEW x \in DynamicPorts, Advanced(1) = x
  PROVE  Behind(x) = PortCount - 1
<1> DEFINE b == Behind(x)
<1>1. b \in 0..(PortCount - 1) /\ PortCount \in Nat \ {0} /\ x \in Int
  BY BehindType, PortNumbers
<1>2. (x - x) % PortCount = (b + 1) % PortCount
  BY BehindAdvanced
<1>3. (x - x) % PortCount = 0
  BY <1>1
<1> HIDE DEF b
<1>4. b + 1 < PortCount => (b + 1) % PortCount = b + 1
  <2> SUFFICES ASSUME b + 1 < PortCount PROVE (b + 1) % PortCount = b + 1
    OBVIOUS
  <2>1. b + 1 \in 0..(PortCount - 1)
    BY <1>1
  <2> QED BY <1>1, <2>1, ModSmall
<1>5. b = PortCount - 1
  BY <1>1, <1>2, <1>3, <1>4
<1> QED
  BY <1>5 DEF b

(***************************************************************************)
(* newPort takes the next port, or the one behind it if the next one is in *)
(* use.  The latest port is itself in use, so that there is only one other *)
(* to pass over.                                                           *)
(***************************************************************************)
LEMMA NewPortIsNext ==
  ASSUME TypeOK, PortsInv
  PROVE  \/ newPort = Advanced(1)
         \/ newPort = Advanced(2) /\ InUse(Advanced(1))
<1> DEFINE Good(k) == ~ InUse(Advanced(k)) /\ \A j \in 1..(k - 1) : InUse(Advanced(j))
           c == CHOOSE k \in 1..PortCount : Good(k)
<1>0. UDP_low_port \in DynamicPorts /\ PortCount \in Nat /\ PortCount >= 3
  BY PortNumbers DEF TypeOK
<1>1. \A q : InUse(q) <=> UDP_Port["dns"] = q \/ UDP_Port["ntp"] = q
  BY DEF InUse, Protocols
<1>2. Advanced(1) # Advanced(2) /\ Advanced(1) \in DynamicPorts /\ Advanced(2) \in DynamicPorts
  BY <1>0, AdvancedPorts
<1>3. Advanced(1) # UDP_low_port /\ Advanced(2) # UDP_low_port
  <2> DEFINE d == UDP_low_port - START_DYNAMIC_PORTS
  <2>1. d \in 0..(PortCount - 1) /\ START_DYNAMIC_PORTS \in Int
    BY PortsAssumption, <1>0 DEF PortCount, DynamicPorts
  <2>2. \A k \in {1, 2} : (d + k) % PortCount = IF d + k < PortCount THEN d + k ELSE d + k - PortCount
    BY <1>0, <2>1
  <2> QED BY <1>0, <2>1, <2>2 DEF Advanced
<1>4. ~ (InUse(Advanced(1)) /\ InUse(Advanced(2)))
  BY <1>1, <1>2, <1>3, PortNumbers DEF PortsInv, Protocols
<1>5. \E k \in 1..PortCount : Good(k)
  <2>1. CASE ~ InUse(Advanced(1))
    BY <2>1, <1>0
  <2>2. CASE InUse(Advanced(1)) /\ ~ InUse(Advanced(2))
    <3>1. \A j \in 1..(2 - 1) : j = 1
      OBVIOUS
    <3> QED
      BY <2>2, <3>1, <1>0
  <2> QED
    BY <2>1, <2>2, <1>4
<1>6. c \in 1..PortCount /\ Good(c)
  BY <1>5
<1>7. newPort = Advanced(c)
  BY DEF newPort
<1> HIDE DEF c
<1>8. c # 1 => InUse(Advanced(1))
  BY <1>0, <1>6
<1>9. c # 1 /\ c # 2 => InUse(Advanced(1)) /\ InUse(Advanced(2))
  BY <1>0, <1>6
<1> QED
  BY <1>4, <1>7, <1>8, <1>9

(* A query moves the latest port on, and every message one query farther back *)
LEMMA PassedOn ==
  ASSUME TypeOK, PortsInv, NEW proto \in Protocols, Ask(proto),
         NEW m \in Messages, Passed(m), m.age < Lifetime,
         NEW n \in Messages, n.port = m.port, n.age = m.age + 1
  PROVE  Passed(n)' /\ n.port # newPort
<1> DEFINE P == PortCount
           d == Behind(m.port)
<1>0. /\ UDP_low_port \in DynamicPorts /\ m.port \in DynamicPorts
      /\ UDP_Port \in [Protocols -> DynamicPorts \cup {0}]
      /\ P \in Nat \ {0} /\ Lifetime \in Nat /\ m.age \in 0..Lifetime /\ Lifetime + 2 <= P /\ P >= 3
  BY PortNumbers DEF TypeOK, Messages
<1>1. d \in 0..(P - 1)
  BY <1>0, BehindType
<1>2. PICK k \in {1, 2} : newPort = Advanced(k) /\ (k = 2 => InUse(Advanced(1)))
  BY NewPortIsNext
<1>3. UDP_low_port' = Advanced(k) /\ UDP_Port' = [UDP_Port EXCEPT ![proto] = Advanced(k)]
  BY <1>2 DEF Ask
<1>4. ASSUME NEW x \in DynamicPorts, Behind(x) + k < P
      PROVE  Behind(x)' = Behind(x) + k
  <2>1. Behind(x)' = (Behind(x) + k) % P
    BY <1>0, <1>2, <1>3, BehindAdvanced DEF Behind
  <2>2. Behind(x) + k \in 0..(P - 1)
    <3>1. Behind(x) \in 0..(P - 1)
      BY <1>0, BehindType
    <3> QED BY <1>0, <1>4, <3>1
  <2> QED BY <1>0, <2>1, <2>2, ModSmall
(* The port that is passed over was the last one behind *)
<1>5. k = 2 => \E p \in Protocols : /\ UDP_Port[p] = Advanced(1) /\ UDP_Port[p] # 0
                                   /\ Behind(UDP_Port[p]) = P - 1
  <2> SUFFICES ASSUME k = 2
               PROVE  \E p \in Protocols : /\ UDP_Port[p] = Advanced(1) /\ UDP_Port[p] # 0
                                            /\ Behind(UDP_Port[p]) = P - 1
    OBVIOUS
  <2>1. PICK p \in Protocols : UDP_Port[p] = Advanced(1)
    BY <1>2 DEF InUse
  <2>2. Advanced(1) \in DynamicPorts
    BY <1>0, AdvancedPorts
  <2>3. UDP_Port[p] # 0 /\ Behind(UDP_Port[p]) = P - 1
    BY <1>0, <2>1, <2>2, AheadIsLast, PortNumbers
  <2> QED BY <2>1, <2>3
<1>6. d + k < P /\ d + k >= 1
  <2>1. CASE d <= m.age
    BY <1>0, <1>1, <1>2, <2>1
  <2>2. CASE d = m.age + 1 /\ \A p \in Protocols : UDP_Port[p] # 0 => Behind(UDP_Port[p]) <= d
    <3>1. k = 1
      BY <1>0, <1>1, <1>2, <1>5, <2>2
    <3> QED BY <1>0, <1>1, <2>2, <3>1
  <2> QED BY <2>1, <2>2 DEF Passed
<1>7. Behind(n.port)' = d + k
  BY <1>0, <1>4, <1>6
<1>8. n.port # newPort
  <2> SUFFICES ASSUME n.port = UDP_low_port' PROVE FALSE
    BY <1>2, <1>3
  <2>1. Behind(n.port)' = (n.port - n.port) % P
    BY DEF Behind
  <2>2. (n.port - n.port) % P = 0
    BY <1>0, NoneBehind
  <2> QED BY <1>6, <1>7, <2>1, <2>2
<1>9. ASSUME NEW p \in Protocols, UDP_Port'[p] # 0, d <= m.age => k = 2,
             d > m.age => Behind(UDP_Port[p]) <= d \/ UDP_Port[p] = 0
      PROVE  Behind(UDP_Port[p])' <= d + k
  <2>1. CASE p = proto
    <3>1. UDP_Port'[p] = UDP_low_port'
      BY <1>0, <1>3, <2>1
    <3>2. Advanced(k) \in DynamicPorts
      BY <1>0, <1>2, AdvancedPorts
    <3>3. (Advanced(k) - Advanced(k)) % P = 0
      BY <3>2, NoneBehind
    <3>4. Behind(UDP_Port[p])' = 0
      BY <1>3, <3>1, <3>3 DEF Behind
    <3> QED BY <1>1, <1>2, <3>4
  <2>2. CASE p # proto
    <3>1. UDP_Port'[p] = UDP_Port[p] /\ UDP_Port[p] \in DynamicPorts
      BY <1>0, <1>3, <1>9, <2>2
    <3> DEFINE b == Behind(UDP_Port[p])
    <3>2. b \in 0..(P - 1)
      BY <1>0, <3>1, BehindType
    <3>3. Behind(UDP_Port[p])' = (b + k) % P
      BY <1>0, <1>2, <1>3, <3>1, BehindAdvanced DEF Behind
    <3>4. CASE d > m.age
      <4>1. b <= d /\ b + k \in 0..(P - 1)
        BY <1>0, <1>1, <1>2, <1>6, <1>9, <3>1, <3>2, <3>4, PortNumbers
      <4>2. (b + k) % P = b + k
        BY ONLY <1>0, <4>1, ModSmall
      <4> QED BY <1>1, <1>2, <3>2, <3>3, <4>1, <4>2
    <3>5. CASE d <= m.age
      (* One of the ports is the latest, the other the one passed over *)
      <4>1. b = 0 \/ b = P - 1
        <5>1. PICK q \in Protocols : UDP_Port[q] # 0 /\ Behind(UDP_Port[q]) = P - 1
          BY <1>5, <1>9, <3>5
        <5>2. PICK r \in Protocols : UDP_Port[r] = UDP_low_port
          BY <3>1, PortNumbers DEF PortsInv
        <5>3. Behind(UDP_Port[r]) = 0 /\ r # q
          BY <1>0, <5>1, <5>2, BehindType
        <5> QED BY <5>1, <5>2, <5>3 DEF Protocols
      <4>2. k = 2 /\ b + k >= 0
        BY <1>9, <3>2, <3>5
      <4>3. (b + k) % P = IF b + k < P THEN b + k ELSE b + k - P
        BY <1>0, <3>2, <4>2
      <4> QED BY <1>0, <1>1, <3>3, <4>1, <4>2, <4>3
    <3> QED BY <1>0, <1>1, <3>4, <3>5
  <2> QED BY <2>1, <2>2
<1>10. CASE d <= m.age /\ k = 1
  BY <1>0, <1>1, <1>7, <1>8, <1>10 DEF Passed
<1>11. CASE d <= m.age /\ k = 2
  <2>1. d + k <= n.age \/ d + k = n.age + 1
    BY <1>0, <1>1, <1>11
  <2>2. \A p \in Protocols : UDP_Port'[p] # 0 => Behind(UDP_Port[p])' <= d + k
    BY <1>0, <1>1, <1>9, <1>11
  <2> QED BY <1>7, <1>8, <2>1, <2>2 DEF Passed
<1>12. CASE d = m.age + 1 /\ \A p \in Protocols : UDP_Port[p] # 0 => Behind(UDP_Port[p]) <= d
  <2>1. k = 1
    BY <1>0, <1>1, <1>2, <1>5, <1>12
  <2>2. d + k = n.age + 1
    BY <1>0, <1>1, <1>12, <2>1
  <2>3. \A p \in Protocols : UDP_Port'[p] # 0 => Behind(UDP_Port[p])' <= d + k
    BY <1>0, <1>1, <1>9, <1>12
  <2> QED BY <1>7, <1>8, <2>2, <2>3 DEF Passed
<1> QED
  BY <1>2, <1>10, <1>11, <1>12 DEF Passed

(***************************************************************************)
(* handleUDP never takes a late answer for one to the latest NTP query, or *)
(* one protocol's answer for the other's, for every range of ports that is *)
(* larger by two than the number of queries a message survives.            *)
(***************************************************************************)
THEOREM LatestQueryIsAnswered == Spec => []AnswersLatestQuery
<1>1. Init => PortsInv
  BY DEF Init, PortsInv, AnswersLatestQuery
(* Steps that take no new port *)
<1>2. ASSUME PortsInv, UNCHANGED <<UDP_Port, UDP_low_port>>,
             \A n \in net' : \E m \in net : /\ n.port = m.port /\ n.age = m.age /\ n.proto = m.proto
                                            /\ n.proto = "ntp" => n.old = m.old
      PROVE  PortsInv'
  BY <1>2 DEF PortsInv, Passed, Behind, AnswersLatestQuery
<1>3. ASSUME TypeOK, PortsInv, NEW proto \in Protocols, Ask(proto) PROVE PortsInv'
  <2>0. /\ UDP_low_port \in DynamicPorts /\ net \subseteq Messages
        /\ UDP_Port \in [Protocols -> DynamicPorts \cup {0}]
    BY <1>3 DEF TypeOK
  <2>1. newPort \in DynamicPorts /\ ~ InUse(newPort)
    BY <2>0, NewPortType
  <2> HIDE DEF newPort
  <2>2. /\ UDP_low_port' = newPort /\ UDP_Port'[proto] = newPort
        /\ \A p \in Protocols : p # proto => UDP_Port'[p] = UDP_Port[p] /\ UDP_Port[p] # newPort
    BY <1>3, <2>0, <2>1 DEF Ask, InUse
  <2> DEFINE New(n) == n.port = newPort /\ n.proto = proto /\ n.old = FALSE /\ n.age = 0
             Older(n, m) == /\ m.age < Lifetime /\ n.port = m.port /\ n.age = m.age + 1
                            /\ n.proto = m.proto /\ n \in Messages
                            /\ n.proto # proto => n.old = m.old
  <2>3. \A n \in net' : New(n) \/ \E m \in net : Older(n, m)
    <3> SUFFICES ASSUME NEW n \in net' PROVE New(n) \/ \E m \in net : Older(n, m)
      OBVIOUS
    <3>1. CASE n = [proto |-> proto, kind |-> "query", port |-> newPort, old |-> FALSE, age |-> 0]
      BY <3>1
    <3>2. CASE n \in {[m EXCEPT !.age = @ + 1] : m \in {m \in Outdated(proto) : m.age < Lifetime}}
      <4>1. PICK o \in Outdated(proto) : o.age < Lifetime /\ n = [o EXCEPT !.age = @ + 1]
        BY <3>2
      <4>2. PICK m \in net : o = IF m.proto = proto THEN [m EXCEPT !.old = TRUE] ELSE m
        BY DEF Outdated
      <4>3. m \in Messages
        BY <2>0
      <4>4. /\ o.age = m.age /\ o.port = m.port /\ o.proto = m.proto /\ o \in Messages
            /\ o.proto # proto => o.old = m.old
        BY <4>2, <4>3 DEF Messages
      <4>5. /\ n.age = o.age + 1 /\ n.port = o.port /\ n.proto = o.proto /\ n.old = o.old
            /\ n \in Messages
        BY <4>1, <4>4, PortsAssumption DEF Messages
      <4> QED BY <4>1, <4>4, <4>5
    <3> QED BY <1>3, <3>1, <3>2 DEF Ask
  <2>4. ASSUME NEW n \in net'
        PROVE  Passed(n)' /\ \A p \in Protocols : n.port = UDP_Port'[p] => n.proto = p /\ (p = "ntp" => ~ n.old)
    <3>1. CASE New(n)
      <4>1. Behind(n.port)' = 0
        BY <2>1, <2>2, <3>1, NoneBehind DEF Behind
      <4>2. Passed(n)'
        BY <3>1, <4>1 DEF Passed
      <4> QED BY <2>2, <3>1, <4>2
    <3>2. ASSUME NEW m \in net, m.age < Lifetime, n.port = m.port, n.age = m.age + 1,
                 n.proto = m.proto, n \in Messages, n.proto # proto => n.old = m.old
          PROVE  Passed(n)' /\ \A p \in Protocols : n.port = UDP_Port'[p] => n.proto = p /\ (p = "ntp" => ~ n.old)
      <4>1. Passed(n)' /\ n.port # newPort
        BY <1>3, <2>0, <3>2, PassedOn DEF PortsInv
      <4> QED BY <1>3, <2>2, <3>2, <4>1 DEF PortsInv, AnswersLatestQuery
    <3>3. ASSUME NEW m \in net, Older(n, m)
          PROVE  Passed(n)' /\ \A p \in Protocols : n.port = UDP_Port'[p] => n.proto = p /\ (p = "ntp" => ~ n.old)
      BY <3>2, <3>3
    <3> HIDE DEF New, Older
    <3> QED BY <2>3, <3>1, <3>3
  <2> QED BY <2>2, <2>4 DEF PortsInv, AnswersLatestQuery
<1>4. ASSUME TypeOK, PortsInv, [Next]_vars PROVE PortsInv'
  <2>1. CASE queryDomainName
    BY <1>3, <1>4, <2>1 DEF queryDomainName, Protocols
  <2>2. CASE queryNTP
    BY <1>3, <1>4, <2>2 DEF queryNTP, Protocols
  <2>3. CASE Renew
    <3>1. \A n \in net' : \E m \in net : /\ n.port = m.port /\ n.age = m.age /\ n.proto = m.proto
                                         /\ n.proto = "ntp" => n.old = m.old
      <4> SUFFICES ASSUME NEW n \in net'
                   PROVE  \E m \in net : /\ n.port = m.port /\ n.age = m.age /\ n.proto = m.proto
                                         /\ n.proto = "ntp" => n.old = m.old
        OBVIOUS
      <4>1. PICK m \in net : n = IF m.proto = "dns" THEN [m EXCEPT !.old = TRUE] ELSE m
        BY <2>3 DEF Renew, Outdated
      <4>2. m \in Messages
        BY <1>4 DEF TypeOK
      <4> QED BY <4>1, <4>2 DEF Messages
    <3> QED BY <1>2, <1>4, <2>3, <3>1 DEF Renew
  <2>4. CASE Tick
    BY <1>2, <1>4, <2>4 DEF Tick
  <2>5. ASSUME NEW m \in net, handleUDP(m) PROVE PortsInv'
    <3>1. net' \subseteq net /\ UNCHANGED <<UDP_Port, UDP_low_port>>
      BY <2>5 DEF handleUDP, HandleStray, handleNTP, handleDNS, handleDNSError, Delivered
    <3> QED BY <1>2, <1>4, <3>1
  <2>6. ASSUME NEW m \in net, Answer(m) PROVE PortsInv'
    <3>1. net' = (net \ {m}) \cup {[m EXCEPT !.kind = "answer"]} /\ UNCHANGED <<UDP_Port, UDP_low_port>>
      BY <2>6 DEF Answer
    <3>2. m \in Messages
      BY <1>4 DEF TypeOK
    <3>3. [m EXCEPT !.kind = "answer"].port = m.port /\ [m EXCEPT !.kind = "answer"].age = m.age
          /\ [m EXCEPT !.kind = "answer"].proto = m.proto /\ [m EXCEPT !.kind = "answer"].old = m.old
      BY <3>2 DEF Messages
    <3> QED BY <1>2, <1>4, <3>1, <3>3
  <2>7. ASSUME NEW m \in net, Lose(m) PROVE PortsInv'
    BY <1>2, <1>4, <2>7 DEF Lose
  <2>8. CASE UNCHANGED vars
    BY <1>2, <1>4, <2>8 DEF vars
  <2> QED
    BY <1>4, <2>1, <2>2, <2>3, <2>4, <2>5, <2>6, <2>7, <2>8 DEF Next, Visit
<1>5. PortsInv => AnswersLatestQuery
  BY DEF PortsInv
<1> QED
  BY <1>1, <1>4, <1>5, TypeCorrect, PTL DEF Spec
=============================================================================
