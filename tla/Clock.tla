------------------------------- MODULE Clock -------------------------------
(***************************************************************************)
(* The time of day: queryNTP, handleNTP and handleDNS under the TIME_      *)
(* states, their calls in the main loop, the UDP ports they listen on      *)
(* (newPort, handleUDP) and the seconds that the timer interrupt counts.   *)
(* This is the build of NETWORK_CONSOLE and MSF_CLOCK (USE_NTP, USE_DNS),  *)
(* with the address of the device set.                                     *)
(*                                                                         *)
(* Servers and network are external: a message is lost, delayed or         *)
(* delivered again and again.  A server's answer is arbitrary, so a time   *)
(* and an address are chosen when the answer is handled.  The network      *)
(* keeps no message for so long that the ports come round again.           *)
(***************************************************************************)
EXTENDS Integers

CONSTANTS
  Servers,              \* the addresses of NTP servers
  NullIP,
  START_DYNAMIC_PORTS,
  LastPort,             \* 65535
  Modulus,              \* of a time, 2^32
  Cuts,                 \* the boundaries between its bytes, 2^8, 2^16 and 2^24
  Refresh,              \* DAY_IN_SECONDS / 25
  Lifetime              \* a message is gone when this many queries have followed it

DynamicPorts == START_DYNAMIC_PORTS..LastPort
PortCount == LastPort - START_DYNAMIC_PORTS + 1

ASSUME ServersAssumption == NullIP \notin Servers
ASSUME PortsAssumption ==
  /\ START_DYNAMIC_PORTS \in Nat \ {0} /\ LastPort \in Nat
  /\ Lifetime \in Nat \ {0} /\ START_DYNAMIC_PORTS + Lifetime < LastPort
ASSUME TimeAssumption ==
  /\ Modulus \in Nat /\ Refresh \in Nat /\ Refresh + 1 < Modulus
  /\ \A c \in Cuts : c \in Nat \ {0} /\ \E d \in 1..Modulus : Modulus = c * d

VARIABLES
  state,         \* MyState.TIME
  NTPIP,
  time_now, time_set,
  UDP_Port,      \* by the protocol it is for; 0 before the first use
  UDP_low_port,
  net,           \* messages under way
  since,         \* history: seconds since the clock was set, up to Refresh + 1
  torn,          \* history: was the reading in time_set, or that of Renew, cut in two?
  named,         \* history: was NTPIP asked for after the last renewal?
  faults         \* history: what the network has done wrong

vars == <<state, NTPIP, time_now, time_set, UDP_Port, UDP_low_port, net, since, torn, named, faults>>

States == {"TIME_UNSET", "TIME_WAIT_DNS", "TIME_REQUESTED", "TIME_SET"}
Protocols == {"dns", "ntp"}
Times == 0..(Modulus - 1)

\* port is the device's; old: a later query of the protocol was made, or (dns) a renewal
Messages == [proto : Protocols, kind : {"query", "answer"}, port : DynamicPorts,
             old : BOOLEAN, age : 0..Lifetime]

Init ==
  /\ state = "TIME_UNSET" /\ NTPIP = NullIP
  /\ time_now = 0 /\ time_set = 0
  /\ UDP_Port = [p \in Protocols |-> 0]
  /\ UDP_low_port = START_DYNAMIC_PORTS
  /\ net = {}
  /\ since = 0 /\ torn = FALSE /\ named = FALSE /\ faults = {}

-----------------------------------------------------------------------------
(* newPort(UDP_PORT) *)

\* ++UDP_low_port, k times; a 16-bit overflow gives 0, which is too low
Advanced(k) ==
  START_DYNAMIC_PORTS +
    ((UDP_low_port - START_DYNAMIC_PORTS + k) % PortCount)

InUse(port) == \E p \in Protocols : UDP_Port[p] = port

newPortLowest ==                                         \* mutant: no increment
  CHOOSE q \in DynamicPorts : ~ InUse(q) /\ \A r \in DynamicPorts : r < q => InUse(r)
newPort ==
  LET k == CHOOSE k \in 1..PortCount :
             ~ InUse(Advanced(k)) /\ \A j \in 1..(k - 1) : InUse(Advanced(j))
  IN  Advanced(k)

Outdated(proto) == {IF m.proto = proto THEN [m EXCEPT !.old = TRUE] ELSE m : m \in net}

(* launchUDP of a query from a new port *)
Ask(proto) ==
  /\ UDP_low_port' = newPort
  /\ UDP_Port' = [UDP_Port EXCEPT ![proto] = newPort]
  /\ net' = {[m EXCEPT !.age = @ + 1] : m \in {m \in Outdated(proto) : m.age < Lifetime}}
              \cup {[proto |-> proto, kind |-> "query", port |-> newPort,
                     old |-> FALSE, age |-> 0]}

-----------------------------------------------------------------------------
(* The main loop, every 2000 rounds, with the device's address set *)

(* queryNTP, when the address of a server is to be asked for *)
queryDomainName ==
  /\ state = "TIME_UNSET"
  /\ NTPIP = NullIP
  /\ Ask("dns")
  /\ state' = "TIME_WAIT_DNS"
  /\ UNCHANGED <<NTPIP, time_now, time_set, since, torn, named, faults>>

(* queryNTP, when it is known *)
queryNTPWhenUnset ==                                     \* mutant: not after waiting
  /\ state = "TIME_UNSET"
  /\ NTPIP # NullIP
  /\ Ask("ntp")
  /\ state' = "TIME_REQUESTED"
  /\ UNCHANGED <<NTPIP, time_now, time_set, since, torn, named, faults>>
queryNTP ==
  /\ state \in {"TIME_UNSET", "TIME_WAIT_DNS"}
  /\ NTPIP # NullIP
  /\ Ask("ntp")
  /\ state' = "TIME_REQUESTED"
  /\ UNCHANGED <<NTPIP, time_now, time_set, since, torn, named, faults>>

PlusUnbounded(t, d) == t + d                             \* mutant: no 32 bits
Plus(t, d) == (t + d) % Modulus

(***************************************************************************)
(* time_now has four bytes and is read by the main loop without turning    *)
(* off the interrupt: when a second passes in between, the bytes on one    *)
(* side of the cut are of the next second.                                 *)
(***************************************************************************)
Readings(t) ==
  LET u == Plus(t, 1)
      Cut(high, low, c) == (high \div c) * c + (low % c)
  IN  {[value |-> t, now |-> t]}
        \cup {[value |-> Cut(t, u, c), now |-> u] : c \in Cuts}
        \cup {[value |-> Cut(u, t, c), now |-> u] : c \in Cuts}

Torn(r, t) == r.value \notin {t, r.now}

(* "Renew the NTP ... (enforcing new DNS) if not recently done" *)
Elapsed(t) == (t - time_set) % Modulus

Counted == IF since <= Refresh THEN since + 1 ELSE since

Due ==
  /\ state = "TIME_SET"
  /\ \E r \in Readings(time_now) :
       /\ Elapsed(r.value) > Refresh
       /\ time_now' = r.now
       /\ since' = IF r.now = time_now THEN since ELSE Counted
       /\ torn' = (torn \/ Torn(r, time_now))

RenewKeepingIP ==                                        \* mutant: NTPIP not forgotten
  /\ Due
  /\ state' = "TIME_UNSET"
  /\ net' = Outdated("dns")
  /\ named' = FALSE
  /\ UNCHANGED <<NTPIP, time_set, UDP_Port, UDP_low_port, faults>>
Renew ==
  /\ Due
  /\ state' = "TIME_UNSET"
  /\ NTPIP' = NullIP
  /\ net' = Outdated("dns")
  /\ named' = FALSE
  /\ UNCHANGED <<time_set, UDP_Port, UDP_low_port, faults>>

-----------------------------------------------------------------------------
(* handlePacket: handleUDP finds the handler by the port *)

(* The network repeats the message, or not; its answer is of use, or not *)
Delivered(m, useful) ==
  \E again \in BOOLEAN :
    /\ net' = IF again THEN net ELSE net \ {m}
    /\ faults' = faults \cup (IF again THEN {"repeated"} ELSE {})
                       \cup (IF useful THEN {} ELSE {"unanswered"})

(* No handler listens on the port *)
HandleStray(m) ==
  /\ m \in net /\ m.kind = "answer"
  /\ m.port # UDP_Port[m.proto]
  /\ Delivered(m, TRUE)
  /\ UNCHANGED <<state, NTPIP, time_now, time_set, UDP_Port, UDP_low_port, since, torn, named>>

(***************************************************************************)
(* handleNTP, whatever the state: the server's seconds, rounded up if need *)
(* be, are an arbitrary time, and time_set is read back from time_now.     *)
(***************************************************************************)
handleNTPUndated(m) ==                                   \* mutant: time_set not brought up to date
  /\ m \in net /\ m.kind = "answer" /\ m.proto = "ntp"
  /\ m.port = UDP_Port["ntp"]
  /\ time_now' \in Times /\ time_set' = time_now
  /\ since' = 0 /\ torn' = FALSE
  /\ state' = "TIME_SET"
  /\ Delivered(m, TRUE)
  /\ UNCHANGED <<NTPIP, UDP_Port, UDP_low_port, named>>
handleNTP(m) ==
  /\ m \in net /\ m.kind = "answer" /\ m.proto = "ntp"
  /\ m.port = UDP_Port["ntp"]
  /\ \E t \in Times : \E r \in Readings(t) :
       /\ time_now' = r.now
       /\ time_set' = r.value
       /\ since' = IF r.value = r.now THEN 0 ELSE 1
       /\ torn' = Torn(r, t)
  /\ state' = "TIME_SET"
  /\ Delivered(m, TRUE)
  /\ UNCHANGED <<NTPIP, UDP_Port, UDP_low_port, named>>

(* handleDNS: the first address record, behind any number of aliases *)
handleDNS(m) ==
  /\ m \in net /\ m.kind = "answer" /\ m.proto = "dns"
  /\ m.port = UDP_Port["dns"]
  /\ NTPIP' \in Servers
  /\ named' = ~ m.old
  /\ Delivered(m, TRUE)
  /\ UNCHANGED <<state, time_now, time_set, UDP_Port, UDP_low_port, since, torn>>

(* ... an error code, no answer, or a record it "can't handle": ignored *)
handleDNSError(m) ==
  /\ m \in net /\ m.kind = "answer" /\ m.proto = "dns"
  /\ m.port = UDP_Port["dns"]
  /\ Delivered(m, FALSE)
  /\ UNCHANGED <<state, NTPIP, time_now, time_set, UDP_Port, UDP_low_port, since, torn, named>>

-----------------------------------------------------------------------------
(* The timer interrupt: a second has passed *)
Tick ==
  /\ time_now' = Plus(time_now, 1)
  /\ since' = Counted
  /\ UNCHANGED <<state, NTPIP, time_set, UDP_Port, UDP_low_port, net, torn, named, faults>>

(* The servers and the network *)
Answer(m) ==
  /\ m \in net /\ m.kind = "query"
  /\ net' = (net \ {m}) \cup {[m EXCEPT !.kind = "answer"]}
  /\ UNCHANGED <<state, NTPIP, time_now, time_set, UDP_Port, UDP_low_port, since, torn, named, faults>>

Lose(m) ==
  /\ m \in net
  /\ net' = net \ {m}
  /\ faults' = faults \cup {"unanswered"}
  /\ UNCHANGED <<state, NTPIP, time_now, time_set, UDP_Port, UDP_low_port, since, torn, named>>

Visit == queryDomainName \/ queryNTP \/ Renew
handleUDP(m) == HandleStray(m) \/ handleNTP(m) \/ handleDNS(m) \/ handleDNSError(m)

Next ==
  \/ Visit \/ Tick
  \/ \E m \in net : handleUDP(m) \/ Answer(m) \/ Lose(m)

Spec == Init /\ [][Next]_vars

(***************************************************************************)
(* Fairness: the main loop comes round to its visits and reads the frames  *)
(* that arrive, and a query that is not lost is answered.                  *)
(***************************************************************************)
Fairness ==
  /\ WF_vars(queryDomainName) /\ WF_vars(queryNTP)
  /\ \A p \in Protocols :
       /\ WF_vars(\E m \in net : m.proto = p /\ ~ m.old /\ Answer(m))
       /\ WF_vars(\E m \in net : m.proto = p /\ ~ m.old /\ handleUDP(m))

FairSpec == Spec /\ Fairness

-----------------------------------------------------------------------------
(* The type invariant *)
TypeOK ==
  /\ state \in States
  /\ NTPIP \in Servers \cup {NullIP}
  /\ time_now \in Times /\ time_set \in Times
  /\ UDP_Port \in [Protocols -> DynamicPorts \cup {0}]
  /\ UDP_low_port \in DynamicPorts
  /\ net \subseteq Messages
  /\ since \in 0..(Refresh + 1)
  /\ torn \in BOOLEAN /\ named \in BOOLEAN /\ faults \subseteq {"unanswered", "repeated"}

(***************************************************************************)
(* newPort: "Avoid using recent port by incrementing the port and avoiding *)
(* existing".  Whatever the network still holds, the answer that handleUDP *)
(* takes for the time is one to the latest NTP query, and no message for   *)
(* one protocol arrives at the port of the other.                          *)
(***************************************************************************)
AnswersLatestQuery ==
  \A m \in net : \A p \in Protocols :
    m.port = UDP_Port[p] => m.proto = p /\ (p = "ntp" => ~ m.old)

(***************************************************************************)
(* main: "if not recently done".  The clock is left to be set again only   *)
(* after it has run for longer than the refresh time, also across the end  *)
(* of the 32 bits, after it has been put back and when a second passes     *)
(* within a reading, unless that reading was of neither second's time.     *)
(***************************************************************************)
RenewedWhenDue ==
  [][state = "TIME_SET" /\ state' = "TIME_UNSET" => since' > Refresh \/ torn']_vars

(* The same, come what may: false when a carry cuts a reading of time_now *)
NeverRenewedEarly ==
  [][state = "TIME_SET" /\ state' = "TIME_UNSET" => since' > Refresh]_vars

(***************************************************************************)
(* main: "enforcing new DNS".  The server that is asked for the time was   *)
(* looked up after the last renewal, unless the network repeats a message. *)
(***************************************************************************)
NewServerAsked ==
  [][state' = "TIME_REQUESTED" => state = "TIME_REQUESTED" \/ named \/ "repeated" \in faults]_vars

(***************************************************************************)
(* main.c: "will use NTP to obtain time".  If no message is lost and every *)
(* name is found, the clock is set again and again.                        *)
(***************************************************************************)
TimeObtained == []("unanswered" \notin faults) => []<>(state = "TIME_SET")
=============================================================================
