------------------------------ MODULE Address -------------------------------
(***************************************************************************)
(* What the IP configuration of the device promises, whatever protocols    *)
(* it takes: there is none at first; then one is adopted, either as a      *)
(* whole from a server that has granted it, or one of the link-local ones; *)
(* and it stays.                                                           *)
(***************************************************************************)
CONSTANTS
  Servers,
  Leased(_),   \* the configuration a server grants
  Locals,      \* the configurations that need no server
  None

VARIABLES
  address,     \* the configuration in force
  granted      \* the servers that have granted theirs

vars == <<address, granted>>

Init == address = None /\ granted = {}

Grant(s) ==
  /\ granted' = granted \cup {s}
  /\ UNCHANGED address

Adopt(c) ==
  /\ address = None
  /\ c \in Locals \cup {Leased(s) : s \in granted}
  /\ address' = c
  /\ UNCHANGED granted

Next ==
  \/ \E s \in Servers : Grant(s)
  \/ \E c \in Locals \cup {Leased(s) : s \in Servers} : Adopt(c)

Spec == Init /\ [][Next]_vars
=============================================================================
