SPECIFICATION Spec
CONSTANTS
  IPs = {me, gw, far}
  Local = {me, gw}
  GWIP = gw
  myIP = me
  NullIP = null
  MACs = {m1, m2}
  NoMAC = NoMAC
  MAX_ARP_HELD = 2
  TICKS_TO_HOLD_MAC = 1
  TickRange = 2
  MayMove = FALSE
INVARIANTS TypeOK IndexInBounds NoDuplicates ResolvedWasHeard AddressIsFresh
SYMMETRY AnyMAC
CHECK_DEADLOCK FALSE
