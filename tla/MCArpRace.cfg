SPECIFICATION Spec
CONSTANTS
  IPs = {me, gw, peer, far}
  Local = {me, gw, peer}
  GWIP = gw
  myIP = me
  NullIP = null
  MACs = {m1, m2, m3}
  NoMAC = NoMAC
  MAX_ARP_HELD = 2
  TICKS_TO_HOLD_MAC = 1
  TickRange = 2
  MayMove = FALSE
INVARIANTS ResolvedIsNextHop
CHECK_DEADLOCK FALSE
