SPECIFICATION FairSpec
CONSTANTS
  IPs = {me, gw, far}
  Local = {me, gw}
  GWIP = gw
  myIP = me
  NullIP = null
  MACs = {m1, m2}
  NoMAC = NoMAC
  MAX_ARP_HELD = 1
  TICKS_TO_HOLD_MAC = 1
  TickRange = 2
  MayMove = TRUE
CHECK_DEADLOCK FALSE
PROPERTIES ResolveReturns
