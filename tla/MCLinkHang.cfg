SPECIFICATION Spec
CONSTANTS
  Kinds = {"arp", "reply", "post"}
  RingFrames = 2
  MaxFrames = 4
  MayNotKnow = TRUE
INVARIANTS NeverHangs
CHECK_DEADLOCK FALSE
