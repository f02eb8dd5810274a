SPECIFICATION FairSpec
CONSTANTS
  Kinds = {"link", "arp", "reply", "unwanted", "served", "post", "bad"}
  RingFrames = 2
  MaxFrames = 4
  MayNotKnow = TRUE
INVARIANTS NoPhantomFrame SpaceReturned RightBank CountIsExact PayloadIsCurrent
PROPERTIES EveryFrameRead
CHECK_DEADLOCK FALSE
