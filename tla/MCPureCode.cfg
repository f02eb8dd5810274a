SPECIFICATION Spec
CONSTANTS
  LastYear = 2029
  Moments <- Edges
  First <- Started
  Readings <- Later
  HeadLen = 70
  MidLen = 3
  TailLen = 5
  NonceAt = 65
  Envs <- Programmers
  PageNames <- AllPages
  Payloads <- Cuts
  HostLen = 7
  OtherLen = 9
  Heard <- Messages
  MAX_STORED_SIZE = 90
  Packets <- Parcels
  Damages <- Accidents
  Stale = 165
INVARIANTS ParsedRight MaximumPeriod BlocksMakeThePage OnlyOwnNameAnswered ChecksumsAgree
CHECK_DEADLOCK FALSE
