SPECIFICATION FairSysSpec
CONSTANTS
  Hosts = {h1}
  Ports = {q1}
  NoPeer = NoPeer
  FlagSets <- WireFlags
  M = 64
  ISNs = {61}
  ISNSteps = {3}
  MaxPayload = 2
  RespLens = {2}
  Clients <- AllPeers
  StreamLen = 2
  MinSeg = 2
  GetLen = 2
  Pipelined = FALSE
  Duplicates = {}
  MayVanish = TRUE
  MayLose = TRUE
  IssStep = 8
  MaxConns = 1
  MaxOpens = 1
CHECK_DEADLOCK FALSE
PROPERTIES ServerFreed
