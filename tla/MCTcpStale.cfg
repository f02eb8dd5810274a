SPECIFICATION SysSpec
CONSTANTS
  Hosts = {h1}
  Ports = {q1}
  NoPeer = NoPeer
  FlagSets <- WireFlags
  M = 64
  ISNs = {61}
  ISNSteps = {3}
  MaxPayload = 2
  RespLens = {2}
  Clients <- AllPeers
  StreamLen = 2
  MinSeg = 2
  GetLen = 2
  Pipelined = FALSE
  Duplicates = {"toServer"}
  MayVanish = FALSE
  MayLose = FALSE
  IssStep = 8
  MaxConns = 2
  MaxOpens = 2
CHECK_DEADLOCK FALSE
INVARIANTS AckedButOneIsHanded AnswerIsWhole AckWithinSent NoStaleData
VIEW View
