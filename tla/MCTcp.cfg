SPECIFICATION Spec
CONSTANTS
  Hosts = {h1, h2}
  Ports = {q1, q2}
  NoPeer = NoPeer
  FlagSets <- WireFlags
  M = 4
  ISNs = {3}
  ISNSteps = {2}
  MaxPayload = 1
  RespLens = {2}
INVARIANTS TypeOK AnsweredOnce ResetsOnlyOthers
PROPERTIES NotTakenOver StreamIsGapless
CHECK_DEADLOCK FALSE
SYMMETRY Symmetry
