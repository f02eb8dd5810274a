SPECIFICATION FairSpec
CONSTANTS
  Servers = {n1}
  NullIP = null
  START_DYNAMIC_PORTS = 1
  LastPort = 4
  Lifetime = 2
  Modulus = 4
  Cuts = {2}
  Refresh = 1
INVARIANTS TypeOK AnswersLatestQuery
PROPERTIES RenewedWhenDue NewServerAsked TimeObtained
