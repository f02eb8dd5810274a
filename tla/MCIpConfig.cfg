SPECIFICATION FairSpec
CONSTANTS
  Servers = {a, b, c}
  Lone = c
  Router <- SomeRouter
  UseAPIPA = TRUE
  Rounds = 5
  LastOctet = 2
  FirstOctet = 2
  InUse <- TakenAddresses
  MaxConflicts = 3
INVARIANTS TypeOK OneOrigin
PROPERTIES KeepsPromise RequestMatchesOffer AddressObtained
CHECK_DEADLOCK FALSE
