SPECIFICATION FairSpec
CONSTANTS
  Uploads <- Forms
  Pages <- OtherPages
  Nonces <- Links
  Sizes <- Chips
  Adrs <- Memory
  MaxRequests = 2
INVARIANTS RecordsInOrder AnsweredIsStored
PROPERTIES RequestAnswered
CHECK_DEADLOCK FALSE
