SPECIFICATION FairSpec
CONSTANTS
  w1 = w1
  w2 = w2
  p1 = p1
  p2 = p2
  None = None
  Workers = {w1}
  Processes = {p1}
  Home <- OneHome
  MaxAttempts = 2
  MayTimeOut <- SomeAgents
  MayGiveUp <- SomeGiveUp
  DbFails = FALSE
  MaxCrashes = 1
INVARIANTS TypeOK NothingLost ReadyOnlyOnEvidence TurnsInOrder
PROPERTIES KeepsPipeline Ends
CHECK_DEADLOCK FALSE
