SPECIFICATION Spec
CONSTANTS
  w1 = w1
  w2 = w2
  p1 = p1
  p2 = p2
  None = None
  Workers = {w1, w2}
  Processes = {p1, p2}
  Home <- TwoHomes
  MaxAttempts = 2
  MayTimeOut <- Nobody
  MayGiveUp <- Nobody
  DbFails = FALSE
  MaxCrashes = 0
INVARIANTS MergedByOwnership
CHECK_DEADLOCK FALSE
