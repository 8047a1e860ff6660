SPECIFICATION Spec
CONSTANTS
  w1 = w1
  w2 = w2
  p1 = p1
  p2 = p2
  None = None
  Workers = {w1}
  Processes = {p1}
  Home <- OneHome
  MaxAttempts = 2
  MayTimeOut <- Nobody
  MayGiveUp <- IntegrityOnly
  DbFails = FALSE
  MaxCrashes = 0
INVARIANTS ReadyOnlyOnEvidence
CHECK_DEADLOCK FALSE
