SPECIFICATION Spec
CONSTANTS
  ValidityDays = 1
  Threads = {t1, t2}
  Actors <- MCActors
  Authority <- MCAuthority
  Keys <- MCKeys
  Codes <- MCCodes
  Required = 30
  Requests <- ConcurrentRequests
  OpinionKinds <- MCOpinionKinds
  AuditFails = {}
  FailTriggers = {}
  AiFails = FALSE
  DataFlagged = FALSE
  MaxRevision = 2
  MaxVersion = 1
  MaxRules = 1
  MaxAcks = 1
  MaxDay = 0
INVARIANTS SignedOnCurrentRevision
CHECK_DEADLOCK FALSE
