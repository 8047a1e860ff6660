SPECIFICATION Spec
CONSTANTS
  ValidityDays = 1
  Threads = {t1, t2}
  Actors <- MCActors
  Authority <- MCAuthority
  Keys <- MCKeys
  Codes <- MCCodes
  Required = 30
  Requests <- ConcurrentRequests
  OpinionKinds <- MCOpinionKinds
  AuditFails = {"human_decision_submitted"}
  FailTriggers = {"DIVERGENCE_ON_HARD_BLOCK_AUDIT", "DIVERGENCE_STANDARD"}
  AiFails = FALSE
  DataFlagged = FALSE
  MaxRevision = 2
  MaxVersion = 1
  MaxRules = 1
  MaxAcks = 1
  MaxDay = 0
SYMMETRY Symmetry
INVARIANTS TypeOK OneDecisionPerRevision SignedOnlyIfFavourable AnswersTellTheTruth
PROPERTIES KeepsLedger
CHECK_DEADLOCK FALSE
