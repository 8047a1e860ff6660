SPECIFICATION SerialSpec
CONSTANTS
  ValidityDays = 0
  Threads = {t1, t2}
  Actors <- MCActors
  Authority <- MCAuthority
  Keys <- MCKeys
  Codes <- MCCodes
  Required = 30
  Requests <- SerialRequests
  OpinionKinds <- MCOpinionKinds
  AuditFails = {"human_decision_submitted", "human_decision_rejected"}
  FailTriggers = {"DIVERGENCE_ON_HARD_BLOCK", "DIVERGENCE_STANDARD", "POST_REVIEW_QUEUED"}
  AiFails = TRUE
  DataFlagged = FALSE
  MaxRevision = 2
  MaxVersion = 1
  MaxRules = 1
  MaxAcks = 1
  MaxDay = 0
INVARIANTS OneRowPerKey SignedOnCurrentRevision
PROPERTIES ClosedUnlessUnaudited Answered
CHECK_DEADLOCK FALSE
