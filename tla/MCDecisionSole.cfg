SPECIFICATION Spec
CONSTANTS
  ValidityDays = 0
  Threads = {t1}
  Actors <- MCActors
  Authority <- MCAuthority
  Keys <- MCKeys
  Codes <- MCCodes
  Required = 30
  Requests <- SoleRequests
  OpinionKinds <- AllKinds
  AuditFails = {"human_decision_submitted", "human_decision_rejected"}
  FailTriggers = {"DIVERGENCE_ON_HARD_BLOCK", "DIVERGENCE_STANDARD",
                  "POST_REVIEW_QUEUED", "ESCALATION_RAISED"}
  AiFails = TRUE
  DataFlagged = TRUE
  MaxRevision = 1
  MaxVersion = 1
  MaxRules = 2
  MaxAcks = 1
  MaxDay = 1
INVARIANTS ExceptionsAuthorised DecidedWithAuthority
CHECK_DEADLOCK FALSE
