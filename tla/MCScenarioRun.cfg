SPECIFICATION Spec
CONSTANTS
  Dossiers <- AllDossiers
  MaxFaults = 2
INVARIANTS TypeOK ReadyOnlyIfSound OpinionStands ExpectedUnlessDegraded OutcomesAgree ReasonsTraceable ExplanationAgrees
CHECK_DEADLOCK FALSE
