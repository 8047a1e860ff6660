SPECIFICATION FairSpec
CONSTANTS
  c1 = c1
  c2 = c2
  Callers = {c1, c2}
  Nodes <- OneMayCall
  Tools <- OneTool
  Threshold = 2
  Cooldown = 2
  MaxRate = 1
  Window = 1
INVARIANTS TypeOK OpensForCause
PROPERTIES Trips Recovers FailsFastJustWhenDue RateIsKept
