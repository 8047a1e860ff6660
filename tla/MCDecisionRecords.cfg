SPECIFICATION Spec
CONSTANTS
  c1 = c1
  c2 = c2
  c3 = c3
  key1 = key1
  key11 = key11
  NoKey = NoKey
  Null = Null
  Barred <- BarIn
  Columned <- Integers
  Calls = {c1, c2, c3}
  Keys <- TwoKeys
  Occurs <- OccursIn
  Requests <- V1
  RequestsV2 <- V2
SYMMETRY SomeCalls
INVARIANTS TypeOK SealTells OneSuccessPerKey VerifiedIsLegitimate
CHECK_DEADLOCK FALSE
