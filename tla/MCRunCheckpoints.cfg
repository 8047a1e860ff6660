SPECIFICATION Spec
CONSTANTS
  Runs = {r1, r2}
  Scenarios = {s1}
  Workers = {w1}
  Nodes <- TwoNodes
  Alive = {FALSE}
  LogFails = {}
  None = None
INVARIANT CheckpointsOfRun
CHECK_DEADLOCK FALSE
