SPECIFICATION Spec
CONSTANTS
  Runs = {r1, r2}
  Scenarios = {s1}
  Workers = {w1}
  Nodes <- OneNode
  Alive = {TRUE, FALSE}
  LogFails = {"STARTED", "COMPLETED"}
  None = None
INVARIANTS TypeOK MemoryIsItsOwn ObserverIsRunning ExplanationNotOlder
PROPERTIES OnlyForward RunsEnd
CHECK_DEADLOCK FALSE
