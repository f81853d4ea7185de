SPECIFICATION FairSpec
CONSTANTS
  a = a
  b = b
  g1 = g1
  g2 = g2
  None = None
  Steps <- MCSteps
  Definitions <- MCDefinitions
  Settings <- MCSettings
  Walks = {w1, w2, w3, w4}
  Decisions = {d1, d2, d3}
CHECK_DEADLOCK FALSE
INVARIANTS GateHolds ResumedOnce
PROPERTIES WorkKept ComesToRest
