CONSTANTS
  Tasks = {t1, t2, t3}
  Requests = {r1, r2, r3, r4}
  Serial = TRUE
  MaxDowns = 1
  DbMayFail = TRUE
  None = None
SPECIFICATION Spec
INVARIANTS
  TypeOK
  RunningIsRegistered
  RestIsQuiet
  NoStaleEntry
PROPERTIES
  StopIsFinal
SYMMETRY Symmetry
CHECK_DEADLOCK FALSE
