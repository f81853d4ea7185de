CONSTANTS
  Tasks = {t1, t2, t3}
  Requests = {r1, r2, r3, r4}
  Serial = FALSE
  MaxDowns = 0
  DbMayFail = FALSE
  None = None
SPECIFICATION Spec
INVARIANTS
  RunningIsRegistered
SYMMETRY Symmetry
CHECK_DEADLOCK FALSE
