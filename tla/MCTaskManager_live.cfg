CONSTANTS
  Tasks = {t1, t2}
  Requests = {r1, r2}
  Serial = FALSE
  MaxDowns = 1
  DbMayFail = FALSE
  None = None
SPECIFICATION FairSpec
PROPERTIES
  EveryRequestAnswered
  RestartRecovers
CHECK_DEADLOCK FALSE
