CONSTANTS
  w1 = w1
  w2 = w2
  w3 = w3
  w4 = w4
  admin = admin
  resolver = resolver
  host = host
  Writers = {w1, w2, w3, w4}
  Targets = {admin, resolver, host}
  Baseline = {resolver}
  Listed = {admin}
  Asks <- MCAsks
  MAX_APPEND_ATTEMPTS = 5
  GENESIS = GENESIS
  None = None
SPECIFICATION FairSpec
INVARIANTS
  ChainLinked
  RacesLostToCommits
  AnsweredIsAudited
PROPERTIES
  ImplementsLog
  ProtectedUntouched
  EveryRequestEnds
CHECK_DEADLOCK FALSE
