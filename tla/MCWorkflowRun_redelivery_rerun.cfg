CONSTANTS
  Execs = {j1, j2, a1, a2}
  InlineExecs = {}
  JobExecs = {j1, j2}
  Approvers = {a1, a2}
  Steps <- SeqSteps
  Nodes <- SeqSteps
  NodeOf <- SeqNodeOf
  Edges <- SeqEdges
  BranchLabels <- TrueFalse
  MAX_STEPS = 500
  MaxFires = 3
  AgentAutonomy = 3
  ActiveTlp = 2
  Orgs <- OneOrg
  MayCrash = {j1}
  RouteMayCrash = FALSE
  BrokerMayAnswerLate = FALSE
  Redeliver = TRUE
  None = None
SPECIFICATION Spec
INVARIANTS
  JobStartsFresh
CHECK_DEADLOCK FALSE
