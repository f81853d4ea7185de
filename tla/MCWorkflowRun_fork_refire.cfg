CONSTANTS
  Execs = {i1, a1}
  InlineExecs = {i1}
  JobExecs = {}
  Approvers = {a1}
  Steps <- ForkSteps
  Nodes <- ForkNodes
  NodeOf <- ForkNodeOf
  Edges <- ForkEdges
  BranchLabels <- TrueFalse
  MAX_STEPS = 500
  MaxFires = 3
  AgentAutonomy = 3
  ActiveTlp = 2
  Orgs <- OneOrg
  MayCrash = {}
  RouteMayCrash = FALSE
  BrokerMayAnswerLate = FALSE
  Redeliver = FALSE
  None = None
SPECIFICATION Spec
INVARIANTS
  FiredAtMostOnce
CHECK_DEADLOCK FALSE
