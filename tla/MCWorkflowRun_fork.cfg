CONSTANTS
  Execs = {i1, a1, a2}
  InlineExecs = {i1}
  JobExecs = {}
  Approvers = {a1, a2}
  Steps <- ForkSteps
  Nodes <- ForkNodes
  NodeOf <- ForkNodeOf
  Edges <- ForkEdges
  BranchLabels <- TrueFalseOther
  MAX_STEPS = 500
  MaxFires = 4
  AgentAutonomy = 3
  ActiveTlp = 2
  Orgs <- OneOrg
  MayCrash = {}
  RouteMayCrash = FALSE
  BrokerMayAnswerLate = FALSE
  Redeliver = FALSE
  None = None
SPECIFICATION FairSpec
INVARIANTS
  GateConsent
PROPERTIES
  ComesToRest
CHECK_DEADLOCK FALSE
