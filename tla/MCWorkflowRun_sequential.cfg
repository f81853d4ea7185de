CONSTANTS
  Execs = {i1, j1, j2, a1, a2, a3}
  InlineExecs = {i1}
  JobExecs = {j1, j2}
  Approvers = {a1, a2, a3}
  Steps <- SeqSteps
  Nodes <- SeqSteps
  NodeOf <- SeqNodeOf
  Edges <- SeqEdges
  BranchLabels <- TrueFalse
  MAX_STEPS = 500
  MaxFires = 3
  AgentAutonomy = 2
  ActiveTlp = 2
  Orgs <- TwoOrgs
  MayCrash = {j1, a1}
  RouteMayCrash = TRUE
  BrokerMayAnswerLate = FALSE
  Redeliver = FALSE
  None = None
SPECIFICATION Spec
INVARIANTS
  TypeOK
  ExclusiveExecution
  FiredAtMostOnce
  EgressRespected
  PausedIsResumable
  EvidenceComplete
PROPERTIES
  CheckpointPreserved
  ImplementsProtocol
CHECK_DEADLOCK FALSE
