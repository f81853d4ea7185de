CONSTANTS
  Ids <- WithIntelNodes
  Submitted <- SubmittedSets
  Drifted <- DriftedSets
SPECIFICATION Spec
INVARIANTS
  ContainmentAlwaysGated
  AutonomyMonotone
  PoliciesMirrored
