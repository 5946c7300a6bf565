SPECIFICATION FairSpec
CONSTANTS
  r1 = r1
  r2 = r2
  Runs = {r1}
  RefOf <- OneBranch
  PromotionRuns = {}
  Protected = {}
  MaxClaimed = 1
  FaultKinds = {"timeout", "watch", "database"}
  MaxFaults = 2
INVARIANTS
  NoOrphanedWorkflow
PROPERTIES
  PreemptedWorkflowStops
CHECK_DEADLOCK FALSE
