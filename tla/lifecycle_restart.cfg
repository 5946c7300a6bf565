SPECIFICATION Spec
CONSTANTS
  r1 = r1
  r2 = r2
  Runs = {r1, r2}
  RefOf <- OneBranch
  PromotionRuns = {r2}
  Protected = {r1, r2}
  MaxClaimed = 1
  FaultKinds = {"crash"}
  MaxFaults = 1
INVARIANTS
  VerdictAfterWorkflow
CHECK_DEADLOCK FALSE
