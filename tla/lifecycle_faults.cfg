SPECIFICATION EndingSpec
CONSTANTS
  r1 = r1
  r2 = r2
  Runs = {r1}
  RefOf <- OneBranch
  PromotionRuns = {}
  Protected = {}
  MaxClaimed = 1
  FaultKinds = {"crash", "delete", "timeout", "watch", "push", "database"}
  MaxFaults = 2
INVARIANTS
  VerdictAfterWorkflow
  CleanStart
  PublicationOwnsRun
  ObligationSparesRunning
  NamelessObligationHasOwner
PROPERTIES
  TerminalSticks
  EveryRunEnds
  ObligationsDischarged
CHECK_DEADLOCK FALSE
