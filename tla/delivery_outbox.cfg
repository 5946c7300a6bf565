SPECIFICATION FairSpec
CONSTANTS
  Pubs <- OnePub
  Commits <- MCCommits
  Absent = Absent
  Result <- OneResult
  Base = "base"
  Contains <- MCContains
  Kinds <- OneKinds
  MaxAttempts = 2
  MaxMoves = 1
  FaultKinds = {"crash", "read", "reply", "policy", "mirror"}
  MaxFaults = 3
INVARIANTS PendingHasOwner
PROPERTIES KeepsPromises PendingSettles
CHECK_DEADLOCK FALSE
