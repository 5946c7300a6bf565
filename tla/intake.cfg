SPECIFICATION FairSpec
CONSTANTS
  Branches = {"b"}
  Tags = {"t"}
  RefOrder <- MCRefOrder
  MaxPushes = 2
  Deleted = {}
  Caps = {0, 1}
  Faults = {"crash", "gate", "finalize", "handle", "late", "checkpoint", "upstream", "restore", "operator"}
  MaxFaults = 1
INVARIANTS NoPushForgotten PushesAttributed OneRunPerPush RunsInPushOrder
PROPERTIES CapRespected QueuedBecomesRun OutboxDrains
CHECK_DEADLOCK FALSE
