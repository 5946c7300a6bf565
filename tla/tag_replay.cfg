SPECIFICATION Spec
CONSTANTS
  Branches = {"b"}
  Tags = {"t"}
  RefOrder <- MCRefOrder
  MaxPushes = 2
  Deleted = {}
  Caps = {0}
  Faults = {"checkpoint"}
  MaxFaults = 1
INVARIANTS ReplayIsIdempotent
CHECK_DEADLOCK FALSE
