SPECIFICATION Spec
CONSTANTS
  Sources = {"a"}
  Parked = {}
  Trains = {}
  Members <- TwoMembers
  Grants = {1}
  For <- OneA
  Callers = {c1}
  MaxPromotions = 3
  MaxAuto = 1
  MaxMoves = 1
  Faults = {"crash", "lost", "push"}
  MaxFaults = 1
INVARIANTS
  GrantSpentOnce
  RetriesFormChains
  OneAtATime
CHECK_DEADLOCK FALSE
