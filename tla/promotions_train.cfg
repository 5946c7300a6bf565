SPECIFICATION FairSpec
CONSTANTS
  Sources = {"a", "b"}
  Parked = {"b"}
  Trains = {"t"}
  Members <- TwoMembers
  Grants = {1}
  For <- OneA
  Callers = {c1}
  MaxPromotions = 2
  MaxAuto = 1
  MaxMoves = 1
  Faults = {"crash", "lost", "push"}
  MaxFaults = 1
INVARIANT TestedOnly
CHECK_DEADLOCK FALSE
PROPERTY EveryPromotionEnds
