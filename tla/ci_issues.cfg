SPECIFICATION FairSpec
CONSTANTS
  MaxWorks = 3
  MaxLegacy = 2
  MaxTouches = 2
INVARIANTS NewestDecides IssueFollows RedIsVisible
PROPERTIES SettledCloses
CHECK_DEADLOCK FALSE
