SPECIFICATION FairSpec
CONSTANTS
  MaxPosts = 3
  Faults = {}
INVARIANTS OutcomeIsTrue ClaimKept
PROPERTY CreateReturns
CHECK_DEADLOCK FALSE
