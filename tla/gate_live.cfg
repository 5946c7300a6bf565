SPECIFICATION FairSpec
CONSTANTS
  Runs <- MCRuns
  Groups <- MCGroups
  GroupOf <- MCGroupOf
  NoGroup = "none"
  Limits = {1}
  Exempt = {3}
  Sizes = {1, 2}
  Events = {"cancel", "hold", "holdlost", "bump", "age", "capacity", "host", "operator", "fail", "ambiguous", "deletefail", "crash"}
  MaxEvents = 1
PROPERTIES GrantsInOrder HoldEnforced SlotsComeBack EveryRunEnds
