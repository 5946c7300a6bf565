SPECIFICATION Spec
CONSTANTS
  Runs <- MCRuns
  Groups <- MCGroups
  GroupOf <- MCGroupOf
  NoGroup = "none"
  Limits = {1}
  Exempt = {3}
  Sizes = {1, 2}
  Events = {"cancel", "hold", "operator", "fail", "ambiguous", "deletefail", "crash"}
  MaxEvents = 2
INVARIANTS SlotsAccounted GroupsExclusive NoMissedGrant
