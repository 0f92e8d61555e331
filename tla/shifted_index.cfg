SPECIFICATION Spec
CONSTANTS
  r1 = r1  r2 = r2  NoEntry = NoEntry
  NumUsers = 2
  NumGroups = 3
  Roles = {r1, r2}
  NameRoles <- Names
  Configurations <- SeparateOnly
  Worlds <- ThroughGroups
  PageSize = 2
  LargeCollection = 2
  Faults = {"429"}
  LostWrites = {}
  Evictable = {}
  Changes = {"member"}
  MaxFaults = 1
  MaxChanges = 1
CHECK_DEADLOCK FALSE
INVARIANTS Complete
