SPECIFICATION FairSpec
CONSTANTS
  r1 = r1  r2 = r2  NoEntry = NoEntry
  NumUsers = 2
  NumGroups = 3
  Roles = {r1, r2}
  NameRoles <- Names
  Configurations <- AllConfigurations
  Worlds <- ThroughGroups
  PageSize = 2
  LargeCollection = 2
  Faults = {"429", "403", "408", "crash", "storeRead"}
  LostWrites = {"settings", "appGroup", "notAppGroup"}
  Evictable = {"settings", "appGroup", "notAppGroup"}
  Changes = {"member", "delete"}
  MaxFaults = 2
  MaxChanges = 1
CHECK_DEADLOCK FALSE
INVARIANTS WarnedOfLoss Sound
PROPERTIES SyncEnds Onward
