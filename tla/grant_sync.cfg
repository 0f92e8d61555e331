SPECIFICATION Spec
CONSTANTS
  r1 = r1  r2 = r2  NoEntry = NoEntry
  NumUsers = 3
  NumGroups = 3
  Roles = {r1, r2}
  NameRoles <- Names
  Configurations <- AllConfigurations
  Worlds <- AllWorlds
  PageSize = 2
  LargeCollection = 2
  Faults = {"429", "403", "408", "crash", "storeRead"}
  LostWrites = {"settings", "appGroup", "notAppGroup"}
  Evictable = {"settings", "appGroup", "notAppGroup"}
  Changes = {"roles", "assignment", "direct"}
  MaxFaults = 1
  MaxChanges = 1
CHECK_DEADLOCK FALSE
INVARIANTS TypeOK Complete Sound NegativeTrue SetComplete
PROPERTIES ImplementsReport
