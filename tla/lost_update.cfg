SPECIFICATION Spec
CONSTANTS
  u1 = u1  g1 = g1  g2 = g2  r1 = r1  r2 = r2  w1 = w1  w2 = w2
  NoView = NoView  NoTask = NoTask  NoRoles = NoRoles
  Users = {}
  Groups <- OneGroup
  Roles = {r1, r2}
  Parsable = {r1, r2}
  Member <- InAllGroups
  Workers = {w1, w2}
  Configurations <- ConvertingOnly
  Beginnings <- BareGroups
  CacheEnabled = FALSE
  DefaultRoles = {}
  SerialPerPrincipal = FALSE
  SyncReads = FALSE
  Faults <- NoFault
  MaxAttempts = 1
  MaxTasks = 2
  MaxOutside = 0
SYMMETRY Symmetry
CHECK_DEADLOCK FALSE
PROPERTIES ExactChange
