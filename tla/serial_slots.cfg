SPECIFICATION Spec
CONSTANTS
  u1 = u1  g1 = g1  g2 = g2  r1 = r1  r2 = r2  w1 = w1  w2 = w2
  NoView = NoView  NoTask = NoTask  NoRoles = NoRoles
  Users = {u1}
  Groups <- OneGroup
  Roles = {r1, r2}
  Parsable = {r1, r2}
  Member <- InAllGroups
  Workers = {w1, w2}
  Configurations <- ConvertingOnly
  Beginnings <- OneOrBoth
  CacheEnabled = TRUE
  DefaultRoles = {r1}
  SerialPerPrincipal = TRUE
  SyncReads = FALSE
  Faults <- AnyFault
  MaxAttempts = 1
  MaxTasks = 3
  MaxOutside = 0
SYMMETRY SlotSymmetry
CHECK_DEADLOCK FALSE
INVARIANTS IInv CacheCoherent
PROPERTIES ExactChange NoMixture ImplementsRoles
