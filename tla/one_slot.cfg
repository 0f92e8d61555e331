SPECIFICATION FairSpec
CONSTANTS
  u1 = u1  g1 = g1  g2 = g2  r1 = r1  r2 = r2  w1 = w1  w2 = w2
  NoView = NoView  NoTask = NoTask  NoRoles = NoRoles
  Users = {u1}
  Groups <- TwoGroups
  Roles = {r1, r2}
  Parsable = {r1}
  Member <- InAllGroups
  Workers = {w1}
  Configurations <- AllConfigurations
  Beginnings <- OneRoleEach
  CacheEnabled = TRUE
  DefaultRoles = {r1}
  SerialPerPrincipal = FALSE
  SyncReads = TRUE
  Faults <- AnyFault
  MaxAttempts = 1
  MaxTasks = 1
  MaxOutside = 1
CHECK_DEADLOCK FALSE
INVARIANTS TypeOK
PROPERTIES ConversionAllowed ConversionKeepsRoles AnsweredTruly MappingReadOnly EveryTaskEnds
