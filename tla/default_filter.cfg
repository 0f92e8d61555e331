SPECIFICATION Spec
CONSTANTS
  a1 = a1  a2 = a2  admin = admin  dev = dev  q = q  odd = odd
  NoSettings = NoSettings  NoAccount = NoAccount
  NoGroup = NoGroup  Nameless = Nameless  None = None
  Segments <- AllTexts
  Accounts <- AllTexts
  Digits <- Numbers
  Words <- WordsOf
  Long <- LongOf
  Filters <- SomeFilters
  NumGroups = 3
  PageSize = 2
  Names <- RoleFirstNames
  InitialNames <- RoleFirstBeginnings
  Apps <- RoleFirstApp
  SamlRoles = {dev}
  Answers = {}
  Faults = {}
  MaxFaults = 0
  MaxRenames = 0
  MaxToggles = 0
CHECK_DEADLOCK FALSE
INVARIANTS Complete
