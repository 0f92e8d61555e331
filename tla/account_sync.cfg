SPECIFICATION FairSpec
CONSTANTS
  a1 = a1  a2 = a2  admin = admin  dev = dev  q = q  odd = odd
  NoSettings = NoSettings  NoAccount = NoAccount
  NoGroup = NoGroup  Nameless = Nameless  None = None
  Segments <- AllTexts
  Accounts <- AllTexts
  Digits <- Numbers
  Words <- WordsOf
  Long <- LongOf
  Filters <- SomeFilters
  NumGroups = 3
  PageSize = 2
  Names <- SomeNames
  InitialNames <- Beginnings
  Apps <- AnyApps
  SamlRoles = {dev}
  Answers = {"403", "429", "500", "408", "transport"}
  Faults = {"crash", "lost"}
  MaxFaults = 2
  MaxRenames = 1
  MaxToggles = 1
CHECK_DEADLOCK FALSE
INVARIANTS TypeOK Complete Sound Anchored TroubleWaitedOut
PROPERTIES SyncEnds ImplementsReport
