SPECIFICATION Spec
CONSTANTS
  NoEntry = NoEntry  Nothing = Nothing
  Groups = {g1}
  Lists = {A, B}
  Slots = {}
  Sync = sync
  Page = page
  CacheEnabled = TRUE
  TTL = 0
  MaxFlight = 1
INVARIANTS Fresh
