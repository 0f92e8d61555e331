SPECIFICATION FairSpec
CONSTANTS
  NoEntry = NoEntry  Nothing = Nothing
  Groups = {g1}
  Lists = {A, B}
  Slots = {w1, w2}
  Sync = sync
  Page = page
  CacheEnabled = TRUE
  TTL = 2
  MaxFlight = 1
INVARIANTS IInv Fresh
PROPERTIES Converges
