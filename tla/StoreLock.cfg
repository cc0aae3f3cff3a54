SPECIFICATION FairLockSpec
CONSTANTS
  Documents = {d}
  Empty = Empty
  None = None
  Threads = {t1, t2}
  MaxUpdates = 2
INVARIANTS
  ListingsAreCurrent
PROPERTIES
  ImplementsSerialStore
  PoisonedStoreIsClosed
  RequestsAreAnswered
