SPECIFICATION TracingSpec
CONSTANTS
  HttpRequests = {r1, r2, r3}
  r1 = r1
  r2 = r2
  r3 = r3
  Sizes = {4, 5}
  MaxBatchSize = 4
SYMMETRY RequestSymmetry
INVARIANTS
  EveryResponseIsCounted
  AcceptedBatchesAreObserved
  ScrapesAreConsistent
CHECK_DEADLOCK FALSE
