SPECIFICATION MetricsSpec
CONSTANTS
  t1 = t1
  t2 = t2
  view = view
  viewEscaped = viewEscaped
  edit = edit
  None = None
  Threads <- MCThreads
  Actions <- MCActions
  LabelOf <- MCLabelOf
  MaxObservations = 3
SYMMETRY Symmetry
CHECK_DEADLOCK FALSE
INVARIANTS
  NoObservationIsLost
  HandlesAreShared
