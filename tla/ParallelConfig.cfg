SPECIFICATION ParallelSpec
CONSTANTS
  Cpus = {1, 2, 3, 8}
  Values = {0, 1, 2, 3, 16}
  Unset = Unset
  None = None
CHECK_DEADLOCK FALSE
INVARIANT UnsetThresholdIsAutomatic
