CONSTANTS
  m = m
  l = l
  k = k
  None = None
  Workload = {m, l}
  Measurements <- MCExpTime1
  RunCount = 1
  MayFail = FALSE
SPECIFICATION FairSpec
PROPERTY WaitsForStart
CHECK_DEADLOCK FALSE
