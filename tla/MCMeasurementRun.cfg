CONSTANTS
  m = m
  l = l
  k = k
  None = None
  Workload = {m, l, k}
  Measurements <- MCMeasurements
  RunCount = 2
  MayFail = TRUE
SPECIFICATION FairSpec
INVARIANTS TypeOK OutputsComplete StartTogether LoadOutlastsKernel
PROPERTIES KeepsLifeCycles RunsEnd
