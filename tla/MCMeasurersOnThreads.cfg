CONSTANTS
  p = p
  w = w
  Thread = {p, w}
  OtherWorkload = {w}
  KernelThread = KernelThread
  None = None
SPECIFICATION FairSpec
CHECK_DEADLOCK FALSE
INVARIANTS NoneMissed
PROPERTIES KeepsLifeCycles CountersClosed
