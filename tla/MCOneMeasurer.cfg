CONSTANTS
  p = p
  w = w
  Thread = {p, w}
  OtherWorkload = {w}
  KernelThread = KernelThread
  None = None
SPECIFICATION Spec
CHECK_DEADLOCK FALSE
INVARIANT OneMeasurer
