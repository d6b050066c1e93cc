\* Calls by workload and by thread id, one nested in another.
CONSTANTS
  m = m
  w = w
  u = u
  c1 = c1
  c2 = c2
  c3 = c3
  c4 = c4
  Thread = {m, w, u}
  mainChild = m
  Workloads = {w}
  None = None
  Call = {c1, c2, c3, c4}
  To <- NestedTo
  ByWorkload = {c1, c4}
  Program <- NestedProgram
  Calls <- NestedCalls
SPECIFICATION FairSpec
CHECK_DEADLOCK FALSE
INVARIANTS
  HelperExists
  RightThread
  ActionAnnounced
PROPERTIES
  ExecuteReturns
  ImplementsExecution
