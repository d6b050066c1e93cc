\* Two threads besides the main thread, two sends.
CONSTANTS
  m = m
  a = a
  b = b
  Tid = {m, a, b}
  mainChild = m
  None = None
  MaxSends = 2
  ReuseTids = FALSE
SPECIFICATION Spec
SYMMETRY Symmetry
INVARIANTS
  TypeOK
  InterruptedProgramSaved
  NoLostWakeup
  HandlerNotDisturbed
  SyscallStopsInStep
  ExitingAnnounced
  ChildThreadExists
PROPERTIES
  ImplementsService
