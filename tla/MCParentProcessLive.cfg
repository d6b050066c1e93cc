CONSTANTS
  m = m
  a = a
  Tid = {m, a}
  mainChild = m
  None = None
  MaxSends = 2
  ReuseTids = FALSE
SPECIFICATION FairSpec
PROPERTIES
  QueueDrained
  ProgramContinues
  ExitedForgotten
