CONSTANTS
  m1 = m1
  m2 = m2
  m3 = m3
  m4 = m4
  x = x
  y = y
  None = None
  OldCore = OldCore
  Measurement = {m1, m2, m4}
  File = {"macros", "comments"}
  Value = {x, y}
  Relevant = {"macros"}
  Content <- MCContent
  MaxRuns = 2
  CheckCore = {TRUE}
  MayFail = {"run", "store"}
  Drivers = {"this", "failing"}
SPECIFICATION MCSpec
INVARIANTS EqualCoresAreEqual OutputsOfOwnCore HashTellsCore
PROPERTIES KeepsContract OutputsKept GrowsThoughBuildsFail
