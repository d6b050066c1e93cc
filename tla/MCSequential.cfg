CONSTANTS
  o1 = o1
  o2 = o2
  o3 = o3
  Object = {o1, o2, o3}
  Root = o1
  Null = Null
  Text <- MCText
  MaxValues = 4
  Byte <- MCByte
  MaxLength = 3
  NoFile = NoFile
  Category = {"root", "hashing", "build"}
  MaxTime = 4
  MaxDepth = 3
  Key = {"measureRaw", "numberOfRuns"}
  Value = {1, 2}
  Unset = Unset
  MaxPushes = 3
  Space <- MCSpace
  Quantity = {0, 1, 2}
  None = None
  m1 = m1
  m2 = m2
  m3 = m3
  m4 = m4
  m5 = m5
  m6 = m6
  h1 = h1
  h2 = h2
  Measurement = {m1, m2, m3, m4, m5, m6}
  Hash = {h1, h2}
  TrueCore <- MCTrueCore
  NoOptimum = NoOptimum
  Parts = {"repository", "serialization", "stream", "monitor", "configuration", "optimization"}
SPECIFICATION MCSpec
SYMMETRY Alike
CHECK_DEADLOCK FALSE
INVARIANTS MapsAgree KnowledgeIsTrue RoundTrip RunsOnCopy FileIsUpdated TimeIsAccounted NothingTriedIsBetter
PROPERTIES ImplementsClasses PopRestores
