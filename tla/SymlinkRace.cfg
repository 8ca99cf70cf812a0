SPECIFICATION Spec
CONSTANTS
  t1 = t1
  t2 = t2
  a = a
  b = b
  x = x
  Threads <- MCThreads
  Names <- MCNames
  Paths <- MCPaths
  Goals <- MCGoals
  Disks <- MCDisks
  Fails = Fails
  Unset = Unset
  NoLink = NoLink
  NoPath = NoPath
  Nobody = Nobody
  MaxCalls = 1
  MaxChanges = 1
  MaxClears = 1
INVARIANTS TypeOK CellsCanonical
PROPERTIES AnswersCanonical ImplementsRealPath
CHECK_DEADLOCK FALSE
