SPECIFICATION Spec
CONSTANTS
  t1 = t1
  t2 = t2
  v1 = v1
  Threads <- MCThreads
  Paths <- MCPaths
  Dirs <- MCDirs
  DescPaths <- MCDescPaths
  Parent <- MCParent
  Anc <- MCAnc
  Versions = {v1}
  Plans <- AllPlans
  InitialDisks <- AllDisks
  MaxChanges = 1
  Dir = Dir
  File = File
  Missing = Missing
  NoPath = NoPath
  NoEntry = NoEntry
  Nobody = Nobody
  NoStat = NoStat
  Unset = Unset
  NoDesc = NoDesc
  NoJson = NoJson
  BadJson = BadJson
INVARIANTS TypeOK FreshAnswers StableStat WaitOrder
PROPERTIES CellsWriteOnce CallsReturn
CHECK_DEADLOCK FALSE
