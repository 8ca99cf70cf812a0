SPECIFICATION Spec
CONSTANTS
  t1 = t1
  t2 = t2
  v1 = v1
  Threads <- MCThreads
  Paths <- SmallPaths
  Dirs <- MCDirs
  DescPaths = {}
  Parent <- SmallParent
  Anc <- SmallAnc
  Versions = {v1}
  Plans <- RacePlans
  InitialDisks <- RaceDisks
  MaxChanges = 1
  Dir = Dir
  File = File
  Missing = Missing
  NoPath = NoPath
  NoEntry = NoEntry
  Nobody = Nobody
  NoStat = NoStat
  Unset = Unset
  NoDesc = NoDesc
  NoJson = NoJson
  BadJson = BadJson
INVARIANTS AnswersExplained
CHECK_DEADLOCK FALSE
