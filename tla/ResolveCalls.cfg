SPECIFICATION Spec
CONSTANTS
  Worlds <- AllWorlds
  MaxDepth = 24
  BadJson = BadJson
  NoField = NoField
INVARIANTS
  TypeOK FirstFileWins ResultIsFile ContextOrModule DepthMatches
  OverflowIsFinal FullyRestored TargetUsedUp BrokenIsError
PROPERTIES ErrorIsFinal Returns
CHECK_DEADLOCK FALSE
