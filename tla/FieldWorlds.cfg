SPECIFICATION Spec
CONSTANTS
  Worlds <- MCWorlds
  Values <- MCValues
  Nesting <- MCNesting
  Nothing = Nothing
  Error = Error
  Failed = Failed
  Pass = Pass
  Panic = Panic
INVARIANTS TypeOK ParsedRight ModuleSplit BestIsBest TargetsExplained WalkAgrees
PROPERTIES Returns
CHECK_DEADLOCK FALSE
