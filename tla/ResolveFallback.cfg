SPECIFICATION Spec
CONSTANTS
  Worlds <- FallbackWorlds
  MaxDepth = 127
  BadJson = BadJson
  NoField = NoField
INVARIANTS FallbackUsed
CHECK_DEADLOCK FALSE
