SPECIFICATION Spec
CONSTANTS
  Worlds <- ContextWorlds
  MaxDepth = 127
  BadJson = BadJson
  NoField = NoField
INVARIANTS ContextIsDir
CHECK_DEADLOCK FALSE
