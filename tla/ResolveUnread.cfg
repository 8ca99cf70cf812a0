SPECIFICATION Spec
CONSTANTS
  Worlds <- UnreadWorlds
  MaxDepth = 127
  BadJson = BadJson
  NoField = NoField
INVARIANTS NoPanic
CHECK_DEADLOCK FALSE
