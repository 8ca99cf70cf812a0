SPECIFICATION Spec
CONSTANTS
  Worlds <- ModuleWorlds
  MaxDepth = 127
  BadJson = BadJson
  NoField = NoField
INVARIANTS ModuleInFolder
CHECK_DEADLOCK FALSE
