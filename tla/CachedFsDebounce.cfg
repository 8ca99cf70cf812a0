SPECIFICATION Spec
CONSTANTS
  t1 = t1
  t2 = t2
  Missing = Missing
  NoTime = NoTime
  NoStat = NoStat
  NoEntry = NoEntry
  Nothing = Nothing
  Panic = Panic
  Threads <- Threads2
  Field = "tsconfigs"
  Debounce = 1
  MaxCalls = 2
  MaxWrites = 2
  MaxTime = 1
SYMMETRY Symmetry
INVARIANTS TypeOK Debounced PanicExplained
CHECK_DEADLOCK FALSE
