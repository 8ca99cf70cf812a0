SPECIFICATION Spec
CONSTANTS
  t1 = t1
  t2 = t2
  Missing = Missing
  NoTime = NoTime
  NoStat = NoStat
  NoEntry = NoEntry
  Nothing = Nothing
  Panic = Panic
  Threads <- Threads2
  Field = "tsconfigs"
  Debounce = 2
  MaxCalls = 1
  MaxWrites = 1
  MaxTime = 3
SYMMETRY Symmetry
INVARIANTS NoPanic
CHECK_DEADLOCK FALSE
