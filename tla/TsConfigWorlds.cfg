SPECIFICATION Spec
CONSTANTS
  f1 = f1
  f2 = f2
  f3 = f3
  Files <- MCFiles
  Chars <- MCChars
  Worlds <- MCWorlds
  MaxFrames = 4
  NoText = NoText
  NoFile = NoFile
  Ignored = Ignored
  Failed = Failed
  Error = Error
  Panic = Panic
  Crash = Crash
INVARIANTS TypeOK CrashIsCycle ContextKept NearestWins FailuresExplained AnswerAllowed
PROPERTIES Returns
CHECK_DEADLOCK FALSE
