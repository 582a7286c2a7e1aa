SPECIFICATION FairSpec
CONSTANTS
  Main = main
  Thread = {main, other}
  LogFile = {agar}
  None = none
  MaxEntries = 3
  MaxFileSize = 1
  DaySeconds = 1
  MaxTime = 1
  MaxProcesses = 2
  PidReused = TRUE
INVARIANT LogSafe NoLostWakeup LosesOnlyLate
PROPERTY FilesKept EntryWritten
CHECK_DEADLOCK FALSE
