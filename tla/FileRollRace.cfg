SPECIFICATION Spec
CONSTANTS
  Threads = {t1, t2}
  MsgLens = {2}
  MaxFileSize = 2
  MaxBackupIndex = 2
  StdinStates = {FALSE}
  NONE = NONE
  MaxMessages = 2
  MaxFaults = 0
  MaxCrashes = 0
PROPERTIES OnlyLastBackupRemoved
CHECK_DEADLOCK FALSE
