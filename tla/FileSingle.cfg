SPECIFICATION FairSpec
CONSTANTS
  Threads = {t1}
  MsgLens = {1, 2, 3}
  MaxFileSize = 2
  MaxBackupIndex = 2
  StdinStates = {FALSE}
  NONE = NONE
  NoFile = NoFile
  MaxMessages = 5
  MaxFaults = 0
  MaxCrashes = 0
PROPERTIES OnlyOldestRemoved ImplementsRotatingLog
CHECK_DEADLOCK FALSE
