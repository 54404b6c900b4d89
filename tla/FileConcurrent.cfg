SPECIFICATION FairSpec
CONSTANTS
  Threads = {t1, t2}
  MsgLens = {1, 2}
  MaxFileSize = 2
  MaxBackupIndex = 2
  StdinStates = {FALSE}
  NONE = NONE
  MaxMessages = 3
  MaxFaults = 0
  MaxCrashes = 0
INVARIANTS TypeOK LockDiscipline SizeBounded MessagesInOrder ZeroIsTransient
PROPERTIES AppendReturns
CHECK_DEADLOCK FALSE
