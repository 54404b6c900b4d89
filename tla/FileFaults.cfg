SPECIFICATION Spec
CONSTANTS
  Threads = {t1, t2}
  MsgLens = {1, 2}
  MaxFileSize = 2
  MaxBackupIndex = 1
  StdinStates = {TRUE, FALSE}
  NONE = NONE
  MaxMessages = 2
  MaxFaults = 1
  MaxCrashes = 1
INVARIANTS FilesizeAccurate BackupsInAgeOrder LossBounded
SYMMETRY ThreadSymmetry
CHECK_DEADLOCK FALSE
