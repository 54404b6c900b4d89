SPECIFICATION Spec
CONSTANTS
  Threads = {t1, t2}
  LoggerNames <- MCNames
  NameSize = 40
  MaxCalls = 2
  MaxFailures = 1
INVARIANTS RacesContained
PROPERTIES AsOneCall
SYMMETRY MCSymmetry
CHECK_DEADLOCK FALSE
