SPECIFICATION MCSpec
CONSTANTS
  AppenderNames = {"log"}
  KeptName <- MCKeptName
  Obsolete = Obsolete
  ExtraClasses = {}
  Kinds <- MCFileOnly
  MaxExtraClasses = 0
  MaxAppenders = 1
  LoggerNames <- MCNames
  Parts = {"b"}
  CustomNames <- MCCustomNames
  Levels <- MCLevels
  Additivities = {FALSE}
  NameSize = 6
  MaxSlots = 1
  MaxRecursions = 3
  CustomLevel = 0
  MaxLoggers = 6
  MaxAdopted = 1
INVARIANTS ParentByName LevelInherited AnswersAsParent LoggersUnique DeliveredOncePerLogger
PROPERTIES LookupStable
