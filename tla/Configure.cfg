SPECIFICATION ConfiguratorSpec
CONSTANTS
  AppenderNames = {"A", "B"}
  KeptName <- MCKeptName
  Obsolete = Obsolete
  ExtraClasses = {"SocketAppender"}
  Kinds <- MCKinds
  MaxExtraClasses = 1
  MaxAppenders = 16
  LoggerNames <- MCNames
  Parts = {}
  CustomNames = {}
  Levels <- MCLevels
  Additivities = {FALSE}
  NameSize = 6
  MaxSlots = 2
  MaxRecursions = 3
  CustomLevel = 0
  MaxLoggers = 6
  MaxAdopted = 0
  Texts <- MCTexts
  ClassesPassed <- MCPassed
  MaxConfigurations = 2
INVARIANTS ConfiguredAsDeclared RepeatChangesNothing OptionToEnclosing
CHECK_DEADLOCK FALSE
