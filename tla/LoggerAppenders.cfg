SPECIFICATION Spec
CONSTANTS
  AppenderNames <- MCAppenderNames
  KeptName <- MCKeptName
  Obsolete = Obsolete
  ExtraClasses = {"SocketAppender", "OtherAppender"}
  Kinds <- MCKinds
  MaxExtraClasses = 1
  MaxAppenders = 3
  LoggerNames = {}
  Parts = {}
  CustomNames = {}
  Levels = {}
  Additivities = {}
  NameSize = 4
  MaxSlots = 2
  MaxRecursions = 2
  CustomLevel = 0
  MaxLoggers = 2
  MaxAdopted = 0
INVARIANTS TypeOK NamesUnique RefcountExact AttachedOnce
PROPERTIES ReplacedOnClassChange ResolutionStable
