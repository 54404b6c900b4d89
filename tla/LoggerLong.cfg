SPECIFICATION Spec
CONSTANTS
  AppenderNames = {}
  KeptName <- MCKeptName
  Obsolete = Obsolete
  ExtraClasses = {}
  Kinds = {}
  MaxExtraClasses = 0
  MaxAppenders = 0
  LoggerNames <- MCLongNames
  Parts = {}
  CustomNames = {}
  Levels <- MCDebugOnly
  Additivities = {}
  NameSize = 4
  MaxSlots = 1
  MaxRecursions = 2
  CustomLevel = 0
  MaxLoggers = 4
  MaxAdopted = 0
INVARIANTS ImplicitInherit
