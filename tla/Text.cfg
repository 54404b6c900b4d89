SPECIFICATION TextSpec
CONSTANTS
  IntBits = 8
  LongBits = 9
  MaxEstimate = 64000
  LEN2B = 6
  LEN8B = 12
  GuessLen = 9
  MinFrame = 16
  MaxAttrs = 2
  MaxAttrLen = 30
  Letters = {"a", "b"}
  SizeBits = 16
  KiloBits = 4
  MegaLimit = 3
  KiloLimit = 15
  DirSize = 3
  DayLength = 86400
INVARIANTS PrintfAsC  LineAsPattern RecordReadable CodingReadable AttributesAsWritten OptionsAsMeant
