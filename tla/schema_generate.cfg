CONSTANTS
  NFiles = 2
  NoFile = NoFile
  NaN = NaN
  Old = Old
  Sheets <- MCSheets
SPECIFICATION Spec
INVARIANTS SchemaMatchesSheets
CHECK_DEADLOCK FALSE
