CONSTANTS
  NFiles = 2
  NoFile = NoFile
  NaN = NaN
  Old = Old
  Sheets <- MCSheets
SPECIFICATION Spec
INVARIANTS NoTruncatedOutput
CHECK_DEADLOCK FALSE
