CONSTANTS
  IntOf <- MCInts
  TextOf <- MCTexts
  MAX_PROTO_NESTING = 2
  Forms <- MCForms
  Slips = {"}", ";", "x", "1", "-"}
  MaxStatements = 3
  MaxSlips = 1
  MaxBroken = 2
  MaxNotes = 1
SPECIFICATION Spec
INVARIANTS ParserEnds NothingDropped FormatKeeps
CHECK_DEADLOCK FALSE
