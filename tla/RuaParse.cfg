SPECIFICATION ParseSpec
CONSTANTS
  MaxStarts = 9
CHECK_DEADLOCK FALSE
INVARIANTS
  TypeOK
  SaysWhatTheDocumentSays
