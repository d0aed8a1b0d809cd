SPECIFICATION Spec
CONSTANTS
  Rows <- ShortRows
  Names <- OneName
  MaxCalls = 4
  MaxTears = 1
INVARIANTS
  RecordsAreCommitted
CHECK_DEADLOCK FALSE
