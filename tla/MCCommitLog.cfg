SPECIFICATION MCSpec
CONSTANTS
  Batch = {b1, b2}
  None = None
  Sync = TRUE
  MaxLog = 4
INVARIANTS
  LandedIsLast
  AckedSealed
CHECK_DEADLOCK FALSE
