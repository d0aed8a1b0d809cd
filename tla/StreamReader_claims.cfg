SPECIFICATION Spec
CONSTANTS
  MaxLen = 4
  Buffers <- ClaimBuffers
INVARIANTS
  CutTextIsDamaged
  LastCommitAgrees
CHECK_DEADLOCK FALSE
