SPECIFICATION Spec
CONSTANTS
  Shape <- KeyName
  Diff <- DiffName
  Alphabets <- OnlyBody
  MaxPieces = 4
INVARIANTS
  EveryValidIsRead
  CanonicalHasOneSpelling
CHECK_DEADLOCK FALSE
