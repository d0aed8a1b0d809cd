SPECIFICATION Spec
CONSTANTS
  Shape <- KeyName
  Diff <- DiffName
  Alphabets <- Every
  MaxPieces = 5
INVARIANTS
  ValidIsRead
  OneSpelling
  DocumentsApart
CHECK_DEADLOCK FALSE
