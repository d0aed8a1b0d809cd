SPECIFICATION Spec
CONSTANTS
  Shape <- KeyName
  Diff <- DiffName
  Alphabets <- Every
  MaxPieces = 4
  Indent <- TwoSpaces
INVARIANTS
  PrettyIsInverse
  LayoutMeansNothing
  AlignedParses
  OneElementPerLine
CHECK_DEADLOCK FALSE
