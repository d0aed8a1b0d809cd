SPECIFICATION Spec
CONSTANTS
  Shape <- ShapeName
  Diff <- DiffName
  Chars <- CsvChars
  Keys <- KeyNames
  Leaves <- AllLeaves
  Siblings <- SmallTrees
  Name <- GroupName
  MaxChars = 0
  MaxLevels = 2
INVARIANTS
  EveryTreeComesBack
CHECK_DEADLOCK FALSE
