SPECIFICATION Spec
CONSTANTS
  Shape <- ShapeName
  Diff <- DiffName
  Chars <- CsvChars
  Keys <- KeyNames
  Leaves <- AllLeaves
  Siblings <- SmallTrees
  Name <- GroupName
  MaxChars = 6
  MaxLevels = 3
INVARIANTS
  CsvRoundTrips
  FromValueIsCanonical
  StringsComeBack
  ExportIsStable
CHECK_DEADLOCK FALSE
