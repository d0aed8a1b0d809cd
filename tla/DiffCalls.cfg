SPECIFICATION Spec
CONSTANTS
  Shape <- KeyName
  Diff <- DiffName
  Paths <- MCPaths
  Patterns <- MCPatterns
  Contexts <- MCContexts
  Scalars <- MCScalars
  Pieces <- MCPieces
  HeadingNote = FALSE
  MaxCalls = 3
  MaxPieces = 4
INVARIANTS
  ParsedIsSaid
  BuiltIsValid
  ParseAgreesWithValidator
CHECK_DEADLOCK FALSE
