SPECIFICATION Spec
CONSTANTS
  Shape <- KeyName
  Diff <- DiffName
  Scalars <- MCScalars
  Names <- MCNames
  Keys <- MCKeys
  Headers <- MCHeaders
  Rows <- MCRows
  Maps <- MCMaps
  Paths <- MCPaths
  InOrder = TRUE
  MaxCalls = 4
  MaxDepth = 2
INVARIANTS
  SaidIsRead
  ComposedIsCanonical
CHECK_DEADLOCK FALSE
