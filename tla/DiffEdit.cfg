SPECIFICATION Spec
CONSTANTS
  Bytes = {"a", "b"}
  Inputs <- ShortFiles
  Edits <- AllEdits
INVARIANTS
  FoundIffPlaced
  SwapRestores
  ReplacesWhatWasThere
CHECK_DEADLOCK FALSE
