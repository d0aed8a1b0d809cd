SPECIFICATION Spec
CONSTANTS
  Procs = {p1}
  Batches <- AllBatches
  DropOnError = TRUE
  Settings <- OneOfEach
INVARIANTS
  AckedInLog
  WholeBatches
  ShortcutAgrees
  ReadIsConsistent
PROPERTIES
  DurableStays
  Implements
CHECK_DEADLOCK FALSE
