SPECIFICATION FairSpec
CONSTANTS
  MaxLen = 5
  Buffers <- ShortBuffers
INVARIANTS
  EveryEtbCommits
  BlocksInOrder
  DamagedIffUnreadable
  PrefixStable
  RepairKeepsCommits
  AppendLands
PROPERTIES
  ScanEnds
CHECK_DEADLOCK FALSE
