SPECIFICATION Spec
CONSTANTS
  Calls = {1, 2, 3}
  Files <- MCFiles
  Names <- MCNames
  Resolve <- MCResolve
  NotThere = NotThere
  Diffs <- MCDiffs
  MaxCrashes = 2
  MaxErrors = 2
INVARIANTS
  FilesAreWhole
  RefusedChangesNothing
  OkEditsStay
  EditsInOrder
CHECK_DEADLOCK FALSE
