SPECIFICATION Spec
CONSTANTS
  Calls = {1, 2}
  Files <- MCFiles
  Names <- MCNames
  Resolve <- MCResolve
  NotThere = NotThere
  Diffs <- ClaimDiffs
  MaxCrashes = 0
  MaxErrors = 1
INVARIANTS
  OkEditsStay
  AllOrNothing
CHECK_DEADLOCK FALSE
