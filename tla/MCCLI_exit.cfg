CONSTANTS
  img = img  old = old
  Images = {img}
  Stale = old
INIT Init
NEXT Next
INVARIANT ExitStatusReflectsOutcome
CHECK_DEADLOCK FALSE
