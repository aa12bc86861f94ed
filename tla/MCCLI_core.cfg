CONSTANTS
  img = img  old = old
  Images = {img}
  Stale = old
INIT Init
NEXT Next
INVARIANTS TypeOK ShownIsFresh NoTraceback
CHECK_DEADLOCK FALSE
