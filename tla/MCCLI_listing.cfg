CONSTANTS
  img = img  old = old
  Images = {img}
  Stale = old
INIT Init
NEXT Next
INVARIANT ListingShowsImage
CHECK_DEADLOCK FALSE
