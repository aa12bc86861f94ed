CONSTANTS
  Binaries <- FormBinaries
  StartAddress = 0
  ShowAddresses = TRUE
INIT Init
NEXT Next
INVARIANT ListingReassembles
CHECK_DEADLOCK FALSE
