CONSTANTS
  Binaries <- MCBinaries
  StartAddress = 0
  ShowAddresses = TRUE
INIT Init
NEXT Next
INVARIANTS ListingMatchesWords GeneratedImageReassembles LoopTargetIsLoopStart
CHECK_DEADLOCK FALSE
