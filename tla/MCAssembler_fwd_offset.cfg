CONSTANTS
  a = a
  b = b
  Symbols <- MCSymbols
  Lines <- FwdOffsetLines
  MaxLines = 3

INIT Init
NEXT Next

INVARIANT
  ForwardRefsPatched

CHECK_DEADLOCK FALSE
