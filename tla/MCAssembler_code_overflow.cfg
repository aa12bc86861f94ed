CONSTANTS
  a = a
  b = b
  Symbols <- MCSymbols
  Lines <- CodeOverflowLines
  MaxLines = 4

INIT Init
NEXT Next

INVARIANT
  DataPlacedAtBase

CHECK_DEADLOCK FALSE
