CONSTANTS
  a = a
  b = b
  Symbols <- MCSymbols
  Lines <- StackOffsetLines
  MaxLines = 1

INIT Init
NEXT Next

INVARIANT
  StackOffsetsWiden

CHECK_DEADLOCK FALSE
