CONSTANTS
  a = a
  b = b
  Symbols <- MCSymbols
  Lines <- DanglingFixupLines
  MaxLines = 2

INIT Init
NEXT Next

INVARIANT
  FixupsTargetEmittedWords

CHECK_DEADLOCK FALSE
