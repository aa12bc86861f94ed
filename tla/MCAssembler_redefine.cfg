CONSTANTS
  a = a
  b = b
  Symbols <- MCSymbols
  Lines <- RedefineLines
  MaxLines = 3

INIT Init
NEXT Next

PROPERTY
  NoSilentRebinding

CHECK_DEADLOCK FALSE
