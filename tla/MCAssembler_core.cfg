CONSTANTS
  a = a
  b = b
  Symbols <- MCSymbols
  Lines <- CoreLines
  MaxLines = 4

INIT Init
NEXT Next

INVARIANTS
  TypeOK
  CursorsTrackVectors
  DeferredRefsTracked
  ForwardRefsPatched
  LiteralImmediatesTruncated

CHECK_DEADLOCK FALSE
