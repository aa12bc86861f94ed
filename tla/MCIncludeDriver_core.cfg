CONSTANTS
  fm = fm  f1 = f1  pm = pm  p1 = p1  q1 = q1  p3 = p3  input = input  none = none
  Files <- MCFiles
  Paths <- MCPaths
  Main = fm
  MainPath = pm
  Filename = pm
  Missing = none
  Resolve <- MCResolve
  Kinds <- MCKinds
  MaxLen = 2
SPECIFICATION Spec
INVARIANTS TypeOK GuardIsStack PositionsRestored
PROPERTIES ExpansionOrder
CHECK_DEADLOCK FALSE
