CONSTANTS
  p = p
  q = q
  r = r
  s = s
  a = a
  af = af
  b = b
  Vals = {p, q, r}
  NoNode = NoNode
  Node <- MCNode
  Object <- MCObject
  Offset <- MCOffset
  BaseOf <- MCBaseOf
  FieldAt <- MCFieldAt
  BlkOrConst = {}
  NonPointer = {}
  Programs <- MCProgramsLCD
  Insensitive <- LeastSolution
  NumArcs = 3
SPECIFICATION LCDSpec
INVARIANTS
  SolvedWhenDone
  NormalGepsSolvedWhenDone
  CyclesCollapsedWhenDone
  PreciseWhenDone
PROPERTIES
  Termination
