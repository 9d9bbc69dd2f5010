CONSTANTS
  p = p
  q = q
  r = r
  s = s
  a = a
  af = af
  b = b
  Vals = {p, q, r}
  NoNode = NoNode
  Node <- MCNode
  Object <- MCObject
  Offset <- MCOffset
  BaseOf <- MCBaseOf
  FieldAt <- MCFieldAt
  BlkOrConst = {b}
  NonPointer = {}
  Programs <- MCProgramsWave
  Insensitive <- LeastSolution
  NumArcs = 3
SPECIFICATION WaveSpec
INVARIANTS
  CyclesCollapsedWhenDone
  CopyEdgesSolvedWhenDone
  PreciseWhenDone
PROPERTIES
  Termination
