CONSTANTS
  p = p
  q = q
  r = r
  s = s
  a = a
  af = af
  b = b
  Vals = {p, q, r, s}
  NoNode = NoNode
  Node <- MCNode
  Object <- MCObject
  Offset <- MCOffset
  BaseOf <- MCBaseOf
  FieldAt <- MCFieldAt
  BlkOrConst = {}
  NonPointer = {}
  Programs <- MCProgramsLateCycle
  Insensitive <- LeastSolution
  NumArcs = 1
SPECIFICATION WaveSpec
INVARIANT SolvedWhenDone
