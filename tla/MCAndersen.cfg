CONSTANTS
  p = p
  q = q
  r = r
  s = s
  a = a
  af = af
  b = b
  Vals = {p, q, r}
  NoNode = NoNode
  Node <- MCNode
  Object <- MCObject
  Offset <- MCOffset
  BaseOf <- MCBaseOf
  FieldAt <- MCFieldAt
  BlkOrConst = {}
  NonPointer = {}
  Programs <- MCProgramsAndersen
  Insensitive <- LeastSolution
  NumArcs = 3
SPECIFICATION Spec
INVARIANTS
  SolvedWhenDone
  PropagatedDelivered
  PreciseWhenDone
PROPERTIES
  SolutionGrows
  Termination
