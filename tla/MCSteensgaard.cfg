CONSTANTS
  p = p
  q = q
  r = r
  s = s
  a = a
  af = a
  b = b
  Vals = {p, q, r, s}
  NoNode = NoNode
  Node <- MCNode
  Object <- MCObject
  Offset <- MCOffset
  BaseOf <- MCBaseOf
  FieldAt <- MCFieldAt
  BlkOrConst = {}
  NonPointer = {}
  Programs <- MCProgramsSteensgaard
  NumArcs = 2
  Unified <- FinestUnification
SPECIFICATION Spec
INVARIANTS
  SoundWhenDone
  WithinUnificationWhenDone
PROPERTIES
  Termination
