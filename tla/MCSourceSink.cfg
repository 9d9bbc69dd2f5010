CONSTANTS
  Node <- MCNode
  Site <- MCSite
  Valuation <- MCValuation
  CxtLimits = {0, 1, 3}
  Programs <- MCPrograms
  NoNode = "none"
  Depth = 4
  Stages <- MCStages
SPECIFICATION Spec
INVARIANTS
  SliceClosed
  ReportsJustified
  SilenceJustified
PROPERTIES
  Termination
