CONSTANTS
  Node = {n1, n2, n3}
  NoNode = NoNode
  GraphsToSearch <- MCGraphs
  CandidateSets <- MCCandidateSets
SPECIFICATION Spec
INVARIANTS
  ComponentsFound
  SubNodesAreComponents
  TopologicalOrder
PROPERTIES
  FindReturns
