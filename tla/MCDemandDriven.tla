---------------------------- MODULE MCDemandDriven -----------------------------
(***************************************************************************)
(* DemandDriven on the small value-flow graphs of MCValueFlow.             *)
(***************************************************************************)
EXTENDS DemandDriven, MCValueFlow

MCProgramsDemand == Rows(2, TRUE) \cup FieldRows(2, TRUE) \cup HeadLoops(2) \cup Walks(2)
   \cup {CallGraph("p", "q", "fp", FALSE), CallGraph("r", "p", "fp", FALSE), LoadedCall}

MCProgramsRecursive == {RecursiveWalk}

(* Every answer holds all that the variable points to in the least         *)
(* solution of the flow equations.                                         *)
AnswersSound ==
  stack = <<>> /\ answered # {} =>
    \E least \in {LeastFlow(svfg).pts} : \A x \in answered : least[x] \subseteq pts[x]
=============================================================================
