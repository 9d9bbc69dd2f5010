----------------------- MODULE MCVersionedFlowSensitive ------------------------
(***************************************************************************)
(* VersionedFlowSensitive on the small value-flow graphs of MCValueFlow.   *)
(***************************************************************************)
EXTENDS VersionedFlowSensitive, MCValueFlow

MCProgramsVersioned ==
  Rows(2, TRUE) \cup FieldRows(2, TRUE) \cup Loops(2, TRUE) \cup Walks(2)
    \cup Joins(FALSE) \cup Joins(TRUE)
    \cup {RecursiveCall, LoadedCall, CallGraph("p", "q", "fp", FALSE)}
    \cup {P \in {CallGraph(x, y, V, TRUE) : x \in {"p", "q", "r"}, y \in {"p", "q", "r"},
                                            V \in {"n", "fp"}} : Anticipated(P)}

MCProgramsForwarded == {ForwardedCall}

(* Every variable points to all that the flow equations say it does, as    *)
(* prelabel() claims of the versions of delta nodes: "sound but imprecise". *)
SoundWhenDone ==
  pc = "done" =>
    \E least \in {LeastFlow(svfg)} : \A x \in Var : least.pts[x] \subseteq pts[x]
=============================================================================
