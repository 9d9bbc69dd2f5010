---------------------------- MODULE MCFlowSensitive ----------------------------
(***************************************************************************)
(* FlowSensitive on the small value-flow graphs of MCValueFlow.            *)
(***************************************************************************)
EXTENDS FlowSensitive, MCValueFlow

MCProgramsFlow ==
  Rows(3, TRUE) \cup Rows(2, FALSE) \cup FieldRows(2, TRUE) \cup Loops(3, TRUE)
    \cup {RecursiveCall, CallGraph("p", "q", "fp", TRUE), CallGraph("p", "q", "fp", FALSE),
          CallGraph("r", "p", "n", TRUE)}
================================================================================
