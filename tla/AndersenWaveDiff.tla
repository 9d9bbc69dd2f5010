-------------------------- MODULE AndersenWaveDiff --------------------------
(***************************************************************************)
(* Wave propagation (lib/WPA/AndersenWaveDiff.cpp), the default solver.    *)
(* Each call of solveWorklist() merges the cycles of the whole graph, then *)
(* visits every representative once in topological order and propagates    *)
(* its difference along copies and geps; the nodes that changed collect in *)
(* the worklist, and only those have their loads and stores resolved.  New *)
(* copies are not propagated but ask for another round (reanalyze).        *)
(***************************************************************************)
EXTENDS Andersen

VARIABLES
  phase,        \* the part of solveWorklist() that is running
  sccMerges,      \* <<n, r>>: merges mergeSccCycle still has to make
  nodeStack,    \* representatives the wave has not visited
  order,        \* the edges nodeStack is topologically sorted by
  tmpWorklist

waveVars == <<vars, phase, sccMerges, nodeStack, order, tmpWorklist>>

Phases == {"detect", "merge", "wave", "extra", "post"}

WaveTypeOK ==
  /\ TypeOK
  /\ phase \in Phases
  /\ sccMerges \in SUBSET (Node \X Node)
  /\ nodeStack \in SUBSET Node
  /\ order \in SUBSET (Node \X Node)
  /\ tmpWorklist \in SUBSET Node

WaveInit ==
  /\ Init
  /\ phase = "detect"
  /\ sccMerges = {}
  /\ nodeStack = {}
  /\ order = {}
  /\ tmpWorklist = {}

Reps == {n \in Node : rep[n] = n}

Idle(p) == pc = "solve" /\ phase = p

-----------------------------------------------------------------------------
(* SCCDetect on the whole graph. *)
SCCDetect ==
  /\ Idle("detect")
  /\ \E cycles \in {SCCs(Reps)} :
       \E root \in RootsOf(cycles) : sccMerges' = MergesInto(root)
  /\ phase' = "merge"
  /\ UNCHANGED vars
  /\ UNCHANGED <<nodeStack, order, tmpWorklist>>

(* mergeSrcToTgt of class Andersen: nothing is pushed. *)
WaveMergeNode ==
  /\ phase = "merge"
  /\ \E e \in sccMerges :
       /\ MergeNodeToRep(e[1], e[2], pts)
       /\ sccMerges' = sccMerges \ {e}
  /\ UNCHANGED <<prog, fi, fields>>
  /\ UNCHANGED control
  /\ UNCHANGED <<phase, nodeStack, order, tmpWorklist>>

(* The order of nodeStack is settled before the wave starts: edges that    *)
(* are re-targeted during the wave do not change it.                       *)
StartWave ==
  /\ phase = "merge"
  /\ sccMerges = {}
  /\ nodeStack' = Reps
  /\ order' = {e \in SCCEdges : e[1] # e[2]}
  /\ phase' = "wave"
  /\ UNCHANGED vars
  /\ UNCHANGED <<sccMerges, tmpWorklist>>

(* Slip: the wave does not look whether a node is on a weight cycle. *)
WavePop_NoCollapse ==
  /\ Idle("wave")
  /\ \E n \in nodeStack :
       /\ ~\E m \in nodeStack : <<m, n>> \in order
       /\ nodeStack' = nodeStack \ {n}
       /\ cur' = n
  /\ pc' = "pwc"
  /\ UNCHANGED graph
  /\ UNCHANGED <<worklist, ptsQ, toCollapse, collapsing, fieldQ, callgraph,
                 connectQ, reanalyze>>
  /\ UNCHANGED <<phase, sccMerges, order, tmpWorklist>>

(* Slip: the stack is looked at but not popped. *)
WavePop_Peeks ==
  /\ Idle("wave")
  /\ \E n \in nodeStack :
       /\ ~\E m \in nodeStack : <<m, n>> \in order
       /\ cur' = n
       /\ ptsQ' = IF MergePWC /\ rep[n] \in pwc THEN pts[rep[n]] ELSE {}
  /\ pc' = "pwc"
  /\ UNCHANGED graph
  /\ UNCHANGED <<worklist, toCollapse, collapsing, fieldQ, callgraph, connectQ,
                 reanalyze>>
  /\ UNCHANGED <<phase, sccMerges, nodeStack, order, tmpWorklist>>

WavePop ==
  /\ Idle("wave")
  /\ \E n \in nodeStack :
       /\ ~\E m \in nodeStack : <<m, n>> \in order
       /\ nodeStack' = nodeStack \ {n}
       /\ cur' = n
       /\ ptsQ' = IF MergePWC /\ rep[n] \in pwc THEN pts[rep[n]] ELSE {}
  /\ pc' = "pwc"
  /\ UNCHANGED graph
  /\ UNCHANGED <<worklist, toCollapse, collapsing, fieldQ, callgraph, connectQ,
                 reanalyze>>
  /\ UNCHANGED <<phase, sccMerges, order, tmpWorklist>>

(* Without MergePWC the changed nodes are processed until none changes,    *)
(* and all of them are handed on to the last phase.                        *)
EndWave ==
  /\ Idle("wave")
  /\ nodeStack = {}
  /\ phase' = IF MergePWC THEN "post" ELSE "extra"
  /\ UNCHANGED vars
  /\ UNCHANGED <<sccMerges, nodeStack, order, tmpWorklist>>

ExtraPop ==
  /\ Idle("extra")
  /\ Pop
  /\ tmpWorklist' = tmpWorklist \cup {cur'}
  /\ UNCHANGED <<phase, sccMerges, nodeStack, order>>

EndExtra ==
  /\ Idle("extra")
  /\ worklist = {}
  /\ worklist' = {rep[n] : n \in tmpWorklist}
  /\ tmpWorklist' = {}
  /\ phase' = "post"
  /\ UNCHANGED graph
  /\ UNCHANGED <<pc, cur, ptsQ, toCollapse, collapsing, fieldQ, callgraph,
                 connectQ, reanalyze>>
  /\ UNCHANGED <<sccMerges, nodeStack, order>>

(* processNode: copies and geps only. *)
WaveProcessNode ==
  /\ StartNode("copygep") \/ Collapse(FALSE) \/ HandleCopyGep \/ EndNode
  /\ UNCHANGED <<phase, sccMerges, nodeStack, order, tmpWorklist>>

-----------------------------------------------------------------------------
(* postProcessNode: handleLoad and handleStore. *)
PostPop ==
  /\ Idle("post")
  /\ \E d \in worklist :
       /\ worklist' = worklist \ {d}
       /\ cur' = rep[d]
  /\ pc' = "loadstore"
  /\ UNCHANGED graph
  /\ UNCHANGED <<ptsQ, toCollapse, collapsing, fieldQ, callgraph, connectQ,
                 reanalyze>>

HandleLoadStore ==
  /\ pc = "loadstore"
  /\ \E e \in MissingCopies(cur) : AddCopyEdge(e[1], e[2])
  /\ reanalyze' = TRUE
  /\ UNCHANGED <<prog, rep, loadE, storeE, ngepE, vgepE, pwc, pts, fi, fields>>
  /\ UNCHANGED <<worklist, pc, cur, ptsQ, toCollapse, collapsing, fieldQ,
                 callgraph, connectQ>>

PostProcessNode ==
  /\ PostPop \/ HandleLoadStore \/ EndLoadStore("solve")
  /\ UNCHANGED <<phase, sccMerges, nodeStack, order, tmpWorklist>>

WaveUpdateCallGraph ==
  /\ phase = "post"
  /\ UpdateCallGraph
  /\ phase' = "detect"
  /\ UNCHANGED <<sccMerges, nodeStack, order, tmpWorklist>>

WaveConnect ==
  /\ ConnectParam \/ EndConnect \/ Terminated
  /\ UNCHANGED <<phase, sccMerges, nodeStack, order, tmpWorklist>>

WaveNext ==
  \/ SCCDetect \/ WaveMergeNode \/ StartWave
  \/ WavePop \/ EndWave \/ ExtraPop \/ EndExtra \/ WaveProcessNode
  \/ PostProcessNode
  \/ WaveUpdateCallGraph \/ WaveConnect

WaveSpec == WaveInit /\ [][WaveNext]_waveVars /\ WF_waveVars(WaveNext)
=============================================================================
