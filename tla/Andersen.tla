------------------------------ MODULE Andersen ------------------------------
(***************************************************************************)
(* The worklist solver of WPASolver.h as class Andersen instantiates it    *)
(* (lib/WPA/Andersen.cpp): analyze() alternates solveWorklist() with       *)
(* updateCallGraph() until neither finds anything new.                     *)
(*                                                                         *)
(* One call of a handler that loops over edges or pointees is a sequence   *)
(* of steps here, one per iteration, so every order of iteration is        *)
(* covered.  pc says which handler is running; cur is the node popped.     *)
(* The worklist is a set: the solver may pop any member, whichever order   *)
(* FIFOWorkList would choose.                                              *)
(***************************************************************************)
EXTENDS ConstraintGraph

CONSTANT
  Insensitive(_)  \* Insensitive(P): a field-insensitive solution of P, the
                  \* reference for precision (in the runs the least one)

ASSUME InsensitiveAssumption ==
  \A P \in Programs : InsensitiveSolution(P, Insensitive(P))

VARIABLES
  worklist,    \* nodes waiting to be processed
  pc,          \* the handler running
  cur,         \* the node being processed
  ptsQ,        \* pointees collapseNodePts still has to look at (ptsClone)
  toCollapse,  \* nodesToBeCollapsed
  collapsing,  \* the object collapseField is working on
  fieldQ,      \* the fields of collapsing it still has to merge
  callgraph,   \* <<fp, fun>>: call edges resolved so far (getIndCallMap)
  connectQ,    \* copies connectCaller2CalleeParams still has to add
  reanalyze

control == <<worklist, pc, cur, ptsQ, toCollapse, collapsing, fieldQ,
             callgraph, connectQ, reanalyze>>

vars == <<graph, control>>

Handlers == {"solve", "pwc", "loadstore", "copygep", "fields", "connect", "done"}

SolverTypeOK ==
  /\ worklist \in SUBSET Node
  /\ pc \in Handlers
  /\ cur \in Node \cup {NoNode}
  /\ ptsQ \in SUBSET Object
  /\ toCollapse \in SUBSET Object
  /\ collapsing \in Object \cup {NoNode}
  /\ fieldQ \in SUBSET Object
  /\ callgraph \in SUBSET (Node \X Object)
  /\ connectQ \in SUBSET (Node \X Node)
  /\ reanalyze \in BOOLEAN

TypeOK == GraphTypeOK /\ SolverTypeOK

Init ==
  /\ \E P \in Programs : BuildCG(P)
  /\ worklist = {n \in Node : pts[n] # {}}   \* processAddr pushes the pointer
  /\ pc = "solve"
  /\ cur = NoNode
  /\ ptsQ = {}
  /\ toCollapse = {}
  /\ collapsing = NoNode
  /\ fieldQ = {}
  /\ callgraph = {}
  /\ connectQ = {}
  /\ reanalyze = FALSE

-----------------------------------------------------------------------------
(* Collapsing objects (collapsePWCNode, collapseNodePts, collapseField).   *)

(* collapseNodePts passes over pointees that are field-insensitive already *)
(* and collapseField returns at once for black holes and constants.        *)
StillToCollapse(Q) == {o \in Q : BaseOf[o] \notin fi /\ o \notin BlkOrConst}

(* collapseField(o) starts: the whole object becomes field-insensitive.    *)
StartCollapse(o) ==
  /\ fi' = fi \cup {BaseOf[o]}
  /\ collapsing' = BaseOf[o]
  /\ fieldQ' = {f \in fields : BaseOf[f] = BaseOf[o]}
  /\ UNCHANGED <<prog, rep, edges, pwc, pts, propa, fields>>
  /\ UNCHANGED <<worklist, pc, cur, callgraph, connectQ, reanalyze>>

(* collapseNodePts works through the pointees of a node, collapseFields    *)
(* through the objects a variant gep has queued.                           *)
NextToCollapse ==
  IF StillToCollapse(ptsQ) # {} THEN StillToCollapse(ptsQ)
  ELSE IF pc = "fields" THEN toCollapse ELSE {}

CollapseObject ==
  /\ pc \in {"pwc", "fields"}
  /\ collapsing = NoNode
  /\ \E o \in NextToCollapse :
       /\ StartCollapse(o)
       /\ ptsQ' = ptsQ \ {o}
       /\ toCollapse' = IF o \in StillToCollapse(ptsQ) THEN toCollapse
                        ELSE toCollapse \ {o}

(* One iteration of collapseField's loop, for field f of b = collapsing:   *)
(* whoever points to f points to b instead and is pushed, then the node of *)
(* f is merged into the node of b.  pushes says whether mergeSrcToTgt      *)
(* pushes the node it merges into, which class Andersen's does not.        *)
PointeeReplaced(f, b) ==
  [n \in Node |-> IF f \in pts[n] THEN (pts[n] \ {f}) \cup {b} ELSE pts[n]]

CollapseOneField(pushes) ==
  /\ collapsing # NoNode
  /\ \E f \in fieldQ :
       LET base == collapsing
           revPts == {n \in Node : f \in pts[n]}
           P == PointeeReplaced(f, base)
       IN
       /\ fieldQ' = fieldQ \ {f}
       /\ \/ /\ rep[f] = rep[base]
             /\ pts' = P
             /\ worklist' = worklist \cup {rep[n] : n \in revPts}
             /\ UNCHANGED <<rep, edges, pwc, propa>>
          \/ /\ rep[f] # rep[base]
             /\ MergeNodeToRep(rep[f], rep[base], P)
             /\ worklist' = worklist \cup {rep[n] : n \in revPts}
                                     \cup (IF pushes THEN {rep[base]} ELSE {})
       /\ reanalyze' = (reanalyze \/ revPts # {})
  /\ UNCHANGED <<prog, fi, fields>>
  /\ UNCHANGED <<pc, cur, ptsQ, toCollapse, collapsing, callgraph, connectQ>>

(* The loop is over; a PWC node has its pointees collapsed in turn. *)
EndCollapse ==
  /\ collapsing # NoNode
  /\ fieldQ = {}
  /\ collapsing' = NoNode
  /\ ptsQ' = IF rep[collapsing] \in pwc THEN ptsQ \cup pts[rep[collapsing]]
             ELSE ptsQ
  /\ UNCHANGED graph
  /\ UNCHANGED <<worklist, pc, cur, toCollapse, fieldQ, callgraph, connectQ,
                 reanalyze>>

CollapseIdle == collapsing = NoNode /\ StillToCollapse(ptsQ) = {}

-----------------------------------------------------------------------------
(* Slip: the node stays in the work list. *)
Pop_Peeks ==
  /\ pc = "solve"
  /\ \E d \in worklist :
       /\ cur' = rep[d]
       /\ ptsQ' = IF MergePWC /\ rep[d] \in pwc THEN pts[rep[d]] ELSE {}
  /\ pc' = "pwc"
  /\ UNCHANGED graph
  /\ UNCHANGED <<worklist, toCollapse, collapsing, fieldQ, callgraph, connectQ, reanalyze>>

(* solveWorklist takes the representative of the node it pops; when that   *)
(* is a PWC node, collapsePWCNode collapses everything it points to.       *)
Pop ==
  /\ pc = "solve"
  /\ \E d \in worklist :
       /\ worklist' = worklist \ {d}
       /\ cur' = rep[d]
       /\ ptsQ' = IF MergePWC /\ rep[d] \in pwc THEN pts[rep[d]] ELSE {}
  /\ pc' = "pwc"
  /\ UNCHANGED graph
  /\ UNCHANGED <<toCollapse, collapsing, fieldQ, callgraph, connectQ, reanalyze>>

(* processNode is skipped if the node was merged away meanwhile; handler   *)
(* is what it does first.                                                  *)
StartNode(handler) ==
  /\ pc = "pwc"
  /\ CollapseIdle
  /\ pc' = IF rep[cur] = cur THEN handler ELSE "fields"
  /\ ptsQ' = {}
  /\ UNCHANGED graph
  /\ UNCHANGED <<worklist, cur, toCollapse, collapsing, fieldQ, callgraph,
                 connectQ, reanalyze>>

-----------------------------------------------------------------------------
(* handleLoadStore: each pointee o of cur that holds pointers becomes the  *)
(* source of a copy to every y with y = *cur, and the target of a copy     *)
(* from every v with *cur = v.  The source of a new copy is pushed.        *)
(* Slip: the copy of a load runs from the pointer to the object. *)
LoadCopies_Reversed(n, o) == {<<e[2], rep[o]>> : e \in {x \in loadE : x[1] = n}}

LoadCopies(n, o) == {<<rep[o], e[2]>> : e \in {x \in loadE : x[1] = n}}
StoreCopies(n, o) == {<<e[1], rep[o]>> : e \in {x \in storeE : x[2] = n}}

DerivedCopies(n) ==
  UNION {LoadCopies(n, o) \cup StoreCopies(n, o) : o \in pts[n] \ NonPointer}

MissingCopies(n) == {e \in DerivedCopies(n) : NewCopy(e[1], e[2])}

ProcessLoadStore ==
  /\ pc = "loadstore"
  /\ \E e \in MissingCopies(cur) :
       /\ AddCopyEdge(e[1], e[2])
       /\ worklist' = worklist \cup {e[1]}
  /\ UNCHANGED <<prog, rep, loadE, storeE, ngepE, vgepE, pwc, pts, fi, fields>>
  /\ UNCHANGED <<pc, cur, ptsQ, toCollapse, collapsing, fieldQ, callgraph,
                 connectQ, reanalyze>>

EndLoadStore(next) ==
  /\ pc = "loadstore"
  /\ MissingCopies(cur) = {}
  /\ pc' = next
  /\ UNCHANGED graph
  /\ UNCHANGED <<worklist, cur, ptsQ, toCollapse, collapsing, fieldQ, callgraph,
                 connectQ, reanalyze>>

-----------------------------------------------------------------------------
(* handleCopyGep: computeDiffPts yields what cur has not yet propagated,   *)
(* and every copy and gep out-edge passes it on.  A variant gep makes the  *)
(* objects it indexes field-insensitive on the spot and queues them for    *)
(* collapsing; the normal geps handled before it (Early) still see them    *)
(* field-sensitive.  Nodes whose points-to set grows are pushed.           *)
DiffPts(n) == pts[n] \ propa[n]

VariantGepBases(n) ==
  IF \E e \in vgepE : e[1] = n
  THEN {BaseOf[o] : o \in DiffPts(n) \ BlkOrConst} \ fi
  ELSE {}

Received(n, d, Early) ==
  UNION ({DiffPts(n) : e \in {x \in copyE : x = <<n, d>>}}
   \cup {VariantObjNodes(DiffPts(n)) : e \in {x \in vgepE : x = <<n, d>>}}
   \cup {GepObjNodes(IF e \in Early THEN fi ELSE fi \cup VariantGepBases(n),
                     DiffPts(n), e[3]) :
           e \in {x \in ngepE : x[1] = n /\ x[2] = d}})

Propagate(Early) ==
  /\ pts' = [d \in Node |-> pts[d] \cup Received(cur, d, Early)]
  /\ propa' = [propa EXCEPT ![cur] = pts[cur]]
  /\ fi' = fi \cup VariantGepBases(cur)
  /\ toCollapse' = toCollapse \cup VariantGepBases(cur)
  /\ worklist' = worklist \cup {d \in Node : ~(Received(cur, d, Early) \subseteq pts[d])}
  /\ fields' = fields \cup
       {f \in UNION {Received(cur, d, Early) : d \in Node} : BaseOf[f] # f}

HandleCopyGep ==
  /\ pc = "copygep"
  /\ \E Early \in SUBSET {e \in ngepE : e[1] = cur} : Propagate(Early)
  /\ pc' = "fields"
  /\ UNCHANGED <<prog, rep, edges, pwc>>
  /\ UNCHANGED <<cur, ptsQ, collapsing, fieldQ, callgraph, connectQ, reanalyze>>

(* collapseFields has emptied its queue. *)
EndNode ==
  /\ pc = "fields"
  /\ CollapseIdle
  /\ toCollapse = {}
  /\ pc' = "solve"
  /\ cur' = NoNode
  /\ ptsQ' = {}
  /\ UNCHANGED graph
  /\ UNCHANGED <<worklist, toCollapse, collapsing, fieldQ, callgraph, connectQ,
                 reanalyze>>

-----------------------------------------------------------------------------
(* updateCallGraph: calls whose function pointer has gained a target, and  *)
(* the copies between their actuals and formals.                           *)
NewTargets == {c \in prog.icall : /\ c[2] \in pts[rep[c[1]]]
                                  /\ <<c[1], c[2]>> \notin callgraph}

(* Slip: reanalyze is not looked at. *)
NextRound_NoReanalysis ==
  /\ pc' = IF NewTargets # {} THEN "connect" ELSE "done"
  /\ reanalyze' = FALSE

(* The loop of analyze() runs on if something asked for it. *)
NextRound ==
  /\ pc' = IF NewTargets # {} THEN "connect"
           ELSE IF reanalyze THEN "solve" ELSE "done"
  /\ reanalyze' = FALSE

UpdateCallGraph ==
  /\ pc = "solve"
  /\ worklist = {}
  /\ callgraph' = callgraph \cup {<<c[1], c[2]>> : c \in NewTargets}
  /\ connectQ' = {<<rep[c[3]], rep[c[4]]>> : c \in NewTargets}
  /\ NextRound
  /\ UNCHANGED graph
  /\ UNCHANGED <<worklist, cur, ptsQ, toCollapse, collapsing, fieldQ>>

(* connectCaller2CalleeParams, one parameter or result; updateCallGraph    *)
(* pushes the source of each edge that was new.                            *)
(* Slip: the source of a new edge is not pushed. *)
ConnectParam_NotPushed ==
  /\ pc = "connect"
  /\ \E e \in connectQ :
       /\ connectQ' = connectQ \ {e}
       /\ \/ NewCopy(e[1], e[2]) /\ AddCopyEdge(e[1], e[2])
          \/ ~NewCopy(e[1], e[2]) /\ UNCHANGED <<copyE, propa>>
  /\ UNCHANGED <<prog, rep, loadE, storeE, ngepE, vgepE, pwc, pts, fi, fields>>
  /\ UNCHANGED <<worklist, pc, cur, ptsQ, toCollapse, collapsing, fieldQ,
                 callgraph, reanalyze>>

ConnectParam ==
  /\ pc = "connect"
  /\ \E e \in connectQ :
       /\ connectQ' = connectQ \ {e}
       /\ \/ /\ NewCopy(e[1], e[2])
             /\ AddCopyEdge(e[1], e[2])
             /\ worklist' = worklist \cup {e[1]}
          \/ /\ ~NewCopy(e[1], e[2])
             /\ UNCHANGED <<copyE, propa, worklist>>
  /\ UNCHANGED <<prog, rep, loadE, storeE, ngepE, vgepE, pwc, pts, fi, fields>>
  /\ UNCHANGED <<pc, cur, ptsQ, toCollapse, collapsing, fieldQ, callgraph,
                 reanalyze>>

EndConnect ==
  /\ pc = "connect"
  /\ connectQ = {}
  /\ pc' = "solve"
  /\ UNCHANGED graph
  /\ UNCHANGED <<worklist, cur, ptsQ, toCollapse, collapsing, fieldQ, callgraph,
                 connectQ, reanalyze>>

-----------------------------------------------------------------------------
Collapse(pushes) ==
  CollapseObject \/ CollapseOneField(pushes) \/ EndCollapse

ProcessNode ==
  \/ StartNode("loadstore") \/ ProcessLoadStore \/ EndLoadStore("copygep")
  \/ HandleCopyGep \/ EndNode

OnTheFlyCallGraph == UpdateCallGraph \/ ConnectParam \/ EndConnect

Terminated == pc = "done" /\ UNCHANGED vars

Next == Pop \/ Collapse(FALSE) \/ ProcessNode \/ OnTheFlyCallGraph
          \/ Terminated

-----------------------------------------------------------------------------
(* When analyze() returns, the points-to sets satisfy every constraint of  *)
(* the program: address, copy, load, store and variant gep edges, the      *)
(* copies of the calls that were resolved, and the identification of a     *)
(* collapsed object with its fields.                                       *)
SolvedWhenDone ==
  pc = "done" =>
    /\ AddrHolds(prog, fi, Solution)
    /\ CopyHolds(prog, fi, Solution)
    /\ LoadHolds(prog, fi, Solution)
    /\ StoreHolds(prog, fi, Solution)
    /\ VariantGepHolds(prog, fi, Solution)
    /\ CallHolds(prog, fi, Solution)
    /\ FieldsAgree(fi, fields, Solution)

(* ... and the normal geps. *)
NormalGepsSolvedWhenDone == pc = "done" => NormalGepHolds(prog, fi, Solution)

(* processCopy: src --copy--> dst, union pts(dst) with pts(src); when the  *)
(* solver is done every copy edge it has, derived ones included, is        *)
(* satisfied.                                                              *)
CopyEdgesSolvedWhenDone ==
  pc = "done" => \A e \in copyE : Covers(fi, pts[e[2]], pts[e[1]])

(* mergeNodeToRep: a node that closes a positive weight cycle has its      *)
(* points-to set collapsed before the solver is done.                      *)
CyclesCollapsedWhenDone ==
  pc = "done" => \A n \in pwc : \A o \in pts[n] \ BlkOrConst : BaseOf[o] \in fi

(* The solver adds nothing of its own: rewriting the graph, merging nodes  *)
(* and collapsing objects never let a node point to an object that the     *)
(* field-insensitive solution of the program does not allow it.            *)
WithinInsensitive ==
  LET L == Insensitive(prog)
  IN  \A n \in Node : Bases(Solution[n]) \subseteq L[n]

PreciseWhenDone == pc = "done" => WithinInsensitive

(* No step loses a pointee of any node, merged ones included: a pointee    *)
(* may only turn into the whole object it is part of.                      *)
SolutionGrows == [][\A n \in Node : Covers(fi', Solution'[n], Solution[n])]_vars

(* analyze() returns. *)
Termination == <>(pc = "done")

-----------------------------------------------------------------------------
(* analyze() is a loop that keeps running until it is done. *)
Spec == Init /\ [][Next]_vars /\ WF_vars(Next)
=============================================================================
