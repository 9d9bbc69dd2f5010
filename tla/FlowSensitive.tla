---------------------------- MODULE FlowSensitive -----------------------------
(***************************************************************************)
(* Sparse flow-sensitive points-to analysis (lib/WPA/FlowSensitive.cpp).   *)
(* Top-level variables have one points-to set, objects one per location:   *)
(* IN, and at stores OUT.  With -inc-data (the default) only what is       *)
(* flagged as new is moved along, and the flags are cleared by the one     *)
(* handler that is thought to be their last reader (MutablePointsToDS.h,   *)
(* IncMutableDFPTData).                                                    *)
(***************************************************************************)
EXTENDS ValueFlow

VARIABLES
  svfg,       \* the program
  callgraph,  \* the targets connected (indCallMap)
  pts,        \* points-to sets of top-level variables
  dfIn,       \* dfInPtsMap
  dfOut,      \* dfOutPtsMap
  inNew,      \* inUpdatedVarMap
  outNew,     \* outUpdatedVarMap
  worklist,
  cur,        \* the node whose result is being propagated
  pc,         \* "solve", "propagate", "connect" or "done"
  newEdges    \* indirect edges that updateConnectedNodes has yet to serve

vars == <<svfg, callgraph, pts, dfIn, dfOut, inNew, outNew, worklist, cur, pc,
          newEdges>>

Direct == DirectEdges(svfg, callgraph)
Indirect == IndirectEdges(svfg, callgraph)

Op(n) == svfg.stmt[n].op
Lhs(n) == svfg.stmt[n].lhs
Used(n) == UNION {pts[x] : x \in Operands(svfg, callgraph, n)}

TypeOK ==
  /\ svfg \in Programs
  /\ callgraph \subseteq svfg.calls
  /\ pts \in [Var -> SUBSET Obj]
  /\ dfIn \in [Loc -> [Obj -> SUBSET Obj]]
  /\ dfOut \in [Loc -> [Obj -> SUBSET Obj]]
  /\ inNew \in [Loc -> SUBSET Obj]
  /\ outNew \in [Loc -> SUBSET Obj]
  /\ worklist \subseteq svfg.nodes
  /\ cur \in svfg.nodes \cup {NoLoc}
  /\ pc \in {"solve", "propagate", "connect", "done"}
  /\ newEdges \subseteq Loc \X Loc \X Obj

Init ==
  /\ svfg \in Programs
  /\ callgraph = {}
  /\ pts = [x \in Var |-> {}]
  /\ dfIn = [n \in Loc |-> [o \in Obj |-> {}]]
  /\ dfOut = [n \in Loc |-> [o \in Obj |-> {}]]
  /\ inNew = [n \in Loc |-> {}]
  /\ outNew = [n \in Loc |-> {}]
  /\ worklist = svfg.nodes
  /\ cur = NoLoc
  /\ pc = "solve"
  /\ newEdges = {}

-----------------------------------------------------------------------------
(* varHasNewDFInPts and varHasNewDFOutPts; without -inc-data there are no  *)
(* flags and everything counts as new.                                     *)
New(flags, n, o) == svfg.inc => o \in flags[n]

Flagged(S) == IF svfg.inc THEN S ELSE {}

(* Slip: the node stays in the worklist.                                   *)
Take_Peeks(n) == /\ pc = "solve"
                 /\ n \in worklist
                 /\ worklist' = worklist

Take(n) == /\ pc = "solve"
           /\ n \in worklist
           /\ worklist' = worklist \ {n}

(* processNode propagates what has changed and always ends with            *)
(* clearAllDFOutVarFlag.                                                   *)
Finish(n, changed) ==
  /\ pc' = IF changed THEN "propagate" ELSE "solve"
  /\ cur' = IF changed THEN n ELSE NoLoc

(* What processAddr, processCopy, processPhi and processGep add to lhs.    *)
TopLevelValue(n) ==
  CASE Op(n) = "addr" -> {svfg.stmt[n].obj}
    [] Op(n) = "phi"  -> Used(n)
    [] Op(n) = "gep"  -> {FieldAt[<<o, svfg.stmt[n].off>>] : o \in Used(n)}

ProcessTopLevel(n) ==
  /\ Op(n) \in {"addr", "phi", "gep"}
  /\ Take(n)
  /\ pts' = [pts EXCEPT ![Lhs(n)] = @ \cup TopLevelValue(n)]
  /\ Finish(n, pts' # pts)
  /\ UNCHANGED <<svfg, callgraph, dfIn, dfOut, inNew, outNew, newEdges>>

(* Slip: what is new is forgotten whether or not it was loaded.            *)
ProcessLoad_ForgetsAll(n) ==
  LET loaded == {o \in Used(n) \ NonPointer : New(inNew, n, o)} IN
  /\ Op(n) = "load"
  /\ Take(n)
  /\ pts' = [pts EXCEPT ![Lhs(n)] = @ \cup UNION {dfIn[n][o] : o \in loaded}]
  /\ inNew' = [inNew EXCEPT ![n] = {}]
  /\ Finish(n, pts' # pts)
  /\ UNCHANGED <<svfg, callgraph, dfIn, dfOut, outNew, newEdges>>

(* A load reads what is new in IN and takes the flags of what it read.     *)
ProcessLoad(n) ==
  LET loaded == {o \in Used(n) \ NonPointer : New(inNew, n, o)} IN
  /\ Op(n) = "load"
  /\ Take(n)
  /\ pts' = [pts EXCEPT ![Lhs(n)] = @ \cup UNION {dfIn[n][o] : o \in loaded}]
  /\ inNew' = [inNew EXCEPT ![n] = @ \ loaded]
  /\ Finish(n, pts' # pts)
  /\ UNCHANGED <<svfg, callgraph, dfIn, dfOut, outNew, newEdges>>

(* What a store takes from IN to OUT: all that is new, except that a       *)
(* strong update leaves the object it overwrites, and its flag, alone.     *)
Overwritten(n) ==
  IF Strong(svfg, callgraph, pts[Lhs(n)]) THEN pts[Lhs(n)] ELSE {}

Passed(n) == {o \in Obj \ Overwritten(n) : New(inNew, n, o)}

Written(n) == IF Used(n) = {} THEN {} ELSE pts[Lhs(n)] \ NonPointer

Sent(n, o) == (IF o \in Written(n) THEN Used(n) ELSE {})
                \cup (IF o \in Passed(n) THEN dfIn[n][o] ELSE {})

(* A store waits until its pointer points to something: were OUT to take   *)
(* over IN before, a strong update could no longer take that back.         *)
ProcessStore(n) ==
  LET grown == {o \in Obj : ~(Sent(n, o) \subseteq dfOut[n][o])} IN
  /\ Op(n) = "store"
  /\ pts[Lhs(n)] # {}
  /\ Take(n)
  /\ dfOut' = [dfOut EXCEPT ![n] = [o \in Obj |-> @[o] \cup Sent(n, o)]]
  /\ inNew' = [inNew EXCEPT ![n] = @ \ Passed(n)]
  /\ outNew' = [outNew EXCEPT ![n] = IF grown = {} THEN {} ELSE @ \cup Flagged(grown)]
  /\ Finish(n, grown # {})
  /\ UNCHANGED <<svfg, callgraph, pts, dfIn, newEdges>>

SkipStore(n) ==
  /\ Op(n) = "store"
  /\ pts[Lhs(n)] = {}
  /\ Take(n)
  /\ Finish(n, FALSE)
  /\ UNCHANGED <<svfg, callgraph, pts, dfIn, dfOut, inNew, outNew, newEdges>>

(* Memory SSA nodes, actuals and formals only pass things on.              *)
ProcessPassOn(n) ==
  /\ Op(n) \in {"mem", "actual", "formal"}
  /\ Take(n)
  /\ Finish(n, TRUE)
  /\ UNCHANGED <<svfg, callgraph, pts, dfIn, dfOut, inNew, outNew, newEdges>>

-----------------------------------------------------------------------------
(* What n has to say about o, and whether that is new.                     *)
Value(n, o) == IF Op(n) = "store" THEN dfOut[n][o] ELSE dfIn[n][o]

IsNew(n, o) == IF Op(n) = "store" THEN New(outNew, n, o) ELSE New(inNew, n, o)

(* IN after all that the edges E from s carry has arrived.                 *)
Delivered(s, E) ==
  [d \in Loc |->
     IF \E e \in E : e[2] = d
     THEN [o \in Obj |-> IF <<s, d, o>> \in E THEN dfIn[d][o] \cup Value(s, o)
                                              ELSE dfIn[d][o]]
     ELSE dfIn[d]]

(* setVarDFInSetUpdated, wherever IN has grown.                            *)
FlagGrown ==
  inNew' = [d \in Loc |->
     IF dfIn'[d] = dfIn[d] THEN inNew[d]
     ELSE inNew[d] \cup Flagged({o \in Obj : dfIn'[d][o] # dfIn[d][o]})]

Grown == {d \in svfg.nodes : dfIn'[d] # dfIn[d]}

(* propagateFromAPToFP and propagateFromFRToAR.                            *)
Passes(n) == IF Op(n) = "actual" THEN {d \in svfg.nodes : <<n, d>> \in Direct} ELSE {}

(* propagate() and clearAllDFOutVarFlag: the users of a variable are       *)
(* pushed whatever they know; along indirect edges goes what is new, and   *)
(* those whose IN has grown are pushed.                                    *)
Propagate ==
  LET E == {e \in Indirect : e[1] = cur /\ IsNew(cur, e[3])} IN
  /\ pc = "propagate"
  /\ pts' = [x \in Var |-> IF \E d \in Passes(cur) : Lhs(d) = x
                           THEN pts[x] \cup pts[Lhs(cur)] ELSE pts[x]]
  /\ dfIn' = Delivered(cur, E)
  /\ FlagGrown
  /\ worklist' = worklist \cup Grown \cup
       {d \in svfg.nodes : /\ <<cur, d>> \in Direct
                           /\ d \in Passes(cur) => pts'[Lhs(d)] # pts[Lhs(d)]}
  /\ outNew' = [outNew EXCEPT ![cur] = {}]
  /\ cur' = NoLoc
  /\ pc' = "solve"
  /\ UNCHANGED <<svfg, callgraph, dfOut, newEdges>>

-----------------------------------------------------------------------------
(* onTheFlyCallGraphSolve and resolveIndCalls.                             *)
NewTargets == {c \in svfg.calls : c.fun \in pts[c.fp]} \ callgraph

(* updateCallGraph(): all edges of the new targets are in the graph before *)
(* the first of them is served; phis that gain an operand are pushed.      *)
UpdateCallGraph ==
  /\ pc = "solve"
  /\ worklist = {}
  /\ NewTargets # {}
  /\ callgraph' = callgraph \cup NewTargets
  /\ newEdges' = UNION {c.indirect : c \in NewTargets}
  /\ worklist' = {d \in svfg.nodes : /\ Op(d) = "phi"
                                     /\ \E c \in NewTargets : \E e \in c.direct : e[2] = d}
  /\ pc' = "connect"
  /\ UNCHANGED <<svfg, pts, dfIn, dfOut, inNew, outNew, cur>>

(* Slip: as for any other edge, only what is flagged is propagated.        *)
ConnectEdge_NewOnly ==
  \E e \in newEdges :
    /\ newEdges' = newEdges \ {e}
    /\ dfIn' = Delivered(e[1], {x \in {e} : Op(x[2]) = "mem" /\ IsNew(x[1], x[3])})
    /\ FlagGrown
    /\ worklist' = worklist \cup Grown
    /\ UNCHANGED <<svfg, callgraph, pts, dfOut, outNew, cur, pc>>

(* updateConnectedNodes: a new edge to a FormalIN or an ActualOUT carries  *)
(* all that its source has, new or not (propVarPtsAfterCGUpdated).         *)
ConnectEdge ==
  \E e \in newEdges :
    /\ newEdges' = newEdges \ {e}
    /\ dfIn' = Delivered(e[1], {x \in {e} : Op(x[2]) = "mem"})
    /\ FlagGrown
    /\ worklist' = worklist \cup Grown
    /\ UNCHANGED <<svfg, callgraph, pts, dfOut, outNew, cur, pc>>

(* Another round: initWorklist() pushes every node of the graph.           *)
NextRound ==
  /\ pc = "connect"
  /\ newEdges = {}
  /\ worklist' = svfg.nodes
  /\ pc' = "solve"
  /\ UNCHANGED <<svfg, callgraph, pts, dfIn, dfOut, inNew, outNew, cur, newEdges>>

Finished ==
  /\ pc = "solve"
  /\ worklist = {}
  /\ NewTargets = {}
  /\ pc' = "done"
  /\ UNCHANGED <<svfg, callgraph, pts, dfIn, dfOut, inNew, outNew, worklist, cur, newEdges>>

Terminated == pc = "done" /\ UNCHANGED vars

Next ==
  \/ \E n \in worklist :
       ProcessTopLevel(n) \/ ProcessLoad(n) \/ ProcessStore(n) \/ SkipStore(n)
         \/ ProcessPassOn(n)
  \/ Propagate
  \/ UpdateCallGraph
  \/ ConnectEdge
  \/ NextRound
  \/ Finished
  \/ Terminated

Spec == Init /\ [][Next]_vars /\ WF_vars(Next)

-----------------------------------------------------------------------------
(* The flags say the truth: what is not marked as new has been passed on.  *)
(* What a store has in IN and no longer flags is in its OUT, what a load   *)
(* no longer flags is in its variable, and what OUT or a memory SSA node   *)
(* holds has arrived at the end of every indirect edge, unless the node is *)
(* about to propagate it or the edge is about to be served.  The flags are *)
(* removed in one handler and trusted in others (MutablePointsToDS.h).     *)
Passing(n, o) ==
  IF Op(n) = "store" THEN n = cur /\ New(outNew, n, o) ELSE n \in worklist \cup {cur}

UnflaggedDelivered ==
  /\ \A e \in Indirect :
       \/ e \in newEdges
       \/ Passing(e[1], e[3])
       \/ Value(e[1], e[3]) \subseteq dfIn[e[2]][e[3]]
  /\ svfg.inc => \A n \in svfg.nodes : \A o \in Obj \ inNew[n] :
       /\ Op(n) = "store" => dfIn[n][o] \subseteq dfOut[n][o]
       /\ Op(n) = "load" => dfIn[n][o] \subseteq pts[Lhs(n)]
       /\ Op(n) = "mem" => dfIn[n][o] = {}

(* The result is the least solution of the flow equations of the graph     *)
(* with all its calls connected: it is a solution, and it is within the    *)
(* reference.  Whatever the order and the flags were, early strong         *)
(* updates, sets already passed on and edges added late leave no trace.    *)
Result == [pts |-> pts, in |-> dfIn, out |-> dfOut, calls |-> callgraph]

LeastWhenDone ==
  pc = "done" =>
    \E flow \in {Reference(svfg)} :
      FlowSolution(svfg, Result) /\ FlowWithin(svfg, Result, flow)

(* Call edges found late send the solver through all nodes again, and      *)
(* every node pushes the users of its variable: it must come to an end.    *)
Termination == <>(pc = "done")
=============================================================================
