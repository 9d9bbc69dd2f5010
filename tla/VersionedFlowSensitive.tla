------------------------ MODULE VersionedFlowSensitive -------------------------
(***************************************************************************)
(* Flow-sensitive analysis with versions of objects                        *)
(* (lib/WPA/VersionedFlowSensitive.cpp).  Instead of a points-to set per   *)
(* object and location there is one per object and version; locations that *)
(* the same definitions reach share a version, found by labelling the      *)
(* graph before it is solved.  A version relies on another one when an     *)
(* edge leads from a location with the latter to one with the former.      *)
(***************************************************************************)
EXTENDS ValueFlow

(* The pre-analysis is sound, and memory SSA lets a store define only what *)
(* it says the pointer points to.                                          *)
ASSUME PreAnalysisAssumption ==
  \A P \in Programs :
    /\ LET X == Reference(P) IN \A x \in Var : X.pts[x] \subseteq P.ander[x]
    /\ \A e \in IndirectEdges(P, P.calls) :
         P.stmt[e[1]].op = "store" => e[3] \in P.ander[P.stmt[e[1]].lhs]

VARIABLES
  svfg,             \* the program
  callgraph,        \* the targets connected (indCallMap)
  pts,              \* points-to sets of top-level variables
  consume,          \* the version of each object that a location sees
  vWorklist,        \* locations whose labels have yet to be passed on
  versionReliance,  \* <<o, v, r>>: version r of o relies on version v
  vPtD,             \* <<o, v, x>>: version v of object o points to x
  pending,          \* <<o, v>>: versions that propagateVersion has to serve
  worklist,
  newEdges,         \* indirect edges that updateConnectedNodes has yet to serve
  pc                \* "label", "solve", "connect" or "done"

vars == <<svfg, callgraph, pts, consume, vWorklist, versionReliance, vPtD, pending,
          worklist, newEdges, pc>>

Direct == DirectEdges(svfg, callgraph)

Op(n) == svfg.stmt[n].op
Lhs(n) == svfg.stmt[n].lhs
Used(n) == UNION {pts[x] : x \in Operands(svfg, callgraph, n)}

-----------------------------------------------------------------------------
(* A version is the set of the definitions that reach a location: stores,  *)
(* and delta nodes, where edges may be added later.  The code numbers the  *)
(* definitions of every object and then their sets; the empty set is "no   *)
(* version".                                                               *)
Version == SUBSET Loc

(* What call edges of the pre-analysis end at: entries of functions called *)
(* through pointers, and returns from such calls.                          *)
DeltaNodes(P) == {e[2] : e \in UNION {c.indirect : c \in P.calls}}

(* prelabel(): a delta node has a version of its own of every object that  *)
(* an edge of the graph carries from it.                                   *)
Prelabel(P) ==
  [l \in Loc |-> [o \in Obj |->
     IF l \in DeltaNodes(P) /\ \E e \in P.indirect : e[1] = l /\ e[3] = o
     THEN {l} ELSE {}]]

(* A store yields a version of its own of what the pre-analysis says its   *)
(* pointer points to; at other nodes yield and consume are the same.       *)
Yield(l, o) ==
  IF Op(l) = "store"
  THEN IF o \in svfg.ander[Lhs(l)] THEN {l} ELSE {}
  ELSE consume[l][o]

TypeOK ==
  /\ svfg \in Programs
  /\ callgraph \subseteq svfg.calls
  /\ pts \in [Var -> SUBSET Obj]
  /\ consume \in [Loc -> [Obj -> Version]]
  /\ vWorklist \subseteq svfg.nodes
  /\ versionReliance \subseteq Obj \X Version \X Version
  /\ vPtD \subseteq Obj \X Version \X Obj
  /\ pending \subseteq Obj \X Version
  /\ worklist \subseteq svfg.nodes
  /\ newEdges \subseteq Loc \X Loc \X Obj
  /\ pc \in {"label", "solve", "connect", "done"}

Init ==
  /\ svfg \in Programs
  /\ callgraph = {}
  /\ pts = [x \in Var |-> {}]
  /\ consume = Prelabel(svfg)
  /\ vWorklist = {l \in svfg.nodes : \/ Op(l) = "store"
                                     \/ \E o \in Obj : consume[l][o] # {}}
  /\ versionReliance = {}
  /\ vPtD = {}
  /\ pending = {}
  /\ worklist = {}
  /\ newEdges = {}
  /\ pc = "label"

-----------------------------------------------------------------------------
(* Slip: the location stays in the worklist.                               *)
MeldLabel_Peeks(l) ==
  LET Reached(d) == {o \in Obj : <<l, d, o>> \in svfg.indirect}
      open == {d \in svfg.nodes \ DeltaNodes(svfg) : d = l => Op(l) = "store"}
  IN
  /\ pc = "label"
  /\ l \in vWorklist
  /\ consume' = [d \in Loc |->
       IF d \in open /\ Reached(d) # {}
       THEN [o \in Obj |-> IF o \in Reached(d) THEN consume[d][o] \cup Yield(l, o)
                                               ELSE consume[d][o]]
       ELSE consume[d]]
  /\ vWorklist' = vWorklist
       \cup {d \in open : Op(d) # "store" /\ consume'[d] # consume[d]}
  /\ UNCHANGED <<svfg, callgraph, pts, versionReliance, vPtD, pending, worklist, newEdges, pc>>

(* meldLabel(): what l yields is melded into what its successors consume.  *)
(* The labels of delta nodes are permanent, and so is what a store yields. *)
MeldLabel(l) ==
  LET Reached(d) == {o \in Obj : <<l, d, o>> \in svfg.indirect}
      open == {d \in svfg.nodes \ DeltaNodes(svfg) : d = l => Op(l) = "store"}
  IN
  /\ pc = "label"
  /\ l \in vWorklist
  /\ consume' = [d \in Loc |->
       IF d \in open /\ Reached(d) # {}
       THEN [o \in Obj |-> IF o \in Reached(d) THEN consume[d][o] \cup Yield(l, o)
                                               ELSE consume[d][o]]
       ELSE consume[d]]
  /\ vWorklist' = (vWorklist \ {l})
       \cup {d \in open : Op(d) # "store" /\ consume'[d] # consume[d]}
  /\ UNCHANGED <<svfg, callgraph, pts, versionReliance, vPtD, pending, worklist, newEdges, pc>>

(* The reliance along edge e, if both of its ends have versions.           *)
Reliance(e) ==
  LET y == Yield(e[1], e[3])
      c == consume[e[2]][e[3]]
  IN  IF y # {} /\ c # {} THEN {<<e[3], y, c>>} ELSE {}

(* mapMeldVersions() and determineReliance(), then the first round.        *)
StartSolving ==
  /\ pc = "label"
  /\ vWorklist = {}
  /\ versionReliance' = {x \in UNION {Reliance(e) : e \in svfg.indirect} : x[2] # x[3]}
  /\ worklist' = svfg.nodes
  /\ pc' = "solve"
  /\ UNCHANGED <<svfg, callgraph, pts, consume, vWorklist, vPtD, pending, newEdges>>

-----------------------------------------------------------------------------
(* The points-to set of version v of o (atKey).                            *)
At(o, v) == {x \in Obj : <<o, v, x>> \in vPtD}

Entries(o, v, S) == {<<o, v, x>> : x \in S}

(* Slip: stores are not told that a version they see has grown.            *)
StmtReliance_LoadsOnly(o, v) ==
  {l \in svfg.nodes : Op(l) = "load" /\ consume[l][o] = v}

(* The loads and stores that see version v of o (stmtReliance).            *)
StmtReliance(o, v) ==
  {l \in svfg.nodes : Op(l) \in {"load", "store"} /\ consume[l][o] = v}

Users(n) == {d \in svfg.nodes : <<n, d>> \in Direct}

Take(n) == /\ pc = "solve"
           /\ pending = {}
           /\ n \in worklist

(* What the definition at n adds to its variable.  A load reads the        *)
(* versions that it sees.                                                  *)
TopLevelValue(n) ==
  CASE Op(n) = "addr" -> {svfg.stmt[n].obj}
    [] Op(n) = "phi"  -> Used(n)
    [] Op(n) = "gep"  -> {FieldAt[<<o, svfg.stmt[n].off>>] : o \in Used(n)}
    [] Op(n) = "load" -> UNION {At(o, consume[n][o]) :
                                  o \in {o \in Used(n) \ NonPointer : consume[n][o] # {}}}

(* processNode(): the users of a variable that has grown are pushed.       *)
ProcessTopLevel(n) ==
  /\ Op(n) \in {"addr", "phi", "gep", "load"}
  /\ Take(n)
  /\ pts' = [pts EXCEPT ![Lhs(n)] = @ \cup TopLevelValue(n)]
  /\ worklist' = (worklist \ {n}) \cup (IF pts' = pts THEN {} ELSE Users(n))
  /\ UNCHANGED <<svfg, callgraph, consume, vWorklist, versionReliance, vPtD, pending,
                 newEdges, pc>>

(* propagateFromAPToFP and propagateFromFRToAR; along indirect edges       *)
(* nothing is propagated from here.                                        *)
Passes(n) == IF Op(n) = "actual" THEN Users(n) ELSE {}

ProcessPassOn(n) ==
  /\ Op(n) \in {"mem", "actual", "formal"}
  /\ Take(n)
  /\ pts' = [x \in Var |-> IF \E d \in Passes(n) : Lhs(d) = x
                           THEN pts[x] \cup pts[Lhs(n)] ELSE pts[x]]
  /\ worklist' = (worklist \ {n})
       \cup {d \in Users(n) : d \in Passes(n) => pts'[Lhs(d)] # pts[Lhs(d)]}
  /\ UNCHANGED <<svfg, callgraph, consume, vWorklist, versionReliance, vPtD, pending,
                 newEdges, pc>>

(* What a store adds to the version of o that it yields: what it stores,   *)
(* and the version that it sees unless it overwrites that.                 *)
Written(n) == IF Used(n) = {} THEN {} ELSE pts[Lhs(n)] \ NonPointer

(* Slip: what a store overwrites is passed on, too.                        *)
Overwritten_Never(n) == {}

Overwritten(n) ==
  IF Strong(svfg, callgraph, pts[Lhs(n)]) THEN pts[Lhs(n)] ELSE {}

Sent(n, o) ==
  (IF o \in Written(n) THEN Used(n) ELSE {})
    \cup (IF o \in Overwritten(n) \/ consume[n][o] = {} THEN {} ELSE At(o, consume[n][o]))

(* processStore(): versions that have grown will be propagated.  A store   *)
(* whose pointer is null adds nothing.                                     *)
ProcessStore(n) ==
  LET changed == {o \in Obj : /\ pts[Lhs(n)] # {} /\ Yield(n, o) # {}
                              /\ ~(Sent(n, o) \subseteq At(o, Yield(n, o)))}
  IN
  /\ Op(n) = "store"
  /\ Take(n)
  /\ vPtD' = vPtD \cup UNION {Entries(o, Yield(n, o), Sent(n, o)) : o \in changed}
  /\ pending' = {<<o, Yield(n, o)>> : o \in changed}
  /\ worklist' = worklist \ {n}
  /\ UNCHANGED <<svfg, callgraph, pts, consume, vWorklist, versionReliance, newEdges, pc>>

(* Slip: versions that have grown are not propagated in turn.              *)
PropagateVersion_NotRecursive ==
  \E k \in pending :
    LET relying == {x[3] : x \in {x \in versionReliance : x[1] = k[1] /\ x[2] = k[2]}}
        S == At(k[1], k[2])
    IN
    /\ vPtD' = vPtD \cup UNION {Entries(k[1], r, S) : r \in relying}
    /\ pending' = pending \ {k}
    /\ worklist' = worklist \cup StmtReliance(k[1], k[2])
    /\ UNCHANGED <<svfg, callgraph, pts, consume, vWorklist, versionReliance, newEdges, pc>>

(* propagateVersion(), one call of the recursion: the versions that rely   *)
(* on this one are united with it, those that have grown are next, and the *)
(* statements that see it are pushed.                                      *)
PropagateVersion ==
  \E k \in pending :
    LET relying == {x[3] : x \in {x \in versionReliance : x[1] = k[1] /\ x[2] = k[2]}}
        S == At(k[1], k[2])
    IN
    /\ vPtD' = vPtD \cup UNION {Entries(k[1], r, S) : r \in relying}
    /\ pending' = (pending \ {k})
         \cup {<<k[1], r>> : r \in {r \in relying : ~(S \subseteq At(k[1], r))}}
    /\ worklist' = worklist \cup StmtReliance(k[1], k[2])
    /\ UNCHANGED <<svfg, callgraph, pts, consume, vWorklist, versionReliance, newEdges, pc>>

-----------------------------------------------------------------------------
(* onTheFlyCallGraphSolve and resolveIndCalls.                             *)
NewTargets == {c \in svfg.calls : c.fun \in pts[c.fp]} \ callgraph

Quiet == pc = "solve" /\ pending = {} /\ worklist = {}

(* updateCallGraph(): all edges of the new targets are in the graph before *)
(* the first of them is served; phis that gain an operand are pushed.      *)
UpdateCallGraph ==
  /\ Quiet
  /\ NewTargets # {}
  /\ callgraph' = callgraph \cup NewTargets
  /\ newEdges' = UNION {c.indirect : c \in NewTargets}
  /\ worklist' = {d \in svfg.nodes : /\ Op(d) = "phi"
                                     /\ \E c \in NewTargets : \E e \in c.direct : e[2] = d}
  /\ pc' = "connect"
  /\ UNCHANGED <<svfg, pts, consume, vWorklist, versionReliance, vPtD, pending>>

(* Slip: the new reliance is not served until the version grows.           *)
ConnectEdge_NotPropagated ==
  \E e \in newEdges :
    LET added == IF Op(e[2]) = "mem" THEN Reliance(e) ELSE {} IN
    /\ pending = {}
    /\ newEdges' = newEdges \ {e}
    /\ versionReliance' = versionReliance \cup added
    /\ UNCHANGED <<pending, svfg, callgraph, pts, consume, vWorklist, vPtD, worklist, pc>>

(* updateConnectedNodes: an edge to a FormalIN or an ActualOUT adds a      *)
(* reliance, if both ends have versions, which is served at once.          *)
ConnectEdge ==
  \E e \in newEdges :
    LET added == IF Op(e[2]) = "mem" THEN Reliance(e) ELSE {} IN
    /\ pending = {}
    /\ newEdges' = newEdges \ {e}
    /\ versionReliance' = versionReliance \cup added
    /\ pending' = {<<x[1], x[2]>> : x \in added}
    /\ UNCHANGED <<svfg, callgraph, pts, consume, vWorklist, vPtD, worklist, pc>>

(* Another round: initWorklist() pushes every node of the graph.           *)
NextRound ==
  /\ pc = "connect"
  /\ newEdges = {}
  /\ pending = {}
  /\ worklist' = svfg.nodes
  /\ pc' = "solve"
  /\ UNCHANGED <<svfg, callgraph, pts, consume, vWorklist, versionReliance, vPtD, pending,
                 newEdges>>

Finished ==
  /\ Quiet
  /\ NewTargets = {}
  /\ pc' = "done"
  /\ UNCHANGED <<svfg, callgraph, pts, consume, vWorklist, versionReliance, vPtD, pending,
                 worklist, newEdges>>

Terminated == pc = "done" /\ UNCHANGED vars

Next ==
  \/ \E l \in vWorklist : MeldLabel(l)
  \/ StartSolving
  \/ \E n \in worklist : ProcessTopLevel(n) \/ ProcessPassOn(n) \/ ProcessStore(n)
  \/ PropagateVersion
  \/ UpdateCallGraph
  \/ ConnectEdge
  \/ NextRound
  \/ Finished
  \/ Terminated

Spec == Init /\ [][Next]_vars /\ WF_vars(Next)

-----------------------------------------------------------------------------
(* What a version has, the versions that rely on it have, unless it is     *)
(* about to be propagated.  Versions grow at one place, are copied along   *)
(* reliances that two others set up, one of them while solving, and the    *)
(* recursion stops where nothing grows.                                    *)
ReliantDelivered ==
  \A x \in versionReliance :
    <<x[1], x[2]>> \in pending \/ At(x[1], x[2]) \subseteq At(x[1], x[3])

(* A statement that has not read all of a version it sees is going to be   *)
(* processed: the version is about to be propagated, or the statement, or  *)
(* the parameter it uses, is in the worklist.  Nobody pushes a statement   *)
(* for its edges any more; only the versions it sees tell it.              *)
UpToDate(n, o) ==
  LET v == consume[n][o] IN
  /\ Op(n) = "load" /\ o \in Used(n) \ NonPointer => At(o, v) \subseteq pts[Lhs(n)]
  /\ Op(n) = "store" /\ pts[Lhs(n)] # {} /\ o \notin Overwritten(n) /\ Yield(n, o) # {} =>
       At(o, v) \subseteq At(o, Yield(n, o))

ToBeProcessed(n) ==
  n \in worklist \/ \E d \in worklist : Op(d) = "formal" /\ <<d, n>> \in Direct

StatementsNotified ==
  pc \in {"solve", "done"} =>
    \A n \in svfg.nodes : \A o \in Obj :
      \/ consume[n][o] = {}
      \/ <<o, consume[n][o]>> \in pending
      \/ ToBeProcessed(n)
      \/ UpToDate(n, o)

(* What reaches location l of object o: what its version has, or what the  *)
(* edges to l bring if it has none.                                        *)
Seen(l, o) ==
  IF consume[l][o] # {} THEN At(o, consume[l][o])
  ELSE UNION {At(o, Yield(e[1], o)) :
                e \in {e \in IndirectEdges(svfg, callgraph) : e[2] = l /\ e[3] = o}}

(* What leaves store l of object o.                                        *)
Left(l, o) ==
  CASE Yield(l, o) # {} -> At(o, Yield(l, o))
    [] Yield(l, o) = {} /\ pts[Lhs(l)] # {} -> Seen(l, o)
    [] OTHER -> {}

Result ==
  [pts |-> pts, calls |-> callgraph,
   in |-> [l \in svfg.nodes |-> [o \in Obj |-> Seen(l, o)]],
   out |-> [l \in svfg.nodes |-> [o \in Obj |-> IF Op(l) = "store" THEN Left(l, o) ELSE {}]]]

(* What a call edge may carry from a delta node an edge of the graph       *)
(* carries from it, too, so that prelabel() has given it a version.        *)
Anticipated(P) ==
  \A c \in P.calls : \A e \in c.indirect :
    e[1] \in DeltaNodes(P) => \E x \in P.indirect : x[1] = e[1] /\ x[3] = e[3]

Precise == \E flow \in {Reference(svfg)} : FlowWithin(svfg, Result, flow)

Solved == Anticipated(svfg) => FlowSolution(svfg, Result)

(* Sharing versions adds nothing: the result is within the least solution  *)
(* of the flow equations.  Locations share a version when the same labels  *)
(* have melded into it, and delta nodes have versions of their own though  *)
(* nobody knows what will reach them.  And it loses nothing: the result is *)
(* a solution, of the graph with all its calls connected, although         *)
(* reliances are set up before it is solved and between rounds, and        *)
(* statements are told through versions only.                              *)
LeastWhenDone == pc = "done" => Precise /\ Solved

(* The labelling, the recursion over relying versions and the rounds of    *)
(* call graph updates all come to an end.                                  *)
Termination == <>(pc = "done")
=============================================================================
