----------------------------- MODULE DemandDriven ------------------------------
(***************************************************************************)
(* Demand-driven flow-sensitive points-to analysis (FlowDDA over           *)
(* DDAVFSolver).  A query is a pair <<location, variable or object>> (dpm, *)
(* LocDPItem); findPT() works backwards along the value-flow graph, keeps  *)
(* what it has found in caches that outlive the query, and when a cached   *)
(* set grows it finds again what was built on it.  The recursion of        *)
(* findPT() and reCompute() is an explicit stack.                          *)
(***************************************************************************)
EXTENDS ValueFlow, Sequences

CONSTANTS
  Budgets,    \* values of -flow-bg, the steps a query may take, to be tried
  Unlimited,  \* the budget that no query exhausts
  MaxQueries  \* bound: queries asked one after the other

(* Direct edges are def-use chains and parameters; a variable that is      *)
(* asked for has a definition; variables and objects share no NodeID.      *)
ASSUME DefinitionsAssumption ==
  /\ Var \cap Obj = {}
  /\ \A P \in Programs :
       /\ \A C \in SUBSET P.calls : \A e \in DirectEdges(P, C) :
            LET from == P.stmt[e[1]]
                to == P.stmt[e[2]]
            IN  /\ from.op \notin {"store", "mem"}
                /\ to.op \in {"phi", "gep"} => from.lhs \in Operands(P, C, e[2])
                /\ to.op = "actual" => from.lhs = to.lhs
                /\ to.op = "formal" => from.op = "actual"
       /\ \A x \in {c.fp : c \in P.calls} \cup (UNION {P.stmt[l].rhs : l \in P.nodes})
                     \cup {P.stmt[l].lhs : l \in {l \in P.nodes : P.stmt[l].op = "store"}} :
            \E l \in P.nodes : /\ P.stmt[l].op \in {"addr", "phi", "gep", "load", "formal"}
                               /\ P.stmt[l].lhs = x

(* Read without regard to locations, the result of the pre-analysis is a   *)
(* solution of the flow equations; objects hold what may be stored there.  *)
PreAnalysis(P) ==
  LET stores(o) == {l \in P.nodes : P.stmt[l].op = "store" /\ o \in P.ander[P.stmt[l].lhs]}
      contents == [o \in Obj |->
        UNION {P.ander[x] : x \in UNION {Operands(P, P.calls, l) : l \in stores(o)}}]
  IN  [pts |-> P.ander, calls |-> {c \in P.calls : c.fun \in P.ander[c.fp]},
       in |-> [l \in P.nodes |-> contents], out |-> [l \in P.nodes |-> contents]]

ASSUME PreAnalysisAssumption == \A P \in Programs : FlowSolution(P, PreAnalysis(P))

VARIABLES
  svfg,       \* the program
  budget,     \* DPItem::maximumBudget
  callgraph,  \* the call targets connected
  pts,        \* cache for top-level variables, by variable (FlowDDA.h)
  adPts,      \* cache for objects, by location (dpmToADCPtSetMap)
  visited,    \* backwardVisited
  traversed,  \* locToDpmSetMap: visited in this query
  oob,        \* outOfBudgetQuery
  oobDpms,    \* outOfBudgetDpms
  steps,      \* _NumOfStep
  stack,      \* calls under way, the innermost first
  answered    \* variables asked for

vars == <<svfg, budget, callgraph, pts, adPts, visited, traversed, oob, oobDpms,
          steps, stack, answered>>

Dpm == Loc \X (Var \cup Obj)

(* dpm is the argument of the call, todo what it has yet to find, edges    *)
(* where reCompute() has yet to look, ptrs and acc what it has found of    *)
(* the pointer of a load or store and of its result.                       *)
Frame == [dpm : Dpm \cup ({NoLoc} \X Var),
          phase : {"query", "funptr", "pointer", "value", "sources", "calls", "outs"},
          todo : SUBSET Dpm, edges : SUBSET (Loc \X BOOLEAN),
          ptrs : SUBSET Obj, acc : SUBSET Obj]

TypeOK ==
  /\ svfg \in Programs
  /\ budget \in Budgets
  /\ callgraph \subseteq svfg.calls
  /\ pts \in [Var -> SUBSET Obj]
  /\ adPts \in [Loc \X Obj -> SUBSET Obj]
  /\ visited \subseteq Dpm
  /\ traversed \subseteq visited
  /\ oob \in BOOLEAN
  /\ oobDpms \subseteq Dpm
  /\ steps \in Nat
  /\ stack \in Seq(Frame)
  /\ answered \subseteq Var

Direct == DirectEdges(svfg, callgraph)
Indirect == IndirectEdges(svfg, callgraph)
Op(l) == svfg.stmt[l].op
Lhs(l) == svfg.stmt[l].lhs

(* getDefSVFGNode: the one node that defines x.                            *)
DefOf(x) == CHOOSE l \in svfg.nodes :
              Op(l) \in {"addr", "phi", "gep", "load", "formal"} /\ Lhs(l) = x

DefDpm(x) == <<DefOf(x), x>>

IsTopLevel(l) == Op(l) \notin {"store", "mem"}

(* getCachedPointsTo: one set for all locations of a top-level variable.   *)
Cached(d) == IF IsTopLevel(d[1]) THEN pts[d[2]] ELSE adPts[d]

Init ==
  /\ svfg \in Programs
  /\ budget \in Budgets
  /\ callgraph = {}
  /\ pts = [x \in Var |-> {}]
  /\ adPts = [d \in Loc \X Obj |-> {}]
  /\ visited = {}
  /\ traversed = {}
  /\ oob = FALSE
  /\ oobDpms = {}
  /\ steps = 0
  /\ stack = <<>>
  /\ answered = {}

-----------------------------------------------------------------------------
(* The definitions that a query depends on.                                *)

(* resolveFunPtr: the pointers of the indirect calls that enter or return  *)
(* to this node, according to the pre-analysis.                            *)
FunPtrs(l) == {DefDpm(c.fp) : c \in {c \in svfg.calls :
                 \E e \in c.direct \cup c.indirect : e[2] = l}}

(* startNewPTCompFromLoadSrc, startNewPTCompFromStoreDst.                  *)
PointerOf(l) ==
  CASE Op(l) = "store" -> {DefDpm(Lhs(l))}
    [] Op(l) = "load" -> {DefDpm(x) : x \in svfg.stmt[l].rhs}

(* backtraceToStoreSrc.                                                    *)
ValueOf(l) == {DefDpm(x) : x \in svfg.stmt[l].rhs}

(* backtraceAlongDirectVF and backtraceAlongIndirectVF.                    *)
DirectSources(l) == {<<e[1], Lhs(e[1])>> : e \in {e \in Direct : e[2] = l}}

ObjectSources(l, S) ==
  {<<e[1], e[3]>> : e \in {e \in Indirect : e[2] = l /\ e[3] \in S \ NonPointer}}

(* What remains to be found when the pointer is known to point to S.  A    *)
(* store to d's object alone is looked at again when its value is found.   *)
Sources(d, S) ==
  CASE Op(d[1]) = "addr" -> {}
    [] Op(d[1]) = "load" -> ObjectSources(d[1], S)
    [] Op(d[1]) = "mem" -> ObjectSources(d[1], {d[2]})
    [] Op(d[1]) = "store" ->
         (IF d[2] \in S THEN ValueOf(d[1]) ELSE {})
           \cup (IF S = {} THEN {} ELSE ObjectSources(d[1], {d[2]}))
    [] OTHER -> DirectSources(d[1])

(* Slip: the set of the pointer is not looked at.                          *)
PassedOver_Always(d, S) == ObjectSources(d[1], {d[2]})

(* What a store to d's object alone lets through.                          *)
PassedOver(d, S) ==
  IF Strong(svfg, callgraph, S) THEN {} ELSE ObjectSources(d[1], {d[2]})

(* The points-to set made of what the sources returned; processGepPts and  *)
(* handleAddr.                                                             *)
Result(d, S) ==
  CASE Op(d[1]) = "addr" -> {svfg.stmt[d[1]].obj}
    [] Op(d[1]) = "gep" -> {FieldAt[<<o, svfg.stmt[d[1]].off>>] : o \in S}
    [] OTHER -> S

-----------------------------------------------------------------------------
Top == Head(stack)

Replace(f) == <<f>> \o Tail(stack)

(* Frame f once findPT(d) has returned S.                                  *)
Received(f, d, S) ==
  [f EXCEPT !.todo = @ \ {d},
            !.ptrs = IF f.phase = "pointer" THEN @ \cup S ELSE @,
            !.acc = IF f.phase \in {"value", "sources"} THEN @ \cup S ELSE @]

Todo == IF stack = <<>> THEN {} ELSE Top.todo

Recomputing(f) == f.phase \in {"calls", "outs"}

Within(phase) == stack # <<>> /\ Top.todo = {} /\ Top.phase = phase

(* Slip: a query that ran out of budget leaves its marks behind.           *)
Kept_Everything == visited

(* resetQuery() and OOBResetVisited(): what a query that ran out of budget *)
(* has visited is visited anew, but for the variable it was asked for.     *)
Kept == IF oob THEN visited \ (traversed \ oobDpms) ELSE visited

(* computeDDAPts(x).                                                       *)
Ask(x) ==
  /\ stack = <<>>
  /\ x \notin answered
  /\ Cardinality(answered) < MaxQueries
  /\ \E l \in svfg.nodes : Op(l) \notin {"store", "mem", "actual"} /\ Lhs(l) = x
  /\ visited' = Kept
  /\ traversed' = {}
  /\ oob' = FALSE
  /\ steps' = 0
  /\ stack' = <<[dpm |-> <<NoLoc, x>>, phase |-> "query", todo |-> {DefDpm(x)},
                 edges |-> {}, ptrs |-> {}, acc |-> {}]>>
  /\ UNCHANGED <<svfg, budget, callgraph, pts, adPts, oobDpms, answered>>

(* findPT of what has been visited; reCompute() clears that mark first.    *)
UseCached(d) ==
  /\ d \in visited
  /\ ~Recomputing(Top)
  /\ stack' = Replace(Received(Top, d, Cached(d)))
  /\ UNCHANGED <<svfg, budget, callgraph, pts, adPts, visited, traversed, oob,
                 oobDpms, steps, answered>>

(* testOutOfBudget(); what is over the limit returns what is cached.       *)
Enter(d) ==
  LET spent == IF oob \/ budget = Unlimited THEN steps ELSE steps + 1 IN
  /\ d \notin visited \/ Recomputing(Top)
  /\ visited' = visited \cup {d}
  /\ traversed' = traversed \cup {d}
  /\ steps' = spent
  /\ oob' = (oob \/ (budget # Unlimited /\ spent > budget))
  /\ stack' = IF oob' \/ d \in oobDpms
              THEN Replace(Received(Top, d, Cached(d)))
              ELSE <<[dpm |-> d, phase |-> "funptr", todo |-> FunPtrs(d[1]),
                      edges |-> {}, ptrs |-> {}, acc |-> {}]>> \o stack
  /\ UNCHANGED <<svfg, budget, callgraph, pts, adPts, oobDpms, answered>>

(* handleSingleStatement(): what to look for next.                         *)
Continue(phase, todo) ==
  /\ stack' = Replace([Top EXCEPT !.phase = phase, !.todo = todo])
  /\ UNCHANGED <<svfg, budget, callgraph, pts, adPts, visited, traversed, oob,
                 oobDpms, steps, answered>>

FunPtrsResolved ==
  /\ Within("funptr")
  /\ IF Op(Top.dpm[1]) \in {"load", "store"}
     THEN Continue("pointer", PointerOf(Top.dpm[1]))
     ELSE Continue("sources", Sources(Top.dpm, {}))

PointerFound ==
  /\ Within("pointer")
  /\ IF Op(Top.dpm[1]) = "store" /\ Top.ptrs = {Top.dpm[2]}
     THEN Continue("value", ValueOf(Top.dpm[1]))
     ELSE Continue("sources", Sources(Top.dpm, Top.ptrs))

ValueFound ==
  /\ Within("value")
  /\ Continue("sources", PassedOver(Top.dpm, Top.ptrs))

-----------------------------------------------------------------------------
(* updateCallGraphAndSVFG: the targets found for calls through d.          *)
NewTargets(d, S) == {c \in svfg.calls : c.fp = d[2] /\ c.fun \in S} \ callgraph

(* unionDDAPts(d, S).                                                      *)
AddToCache(d, S) ==
  IF IsTopLevel(d[1])
  THEN pts' = [pts EXCEPT ![d[2]] = @ \cup S] /\ UNCHANGED adPts
  ELSE adPts' = [adPts EXCEPT ![d] = @ \cup S] /\ UNCHANGED pts

(* What unionDDAPts reports to updateCachedPointsTo.                       *)
Grows == ~(Result(Top.dpm, Top.acc) \subseteq Cached(Top.dpm))

(* updateCachedPointsTo and reCompute: if the cache has grown, what was    *)
(* visited at the new call edges' ends is found again.                     *)
Update ==
  LET d == Top.dpm
      grown == Cached(d) \cup Result(d, Top.acc)
      new == NewTargets(d, grown) IN
  /\ Within("sources")
  /\ Grows
  /\ AddToCache(d, Result(d, Top.acc))
  /\ callgraph' = callgraph \cup new
  /\ stack' = Replace([Top EXCEPT !.phase = "calls",
       !.edges = {<<e[2], TRUE>> : e \in UNION {c.direct \cup c.indirect : c \in new}}])
  /\ UNCHANGED <<svfg, budget, visited, traversed, oob, oobDpms, steps, answered>>

(* reComputeForEdges: all that was visited at the end of the edge, or only *)
(* what is about the same object.                                          *)
Affected(d, e) == {x \in traversed : x[1] = e[1] /\ (e[2] \/ x[2] = d[2])}

(* Slip: the iteration starts again after every edge.                      *)
NextEdge_Restart ==
  \E e \in IF Todo = {} /\ stack # <<>> THEN Top.edges ELSE {} :
    /\ stack' = Replace([Top EXCEPT !.todo = Affected(Top.dpm, e)])
    /\ UNCHANGED <<svfg, budget, callgraph, pts, adPts, visited, traversed, oob,
                   oobDpms, steps, answered>>

NextEdge ==
  \E e \in IF Todo = {} /\ stack # <<>> THEN Top.edges ELSE {} :
    /\ stack' = Replace([Top EXCEPT !.edges = @ \ {e}, !.todo = Affected(Top.dpm, e)])
    /\ UNCHANGED <<svfg, budget, callgraph, pts, adPts, visited, traversed, oob,
                   oobDpms, steps, answered>>

(* Slip: at the end of an indirect edge only the same object is affected.  *)
OutEdges_SameObject(l) ==
  {<<e[2], TRUE>> : e \in {e \in Direct : e[1] = l}}
    \cup {<<e[2], FALSE>> : e \in {e \in Indirect : e[1] = l}}

OutEdges(l) ==
  {<<e[2], TRUE>> : e \in {e \in Direct : e[1] = l}}
    \cup {<<e[2], Op(e[2]) = "load">> : e \in {e \in Indirect : e[1] = l}}

Follow ==
  /\ Within("calls")
  /\ Top.edges = {}
  /\ stack' = Replace([Top EXCEPT !.phase = "outs", !.edges = OutEdges(Top.dpm[1])])
  /\ UNCHANGED <<svfg, budget, callgraph, pts, adPts, visited, traversed, oob,
                 oobDpms, steps, answered>>

Unchanged == Within("sources") /\ ~Grows

Recomputed == Within("outs") /\ Top.edges = {}

(* findPT() returns what is cached now.                                    *)
Return ==
  LET caller == stack[2] IN
  /\ Unchanged \/ Recomputed
  /\ stack' = <<Received(caller, Top.dpm, Cached(Top.dpm))>> \o SubSeq(stack, 3, Len(stack))
  /\ UNCHANGED <<svfg, budget, callgraph, pts, adPts, visited, traversed, oob,
                 oobDpms, steps, answered>>

(* The query is answered.  handleOutOfBudgetDpm: over the limit the answer *)
(* is the pre-analysis', and the call targets in it are connected; nothing *)
(* is found again, for findPT() now returns at once.                       *)
Answer ==
  LET x == Top.dpm[2] IN
  /\ Within("query")
  /\ answered' = answered \cup {x}
  /\ stack' = <<>>
  /\ IF oob
     THEN /\ pts' = [pts EXCEPT ![x] = @ \cup svfg.ander[x]]
          /\ callgraph' = IF svfg.ander[x] \subseteq pts[x] THEN callgraph
                          ELSE callgraph \cup NewTargets(Top.dpm, pts'[x])
          /\ oobDpms' = oobDpms \cup {DefDpm(x)}
     ELSE UNCHANGED <<pts, callgraph, oobDpms>>
  /\ UNCHANGED <<svfg, budget, adPts, visited, traversed, oob, steps>>

Step ==
  \/ \E d \in Todo : UseCached(d) \/ Enter(d)
  \/ FunPtrsResolved
  \/ PointerFound
  \/ ValueFound
  \/ Update
  \/ NextEdge
  \/ Follow
  \/ Return
  \/ Answer

Next ==
  \/ \E x \in Var : Ask(x)
  \/ Step

Spec == Init /\ [][Next]_vars /\ WF_vars(Step)

-----------------------------------------------------------------------------
(* What the caches hold for d, computed from what they hold for what d is  *)
(* made of.                                                                *)
CachedPointer(l) == UNION {Cached(x) : x \in PointerOf(l)}

Inputs(d) ==
  IF Op(d[1]) \notin {"load", "store"} THEN Sources(d, {})
  ELSE IF Op(d[1]) = "store" /\ CachedPointer(d[1]) = {d[2]}
  THEN ValueOf(d[1]) \cup PassedOver(d, CachedPointer(d[1]))
  ELSE Sources(d, CachedPointer(d[1]))

Recomputation(d) == Result(d, UNION {Cached(x) : x \in Inputs(d)})

(* Between queries the caches are a fixed point: whatever the next query   *)
(* will take for visited holds all that follows from what it is made of,   *)
(* in whichever order cycles were entered, left and found again, and       *)
(* wherever an earlier query was cut off; but not on cycles through actual *)
(* and formal parameters (MCProgramsRecursive).                            *)
CachesClosed ==
  stack = <<>> => \A d \in Kept \ oobDpms :
    /\ Inputs(d) \subseteq Kept
    /\ Recomputation(d) \subseteq Cached(d)

(* No answer exceeds what the flow equations justify, the least solution   *)
(* among all that Reference may stand for; or, once a query has run out of *)
(* budget and was answered by the pre-analysis, what that allows.          *)
AnswersPrecise ==
  stack = <<>> /\ answered # {} =>
    \E flow \in {Reference(svfg).pts} : \A x \in answered :
      pts[x] \subseteq (IF oobDpms = {} THEN flow[x] ELSE svfg.ander[x])

(* Finding again what has been visited comes to an end: a query is always  *)
(* answered, with or without a budget.                                     *)
QueryAnswered == stack # <<>> ~> stack = <<>>
=============================================================================
