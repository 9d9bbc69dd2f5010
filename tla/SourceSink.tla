------------------------------ MODULE SourceSink -------------------------------
(***************************************************************************)
(* SABER: the detection of leaks and double frees along the value-flow     *)
(* graph (SrcSnkDDA over CFLSolver, ProgSlice, LeakChecker,                *)
(* DoubleFreeChecker).  From every source, an allocation, it goes forward  *)
(* with matched calls and returns, from the sinks met, deallocations, back *)
(* again, computes on what is common to both under which conditions a sink *)
(* is reached, and reports.                                                *)
(***************************************************************************)
EXTENDS Naturals, Sequences, FiniteSets

CONSTANTS
  Node,       \* SVFG nodes
  Site,       \* call sites
  Valuation,  \* truth assignments of the branches; a condition is a set of them
  CxtLimits,  \* values of -cxt-limit to be tried
  Programs,   \* the value-flow graphs under study
  NoNode,     \* "no source yet"
  Depth,      \* calls open at once on the paths that reports are compared with
  Stages(_, _, _)  \* these paths, with one edge more at every stage

Condition == SUBSET Valuation
TrueCond == Valuation
FalseCond == {}

(* The guard is what PathCondAllocator computes for the edge; it depends   *)
(* on nothing else.                                                        *)
Edge == [src : Node, dst : Node, kind : {"intra", "call", "ret"}, site : Site,
         guard : Condition]

Program ==
  [edges   : SUBSET Edge,
   plain   : SUBSET Node,    \* copies, geps, phis, results of functions and calls
   sinks   : SUBSET Node,    \* parameters of deallocating functions
   globals : SUBSET Node,    \* globSVFGNodes: accesses to global memory
   allocs  : SUBSET Site,    \* calls of allocating functions
   result  : [Site -> Node]] \* where the result of a call is received

ASSUME SourceSinkAssumption ==
  /\ NoNode \notin Node
  /\ CxtLimits \subseteq Nat
  /\ Programs \subseteq Program
  /\ \A P \in Programs : \A c \in Site : P.result[c] \notin P.globals  \* loads and stores

VARIABLES
  svfg,        \* the program
  maxCxtLen,   \* ContextCond::maximumCxtLen
  pc,          \* "next", "forward", "backward", "guard", "report" or "done"
  todo,        \* sources that have yet to be analysed
  source,      \* the source of the current slice (_curSlice)
  worklist,    \* of CFLSolver: items <<node, context>>
  visited,     \* nodeToDPItemsMap
  visitedSet,  \* backwardVisited
  forward,     \* forwardslice
  backward,    \* backwardslice
  sinks,       \* sinks met
  starts,      \* sinks from which backwardTraverse has yet to start
  reachGlob,
  vfCond,      \* svfgNodeToCondMap
  vfWorklist,  \* the work list of AllPathReachableSolve
  reports      \* <<source, bug>>

slice == <<forward, backward, sinks, reachGlob, vfCond>>

vars == <<svfg, maxCxtLen, pc, todo, source, worklist, visited, visitedSet, slice, starts,
          vfWorklist, reports>>

Out(n) == {e \in svfg.edges : e.src = n}

-----------------------------------------------------------------------------
(* The work lists of isInAWrapper and initSrcs.                            *)
Closure(S, F(_)) ==
  LET within[k \in Nat] ==
        IF k = 0 THEN S
        ELSE LET shorter == within[k - 1] IN shorter \cup UNION {F(x) : x \in shorter}
  IN  within[Cardinality(Node \cup Site)]

Through(P, n) ==
  Closure({n}, LAMBDA m : {e.dst : e \in {e \in P.edges : e.src = m /\ e.kind = "intra"}})

Leaving(P, n) == LET through == Through(P, n) IN {e \in P.edges : e.src \in through}

IsInAWrapper(P, n) ==
  /\ \A e \in Leaving(P, n) : e.kind # "call" /\ (e.kind = "intra" => e.dst \in P.plain)
  /\ \E e \in Leaving(P, n) : e.kind = "ret"

(* initSrcs: an allocation in a wrapper, from which the value only returns *)
(* to the callers, stands for the calls of the wrapper.                    *)
Allocating(P) ==
  LET callers(c) == IF IsInAWrapper(P, P.result[c])
                    THEN {e.site : e \in {e \in Leaving(P, P.result[c]) : e.kind = "ret"}}
                    ELSE {}
  IN  Site \cap Closure(P.allocs, callers)

Sources(P) == {n \in {P.result[c] : c \in Allocating(P)} : ~IsInAWrapper(P, n)}

Context == Seq(Site)
Item == Node \X Context

TypeOK ==
  /\ svfg \in Programs
  /\ maxCxtLen \in CxtLimits
  /\ pc \in {"next", "forward", "backward", "guard", "report", "done"}
  /\ todo \subseteq Node
  /\ source \in Node \cup {NoNode}
  /\ source = NoNode => pc \in {"next", "done"}
  /\ worklist \subseteq Item
  /\ visited \subseteq Item
  /\ visitedSet \subseteq Node
  /\ forward \subseteq Node
  /\ backward \subseteq Node
  /\ sinks \subseteq Node
  /\ starts \subseteq Node
  /\ reachGlob \in BOOLEAN
  /\ DOMAIN vfCond \subseteq Node
  /\ vfCond \in [DOMAIN vfCond -> Condition]
  /\ vfWorklist \subseteq Node
  /\ reports \subseteq Node \X {"never free", "partial leak", "double free"}

NoConds == [n \in {} |-> FalseCond]

Init ==
  /\ svfg \in Programs
  /\ maxCxtLen \in CxtLimits
  /\ pc = "next"
  /\ todo = Sources(svfg)
  /\ source = NoNode
  /\ worklist = {}
  /\ visited = {}
  /\ visitedSet = {}
  /\ forward = {}
  /\ backward = {}
  /\ sinks = {}
  /\ starts = {}
  /\ reachGlob = FALSE
  /\ vfCond = NoConds
  /\ vfWorklist = {}
  /\ reports = {}

-----------------------------------------------------------------------------
(* Slip: what was visited for the previous source stays visited.           *)
SetCurSlice_VisitedKept ==
  /\ pc = "next"
  /\ \E s \in todo :
       /\ source' = s
       /\ todo' = todo \ {s}
       /\ worklist' = {<<s, <<>>>>}
  /\ visited' = visited
  /\ visitedSet' = {}
  /\ forward' = {}
  /\ backward' = {}
  /\ sinks' = {}
  /\ reachGlob' = FALSE
  /\ vfCond' = NoConds
  /\ pc' = "forward"
  /\ UNCHANGED <<svfg, maxCxtLen, starts, vfWorklist, reports>>

(* setCurSlice, and the item that the forward traversal begins with.       *)
SetCurSlice ==
  /\ pc = "next"
  /\ \E s \in todo :
       /\ source' = s
       /\ todo' = todo \ {s}
       /\ worklist' = {<<s, <<>>>>}
  /\ visited' = {}
  /\ visitedSet' = {}
  /\ forward' = {}
  /\ backward' = {}
  /\ sinks' = {}
  /\ reachGlob' = FALSE
  /\ vfCond' = NoConds
  /\ pc' = "forward"
  /\ UNCHANGED <<svfg, maxCxtLen, starts, vfWorklist, reports>>

(* pushContext: at the limit the oldest call is forgotten.                 *)
PushContext(c, s) ==
  IF Len(c) < maxCxtLen THEN Append(c, s)
  ELSE IF c = <<>> THEN c ELSE Append(Tail(c), s)

(* matchContext: a return that no call is known for matches any.           *)
MatchContext(c, s) == c = <<>> \/ c[Len(c)] = s

PopContext(c) == IF c = <<>> THEN c ELSE SubSeq(c, 1, Len(c) - 1)

Contexts(c, e) ==
  CASE e.kind = "intra" -> {c}
    [] e.kind = "call" -> {PushContext(c, e.site)}
    [] e.kind = "ret" -> IF MatchContext(c, e.site) THEN {PopContext(c)} ELSE {}

(* Where FWProcessOutgoingEdge goes from item i.                           *)
Reached(i) ==
  UNION {{e.dst} \X Contexts(i[2], e) : e \in {e \in Out(i[1]) : e.dst \notin svfg.globals}}

MeetsGlobal(i) == \E e \in Out(i[1]) : e.dst \in svfg.globals

(* FWProcessCurNode and FWProcessOutgoingEdge for all edges of the item.   *)
(* Once a global is met, in whatever order, no edge is followed any more.  *)
Forward(i) ==
  LET new == Reached(i) \ visited IN
  /\ pc = "forward"
  /\ i \in worklist
  /\ forward' = forward \cup {i[1]}
  /\ sinks' = sinks \cup ({i[1]} \cap svfg.sinks)
  /\ \E S \in IF reachGlob THEN {{}} ELSE IF MeetsGlobal(i) THEN SUBSET new ELSE {new} :
       /\ visited' = visited \cup S
       /\ worklist' = (worklist \ {i}) \cup S
  /\ reachGlob' = (reachGlob \/ MeetsGlobal(i))
  /\ UNCHANGED <<svfg, maxCxtLen, pc, todo, source, visitedSet, backward, starts, vfCond,
                 vfWorklist, reports>>

(* What reaches global memory is taken to be in use until the program ends.*)
EndForward ==
  /\ pc = "forward"
  /\ worklist = {}
  /\ pc' = IF reachGlob THEN "report" ELSE "backward"
  /\ starts' = IF reachGlob THEN {} ELSE sinks
  /\ UNCHANGED <<svfg, maxCxtLen, todo, source, worklist, visited, visitedSet, slice,
                 vfWorklist, reports>>

-----------------------------------------------------------------------------
StartBackward(k) ==
  /\ pc = "backward"
  /\ worklist = {}
  /\ starts' = starts \ {k}
  /\ worklist' = {<<k, <<>>>>}
  /\ UNCHANGED <<svfg, maxCxtLen, pc, todo, source, visited, visitedSet, slice, vfWorklist,
                 reports>>

(* BWProcessCurNode and BWProcessIncomingEdge: contexts are not matched,   *)
(* and nodes are visited once for all sinks.                               *)
Backward(i) ==
  LET new == {e.src : e \in {e \in svfg.edges : e.dst = i[1]}} \ visitedSet IN
  /\ pc = "backward"
  /\ i \in worklist
  /\ backward' = backward \cup ({i[1]} \cap forward)
  /\ visitedSet' = visitedSet \cup new
  /\ worklist' = (worklist \ {i}) \cup {<<m, <<>>>> : m \in new}
  /\ UNCHANGED <<svfg, maxCxtLen, pc, todo, source, visited, forward, sinks, starts,
                 reachGlob, vfCond, vfWorklist, reports>>

-----------------------------------------------------------------------------
VFCond(n) == IF n \in DOMAIN vfCond THEN vfCond[n] ELSE FalseCond

(* AllPathReachableSolve: the source is reached under any condition.       *)
StartGuards ==
  /\ pc = "backward"
  /\ worklist = {}
  /\ starts = {}
  /\ vfCond' = [n \in {source} |-> TrueCond]
  /\ vfWorklist' = {source}
  /\ pc' = "guard"
  /\ UNCHANGED <<svfg, maxCxtLen, todo, source, worklist, visited, visitedSet, forward,
                 backward, sinks, starts, reachGlob, reports>>

(* Slip: the condition under which the node itself is reached is left out. *)
Along_EdgeOnly(n, m) == UNION {e.guard : e \in {e \in Out(n) : e.dst = m}}

(* The condition under which node m is reached through node n.             *)
Along(n, m) == UNION {VFCond(n) \cap e.guard : e \in {e \in Out(n) : e.dst = m}}

(* Slip: successors are pushed although their conditions stay the same.    *)
ComputeGuards_Again(n) ==
  LET succs == {e.dst : e \in Out(n)} \cap backward IN
  /\ pc = "guard"
  /\ n \in vfWorklist
  /\ vfCond' = [m \in DOMAIN vfCond \cup succs |->
                  IF m \in succs THEN VFCond(m) \cup Along(n, m) ELSE VFCond(m)]
  /\ vfWorklist' = (vfWorklist \ {n}) \cup succs
  /\ UNCHANGED <<svfg, maxCxtLen, pc, todo, source, worklist, visited, visitedSet, forward,
                 backward, sinks, starts, reachGlob, reports>>

(* Slip: a node is pushed the first time only.                             *)
ComputeGuards_Once(n) ==
  LET succs == {e.dst : e \in Out(n)} \cap backward IN
  /\ pc = "guard"
  /\ n \in vfWorklist
  /\ vfCond' = [m \in DOMAIN vfCond \cup succs |->
                  IF m \in succs THEN VFCond(m) \cup Along(n, m) ELSE VFCond(m)]
  /\ vfWorklist' = (vfWorklist \ {n}) \cup (succs \ DOMAIN vfCond)
  /\ UNCHANGED <<svfg, maxCxtLen, pc, todo, source, worklist, visited, visitedSet, forward,
                 backward, sinks, starts, reachGlob, reports>>

(* One node of the work list: its successors in the backward slice whose   *)
(* conditions have changed are pushed.                                     *)
ComputeGuards(n) ==
  LET succs == {e.dst : e \in Out(n)} \cap backward IN
  /\ pc = "guard"
  /\ n \in vfWorklist
  /\ vfCond' = [m \in DOMAIN vfCond \cup succs |->
                  IF m \in succs THEN VFCond(m) \cup Along(n, m) ELSE VFCond(m)]
  /\ vfWorklist' = (vfWorklist \ {n})
       \cup {m \in succs : m \notin DOMAIN vfCond \/ VFCond(m) # vfCond'[m]}
  /\ UNCHANGED <<svfg, maxCxtLen, pc, todo, source, worklist, visited, visitedSet, forward,
                 backward, sinks, starts, reachGlob, reports>>

EndGuards ==
  /\ pc = "guard"
  /\ vfWorklist = {}
  /\ pc' = "report"
  /\ UNCHANGED <<svfg, maxCxtLen, todo, source, worklist, visited, visitedSet, slice, starts,
                 vfWorklist, reports>>

(* isSatisfiableForAll, which a slice that reaches a global is not asked.  *)
AllReachable == reachGlob \/ UNION {VFCond(k) : k \in sinks} = TrueCond

SomeReachable == reachGlob \/ sinks # {}

(* isSatisfiableForPairs.                                                  *)
PairsExclude == \A k, l \in sinks : k = l \/ VFCond(k) \cap VFCond(l) = FalseCond

(* reportBug of the two checkers.                                          *)
Bugs ==
  (IF ~AllReachable /\ ~SomeReachable THEN {"never free"} ELSE {})
    \cup (IF ~AllReachable /\ SomeReachable THEN {"partial leak"} ELSE {})
    \cup (IF ~PairsExclude THEN {"double free"} ELSE {})

ReportBug ==
  /\ pc = "report"
  /\ reports' = reports \cup ({source} \X Bugs)
  /\ pc' = "next"
  /\ UNCHANGED <<svfg, maxCxtLen, todo, source, worklist, visited, visitedSet, slice, starts,
                 vfWorklist>>

Finished ==
  /\ pc = "next"
  /\ todo = {}
  /\ pc' = "done"
  /\ UNCHANGED <<svfg, maxCxtLen, todo, source, worklist, visited, visitedSet, slice, starts,
                 vfWorklist, reports>>

Terminated == pc = "done" /\ UNCHANGED vars

Next ==
  \/ SetCurSlice
  \/ \E i \in worklist : Forward(i) \/ Backward(i)
  \/ EndForward
  \/ \E k \in starts : StartBackward(k)
  \/ StartGuards
  \/ \E n \in vfWorklist : ComputeGuards(n)
  \/ EndGuards
  \/ ReportBug
  \/ Finished
  \/ Terminated

Spec == Init /\ [][Next]_vars /\ WF_vars(Next)

-----------------------------------------------------------------------------
(* What has been visited has been followed, and what is known at a node of *)
(* the slice is known at its successors, or the item or node is in the     *)
(* work list: so it is while the context is cut, sinks share what they     *)
(* visit, and conditions grow after a node was looked at.                  *)
SliceClosed ==
  /\ pc \in {"forward", "backward", "guard"} /\ ~reachGlob =>
       \A i \in visited \cup {<<source, <<>>>>} :
         (pc = "forward" /\ i \in worklist) \/ (Reached(i) \subseteq visited /\ i[1] \in forward)
  /\ pc \in {"backward", "guard"} =>
       \A n \in visitedSet \cup (sinks \ starts) :
         \/ <<n, <<>>>> \in worklist
         \/ /\ n \in forward => n \in backward
            /\ \A e \in svfg.edges : e.dst = n => e.src \in visitedSet
  /\ pc \in {"guard", "report"} =>
       \A e \in svfg.edges :
         \/ e.src \in vfWorklist
         \/ e.dst \notin backward
         \/ VFCond(e.src) \cap e.guard \subseteq VFCond(e.dst)

(* Paths from a source, with calls and returns matched on call strings     *)
(* that are not cut, or not matched at all: a path is where it leads, the  *)
(* calls still open, and the condition under which it is taken.            *)
Path == Node \X Context \X Condition

Extend(P, matched, t) ==
  {<<e.dst,
     CASE ~matched \/ e.kind = "intra" -> t[2]
       [] matched /\ e.kind = "call" -> Append(t[2], e.site)
       [] matched /\ e.kind = "ret" -> PopContext(t[2]),
     t[3] \cap e.guard>> :
   e \in {e \in P.edges : /\ e.src = t[1]
                          /\ matched /\ e.kind = "call" => Len(t[2]) < Depth
                          /\ matched /\ e.kind = "ret" => MatchContext(t[2], e.site)}}

ASSUME PathsAssumption ==
  /\ Depth \in Nat
  /\ \A P \in Programs : \A matched \in BOOLEAN : \A s \in Sources(P) :
       LET stages == Stages(P, matched, s)
           longer(T) == UNION {Extend(P, matched, t) : t \in T}
       IN  /\ stages \in Seq(SUBSET Path)
           /\ Len(stages) > 0
           /\ stages[1] = {<<s, <<>>, TrueCond>>}
           /\ \A k \in 2..Len(stages) : stages[k] = stages[k - 1] \cup longer(stages[k - 1])
           /\ longer(stages[Len(stages)]) \subseteq stages[Len(stages)]

Paths(P, matched, s) == LET stages == Stages(P, matched, s) IN stages[Len(stages)]

Meets(T, S) == \E t \in T : t[1] \in S

Under(T, S) == UNION {t[3] : t \in {t \in T : t[1] \in S}}

(* No report is a false alarm: what is said never to be freed reaches no   *)
(* deallocation on any path with matched calls and returns, what is said   *)
(* to leak on some paths is not freed under all conditions, and neither    *)
(* reaches a global.                                                       *)
Justified(s, bug) ==
  \E T \in {Paths(svfg, TRUE, s)} :
    /\ ~Meets(T, svfg.globals)
    /\ Under(T, svfg.sinks) # TrueCond
    /\ bug = "never free" => ~Meets(T, svfg.sinks)

ReportsJustified == \A r \in reports : r[2] # "double free" => Justified(r[1], r[2])

(* Nothing goes unreported but what is freed under all conditions, or      *)
(* reaches a global, on paths that may leave a function by a call it was   *)
(* not entered by; and where no double free is reported, no two            *)
(* deallocations are reached under one condition.                          *)
Silent(s) ==
  /\ {<<s, "never free">>, <<s, "partial leak">>} \cap reports = {} =>
       \E T \in {Paths(svfg, FALSE, s)} :
         Meets(T, svfg.globals) \/ Under(T, svfg.sinks) = TrueCond
  /\ <<s, "double free">> \notin reports =>
       \E T \in {Paths(svfg, TRUE, s)} :
         \/ Meets(Paths(svfg, FALSE, s), svfg.globals)
         \/ \A t, u \in T : /\ {t[1], u[1]} \subseteq svfg.sinks
                            /\ t[1] # u[1]
                            => t[3] \cap u[3] = {}

SilenceJustified == pc = "done" => \A s \in Sources(svfg) : Silent(s)

(* Every source is dealt with in the end: contexts are bounded, and        *)
(* conditions grow along the cycles of the graph only so far.              *)
Termination == <>(pc = "done")
=============================================================================
