--------------------------- MODULE SourceSinkProofs ----------------------------
(***************************************************************************)
(* A slice is closed, for every value-flow graph and every limit of the    *)
(* contexts; that is inductive together with the types and with what is    *)
(* still empty in the phases before it is used (Untouched).  With the      *)
(* paths of the graph, which Stages extends edge by edge, it follows that  *)
(* a report rests on paths (LeaksAreLeaks) and that where the checkers are *)
(* silent there is no path to report (NothingConcealed).                   *)
(***************************************************************************)
EXTENDS SourceSink, SequenceTheorems, WellFoundedInduction, TLAPS

(* Backward traversal and conditions begin from nothing for every source.  *)
Untouched ==
  /\ pc = "forward" => visitedSet = {} /\ backward = {} /\ vfCond = NoConds
  /\ pc = "backward" => vfCond = NoConds

SliceInv == TypeOK /\ Untouched /\ SliceClosed

(* The parts of SliceClosed, each about one traversal.                     *)
ForwardClosed ==
  pc \in {"forward", "backward", "guard"} /\ ~reachGlob =>
    \A i \in visited \cup {<<source, <<>>>>} :
      (pc = "forward" /\ i \in worklist) \/ (Reached(i) \subseteq visited /\ i[1] \in forward)

BackwardClosed ==
  pc \in {"backward", "guard"} =>
    \A n \in visitedSet \cup (sinks \ starts) :
      \/ <<n, <<>>>> \in worklist
      \/ /\ n \in forward => n \in backward
         /\ \A e \in svfg.edges : e.dst = n => e.src \in visitedSet

GuardsClosed ==
  pc \in {"guard", "report"} =>
    \A e \in svfg.edges :
      \/ e.src \in vfWorklist
      \/ e.dst \notin backward
      \/ VFCond(e.src) \cap e.guard \subseteq VFCond(e.dst)

-----------------------------------------------------------------------------
LEMMA ProgramTypes ==
  ASSUME svfg \in Programs
  PROVE  /\ svfg.edges \subseteq Edge
         /\ svfg.result \in [Site -> Node]
BY SourceSinkAssumption DEF Program

LEMMA SourcesTyped ==
  ASSUME svfg \in Programs
  PROVE  Sources(svfg) \subseteq Node
<1>1. Allocating(svfg) \subseteq Site
  BY DEF Allocating
<1>. QED BY <1>1, ProgramTypes DEF Sources

LEMMA StartTyped ==
  ASSUME NEW n \in Node
  PROVE  <<n, <<>>>> \in Item
<1>1. <<>> \in Context
  BY DEF Context
<1>. QED BY <1>1 DEF Item

(* What a call or a return makes of a context is a context.                *)
LEMMA ContextsTyped ==
  ASSUME TypeOK, NEW c \in Context, NEW e \in svfg.edges
  PROVE  Contexts(c, e) \subseteq Context
<1>1. e.site \in Site
  BY ProgramTypes DEF TypeOK, Edge
<1>2. c \in Seq(Site)
  BY DEF Context
<1>3. PushContext(c, e.site) \in Seq(Site)
  BY <1>1, <1>2 DEF PushContext
<1>4. PopContext(c) \in Seq(Site)
  BY <1>2 DEF PopContext
<1>. QED BY <1>2, <1>3, <1>4, ProgramTypes DEF Contexts, Context, TypeOK, Edge

LEMMA ReachedTyped ==
  ASSUME TypeOK, NEW i \in Item
  PROVE  Reached(i) \subseteq Item
<1>1. i[2] \in Context
  BY DEF Item
<1>2. \A e \in svfg.edges : e.dst \in Node /\ Contexts(i[2], e) \subseteq Context
  BY <1>1, ContextsTyped, ProgramTypes DEF TypeOK, Edge
<1>3. Out(i[1]) \subseteq svfg.edges
  BY DEF Out
<1>. QED BY <1>2, <1>3 DEF Reached, Item

LEMMA VFCondTyped ==
  ASSUME TypeOK
  PROVE  \A n : VFCond(n) \in Condition
BY DEF VFCond, TypeOK, Condition, FalseCond

LEMMA AlongTyped ==
  ASSUME TypeOK
  PROVE  \A n, m : Along(n, m) \in Condition
<1>1. \A n : VFCond(n) \subseteq Valuation
  BY VFCondTyped DEF Condition
<1>. QED BY <1>1 DEF Along, Condition

-----------------------------------------------------------------------------
LEMMA InitInv == Init => SliceInv
<1>. SUFFICES ASSUME Init PROVE SliceInv
  OBVIOUS
<1>1. TypeOK
  <2>1. vfCond \in [DOMAIN vfCond -> Condition] /\ DOMAIN vfCond \subseteq Node
    BY DEF Init, NoConds
  <2>. QED BY <2>1, SourcesTyped DEF Init, TypeOK
<1>2. Untouched /\ SliceClosed
  BY DEF Init, Untouched, SliceClosed
<1>. QED BY <1>1, <1>2 DEF SliceInv

LEMMA TypeStep == TypeOK /\ [Next]_vars => TypeOK'
<1>. SUFFICES ASSUME TypeOK, [Next]_vars PROVE TypeOK'
  OBVIOUS
<1>. USE DEF TypeOK
<1>1. CASE SetCurSlice
  <2>1. PICK s \in todo : source' = s /\ todo' = todo \ {s} /\ worklist' = {<<s, <<>>>>}
    BY <1>1 DEF SetCurSlice
  <2>2. <<s, <<>>>> \in Item
    BY <2>1, StartTyped
  <2>3. vfCond' \in [DOMAIN vfCond' -> Condition] /\ DOMAIN vfCond' \subseteq Node
    BY <1>1 DEF SetCurSlice, NoConds
  <2>. QED BY <1>1, <2>1, <2>2, <2>3, SourceSinkAssumption DEF SetCurSlice
<1>2. ASSUME NEW i \in worklist, Forward(i) PROVE TypeOK'
  <2>1. i \in Item /\ i[1] \in Node
    BY DEF Item
  <2>2. PICK S \in SUBSET (Reached(i) \ visited) :
          visited' = visited \cup S /\ worklist' = (worklist \ {i}) \cup S
    BY <1>2 DEF Forward
  <2>3. S \subseteq Item
    BY <2>1, <2>2, ReachedTyped
  <2>4. reachGlob' \in BOOLEAN
    BY <1>2 DEF Forward, MeetsGlobal
  <2>. QED BY <1>2, <2>1, <2>2, <2>3, <2>4 DEF Forward
<1>3. ASSUME NEW i \in worklist, Backward(i) PROVE TypeOK'
  <2> DEFINE new == {e.src : e \in {e \in svfg.edges : e.dst = i[1]}} \ visitedSet
  <2>1. new \subseteq Node
    BY ProgramTypes DEF Edge
  <2>2. worklist' \subseteq Item
    <3>1. worklist' = (worklist \ {i}) \cup {<<m, <<>>>> : m \in new}
      BY <1>3 DEF Backward
    <3>2. \A m \in new : <<m, <<>>>> \in Item
      BY <2>1, StartTyped
    <3>. QED BY <3>1, <3>2
  <2>3. i[1] \in Node
    BY DEF Item
  <2>. QED BY <1>3, <2>1, <2>2, <2>3 DEF Backward
<1>4. CASE EndForward
  BY <1>4 DEF EndForward, slice
<1>5. ASSUME NEW k \in starts, StartBackward(k) PROVE TypeOK'
  <2>1. <<k, <<>>>> \in Item
    BY StartTyped
  <2>. QED BY <1>5, <2>1 DEF StartBackward, slice
<1>6. CASE StartGuards
  <2>1. source \in Node
    BY <1>6 DEF StartGuards
  <2>. QED BY <1>6, <2>1 DEF StartGuards, TrueCond, Condition
<1>7. ASSUME NEW n \in vfWorklist, ComputeGuards(n) PROVE TypeOK'
  <2> DEFINE succs == {e.dst : e \in Out(n)} \cap backward
  <2>1. succs \subseteq Node
    OBVIOUS
  <2>2. \A m : VFCond(m) \in Condition /\ VFCond(m) \cup Along(n, m) \in Condition
    BY VFCondTyped, AlongTyped DEF Condition
  <2>3. vfCond' = [m \in DOMAIN vfCond \cup succs |->
                     IF m \in succs THEN VFCond(m) \cup Along(n, m) ELSE VFCond(m)]
    BY <1>7 DEF ComputeGuards
  <2>4. vfCond' \in [DOMAIN vfCond' -> Condition] /\ DOMAIN vfCond' \subseteq Node
    BY <2>1, <2>2, <2>3
  <2>5. vfWorklist' \subseteq Node
    BY <1>7, <2>1 DEF ComputeGuards
  <2>. QED BY <1>7, <2>4, <2>5 DEF ComputeGuards
<1>8. CASE EndGuards
  BY <1>8 DEF EndGuards, slice
<1>9. CASE ReportBug
  <2>1. Bugs \subseteq {"never free", "partial leak", "double free"}
    BY DEF Bugs
  <2>2. source \in Node
    BY <1>9 DEF ReportBug
  <2>3. source' = source /\ pc' = "next"
    BY <1>9 DEF ReportBug
  <2>. QED BY <1>9, <2>1, <2>2, <2>3 DEF ReportBug, slice
<1>10. CASE Finished
  BY <1>10 DEF Finished, slice
<1>11. CASE UNCHANGED vars
  BY <1>11 DEF vars, slice
<1>. QED BY <1>1, <1>2, <1>3, <1>4, <1>5, <1>6, <1>7, <1>8, <1>9, <1>10, <1>11
         DEF Next, Terminated

-----------------------------------------------------------------------------
LEMMA UntouchedStep == TypeOK /\ Untouched /\ [Next]_vars => Untouched'
<1>. SUFFICES ASSUME TypeOK, Untouched, [Next]_vars PROVE Untouched'
  OBVIOUS
<1>. USE DEF Untouched
<1>1. CASE SetCurSlice
  BY <1>1 DEF SetCurSlice, NoConds
<1>2. ASSUME NEW i \in worklist, Forward(i) PROVE Untouched'
  BY <1>2 DEF Forward
<1>3. ASSUME NEW i \in worklist, Backward(i) PROVE Untouched'
  BY <1>3 DEF Backward
<1>4. CASE EndForward
  BY <1>4 DEF EndForward, slice
<1>5. ASSUME NEW k \in starts, StartBackward(k) PROVE Untouched'
  BY <1>5 DEF StartBackward, slice
<1>6. CASE StartGuards
  BY <1>6 DEF StartGuards
<1>7. ASSUME NEW n \in vfWorklist, ComputeGuards(n) PROVE Untouched'
  BY <1>7 DEF ComputeGuards
<1>8. CASE EndGuards
  BY <1>8 DEF EndGuards
<1>9. CASE ReportBug
  BY <1>9 DEF ReportBug
<1>10. CASE Finished
  BY <1>10 DEF Finished
<1>11. CASE UNCHANGED vars
  BY <1>11 DEF vars, slice
<1>. QED BY <1>1, <1>2, <1>3, <1>4, <1>5, <1>6, <1>7, <1>8, <1>9, <1>10, <1>11
         DEF Next, Terminated

LEMMA ReachedStable == svfg' = svfg /\ maxCxtLen' = maxCxtLen => \A i : Reached(i)' = Reached(i)
BY DEF Reached, Out, Contexts, PushContext, PopContext, MatchContext

LEMMA ForwardStep == SliceInv /\ [Next]_vars => ForwardClosed'
<1>. SUFFICES ASSUME SliceInv, [Next]_vars PROVE ForwardClosed'
  OBVIOUS
<1>0. TypeOK /\ ForwardClosed
  BY DEF SliceInv, SliceClosed, ForwardClosed
<1>1. CASE SetCurSlice
  BY <1>1 DEF SetCurSlice, ForwardClosed
<1>2. ASSUME NEW i \in worklist, Forward(i) PROVE ForwardClosed'
  <2>. SUFFICES ASSUME ~reachGlob', NEW j \in visited' \cup {<<source, <<>>>>}
                PROVE  j \in worklist' \/ (Reached(j) \subseteq visited' /\ j[1] \in forward')
    BY <1>2, ReachedStable DEF Forward, ForwardClosed
  <2>1. ~reachGlob /\ ~MeetsGlobal(i)
    BY <1>2 DEF Forward
  <2>2. /\ visited' = visited \cup (Reached(i) \ visited)
        /\ worklist' = (worklist \ {i}) \cup (Reached(i) \ visited)
        /\ forward' = forward \cup {i[1]}
    BY <1>2, <2>1 DEF Forward
  <2>3. pc = "forward"
    BY <1>2 DEF Forward
  <2>4. CASE j \in visited \cup {<<source, <<>>>>}
    BY <1>0, <2>1, <2>2, <2>3, <2>4 DEF ForwardClosed
  <2>5. CASE j \in Reached(i) \ visited
    BY <2>2, <2>5
  <2>. QED BY <2>2, <2>4, <2>5
<1>3. ASSUME NEW i \in worklist, Backward(i) PROVE ForwardClosed'
  BY <1>0, <1>3, ReachedStable DEF Backward, ForwardClosed
<1>4. CASE EndForward
  BY <1>0, <1>4, ReachedStable DEF EndForward, slice, ForwardClosed
<1>5. ASSUME NEW k \in starts, StartBackward(k) PROVE ForwardClosed'
  BY <1>0, <1>5, ReachedStable DEF StartBackward, slice, ForwardClosed
<1>6. CASE StartGuards
  BY <1>0, <1>6, ReachedStable DEF StartGuards, ForwardClosed
<1>7. ASSUME NEW n \in vfWorklist, ComputeGuards(n) PROVE ForwardClosed'
  BY <1>0, <1>7, ReachedStable DEF ComputeGuards, ForwardClosed
<1>8. CASE EndGuards
  BY <1>8 DEF EndGuards, ForwardClosed
<1>9. CASE ReportBug
  BY <1>9 DEF ReportBug, ForwardClosed
<1>10. CASE Finished
  BY <1>10 DEF Finished, ForwardClosed
<1>11. CASE UNCHANGED vars
  BY <1>0, <1>11, ReachedStable DEF vars, slice, ForwardClosed
<1>. QED BY <1>1, <1>2, <1>3, <1>4, <1>5, <1>6, <1>7, <1>8, <1>9, <1>10, <1>11
         DEF Next, Terminated

LEMMA BackwardStep == SliceInv /\ [Next]_vars => BackwardClosed'
<1>. SUFFICES ASSUME SliceInv, [Next]_vars PROVE BackwardClosed'
  OBVIOUS
<1>0. TypeOK /\ Untouched /\ BackwardClosed
  BY DEF SliceInv, SliceClosed, BackwardClosed
<1>1. CASE SetCurSlice
  BY <1>1 DEF SetCurSlice, BackwardClosed
<1>2. ASSUME NEW i \in worklist, Forward(i) PROVE BackwardClosed'
  BY <1>2 DEF Forward, BackwardClosed
<1>3. ASSUME NEW i \in worklist, Backward(i) PROVE BackwardClosed'
  <2> DEFINE new == {e.src : e \in {e \in svfg.edges : e.dst = i[1]}} \ visitedSet
  <2>0. /\ pc = "backward" /\ pc' = pc /\ svfg' = svfg /\ forward' = forward
        /\ sinks' = sinks /\ starts' = starts
        /\ backward' = backward \cup ({i[1]} \cap forward)
        /\ visitedSet' = visitedSet \cup new
        /\ worklist' = (worklist \ {i}) \cup {<<m, <<>>>> : m \in new}
    BY <1>3 DEF Backward
  <2>. SUFFICES ASSUME NEW n \in visitedSet' \cup (sinks \ starts)
                PROVE  \/ <<n, <<>>>> \in worklist'
                       \/ /\ n \in forward => n \in backward'
                          /\ \A e \in svfg.edges : e.dst = n => e.src \in visitedSet'
    BY <2>0 DEF BackwardClosed
  <2>1. CASE n \in new
    BY <2>0, <2>1
  <2>2. CASE n \notin new /\ <<n, <<>>>> \in worklist /\ <<n, <<>>>> # i
    BY <2>0, <2>2
  <2>3. CASE <<n, <<>>>> = i
    <3>1. i[1] = n
      BY <2>3
    <3>. QED BY <2>0, <3>1
  <2>4. CASE n \notin new /\ <<n, <<>>>> \notin worklist
    <3>1. n \in visitedSet \cup (sinks \ starts)
      BY <2>0, <2>4
    <3>2. /\ n \in forward => n \in backward
          /\ \A e \in svfg.edges : e.dst = n => e.src \in visitedSet
      BY <1>0, <2>0, <2>4, <3>1 DEF BackwardClosed
    <3>. QED BY <2>0, <3>2
  <2>. QED BY <2>1, <2>2, <2>3, <2>4
<1>4. CASE EndForward
  BY <1>0, <1>4 DEF EndForward, slice, Untouched, BackwardClosed
<1>5. ASSUME NEW k \in starts, StartBackward(k) PROVE BackwardClosed'
  BY <1>0, <1>5 DEF StartBackward, slice, BackwardClosed
<1>6. CASE StartGuards
  BY <1>0, <1>6 DEF StartGuards, BackwardClosed
<1>7. ASSUME NEW n \in vfWorklist, ComputeGuards(n) PROVE BackwardClosed'
  BY <1>0, <1>7 DEF ComputeGuards, BackwardClosed
<1>8. CASE EndGuards
  BY <1>8 DEF EndGuards, BackwardClosed
<1>9. CASE ReportBug
  BY <1>9 DEF ReportBug, BackwardClosed
<1>10. CASE Finished
  BY <1>10 DEF Finished, BackwardClosed
<1>11. CASE UNCHANGED vars
  BY <1>0, <1>11 DEF vars, slice, BackwardClosed
<1>. QED BY <1>1, <1>2, <1>3, <1>4, <1>5, <1>6, <1>7, <1>8, <1>9, <1>10, <1>11
         DEF Next, Terminated

LEMMA GuardsStep == SliceInv /\ [Next]_vars => GuardsClosed'
<1>. SUFFICES ASSUME SliceInv, [Next]_vars PROVE GuardsClosed'
  OBVIOUS
<1>0. TypeOK /\ Untouched /\ GuardsClosed
  BY DEF SliceInv, SliceClosed, GuardsClosed
<1>1. CASE SetCurSlice
  BY <1>1 DEF SetCurSlice, GuardsClosed
<1>2. ASSUME NEW i \in worklist, Forward(i) PROVE GuardsClosed'
  BY <1>2 DEF Forward, GuardsClosed
<1>3. ASSUME NEW i \in worklist, Backward(i) PROVE GuardsClosed'
  BY <1>3 DEF Backward, GuardsClosed
<1>4. CASE EndForward
  <2>1. backward' = {}
    BY <1>0, <1>4 DEF EndForward, slice, Untouched
  <2>. QED BY <2>1 DEF GuardsClosed
<1>5. ASSUME NEW k \in starts, StartBackward(k) PROVE GuardsClosed'
  BY <1>5 DEF StartBackward, GuardsClosed
<1>6. CASE StartGuards
  <2>1. \A n : n # source => VFCond(n)' = {}
    BY <1>6 DEF StartGuards, VFCond, FalseCond
  <2>2. svfg' = svfg /\ vfWorklist' = {source}
    BY <1>6 DEF StartGuards
  <2>. QED BY <2>1, <2>2 DEF GuardsClosed
<1>7. ASSUME NEW n \in vfWorklist, ComputeGuards(n) PROVE GuardsClosed'
  <2> DEFINE succs == {e.dst : e \in Out(n)} \cap backward
             grown(m) == IF m \in succs THEN VFCond(m) \cup Along(n, m) ELSE VFCond(m)
  <2>0. /\ pc = "guard" /\ svfg' = svfg /\ backward' = backward
        /\ vfCond' = [m \in DOMAIN vfCond \cup succs |-> grown(m)]
        /\ vfWorklist' = (vfWorklist \ {n})
             \cup {m \in succs : m \notin DOMAIN vfCond \/ VFCond(m) # vfCond'[m]}
    BY <1>7 DEF ComputeGuards
  <2>1. \A m : VFCond(m)' = grown(m)
    BY <2>0 DEF VFCond
  <2>2. \A m : m \in vfWorklist' \/ VFCond(m)' = VFCond(m)
    BY <2>0, <2>1
  <2>. SUFFICES ASSUME NEW e \in svfg.edges, e.src \notin vfWorklist', e.dst \in backward
                PROVE  VFCond(e.src)' \cap e.guard \subseteq VFCond(e.dst)'
    BY <2>0 DEF GuardsClosed
  <2>3. VFCond(e.src)' = VFCond(e.src)
    BY <2>2
  <2>4. CASE e.src = n
    <3>1. e \in Out(n) /\ e.dst \in succs
      BY <2>4 DEF Out
    <3>2. VFCond(n) \cap e.guard \subseteq Along(n, e.dst)
      BY <3>1 DEF Along
    <3>. QED BY <2>1, <2>3, <2>4, <3>1, <3>2
  <2>5. CASE e.src # n
    <3>1. e.src \notin vfWorklist
      BY <2>0, <2>5
    <3>2. VFCond(e.src) \cap e.guard \subseteq VFCond(e.dst)
      BY <1>0, <2>0, <3>1 DEF GuardsClosed
    <3>. QED BY <2>1, <2>3, <3>2
  <2>. QED BY <2>4, <2>5
<1>8. CASE EndGuards
  BY <1>0, <1>8 DEF EndGuards, slice, GuardsClosed, VFCond
<1>9. CASE ReportBug
  BY <1>9 DEF ReportBug, GuardsClosed
<1>10. CASE Finished
  BY <1>10 DEF Finished, GuardsClosed
<1>11. CASE UNCHANGED vars
  BY <1>0, <1>11 DEF vars, slice, GuardsClosed, VFCond
<1>. QED BY <1>1, <1>2, <1>3, <1>4, <1>5, <1>6, <1>7, <1>8, <1>9, <1>10, <1>11
         DEF Next, Terminated

LEMMA InvStep == SliceInv /\ [Next]_vars => SliceInv'
<1>. SUFFICES ASSUME SliceInv, [Next]_vars PROVE SliceInv'
  OBVIOUS
<1>1. TypeOK' /\ Untouched'
  BY TypeStep, UntouchedStep DEF SliceInv
<1>2. SliceClosed'
  BY ForwardStep, BackwardStep, GuardsStep
     DEF SliceClosed, ForwardClosed, BackwardClosed, GuardsClosed
<1>. QED BY <1>1, <1>2 DEF SliceInv

-----------------------------------------------------------------------------
(* The analysis of the slices stays within its types: contexts are strings *)
(* of call sites, conditions are conditions.                               *)
THEOREM SliceTypeCorrect == Spec => []TypeOK
<1>1. SliceInv => TypeOK
  BY DEF SliceInv
<1>. QED BY <1>1, InitInv, InvStep, PTL DEF Spec

(* Nothing visited is left unfollowed and no condition unpropagated, by    *)
(* FWProcessOutgoingEdge, BWProcessIncomingEdge and AllPathReachableSolve, *)
(* whatever the graph and the limit of contexts.                           *)
THEOREM SliceNothingSkipped == Spec => []SliceClosed
<1>1. SliceInv => SliceClosed
  BY DEF SliceInv
<1>. QED BY <1>1, InitInv, InvStep, PTL DEF Spec

-----------------------------------------------------------------------------
(* What a checker may rely on when it reports: unless a global is reached, *)
(* every sink is in the backward slice, so is all of the forward slice     *)
(* that leads there, the source is reached under any condition, and the    *)
(* condition of a node includes what each edge into it contributes.        *)
ReportedComplete ==
  pc = "report" /\ ~reachGlob =>
    /\ sinks \subseteq backward
    /\ \A e \in svfg.edges :
         e.dst \in backward =>
           /\ e.src \in forward => e.src \in backward
           /\ VFCond(e.src) \cap e.guard \subseteq VFCond(e.dst)
    /\ VFCond(source) = TrueCond

(* Backward traversal sees only sinks and what it has visited.             *)
Seen == visitedSet \cup (sinks \ starts)

ReportInv ==
  /\ sinks \subseteq forward
  /\ pc = "backward" => /\ starts \subseteq sinks
                        /\ backward \subseteq Seen
                        /\ \A i \in worklist : i[1] \in Seen
  /\ pc = "guard" => /\ worklist = {} /\ starts = {}
                     /\ backward \subseteq Seen
                     /\ VFCond(source) = TrueCond
  /\ ReportedComplete

LEMMA ReportStep == SliceInv /\ ReportInv /\ [Next]_vars => ReportInv'
<1>. SUFFICES ASSUME SliceInv, ReportInv, [Next]_vars PROVE ReportInv'
  OBVIOUS
<1>0. TypeOK /\ Untouched /\ SliceClosed
  BY DEF SliceInv
<1>. USE DEF ReportInv
<1>1. CASE SetCurSlice
  BY <1>1 DEF SetCurSlice, ReportedComplete
<1>2. ASSUME NEW i \in worklist, Forward(i) PROVE ReportInv'
  BY <1>2 DEF Forward, ReportedComplete
<1>3. ASSUME NEW i \in worklist, Backward(i) PROVE ReportInv'
  <2> DEFINE new == {e.src : e \in {e \in svfg.edges : e.dst = i[1]}} \ visitedSet
  <2>1. /\ pc = "backward" /\ pc' = pc /\ forward' = forward
        /\ sinks' = sinks /\ starts' = starts
        /\ backward' = backward \cup ({i[1]} \cap forward)
        /\ visitedSet' = visitedSet \cup new
        /\ worklist' = (worklist \ {i}) \cup {<<m, <<>>>> : m \in new}
    BY <1>3 DEF Backward
  <2>2. Seen' = Seen \cup new
    BY <2>1 DEF Seen
  <2>3. backward' \subseteq Seen'
    BY <2>1, <2>2
  <2>4. \A j \in worklist' : j[1] \in Seen'
    BY <2>1, <2>2
  <2>. QED BY <2>1, <2>3, <2>4 DEF ReportedComplete
<1>4. CASE EndForward
  <2>1. backward' = {} /\ worklist' = {}
    BY <1>0, <1>4 DEF EndForward, slice, Untouched
  <2>. QED BY <1>4, <2>1 DEF EndForward, slice, ReportedComplete
<1>5. ASSUME NEW k \in starts, StartBackward(k) PROVE ReportInv'
  <2>1. /\ pc = "backward" /\ pc' = pc /\ starts' = starts \ {k}
        /\ worklist' = {<<k, <<>>>>}
        /\ backward' = backward /\ sinks' = sinks /\ forward' = forward
        /\ visitedSet' = visitedSet
    BY <1>5 DEF StartBackward, slice
  <2>2. Seen' = Seen \cup {k}
    BY <2>1 DEF Seen
  <2>. QED BY <2>1, <2>2 DEF ReportedComplete
<1>6. CASE StartGuards
  <2>1. VFCond(source)' = TrueCond
    BY <1>6 DEF StartGuards, VFCond
  <2>. QED BY <1>6, <2>1 DEF StartGuards, Seen, ReportedComplete
<1>7. ASSUME NEW n \in vfWorklist, ComputeGuards(n) PROVE ReportInv'
  <2> DEFINE succs == {e.dst : e \in Out(n)} \cap backward
  <2>1. /\ pc = "guard" /\ pc' = pc /\ source' = source
        /\ vfCond' = [m \in DOMAIN vfCond \cup succs |->
                        IF m \in succs THEN VFCond(m) \cup Along(n, m) ELSE VFCond(m)]
    BY <1>7 DEF ComputeGuards
  <2>2. VFCond(source)' \in {VFCond(source), VFCond(source) \cup Along(n, source)}
    BY <2>1 DEF VFCond
  <2>3. VFCond(source)' = TrueCond
    BY <1>0, <2>1, <2>2, AlongTyped DEF TrueCond, Condition
  <2>. QED BY <1>7, <2>3 DEF ComputeGuards, Seen, ReportedComplete
<1>8. CASE EndGuards
  <2>1. /\ pc = "guard" /\ vfWorklist = {}
        /\ UNCHANGED <<svfg, source, worklist, visitedSet, slice, starts>>
    BY <1>8 DEF EndGuards
  <2>2. \A n \in Seen : /\ n \in forward => n \in backward
                        /\ \A e \in svfg.edges : e.dst = n => e.src \in Seen
    BY <1>0, <2>1 DEF SliceClosed, Seen
  <2>3. sinks \subseteq backward
    BY <2>1, <2>2 DEF Seen
  <2>4. \A e \in svfg.edges :
          e.dst \in backward =>
            /\ e.src \in forward => e.src \in backward
            /\ VFCond(e.src) \cap e.guard \subseteq VFCond(e.dst)
    BY <1>0, <2>1, <2>2 DEF SliceClosed
  <2>5. ReportedComplete'
    BY <2>1, <2>3, <2>4 DEF ReportedComplete, slice, VFCond
  <2>. QED BY <1>8, <2>5 DEF EndGuards, slice
<1>9. CASE ReportBug
  BY <1>9 DEF ReportBug, slice, ReportedComplete
<1>10. CASE Finished
  BY <1>10 DEF Finished, slice, ReportedComplete
<1>11. CASE UNCHANGED vars
  BY <1>11 DEF vars, slice, ReportedComplete, Seen, VFCond
<1>. QED BY <1>1, <1>2, <1>3, <1>4, <1>5, <1>6, <1>7, <1>8, <1>9, <1>10, <1>11
         DEF Next, Terminated

(* The slice and the conditions that reportBug judges are complete.        *)
THEOREM ReportsComplete == Spec => []ReportedComplete
<1>1. Init => ReportInv
  BY DEF Init, ReportInv, ReportedComplete
<1>2. ReportInv => ReportedComplete
  BY DEF ReportInv
<1>. QED BY <1>1, <1>2, InitInv, InvStep, ReportStep, PTL DEF Spec
-----------------------------------------------------------------------------
(* Induction on stages: a set of numbers that is not empty has a least     *)
(* element, the order of the numbers being well-founded.                   *)
LEMMA Smallest ==
  ASSUME NEW S \in SUBSET Nat, S # {}
  PROVE  \E k \in S : \A l \in S : k <= l
<1> DEFINE R == {ss \in Nat \X Nat : ss[1] < ss[2]}
<1>1. IsWellFoundedOn(R, Nat)
  BY NatLessThanWellFounded DEF OpToRel
<1>2. \A l, k \in Nat : l < k => <<l, k>> \in R
  OBVIOUS
<1>. HIDE DEF R
<1>3. PICK k \in S : \A l \in S : <<l, k>> \notin R
  BY <1>1, WFMin
<1>4. \A l \in S : ~(l < k)
  BY <1>2, <1>3
<1>. QED BY <1>4

(* Paths.  The stages are looked at one after the other: what holds of the *)
(* source and is kept by every edge holds of all paths.                    *)
LEMMA StagesTyped ==
  ASSUME svfg \in Programs, NEW matched \in BOOLEAN, NEW s \in Sources(svfg)
  PROVE  LET stages == Stages(svfg, matched, s)
         IN  /\ stages \in Seq(SUBSET Path)
             /\ Len(stages) \in Nat \ {0}
             /\ stages[1] = {<<s, <<>>, TrueCond>>}
             /\ \A k \in 2..Len(stages) :
                  stages[k] = stages[k - 1]
                                \cup UNION {Extend(svfg, matched, t) : t \in stages[k - 1]}
             /\ \A t \in stages[Len(stages)] :
                  Extend(svfg, matched, t) \subseteq stages[Len(stages)]
<1> DEFINE stages == Stages(svfg, matched, s)
<1>1. /\ stages \in Seq(SUBSET Path)
      /\ Len(stages) > 0
      /\ stages[1] = {<<s, <<>>, TrueCond>>}
      /\ \A k \in 2..Len(stages) :
           stages[k] = stages[k - 1]
                         \cup UNION {Extend(svfg, matched, t) : t \in stages[k - 1]}
      /\ UNION {Extend(svfg, matched, t) : t \in stages[Len(stages)]}
           \subseteq stages[Len(stages)]
  BY PathsAssumption
<1>2. Len(stages) \in Nat \ {0}
  BY <1>1
<1>. QED BY <1>1, <1>2

LEMMA PathsWithin ==
  ASSUME svfg \in Programs, NEW matched \in BOOLEAN, NEW s \in Sources(svfg),
         NEW X, <<s, <<>>, TrueCond>> \in X,
         \A t \in X : Extend(svfg, matched, t) \subseteq X
  PROVE  Paths(svfg, matched, s) \subseteq X
<1> DEFINE stages == Stages(svfg, matched, s)
           outside == {k \in 1..Len(stages) : ~(stages[k] \subseteq X)}
<1>1. /\ Len(stages) \in Nat \ {0}
      /\ stages[1] = {<<s, <<>>, TrueCond>>}
      /\ \A k \in 2..Len(stages) :
           stages[k] = stages[k - 1]
                         \cup UNION {Extend(svfg, matched, t) : t \in stages[k - 1]}
  BY StagesTyped
<1>. HIDE DEF stages
<1>2. ASSUME outside # {} PROVE FALSE
  <2>1. outside \subseteq Nat
    BY <1>1
  <2>2. PICK k \in outside : \A l \in outside : k <= l
    BY <1>2, <2>1, Smallest
  <2>3. k # 1
    BY <1>1
  <2>4. k \in 2..Len(stages) /\ k - 1 \in 1..Len(stages)
    BY <1>1, <2>3
  <2>5. stages[k - 1] \subseteq X
    BY <2>2, <2>4
  <2>6. stages[k] \subseteq X
    BY <1>1, <2>4, <2>5
  <2>. QED BY <2>6
<1>3. stages[Len(stages)] \subseteq X
  BY <1>1, <1>2
<1>. QED BY <1>3 DEF Paths, stages

LEMMA PathsClosed ==
  ASSUME svfg \in Programs, NEW matched \in BOOLEAN, NEW s \in Sources(svfg)
  PROVE  /\ Paths(svfg, matched, s) \subseteq Path
         /\ <<s, <<>>, TrueCond>> \in Paths(svfg, matched, s)
         /\ \A t \in Paths(svfg, matched, s) :
              Extend(svfg, matched, t) \subseteq Paths(svfg, matched, s)
<1> DEFINE stages == Stages(svfg, matched, s)
           start == <<s, <<>>, TrueCond>>
           without == {k \in 1..Len(stages) : start \notin stages[k]}
<1>1. /\ stages \in Seq(SUBSET Path)
      /\ Len(stages) \in Nat \ {0}
      /\ stages[1] = {start}
      /\ \A k \in 2..Len(stages) :
           stages[k] = stages[k - 1]
                         \cup UNION {Extend(svfg, matched, t) : t \in stages[k - 1]}
      /\ \A t \in stages[Len(stages)] :
           Extend(svfg, matched, t) \subseteq stages[Len(stages)]
  BY StagesTyped
<1>2. Paths(svfg, matched, s) = stages[Len(stages)]
  BY DEF Paths
<1>. HIDE DEF stages, start
<1>3. stages[Len(stages)] \subseteq Path
  BY <1>1
<1>4. ASSUME without # {} PROVE FALSE
  <2>1. without \subseteq Nat
    BY <1>1
  <2>2. PICK k \in without : \A l \in without : k <= l
    BY <1>4, <2>1, Smallest
  <2>3. k # 1
    BY <1>1
  <2>4. k \in 2..Len(stages) /\ k - 1 \in 1..Len(stages)
    BY <1>1, <2>3
  <2>5. start \in stages[k - 1]
    BY <2>2, <2>4
  <2>. QED BY <1>1, <2>4, <2>5
<1>5. start \in stages[Len(stages)]
  BY <1>1, <1>4
<1>. QED BY <1>1, <1>2, <1>3, <1>5 DEF start

LEMMA SourcesNotGlobal ==
  ASSUME svfg \in Programs, NEW s \in Sources(svfg)
  PROVE  s \in Node /\ s \notin svfg.globals
<1>1. PICK c \in Allocating(svfg) : s = svfg.result[c]
  BY DEF Sources
<1>2. c \in Site
  BY DEF Allocating
<1>. QED BY <1>1, <1>2, ProgramTypes, SourceSinkAssumption

(* What an edge makes of a path.                                           *)
Opened(matched, u, e) ==
  CASE ~matched \/ e.kind = "intra" -> u
    [] matched /\ e.kind = "call" -> Append(u, e.site)
    [] matched /\ e.kind = "ret" -> PopContext(u)

LEMMA EdgeTyped ==
  ASSUME svfg \in Programs, NEW e \in svfg.edges
  PROVE  /\ e.src \in Node /\ e.dst \in Node /\ e.site \in Site
         /\ e.kind \in {"intra", "call", "ret"} /\ e.guard \in Condition
BY ProgramTypes DEF Edge

LEMMA Extended ==
  ASSUME svfg \in Programs, NEW matched \in BOOLEAN, NEW t \in Path,
         NEW r \in Extend(svfg, matched, t)
  PROVE  /\ r \in Path
         /\ \E e \in svfg.edges :
              /\ e.src = t[1] /\ r[1] = e.dst /\ r[3] = t[3] \cap e.guard
              /\ r[2] = Opened(matched, t[2], e)
              /\ matched /\ e.kind = "ret" => MatchContext(t[2], e.site)
<1>1. PICK e \in svfg.edges :
        /\ e.src = t[1]
        /\ matched /\ e.kind = "ret" => MatchContext(t[2], e.site)
        /\ r = <<e.dst, Opened(matched, t[2], e), t[3] \cap e.guard>>
  BY DEF Extend, Opened
<1>2. t[2] \in Seq(Site) /\ t[3] \in Condition
  BY DEF Path, Context
<1>3. Append(t[2], e.site) \in Seq(Site) /\ PopContext(t[2]) \in Seq(Site)
  BY <1>2, EdgeTyped DEF PopContext
<1>4. Opened(matched, t[2], e) \in Context
  BY <1>2, <1>3, EdgeTyped DEF Opened, Context
<1>5. t[3] \cap e.guard \in Condition
  BY <1>2 DEF Condition
<1>. QED BY <1>1, <1>4, <1>5, EdgeTyped DEF Path

(* Unmatched paths follow every edge.                                      *)
LEMMA Unmatched ==
  ASSUME svfg \in Programs, NEW t \in Path, NEW e \in svfg.edges, e.src = t[1]
  PROVE  <<e.dst, t[2], t[3] \cap e.guard>> \in Extend(svfg, FALSE, t)
<1>1. Opened(FALSE, t[2], e) = t[2]
  BY DEF Opened
<1>2. Extend(svfg, FALSE, t) =
        {<<d.dst, Opened(FALSE, t[2], d), t[3] \cap d.guard>> :
           d \in {d \in svfg.edges : d.src = t[1]}}
  BY DEF Extend, Opened
<1>. QED BY <1>1, <1>2

-----------------------------------------------------------------------------
(* A context that was cut is the end of the call string that was not.      *)
Suffix(c, u) == /\ Len(c) <= Len(u)
                /\ \A i \in 1..Len(c) : c[i] = u[i + (Len(u) - Len(c))]

LEMMA AppendSuffix ==
  ASSUME NEW c \in Context, NEW u \in Context, NEW s \in Site, Suffix(c, u)
  PROVE  Suffix(Append(c, s), Append(u, s))
<1>0. c \in Seq(Site) /\ u \in Seq(Site)
  BY DEF Context
<1>1. \A w \in Seq(Site) : /\ Len(Append(w, s)) = Len(w) + 1
                           /\ Append(w, s)[Len(w) + 1] = s
                           /\ \A i \in 1..Len(w) : Append(w, s)[i] = w[i]
  OBVIOUS
<1>2. Len(c) \in Nat /\ Len(u) \in Nat /\ Len(c) <= Len(u)
  BY <1>0 DEF Suffix
<1>3. Len(Append(c, s)) = Len(c) + 1 /\ Len(Append(u, s)) = Len(u) + 1
  BY <1>0, <1>1
<1>4. ASSUME NEW i \in 1..Len(c) + 1
      PROVE  Append(c, s)[i] = Append(u, s)[i + (Len(u) - Len(c))]
  <2>1. CASE i = Len(c) + 1
    <3>1. i + (Len(u) - Len(c)) = Len(u) + 1
      BY <1>2, <2>1
    <3>. QED BY <1>0, <1>1, <2>1, <3>1
  <2>2. CASE i \in 1..Len(c)
    <3>1. i + (Len(u) - Len(c)) \in 1..Len(u)
      BY <1>2, <2>2
    <3>. QED BY <1>0, <1>1, <2>2, <3>1 DEF Suffix
  <2>. QED BY <1>2, <2>1, <2>2
<1>5. Len(Append(c, s)) - 0 <= Len(Append(u, s)) /\ (Len(u) + 1) - (Len(c) + 1) = Len(u) - Len(c)
  BY <1>2, <1>3
<1> DEFINE cs == Append(c, s)
           us == Append(u, s)
<1>6. /\ Len(cs) = Len(c) + 1 /\ Len(us) = Len(u) + 1
      /\ \A i \in 1..Len(c) + 1 : cs[i] = us[i + (Len(u) - Len(c))]
  BY <1>3, <1>4
<1>. HIDE DEF cs, us
<1>7. Suffix(cs, us)
  BY <1>2, <1>5, <1>6 DEF Suffix
<1>. QED BY <1>7 DEF cs, us

LEMMA SuffixStep ==
  ASSUME svfg \in Programs, maxCxtLen \in Nat, NEW e \in svfg.edges,
         NEW c \in Context, NEW u \in Context, Suffix(c, u),
         e.kind = "ret" => MatchContext(u, e.site)
  PROVE  \E d \in Contexts(c, e) : d \in Context /\ Suffix(d, Opened(TRUE, u, e))
<1>0. c \in Seq(Site) /\ u \in Seq(Site) /\ e.site \in Site
  BY EdgeTyped DEF Context
<1>1. CASE e.kind = "intra"
  BY <1>1 DEF Contexts, Opened
<1>2. CASE e.kind = "call"
  <2>1. Opened(TRUE, u, e) = Append(u, e.site)
    BY <1>2 DEF Opened
  <2>2. PushContext(c, e.site) \in Seq(Site)
    BY <1>0 DEF PushContext
  <2>3. Suffix(PushContext(c, e.site), Append(u, e.site))
    <3>1. CASE Len(c) < maxCxtLen
      <4>1. PushContext(c, e.site) = Append(c, e.site)
        BY <3>1 DEF PushContext
      <4>. QED BY <1>0, <4>1, AppendSuffix DEF Context
    <3>2. CASE Len(c) >= maxCxtLen /\ c = <<>>
      BY <1>0, <3>2 DEF PushContext, Suffix
    <3>3. CASE Len(c) >= maxCxtLen /\ c # <<>>
      <4>1. PushContext(c, e.site) = Append(Tail(c), e.site)
        BY <1>0, <3>3 DEF PushContext
      <4>2. Len(Tail(c)) = Len(c) - 1 /\ Tail(c) \in Seq(Site)
        BY <1>0, <3>3
      <4>3. \A i \in 1..Len(c) - 1 : Tail(c)[i] = c[i + 1]
        BY <1>0, <3>3
      <4>4. Suffix(Tail(c), u)
        BY <1>0, <4>2, <4>3 DEF Suffix
      <4>. QED BY <1>0, <4>1, <4>2, <4>4, AppendSuffix DEF Context
    <3>. QED BY <1>0, <3>1, <3>2, <3>3
  <2>. QED BY <1>2, <2>1, <2>2, <2>3 DEF Contexts, Context
<1>3. CASE e.kind = "ret"
  <2>1. Opened(TRUE, u, e) = PopContext(u)
    BY <1>3 DEF Opened
  <2>2. MatchContext(c, e.site)
    BY <1>0, <1>3 DEF MatchContext, Suffix
  <2>3. Contexts(c, e) = {PopContext(c)}
    BY <1>3, <2>2 DEF Contexts
  <2>4. PopContext(c) \in Seq(Site)
    BY <1>0 DEF PopContext
  <2>5. Suffix(PopContext(c), PopContext(u))
    <3>1. CASE c = <<>>
      BY <1>0, <2>4, <3>1 DEF PopContext, Suffix
    <3>2. CASE c # <<>>
      <4>1. Len(c) > 0 /\ u # <<>>
        BY <1>0, <3>2 DEF Suffix
      <4>2. /\ PopContext(c) = SubSeq(c, 1, Len(c) - 1)
            /\ PopContext(u) = SubSeq(u, 1, Len(u) - 1)
        BY <3>2, <4>1 DEF PopContext
      <4>3. ASSUME NEW w \in Seq(Site), Len(w) > 0
            PROVE  /\ Len(SubSeq(w, 1, Len(w) - 1)) = Len(w) - 1
                   /\ \A i \in 1..Len(w) - 1 : SubSeq(w, 1, Len(w) - 1)[i] = w[i]
        <5>1. 1 \in Int /\ Len(w) - 1 \in Int /\ Len(w) \in Nat
          BY <4>3
        <5>2. \A i \in 1..Len(w) - 1 : w[i] \in Site
          BY <4>3
        <5> DEFINE n == Len(w) - 1
                   v == SubSeq(w, 1, n)
        <5>3. n \in Nat
          BY <4>3
        <5>4. \A i \in 1..n : w[i] \in Site
          BY <5>2
        <5>. HIDE DEF n
        <5>5. /\ Len(v) = IF 1 <= n THEN n - 1 + 1 ELSE 0
              /\ \A i \in 1..n - 1 + 1 : v[i] = w[1 + i - 1]
          BY <5>1, <5>3, <5>4, SubSeqProperties
        <5>. HIDE DEF v
        <5>6. Len(v) = n
          BY <5>3, <5>5
        <5>7. ASSUME NEW i \in 1..n PROVE v[i] = w[i]
          <6>1. i \in 1..n - 1 + 1 /\ 1 + i - 1 = i
            BY <5>3
          <6>. QED BY <5>5, <6>1
        <5>. QED BY <5>6, <5>7 DEF n, v
      <4>4. Len(c) \in Nat /\ Len(u) \in Nat /\ Len(c) <= Len(u)
        BY <1>0 DEF Suffix
      <4>5. /\ Len(PopContext(c)) = Len(c) - 1
            /\ \A i \in 1..Len(c) - 1 : PopContext(c)[i] = c[i]
        BY <1>0, <4>1, <4>2, <4>3
      <4>6. /\ Len(PopContext(u)) = Len(u) - 1
            /\ \A i \in 1..Len(u) - 1 : PopContext(u)[i] = u[i]
        BY <1>0, <4>1, <4>2, <4>3, <4>4
      <4>7. ASSUME NEW i \in 1..Len(c) - 1
            PROVE  PopContext(c)[i] = PopContext(u)[i + (Len(u) - Len(c))]
        <5>1. i + (Len(u) - Len(c)) \in 1..Len(u) - 1 /\ i \in 1..Len(c)
          BY <4>4, <4>7
        <5>. QED BY <4>5, <4>6, <5>1 DEF Suffix
      <4>. QED BY <4>1, <4>4, <4>5, <4>6, <4>7 DEF Suffix
    <3>. QED BY <3>1, <3>2
  <2>. QED BY <2>1, <2>3, <2>4, <2>5 DEF Context
<1>. QED BY <1>1, <1>2, <1>3, EdgeTyped
-----------------------------------------------------------------------------
(* What reports and silence rest on.  Unless a global is met, what was     *)
(* visited has been followed and led to none; every node met lies on an    *)
(* unmatched path, under no more conditions than the paths are taken.      *)
Started == pc \notin {"next", "done"}

Followed ==
  pc \in {"forward", "backward", "guard", "report"} /\ ~reachGlob =>
    \A i \in visited \cup {<<source, <<>>>>} :
      \/ pc = "forward" /\ i \in worklist
      \/ Reached(i) \subseteq visited /\ i[1] \in forward /\ ~MeetsGlobal(i)

Walked == Paths(svfg, FALSE, source)

Derived ==
  /\ pc = "forward" => \A i \in worklist : \E t \in Walked : t[1] = i[1]
  /\ Started => /\ reachGlob => Meets(Walked, svfg.globals)
                /\ \A n \in Node : VFCond(n) \subseteq Under(Walked, {n})

JudgeInv ==
  /\ todo \subseteq Sources(svfg)
  /\ Started => source \in Sources(svfg)
  /\ pc = "done" => todo = {}
  /\ sinks = forward \cap svfg.sinks
  /\ Followed
  /\ Derived
  /\ \A s \in Sources(svfg) : s \in todo \/ (Started /\ s = source) \/ Silent(s)
  /\ ReportsJustified

-----------------------------------------------------------------------------
(* Matched paths stay in the slice, if it was judged without a global.     *)
LEMMA MatchedPaths ==
  ASSUME SliceInv, ReportInv, JudgeInv, pc = "report", ~reachGlob,
         NEW t \in Paths(svfg, TRUE, source)
  PROVE  /\ t[1] \in forward /\ t[1] \notin svfg.globals
         /\ t[1] \in backward => t[3] \subseteq VFCond(t[1])
         /\ t[3] \subseteq Valuation
<1> DEFINE follows(r) == \E c \in Context : /\ <<r[1], c>> \in visited \cup {<<source, <<>>>>}
                                           /\ Suffix(c, r[2])
           X == {r \in Path : /\ follows(r)
                              /\ r[1] \in forward /\ r[1] \notin svfg.globals
                              /\ r[1] \in backward => r[3] \subseteq VFCond(r[1])}
<1>0. /\ svfg \in Programs /\ source \in Sources(svfg) /\ TypeOK
      /\ maxCxtLen \in Nat
  BY SourceSinkAssumption DEF SliceInv, TypeOK, JudgeInv, Started
<1>1. \A i \in visited \cup {<<source, <<>>>>} :
        Reached(i) \subseteq visited /\ i[1] \in forward /\ ~MeetsGlobal(i)
  BY DEF JudgeInv, Followed
<1>2. /\ \A e \in svfg.edges :
           e.dst \in backward =>
             /\ e.src \in forward => e.src \in backward
             /\ VFCond(e.src) \cap e.guard \subseteq VFCond(e.dst)
      /\ VFCond(source) = TrueCond
  BY DEF ReportInv, ReportedComplete
<1>3. <<source, <<>>, TrueCond>> \in X
  <2>1. source \in Node /\ source \notin svfg.globals /\ <<>> \in Context
    BY <1>0, SourcesNotGlobal DEF Context
  <2>2. Suffix(<<>>, <<>>)
    BY DEF Suffix
  <2>3. source \in forward
    <3> DEFINE i == <<source, <<>>>>
    <3>1. i \in visited \cup {<<source, <<>>>>} /\ i[1] = source
      OBVIOUS
    <3>. HIDE DEF i
    <3>. QED BY <1>1, <3>1
  <2>4. <<source, <<>>, TrueCond>> \in Path
    BY <2>1 DEF Path, TrueCond, Condition
  <2>5. follows(<<source, <<>>, TrueCond>>)
    BY <2>1, <2>2
  <2>. QED BY <1>2, <2>1, <2>3, <2>4, <2>5
<1>4. ASSUME NEW q \in X, NEW r \in Extend(svfg, TRUE, q) PROVE r \in X
  <2>1. q \in Path /\ q[2] \in Context
    BY DEF Path
  <2>2. /\ r \in Path
        /\ \E e \in svfg.edges :
             /\ e.src = q[1] /\ r[1] = e.dst /\ r[3] = q[3] \cap e.guard
             /\ r[2] = Opened(TRUE, q[2], e)
             /\ TRUE /\ e.kind = "ret" => MatchContext(q[2], e.site)
    BY <1>0, <1>4, <2>1, Extended
  <2>3. PICK e \in svfg.edges :
             /\ e.src = q[1] /\ r[1] = e.dst /\ r[3] = q[3] \cap e.guard
             /\ r[2] = Opened(TRUE, q[2], e)
             /\ e.kind = "ret" => MatchContext(q[2], e.site)
    BY <2>2
  <2>4. PICK c \in Context : /\ <<q[1], c>> \in visited \cup {<<source, <<>>>>}
                             /\ Suffix(c, q[2])
    BY <1>4
  <2>5. e.dst \notin svfg.globals
    BY <1>1, <2>3, <2>4 DEF MeetsGlobal, Out
  <2>6. PICK d \in Contexts(c, e) : d \in Context /\ Suffix(d, r[2])
    <3>1. ASSUME NEW u \in Context, u = q[2]
          PROVE  \E d \in Contexts(c, e) : d \in Context /\ Suffix(d, Opened(TRUE, u, e))
      <4>1. Suffix(c, u) /\ (e.kind = "ret" => MatchContext(u, e.site))
        BY <2>3, <2>4, <3>1
      <4>. QED BY <1>0, <4>1, SuffixStep
    <3>. QED BY <2>1, <2>3, <3>1
  <2>7. <<e.dst, d>> \in visited
    <3>1. <<e.dst, d>> \in Reached(<<q[1], c>>)
      BY <2>3, <2>5, <2>6 DEF Reached, Out
    <3>. QED BY <1>1, <2>4, <3>1
  <2>8. e.dst \in forward
    BY <1>1, <2>7
  <2>9. e.dst \in backward => r[3] \subseteq VFCond(e.dst)
    BY <1>2, <1>4, <2>3
  <2>10. follows(r)
    BY <2>3, <2>6, <2>7
  <2>. QED BY <2>2, <2>3, <2>5, <2>8, <2>9, <2>10
<1>. HIDE DEF X
<1>5. Paths(svfg, TRUE, source) \subseteq X
  BY <1>0, <1>3, <1>4, PathsWithin
<1>6. t \in X
  BY <1>5
<1>. QED BY <1>6 DEF X, Path, Condition

(* A sink at the end of a matched path is reached under its condition.     *)
LEMMA MatchedSinks ==
  ASSUME SliceInv, ReportInv, JudgeInv, pc = "report", ~reachGlob,
         NEW t \in Paths(svfg, TRUE, source), t[1] \in svfg.sinks
  PROVE  t[1] \in sinks /\ t[3] \subseteq VFCond(t[1]) /\ t[3] \subseteq Valuation
<1>1. t[1] \in sinks
  BY MatchedPaths DEF JudgeInv
<1>2. t[1] \in backward
  BY <1>1 DEF ReportInv, ReportedComplete
<1>. QED BY <1>1, <1>2, MatchedPaths

LEMMA UnderGrows ==
  ASSUME NEW T, NEW S, NEW k \in S
  PROVE  Under(T, {k}) \subseteq Under(T, S)
BY DEF Under

LEMMA SinksUnder ==
  ASSUME TypeOK
  PROVE  UNION {VFCond(k) : k \in sinks} \subseteq TrueCond
BY VFCondTyped DEF Condition, TrueCond

LEMMA BugsJustified ==
  ASSUME SliceInv, ReportInv, JudgeInv, pc = "report", NEW bug \in Bugs, bug # "double free"
  PROVE  Justified(source, bug)
<1> DEFINE T == Paths(svfg, TRUE, source)
<1>1. /\ ~reachGlob
      /\ UNION {VFCond(k) : k \in sinks} # TrueCond
      /\ bug = "never free" => sinks = {}
  BY DEF Bugs, AllReachable, SomeReachable
<1>2. ~Meets(T, svfg.globals)
  BY <1>1, MatchedPaths DEF Meets
<1>3. Under(T, svfg.sinks) # TrueCond
  <2>1. Under(T, svfg.sinks) \subseteq UNION {VFCond(k) : k \in sinks}
    BY <1>1, MatchedSinks DEF Under
  <2>2. UNION {VFCond(k) : k \in sinks} \subseteq TrueCond
    BY SinksUnder DEF SliceInv
  <2>. QED BY <1>1, <2>1, <2>2
<1>4. bug = "never free" => ~Meets(T, svfg.sinks)
  BY <1>1, MatchedSinks DEF Meets
<1>. QED BY <1>2, <1>3, <1>4 DEF Justified

LEMMA SilenceJudged ==
  ASSUME SliceInv, ReportInv, JudgeInv, pc = "report", svfg' = svfg,
         reports' = reports \cup ({source} \X Bugs), NEW s, s = source
  PROVE  Silent(s)'
<1>0. source \in Sources(svfg) /\ svfg \in Programs /\ TypeOK
  BY DEF JudgeInv, Started, SliceInv, TypeOK
<1>1. reachGlob => Meets(Paths(svfg, FALSE, source), svfg.globals)
  BY DEF JudgeInv, Derived, Started, Walked
<1>4. \A b \in Bugs : <<source, b>> \in reports'
  OBVIOUS
<1>2. ASSUME {<<source, "never free">>, <<source, "partial leak">>} \cap reports' = {}
      PROVE  LET T == Paths(svfg, FALSE, source)
             IN  Meets(T, svfg.globals) \/ Under(T, svfg.sinks) = TrueCond
  <2>1. "never free" \notin Bugs /\ "partial leak" \notin Bugs
    BY <1>2, <1>4
  <2>2. AllReachable
    BY <2>1 DEF Bugs
  <2>3. CASE reachGlob
    BY <1>1, <2>3
  <2>4. CASE ~reachGlob
    <3> DEFINE T == Paths(svfg, FALSE, source)
    <3>1. UNION {VFCond(k) : k \in sinks} = TrueCond
      BY <2>2, <2>4 DEF AllReachable
    <3>2. \A k \in sinks : VFCond(k) \subseteq Under(T, {k}) /\ k \in svfg.sinks
      BY <1>0 DEF JudgeInv, Derived, Started, Walked, TypeOK
    <3>3. \A k \in sinks : VFCond(k) \subseteq Under(T, svfg.sinks)
      BY <3>2, UnderGrows
    <3>6. TrueCond \subseteq Under(T, svfg.sinks)
      BY <3>1, <3>3
    <3>4. T \subseteq Path
      BY <1>0, PathsClosed
    <3>5. Under(T, svfg.sinks) \subseteq TrueCond
      BY <3>4 DEF Under, Path, Condition, TrueCond
    <3>. QED BY <3>5, <3>6
  <2>. QED BY <2>3, <2>4
<1>3. ASSUME <<source, "double free">> \notin reports'
      PROVE  LET T == Paths(svfg, TRUE, source)
             IN  \/ Meets(Paths(svfg, FALSE, source), svfg.globals)
                 \/ \A t, u \in T : /\ {t[1], u[1]} \subseteq svfg.sinks
                                    /\ t[1] # u[1]
                                    => t[3] \cap u[3] = {}
  <2>1. PairsExclude
    BY <1>3, <1>4 DEF Bugs
  <2>2. CASE reachGlob
    BY <1>1, <2>2
  <2>3. CASE ~reachGlob
    BY <2>1, <2>3, MatchedSinks DEF PairsExclude, FalseCond
  <2>. QED BY <2>2, <2>3
<1>. QED BY <1>2, <1>3 DEF Silent
-----------------------------------------------------------------------------
LEMMA MeetsGlobalStable == svfg' = svfg => \A i : MeetsGlobal(i)' = MeetsGlobal(i)
BY DEF MeetsGlobal, Out

LEMMA SilentStable ==
  ASSUME svfg' = svfg, reports \subseteq reports', NEW s, Silent(s)
  PROVE  Silent(s)'
<1>1. ASSUME {<<s, "never free">>, <<s, "partial leak">>} \cap reports' = {}
      PROVE  {<<s, "never free">>, <<s, "partial leak">>} \cap reports = {}
  BY <1>1
<1>2. <<s, "double free">> \notin reports' => <<s, "double free">> \notin reports
  OBVIOUS
<1> DEFINE freed(P) ==
             \E T \in {Paths(P, FALSE, s)} :
               Meets(T, P.globals) \/ Under(T, P.sinks) = TrueCond
           once(P) ==
             \E T \in {Paths(P, TRUE, s)} :
               \/ Meets(Paths(P, FALSE, s), P.globals)
               \/ \A t, u \in T : /\ {t[1], u[1]} \subseteq P.sinks
                                  /\ t[1] # u[1]
                                  => t[3] \cap u[3] = {}
<1>3. /\ {<<s, "never free">>, <<s, "partial leak">>} \cap reports = {} => freed(svfg)
      /\ <<s, "double free">> \notin reports => once(svfg)
  BY DEF Silent
<1>4. Silent(s)' <=>
        /\ {<<s, "never free">>, <<s, "partial leak">>} \cap reports' = {} => freed(svfg')
        /\ <<s, "double free">> \notin reports' => once(svfg')
  BY DEF Silent
<1>. HIDE DEF freed, once
<1>. QED BY <1>1, <1>2, <1>3, <1>4

LEMMA FollowedStep == SliceInv /\ JudgeInv /\ [Next]_vars => Followed'
<1>. SUFFICES ASSUME SliceInv, JudgeInv, [Next]_vars PROVE Followed'
  OBVIOUS
<1>0. TypeOK /\ Followed
  BY DEF SliceInv, JudgeInv
<1>1. CASE SetCurSlice
  BY <1>1 DEF SetCurSlice, Followed
<1>2. ASSUME NEW i \in worklist, Forward(i) PROVE Followed'
  <2>. SUFFICES ASSUME ~reachGlob', NEW j \in visited' \cup {<<source, <<>>>>}
                PROVE  \/ j \in worklist'
                       \/ Reached(j) \subseteq visited' /\ j[1] \in forward' /\ ~MeetsGlobal(j)
    BY <1>2, ReachedStable, MeetsGlobalStable DEF Forward, Followed
  <2>1. ~reachGlob /\ ~MeetsGlobal(i)
    BY <1>2 DEF Forward
  <2>2. /\ visited' = visited \cup (Reached(i) \ visited)
        /\ worklist' = (worklist \ {i}) \cup (Reached(i) \ visited)
        /\ forward' = forward \cup {i[1]}
    BY <1>2, <2>1 DEF Forward
  <2>3. pc = "forward"
    BY <1>2 DEF Forward
  <2>4. CASE j \in visited \cup {<<source, <<>>>>}
    BY <1>0, <2>1, <2>2, <2>3, <2>4 DEF Followed
  <2>5. CASE j \in Reached(i) \ visited
    BY <2>2, <2>5
  <2>. QED BY <2>2, <2>4, <2>5
<1>3. ASSUME NEW i \in worklist, Backward(i) PROVE Followed'
  BY <1>0, <1>3, ReachedStable, MeetsGlobalStable DEF Backward, Followed
<1>4. CASE EndForward
  BY <1>0, <1>4, ReachedStable, MeetsGlobalStable DEF EndForward, slice, Followed
<1>5. ASSUME NEW k \in starts, StartBackward(k) PROVE Followed'
  BY <1>0, <1>5, ReachedStable, MeetsGlobalStable DEF StartBackward, slice, Followed
<1>6. CASE StartGuards
  BY <1>0, <1>6, ReachedStable, MeetsGlobalStable DEF StartGuards, Followed
<1>7. ASSUME NEW n \in vfWorklist, ComputeGuards(n) PROVE Followed'
  BY <1>0, <1>7, ReachedStable, MeetsGlobalStable DEF ComputeGuards, Followed
<1>8. CASE EndGuards
  BY <1>0, <1>8, ReachedStable, MeetsGlobalStable DEF EndGuards, slice, Followed
<1>9. CASE ReportBug
  BY <1>9 DEF ReportBug, Followed
<1>10. CASE Finished
  BY <1>10 DEF Finished, Followed
<1>11. CASE UNCHANGED vars
  BY <1>0, <1>11, ReachedStable, MeetsGlobalStable DEF vars, slice, Followed
<1>. QED BY <1>1, <1>2, <1>3, <1>4, <1>5, <1>6, <1>7, <1>8, <1>9, <1>10, <1>11
         DEF Next, Terminated

LEMMA WalkedClosed ==
  ASSUME SliceInv, JudgeInv, Started
  PROVE  /\ <<source, <<>>, TrueCond>> \in Walked /\ Walked \subseteq Path
         /\ \A t \in Walked : \A e \in svfg.edges :
              e.src = t[1] => <<e.dst, t[2], t[3] \cap e.guard>> \in Walked
<1>0. svfg \in Programs /\ source \in Sources(svfg)
  BY DEF SliceInv, TypeOK, JudgeInv
<1>1. /\ <<source, <<>>, TrueCond>> \in Walked /\ Walked \subseteq Path
      /\ \A t \in Walked : Extend(svfg, FALSE, t) \subseteq Walked
  BY <1>0, PathsClosed DEF Walked
<1>. QED BY <1>0, <1>1, Unmatched

LEMMA DerivedStep == SliceInv /\ JudgeInv /\ [Next]_vars => Derived'
<1>. SUFFICES ASSUME SliceInv, JudgeInv, [Next]_vars PROVE Derived'
  OBVIOUS
<1>0. TypeOK /\ Derived
  BY DEF SliceInv, JudgeInv
<1>f. svfg' = svfg /\ source' = source => Walked' = Walked
  BY DEF Walked
<1>1. CASE SetCurSlice
  <2>1. PICK s \in todo : source' = s /\ worklist' = {<<s, <<>>>>}
    BY <1>1 DEF SetCurSlice
  <2>2. s \in Sources(svfg) /\ svfg \in Programs
    BY <1>0, <2>1 DEF JudgeInv, TypeOK
  <2>3. Walked' = Paths(svfg, FALSE, s)
    BY <1>1, <2>1 DEF SetCurSlice, Walked
  <2>4. <<s, <<>>, TrueCond>> \in Walked'
    BY <2>2, <2>3, PathsClosed
  <2>5. \A i \in worklist' : \E t \in Walked' : t[1] = i[1]
    BY <2>1, <2>4
  <2>6. ~reachGlob' /\ \A n : VFCond(n)' = {}
    BY <1>1 DEF SetCurSlice, VFCond, NoConds, FalseCond
  <2>. QED BY <2>5, <2>6 DEF Derived
<1>2. ASSUME NEW i \in worklist, Forward(i) PROVE Derived'
  <2>1. pc = "forward" /\ pc' = pc /\ svfg' = svfg /\ source' = source /\ vfCond' = vfCond
    BY <1>2 DEF Forward
  <2>2. Started /\ Started' /\ Walked' = Walked
    BY <1>f, <2>1 DEF Started
  <2>3. PICK t \in Walked : t[1] = i[1]
    BY <1>0, <2>1 DEF Derived
  <2>4. \A e \in Out(i[1]) : \E r \in Walked : r[1] = e.dst
    <3>. SUFFICES ASSUME NEW e \in Out(i[1]) PROVE \E r \in Walked : r[1] = e.dst
      OBVIOUS
    <3>1. e \in svfg.edges /\ e.src = t[1]
      BY <2>3 DEF Out
    <3>2. <<e.dst, t[2], t[3] \cap e.guard>> \in Walked
      BY <2>2, <3>1, WalkedClosed
    <3>. QED BY <3>2
  <2>5. MeetsGlobal(i) => Meets(Walked, svfg.globals)
    BY <2>4 DEF MeetsGlobal, Meets
  <2>6. reachGlob' => Meets(Walked, svfg.globals)
    BY <1>0, <1>2, <2>2, <2>5 DEF Forward, Derived
  <2>7. \A j \in Reached(i) : \E r \in Walked : r[1] = j[1]
    BY <2>4 DEF Reached
  <2>8. worklist' \subseteq worklist \cup Reached(i)
    BY <1>2 DEF Forward
  <2>. QED BY <1>0, <2>1, <2>2, <2>6, <2>7, <2>8 DEF Derived, VFCond
<1>3. ASSUME NEW i \in worklist, Backward(i) PROVE Derived'
  BY <1>0, <1>3, <1>f DEF Backward, Derived, Started, VFCond
<1>4. CASE EndForward
  BY <1>0, <1>4, <1>f DEF EndForward, slice, Derived, Started, VFCond
<1>5. ASSUME NEW k \in starts, StartBackward(k) PROVE Derived'
  BY <1>0, <1>5, <1>f DEF StartBackward, slice, Derived, Started, VFCond
<1>6. CASE StartGuards
  <2>1. Started /\ Walked' = Walked
    BY <1>6, <1>f DEF StartGuards, Started
  <2>2. <<source, <<>>, TrueCond>> \in Walked
    BY <2>1, WalkedClosed
  <2>3. \A n : VFCond(n)' = IF n = source THEN TrueCond ELSE {}
    BY <1>6 DEF StartGuards, VFCond, FalseCond
  <2>4. TrueCond \subseteq Under(Walked, {source})
    BY <2>2 DEF Under
  <2>5. reachGlob => Meets(Walked, svfg.globals)
    BY <1>0, <2>1 DEF Derived
  <2>. QED BY <1>6, <2>1, <2>3, <2>4, <2>5 DEF StartGuards, Derived
<1>7. ASSUME NEW n \in vfWorklist, ComputeGuards(n) PROVE Derived'
  <2> DEFINE succs == {e.dst : e \in Out(n)} \cap backward
  <2>1. /\ pc = "guard" /\ pc' = pc /\ svfg' = svfg /\ source' = source
        /\ reachGlob' = reachGlob
        /\ vfCond' = [m \in DOMAIN vfCond \cup succs |->
                        IF m \in succs THEN VFCond(m) \cup Along(n, m) ELSE VFCond(m)]
    BY <1>7 DEF ComputeGuards
  <2>2. Started /\ Walked' = Walked /\ n \in Node
    BY <1>0, <1>f, <2>1 DEF Started, TypeOK
  <2>3. \A m : VFCond(m)' \subseteq VFCond(m) \cup Along(n, m)
    BY <2>1 DEF VFCond
  <2>4. ASSUME NEW m \in Node, NEW v \in Along(n, m) PROVE v \in Under(Walked, {m})
    <3>1. PICK e \in svfg.edges : e.src = n /\ e.dst = m /\ v \in VFCond(n) /\ v \in e.guard
      BY <2>4 DEF Along, Out
    <3>2. v \in Under(Walked, {n})
      BY <1>0, <2>2, <3>1 DEF Derived
    <3>3. PICK t \in Walked : t[1] = n /\ v \in t[3]
      BY <3>2 DEF Under
    <3>4. <<m, t[2], t[3] \cap e.guard>> \in Walked
      BY <2>2, <3>1, <3>3, WalkedClosed
    <3>. QED BY <3>1, <3>3, <3>4 DEF Under
  <2>5. \A m \in Node : VFCond(m)' \subseteq Under(Walked, {m})
    BY <1>0, <2>2, <2>3, <2>4 DEF Derived
  <2>. QED BY <1>0, <2>1, <2>2, <2>5 DEF Derived
<1>8. CASE EndGuards
  BY <1>0, <1>8, <1>f DEF EndGuards, slice, Derived, Started, VFCond
<1>9. CASE ReportBug
  BY <1>9 DEF ReportBug, Derived, Started
<1>10. CASE Finished
  BY <1>10 DEF Finished, Derived, Started
<1>11. CASE UNCHANGED vars
  BY <1>0, <1>11, <1>f DEF vars, slice, Derived, Started, VFCond
<1>. QED BY <1>1, <1>2, <1>3, <1>4, <1>5, <1>6, <1>7, <1>8, <1>9, <1>10, <1>11
         DEF Next, Terminated

(* The sources that have been judged are judged rightly, and stay so.      *)
Judged == \A s \in Sources(svfg) : s \in todo \/ (Started /\ s = source) \/ Silent(s)

LEMMA JudgedStep ==
  SliceInv /\ ReportInv /\ JudgeInv /\ [Next]_vars => Judged' /\ ReportsJustified'
<1>. SUFFICES ASSUME SliceInv, ReportInv, JudgeInv, [Next]_vars
              PROVE  Judged' /\ ReportsJustified'
  OBVIOUS
<1>0. Judged /\ ReportsJustified
  BY DEF JudgeInv, Judged
<1>a. \A s, bug : svfg' = svfg /\ Justified(s, bug) => Justified(s, bug)'
  BY DEF Justified
<1>1. CASE SetCurSlice
  <2>1. PICK s \in todo : source' = s /\ todo' = todo \ {s}
    BY <1>1 DEF SetCurSlice
  <2>2. svfg' = svfg /\ reports' = reports /\ ~Started /\ Started'
    BY <1>1 DEF SetCurSlice, Started
  <2>3. Judged'
    BY <1>0, <2>1, <2>2, SilentStable DEF Judged
  <2>4. ReportsJustified'
    BY <1>0, <1>a, <2>2 DEF ReportsJustified
  <2>. QED BY <2>3, <2>4
<1>2. CASE ReportBug
  <2>1. /\ pc = "report" /\ svfg' = svfg /\ todo' = todo /\ source' = source
        /\ reports' = reports \cup ({source} \X Bugs)
    BY <1>2 DEF ReportBug, slice
  <2>2. ASSUME NEW s \in Sources(svfg) PROVE s \in todo \/ Silent(s)'
    BY <1>0, <2>1, SilentStable, SilenceJudged DEF Judged
  <2>3. \A bug \in Bugs : bug # "double free" => Justified(source, bug)
    BY <2>1, BugsJustified
  <2>4. ASSUME NEW r \in reports', r[2] # "double free" PROVE Justified(r[1], r[2])
    <3>1. CASE r \in reports
      BY <1>0, <2>4, <3>1 DEF ReportsJustified
    <3>2. CASE r \in {source} \X Bugs
      BY <2>3, <2>4, <3>2
    <3>. QED BY <2>1, <3>1, <3>2
  <2>5. ReportsJustified'
    BY <1>a, <2>1, <2>4 DEF ReportsJustified
  <2>. QED BY <2>1, <2>2, <2>5 DEF Judged
<1>3. CASE Finished
  <2>1. svfg' = svfg /\ reports' = reports /\ todo' = todo /\ ~Started
    BY <1>3 DEF Finished, Started, slice
  <2>2. Judged'
    BY <1>0, <2>1, SilentStable DEF Judged
  <2>3. ReportsJustified'
    BY <1>0, <1>a, <2>1 DEF ReportsJustified
  <2>. QED BY <2>2, <2>3
<1>4. ASSUME UNCHANGED <<svfg, reports, todo, source>>, Started => Started'
      PROVE  Judged' /\ ReportsJustified'
  <2>1. Judged'
    BY <1>0, <1>4, SilentStable DEF Judged
  <2>2. ReportsJustified'
    BY <1>0, <1>4, <1>a DEF ReportsJustified
  <2>. QED BY <2>1, <2>2
<1>5. ASSUME \/ \E i \in worklist : Forward(i) \/ Backward(i)
             \/ EndForward
             \/ \E k \in starts : StartBackward(k)
             \/ StartGuards
             \/ \E n \in vfWorklist : ComputeGuards(n)
             \/ EndGuards
             \/ UNCHANGED vars
      PROVE  UNCHANGED <<svfg, reports, todo, source>> /\ (Started => Started')
  BY <1>5 DEF Forward, Backward, EndForward, StartBackward, StartGuards, ComputeGuards,
              EndGuards, vars, Started
<1>. QED BY <1>1, <1>2, <1>3, <1>4, <1>5 DEF Next, Terminated

LEMMA JudgeStep == SliceInv /\ ReportInv /\ JudgeInv /\ [Next]_vars => JudgeInv'
<1>. SUFFICES ASSUME SliceInv, ReportInv, JudgeInv, [Next]_vars PROVE JudgeInv'
  OBVIOUS
<1> DEFINE Steady == /\ todo \subseteq Sources(svfg)
                     /\ Started => source \in Sources(svfg)
                     /\ pc = "done" => todo = {}
                     /\ sinks = forward \cap svfg.sinks
<1>0. Steady
  BY DEF JudgeInv
<1>1. ASSUME SetCurSlice PROVE Steady'
  BY <1>0, <1>1 DEF SetCurSlice, Started
<1>2. ASSUME NEW i \in worklist, Forward(i) PROVE Steady'
  BY <1>0, <1>2 DEF Forward, Started
<1>3. ASSUME NEW i \in worklist, Backward(i) PROVE Steady'
  BY <1>0, <1>3 DEF Backward, Started
<1>4. ASSUME NEW n \in vfWorklist, ComputeGuards(n) PROVE Steady'
  BY <1>0, <1>4 DEF ComputeGuards, Started
<1>5. ASSUME EndForward \/ (\E k \in starts : StartBackward(k)) \/ StartGuards
      PROVE  Steady'
  BY <1>0, <1>5 DEF EndForward, StartBackward, StartGuards, slice, Started
<1>6. ASSUME EndGuards \/ ReportBug \/ Finished \/ UNCHANGED vars PROVE Steady'
  BY <1>0, <1>6 DEF EndGuards, ReportBug, Finished, vars, slice, Started
<1>7. Steady'
  BY <1>1, <1>2, <1>3, <1>4, <1>5, <1>6 DEF Next, Terminated
<1>8. Followed' /\ Derived' /\ Judged' /\ ReportsJustified'
  BY FollowedStep, DerivedStep, JudgedStep
<1>. QED BY <1>7, <1>8 DEF JudgeInv, Judged

LEMMA JudgeInit == Init => ReportInv /\ JudgeInv
<1>. SUFFICES ASSUME Init PROVE ReportInv /\ JudgeInv
  OBVIOUS
<1>1. ReportInv
  BY DEF Init, ReportInv, ReportedComplete
<1>2. Followed /\ Derived /\ ReportsJustified
  BY DEF Init, Followed, Derived, Started, ReportsJustified
<1>. QED BY <1>1, <1>2 DEF Init, JudgeInv, Started

(* Leaks are reported only of what leaks: on no path from the source with  *)
(* matched calls and returns is a global met or, as the report says, a     *)
(* deallocation reached, or only under some conditions.  The contexts may  *)
(* be cut anywhere.                                                        *)
THEOREM LeaksAreLeaks == Spec => []ReportsJustified
<1>1. JudgeInv => ReportsJustified
  BY DEF JudgeInv
<1>. QED BY <1>1, InitInv, InvStep, ReportStep, JudgeInit, JudgeStep, PTL DEF Spec

(* Nothing is passed over in silence but what the paths excuse, once every *)
(* source has been dealt with.                                             *)
THEOREM NothingConcealed == Spec => []SilenceJustified
<1>1. JudgeInv => SilenceJustified
  BY DEF JudgeInv, SilenceJustified, Started
<1>. QED BY <1>1, InitInv, InvStep, ReportStep, JudgeInit, JudgeStep, PTL DEF Spec
=============================================================================
