----------------------------- MODULE Steensgaard -----------------------------
(***************************************************************************)
(* Steensgaard's analysis (lib/WPA/Steensgaard.cpp): nodes are put into    *)
(* equivalence classes, and a class has one points-to set, kept under the  *)
(* node it is named after.  The constraint graph is never changed.  The    *)
(* work list is that of WPASolver, seeded by its initWorklist() with every *)
(* node; nodes are pushed and popped through sccRepNode(), which here is   *)
(* the representative in the initial graph.                                *)
(***************************************************************************)
EXTENDS ConstraintSystem, Sequences

(* The reference for precision: a partition of the nodes, given by a class *)
(* part[n] for each n, with which every statement agrees.  What uniting    *)
(* the two sides of a statement makes of a node is all that a member of    *)
(* its class is assigned the address of.                                   *)
Pointees(P, part, n) ==
  {o \in Object : \E m \in Node : part[m] = part[n] /\ <<o, m>> \in P.addr}

Direct(P) == P.copy \cup P.vgep \cup {<<e[1], e[2]>> : e \in P.ngep}

Unification(P, part) ==
  /\ \A e \in Direct(P) : part[e[1]] = part[e[2]]
  /\ \A e \in P.store : \A o \in Pointees(P, part, e[2]) : part[e[1]] = part[o]
  /\ \A e \in P.load : \A o \in Pointees(P, part, e[1]) : part[o] = part[e[2]]

CONSTANT
  Unified(_)  \* Unified(P): such a partition (in the runs the finest one)

ASSUME UnifiedAssumption == \A P \in Programs : Unification(P, Unified(P))

VARIABLES
  prog,
  scc,        \* repNode of the SCC detector, found once
  ec,         \* nodeToECMap
  subs,       \* nodeToSubsMap, without the node that getSubNodes adds
  pts,        \* ptsMap, by class
  worklist,
  cur,        \* the node popped, NoNode between two nodes
  class,      \* the class whose points-to set the loop iterates over
  todo,       \* pointees in that set still to visit
  unions      \* <<node, ec>>: the calls of ecUnion to make, by loop

vars == <<prog, scc, ec, subs, pts, worklist, cur, class, todo, unions>>

TypeOK ==
  /\ prog \in Programs
  /\ scc \in [Node -> Node]
  /\ ec \in [Node -> Node]
  /\ subs \in [Node -> SUBSET Node]
  /\ pts \in [Node -> SUBSET Object]
  /\ worklist \in SUBSET Node
  /\ cur \in Node \cup {NoNode}
  /\ class \in Node \cup {NoNode}
  /\ todo \in SUBSET Object
  /\ unions \in Seq(SUBSET (Node \X Node))

-----------------------------------------------------------------------------
(* The direct edges: SCC detection follows copies and geps.                *)
Copies == {e \in prog.copy : e[1] # e[2]}
Geps == prog.vgep \cup {<<e[1], e[2]>> : e \in prog.ngep}

(* SCCDetection: the nodes of a component share one of its members. *)
Reach(E, x) ==
  LET closed == {S \in SUBSET Node :
                   x \in S /\ \A e \in E : e[1] \in S => e[2] \in S}
  IN  {y \in Node : \A S \in closed : y \in S}

Components(E) ==
  LET reach == {e \in Node \X Node : e[2] \in Reach(E, e[1])}
  IN  {{y \in Node : <<x, y>> \in reach /\ <<y, x>> \in reach} : x \in Node}

RepNodes(E) ==
  LET components == Components(E)
      repOf(R, x) == CHOOSE y \in R : \E C \in components : {x, y} \subseteq C
  IN  {[x \in Node |-> repOf(R, x)] :
         R \in {S \in SUBSET Node :
                  \A C \in components : Cardinality(S \cap C) = 1}}

(* initWorklist() and processAllAddr(): every component is waiting, and    *)
(* the address-of statements are solved.                                   *)
Init ==
  /\ prog \in Programs
  /\ scc \in RepNodes(Copies \cup Geps)
  /\ ec = [n \in Node |-> n]
  /\ subs = [n \in Node |-> {}]
  /\ pts = [n \in Node |-> {o \in Object : <<o, n>> \in prog.addr}]
  /\ worklist = {scc[n] : n \in Node}
  /\ cur = NoNode
  /\ class = NoNode
  /\ todo = {}
  /\ unions = <<>>

-----------------------------------------------------------------------------
(* The loop takes a node and iterates over the points-to set of its class. *)
Pop ==
  /\ cur = NoNode
  /\ \E d \in worklist :
       /\ worklist' = worklist \ {d}
       /\ cur' = d
       /\ class' = ec[d]
       /\ todo' = pts[ec[d]]
  /\ UNCHANGED <<prog, scc, ec, subs, pts, unions>>

Out(E) == {e \in E : e[1] = cur}

(* Slip: the pointees are united with the pointer itself. *)
VisitPointee_UnitesPointer ==
  /\ class # NoNode
  /\ unions = <<>>
  /\ \E o \in todo :
       /\ todo' = todo \ {o}
       /\ unions' = <<{<<e[1], o>> : e \in {x \in prog.store : x[2] = cur}},
                      {<<o, e[1]>> : e \in Out(prog.load)}>>
  /\ UNCHANGED <<prog, scc, ec, subs, pts, worklist, cur, class>>

(* For a pointee o: *p = q unites q with o, then r = *p unites o with r. *)
VisitPointee ==
  /\ class # NoNode
  /\ unions = <<>>
  /\ \E o \in todo :
       /\ todo' = todo \ {o}
       /\ unions' = <<{<<e[1], o>> : e \in {x \in prog.store : x[2] = cur}},
                      {<<o, e[2]>> : e \in Out(prog.load)}>>
  /\ UNCHANGED <<prog, scc, ec, subs, pts, worklist, cur, class>>

(* After the pointees, the copies and then the geps that leave the node. *)
VisitDirectEdges ==
  /\ class # NoNode
  /\ unions = <<>>
  /\ todo = {}
  /\ class' = NoNode
  /\ unions' = <<Out(Copies), Out(Geps)>>
  /\ UNCHANGED <<prog, scc, ec, subs, pts, worklist, cur, todo>>

(* ecUnion(n, c): the class of c receives the points-to set of the class   *)
(* of n, and c is pushed if that adds anything; setEC then moves n and its *)
(* sub nodes to the class of c.  Only the sub nodes n has itself move, not *)
(* those of the class n is in, and a sub node that has left n for another  *)
(* class moves too.                                                        *)
UnionPts(n, c) == pts' = [pts EXCEPT ![ec[c]] = @ \cup pts[ec[n]]]

(* Slip: c is pushed whether or not its class grew. *)
Push_Always(n, c) == worklist' = worklist \cup {scc[c]}

Push(n, c) ==
  worklist' = IF pts[ec[n]] \subseteq pts[ec[c]] THEN worklist
              ELSE worklist \cup {scc[c]}

(* Slip: c is taken for the name of its class. *)
SetEC_NotResolved(n, c) ==
  LET moved == subs[n] \cup {n} IN
  /\ ec' = [x \in Node |-> IF x \in moved THEN c ELSE ec[x]]
  /\ subs' = [[subs EXCEPT ![c] = @ \cup moved] EXCEPT ![n] = {}]

SetEC(n, c) ==
  LET moved == subs[n] \cup {n} IN
  /\ ec' = [x \in Node |-> IF x \in moved THEN ec[c] ELSE ec[x]]
  /\ subs' = [[subs EXCEPT ![ec[c]] = @ \cup moved] EXCEPT ![n] = {}]

(* The set iterated over may grow meanwhile: the iterator of the bit       *)
(* vector meets some of the new pointees and misses others.                *)
MeetNewPointees ==
  IF class = NoNode THEN UNCHANGED todo
  ELSE \E met \in SUBSET (pts'[class] \ pts[class]) : todo' = todo \cup met

ECUnion ==
  /\ unions # <<>>
  /\ \E u \in Head(unions) :
       /\ UnionPts(u[1], u[2])
       /\ Push(u[1], u[2])
       /\ SetEC(u[1], u[2])
       /\ unions' = [unions EXCEPT ![1] = @ \ {u}]
  /\ MeetNewPointees
  /\ UNCHANGED <<prog, scc, cur, class>>

EndLoop ==
  /\ unions # <<>>
  /\ Head(unions) = {}
  /\ unions' = Tail(unions)
  /\ UNCHANGED <<prog, scc, ec, subs, pts, worklist, cur, class, todo>>

EndNode ==
  /\ cur # NoNode
  /\ class = NoNode
  /\ unions = <<>>
  /\ cur' = NoNode
  /\ UNCHANGED <<prog, scc, ec, subs, pts, worklist, class, todo, unions>>

Done == cur = NoNode /\ worklist = {}

Terminated == Done /\ UNCHANGED vars

Next ==
  \/ Pop
  \/ VisitPointee
  \/ VisitDirectEdges
  \/ ECUnion
  \/ EndLoop
  \/ EndNode
  \/ Terminated

Spec == Init /\ [][Next]_vars /\ WF_vars(Next)

-----------------------------------------------------------------------------
(* getPts: a node points to what its class points to. *)
Solution == [n \in Node |-> pts[ec[n]]]

(* When the work list is empty, *p = q has put what q points to into every *)
(* object that p points to: EC(o) == EC(q) implies at least that           *)
(* (Steensgaard.cpp:31).  It fails on MCProgramsTwoStores, where a node    *)
(* united with a second class is no longer united with the first.          *)
StoresSolvedWhenDone ==
  Done => \A e \in prog.store : \A o \in Solution[e[2]] :
            Solution[e[1]] \subseteq Solution[o]

(* Moving nodes one by one brings together no more than unification does.  *)
WithinUnification ==
  LET U == Unified(prog)
  IN  \A n \in Node : Solution[n] \subseteq Pointees(prog, U, n)

WithinUnificationWhenDone == Done => WithinUnification

(* The only loop bound is that points-to sets stop growing: nodes move     *)
(* from class to class for as long as something is pushed.                 *)
Termination == <>Done
=============================================================================
