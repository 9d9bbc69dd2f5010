-------------------------- MODULE SteensgaardProofs --------------------------
(***************************************************************************)
(* Steensgaard's solver moves nodes between classes one by one, and a node *)
(* may leave a class for another, or be taken back.  Whatever it does, it  *)
(* brings together only nodes that belong together: every class stays      *)
(* within one class of every partition that agrees with the statements.    *)
(***************************************************************************)
EXTENDS Steensgaard, FiniteSetTheorems, TLAPS

(* What the members of a class may point to depends on the class only.     *)
LEMMA SameClassSamePointees ==
  ASSUME NEW P, NEW U, NEW x, NEW y, U[x] = U[y]
  PROVE  Pointees(P, U, x) = Pointees(P, U, y)
BY DEF Pointees

(* The detector gives every node a representative: its component has one.  *)
LEMMA RepNodesType ==
  ASSUME NEW E PROVE RepNodes(E) \subseteq [Node -> Node]
<1>. DEFINE repOf(R, x) ==
              CHOOSE y \in R : \E C \in Components(E) : {x, y} \subseteq C
<1>. SUFFICES ASSUME NEW R \in SUBSET Node,
                     \A C \in Components(E) : Cardinality(R \cap C) = 1,
                     NEW x \in Node
              PROVE  repOf(R, x) \in Node
  BY DEF RepNodes
<1>1. PICK C \in Components(E) : x \in C
  <2>. DEFINE reach == {e \in Node \X Node : e[2] \in Reach(E, e[1])}
              component(n) == {y \in Node : <<n, y>> \in reach /\ <<y, n>> \in reach}
  <2>1. x \in Reach(E, x)
    BY DEF Reach
  <2>2. x \in component(x)
    BY <2>1
  <2>3. component(x) \in Components(E)
    BY DEF Components
  <2>. QED BY <2>2, <2>3
<1>2. R \cap C # {}
  BY FS_EmptySet
<1>3. \E y \in R : \E D \in Components(E) : {x, y} \subseteq D
  BY <1>1, <1>2
<1>. QED BY <1>3

-----------------------------------------------------------------------------
(* The types.  The pairs a handler queues are pairs of nodes, because the  *)
(* pointees visited are objects and objects are nodes.                     *)
LEMMA ProgramTypes ==
  ASSUME prog \in Programs
  PROVE  /\ Direct(prog) \subseteq Node \X Node
         /\ Copies \subseteq Direct(prog) /\ Geps \subseteq Direct(prog)
         /\ prog.store \subseteq Node \X Node
         /\ prog.load \subseteq Node \X Node
         /\ Unification(prog, Unified(prog))
<1>1. prog \in Program
  BY SystemAssumption
<1>2. /\ prog.copy \subseteq Node \X Node
      /\ prog.vgep \subseteq Node \X Node
      /\ prog.ngep \subseteq Node \X Node \X Offset
      /\ prog.store \subseteq Node \X Node
      /\ prog.load \subseteq Node \X Node
  BY <1>1 DEF Program
<1>3. Direct(prog) \subseteq Node \X Node
  BY <1>2 DEF Direct
<1>. QED BY <1>2, <1>3, UnifiedAssumption DEF Copies, Geps, Direct

(* A union queued comes from a statement of the node processed and, for a  *)
(* store or load, a pointee of its class; both sides agree with U.         *)
Asked(U, unionsOf) ==
  \A i \in 1..Len(unionsOf) : \A u \in unionsOf[i] : U[u[1]] = U[u[2]]

WithinInv ==
  LET U == Unified(prog) IN
  /\ \A n \in Node : U[ec[n]] = U[n]
  /\ \A n \in Node : \A x \in subs[n] : U[x] = U[n]
  /\ \A n \in Node : pts[n] \subseteq Pointees(prog, U, n)
  /\ class # NoNode =>
       /\ cur # NoNode
       /\ U[class] = U[cur]
       /\ todo \subseteq Pointees(prog, U, cur)
  /\ Asked(U, unions)

IInv == TypeOK /\ WithinInv

LEMMA InitKeeps == Init => IInv
<1>. SUFFICES ASSUME Init PROVE IInv
  OBVIOUS
<1>. USE DEF Init
<1>1. TypeOK
  <2>1. scc \in [Node -> Node]
    BY RepNodesType
  <2>2. \A n \in Node : scc[n] \in Node
    BY <2>1
  <2>. QED BY <2>1, <2>2 DEF TypeOK
<1>2. WithinInv
  BY DEF WithinInv, Asked, Pointees
<1>. QED BY <1>1, <1>2 DEF IInv

LEMMA PopKeeps ==
  ASSUME IInv, Pop PROVE IInv'
<1>. DEFINE U == Unified(prog)
<1>. USE DEF IInv, Pop
<1>1. PICK d \in worklist : cur' = d /\ class' = ec[d] /\ todo' = pts[ec[d]]
                            /\ worklist' = worklist \ {d}
  OBVIOUS
<1>2. d \in Node /\ ec[d] \in Node /\ U[ec[d]] = U[d] /\ d # NoNode
  BY <1>1, SystemAssumption DEF TypeOK, WithinInv
<1>3. pts[ec[d]] \subseteq Pointees(prog, U, d)
  BY <1>2, SameClassSamePointees DEF WithinInv
<1>4. TypeOK'
  BY <1>1, <1>2 DEF TypeOK
<1>5. WithinInv'
  BY <1>1, <1>2, <1>3 DEF WithinInv
<1>. QED BY <1>4, <1>5

(* *p = q asks for q and every pointee of p to share a class, r = *p for   *)
(* every pointee of p and r.                                               *)
LEMMA VisitPointeeKeeps ==
  ASSUME IInv, VisitPointee PROVE IInv'
<1>. DEFINE U == Unified(prog)
<1>. USE DEF IInv, VisitPointee
<1>1. PICK o \in todo :
         /\ todo' = todo \ {o}
         /\ unions' = <<{<<e[1], o>> : e \in {x \in prog.store : x[2] = cur}},
                        {<<o, e[2]>> : e \in Out(prog.load)}>>
  OBVIOUS
<1>2. prog \in Programs
  BY DEF TypeOK
<1>3. o \in Node /\ o \in Pointees(prog, U, cur)
  BY <1>1, SystemAssumption DEF TypeOK, WithinInv
<1>4. /\ unions'[1] \subseteq Node \X Node
      /\ unions'[2] \subseteq Node \X Node
      /\ Len(unions') = 2
      /\ unions' \in Seq(SUBSET (Node \X Node))
  BY <1>1, <1>2, <1>3, ProgramTypes DEF Out
<1>5. Asked(U, unions')
  <2>1. \A u \in unions'[1] : U[u[1]] = U[u[2]]
    BY <1>1, <1>2, <1>3, ProgramTypes DEF Unification
  <2>2. \A u \in unions'[2] : U[u[1]] = U[u[2]]
    BY <1>1, <1>2, <1>3, ProgramTypes DEF Unification, Out
  <2>. QED BY <1>4, <2>1, <2>2 DEF Asked
<1>6. TypeOK'
  BY <1>1, <1>4 DEF TypeOK
<1>7. WithinInv'
  BY <1>1, <1>5 DEF WithinInv
<1>. QED BY <1>6, <1>7

LEMMA VisitDirectEdgesKeeps ==
  ASSUME IInv, VisitDirectEdges PROVE IInv'
<1>. DEFINE U == Unified(prog)
<1>. USE DEF IInv, VisitDirectEdges
<1>1. prog \in Programs
  BY DEF TypeOK
<1>2. /\ unions'[1] \subseteq Direct(prog)
      /\ unions'[2] \subseteq Direct(prog)
      /\ Len(unions') = 2
  BY <1>1, ProgramTypes DEF Out
<1>3. unions' \in Seq(SUBSET (Node \X Node))
  BY <1>1, <1>2, ProgramTypes
<1>4. Asked(U, unions')
  <2>1. \A u \in Direct(prog) : U[u[1]] = U[u[2]]
    BY <1>1, ProgramTypes DEF Unification
  <2>. QED BY <1>2, <2>1 DEF Asked
<1>5. TypeOK'
  BY <1>3 DEF TypeOK
<1>6. WithinInv'
  BY <1>4 DEF WithinInv
<1>. QED BY <1>5, <1>6

-----------------------------------------------------------------------------
(* One union.  What moves, the node and the sub nodes it has, belongs with *)
(* the node, and so with the class it moves to.                            *)
LEMMA SetECKeeps ==
  ASSUME NEW U, NEW n \in Node, NEW c \in Node, U[n] = U[c],
         ec \in [Node -> Node], subs \in [Node -> SUBSET Node],
         \A x \in Node : U[ec[x]] = U[x],
         \A x \in Node : \A y \in subs[x] : U[y] = U[x],
         SetEC(n, c)
  PROVE  /\ ec' \in [Node -> Node]
         /\ subs' \in [Node -> SUBSET Node]
         /\ \A x \in Node : U[ec'[x]] = U[x]
         /\ \A x \in Node : \A y \in subs'[x] : U[y] = U[x]
<1>. DEFINE moved == subs[n] \cup {n}
            grown == [subs EXCEPT ![ec[c]] = @ \cup moved]
<1>1. /\ ec' = [x \in Node |-> IF x \in moved THEN ec[c] ELSE ec[x]]
      /\ subs' = [grown EXCEPT ![n] = {}]
  BY DEF SetEC
<1>2. moved \subseteq Node /\ \A x \in moved : U[x] = U[n]
  OBVIOUS
<1>3. ec[c] \in Node /\ U[ec[c]] = U[n]
  OBVIOUS
<1>4. \A x \in Node : U[ec'[x]] = U[x]
  BY <1>1, <1>2, <1>3
<1>5. \A x \in Node : subs'[x] \subseteq subs[x] \cup (IF x = ec[c] THEN moved ELSE {})
  <2>1. \A x \in Node : subs'[x] = IF x = n THEN {}
                                   ELSE IF x = ec[c] THEN subs[x] \cup moved ELSE subs[x]
    BY <1>1
  <2>. HIDE DEF moved
  <2>. QED BY <2>1
<1>6. \A x \in Node : \A y \in subs'[x] : U[y] = U[x]
  BY <1>2, <1>3, <1>5
<1>7. subs' \in [Node -> SUBSET Node] /\ ec' \in [Node -> Node]
  BY <1>1, <1>2, <1>3
<1>. QED BY <1>4, <1>6, <1>7

LEMMA UnionPtsKeeps ==
  ASSUME NEW U, NEW n \in Node, NEW c \in Node, U[n] = U[c],
         ec \in [Node -> Node], pts \in [Node -> SUBSET Object],
         \A x \in Node : U[ec[x]] = U[x],
         \A x \in Node : pts[x] \subseteq Pointees(prog, U, x),
         UnionPts(n, c)
  PROVE  /\ pts' \in [Node -> SUBSET Object]
         /\ \A x \in Node : pts'[x] \subseteq Pointees(prog, U, x)
<1>1. ec[n] \in Node /\ ec[c] \in Node /\ U[ec[n]] = U[ec[c]]
  OBVIOUS
<1>2. pts[ec[n]] \subseteq Pointees(prog, U, ec[c])
  BY <1>1, SameClassSamePointees
<1>3. pts' = [pts EXCEPT ![ec[c]] = @ \cup pts[ec[n]]]
  BY DEF UnionPts
<1>. QED BY <1>1, <1>2, <1>3

LEMMA ECUnionKeeps ==
  ASSUME IInv, ECUnion PROVE IInv'
<1>. DEFINE U == Unified(prog)
<1>. USE DEF IInv
<1>1. PICK u \in Head(unions) :
         /\ UnionPts(u[1], u[2])
         /\ Push(u[1], u[2])
         /\ SetEC(u[1], u[2])
         /\ unions' = [unions EXCEPT ![1] = @ \ {u}]
  BY DEF ECUnion
<1>2. unions # <<>> /\ MeetNewPointees /\ UNCHANGED <<prog, scc, cur, class>>
  BY DEF ECUnion
<1>3. /\ Len(unions) \in Nat /\ 1 \in 1..Len(unions)
      /\ Head(unions) = unions[1] /\ unions[1] \subseteq Node \X Node
  BY <1>2 DEF TypeOK
<1>4. u[1] \in Node /\ u[2] \in Node /\ U[u[1]] = U[u[2]]
  BY <1>1, <1>3 DEF WithinInv, Asked
<1>5. /\ ec' \in [Node -> Node]
      /\ subs' \in [Node -> SUBSET Node]
      /\ \A x \in Node : U[ec'[x]] = U[x]
      /\ \A x \in Node : \A y \in subs'[x] : U[y] = U[x]
  <2>. HIDE DEF U
  <2>1. (\A x \in Node : U[ec[x]] = U[x]) /\ \A x \in Node : \A y \in subs[x] : U[y] = U[x]
    BY DEF WithinInv, U
  <2>. QED BY <1>1, <1>4, <2>1, SetECKeeps DEF TypeOK
<1>6. /\ pts' \in [Node -> SUBSET Object]
      /\ \A x \in Node : pts'[x] \subseteq Pointees(prog, U, x)
  <2>. HIDE DEF U
  <2>1. /\ \A x \in Node : U[ec[x]] = U[x]
        /\ \A x \in Node : pts[x] \subseteq Pointees(prog, U, x)
    BY DEF WithinInv, U
  <2>. QED BY <1>1, <1>4, <2>1, UnionPtsKeeps DEF TypeOK
<1>7. /\ unions' \in Seq(SUBSET (Node \X Node))
      /\ Asked(U, unions')
  <2>1. /\ Len(unions') = Len(unions)
        /\ \A i \in 1..Len(unions) : unions'[i] \subseteq unions[i]
    BY <1>1, <1>3 DEF TypeOK
  <2>2. unions' \in Seq(SUBSET (Node \X Node))
    BY <1>1, <1>3 DEF TypeOK
  <2>3. Asked(U, unions)
    BY DEF WithinInv
  <2>. QED BY <2>1, <2>2, <2>3 DEF Asked
<1>8. /\ todo' \in SUBSET Object
      /\ class # NoNode => todo' \subseteq Pointees(prog, U, cur)
  <2>1. CASE class = NoNode
    BY <1>2, <2>1 DEF MeetNewPointees, TypeOK
  <2>2. CASE class # NoNode
    <3>1. class \in Node /\ U[class] = U[cur] /\ todo \subseteq Pointees(prog, U, cur)
      BY <2>2 DEF TypeOK, WithinInv
    <3>2. PICK met \in SUBSET (pts'[class] \ pts[class]) : todo' = todo \cup met
      BY <1>2, <2>2 DEF MeetNewPointees
    <3>3. met \subseteq Object /\ met \subseteq Pointees(prog, U, class)
      BY <1>6, <3>1, <3>2
    <3>4. Pointees(prog, U, class) = Pointees(prog, U, cur)
      BY <3>1, SameClassSamePointees
    <3>. QED BY <3>1, <3>2, <3>3, <3>4 DEF TypeOK
  <2>. QED BY <2>1, <2>2
<1>9. worklist' \in SUBSET Node
  <2>1. scc[u[2]] \in Node
    BY <1>4 DEF TypeOK
  <2>. QED BY <1>1, <2>1 DEF Push, TypeOK
<1>10. TypeOK'
  BY <1>2, <1>5, <1>6, <1>7, <1>8, <1>9 DEF TypeOK
<1>11. WithinInv'
  BY <1>2, <1>5, <1>6, <1>7, <1>8 DEF WithinInv
<1>. QED BY <1>10, <1>11

LEMMA EndLoopKeeps ==
  ASSUME IInv, EndLoop PROVE IInv'
<1>. USE DEF IInv, EndLoop
<1>1. /\ unions' = Tail(unions)
      /\ unions \in Seq(SUBSET (Node \X Node)) /\ unions # <<>>
  BY DEF TypeOK
<1>2. /\ unions' \in Seq(SUBSET (Node \X Node))
      /\ Len(unions') = Len(unions) - 1
      /\ \A i \in 1..Len(unions') : unions'[i] = unions[i + 1]
  BY <1>1
<1>3. Len(unions) \in Nat
  BY <1>1
<1>4. Asked(Unified(prog), unions')
  BY <1>2, <1>3 DEF WithinInv, Asked
<1>5. TypeOK'
  BY <1>2 DEF TypeOK
<1>6. WithinInv'
  BY <1>4 DEF WithinInv
<1>. QED BY <1>5, <1>6

LEMMA NextKeeps ==
  ASSUME IInv, [Next]_vars PROVE IInv'
<1>1. CASE Pop
  BY <1>1, PopKeeps
<1>2. CASE VisitPointee
  BY <1>2, VisitPointeeKeeps
<1>3. CASE VisitDirectEdges
  BY <1>3, VisitDirectEdgesKeeps
<1>4. CASE ECUnion
  BY <1>4, ECUnionKeeps
<1>5. CASE EndLoop
  BY <1>5, EndLoopKeeps
<1>6. CASE EndNode
  BY <1>6 DEF EndNode, IInv, TypeOK, WithinInv
<1>7. CASE Terminated \/ UNCHANGED vars
  BY <1>7 DEF Terminated, vars, IInv, TypeOK, WithinInv
<1>. QED BY <1>1, <1>2, <1>3, <1>4, <1>5, <1>6, <1>7 DEF Next

(* A node points to what its class points to, and its class is within its  *)
(* class of U.                                                             *)
LEMMA SolutionWithin ==
  ASSUME IInv PROVE WithinUnification
<1>. DEFINE U == Unified(prog)
<1>. SUFFICES ASSUME NEW n \in Node
              PROVE  Solution[n] \subseteq Pointees(prog, U, n)
  BY DEF WithinUnification
<1>1. ec[n] \in Node /\ U[ec[n]] = U[n]
  BY DEF IInv, TypeOK, WithinInv
<1>2. pts[ec[n]] \subseteq Pointees(prog, U, n)
  BY <1>1, SameClassSamePointees DEF IInv, WithinInv
<1>. QED BY <1>2 DEF Solution

LEMMA Invariance == Spec => []IInv
BY InitKeeps, NextKeeps, PTL DEF Spec

(* The types of the solver's state, at any time.                           *)
THEOREM SteensgaardTypeCorrect == Spec => []TypeOK
<1>1. IInv => TypeOK
  BY DEF IInv
<1>. QED BY <1>1, Invariance, PTL

(* Moving nodes one by one, back and forth, brings together no more than   *)
(* unification does: at no time does a node point to what no partition     *)
(* that agrees with the statements would let it point to.                  *)
THEOREM SteensgaardWithinUnification ==
  Spec => [](WithinUnification /\ WithinUnificationWhenDone)
<1>1. IInv => WithinUnification /\ WithinUnificationWhenDone
  BY SolutionWithin DEF WithinUnificationWhenDone
<1>. QED BY <1>1, Invariance, PTL
=============================================================================
