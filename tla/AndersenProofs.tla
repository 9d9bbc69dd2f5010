--------------------------- MODULE AndersenProofs ---------------------------
(***************************************************************************)
(* What holds in every reachable state of the inclusion-based solvers, for *)
(* every object model and every set of programs: the state is well typed,  *)
(* difference propagation has delivered what it recorded, nothing is lost  *)
(* or invented, and a solver that stops has satisfied every statement.     *)
(*   1. Points-to sets of a constraint graph, its structural operations,   *)
(*      adding a copy edge and merging a node, and its components.         *)
(*   2. The base solver, action by action; last comes completeness.        *)
(*   3. Lazy cycle detection, which merges whichever nodes it chooses,     *)
(*      whenever it does.                                                  *)
(*   4. Wave propagation, which merges round by round and propagates in an *)
(*      order that goes stale while the wave runs.                         *)
(* The lemmas about the actions of the base solver are used again for the  *)
(* two classes derived from it.                                            *)
(***************************************************************************)
EXTENDS AndersenLCD, AndersenWaveDiff, FiniteSetTheorems, TLAPS

(* Covers, element by element. *)
LEMMA CoversElements ==
  ASSUME NEW F, NEW D, NEW E
  PROVE  Covers(F, E, D) <=> \A o \in D : \E x \in E : Norm(F, o) = Norm(F, x)
BY DEF Covers, NormSet

(* Covers is transitive, and monotone in both sets. *)
LEMMA CoversTransitive ==
  ASSUME NEW F, NEW C, NEW D, NEW E, Covers(F, D, C), Covers(F, E, D)
  PROVE  Covers(F, E, C)
BY DEF Covers

LEMMA CoversSubset ==
  ASSUME NEW F, NEW D, NEW E, D \subseteq E
  PROVE  Covers(F, E, D)
BY DEF Covers, NormSet

(* Normalising for fewer objects first makes no difference. *)
LEMMA NormAgain ==
  ASSUME NEW F, NEW G, F \subseteq G, NEW o \in Object
  PROVE  Norm(G, Norm(F, o)) = Norm(G, o)
BY SystemAssumption DEF Norm

(* Making more objects field-insensitive loses nothing. *)
LEMMA CoversMoreInsensitive ==
  ASSUME NEW F, NEW G, F \subseteq G,
         NEW D \in SUBSET Object, NEW E \in SUBSET Object, Covers(F, E, D)
  PROVE  Covers(G, E, D)
<1>1. ASSUME NEW o \in D PROVE \E x \in E : Norm(G, o) = Norm(G, x)
  <2>1. PICK x \in E : Norm(F, o) = Norm(F, x)
    BY <1>1, CoversElements
  <2>2. Norm(G, Norm(F, o)) = Norm(G, o) /\ Norm(G, Norm(F, x)) = Norm(G, x)
    BY NormAgain
  <2>. QED BY <2>1, <2>2
<1>. QED BY <1>1, CoversElements

-----------------------------------------------------------------------------
LEMMA VariantObjType ==
  ASSUME NEW o \in Object
  PROVE  VariantObjNode(o) \in Object
BY SystemAssumption DEF VariantObjNode

LEMMA GepObjType ==
  ASSUME NEW F, NEW o \in Object, NEW k \in Offset
  PROVE  GepObjNode(F, o, k) \in Object
BY SystemAssumption DEF GepObjNode

(* A normal gep computed while its object was field-sensitive reaches the  *)
(* same memory as one computed afterwards.                                 *)
LEMMA GepMoreInsensitive ==
  ASSUME NEW F, NEW G, F \subseteq G, NEW o \in Object, NEW k \in Offset
  PROVE  Norm(G, GepObjNode(F, o, k)) = Norm(G, GepObjNode(G, o, k))
<1>1. FieldAt[<<o, k>>] \in Object /\ BaseOf[FieldAt[<<o, k>>]] = BaseOf[o]
  BY SystemAssumption
<1>2. BaseOf[o] \in Object /\ BaseOf[BaseOf[o]] = BaseOf[o]
  BY SystemAssumption
<1>. QED BY <1>1, <1>2 DEF Norm, GepObjNode

LEMMA GepObjsType ==
  ASSUME NEW F, NEW D \in SUBSET Object, NEW k \in Offset
  PROVE  GepObjNodes(F, D, k) \in SUBSET Object
BY GepObjType DEF GepObjNodes

LEMMA VariantObjsType ==
  ASSUME NEW D \in SUBSET Object
  PROVE  VariantObjNodes(D) \in SUBSET Object
BY VariantObjType DEF VariantObjNodes

LEMMA CoversGeps ==
  ASSUME NEW F, NEW G, F \subseteq G, NEW k \in Offset,
         NEW D \in SUBSET Object, NEW E \in SUBSET Object,
         Covers(G, E, GepObjNodes(F, D, k))
  PROVE  Covers(G, E, GepObjNodes(G, D, k))
<1>1. ASSUME NEW x \in GepObjNodes(G, D, k) PROVE \E y \in E : Norm(G, x) = Norm(G, y)
  <2>1. PICK o \in D : x = GepObjNode(G, o, k)
    BY <1>1 DEF GepObjNodes
  <2>2. Norm(G, x) = Norm(G, GepObjNode(F, o, k))
    BY <2>1, GepMoreInsensitive
  <2>3. \A z \in GepObjNodes(F, D, k) : \E y \in E : Norm(G, z) = Norm(G, y)
    BY CoversElements
  <2>4. GepObjNode(F, o, k) \in GepObjNodes(F, D, k)
    BY DEF GepObjNodes
  <2>. QED BY <2>2, <2>3, <2>4
<1>. QED BY <1>1, CoversElements

-----------------------------------------------------------------------------
DeliveredInv == GraphTypeOK /\ PropagatedDelivered /\ PropagatedWithinPts

(* Every edge after the step comes from one before it whose source had     *)
(* propagated no less and whose target has lost nothing.                   *)
Tame(e, d) == /\ propa'[e[1]] \subseteq propa[d[1]]
              /\ Covers(fi', pts'[e[2]], pts[d[2]])

(* What was delivered along an edge stays delivered when objects become    *)
(* field-insensitive and points-to sets grow up to normalisation.          *)
LEMMA StaysDelivered ==
  ASSUME NEW F, NEW G, F \subseteq G,
         NEW D \in SUBSET Object, NEW E \in SUBSET Object, NEW H \in SUBSET Object,
         Covers(F, E, D), Covers(G, H, E)
  PROVE  Covers(G, H, D)
<1>1. Covers(G, E, D)
  BY CoversMoreInsensitive
<1>. QED BY <1>1, CoversTransitive

(* A step that adds no edge of its own keeps the invariant. *)
LEMMA TameStep ==
  ASSUME DeliveredInv, GraphTypeOK', fi \subseteq fi',
         \A n \in Node : Tame(<<n, n>>, <<n, n>>),
         \A e \in copyE' : \E d \in copyE : Tame(e, d),
         \A e \in vgepE' : \E d \in vgepE : Tame(e, d),
         \A e \in ngepE' : \E d \in ngepE : e[3] = d[3] /\ Tame(e, d)
  PROVE  DeliveredInv'
<1>. USE DEF DeliveredInv
<1>1. ASSUME NEW n \in Node PROVE Covers(fi', pts'[n], propa'[n])
  <2>1. propa'[n] \subseteq propa[n] /\ Covers(fi', pts'[n], pts[n])
    BY <1>1 DEF Tame
  <2>2. Covers(fi, pts[n], propa[n])
    BY <1>1 DEF PropagatedWithinPts
  <2>3. Covers(fi, pts[n], propa'[n])
    BY <2>1, <2>2, CoversSubset, CoversTransitive
  <2>4. /\ pts[n] \in SUBSET Object /\ pts'[n] \in SUBSET Object
        /\ propa'[n] \in SUBSET Object
    BY <1>1 DEF GraphTypeOK
  <2>. QED BY <2>1, <2>3, <2>4, StaysDelivered
<1>2. ASSUME NEW e \in copyE' PROVE Covers(fi', pts'[e[2]], propa'[e[1]])
  <2>1. PICK d \in copyE : Tame(e, d)
    BY <1>2
  <2>2. Covers(fi, pts[d[2]], propa'[e[1]])
    BY <2>1, CoversSubset, CoversTransitive DEF Tame, PropagatedDelivered
  <2>3. /\ pts[d[2]] \in SUBSET Object /\ pts'[e[2]] \in SUBSET Object
        /\ propa'[e[1]] \in SUBSET Object
    BY <1>2, <2>1 DEF GraphTypeOK
  <2>. QED BY <2>1, <2>2, <2>3, StaysDelivered DEF Tame
<1>3. ASSUME NEW e \in vgepE'
      PROVE  Covers(fi', pts'[e[2]], VariantObjNodes(propa'[e[1]]))
  <2>1. PICK d \in vgepE : Tame(e, d)
    BY <1>3
  <2>2. VariantObjNodes(propa'[e[1]]) \subseteq VariantObjNodes(propa[d[1]])
    BY <2>1 DEF Tame, VariantObjNodes
  <2>3. Covers(fi, pts[d[2]], VariantObjNodes(propa'[e[1]]))
    BY <2>1, <2>2, CoversSubset, CoversTransitive DEF PropagatedDelivered
  <2>4. /\ pts[d[2]] \in SUBSET Object /\ pts'[e[2]] \in SUBSET Object
        /\ VariantObjNodes(propa'[e[1]]) \in SUBSET Object
    BY <1>3, <2>1, VariantObjsType DEF GraphTypeOK
  <2>. QED BY <2>1, <2>3, <2>4, StaysDelivered DEF Tame
<1>4. ASSUME NEW e \in ngepE'
      PROVE  Covers(fi', pts'[e[2]], GepObjNodes(fi', propa'[e[1]], e[3]))
  <2>1. PICK d \in ngepE : e[3] = d[3] /\ Tame(e, d)
    BY <1>4
  <2>2. GepObjNodes(fi, propa'[e[1]], e[3]) \subseteq GepObjNodes(fi, propa[d[1]], e[3])
    BY <2>1 DEF Tame, GepObjNodes
  <2>3. Covers(fi, pts[d[2]], GepObjNodes(fi, propa'[e[1]], e[3]))
    BY <2>1, <2>2, CoversSubset, CoversTransitive DEF PropagatedDelivered
  <2>4. /\ pts[d[2]] \in SUBSET Object /\ pts'[e[2]] \in SUBSET Object
        /\ propa'[e[1]] \in SUBSET Object /\ e[3] \in Offset
    BY <1>4, <2>1 DEF GraphTypeOK
  <2>5. GepObjNodes(fi, propa'[e[1]], e[3]) \in SUBSET Object
    BY <2>4, GepObjsType
  <2>6. Covers(fi', pts'[e[2]], GepObjNodes(fi, propa'[e[1]], e[3]))
    BY <2>1, <2>3, <2>4, <2>5, StaysDelivered DEF Tame
  <2>. QED BY <2>4, <2>6, CoversGeps
<1>. QED BY <1>1, <1>2, <1>3, <1>4 DEF PropagatedDelivered, PropagatedWithinPts

(* A set that is equal covers. *)
LEMMA CoversItself ==
  ASSUME NEW F, NEW D PROVE Covers(F, D, D)
BY CoversSubset

(* A new copy edge: its source keeps as propagated only what its target    *)
(* has propagated too, hence points to.                                    *)
LEMMA AddCopyEdgeKeepsDelivered ==
  ASSUME DeliveredInv, NEW s \in Node, NEW d \in Node, AddCopyEdge(s, d),
         UNCHANGED <<prog, rep, loadE, storeE, ngepE, vgepE, pwc, pts, fi, fields>>
  PROVE  DeliveredInv'
<1>. USE DEF DeliveredInv
<1>1. GraphTypeOK'
  BY DEF GraphTypeOK, AddCopyEdge
<1>2. \A n \in Node : propa'[n] \subseteq propa[n]
  BY DEF GraphTypeOK, AddCopyEdge
<1>3. \A n \in Node : Covers(fi', pts'[n], propa'[n])
  BY <1>2, CoversSubset, CoversTransitive DEF PropagatedWithinPts
<1>4. ASSUME NEW e \in copyE' PROVE Covers(fi', pts'[e[2]], propa'[e[1]])
  <2>1. CASE e \in copyE
    <3>1. Covers(fi, pts[e[2]], propa[e[1]])
      BY <2>1 DEF PropagatedDelivered
    <3>2. e[1] \in Node
      BY <2>1 DEF GraphTypeOK
    <3>. QED BY <1>2, <3>1, <3>2, CoversSubset, CoversTransitive
  <2>2. CASE e = <<s, d>>
    <3>1. propa'[s] \subseteq propa[d]
      BY DEF GraphTypeOK, AddCopyEdge
    <3>2. Covers(fi, pts[d], propa[d])
      BY DEF PropagatedWithinPts
    <3>. QED BY <2>2, <3>1, <3>2, CoversSubset, CoversTransitive
  <2>. QED BY <1>4, <2>1, <2>2 DEF AddCopyEdge
<1>5. ASSUME NEW e \in vgepE'
      PROVE  Covers(fi', pts'[e[2]], VariantObjNodes(propa'[e[1]]))
  <2>1. e \in vgepE /\ e[1] \in Node
    BY <1>5 DEF GraphTypeOK
  <2>2. VariantObjNodes(propa'[e[1]]) \subseteq VariantObjNodes(propa[e[1]])
    BY <1>2, <2>1 DEF VariantObjNodes
  <2>. QED BY <2>1, <2>2, CoversSubset, CoversTransitive DEF PropagatedDelivered
<1>6. ASSUME NEW e \in ngepE'
      PROVE  Covers(fi', pts'[e[2]], GepObjNodes(fi', propa'[e[1]], e[3]))
  <2>1. e \in ngepE /\ e[1] \in Node
    BY <1>6 DEF GraphTypeOK
  <2>2. GepObjNodes(fi, propa'[e[1]], e[3]) \subseteq GepObjNodes(fi, propa[e[1]], e[3])
    BY <1>2, <2>1 DEF GepObjNodes
  <2>. QED BY <2>1, <2>2, CoversSubset, CoversTransitive DEF PropagatedDelivered
<1>. QED BY <1>1, <1>3, <1>4, <1>5, <1>6 DEF PropagatedDelivered, PropagatedWithinPts

-----------------------------------------------------------------------------
(* Merging keeps the state well typed ... *)
LEMMA MergeNodeToRepType ==
  ASSUME GraphTypeOK, NEW n \in Node, NEW r \in Node,
         NEW P \in [Node -> SUBSET Object], MergeNodeToRep(n, r, P),
         UNCHANGED <<prog, fi, fields>>
  PROVE  GraphTypeOK'
<1>. USE DEF GraphTypeOK
<1>1. \A x \in Node : Moved(x, n, r) \in Node
  BY DEF Moved
<1>2. ASSUME NEW E \in SUBSET (Node \X Node) PROVE MovedPairs(E, n, r) \in SUBSET (Node \X Node)
  BY <1>1 DEF MovedPairs
<1>3. copyE' \in SUBSET (Node \X Node)
  BY <1>2 DEF MergeNodeToRep, MergePts
<1>4. loadE' \in SUBSET (Node \X Node) /\ storeE' \in SUBSET (Node \X Node)
  BY <1>2 DEF MergeNodeToRep, MergePts
<1>5. vgepE' \in SUBSET (Node \X Node)
  BY <1>2 DEF MergeNodeToRep, MergePts
<1>6. MovedNormalGeps(n, r) \in SUBSET (Node \X Node \X Offset)
  BY <1>1 DEF MovedNormalGeps
<1>7. rep' \in [Node -> Node]
  BY <1>1 DEF MergeNodeToRep, MergePts
<1>8. pts' \in [Node -> SUBSET Object] /\ propa' \in [Node -> SUBSET Object]
  BY DEF MergeNodeToRep, MergePts
<1>9. pwc' \in SUBSET Node
  BY DEF MergeNodeToRep, MergePts
<1>. QED BY <1>3, <1>4, <1>5, <1>6, <1>7, <1>8, <1>9 DEF MergeNodeToRep, MergePts

(* ... every edge after a merge was there before, or was moved to r ... *)
LEMMA MovedEdges ==
  ASSUME GraphTypeOK, NEW n \in Node, NEW r \in Node, NEW P, MergeNodeToRep(n, r, P)
  PROVE  /\ \A e \in copyE' : \E d \in copyE : e[1] = Moved(d[1], n, r) /\ e[2] = Moved(d[2], n, r)
         /\ \A e \in vgepE' : \E d \in vgepE : e[1] = Moved(d[1], n, r) /\ e[2] = Moved(d[2], n, r)
         /\ \A e \in ngepE' : \E d \in ngepE : /\ e[1] = Moved(d[1], n, r)
                                               /\ e[2] = Moved(d[2], n, r)
                                               /\ e[3] = d[3]
<1>1. \A e \in copyE' : \E d \in copyE : e[1] = Moved(d[1], n, r) /\ e[2] = Moved(d[2], n, r)
  BY DEF MergeNodeToRep, MergePts, MovedPairs
<1>2. \A e \in vgepE' : \E d \in vgepE : e[1] = Moved(d[1], n, r) /\ e[2] = Moved(d[2], n, r)
  BY DEF MergeNodeToRep, MergePts, MovedPairs
<1>3. ASSUME NEW e \in MovedNormalGeps(n, r)
      PROVE  \E d \in ngepE : /\ e[1] = Moved(d[1], n, r) /\ e[2] = Moved(d[2], n, r)
                              /\ e[3] = d[3]
  <2>1. CASE e \in ngepE /\ ~Touches(e, n)
    BY <2>1 DEF Touches, Moved
  <2>2. CASE \E d \in ngepE : e = <<Moved(d[1], n, r), Moved(d[2], n, r), d[3]>>
    BY <2>2
  <2>. QED BY <1>3, <2>1, <2>2 DEF MovedNormalGeps
<1>. QED BY <1>1, <1>2, <1>3 DEF MergeNodeToRep, MergePts

(* ... and both ends of it are at least as good as they were. *)
LEMMA MergeNodeToRepKeepsDelivered ==
  ASSUME DeliveredInv, NEW n \in Node, NEW r \in Node,
         NEW P \in [Node -> SUBSET Object], \A x \in Node : Covers(fi, P[x], pts[x]),
         MergeNodeToRep(n, r, P), UNCHANGED <<prog, fi, fields>>
  PROVE  /\ DeliveredInv'
         /\ \A x \in Node : Covers(fi', pts'[Moved(x, n, r)], pts[x])
<1>. USE DEF DeliveredInv
<1>1. GraphTypeOK'
  BY MergeNodeToRepType
<1>2. ASSUME NEW x \in Node
      PROVE  /\ Covers(fi', pts'[Moved(x, n, r)], pts[x])
             /\ Covers(fi', pts'[x], pts[x])
             /\ propa'[x] \subseteq propa[x]
             /\ propa'[Moved(x, n, r)] \subseteq propa[x]
  <2>1. P[x] \subseteq pts'[x] /\ P[x] \subseteq pts'[Moved(x, n, r)]
    BY DEF MergeNodeToRep, MergePts, Moved
  <2>2. propa'[x] \subseteq propa[x] /\ propa'[Moved(x, n, r)] \subseteq propa[x]
    BY DEF MergeNodeToRep, MergePts, Moved, GraphTypeOK
  <2>. QED BY <2>1, <2>2, CoversSubset, CoversTransitive
<1>3. \A e \in copyE' : \E d \in copyE : Tame(e, d)
  BY <1>2, MovedEdges DEF Tame, GraphTypeOK
<1>4. \A e \in vgepE' : \E d \in vgepE : Tame(e, d)
  BY <1>2, MovedEdges DEF Tame, GraphTypeOK
<1>5. ASSUME NEW e \in ngepE' PROVE \E d \in ngepE : e[3] = d[3] /\ Tame(e, d)
  <2>1. PICK d \in ngepE : /\ e[1] = Moved(d[1], n, r) /\ e[2] = Moved(d[2], n, r)
                           /\ e[3] = d[3]
    BY MovedEdges
  <2>2. d[1] \in Node /\ d[2] \in Node
    BY DEF GraphTypeOK
  <2>. QED BY <1>2, <2>1, <2>2 DEF Tame
<1>6. \A x \in Node : Tame(<<x, x>>, <<x, x>>)
  BY <1>2 DEF Tame
<1>7. fi \subseteq fi'
  OBVIOUS
<1>8. DeliveredInv'
  BY <1>1, <1>3, <1>4, <1>5, <1>6, <1>7, TameStep
<1>. QED BY <1>2, <1>8

-----------------------------------------------------------------------------
(* mergeSccCycle merges nodes into nodes. *)
LEMMA MergesIntoType ==
  ASSUME NEW from \in SUBSET Node, NEW root \in RootsOf(SCCs(from))
  PROVE  MergesInto(root) \in SUBSET (Node \X Node)
<1>1. \A x, E : ReachableFrom(x, E) \in SUBSET Node
  BY DEF ReachableFrom
<1>2. ASSUME NEW K \in SCCs(from) PROVE K \in SUBSET Node
  <2>. DEFINE reach == [x \in Node |-> ReachableFrom(x, SCCEdges)]
  <2>1. \A c \in Node : reach[c] \in SUBSET Node
    <3>1. \A c \in Node : reach[c] = ReachableFrom(c, SCCEdges)
      OBVIOUS
    <3>. QED BY <1>1, <3>1
  <2>2. UNION {reach[c] : c \in from} \in SUBSET Node
    <3>. HIDE DEF reach
    <3>. QED BY <2>1
  <2>3. SCCs(from) \subseteq
           {{y \in reach[x] : x \in reach[y]} : x \in UNION {reach[c] : c \in from}}
    BY DEF SCCs
  <2>. HIDE DEF reach
  <2>4. PICK x \in Node : K = {y \in reach[x] : x \in reach[y]}
    BY <1>2, <2>2, <2>3
  <2>. QED BY <2>4, <2>1
<1>3. DOMAIN root = SCCs(from) /\ \A K \in SCCs(from) : root[K] \in Node
  BY DEF RootsOf
<1>. QED BY <1>2, <1>3 DEF MergesInto

-----------------------------------------------------------------------------
(* Precision.  Below L, a solution of the program read field-insensitively,*)
(* stay the points-to sets and the edges: what they pass on L has already. *)
Below(L) ==
  /\ \A n \in Node : Bases(pts[n]) \subseteq L[n]
  /\ \A n \in Node : L[rep[n]] = L[n]
  /\ \A e \in copyE \cup vgepE : L[e[1]] \subseteq L[e[2]]
  /\ \A e \in ngepE : L[e[1]] \subseteq L[e[2]]
  /\ \A e \in loadE : \A o \in L[e[1]] : L[o] \subseteq L[e[2]]
  /\ \A e \in storeE : \A o \in L[e[2]] : L[e[1]] \subseteq L[o]

LEMMA BuildCGBelow ==
  ASSUME NEW P \in Programs, NEW L, InsensitiveSolution(P, L), BuildCG(P)
  PROVE  Below(L)
<1>1. ASSUME NEW n \in Node, NEW o \in pts[n] PROVE BaseOf[o] \in L[n]
  <2>1. <<o, n>> \in P.addr
    BY <1>1 DEF BuildCG
  <2>2. \A e \in P.addr : BaseOf[e[1]] \in L[e[2]]
    BY DEF InsensitiveSolution
  <2>. QED BY <2>1, <2>2
<1>2. /\ copyE \subseteq P.copy /\ vgepE = P.vgep /\ ngepE = P.ngep
      /\ loadE = P.load /\ storeE = P.store
      /\ \A n \in Node : rep[n] = n
  BY DEF BuildCG
<1>. QED BY <1>1, <1>2 DEF InsensitiveSolution, Below, Bases

(* Components are cycles, on which L is constant: what a node reaches lies *)
(* in the set of the nodes that have what it has, since that is closed.    *)
LEMMA ReachableAbove ==
  ASSUME NEW L, NEW E, \A e \in E : e[2] \in Node /\ L[e[1]] \subseteq L[e[2]],
         NEW x \in Node, NEW y \in ReachableFrom(x, E)
  PROVE  L[x] \subseteq L[y]
<1>. DEFINE S == {z \in Node : L[x] \subseteq L[z]}
<1>1. S \in SUBSET Node /\ x \in S /\ \A e \in E : e[1] \in S => e[2] \in S
  OBVIOUS
<1>. HIDE DEF S
<1>2. y \in S
  BY <1>1 DEF ReachableFrom
<1>. QED BY <1>2 DEF S

LEMMA MergesAreLevel ==
  ASSUME GraphTypeOK, NEW L, Below(L), NEW from \in SUBSET Node,
         NEW root \in RootsOf(SCCs(from)), NEW e \in MergesInto(root)
  PROVE  L[e[1]] = L[e[2]]
<1>. DEFINE reach == [x \in Node |-> ReachableFrom(x, SCCEdges)]
<1>1. \A d \in SCCEdges : d[2] \in Node /\ L[d[1]] \subseteq L[d[2]]
  BY DEF SCCEdges, Below, GraphTypeOK
<1>2. PICK K \in SCCs(from) : e[1] \in K /\ e[2] \in K
  BY DEF MergesInto, RootsOf
<1>3. PICK x \in UNION {reach[c] : c \in from} : K = {y \in reach[x] : x \in reach[y]}
  BY <1>2 DEF SCCs
<1>4. \A z \in Node : reach[z] = ReachableFrom(z, SCCEdges) /\ reach[z] \subseteq Node
  BY DEF ReachableFrom
<1>5. x \in Node
  BY <1>3, <1>4
<1>. HIDE DEF reach
<1>6. ASSUME NEW y \in K PROVE y \in Node /\ L[x] = L[y]
  <2>1. y \in reach[x] /\ x \in reach[y]
    BY <1>3
  <2>2. y \in Node /\ y \in ReachableFrom(x, SCCEdges)
    BY <1>4, <1>5, <2>1
  <2>3. x \in ReachableFrom(y, SCCEdges)
    BY <1>4, <2>1, <2>2
  <2>4. L[x] \subseteq L[y]
    BY <1>1, <1>5, <2>2, ReachableAbove
  <2>5. L[y] \subseteq L[x]
    BY <1>1, <2>2, <2>3, ReachableAbove
  <2>. QED BY <2>2, <2>4, <2>5
<1>. QED BY <1>2, <1>6

(* Merging nodes of one level moves edges between equals. *)
LEMMA MergeKeepsBelow ==
  ASSUME GraphTypeOK, NEW L, Below(L), NEW n \in Node, NEW r \in Node, L[n] = L[r],
         NEW P \in [Node -> SUBSET Object], \A x \in Node : Bases(P[x]) \subseteq L[x],
         MergeNodeToRep(n, r, P)
  PROVE  Below(L)'
<1>1. \A x \in Node : Moved(x, n, r) \in Node /\ L[Moved(x, n, r)] = L[x]
  BY DEF Moved
<1>2. \A x \in Node : Bases(pts'[x]) \subseteq L[x]
  BY DEF MergeNodeToRep, MergePts, Bases
<1>3. \A x \in Node : L[rep'[x]] = L[x]
  BY <1>1 DEF MergeNodeToRep, MergePts, GraphTypeOK, Below
<1>4. ASSUME NEW E \in SUBSET (Node \X Node), NEW e \in MovedPairs(E, n, r)
      PROVE  \E d \in E : L[e[1]] = L[d[1]] /\ L[e[2]] = L[d[2]]
  BY <1>1 DEF MovedPairs
<1>5. \A e \in copyE' \cup vgepE' : L[e[1]] \subseteq L[e[2]]
  <2>1. \A e \in copyE' : \E d \in copyE : L[e[1]] = L[d[1]] /\ L[e[2]] = L[d[2]]
    BY <1>1, MovedEdges DEF GraphTypeOK
  <2>2. \A e \in vgepE' : \E d \in vgepE : L[e[1]] = L[d[1]] /\ L[e[2]] = L[d[2]]
    BY <1>1, MovedEdges DEF GraphTypeOK
  <2>. QED BY <2>1, <2>2 DEF Below
<1>6. ASSUME NEW e \in ngepE' PROVE L[e[1]] \subseteq L[e[2]]
  <2>1. PICK d \in ngepE : e[1] = Moved(d[1], n, r) /\ e[2] = Moved(d[2], n, r)
    BY MovedEdges
  <2>2. d[1] \in Node /\ d[2] \in Node
    BY DEF GraphTypeOK
  <2>. QED BY <1>1, <2>1, <2>2 DEF Below
<1>7. \A e \in loadE' : \A o \in L[e[1]] : L[o] \subseteq L[e[2]]
  <2>1. loadE' = MovedPairs(loadE, n, r) /\ loadE \in SUBSET (Node \X Node)
    BY DEF MergeNodeToRep, MergePts, GraphTypeOK
  <2>2. \A e \in loadE' : \E d \in loadE : L[e[1]] = L[d[1]] /\ L[e[2]] = L[d[2]]
    BY <1>4, <2>1
  <2>. QED BY <2>2 DEF Below
<1>8. \A e \in storeE' : \A o \in L[e[2]] : L[e[1]] \subseteq L[o]
  <2>1. storeE' = MovedPairs(storeE, n, r) /\ storeE \in SUBSET (Node \X Node)
    BY DEF MergeNodeToRep, MergePts, GraphTypeOK
  <2>2. \A e \in storeE' : \E d \in storeE : L[e[1]] = L[d[1]] /\ L[e[2]] = L[d[2]]
    BY <1>4, <2>1
  <2>. QED BY <2>2 DEF Below
<1>. QED BY <1>2, <1>3, <1>5, <1>6, <1>7, <1>8 DEF Below

(* A new copy edge between levels that are ordered. *)
LEMMA AddCopyEdgeKeepsBelow ==
  ASSUME NEW L, Below(L), NEW s \in Node, NEW d \in Node, L[s] \subseteq L[d],
         AddCopyEdge(s, d), UNCHANGED <<rep, loadE, storeE, ngepE, vgepE, pts>>
  PROVE  Below(L)'
BY DEF AddCopyEdge, Below

-----------------------------------------------------------------------------
(* Strongly connected components. *)

(* Reachability goes on where it has got to. *)
LEMMA ReachableTransitive ==
  ASSUME NEW E, NEW x \in Node, NEW y \in ReachableFrom(x, E), NEW z \in ReachableFrom(y, E)
  PROVE  z \in ReachableFrom(x, E)
<1>1. z \in Node
  BY DEF ReachableFrom
<1>2. ASSUME NEW S \in SUBSET Node, x \in S, \A e \in E : e[1] \in S => e[2] \in S
      PROVE  z \in S
  <2>1. y \in S
    BY <1>2 DEF ReachableFrom
  <2>. QED BY <1>2, <2>1 DEF ReachableFrom
<1>. QED BY <1>1, <1>2 DEF ReachableFrom

(* A node is reachable from another only along an edge. *)
LEMMA ReachableByEdge ==
  ASSUME NEW E, \A e \in E : e[2] \in Node,
         NEW x \in Node, NEW y \in ReachableFrom(x, E), x # y
  PROVE  \E e \in E : e[2] = y
<1>. SUFFICES ASSUME \A e \in E : e[2] # y PROVE FALSE
  OBVIOUS
<1>. DEFINE T == Node \ {y}
<1>1. T \in SUBSET Node /\ x \in T /\ \A e \in E : e[1] \in T => e[2] \in T
  OBVIOUS
<1>. HIDE DEF T
<1>2. y \in T
  BY <1>1 DEF ReachableFrom
<1>. QED BY <1>2 DEF T

(* A component is the set of nodes that reach, and are reached from, one   *)
(* of them: two components that meet are one ...                           *)
LEMMA ComponentOf ==
  ASSUME NEW from \in SUBSET Node, NEW K \in SCCs(from)
  PROVE  /\ \E x \in Node : K = {y \in ReachableFrom(x, SCCEdges) :
                                   x \in ReachableFrom(y, SCCEdges)}
         /\ Cardinality(K) > 1
<1>. DEFINE reach == [x \in Node |-> ReachableFrom(x, SCCEdges)]
<1>1. PICK x \in UNION {reach[c] : c \in from} : K = {y \in reach[x] : x \in reach[y]}
  BY DEF SCCs
<1>2. \A z \in Node : reach[z] = ReachableFrom(z, SCCEdges) /\ reach[z] \subseteq Node
  BY DEF ReachableFrom
<1>3. Cardinality(K) > 1
  BY DEF SCCs
<1>. HIDE DEF reach
<1>4. x \in Node
  BY <1>1, <1>2
<1>5. K = {y \in ReachableFrom(x, SCCEdges) : x \in ReachableFrom(y, SCCEdges)}
  BY <1>1, <1>2, <1>4
<1>. QED BY <1>3, <1>4, <1>5

LEMMA ComponentsDisjoint ==
  ASSUME NEW from \in SUBSET Node, NEW K \in SCCs(from), NEW J \in SCCs(from),
         NEW z \in K, z \in J
  PROVE  K = J
<1>. DEFINE R(x) == ReachableFrom(x, SCCEdges)
<1>1. PICK x \in Node : K = {y \in R(x) : x \in R(y)}
  BY ComponentOf
<1>2. PICK w \in Node : J = {y \in R(w) : w \in R(y)}
  BY ComponentOf
<1>3. \A u, v \in Node : \A t \in R(v) : v \in R(u) => t \in R(u)
  BY ReachableTransitive
<1>4. \A u : R(u) \subseteq Node
  BY DEF ReachableFrom
<1>. HIDE DEF R
<1>5. z \in Node /\ z \in R(x) /\ x \in R(z) /\ z \in R(w) /\ w \in R(z)
  BY <1>1, <1>2, <1>4
<1>6. x \in R(w) /\ w \in R(x)
  BY <1>3, <1>5
<1>7. ASSUME NEW y PROVE y \in K <=> y \in J
  BY <1>1, <1>2, <1>3, <1>4, <1>6
<1>. QED BY <1>7

(* ... and every member of a component has an edge coming in. *)
LEMMA ComponentHasEdges ==
  ASSUME NEW from \in SUBSET Node, NEW K \in SCCs(from), NEW y \in K,
         \A e \in SCCEdges : e[2] \in Node
  PROVE  \E e \in SCCEdges : e[2] = y
<1>. DEFINE R(x) == ReachableFrom(x, SCCEdges)
<1>1. PICK x \in Node : K = {u \in R(x) : x \in R(u)}
  BY ComponentOf
<1>2. Cardinality(K) > 1
  BY ComponentOf
<1>3. \A u : R(u) \subseteq Node
  BY DEF ReachableFrom
<1>4. PICK u \in K : u # y
  <2>1. K # {y}
    BY <1>2, FS_Singleton
  <2>. QED BY <2>1
<1>5. y \in R(u)
  <2>1. y \in R(x) /\ x \in R(u) /\ u \in Node
    BY <1>1, <1>3
  <2>. QED BY <2>1, ReachableTransitive
<1>6. u \in Node
  BY <1>1, <1>3
<1>. QED BY <1>4, <1>5, <1>6, ReachableByEdge

-----------------------------------------------------------------------------
(* The base solver. *)

(* While collapseField runs, the object it works on is a whole object that *)
(* has been made field-insensitive, and the queue holds fields of it.      *)
CollapseInv ==
  collapsing # NoNode =>
    /\ collapsing \in fi
    /\ BaseOf[collapsing] = collapsing
    /\ \A f \in fieldQ : BaseOf[f] = collapsing

(* The inductive invariant. *)
IInv == SolverTypeOK /\ DeliveredInv /\ CollapseInv

Grows == \A n \in Node : Covers(fi', Solution'[n], Solution[n])

Kept == IInv' /\ Grows

-----------------------------------------------------------------------------
LEMMA InitIInv == Init => IInv
<1>. SUFFICES ASSUME Init PROVE IInv
  OBVIOUS
<1>1. PICK P \in Programs : BuildCG(P)
  BY DEF Init
<1>2. P \in Program
  BY SystemAssumption
<1>3. GraphTypeOK
  BY <1>1, <1>2, SystemAssumption DEF BuildCG, GraphTypeOK, Program, Mentioned
<1>4. \A n \in Node : propa[n] = {}
  BY <1>1 DEF BuildCG
<1>5. \A n \in Node : Covers(fi, pts[n], propa[n])
  BY <1>4, CoversSubset
<1>6. ASSUME NEW e \in copyE PROVE Covers(fi, pts[e[2]], propa[e[1]])
  BY <1>3, <1>4, CoversSubset DEF GraphTypeOK
<1>7. ASSUME NEW e \in vgepE PROVE Covers(fi, pts[e[2]], VariantObjNodes(propa[e[1]]))
  <2>1. VariantObjNodes(propa[e[1]]) = {}
    BY <1>3, <1>4 DEF VariantObjNodes, GraphTypeOK
  <2>. QED BY <2>1, CoversSubset
<1>8. ASSUME NEW e \in ngepE
      PROVE  Covers(fi, pts[e[2]], GepObjNodes(fi, propa[e[1]], e[3]))
  <2>1. GepObjNodes(fi, propa[e[1]], e[3]) = {}
    BY <1>3, <1>4 DEF GepObjNodes, GraphTypeOK
  <2>. QED BY <2>1, CoversSubset
<1>9. SolverTypeOK
  BY DEF Init, SolverTypeOK, Handlers
<1>. QED BY <1>3, <1>5, <1>6, <1>7, <1>8, <1>9
         DEF Init, IInv, DeliveredInv, CollapseInv, PropagatedDelivered, PropagatedWithinPts

-----------------------------------------------------------------------------
(* A step that leaves the graph alone. *)
LEMMA GraphUnchanged ==
  ASSUME IInv, UNCHANGED graph, SolverTypeOK', CollapseInv' PROVE Kept
<1>1. DeliveredInv'
  BY DEF IInv, DeliveredInv, GraphTypeOK, PropagatedDelivered, PropagatedWithinPts,
         graph, edges
<1>2. Grows
  BY CoversItself DEF Grows, Solution, graph
<1>. QED BY <1>1, <1>2 DEF Kept, IInv

(* A step that only adds to fi. *)
LEMMA StartCollapseKeeps ==
  ASSUME IInv, NEW o \in Object, StartCollapse(o),
         ptsQ' \in SUBSET Object, toCollapse' \in SUBSET Object
  PROVE  Kept
<1>. USE DEF IInv, DeliveredInv
<1>1. /\ BaseOf[o] \in Object /\ BaseOf[BaseOf[o]] = BaseOf[o] /\ NoNode \notin Object
  BY SystemAssumption
<1>2. GraphTypeOK'
  BY <1>1 DEF StartCollapse, GraphTypeOK, edges
<1>3. SolverTypeOK'
  BY <1>1 DEF StartCollapse, SolverTypeOK, GraphTypeOK
<1>4. CollapseInv'
  BY <1>1 DEF StartCollapse, CollapseInv
<1>5. \A n \in Node : propa'[n] = propa[n] /\ Covers(fi', pts'[n], pts[n])
  BY CoversItself DEF StartCollapse
<1>6. DeliveredInv'
  <2>1. \A n \in Node : Tame(<<n, n>>, <<n, n>>)
    BY <1>5 DEF Tame
  <2>2. \A e \in copyE' : e \in copyE /\ Tame(e, e)
    BY <1>5 DEF Tame, StartCollapse, GraphTypeOK, edges
  <2>3. \A e \in vgepE' : e \in vgepE /\ Tame(e, e)
    BY <1>5 DEF Tame, StartCollapse, GraphTypeOK, edges
  <2>4. \A e \in ngepE' : e \in ngepE /\ Tame(e, e)
    BY <1>5 DEF Tame, StartCollapse, GraphTypeOK, edges
  <2>5. fi \subseteq fi'
    BY DEF StartCollapse
  <2>. QED BY <1>2, <2>1, <2>2, <2>3, <2>4, <2>5, TameStep
<1>7. Grows
  BY CoversItself DEF Grows, Solution, StartCollapse
<1>. QED BY <1>3, <1>4, <1>6, <1>7 DEF Kept

LEMMA CollapseObjectKeeps ==
  ASSUME IInv, CollapseObject PROVE Kept
<1>1. PICK o \in NextToCollapse :
        /\ StartCollapse(o)
        /\ ptsQ' = ptsQ \ {o}
        /\ toCollapse' = IF o \in StillToCollapse(ptsQ) THEN toCollapse
                         ELSE toCollapse \ {o}
  BY DEF CollapseObject
<1>2. NextToCollapse \subseteq ptsQ \cup toCollapse
  BY DEF NextToCollapse, StillToCollapse
<1>3. o \in Object /\ ptsQ' \in SUBSET Object /\ toCollapse' \in SUBSET Object
  BY <1>1, <1>2 DEF IInv, SolverTypeOK
<1>. QED BY <1>1, <1>3, StartCollapseKeeps

(* Merging a cycle's node into its root. *)
LEMMA MergeKeeps ==
  ASSUME IInv, NEW n \in Node, NEW r \in Node, MergeNodeToRep(n, r, pts),
         UNCHANGED <<prog, fi, fields>>, SolverTypeOK', CollapseInv'
  PROVE  Kept
<1>. USE DEF IInv, DeliveredInv
<1>1. /\ DeliveredInv'
      /\ \A x \in Node : Covers(fi', pts'[Moved(x, n, r)], pts[x])
  <2>1. pts \in [Node -> SUBSET Object] /\ \A x \in Node : Covers(fi, pts[x], pts[x])
    BY CoversItself DEF GraphTypeOK
  <2>. QED BY <2>1, MergeNodeToRepKeepsDelivered
<1>2. Grows
  BY <1>1 DEF Grows, Solution, GraphTypeOK, MergeNodeToRep, MergePts
<1>. QED BY <1>1, <1>2 DEF Kept

-----------------------------------------------------------------------------
(* Pointing to the whole object b instead of its field f loses nothing.    *)
LEMMA PointeeReplacedCovers ==
  ASSUME GraphTypeOK, NEW b \in fi, NEW f \in Object, BaseOf[f] = b, BaseOf[b] = b
  PROVE  /\ PointeeReplaced(f, b) \in [Node -> SUBSET Object]
         /\ \A n \in Node : Covers(fi, PointeeReplaced(f, b)[n], pts[n])
<1>1. b \in Object
  BY DEF GraphTypeOK
<1>2. PointeeReplaced(f, b) \in [Node -> SUBSET Object]
  BY <1>1 DEF PointeeReplaced, GraphTypeOK
<1>3. Norm(fi, f) = Norm(fi, b)
  BY DEF Norm
<1>4. ASSUME NEW n \in Node, NEW o \in pts[n]
      PROVE  \E x \in PointeeReplaced(f, b)[n] : Norm(fi, o) = Norm(fi, x)
  <2>1. CASE o = f
    <3>1. b \in PointeeReplaced(f, b)[n]
      BY <1>4, <2>1 DEF PointeeReplaced
    <3>. QED BY <1>3, <2>1, <3>1
  <2>2. CASE o # f
    <3>1. o \in PointeeReplaced(f, b)[n]
      BY <1>4, <2>2 DEF PointeeReplaced
    <3>. QED BY <3>1
  <2>. QED BY <2>1, <2>2
<1>. QED BY <1>2, <1>4, CoversElements

LEMMA CollapseOneFieldKeeps ==
  ASSUME IInv, NEW pushes \in BOOLEAN, CollapseOneField(pushes) PROVE Kept
<1>. USE DEF IInv, DeliveredInv
<1>. DEFINE b == collapsing
<1>1. PICK f \in fieldQ :
         /\ fieldQ' = fieldQ \ {f}
         /\ \/ /\ rep[f] = rep[b]
               /\ pts' = PointeeReplaced(f, b)
               /\ worklist' = worklist \cup {rep[n] : n \in {m \in Node : f \in pts[m]}}
               /\ UNCHANGED <<rep, edges, pwc, propa>>
            \/ /\ rep[f] # rep[b]
               /\ MergeNodeToRep(rep[f], rep[b], PointeeReplaced(f, b))
               /\ worklist' = worklist \cup {rep[n] : n \in {m \in Node : f \in pts[m]}}
                                       \cup (IF pushes THEN {rep[b]} ELSE {})
         /\ reanalyze' = (reanalyze \/ {m \in Node : f \in pts[m]} # {})
  BY DEF CollapseOneField
<1>2. /\ UNCHANGED <<prog, fi, fields>>
      /\ UNCHANGED <<pc, cur, ptsQ, toCollapse, collapsing, callgraph, connectQ>>
      /\ collapsing # NoNode
  BY DEF CollapseOneField
<1>3. /\ b \in fi /\ b \in Object /\ BaseOf[b] = b
      /\ f \in Object /\ BaseOf[f] = b
      /\ b \in Node /\ f \in Node
  BY <1>1, <1>2, SystemAssumption DEF CollapseInv, SolverTypeOK
<1>4. rep[f] \in Node /\ rep[b] \in Node
  BY <1>3 DEF GraphTypeOK
<1>5. /\ PointeeReplaced(f, b) \in [Node -> SUBSET Object]
      /\ \A n \in Node : Covers(fi, PointeeReplaced(f, b)[n], pts[n])
  BY <1>3, PointeeReplacedCovers
<1>6. worklist' \in SUBSET Node
  <2>1. {rep[n] : n \in {m \in Node : f \in pts[m]}} \in SUBSET Node
    BY DEF GraphTypeOK
  <2>. QED BY <1>1, <1>4, <2>1 DEF SolverTypeOK
<1>7. SolverTypeOK'
  <2>1. reanalyze' \in BOOLEAN
    BY <1>1
  <2>2. fieldQ' \in SUBSET Object
    BY <1>1 DEF SolverTypeOK
  <2>. QED BY <1>2, <1>6, <2>1, <2>2 DEF SolverTypeOK
<1>8. CollapseInv'
  BY <1>1, <1>2 DEF CollapseInv
<1>9. CASE rep[f] = rep[b]
  <2>1. pts' = PointeeReplaced(f, b) /\ UNCHANGED <<rep, edges, pwc, propa>>
    BY <1>1, <1>9
  <2>2. GraphTypeOK'
    BY <1>2, <1>5, <2>1 DEF GraphTypeOK, edges
  <2>3. \A n \in Node : propa'[n] = propa[n] /\ Covers(fi', pts'[n], pts[n])
    BY <1>2, <1>5, <2>1
  <2>4. DeliveredInv'
    <3>1. \A n \in Node : Tame(<<n, n>>, <<n, n>>)
      BY <2>3 DEF Tame
    <3>2. \A e \in copyE' : e \in copyE /\ Tame(e, e)
      BY <2>1, <2>3 DEF Tame, GraphTypeOK, edges
    <3>3. \A e \in vgepE' : e \in vgepE /\ Tame(e, e)
      BY <2>1, <2>3 DEF Tame, GraphTypeOK, edges
    <3>4. \A e \in ngepE' : e \in ngepE /\ Tame(e, e)
      BY <2>1, <2>3 DEF Tame, GraphTypeOK, edges
    <3>. QED BY <1>2, <2>2, <3>1, <3>2, <3>3, <3>4, TameStep
  <2>5. Grows
    BY <2>1, <2>3 DEF Grows, Solution, GraphTypeOK
  <2>. QED BY <1>7, <1>8, <2>4, <2>5 DEF Kept
<1>10. CASE rep[f] # rep[b]
  <2>1. MergeNodeToRep(rep[f], rep[b], PointeeReplaced(f, b))
    BY <1>1, <1>10
  <2>2. /\ DeliveredInv'
        /\ \A x \in Node : Covers(fi', pts'[Moved(x, rep[f], rep[b])], pts[x])
    BY <1>2, <1>4, <1>5, <2>1, MergeNodeToRepKeepsDelivered
  <2>3. Grows
    BY <2>1, <2>2 DEF Grows, Solution, GraphTypeOK, MergeNodeToRep, MergePts
  <2>. QED BY <1>7, <1>8, <2>2, <2>3 DEF Kept
<1>. QED BY <1>9, <1>10

-----------------------------------------------------------------------------
(* Steps that move between handlers. *)
LEMMA EndCollapseKeeps ==
  ASSUME IInv, EndCollapse PROVE Kept
<1>1. collapsing \in Node
  BY SystemAssumption DEF EndCollapse, IInv, SolverTypeOK
<1>2. ptsQ' \in SUBSET Object
  BY <1>1 DEF EndCollapse, IInv, SolverTypeOK, DeliveredInv, GraphTypeOK
<1>3. SolverTypeOK' /\ CollapseInv'
  BY <1>2 DEF EndCollapse, IInv, SolverTypeOK, CollapseInv
<1>. QED BY <1>3, GraphUnchanged DEF EndCollapse

LEMMA PopKeeps ==
  ASSUME IInv, Pop PROVE Kept
<1>1. PICK d \in worklist :
         /\ worklist' = worklist \ {d}
         /\ cur' = rep[d]
         /\ ptsQ' = IF MergePWC /\ rep[d] \in pwc THEN pts[rep[d]] ELSE {}
  BY DEF Pop
<1>2. rep[d] \in Node /\ pts[rep[d]] \in SUBSET Object
  BY <1>1 DEF IInv, SolverTypeOK, DeliveredInv, GraphTypeOK
<1>3. SolverTypeOK' /\ CollapseInv'
  BY <1>1, <1>2 DEF Pop, IInv, SolverTypeOK, CollapseInv, Handlers, graph
<1>. QED BY <1>3, GraphUnchanged DEF Pop

LEMMA StartNodeKeeps ==
  ASSUME IInv, NEW handler \in Handlers, StartNode(handler) PROVE Kept
<1>1. SolverTypeOK' /\ CollapseInv'
  BY DEF StartNode, IInv, SolverTypeOK, CollapseInv, Handlers, graph
<1>. QED BY <1>1, GraphUnchanged DEF StartNode

LEMMA EndLoadStoreKeeps ==
  ASSUME IInv, NEW next \in Handlers, EndLoadStore(next) PROVE Kept
<1>1. SolverTypeOK' /\ CollapseInv'
  BY DEF EndLoadStore, IInv, SolverTypeOK, CollapseInv, graph
<1>. QED BY <1>1, GraphUnchanged DEF EndLoadStore

LEMMA EndNodeKeeps ==
  ASSUME IInv, EndNode PROVE Kept
<1>1. SolverTypeOK' /\ CollapseInv'
  BY DEF EndNode, IInv, SolverTypeOK, CollapseInv, Handlers, graph
<1>. QED BY <1>1, GraphUnchanged DEF EndNode

-----------------------------------------------------------------------------
(* Steps that add copy edges. *)
LEMMA AddCopyEdgeKeeps ==
  ASSUME IInv, NEW s \in Node, NEW d \in Node, AddCopyEdge(s, d),
         UNCHANGED <<prog, rep, loadE, storeE, ngepE, vgepE, pwc, pts, fi, fields>>,
         SolverTypeOK', CollapseInv'
  PROVE  Kept
<1>1. DeliveredInv'
  BY AddCopyEdgeKeepsDelivered DEF IInv
<1>2. Grows
  BY CoversItself DEF Grows, Solution
<1>. QED BY <1>1, <1>2 DEF Kept, IInv

LEMMA MissingCopiesType ==
  ASSUME IInv, NEW n, NEW e \in MissingCopies(n)
  PROVE  e[1] \in Node /\ e[2] \in Node
<1>. USE DEF IInv, DeliveredInv, GraphTypeOK
<1>1. PICK o \in pts[n] \ NonPointer : e \in LoadCopies(n, o) \cup StoreCopies(n, o)
  BY DEF MissingCopies, DerivedCopies
<1>2. CASE e \in LoadCopies(n, o)
  <2>1. PICK x \in loadE : x[1] = n /\ e = <<rep[o], x[2]>>
    BY <1>2 DEF LoadCopies
  <2>2. n \in Node /\ x[2] \in Node
    BY <2>1
  <2>3. o \in Node
    BY <1>1, <2>2, SystemAssumption
  <2>. QED BY <2>1, <2>2, <2>3
<1>3. CASE e \in StoreCopies(n, o)
  <2>1. PICK x \in storeE : x[2] = n /\ e = <<x[1], rep[o]>>
    BY <1>3 DEF StoreCopies
  <2>2. n \in Node /\ x[1] \in Node
    BY <2>1
  <2>3. o \in Node
    BY <1>1, <2>2, SystemAssumption
  <2>. QED BY <2>1, <2>2, <2>3
<1>. QED BY <1>1, <1>2, <1>3

LEMMA ProcessLoadStoreKeeps ==
  ASSUME IInv, ProcessLoadStore PROVE Kept
<1>1. PICK e \in MissingCopies(cur) :
         AddCopyEdge(e[1], e[2]) /\ worklist' = worklist \cup {e[1]}
  BY DEF ProcessLoadStore
<1>2. e[1] \in Node /\ e[2] \in Node
  BY MissingCopiesType
<1>3. SolverTypeOK' /\ CollapseInv'
  BY <1>1, <1>2 DEF ProcessLoadStore, IInv, SolverTypeOK, CollapseInv
<1>. QED BY <1>1, <1>2, <1>3, AddCopyEdgeKeeps DEF ProcessLoadStore

LEMMA UpdateCallGraphKeeps ==
  ASSUME IInv, UpdateCallGraph PROVE Kept
<1>1. ASSUME NEW c \in NewTargets
      PROVE  /\ c[1] \in Node /\ c[2] \in Object
             /\ rep[c[3]] \in Node /\ rep[c[4]] \in Node
  <2>1. prog \in Program /\ c \in prog.icall
    BY <1>1, SystemAssumption DEF NewTargets, IInv, DeliveredInv, GraphTypeOK
  <2>2. c \in Node \X Object \X Node \X Node
    BY <2>1 DEF Program
  <2>. QED BY <2>2 DEF IInv, DeliveredInv, GraphTypeOK
<1>2. callgraph' \in SUBSET (Node \X Object) /\ connectQ' \in SUBSET (Node \X Node)
  BY <1>1 DEF UpdateCallGraph, IInv, SolverTypeOK
<1>3. SolverTypeOK' /\ CollapseInv'
  BY <1>2 DEF UpdateCallGraph, IInv, SolverTypeOK, CollapseInv, Handlers, graph,
         NextRound
<1>. QED BY <1>3, GraphUnchanged DEF UpdateCallGraph

LEMMA ConnectParamKeeps ==
  ASSUME IInv, ConnectParam PROVE Kept
<1>1. PICK e \in connectQ :
         /\ connectQ' = connectQ \ {e}
         /\ \/ /\ NewCopy(e[1], e[2])
               /\ AddCopyEdge(e[1], e[2])
               /\ worklist' = worklist \cup {e[1]}
            \/ /\ ~NewCopy(e[1], e[2])
               /\ UNCHANGED <<copyE, propa, worklist>>
  BY DEF ConnectParam
<1>2. e[1] \in Node /\ e[2] \in Node
  BY DEF IInv, SolverTypeOK
<1>3. SolverTypeOK' /\ CollapseInv'
  BY <1>1, <1>2 DEF ConnectParam, IInv, SolverTypeOK, CollapseInv
<1>4. CASE AddCopyEdge(e[1], e[2])
  BY <1>2, <1>3, <1>4, AddCopyEdgeKeeps DEF ConnectParam
<1>5. CASE UNCHANGED <<copyE, propa, worklist>>
  BY <1>3, <1>5, GraphUnchanged DEF ConnectParam, graph, edges
<1>. QED BY <1>1, <1>4, <1>5

LEMMA EndConnectKeeps ==
  ASSUME IInv, EndConnect PROVE Kept
<1>1. SolverTypeOK' /\ CollapseInv'
  BY DEF EndConnect, IInv, SolverTypeOK, CollapseInv, Handlers, graph
<1>. QED BY <1>1, GraphUnchanged DEF EndConnect

LEMMA StutterKeeps ==
  ASSUME IInv, UNCHANGED vars PROVE Kept
<1>1. UNCHANGED graph /\ SolverTypeOK' /\ CollapseInv'
  BY DEF vars, control, IInv, SolverTypeOK, CollapseInv, graph
<1>. QED BY <1>1, GraphUnchanged

-----------------------------------------------------------------------------
(* Propagation along the out-edges of cur. *)
LEMMA CoversUnion ==
  ASSUME NEW F, NEW C, NEW D, NEW E, NEW S, Covers(F, E, C), Covers(F, E, D),
         S \subseteq C \cup D
  PROVE  Covers(F, E, S)
BY DEF Covers, NormSet

LEMMA VariantGepBasesType ==
  ASSUME IInv, NEW n PROVE VariantGepBases(n) \in SUBSET Object
<1>1. CASE \E e \in vgepE : e[1] = n
  <2>1. n \in Node
    BY <1>1 DEF IInv, DeliveredInv, GraphTypeOK
  <2>2. DiffPts(n) \in SUBSET Object
    BY <2>1 DEF DiffPts, IInv, DeliveredInv, GraphTypeOK
  <2>. QED BY <2>2, SystemAssumption DEF VariantGepBases
<1>. QED BY <1>1 DEF VariantGepBases

(* What each kind of edge contributes to Received. *)
LEMMA ReceivedParts ==
  ASSUME IInv, NEW n, NEW d \in Node, NEW Early
  PROVE  /\ Received(n, d, Early) \in SUBSET Object
         /\ <<n, d>> \in copyE => DiffPts(n) \subseteq Received(n, d, Early)
         /\ <<n, d>> \in vgepE => VariantObjNodes(DiffPts(n)) \subseteq Received(n, d, Early)
         /\ \A e \in ngepE : e[1] = n /\ e[2] = d =>
              GepObjNodes(IF e \in Early THEN fi ELSE fi \cup VariantGepBases(n),
                          DiffPts(n), e[3]) \subseteq Received(n, d, Early)
<1>. USE DEF IInv, DeliveredInv, GraphTypeOK
<1>. DEFINE F(e) == IF e \in Early THEN fi ELSE fi \cup VariantGepBases(n)
            C == {DiffPts(n) : e \in {x \in copyE : x = <<n, d>>}}
            V == {VariantObjNodes(DiffPts(n)) : e \in {x \in vgepE : x = <<n, d>>}}
            G == {GepObjNodes(F(e), DiffPts(n), e[3]) :
                    e \in {x \in ngepE : x[1] = n /\ x[2] = d}}
<1>1. Received(n, d, Early) = UNION (C \cup V \cup G)
  BY DEF Received
<1>2. ASSUME n \in Node PROVE DiffPts(n) \in SUBSET Object
  BY <1>2 DEF DiffPts
<1>3. ASSUME NEW S \in C PROVE S \in SUBSET Object
  <2>1. n \in Node
    BY <1>3
  <2>. QED BY <1>2, <1>3, <2>1
<1>4. ASSUME NEW S \in V PROVE S \in SUBSET Object
  <2>1. n \in Node
    BY <1>4
  <2>. QED BY <1>2, <1>4, <2>1, VariantObjsType
<1>5. ASSUME NEW S \in G PROVE S \in SUBSET Object
  <2>1. PICK e \in ngepE : e[1] = n /\ S = GepObjNodes(F(e), DiffPts(n), e[3])
    BY <1>5
  <2>2. n \in Node /\ e[3] \in Offset
    BY <2>1
  <2>. QED BY <1>2, <2>1, <2>2, GepObjsType
<1>6. Received(n, d, Early) \in SUBSET Object
  BY <1>1, <1>3, <1>4, <1>5
<1>7. ASSUME <<n, d>> \in copyE PROVE DiffPts(n) \subseteq Received(n, d, Early)
  <2>1. DiffPts(n) \in C
    BY <1>7
  <2>. QED BY <1>1, <2>1
<1>8. ASSUME <<n, d>> \in vgepE
      PROVE  VariantObjNodes(DiffPts(n)) \subseteq Received(n, d, Early)
  <2>1. VariantObjNodes(DiffPts(n)) \in V
    BY <1>8
  <2>. QED BY <1>1, <2>1
<1>9. ASSUME NEW e \in ngepE, e[1] = n, e[2] = d
      PROVE  GepObjNodes(F(e), DiffPts(n), e[3]) \subseteq Received(n, d, Early)
  <2>1. GepObjNodes(F(e), DiffPts(n), e[3]) \in G
    BY <1>9
  <2>. QED BY <1>1, <2>1
<1>. QED BY <1>6, <1>7, <1>8, <1>9

(* Difference propagation delivers what it then records: the part that cur *)
(* had not propagated arrives now, the rest had arrived before.            *)
LEMMA PropagateKeepsDelivered ==
  ASSUME IInv, NEW Early, Propagate(Early), UNCHANGED <<prog, rep, edges, pwc>>
  PROVE  /\ DeliveredInv'
         /\ \A n \in Node : Covers(fi', pts'[n], pts[n])
<1>. USE DEF IInv, DeliveredInv
<1>1. /\ \A d \in Node : pts'[d] = pts[d] \cup Received(cur, d, Early)
      /\ fi' = fi \cup VariantGepBases(cur)
      /\ fields' = fields \cup
            {f \in UNION {Received(cur, d, Early) : d \in Node} : BaseOf[f] # f}
  BY DEF Propagate
<1>2. /\ copyE' = copyE /\ vgepE' = vgepE /\ ngepE' = ngepE
      /\ UNCHANGED <<prog, rep, loadE, storeE, pwc>>
  BY DEF edges
<1>3. \A n \in Node : propa'[n] = IF n = cur THEN pts[n] ELSE propa[n]
  BY DEF Propagate, GraphTypeOK
<1>4. \A d \in Node : Received(cur, d, Early) \in SUBSET Object
  BY ReceivedParts
<1>5. GraphTypeOK'
  <2>1. pts' \in [Node -> SUBSET Object]
    BY <1>4 DEF Propagate, GraphTypeOK
  <2>2. propa' \in [Node -> SUBSET Object]
    BY DEF Propagate, GraphTypeOK
  <2>3. fi' \in SUBSET Object
    BY <1>1, VariantGepBasesType DEF GraphTypeOK
  <2>4. fields' \in SUBSET Object
    BY <1>1, <1>4 DEF GraphTypeOK
  <2>. QED BY <1>2, <2>1, <2>2, <2>3, <2>4 DEF GraphTypeOK
<1>6. \A n \in Node : pts[n] \in SUBSET Object /\ pts'[n] \in SUBSET Object /\ propa[n] \in SUBSET Object
  BY <1>5 DEF GraphTypeOK
<1>7. \A n \in Node : Covers(fi', pts'[n], pts[n])
  BY <1>1, CoversSubset
<1>8. fi \subseteq fi'
  BY <1>1
<1>9. ASSUME NEW n \in Node PROVE Covers(fi', pts'[n], propa'[n])
  <2>1. CASE n = cur
    BY <1>3, <1>7, <2>1
  <2>2. CASE n # cur
    <3>1. Covers(fi, pts[n], propa[n])
      BY DEF PropagatedWithinPts
    <3>. QED BY <1>3, <1>6, <1>7, <1>8, <2>2, <3>1, StaysDelivered
  <2>. QED BY <2>1, <2>2
<1>10. ASSUME NEW e \in copyE' PROVE Covers(fi', pts'[e[2]], propa'[e[1]])
  <2>1. e \in copyE /\ e[1] \in Node /\ e[2] \in Node /\ e = <<e[1], e[2]>>
    BY <1>2 DEF GraphTypeOK
  <2>2. Covers(fi', pts'[e[2]], propa[e[1]])
    BY <1>6, <1>7, <1>8, <2>1, StaysDelivered DEF PropagatedDelivered
  <2>3. CASE e[1] = cur
    <3>1. DiffPts(cur) \subseteq pts'[e[2]]
      <4>1. <<cur, e[2]>> \in copyE
        BY <2>1, <2>3
      <4>2. DiffPts(cur) \subseteq Received(cur, e[2], Early)
        BY <2>1, <4>1, ReceivedParts
      <4>. QED BY <1>1, <2>1, <4>2
    <3>2. Covers(fi', pts'[e[2]], DiffPts(cur))
      BY <3>1, CoversSubset
    <3>3. pts[cur] \subseteq propa[cur] \cup DiffPts(cur)
      BY DEF DiffPts
    <3>4. Covers(fi', pts'[e[2]], pts[cur])
      BY <2>2, <2>3, <3>2, <3>3, CoversUnion
    <3>5. propa'[e[1]] = pts[cur]
      BY <1>3, <2>1, <2>3
    <3>. QED BY <3>4, <3>5
  <2>. QED BY <1>3, <2>1, <2>2, <2>3
<1>11. ASSUME NEW e \in vgepE'
       PROVE  Covers(fi', pts'[e[2]], VariantObjNodes(propa'[e[1]]))
  <2>1. e \in vgepE /\ e[1] \in Node /\ e[2] \in Node /\ e = <<e[1], e[2]>>
    BY <1>2 DEF GraphTypeOK
  <2>2. VariantObjNodes(propa[e[1]]) \in SUBSET Object
    BY <1>6, <2>1, VariantObjsType
  <2>3. Covers(fi', pts'[e[2]], VariantObjNodes(propa[e[1]]))
    BY <1>6, <1>7, <1>8, <2>1, <2>2, StaysDelivered DEF PropagatedDelivered
  <2>4. CASE e[1] = cur
    <3>1. VariantObjNodes(DiffPts(cur)) \subseteq pts'[e[2]]
      <4>1. <<cur, e[2]>> \in vgepE
        BY <2>1, <2>4
      <4>2. VariantObjNodes(DiffPts(cur)) \subseteq Received(cur, e[2], Early)
        BY <2>1, <4>1, ReceivedParts
      <4>. QED BY <1>1, <2>1, <4>2
    <3>2. Covers(fi', pts'[e[2]], VariantObjNodes(DiffPts(cur)))
      BY <3>1, CoversSubset
    <3>3. VariantObjNodes(pts[cur]) \subseteq
             VariantObjNodes(propa[cur]) \cup VariantObjNodes(DiffPts(cur))
      BY DEF DiffPts, VariantObjNodes
    <3>4. Covers(fi', pts'[e[2]], VariantObjNodes(pts[cur]))
      BY <2>3, <2>4, <3>2, <3>3, CoversUnion
    <3>5. propa'[e[1]] = pts[cur]
      BY <1>3, <2>1, <2>4
    <3>. QED BY <3>4, <3>5
  <2>5. CASE e[1] # cur
    <3>1. propa'[e[1]] = propa[e[1]]
      BY <1>3, <2>1, <2>5
    <3>. QED BY <2>3, <3>1
  <2>. QED BY <2>4, <2>5
<1>12. ASSUME NEW e \in ngepE'
       PROVE  Covers(fi', pts'[e[2]], GepObjNodes(fi', propa'[e[1]], e[3]))
  <2>1. e \in ngepE /\ e[1] \in Node /\ e[2] \in Node /\ e[3] \in Offset
    BY <1>2 DEF GraphTypeOK
  <2>2. GepObjNodes(fi, propa[e[1]], e[3]) \in SUBSET Object
    BY <1>6, <2>1, GepObjsType
  <2>3. Covers(fi', pts'[e[2]], GepObjNodes(fi, propa[e[1]], e[3]))
    BY <1>6, <1>7, <1>8, <2>1, <2>2, StaysDelivered DEF PropagatedDelivered
  <2>4. Covers(fi', pts'[e[2]], GepObjNodes(fi', propa[e[1]], e[3]))
    BY <1>6, <1>8, <2>1, <2>3, CoversGeps
  <2>5. CASE e[1] = cur
    <3>. DEFINE F == IF e \in Early THEN fi ELSE fi'
    <3>1. DiffPts(cur) \in SUBSET Object /\ F \subseteq fi'
      BY <1>6, <1>8, <2>1, <2>5 DEF DiffPts
    <3>2. GepObjNodes(F, DiffPts(cur), e[3]) \subseteq pts'[e[2]]
      <4>1. F = IF e \in Early THEN fi ELSE fi \cup VariantGepBases(cur)
        BY <1>1
      <4>. HIDE DEF F
      <4>2. GepObjNodes(F, DiffPts(cur), e[3]) \subseteq Received(cur, e[2], Early)
        BY <2>1, <2>5, <4>1, ReceivedParts
      <4>. QED BY <1>1, <2>1, <4>2
    <3>3. Covers(fi', pts'[e[2]], GepObjNodes(F, DiffPts(cur), e[3]))
      BY <3>2, CoversSubset
    <3>. HIDE DEF F
    <3>4. Covers(fi', pts'[e[2]], GepObjNodes(fi', DiffPts(cur), e[3]))
      BY <1>6, <2>1, <3>1, <3>3, CoversGeps
    <3>5. GepObjNodes(fi', pts[cur], e[3]) \subseteq
             GepObjNodes(fi', propa[cur], e[3]) \cup GepObjNodes(fi', DiffPts(cur), e[3])
      BY DEF DiffPts, GepObjNodes
    <3>6. Covers(fi', pts'[e[2]], GepObjNodes(fi', pts[cur], e[3]))
      BY <2>4, <2>5, <3>4, <3>5, CoversUnion
    <3>7. propa'[e[1]] = pts[cur]
      BY <1>3, <2>1, <2>5
    <3>. QED BY <3>6, <3>7
  <2>6. CASE e[1] # cur
    <3>1. propa'[e[1]] = propa[e[1]]
      BY <1>3, <2>1, <2>6
    <3>. QED BY <2>4, <3>1
  <2>. QED BY <2>5, <2>6
<1>. QED BY <1>5, <1>7, <1>9, <1>10, <1>11, <1>12
         DEF PropagatedDelivered, PropagatedWithinPts

LEMMA HandleCopyGepKeeps ==
  ASSUME IInv, HandleCopyGep PROVE Kept
<1>1. PICK Early \in SUBSET {e \in ngepE : e[1] = cur} : Propagate(Early)
  BY DEF HandleCopyGep
<1>2. /\ UNCHANGED <<prog, rep, edges, pwc>> /\ pc' = "fields"
      /\ UNCHANGED <<cur, ptsQ, collapsing, fieldQ, callgraph, connectQ, reanalyze>>
  BY DEF HandleCopyGep
<1>3. /\ DeliveredInv' /\ \A n \in Node : Covers(fi', pts'[n], pts[n])
  BY <1>1, <1>2, PropagateKeepsDelivered
<1>4. worklist' \in SUBSET Node
  BY <1>1 DEF Propagate, IInv, SolverTypeOK
<1>5. toCollapse' \in SUBSET Object /\ fi \subseteq fi'
  BY <1>1, VariantGepBasesType DEF Propagate, IInv, SolverTypeOK
<1>6. SolverTypeOK' /\ CollapseInv'
  BY <1>2, <1>4, <1>5 DEF IInv, SolverTypeOK, CollapseInv, Handlers
<1>7. Grows
  BY <1>2, <1>3 DEF Grows, Solution, IInv, DeliveredInv, GraphTypeOK
<1>. QED BY <1>3, <1>6, <1>7 DEF Kept, IInv

-----------------------------------------------------------------------------
LEMMA CollapseKeeps ==
  ASSUME IInv, NEW pushes \in BOOLEAN, Collapse(pushes) PROVE Kept
BY CollapseObjectKeeps, CollapseOneFieldKeeps, EndCollapseKeeps
   DEF Collapse

LEMMA CallGraphKeeps ==
  ASSUME IInv, OnTheFlyCallGraph PROVE Kept
BY UpdateCallGraphKeeps, ConnectParamKeeps, EndConnectKeeps DEF OnTheFlyCallGraph

LEMMA NextKeeps ==
  ASSUME IInv, [Next]_vars PROVE Kept
<1>1. CASE Pop
  BY <1>1, PopKeeps
<1>2. CASE Collapse(FALSE)
  BY <1>2, CollapseKeeps
<1>3. CASE StartNode("loadstore")
  BY <1>3, StartNodeKeeps DEF Handlers
<1>4. CASE ProcessLoadStore
  BY <1>4, ProcessLoadStoreKeeps
<1>5. CASE EndLoadStore("copygep")
  BY <1>5, EndLoadStoreKeeps DEF Handlers
<1>6. CASE HandleCopyGep
  BY <1>6, HandleCopyGepKeeps
<1>7. CASE EndNode
  BY <1>7, EndNodeKeeps
<1>8. CASE OnTheFlyCallGraph
  BY <1>8, CallGraphKeeps
<1>9. CASE Terminated \/ UNCHANGED vars
  BY <1>9, StutterKeeps DEF Terminated
<1>. QED BY <1>1, <1>2, <1>3, <1>4, <1>5, <1>6, <1>7, <1>8, <1>9 DEF Next, ProcessNode

-----------------------------------------------------------------------------
(* Precision: the graph stays below any solution L of the program read     *)
(* field-insensitively, and so do the copies of calls still to be added.   *)
PreciseInv(L) ==
  /\ InsensitiveSolution(prog, L)
  /\ Below(L)
  /\ \A e \in connectQ : L[e[1]] \subseteq L[e[2]]

LEMMA InitPrecise ==
  ASSUME Init PROVE PreciseInv(Insensitive(prog))
<1>1. PICK P \in Programs : BuildCG(P)
  BY DEF Init
<1>2. prog = P /\ connectQ = {}
  BY <1>1 DEF Init, BuildCG
<1>3. PICK L : L = Insensitive(P)
  OBVIOUS
<1>4. InsensitiveSolution(P, L)
  BY <1>3, InsensitiveAssumption
<1>5. Below(L)
  BY <1>1, <1>4, BuildCGBelow
<1>. QED BY <1>2, <1>3, <1>4, <1>5 DEF PreciseInv

(* Steps that change neither points-to sets nor edges. *)
LEMMA QuietPrecise ==
  ASSUME NEW L, PreciseInv(L), UNCHANGED <<prog, rep, edges, pts>>,
         connectQ' \subseteq connectQ
  PROVE  PreciseInv(L)'
BY DEF PreciseInv, Below, edges

LEMMA BaseBelow ==
  ASSUME NEW L, PreciseInv(L), NEW n \in Node, NEW o \in pts[n]
  PROVE  BaseOf[o] \in L[n]
BY DEF PreciseInv, Below, Bases

LEMMA ObjectLevel ==
  ASSUME IInv, NEW L, PreciseInv(L), NEW o \in Object
  PROVE  L[rep[o]] = L[BaseOf[o]]
<1>1. o \in Node
  BY SystemAssumption
<1>. QED BY <1>1 DEF PreciseInv, InsensitiveSolution, Below

(* What a load or store through n copies, the solution L has copied. *)
LEMMA DerivedBelow ==
  ASSUME IInv, NEW L, PreciseInv(L), NEW n, NEW e \in MissingCopies(n)
  PROVE  L[e[1]] \subseteq L[e[2]]
<1>. USE DEF IInv, DeliveredInv, GraphTypeOK
<1>1. PICK o \in pts[n] \ NonPointer : e \in LoadCopies(n, o) \cup StoreCopies(n, o)
  BY DEF MissingCopies, DerivedCopies
<1>2. CASE e \in LoadCopies(n, o)
  <2>1. PICK x \in loadE : x[1] = n /\ e = <<rep[o], x[2]>>
    BY <1>2 DEF LoadCopies
  <2>2. n \in Node /\ o \in Object
    BY <1>1, <2>1
  <2>3. BaseOf[o] \in L[n]
    BY <1>1, <2>2, BaseBelow
  <2>4. L[BaseOf[o]] \subseteq L[x[2]]
    BY <2>1, <2>3 DEF PreciseInv, Below
  <2>. QED BY <2>1, <2>2, <2>4, ObjectLevel
<1>3. CASE e \in StoreCopies(n, o)
  <2>1. PICK x \in storeE : x[2] = n /\ e = <<x[1], rep[o]>>
    BY <1>3 DEF StoreCopies
  <2>2. n \in Node /\ o \in Object
    BY <1>1, <2>1
  <2>3. BaseOf[o] \in L[n]
    BY <1>1, <2>2, BaseBelow
  <2>4. L[x[1]] \subseteq L[BaseOf[o]]
    BY <2>1, <2>3 DEF PreciseInv, Below
  <2>. QED BY <2>1, <2>2, <2>4, ObjectLevel
<1>. QED BY <1>1, <1>2, <1>3

LEMMA AddCopyEdgePrecise ==
  ASSUME NEW L, PreciseInv(L), NEW s \in Node, NEW d \in Node, L[s] \subseteq L[d],
         AddCopyEdge(s, d), connectQ' \subseteq connectQ,
         UNCHANGED <<prog, rep, loadE, storeE, ngepE, vgepE, pts>>
  PROVE  PreciseInv(L)'
<1>1. Below(L)'
  BY AddCopyEdgeKeepsBelow DEF PreciseInv
<1>. QED BY <1>1 DEF PreciseInv

LEMMA ProcessLoadStorePrecise ==
  ASSUME IInv, NEW L, PreciseInv(L), ProcessLoadStore PROVE PreciseInv(L)'
<1>1. PICK e \in MissingCopies(cur) : AddCopyEdge(e[1], e[2])
  BY DEF ProcessLoadStore
<1>2. e[1] \in Node /\ e[2] \in Node /\ L[e[1]] \subseteq L[e[2]]
  BY MissingCopiesType, DerivedBelow
<1>. QED BY <1>1, <1>2, AddCopyEdgePrecise DEF ProcessLoadStore

(* Geps stay within the base. *)
LEMMA BasesOfGeps ==
  ASSUME NEW F, NEW D \in SUBSET Object, NEW k \in Offset
  PROVE  Bases(GepObjNodes(F, D, k)) \subseteq Bases(D)
<1>1. ASSUME NEW o \in D PROVE BaseOf[GepObjNode(F, o, k)] = BaseOf[o]
  <2>1. /\ BaseOf[FieldAt[<<o, k>>]] = BaseOf[o]
        /\ BaseOf[BaseOf[o]] = BaseOf[o]
    BY SystemAssumption
  <2>. QED BY <2>1 DEF GepObjNode
<1>. QED BY <1>1 DEF Bases, GepObjNodes

LEMMA BasesOfVariants ==
  ASSUME NEW D \in SUBSET Object
  PROVE  Bases(VariantObjNodes(D)) \subseteq Bases(D)
<1>1. \A o \in D : BaseOf[VariantObjNode(o)] = BaseOf[o]
  BY SystemAssumption DEF VariantObjNode
<1>. QED BY <1>1 DEF Bases, VariantObjNodes

LEMMA ReceivedBelow ==
  ASSUME IInv, NEW L, PreciseInv(L), NEW n, NEW d \in Node, NEW Early
  PROVE  Bases(Received(n, d, Early)) \subseteq L[d]
<1>. USE DEF IInv, DeliveredInv, GraphTypeOK
<1>1. ASSUME n \in Node PROVE DiffPts(n) \in SUBSET Object /\ Bases(DiffPts(n)) \subseteq L[n]
  BY <1>1, BaseBelow DEF DiffPts, Bases
<1>. DEFINE F(e) == IF e \in Early THEN fi ELSE fi \cup VariantGepBases(n)
            C == {DiffPts(n) : e \in {x \in copyE : x = <<n, d>>}}
            V == {VariantObjNodes(DiffPts(n)) : e \in {x \in vgepE : x = <<n, d>>}}
            G == {GepObjNodes(F(e), DiffPts(n), e[3]) :
                    e \in {x \in ngepE : x[1] = n /\ x[2] = d}}
<1>0. \A e \in copyE \cup vgepE : L[e[1]] \subseteq L[e[2]]
  BY DEF PreciseInv, Below
<1>2. Received(n, d, Early) = UNION (C \cup V \cup G)
  BY DEF Received
<1>3. ASSUME NEW S \in C PROVE Bases(S) \subseteq L[d]
  <2>1. <<n, d>> \in copyE /\ S = DiffPts(n)
    BY <1>3
  <2>2. n \in Node /\ L[n] \subseteq L[d]
    BY <1>0, <2>1
  <2>. QED BY <1>1, <2>1, <2>2
<1>4. ASSUME NEW S \in V PROVE Bases(S) \subseteq L[d]
  <2>1. <<n, d>> \in vgepE /\ S = VariantObjNodes(DiffPts(n))
    BY <1>4
  <2>2. n \in Node /\ L[n] \subseteq L[d]
    BY <1>0, <2>1
  <2>. QED BY <1>1, <2>1, <2>2, BasesOfVariants
<1>5. ASSUME NEW S \in G PROVE Bases(S) \subseteq L[d]
  <2>1. PICK e \in ngepE : /\ e[1] = n /\ e[2] = d
                           /\ S = GepObjNodes(F(e), DiffPts(n), e[3])
    BY <1>5
  <2>2. n \in Node /\ e[3] \in Offset /\ L[n] \subseteq L[d]
    BY <2>1 DEF PreciseInv, Below
  <2>. HIDE DEF F
  <2>. QED BY <1>1, <2>1, <2>2, BasesOfGeps
<1>. HIDE DEF C, V, G
<1>6. \A S \in C \cup V \cup G : Bases(S) \subseteq L[d]
  BY <1>3, <1>4, <1>5
<1>. QED BY <1>2, <1>6 DEF Bases

LEMMA HandleCopyGepPrecise ==
  ASSUME IInv, NEW L, PreciseInv(L), HandleCopyGep PROVE PreciseInv(L)'
<1>1. PICK Early : Propagate(Early)
  BY DEF HandleCopyGep
<1>2. \A d \in Node : pts'[d] = pts[d] \cup Received(cur, d, Early)
  BY <1>1 DEF Propagate
<1>3. ASSUME NEW d \in Node PROVE Bases(pts'[d]) \subseteq L[d]
  <2>1. Bases(pts[d]) \subseteq L[d]
    BY DEF PreciseInv, Below
  <2>2. Bases(Received(cur, d, Early)) \subseteq L[d]
    BY ReceivedBelow
  <2>. QED BY <1>2, <2>1, <2>2 DEF Bases
<1>. QED BY <1>3 DEF HandleCopyGep, PreciseInv, Below, edges

LEMMA CollapseOneFieldPrecise ==
  ASSUME IInv, NEW L, PreciseInv(L), NEW pushes \in BOOLEAN, CollapseOneField(pushes)
  PROVE  PreciseInv(L)'
<1>. USE DEF IInv, DeliveredInv
<1>. DEFINE b == collapsing
<1>1. PICK f \in fieldQ :
         \/ /\ pts' = PointeeReplaced(f, b)
            /\ UNCHANGED <<rep, edges, pwc, propa>>
         \/ MergeNodeToRep(rep[f], rep[b], PointeeReplaced(f, b))
  BY DEF CollapseOneField
<1>2. /\ b \in fi /\ b \in Object /\ BaseOf[b] = b
      /\ f \in Object /\ BaseOf[f] = b
      /\ b \in Node /\ f \in Node
  BY <1>1, SystemAssumption DEF CollapseOneField, CollapseInv, SolverTypeOK
<1>3. L[rep[f]] = L[rep[b]] /\ rep[f] \in Node /\ rep[b] \in Node
  BY <1>2, ObjectLevel DEF GraphTypeOK
<1>4. PointeeReplaced(f, b) \in [Node -> SUBSET Object]
  BY <1>2, PointeeReplacedCovers
<1>5. \A n \in Node : Bases(PointeeReplaced(f, b)[n]) \subseteq L[n]
  BY <1>2, BaseBelow DEF PointeeReplaced, Bases
<1>6. UNCHANGED <<prog, connectQ>>
  BY DEF CollapseOneField
<1>7. CASE pts' = PointeeReplaced(f, b) /\ UNCHANGED <<rep, edges, pwc, propa>>
  BY <1>5, <1>6, <1>7 DEF PreciseInv, Below, edges
<1>8. CASE MergeNodeToRep(rep[f], rep[b], PointeeReplaced(f, b))
  <2>1. Below(L)'
    BY <1>3, <1>4, <1>5, <1>8, MergeKeepsBelow DEF PreciseInv
  <2>. QED BY <1>6, <2>1 DEF PreciseInv
<1>. QED BY <1>1, <1>7, <1>8

LEMMA CollapsePrecise ==
  ASSUME IInv, NEW L, PreciseInv(L), NEW pushes \in BOOLEAN, Collapse(pushes)
  PROVE  PreciseInv(L)'
<1>1. CASE CollapseObject
  BY <1>1, QuietPrecise DEF CollapseObject, StartCollapse
<1>2. CASE EndCollapse
  BY <1>2, QuietPrecise DEF EndCollapse, graph
<1>. QED BY <1>1, <1>2, CollapseOneFieldPrecise DEF Collapse

LEMMA UpdateCallGraphPrecise ==
  ASSUME IInv, NEW L, PreciseInv(L), UpdateCallGraph PROVE PreciseInv(L)'
<1>1. ASSUME NEW c \in NewTargets PROVE L[rep[c[3]]] \subseteq L[rep[c[4]]]
  <2>1. prog \in Program /\ c \in prog.icall /\ c[2] \in pts[rep[c[1]]]
    BY SystemAssumption DEF NewTargets, IInv, DeliveredInv, GraphTypeOK
  <2>2. c[1] \in Node /\ c[2] \in Object /\ c[3] \in Node /\ c[4] \in Node
    BY <2>1 DEF Program
  <2>3. rep[c[1]] \in Node
    BY <2>2 DEF IInv, DeliveredInv, GraphTypeOK
  <2>4. BaseOf[c[2]] \in L[c[1]]
    BY <2>1, <2>2, <2>3, BaseBelow DEF PreciseInv, Below
  <2>5. L[c[3]] \subseteq L[c[4]]
    BY <2>1, <2>4 DEF PreciseInv, InsensitiveSolution
  <2>. QED BY <2>2, <2>5 DEF PreciseInv, Below
<1>2. \A e \in connectQ' : L[e[1]] \subseteq L[e[2]]
  BY <1>1 DEF UpdateCallGraph
<1>. QED BY <1>2 DEF UpdateCallGraph, PreciseInv, Below, graph, edges

LEMMA ConnectParamPrecise ==
  ASSUME IInv, NEW L, PreciseInv(L), ConnectParam PROVE PreciseInv(L)'
<1>1. PICK e \in connectQ :
         /\ connectQ' = connectQ \ {e}
         /\ AddCopyEdge(e[1], e[2]) \/ UNCHANGED copyE
  BY DEF ConnectParam
<1>2. e[1] \in Node /\ e[2] \in Node /\ L[e[1]] \subseteq L[e[2]]
  BY DEF IInv, SolverTypeOK, PreciseInv
<1>3. CASE AddCopyEdge(e[1], e[2])
  BY <1>1, <1>2, <1>3, AddCopyEdgePrecise DEF ConnectParam
<1>4. CASE UNCHANGED copyE
  BY <1>1, <1>4, QuietPrecise DEF ConnectParam, edges
<1>. QED BY <1>1, <1>3, <1>4

LEMMA CallGraphPrecise ==
  ASSUME IInv, NEW L, PreciseInv(L), OnTheFlyCallGraph PROVE PreciseInv(L)'
<1>1. CASE EndConnect
  BY <1>1, QuietPrecise DEF EndConnect, graph
<1>. QED BY <1>1, UpdateCallGraphPrecise, ConnectParamPrecise DEF OnTheFlyCallGraph

LEMMA NextPrecise ==
  ASSUME IInv, NEW L, PreciseInv(L), [Next]_vars PROVE PreciseInv(L)'
<1>1. CASE Pop
  BY <1>1, QuietPrecise DEF Pop, graph
<1>2. CASE StartNode("loadstore")
  BY <1>2, QuietPrecise DEF StartNode, graph
<1>3. CASE EndLoadStore("copygep")
  BY <1>3, QuietPrecise DEF EndLoadStore, graph
<1>4. CASE EndNode
  BY <1>4, QuietPrecise DEF EndNode, graph
<1>5. CASE Terminated \/ UNCHANGED vars
  BY <1>5, QuietPrecise DEF Terminated, vars, graph, control
<1>. QED BY <1>1, <1>2, <1>3, <1>4, <1>5, CollapsePrecise, ProcessLoadStorePrecise,
            HandleCopyGepPrecise, CallGraphPrecise DEF Next, ProcessNode

LEMMA ProgUnchanged ==
  ASSUME [Next]_vars PROVE prog' = prog
BY DEF Next, Pop, Collapse, CollapseObject, StartCollapse, CollapseOneField, EndCollapse,
       ProcessNode, StartNode, ProcessLoadStore, EndLoadStore, HandleCopyGep, EndNode,
       OnTheFlyCallGraph, UpdateCallGraph, ConnectParam, EndConnect, Terminated,
       vars, graph

LEMMA PreciseImpliesWithin ==
  ASSUME IInv, PreciseInv(Insensitive(prog)) PROVE WithinInsensitive
<1>1. PICK L : L = Insensitive(prog)
  OBVIOUS
<1>2. \A n \in Node : rep[n] \in Node
  BY DEF IInv, DeliveredInv, GraphTypeOK
<1>3. \A n \in Node : Bases(pts[rep[n]]) \subseteq L[n]
  BY <1>1, <1>2 DEF PreciseInv, Below
<1>. QED BY <1>1, <1>3 DEF WithinInsensitive, Solution

-----------------------------------------------------------------------------
(* The inductive invariant holds throughout. *)
THEOREM Invariance == Spec => []IInv
<1>1. IInv /\ [Next]_vars => IInv'
  BY NextKeeps DEF Kept
<1>. QED BY InitIInv, <1>1, PTL DEF Spec

(* Type correctness of the solver. *)
THEOREM TypeCorrect == Spec => []TypeOK
<1>1. IInv => TypeOK
  BY DEF IInv, DeliveredInv, TypeOK
<1>. QED BY Invariance, <1>1, PTL

(* Difference propagation never records more than it has delivered,        *)
(* whatever the program, the object model and the order of the worklist.   *)
THEOREM NothingSkipped == Spec => []PropagatedDelivered
<1>1. IInv => PropagatedDelivered
  BY DEF IInv, DeliveredInv
<1>. QED BY Invariance, <1>1, PTL

(* Merging nodes and collapsing objects never loses a pointee. *)
THEOREM NothingLost == Spec => SolutionGrows
<1>1. IInv /\ [Next]_vars => Grows
  BY NextKeeps DEF Kept
<1>2. IInv /\ [Next]_vars => [Grows]_vars
  BY <1>1
<1>3. Spec => [][Grows]_vars
  BY Invariance, <1>2, PTL DEF Spec
<1>. QED BY <1>3 DEF SolutionGrows, Grows

(* Nothing unjustified is ever added: for any field-insensitive solution   *)
(* of the program, hence for the least, what a node points to is in it.    *)
THEOREM NothingInvented == Spec => []PreciseWhenDone
<1>. DEFINE Inv == IInv /\ PreciseInv(Insensitive(prog))
<1>1. Init => Inv
  BY InitIInv, InitPrecise
<1>2. ASSUME Inv, [Next]_vars PROVE Inv'
  <2>1. PICK L : L = Insensitive(prog)
    OBVIOUS
  <2>2. PreciseInv(L)'
    BY <1>2, <2>1, NextPrecise
  <2>3. IInv' /\ prog' = prog
    BY <1>2, NextKeeps, ProgUnchanged DEF Kept
  <2>. QED BY <2>1, <2>2, <2>3
<1>3. Inv => PreciseWhenDone
  BY PreciseImpliesWithin DEF PreciseWhenDone
<1>4. Inv /\ [Next]_vars => Inv'
  BY <1>2
<1>. HIDE DEF Inv
<1>. QED BY <1>1, <1>3, <1>4, PTL DEF Spec

-----------------------------------------------------------------------------
(* Completeness.  The invariant says of every statement either that it is  *)
(* satisfied as far as the pointees handled go, or that a node which will  *)
(* handle the others is waiting or being processed.  The last theorem is   *)
(* about the base solver, which does not push the nodes that it merges.    *)

(* A node is due while it waits in the work list or is being processed and *)
(* one of the given handlers has not ended.                                *)
Waiting == {rep[d] : d \in worklist}

Due(n, handlers) == n \in Waiting \/ (cur = n /\ pc \in handlers)

ToAccess == {"pwc", "loadstore"}
ToPropagate == {"pwc", "loadstore", "copygep"}

Joined(x, y) == x = y \/ <<x, y>> \in copyE

Linked(x, y) == Joined(rep[x], rep[y])

(* Edges join representatives, and so do the copies still to be added; and *)
(* only representatives are flagged.                                       *)
RepEnds(e) == rep[e[1]] = e[1] /\ rep[e[2]] = e[2]

RepInv ==
  /\ \A n \in Node : rep[rep[n]] = rep[n]
  /\ \A e \in copyE \cup loadE \cup storeE \cup vgepE \cup connectQ : RepEnds(e)
  /\ \A e \in ngepE : RepEnds(e)
  /\ \A n \in pwc : rep[n] = n

(* Every statement of the program is in the graph; an array access whose   *)
(* ends were merged has left a flag.                                       *)
ProgramInv ==
  /\ \A e \in prog.addr : Covers(fi, pts[rep[e[2]]], {e[1]})
  /\ \A e \in prog.copy : Linked(e[1], e[2])
  /\ \A e \in prog.load : <<rep[e[1]], rep[e[2]]>> \in loadE
  /\ \A e \in prog.store : <<rep[e[1]], rep[e[2]]>> \in storeE
  /\ \A e \in prog.vgep : \/ <<rep[e[1]], rep[e[2]]>> \in vgepE
                          \/ rep[e[1]] = rep[e[2]] /\ rep[e[1]] \in pwc
  /\ \A c \in prog.icall : <<c[1], c[2]>> \in callgraph =>
        Linked(c[3], c[4]) \/ <<rep[c[3]], rep[c[4]]>> \in connectQ

(* What has not been done for a node, the node is due for: to propagate    *)
(* its pointees, and to turn its loads and stores into copies.             *)
SentInv ==
  \A n \in Node : rep[n] = n => pts[n] \subseteq propa[n] \/ Due(n, ToPropagate)

AccessInv ==
  /\ \A e \in loadE : \A o \in pts[e[1]] \ NonPointer :
        Joined(rep[o], e[2]) \/ Due(e[1], ToAccess)
  /\ \A e \in storeE : \A o \in pts[e[2]] \ NonPointer :
        Joined(e[1], rep[o]) \/ Due(e[2], ToAccess)

ArrayInv == \A e \in vgepE : \A o \in propa[e[1]] \ BlkOrConst : BaseOf[o] \in fi

CycleInv ==
  MergePWC => \A n \in pwc : \A o \in pts[n] \ BlkOrConst :
     \/ BaseOf[o] \in fi
     \/ n \in Waiting
     \/ cur = n /\ pc = "pwc" /\ o \in ptsQ

(* Fields that a node points to are known, and those of a collapsed object *)
(* are merged with it or will be.                                          *)
FieldInv ==
  /\ \A n \in Node : \A o \in pts[n] : BaseOf[o] # o => o \in fields
  /\ \A f \in fields : BaseOf[f] \in fi =>
        \/ rep[f] = rep[BaseOf[f]]
        \/ f \in fieldQ /\ collapsing = BaseOf[f]
        \/ BaseOf[f] \in toCollapse

ControlInv ==
  /\ \A o \in toCollapse : BaseOf[o] = o
  /\ toCollapse # {} => pc = "fields"
  /\ collapsing # NoNode => pc \in {"pwc", "fields"}
  /\ pc \in {"loadstore", "copygep"} => rep[cur] = cur
  /\ connectQ # {} => pc = "connect"
  /\ pc = "done" => worklist = {} /\ NewTargets = {}

CompleteInv ==
  /\ RepInv /\ ProgramInv
  /\ SentInv /\ AccessInv /\ ArrayInv /\ CycleInv
  /\ FieldInv /\ ControlInv

-----------------------------------------------------------------------------
LEMMA InitComplete ==
  ASSUME Init, IInv PROVE CompleteInv
<1>1. PICK P \in Programs : BuildCG(P)
  BY DEF Init
<1>2. /\ prog = P /\ rep = [n \in Node |-> n] /\ copyE = {e \in P.copy : e[1] # e[2]}
      /\ loadE = P.load /\ storeE = P.store /\ ngepE = P.ngep /\ vgepE = P.vgep
      /\ pwc = {} /\ pts = [n \in Node |-> {o \in Object : <<o, n>> \in P.addr}]
      /\ propa = [n \in Node |-> {}] /\ fi = {}
      /\ fields = {f \in Mentioned(P) : BaseOf[f] # f}
  BY <1>1 DEF BuildCG
<1>3. /\ worklist = {n \in Node : pts[n] # {}} /\ pc = "solve" /\ cur = NoNode
      /\ toCollapse = {} /\ collapsing = NoNode /\ fieldQ = {}
      /\ callgraph = {} /\ connectQ = {}
  BY DEF Init
<1>4. /\ P.addr \subseteq Object \X Node /\ P.copy \subseteq Node \X Node
      /\ P.load \subseteq Node \X Node /\ P.store \subseteq Node \X Node
      /\ P.ngep \subseteq Node \X Node \X Offset /\ P.vgep \subseteq Node \X Node
      /\ P.icall \subseteq Node \X Object \X Node \X Node
  BY SystemAssumption DEF Program
<1>5. Waiting = {n \in Node : pts[n] # {}}
  BY <1>2, <1>3 DEF Waiting
<1>6. RepInv
  <2>1. \A n \in Node : rep[n] = n
    BY <1>2
  <2>2. \A e \in copyE \cup loadE \cup storeE \cup vgepE \cup connectQ : RepEnds(e)
    BY <1>2, <1>3, <1>4, <2>1 DEF RepEnds
  <2>3. \A e \in ngepE : RepEnds(e)
    BY <1>2, <1>4, <2>1 DEF RepEnds
  <2>. QED BY <1>2, <2>1, <2>2, <2>3 DEF RepInv
<1>7. ProgramInv
  <2>1. \A n \in Node : rep[n] = n
    BY <1>2
  <2>2. ASSUME NEW e \in P.addr PROVE Covers(fi, pts[rep[e[2]]], {e[1]})
    <3>1. e[2] \in Node /\ e[1] \in Object /\ e = <<e[1], e[2]>>
      BY <1>4
    <3>2. {e[1]} \subseteq pts[rep[e[2]]]
      BY <1>2, <2>1, <3>1
    <3>. QED BY <3>2, CoversSubset
  <2>3. \A e \in P.copy : Linked(e[1], e[2])
    BY <1>2, <1>4, <2>1 DEF Linked, Joined
  <2>4. \A e \in P.load : <<rep[e[1]], rep[e[2]]>> \in loadE
    BY <1>2, <1>4, <2>1
  <2>5. \A e \in P.store : <<rep[e[1]], rep[e[2]]>> \in storeE
    BY <1>2, <1>4, <2>1
  <2>6. \A e \in P.vgep : <<rep[e[1]], rep[e[2]]>> \in vgepE
    BY <1>2, <1>4, <2>1
  <2>7. prog = P /\ callgraph = {}
    BY <1>2, <1>3
  <2>. QED BY <2>2, <2>3, <2>4, <2>5, <2>6, <2>7 DEF ProgramInv
<1>8. \A n \in Node : pts[n] # {} => n \in Waiting
  BY <1>5
<1>9. SentInv
  BY <1>8 DEF SentInv, Due
<1>10. AccessInv
  <2>1. ASSUME NEW e \in loadE, NEW o \in pts[e[1]] PROVE e[1] \in Waiting
    BY <1>2, <1>4, <1>8
  <2>2. ASSUME NEW e \in storeE, NEW o \in pts[e[2]] PROVE e[2] \in Waiting
    BY <1>2, <1>4, <1>8
  <2>. QED BY <2>1, <2>2 DEF AccessInv, Due
<1>11. ArrayInv
  BY <1>2, <1>4 DEF ArrayInv
<1>12. CycleInv
  BY <1>2 DEF CycleInv
<1>13. FieldInv
  <2>1. ASSUME NEW n \in Node, NEW o \in pts[n] PROVE o \in Mentioned(P)
    <3>1. o \in Object /\ <<o, n>> \in P.addr
      BY <1>2, <2>1
    <3>. QED BY <3>1 DEF Mentioned
  <2>. QED BY <1>2, <2>1 DEF FieldInv
<1>14. ControlInv
  BY <1>3 DEF ControlInv
<1>. QED BY <1>6, <1>7, <1>9, <1>10, <1>11, <1>12, <1>13, <1>14 DEF CompleteInv

-----------------------------------------------------------------------------
(* Steps that leave points-to sets and edges alone: a node that was due    *)
(* still has to be, or to have no need.                                    *)
StillDue(handlers) ==
  \A n \in Node : rep[n] = n /\ Due(n, handlers) => Due(n, handlers)'

QuietGraph == UNCHANGED <<prog, rep, edges, pwc, pts, propa, fields>> /\ fi \subseteq fi'

LEMMA QuietRep ==
  ASSUME RepInv, QuietGraph, connectQ' \subseteq connectQ PROVE RepInv'
BY DEF RepInv, RepEnds, QuietGraph, edges

LEMMA QuietProgram ==
  ASSUME IInv, ProgramInv, QuietGraph, UNCHANGED <<callgraph, connectQ>> PROVE ProgramInv'
<1>. USE DEF QuietGraph, edges
<1>1. ASSUME NEW e \in prog.addr PROVE Covers(fi', pts'[rep'[e[2]]], {e[1]})
  <2>1. prog \in Program
    BY SystemAssumption DEF IInv, DeliveredInv, GraphTypeOK
  <2>2. e[1] \in Object /\ e[2] \in Node
    BY <2>1 DEF Program
  <2>3. pts[rep[e[2]]] \in SUBSET Object /\ Covers(fi, pts[rep[e[2]]], {e[1]})
    BY <2>2 DEF IInv, DeliveredInv, GraphTypeOK, ProgramInv
  <2>4. Covers(fi', pts[rep[e[2]]], {e[1]})
    BY <2>2, <2>3, CoversMoreInsensitive
  <2>. QED BY <2>4
<1>. QED BY <1>1 DEF ProgramInv, Linked, Joined

LEMMA QuietSent ==
  ASSUME SentInv, UNCHANGED <<rep, pts, propa>>, StillDue(ToPropagate) PROVE SentInv'
BY DEF SentInv, StillDue

LEMMA QuietAccess ==
  ASSUME IInv, RepInv, AccessInv, UNCHANGED <<rep, edges, pts>>, StillDue(ToAccess)
  PROVE  AccessInv'
<1>1. ASSUME NEW e \in loadE', NEW o \in pts'[e[1]] \ NonPointer
      PROVE  Joined(rep[o], e[2])' \/ Due(e[1], ToAccess)'
  <2>1. e \in loadE /\ o \in pts[e[1]] \ NonPointer
    BY <1>1 DEF edges
  <2>2. e[1] \in Node /\ rep[e[1]] = e[1]
    BY <2>1 DEF IInv, DeliveredInv, GraphTypeOK, RepInv, RepEnds
  <2>3. Joined(rep[o], e[2]) \/ Due(e[1], ToAccess)
    BY <2>1 DEF AccessInv
  <2>4. Joined(rep[o], e[2]) => Joined(rep[o], e[2])'
    BY DEF Joined, edges
  <2>. QED BY <2>2, <2>3, <2>4 DEF StillDue
<1>2. ASSUME NEW e \in storeE', NEW o \in pts'[e[2]] \ NonPointer
      PROVE  Joined(e[1], rep[o])' \/ Due(e[2], ToAccess)'
  <2>1. e \in storeE /\ o \in pts[e[2]] \ NonPointer
    BY <1>2 DEF edges
  <2>2. e[2] \in Node /\ rep[e[2]] = e[2]
    BY <2>1 DEF IInv, DeliveredInv, GraphTypeOK, RepInv, RepEnds
  <2>3. Joined(e[1], rep[o]) \/ Due(e[2], ToAccess)
    BY <2>1 DEF AccessInv
  <2>4. Joined(e[1], rep[o]) => Joined(e[1], rep[o])'
    BY DEF Joined, edges
  <2>. QED BY <2>2, <2>3, <2>4 DEF StillDue
<1>. QED BY <1>1, <1>2 DEF AccessInv

LEMMA QuietArray ==
  ASSUME ArrayInv, QuietGraph PROVE ArrayInv'
BY DEF ArrayInv, QuietGraph, edges

(* A step that changes neither the work list nor the node in hand, which   *)
(* is not being processed.                                                 *)
LEMMA IdleStillDue ==
  ASSUME UNCHANGED <<rep, worklist>>, pc \notin ToPropagate, NEW H \in {ToAccess, ToPropagate}
  PROVE  StillDue(H)
BY DEF StillDue, Due, Waiting, ToAccess, ToPropagate

LEMMA PopStillDue ==
  ASSUME Pop, NEW H \in {ToAccess, ToPropagate} PROVE StillDue(H)
<1>1. PICK d \in worklist : worklist' = worklist \ {d} /\ cur' = rep[d] /\ pc' = "pwc"
  BY DEF Pop
<1>2. \A n : n \in Waiting => n \in Waiting' \/ n = cur'
  BY <1>1 DEF Waiting, Pop, graph
<1>3. pc = "solve" /\ "pwc" \in H
  BY DEF Pop, ToAccess, ToPropagate
<1>4. pc \notin H
  BY <1>3 DEF ToAccess, ToPropagate
<1>. QED BY <1>1, <1>2, <1>3, <1>4 DEF StillDue, Due

LEMMA PopComplete ==
  ASSUME IInv, CompleteInv, Pop PROVE CompleteInv'
<1>. USE DEF CompleteInv
<1>1. PICK d \in worklist :
         /\ worklist' = worklist \ {d}
         /\ cur' = rep[d]
         /\ ptsQ' = IF MergePWC /\ rep[d] \in pwc THEN pts[rep[d]] ELSE {}
  BY DEF Pop
<1>2. /\ pc = "solve" /\ pc' = "pwc" /\ UNCHANGED graph
      /\ UNCHANGED <<toCollapse, collapsing, fieldQ, callgraph, connectQ, reanalyze>>
  BY DEF Pop
<1>3. QuietGraph /\ UNCHANGED <<rep, edges, pts, propa>>
  BY <1>2 DEF QuietGraph, graph
<1>4. RepInv' /\ ProgramInv' /\ ArrayInv'
  BY <1>2, <1>3, QuietRep, QuietProgram, QuietArray
<1>5. SentInv' /\ AccessInv'
  BY <1>3, QuietSent, QuietAccess, PopStillDue
<1>6. CycleInv'
  <2>1. \A n : n \in Waiting => n \in Waiting' \/ n = cur'
    BY <1>1, <1>3 DEF Waiting
  <2>2. ASSUME MergePWC, NEW n \in pwc, NEW o \in pts[n] \ BlkOrConst
        PROVE  BaseOf[o] \in fi \/ n \in Waiting' \/ (cur' = n /\ o \in ptsQ')
    <3>1. BaseOf[o] \in fi \/ n \in Waiting
      BY <1>2, <2>2 DEF CycleInv
    <3>. QED BY <1>1, <2>1, <2>2, <3>1
  <2>3. MergePWC' = MergePWC
    BY <1>3 DEF MergePWC, QuietGraph
  <2>. QED BY <1>2, <1>3, <2>2, <2>3 DEF CycleInv, QuietGraph
<1>7. FieldInv'
  BY <1>2 DEF FieldInv, graph
<1>8. ControlInv'
  BY <1>2 DEF ControlInv
<1>. QED BY <1>4, <1>5, <1>6, <1>7, <1>8

LEMMA StartNodeComplete ==
  ASSUME IInv, CompleteInv, StartNode("loadstore") PROVE CompleteInv'
<1>. USE DEF CompleteInv
<1>1. /\ pc = "pwc" /\ CollapseIdle
      /\ pc' = IF rep[cur] = cur THEN "loadstore" ELSE "fields"
      /\ UNCHANGED graph
      /\ UNCHANGED <<worklist, cur, toCollapse, collapsing, fieldQ, callgraph, connectQ>>
  BY DEF StartNode
<1>2. QuietGraph /\ UNCHANGED <<rep, edges, pts, propa>>
  BY <1>1 DEF QuietGraph, graph
<1>3. RepInv' /\ ProgramInv' /\ ArrayInv'
  BY <1>1, <1>2, QuietRep, QuietProgram, QuietArray
<1>4. StillDue(ToAccess) /\ StillDue(ToPropagate)
  BY <1>1, <1>2 DEF StillDue, Due, Waiting, ToAccess, ToPropagate
<1>5. SentInv' /\ AccessInv'
  BY <1>2, <1>4, QuietSent, QuietAccess
<1>6. CycleInv'
  <2>1. \A o \in ptsQ : BaseOf[o] \in fi \/ o \in BlkOrConst
    BY <1>1 DEF CollapseIdle, StillToCollapse
  <2>. QED BY <1>1, <2>1 DEF CycleInv, Waiting, MergePWC, graph
<1>7. FieldInv'
  BY <1>1 DEF FieldInv, graph
<1>8. ControlInv'
  BY <1>1 DEF ControlInv, CollapseIdle, graph
<1>. QED BY <1>3, <1>5, <1>6, <1>7, <1>8

(* The loads and stores of cur have all their copies. *)
LEMMA EndLoadStoreComplete ==
  ASSUME IInv, CompleteInv, EndLoadStore("copygep") PROVE CompleteInv'
<1>. USE DEF CompleteInv
<1>1. /\ pc = "loadstore" /\ pc' = "copygep" /\ MissingCopies(cur) = {}
      /\ UNCHANGED graph
      /\ UNCHANGED <<worklist, cur, ptsQ, toCollapse, collapsing, fieldQ, callgraph, connectQ>>
  BY DEF EndLoadStore
<1>2. QuietGraph /\ UNCHANGED <<rep, edges, pts, propa>>
  BY <1>1 DEF QuietGraph, graph
<1>3. RepInv' /\ ProgramInv' /\ ArrayInv'
  BY <1>1, <1>2, QuietRep, QuietProgram, QuietArray
<1>4. SentInv'
  BY <1>1, <1>2, QuietSent DEF StillDue, Due, Waiting, ToPropagate
<1>5. AccessInv'
  <2>1. \A n : n \in Waiting => n \in Waiting'
    BY <1>1, <1>2 DEF Waiting
  <2>2. \A x, y : Joined(x, y) => Joined(x, y)'
    BY <1>2 DEF Joined, edges
  <2>3. ASSUME NEW e \in loadE, NEW o \in pts[e[1]] \ NonPointer
        PROVE  Joined(rep[o], e[2]) \/ e[1] \in Waiting
    <3>1. CASE e[1] = cur
      <4>1. <<rep[o], e[2]>> \in DerivedCopies(cur)
        BY <2>3, <3>1 DEF DerivedCopies, LoadCopies
      <4>2. ~NewCopy(rep[o], e[2])
        BY <1>1, <4>1 DEF MissingCopies
      <4>. QED BY <4>2 DEF NewCopy, Joined
    <3>. QED BY <2>3, <3>1 DEF AccessInv, Due
  <2>4. ASSUME NEW e \in storeE, NEW o \in pts[e[2]] \ NonPointer
        PROVE  Joined(e[1], rep[o]) \/ e[2] \in Waiting
    <3>1. CASE e[2] = cur
      <4>1. <<e[1], rep[o]>> \in DerivedCopies(cur)
        BY <2>4, <3>1 DEF DerivedCopies, StoreCopies
      <4>2. ~NewCopy(e[1], rep[o])
        BY <1>1, <4>1 DEF MissingCopies
      <4>. QED BY <4>2 DEF NewCopy, Joined
    <3>. QED BY <2>4, <3>1 DEF AccessInv, Due
  <2>5. loadE' = loadE /\ storeE' = storeE /\ pts' = pts /\ rep' = rep
    BY <1>2 DEF edges
  <2>6. \A e \in loadE : \A o \in pts[e[1]] \ NonPointer :
           Joined(rep[o], e[2])' \/ Due(e[1], ToAccess)'
    BY <2>1, <2>2, <2>3, <2>5 DEF Due, Joined
  <2>7. \A e \in storeE : \A o \in pts[e[2]] \ NonPointer :
           Joined(e[1], rep[o])' \/ Due(e[2], ToAccess)'
    BY <2>1, <2>2, <2>4, <2>5 DEF Due, Joined
  <2>. QED BY <2>5, <2>6, <2>7 DEF AccessInv
<1>6. CycleInv'
  BY <1>1, <1>2 DEF CycleInv, Waiting, MergePWC, graph
<1>7. FieldInv'
  BY <1>1 DEF FieldInv, graph
<1>8. ControlInv'
  BY <1>1 DEF ControlInv, graph
<1>. QED BY <1>3, <1>4, <1>5, <1>6, <1>7, <1>8

LEMMA EndNodeComplete ==
  ASSUME IInv, CompleteInv, EndNode PROVE CompleteInv'
<1>. USE DEF CompleteInv
<1>1. /\ pc = "fields" /\ pc' = "solve" /\ toCollapse = {} /\ collapsing = NoNode
      /\ UNCHANGED graph
      /\ UNCHANGED <<worklist, toCollapse, collapsing, fieldQ, callgraph, connectQ>>
  BY DEF EndNode, CollapseIdle
<1>2. QuietGraph /\ UNCHANGED <<rep, edges, pts, propa>>
  BY <1>1 DEF QuietGraph, graph
<1>3. RepInv' /\ ProgramInv' /\ ArrayInv'
  BY <1>1, <1>2, QuietRep, QuietProgram, QuietArray
<1>4. SentInv' /\ AccessInv'
  BY <1>1, <1>2, QuietSent, QuietAccess, IdleStillDue DEF ToAccess, ToPropagate
<1>5. CycleInv'
  BY <1>1, <1>2 DEF CycleInv, Waiting, MergePWC, graph
<1>6. FieldInv' /\ ControlInv'
  BY <1>1 DEF FieldInv, ControlInv, graph
<1>. QED BY <1>3, <1>4, <1>5, <1>6

LEMMA EndCollapseComplete ==
  ASSUME IInv, CompleteInv, EndCollapse PROVE CompleteInv'
<1>. USE DEF CompleteInv
<1>1. /\ collapsing # NoNode /\ fieldQ = {} /\ collapsing' = NoNode /\ ptsQ \subseteq ptsQ'
      /\ UNCHANGED graph
      /\ UNCHANGED <<worklist, pc, cur, toCollapse, fieldQ, callgraph, connectQ>>
  BY DEF EndCollapse
<1>2. QuietGraph /\ UNCHANGED <<rep, edges, pts, propa>>
  BY <1>1 DEF QuietGraph, graph
<1>3. RepInv' /\ ProgramInv' /\ ArrayInv'
  BY <1>1, <1>2, QuietRep, QuietProgram, QuietArray
<1>4. StillDue(ToAccess) /\ StillDue(ToPropagate)
  BY <1>1, <1>2 DEF StillDue, Due, Waiting
<1>5. SentInv' /\ AccessInv'
  BY <1>2, <1>4, QuietSent, QuietAccess
<1>6. CycleInv'
  BY <1>1, <1>2 DEF CycleInv, Waiting, MergePWC, graph
<1>7. FieldInv' /\ ControlInv'
  BY <1>1 DEF FieldInv, ControlInv, graph, NewTargets
<1>. QED BY <1>3, <1>5, <1>6, <1>7

(* An object that has no turn to wait for is not yet collapsed; its fields *)
(* are merged next.                                                        *)
LEMMA CollapseObjectFields ==
  ASSUME IInv, FieldInv, \A o \in toCollapse : BaseOf[o] = o, CollapseObject PROVE FieldInv'
<1>1. PICK o \in NextToCollapse :
        /\ StartCollapse(o)
        /\ toCollapse' = IF o \in StillToCollapse(ptsQ) THEN toCollapse
                         ELSE toCollapse \ {o}
  BY DEF CollapseObject
<1>2. /\ fi' = fi \cup {BaseOf[o]}
      /\ collapsing' = BaseOf[o]
      /\ fieldQ' = {f \in fields : BaseOf[f] = BaseOf[o]}
      /\ UNCHANGED <<rep, pts, fields>>
      /\ collapsing = NoNode
  BY <1>1 DEF CollapseObject, StartCollapse
<1>3. /\ NoNode \notin Object /\ fields \in SUBSET Object
      /\ \A f \in fields : BaseOf[f] \in Object
  BY SystemAssumption DEF IInv, DeliveredInv, GraphTypeOK
<1>4. o \in toCollapse /\ o \notin toCollapse' => BaseOf[o] = o
  OBVIOUS
<1>5. toCollapse \ {o} \subseteq toCollapse'
  BY <1>1
<1>6. ASSUME NEW f \in fields, BaseOf[f] \in fi'
      PROVE  \/ rep[f] = rep[BaseOf[f]]
             \/ f \in fieldQ' /\ collapsing' = BaseOf[f]
             \/ BaseOf[f] \in toCollapse'
  <2>1. CASE BaseOf[f] = BaseOf[o]
    BY <1>2, <2>1
  <2>2. CASE BaseOf[f] # BaseOf[o]
    <3>1. BaseOf[f] \in fi
      BY <1>2, <1>6, <2>2
    <3>2. collapsing # BaseOf[f]
      BY <1>2, <1>3
    <3>3. rep[f] = rep[BaseOf[f]] \/ BaseOf[f] \in toCollapse
      BY <3>1, <3>2 DEF FieldInv
    <3>4. BaseOf[f] \in toCollapse => BaseOf[f] \in toCollapse'
      BY <1>4, <1>5, <2>2
    <3>. QED BY <3>3, <3>4
  <2>. QED BY <2>1, <2>2
<1>. QED BY <1>2, <1>6 DEF FieldInv

LEMMA CollapseObjectComplete ==
  ASSUME IInv, CompleteInv, CollapseObject PROVE CompleteInv'
<1>. USE DEF CompleteInv
<1>1. PICK o \in NextToCollapse :
        /\ StartCollapse(o)
        /\ ptsQ' = ptsQ \ {o}
        /\ toCollapse' = IF o \in StillToCollapse(ptsQ) THEN toCollapse
                         ELSE toCollapse \ {o}
  BY DEF CollapseObject
<1>2. /\ fi' = fi \cup {BaseOf[o]}
      /\ collapsing' = BaseOf[o]
      /\ fieldQ' = {f \in fields : BaseOf[f] = BaseOf[o]}
      /\ UNCHANGED <<prog, rep, edges, pwc, pts, propa, fields>>
      /\ UNCHANGED <<worklist, pc, cur, callgraph, connectQ, reanalyze>>
      /\ pc \in {"pwc", "fields"} /\ collapsing = NoNode
  BY <1>1 DEF CollapseObject, StartCollapse
<1>3. QuietGraph
  BY <1>2 DEF QuietGraph
<1>4. RepInv' /\ ProgramInv' /\ ArrayInv'
  BY <1>2, <1>3, QuietRep, QuietProgram, QuietArray
<1>5. StillDue(ToAccess) /\ StillDue(ToPropagate)
  BY <1>2 DEF StillDue, Due, Waiting
<1>6. SentInv' /\ AccessInv'
  BY <1>2, <1>5, QuietSent, QuietAccess
<1>7. CycleInv'
  <2>1. ASSUME MergePWC, NEW n \in pwc, NEW x \in pts[n] \ BlkOrConst
        PROVE  BaseOf[x] \in fi' \/ n \in Waiting' \/ (cur' = n /\ pc' = "pwc" /\ x \in ptsQ')
    <3>1. BaseOf[x] \in fi \/ n \in Waiting \/ (cur = n /\ pc = "pwc" /\ x \in ptsQ)
      BY <2>1 DEF CycleInv
    <3>2. CASE BaseOf[x] \in fi \/ x = o
      BY <1>2, <3>2
    <3>3. CASE n \in Waiting
      BY <1>2, <3>3 DEF Waiting
    <3>. QED BY <1>1, <1>2, <3>1, <3>2, <3>3
  <2>. QED BY <1>2, <2>1 DEF CycleInv, MergePWC
<1>8. FieldInv'
  BY CollapseObjectFields DEF ControlInv
<1>9. ControlInv'
  <2>1. toCollapse' \subseteq toCollapse
    BY <1>1
  <2>. QED BY <1>2, <2>1 DEF ControlInv
<1>. QED BY <1>4, <1>6, <1>7, <1>8, <1>9

(* Every call that the resolved targets make is connected or queued. *)
LEMMA UpdateCallGraphComplete ==
  ASSUME IInv, CompleteInv, UpdateCallGraph PROVE CompleteInv'
<1>. USE DEF CompleteInv
<1>1. /\ pc = "solve" /\ worklist = {}
      /\ callgraph' = callgraph \cup {<<c[1], c[2]>> : c \in NewTargets}
      /\ connectQ' = {<<rep[c[3]], rep[c[4]]>> : c \in NewTargets}
      /\ pc' = IF NewTargets # {} THEN "connect" ELSE IF reanalyze THEN "solve" ELSE "done"
      /\ UNCHANGED graph
      /\ UNCHANGED <<worklist, cur, ptsQ, toCollapse, collapsing, fieldQ>>
  BY DEF UpdateCallGraph, NextRound
<1>2. QuietGraph /\ UNCHANGED <<rep, edges, pts, propa, prog, fi>>
  BY <1>1 DEF QuietGraph, graph
<1>3. \A c \in prog.icall : c[3] \in Node /\ c[4] \in Node
  BY SystemAssumption DEF IInv, DeliveredInv, GraphTypeOK, Program
<1>4. RepInv'
  <2>1. ASSUME NEW e \in connectQ' PROVE RepEnds(e)
    <3>1. PICK c \in NewTargets : e = <<rep[c[3]], rep[c[4]]>>
      BY <1>1, <2>1
    <3>2. c[3] \in Node /\ c[4] \in Node
      BY <1>3 DEF NewTargets
    <3>. QED BY <3>1, <3>2 DEF RepInv, RepEnds
  <2>. QED BY <1>2, <2>1 DEF RepInv, RepEnds, QuietGraph, edges
<1>5. ProgramInv'
  <2>1. connectQ = {}
    BY <1>1 DEF ControlInv
  <2>2. ASSUME NEW c \in prog.icall, <<c[1], c[2]>> \in callgraph'
        PROVE  Linked(c[3], c[4]) \/ <<rep[c[3]], rep[c[4]]>> \in connectQ'
    <3>1. CASE <<c[1], c[2]>> \in callgraph
      BY <2>1, <3>1 DEF ProgramInv
    <3>2. CASE <<c[1], c[2]>> \notin callgraph
      <4>1. PICK d \in NewTargets : <<c[1], c[2]>> = <<d[1], d[2]>>
        BY <1>1, <2>2, <3>2
      <4>2. c \in NewTargets
        BY <4>1 DEF NewTargets
      <4>. QED BY <1>1, <4>2
    <3>. QED BY <3>1, <3>2
  <2>3. \A x, y : Linked(x, y) => Linked(x, y)'
    BY <1>2 DEF Linked, Joined, edges
  <2>4. \A c \in prog'.icall : <<c[1], c[2]>> \in callgraph' =>
           Linked(c[3], c[4])' \/ <<rep'[c[3]], rep'[c[4]]>> \in connectQ'
    BY <1>2, <2>2, <2>3 DEF Linked, Joined, edges
  <2>. QED BY <1>2, <2>4 DEF ProgramInv, Linked, Joined, QuietGraph, edges
<1>6. SentInv' /\ AccessInv' /\ ArrayInv'
  BY <1>1, <1>2, QuietSent, QuietAccess, QuietArray, IdleStillDue DEF ToAccess, ToPropagate
<1>7. CycleInv'
  BY <1>1, <1>2 DEF CycleInv, Waiting, MergePWC, graph
<1>8. FieldInv'
  BY <1>1 DEF FieldInv, graph
<1>9. ControlInv'
  <2>1. NewTargets = {} => NewTargets' = {} /\ connectQ' = {}
    BY <1>1, <1>2 DEF NewTargets
  <2>. QED BY <1>1, <2>1 DEF ControlInv
<1>. QED BY <1>4, <1>5, <1>6, <1>7, <1>8, <1>9

LEMMA EndConnectComplete ==
  ASSUME IInv, CompleteInv, EndConnect PROVE CompleteInv'
<1>. USE DEF CompleteInv
<1>1. /\ pc = "connect" /\ pc' = "solve" /\ connectQ = {}
      /\ UNCHANGED graph
      /\ UNCHANGED <<worklist, cur, ptsQ, toCollapse, collapsing, fieldQ, callgraph, connectQ>>
  BY DEF EndConnect
<1>2. QuietGraph /\ UNCHANGED <<rep, edges, pts, propa>>
  BY <1>1 DEF QuietGraph, graph
<1>3. RepInv' /\ ProgramInv' /\ ArrayInv'
  BY <1>1, <1>2, QuietRep, QuietProgram, QuietArray
<1>4. SentInv' /\ AccessInv'
  BY <1>1, <1>2, QuietSent, QuietAccess, IdleStillDue DEF ToAccess, ToPropagate
<1>5. CycleInv'
  BY <1>1, <1>2 DEF CycleInv, Waiting, MergePWC, graph
<1>6. FieldInv' /\ ControlInv'
  BY <1>1 DEF FieldInv, ControlInv, graph
<1>. QED BY <1>3, <1>4, <1>5, <1>6

LEMMA StutterComplete ==
  ASSUME IInv, CompleteInv, UNCHANGED vars PROVE CompleteInv'
<1>. USE DEF CompleteInv
<1>1. /\ UNCHANGED <<prog, rep, copyE, loadE, storeE, ngepE, vgepE, pwc, pts, propa, fi, fields>>
      /\ UNCHANGED <<worklist, pc, cur, ptsQ, toCollapse, collapsing, fieldQ, callgraph, connectQ>>
  BY DEF vars, graph, edges, control
<1>2. QuietGraph /\ UNCHANGED <<rep, edges, pts, propa>>
  BY <1>1 DEF QuietGraph, edges
<1>3. RepInv' /\ ProgramInv' /\ ArrayInv'
  BY <1>1, <1>2, QuietRep, QuietProgram, QuietArray
<1>4. StillDue(ToAccess) /\ StillDue(ToPropagate)
  BY <1>1, <1>2 DEF StillDue, Due, Waiting
<1>5. SentInv' /\ AccessInv'
  BY <1>2, <1>4, QuietSent, QuietAccess
<1>6. CycleInv'
  BY <1>1 DEF CycleInv, Waiting, MergePWC
<1>7. FieldInv' /\ ControlInv'
  BY <1>1 DEF FieldInv, ControlInv, NewTargets
<1>. QED BY <1>3, <1>5, <1>6, <1>7

-----------------------------------------------------------------------------
(* A new copy edge between representatives, whose source is pushed. *)
PushedCopy(s, d) ==
  /\ rep[s] = s /\ rep[d] = d
  /\ AddCopyEdge(s, d)
  /\ worklist' = worklist \cup {s}
  /\ UNCHANGED <<prog, rep, loadE, storeE, ngepE, vgepE, pwc, pts, fi, fields>>
  /\ UNCHANGED <<pc, cur, ptsQ, toCollapse, collapsing, fieldQ, callgraph>>

LEMMA PushedCopyFacts ==
  ASSUME IInv, NEW s \in Node, NEW d \in Node, PushedCopy(s, d)
  PROVE  /\ \A n : n \in Waiting => n \in Waiting'
         /\ s \in Waiting'
         /\ \A n, H : Due(n, H) => Due(n, H)'
         /\ \A x, y : Joined(x, y) => Joined(x, y)'
         /\ Joined(s, d)'
         /\ \A n \in Node : propa'[n] \subseteq propa[n] /\ (n # s => propa'[n] = propa[n])
<1>. USE DEF PushedCopy, AddCopyEdge
<1>1. \A n : n \in Waiting => n \in Waiting'
  BY DEF Waiting
<1>2. s \in Waiting'
  BY DEF Waiting
<1>3. \A n, H : Due(n, H) => Due(n, H)'
  BY <1>1 DEF Due
<1>4. \A x, y : Joined(x, y) => Joined(x, y)'
  BY DEF Joined
<1>5. Joined(s, d)'
  BY DEF Joined
<1>6. \A n \in Node : propa'[n] \subseteq propa[n] /\ (n # s => propa'[n] = propa[n])
  BY DEF IInv, DeliveredInv, GraphTypeOK
<1>. QED BY <1>1, <1>2, <1>3, <1>4, <1>5, <1>6

LEMMA PushedCopyComplete ==
  ASSUME IInv, CompleteInv, NEW s \in Node, NEW d \in Node, PushedCopy(s, d),
         connectQ' = connectQ \/ connectQ' = connectQ \ {<<s, d>>}, pc # "done"
  PROVE  CompleteInv'
<1>. USE DEF CompleteInv
<1>1. /\ rep[s] = s /\ rep[d] = d /\ copyE' = copyE \cup {<<s, d>>}
      /\ UNCHANGED <<prog, rep, loadE, storeE, ngepE, vgepE, pwc, pts, fi, fields>>
      /\ UNCHANGED <<pc, cur, ptsQ, toCollapse, collapsing, fieldQ, callgraph>>
  BY DEF PushedCopy, AddCopyEdge
<1>2. /\ \A n : n \in Waiting => n \in Waiting'
      /\ s \in Waiting'
      /\ \A n, H : Due(n, H) => Due(n, H)'
      /\ \A x, y : Joined(x, y) => Joined(x, y)'
      /\ Joined(s, d)'
      /\ \A n \in Node : propa'[n] \subseteq propa[n] /\ (n # s => propa'[n] = propa[n])
  BY PushedCopyFacts
<1>3. RepInv'
  <2>1. \A e \in copyE' \cup loadE' \cup storeE' \cup vgepE' \cup connectQ' : RepEnds(e)
    BY <1>1 DEF RepInv, RepEnds
  <2>. QED BY <1>1, <2>1 DEF RepInv, RepEnds
<1>4. ProgramInv'
  <2>1. \A x, y : Linked(x, y) => Linked(x, y)'
    BY <1>1, <1>2 DEF Linked, Joined
  <2>2. ASSUME NEW c \in prog.icall, <<c[1], c[2]>> \in callgraph
        PROVE  Linked(c[3], c[4])' \/ <<rep[c[3]], rep[c[4]]>> \in connectQ'
    <3>1. Linked(c[3], c[4]) \/ <<rep[c[3]], rep[c[4]]>> \in connectQ
      BY <2>2 DEF ProgramInv
    <3>2. CASE <<rep[c[3]], rep[c[4]]>> = <<s, d>>
      BY <1>1, <1>2, <3>2 DEF Linked
    <3>. QED BY <2>1, <3>1, <3>2
  <2>3. \A e \in prog.copy : Linked(e[1], e[2])'
    BY <2>1 DEF ProgramInv
  <2>. QED BY <1>1, <2>2, <2>3 DEF ProgramInv
<1>5. SentInv'
  <2>1. ASSUME NEW n \in Node, rep[n] = n
        PROVE  pts[n] \subseteq propa'[n] \/ Due(n, ToPropagate)'
    <3>1. CASE n = s
      BY <1>2, <3>1 DEF Due
    <3>2. CASE n # s
      BY <1>2, <2>1, <3>2 DEF SentInv
    <3>. QED BY <3>1, <3>2
  <2>. QED BY <1>1, <2>1 DEF SentInv
<1>6. AccessInv'
  <2>1. \A e \in loadE : \A o \in pts[e[1]] \ NonPointer :
           Joined(rep[o], e[2])' \/ Due(e[1], ToAccess)'
    BY <1>1, <1>2 DEF AccessInv
  <2>2. \A e \in storeE : \A o \in pts[e[2]] \ NonPointer :
           Joined(e[1], rep[o])' \/ Due(e[2], ToAccess)'
    BY <1>1, <1>2 DEF AccessInv
  <2>. QED BY <1>1, <2>1, <2>2 DEF AccessInv
<1>7. ArrayInv'
  <2>1. \A e \in vgepE : e[1] \in Node
    BY DEF IInv, DeliveredInv, GraphTypeOK
  <2>. QED BY <1>1, <1>2, <2>1 DEF ArrayInv
<1>8. CycleInv'
  BY <1>1, <1>2 DEF CycleInv, MergePWC
<1>9. FieldInv'
  BY <1>1 DEF FieldInv
<1>10. ControlInv'
  <2>1. connectQ' # {} => connectQ # {}
    OBVIOUS
  <2>. QED BY <1>1, <2>1 DEF ControlInv
<1>. QED BY <1>3, <1>4, <1>5, <1>6, <1>7, <1>8, <1>9, <1>10

(* What a load or store asks for joins representatives. *)
LEMMA MissingCopiesJoinReps ==
  ASSUME IInv, RepInv, NEW n, NEW e \in MissingCopies(n)
  PROVE  rep[e[1]] = e[1] /\ rep[e[2]] = e[2]
<1>. USE DEF IInv, DeliveredInv, GraphTypeOK, RepInv, RepEnds
<1>1. PICK o \in pts[n] \ NonPointer : e \in LoadCopies(n, o) \cup StoreCopies(n, o)
  BY DEF MissingCopies, DerivedCopies
<1>2. CASE e \in LoadCopies(n, o)
  <2>1. PICK x \in loadE : x[1] = n /\ e = <<rep[o], x[2]>>
    BY <1>2 DEF LoadCopies
  <2>2. o \in Node
    BY <1>1, <2>1, SystemAssumption
  <2>3. rep[rep[o]] = rep[o] /\ rep[x[2]] = x[2]
    BY <2>1, <2>2
  <2>. QED BY <2>1, <2>3
<1>3. CASE e \in StoreCopies(n, o)
  <2>1. PICK x \in storeE : x[2] = n /\ e = <<x[1], rep[o]>>
    BY <1>3 DEF StoreCopies
  <2>2. o \in Node
    BY <1>1, <2>1, SystemAssumption
  <2>3. rep[rep[o]] = rep[o] /\ rep[x[1]] = x[1]
    BY <2>1, <2>2
  <2>. QED BY <2>1, <2>3
<1>. QED BY <1>1, <1>2, <1>3

LEMMA ProcessLoadStoreComplete ==
  ASSUME IInv, CompleteInv, ProcessLoadStore PROVE CompleteInv'
<1>1. PICK e \in MissingCopies(cur) :
         AddCopyEdge(e[1], e[2]) /\ worklist' = worklist \cup {e[1]}
  BY DEF ProcessLoadStore
<1>2. e[1] \in Node /\ e[2] \in Node
  BY MissingCopiesType
<1>3. rep[e[1]] = e[1] /\ rep[e[2]] = e[2]
  BY MissingCopiesJoinReps DEF CompleteInv
<1>4. PushedCopy(e[1], e[2])
  BY <1>1, <1>3 DEF PushedCopy, ProcessLoadStore
<1>. QED BY <1>2, <1>4, PushedCopyComplete DEF ProcessLoadStore

LEMMA ConnectParamComplete ==
  ASSUME IInv, CompleteInv, ConnectParam PROVE CompleteInv'
<1>. USE DEF CompleteInv
<1>1. PICK e \in connectQ :
         /\ connectQ' = connectQ \ {e}
         /\ \/ /\ NewCopy(e[1], e[2])
               /\ AddCopyEdge(e[1], e[2])
               /\ worklist' = worklist \cup {e[1]}
            \/ /\ ~NewCopy(e[1], e[2])
               /\ UNCHANGED <<copyE, propa, worklist>>
  BY DEF ConnectParam
<1>2. /\ pc = "connect"
      /\ UNCHANGED <<prog, rep, loadE, storeE, ngepE, vgepE, pwc, pts, fi, fields>>
      /\ UNCHANGED <<pc, cur, ptsQ, toCollapse, collapsing, fieldQ, callgraph>>
  BY DEF ConnectParam
<1>3. /\ e[1] \in Node /\ e[2] \in Node /\ e = <<e[1], e[2]>>
      /\ rep[e[1]] = e[1] /\ rep[e[2]] = e[2]
  BY DEF IInv, SolverTypeOK, RepInv, RepEnds
<1>4. CASE AddCopyEdge(e[1], e[2]) /\ worklist' = worklist \cup {e[1]}
  <2>1. PushedCopy(e[1], e[2])
    BY <1>2, <1>3, <1>4 DEF PushedCopy
  <2>. QED BY <1>1, <1>2, <1>3, <2>1, PushedCopyComplete
<1>5. CASE ~NewCopy(e[1], e[2]) /\ UNCHANGED <<copyE, propa, worklist>>
  <2>1. QuietGraph /\ UNCHANGED <<rep, edges, pts, propa>> /\ connectQ' \subseteq connectQ
    BY <1>1, <1>2, <1>5 DEF QuietGraph, edges
  <2>2. RepInv' /\ ArrayInv'
    BY <2>1, QuietRep, QuietArray
  <2>3. SentInv' /\ AccessInv'
    BY <1>2, <1>5, <2>1, QuietSent, QuietAccess, IdleStillDue DEF ToAccess, ToPropagate
  <2>4. ProgramInv'
    <3>1. \A x, y : Linked(x, y) => Linked(x, y)'
      BY <1>2, <1>5 DEF Linked, Joined
    <3>2. Joined(e[1], e[2])'
      BY <1>5 DEF NewCopy, Joined
    <3>3. ASSUME NEW c \in prog.icall, <<c[1], c[2]>> \in callgraph
          PROVE  Linked(c[3], c[4])' \/ <<rep[c[3]], rep[c[4]]>> \in connectQ'
      <4>1. Linked(c[3], c[4]) \/ <<rep[c[3]], rep[c[4]]>> \in connectQ
        BY <3>3 DEF ProgramInv
      <4>2. CASE <<rep[c[3]], rep[c[4]]>> = e
        <5>1. rep[c[3]] = e[1] /\ rep[c[4]] = e[2]
          BY <1>3, <4>2
        <5>. QED BY <1>2, <3>2, <5>1 DEF Linked
      <4>. QED BY <1>1, <3>1, <4>1, <4>2
    <3>4. \A x \in prog.copy : Linked(x[1], x[2])'
      BY <3>1 DEF ProgramInv
    <3>. QED BY <1>2, <3>3, <3>4 DEF ProgramInv
  <2>5. CycleInv' /\ FieldInv'
    BY <1>2, <1>5 DEF CycleInv, FieldInv, Waiting, MergePWC
  <2>6. ControlInv'
    BY <1>2, <1>5, <2>1 DEF ControlInv
  <2>. QED BY <2>2, <2>3, <2>4, <2>5, <2>6
<1>. QED BY <1>1, <1>4, <1>5

-----------------------------------------------------------------------------
(* Propagation: who receives anything new is pushed, cur has then sent all *)
(* it points to, and what it indexes as an array is collapsed next.        *)
LEMMA ReceivedFrom ==
  ASSUME IInv, NEW n, NEW d \in Node, NEW Early, NEW o \in Received(n, d, Early)
  PROVE  /\ n \in Node
         /\ \/ <<n, d>> \in copyE \cup vgepE
            \/ \E e \in ngepE : e[1] = n /\ e[2] = d
         /\ \E x \in pts[n] :
              \/ o = x
              \/ BaseOf[o] = o
              \/ BaseOf[o] \notin fi
<1>. USE DEF IInv, DeliveredInv, GraphTypeOK
<1>. DEFINE F(e) == IF e \in Early THEN fi ELSE fi \cup VariantGepBases(n)
            C == {DiffPts(n) : e \in {x \in copyE : x = <<n, d>>}}
            V == {VariantObjNodes(DiffPts(n)) : e \in {x \in vgepE : x = <<n, d>>}}
            G == {GepObjNodes(F(e), DiffPts(n), e[3]) :
                    e \in {x \in ngepE : x[1] = n /\ x[2] = d}}
<1>1. Received(n, d, Early) = UNION (C \cup V \cup G)
  BY DEF Received
<1>2. DiffPts(n) \subseteq pts[n]
  BY DEF DiffPts
<1>3. PICK S \in C \cup V \cup G : o \in S
  BY <1>1
<1>4. CASE S \in C
  <2>1. <<n, d>> \in copyE /\ S = DiffPts(n)
    BY <1>4
  <2>. QED BY <1>2, <1>3, <2>1
<1>5. CASE S \in V
  <2>1. <<n, d>> \in vgepE /\ S = VariantObjNodes(DiffPts(n))
    BY <1>5
  <2>2. n \in Node
    BY <2>1
  <2>3. PICK x \in DiffPts(n) : o = VariantObjNode(x)
    BY <1>3, <2>1 DEF VariantObjNodes
  <2>4. x \in pts[n] /\ x \in Object
    BY <1>2, <2>2, <2>3
  <2>5. BaseOf[o] = o
    BY <2>3, <2>4, SystemAssumption DEF VariantObjNode
  <2>. QED BY <2>1, <2>2, <2>4, <2>5
<1>6. CASE S \in G
  <2>1. PICK e \in ngepE : /\ e[1] = n /\ e[2] = d
                           /\ S = GepObjNodes(F(e), DiffPts(n), e[3])
    BY <1>6
  <2>2. n \in Node /\ e[3] \in Offset /\ fi \subseteq F(e)
    BY <2>1
  <2>. HIDE DEF F
  <2>3. PICK x \in DiffPts(n) : o = GepObjNode(F(e), x, e[3])
    BY <1>3, <2>1 DEF GepObjNodes
  <2>4. x \in pts[n] /\ x \in Object
    BY <1>2, <2>2, <2>3
  <2>5. BaseOf[o] = o \/ BaseOf[o] \notin fi
    <3>1. /\ BaseOf[FieldAt[<<x, e[3]>>]] = BaseOf[x]
          /\ BaseOf[BaseOf[x]] = BaseOf[x]
          /\ x \in BlkOrConst => BaseOf[x] = x
      BY <2>2, <2>4, SystemAssumption
    <3>. QED BY <2>2, <2>3, <3>1 DEF GepObjNode
  <2>. QED BY <2>1, <2>2, <2>4, <2>5
<1>. QED BY <1>3, <1>4, <1>5, <1>6

LEMMA HandleCopyGepArray ==
  ASSUME IInv, ArrayInv, HandleCopyGep PROVE ArrayInv'
<1>1. PICK Early : Propagate(Early)
  BY DEF HandleCopyGep
<1>2. fi' = fi \cup VariantGepBases(cur) /\ vgepE' = vgepE
  BY <1>1 DEF Propagate, HandleCopyGep, edges
<1>3. \A n \in Node : propa'[n] = IF n = cur THEN pts[n] ELSE propa[n]
  BY <1>1 DEF Propagate, IInv, DeliveredInv, GraphTypeOK
<1>4. ASSUME NEW e \in vgepE, NEW o \in propa'[e[1]] \ BlkOrConst PROVE BaseOf[o] \in fi'
  <2>1. e[1] \in Node
    BY DEF IInv, DeliveredInv, GraphTypeOK
  <2>2. CASE o \in propa[e[1]]
    BY <1>2, <1>4, <2>2 DEF ArrayInv
  <2>3. CASE o \notin propa[e[1]]
    <3>1. e[1] = cur /\ o \in DiffPts(cur) \ BlkOrConst
      BY <1>3, <1>4, <2>1, <2>3 DEF DiffPts
    <3>2. BaseOf[o] \in fi \cup VariantGepBases(cur)
      BY <3>1 DEF VariantGepBases
    <3>. QED BY <1>2, <3>2
  <2>. QED BY <2>2, <2>3
<1>. QED BY <1>2, <1>4 DEF ArrayInv

LEMMA HandleCopyGepFields ==
  ASSUME IInv, FieldInv, HandleCopyGep PROVE FieldInv'
<1>1. PICK Early : Propagate(Early)
  BY DEF HandleCopyGep
<1>. DEFINE Rcv(d) == Received(cur, d, Early)
<1>2. /\ \A d \in Node : pts'[d] = pts[d] \cup Rcv(d)
      /\ fi' = fi \cup VariantGepBases(cur)
      /\ toCollapse' = toCollapse \cup VariantGepBases(cur)
      /\ fields' = fields \cup {f \in UNION {Rcv(d) : d \in Node} : BaseOf[f] # f}
      /\ UNCHANGED <<rep, collapsing, fieldQ>>
  BY <1>1 DEF Propagate, HandleCopyGep
<1>3. \A d \in Node : \A o \in Rcv(d) :
         /\ cur \in Node
         /\ \E x \in pts[cur] : o = x \/ BaseOf[o] = o \/ BaseOf[o] \notin fi
  BY ReceivedFrom
<1>. HIDE DEF Rcv
<1>4. ASSUME NEW n \in Node, NEW o \in pts'[n], BaseOf[o] # o PROVE o \in fields'
  BY <1>2, <1>4 DEF FieldInv
<1>5. ASSUME NEW f \in fields', BaseOf[f] \in fi'
      PROVE  \/ rep[f] = rep[BaseOf[f]]
             \/ f \in fieldQ /\ collapsing = BaseOf[f]
             \/ BaseOf[f] \in toCollapse'
  <2>1. CASE BaseOf[f] \in VariantGepBases(cur)
    BY <1>2, <2>1
  <2>2. CASE BaseOf[f] \in fi
    <3>1. f \in fields
      BY <1>2, <1>3, <1>5, <2>2 DEF FieldInv
    <3>. QED BY <1>2, <2>2, <3>1 DEF FieldInv
  <2>. QED BY <1>2, <1>5, <2>1, <2>2
<1>. QED BY <1>2, <1>4, <1>5 DEF FieldInv

LEMMA HandleCopyGepComplete ==
  ASSUME IInv, CompleteInv, HandleCopyGep PROVE CompleteInv'
<1>. USE DEF CompleteInv
<1>1. PICK Early : Propagate(Early)
  BY DEF HandleCopyGep
<1>. DEFINE Rcv(d) == Received(cur, d, Early)
<1>2. /\ \A d \in Node : pts'[d] = pts[d] \cup Rcv(d)
      /\ fi' = fi \cup VariantGepBases(cur)
      /\ toCollapse' = toCollapse \cup VariantGepBases(cur)
      /\ worklist' = worklist \cup {d \in Node : ~(Rcv(d) \subseteq pts[d])}
      /\ fields' = fields \cup {f \in UNION {Rcv(d) : d \in Node} : BaseOf[f] # f}
  BY <1>1 DEF Propagate
<1>3. /\ pc = "copygep" /\ pc' = "fields"
      /\ UNCHANGED <<prog, rep, copyE, loadE, storeE, ngepE, vgepE, pwc>>
      /\ UNCHANGED <<cur, ptsQ, collapsing, fieldQ, callgraph, connectQ, reanalyze>>
  BY DEF HandleCopyGep, edges
<1>4. \A n \in Node : propa'[n] = IF n = cur THEN pts[n] ELSE propa[n]
  BY <1>1 DEF Propagate, IInv, DeliveredInv, GraphTypeOK
<1>5. /\ \A n : n \in Waiting => n \in Waiting'
      /\ \A n \in Node : rep[n] = n /\ ~(Rcv(n) \subseteq pts[n]) => n \in Waiting'
  BY <1>2, <1>3 DEF Waiting
<1>6. \A d \in Node : \A o \in Rcv(d) :
         /\ rep[d] = d
         /\ cur \in Node
         /\ \E x \in pts[cur] : o = x \/ BaseOf[o] = o \/ BaseOf[o] \notin fi
  <2>1. ASSUME NEW d \in Node, NEW o \in Rcv(d)
        PROVE  /\ rep[d] = d
               /\ cur \in Node
               /\ \E x \in pts[cur] : o = x \/ BaseOf[o] = o \/ BaseOf[o] \notin fi
    <3>1. /\ cur \in Node
          /\ \/ <<cur, d>> \in copyE \cup vgepE
             \/ \E e \in ngepE : e[1] = cur /\ e[2] = d
          /\ \E x \in pts[cur] : o = x \/ BaseOf[o] = o \/ BaseOf[o] \notin fi
      BY <2>1, ReceivedFrom
    <3>2. rep[d] = d
      BY <3>1 DEF RepInv, RepEnds
    <3>. QED BY <3>1, <3>2
  <2>. QED BY <2>1
<1>. HIDE DEF Rcv
<1>7. RepInv'
  BY <1>3 DEF RepInv, RepEnds
<1>8. ProgramInv'
  <2>1. \A x, y : Linked(x, y) => Linked(x, y)'
    BY <1>3 DEF Linked, Joined
  <2>2. ASSUME NEW e \in prog.addr PROVE Covers(fi', pts'[rep'[e[2]]], {e[1]})
    <3>1. prog \in Program
      BY SystemAssumption DEF IInv, DeliveredInv, GraphTypeOK
    <3>2. e[1] \in Object /\ e[2] \in Node
      BY <3>1 DEF Program
    <3>3. rep[e[2]] \in Node
      BY <3>2 DEF IInv, DeliveredInv, GraphTypeOK
    <3>4. pts[rep[e[2]]] \in SUBSET Object /\ Covers(fi, pts[rep[e[2]]], {e[1]})
      BY <3>3 DEF IInv, DeliveredInv, GraphTypeOK, ProgramInv
    <3>5. Covers(fi', pts[rep[e[2]]], {e[1]})
      BY <1>2, <3>2, <3>4, CoversMoreInsensitive
    <3>6. Covers(fi', pts'[rep[e[2]]], pts[rep[e[2]]])
      BY <1>2, <3>3, CoversSubset
    <3>7. Covers(fi', pts'[rep[e[2]]], {e[1]})
      BY <3>5, <3>6, CoversTransitive
    <3>. QED BY <1>3, <3>7
  <2>3. /\ \A e \in prog.copy : Linked(e[1], e[2])'
        /\ \A c \in prog.icall : <<c[1], c[2]>> \in callgraph =>
              Linked(c[3], c[4])' \/ <<rep[c[3]], rep[c[4]]>> \in connectQ
    BY <2>1 DEF ProgramInv
  <2>. QED BY <1>3, <2>2, <2>3 DEF ProgramInv
<1>9. SentInv'
  <2>1. ASSUME NEW n \in Node, rep[n] = n, n \notin Waiting'
        PROVE  pts'[n] \subseteq propa'[n]
    <3>1. pts'[n] = pts[n]
      BY <1>2, <1>5, <2>1
    <3>2. n # cur => pts[n] \subseteq propa[n]
      BY <1>5, <2>1 DEF SentInv, Due
    <3>. QED BY <1>4, <3>1, <3>2
  <2>. QED BY <1>3, <2>1 DEF SentInv, Due
<1>10. AccessInv'
  <2>1. pc \notin ToAccess
    BY <1>3 DEF ToAccess
  <2>2. \A e \in loadE \cup storeE :
           /\ e[1] \in Node /\ rep[e[1]] = e[1]
           /\ e[2] \in Node /\ rep[e[2]] = e[2]
    BY DEF IInv, DeliveredInv, GraphTypeOK, RepInv, RepEnds
  <2>3. ASSUME NEW e \in loadE, NEW o \in pts'[e[1]] \ NonPointer
        PROVE  Joined(rep[o], e[2]) \/ e[1] \in Waiting'
    <3>1. CASE o \in pts[e[1]]
      BY <1>5, <2>1, <2>3, <3>1 DEF AccessInv, Due
    <3>2. CASE o \notin pts[e[1]]
      BY <1>2, <1>5, <2>2, <2>3, <3>2
    <3>. QED BY <3>1, <3>2
  <2>4. ASSUME NEW e \in storeE, NEW o \in pts'[e[2]] \ NonPointer
        PROVE  Joined(e[1], rep[o]) \/ e[2] \in Waiting'
    <3>1. CASE o \in pts[e[2]]
      BY <1>5, <2>1, <2>4, <3>1 DEF AccessInv, Due
    <3>2. CASE o \notin pts[e[2]]
      BY <1>2, <1>5, <2>2, <2>4, <3>2
    <3>. QED BY <3>1, <3>2
  <2>. QED BY <1>3, <2>3, <2>4 DEF AccessInv, Due, Joined
<1>11. ArrayInv'
  BY HandleCopyGepArray
<1>12. CycleInv'
  <2>1. ASSUME MergePWC, NEW n \in pwc, NEW o \in pts'[n] \ BlkOrConst
        PROVE  BaseOf[o] \in fi' \/ n \in Waiting'
    <3>1. n \in Node
      BY DEF IInv, DeliveredInv, GraphTypeOK
    <3>2. CASE o \in pts[n]
      BY <1>2, <1>3, <1>5, <2>1, <3>2 DEF CycleInv
    <3>3. CASE o \notin pts[n]
      BY <1>2, <1>5, <1>6, <2>1, <3>1, <3>3
    <3>. QED BY <3>2, <3>3
  <2>. QED BY <1>3, <2>1 DEF CycleInv, MergePWC
<1>13. FieldInv'
  BY HandleCopyGepFields
<1>14. ControlInv'
  <2>1. \A o \in VariantGepBases(cur) : BaseOf[o] = o
    <3>1. ASSUME NEW o \in VariantGepBases(cur) PROVE BaseOf[o] = o
      <4>1. PICK x \in DiffPts(cur) : o = BaseOf[x] /\ \E e \in vgepE : e[1] = cur
        BY <3>1 DEF VariantGepBases
      <4>2. cur \in Node
        BY <4>1 DEF IInv, DeliveredInv, GraphTypeOK
      <4>3. x \in Object
        BY <4>1, <4>2 DEF DiffPts, IInv, DeliveredInv, GraphTypeOK
      <4>. QED BY <4>1, <4>3, SystemAssumption
    <3>. QED BY <3>1
  <2>. QED BY <1>2, <1>3, <2>1 DEF ControlInv
<1>. QED BY <1>7, <1>8, <1>9, <1>10, <1>11, <1>12, <1>13, <1>14

-----------------------------------------------------------------------------
(* What is joined stays joined when n is merged into r, and the merged node*)
(* counts as propagated only what both have.                               *)
LEMMA MergeLinks ==
  ASSUME IInv, NEW n \in Node, NEW r \in Node, NEW P \in [Node -> SUBSET Object],
         MergeNodeToRep(n, r, P)
  PROVE  /\ \A x \in Node : rep'[x] = Moved(rep[x], n, r)
         /\ \A x, y : Joined(x, y) => Joined(Moved(x, n, r), Moved(y, n, r))'
         /\ \A x \in Node : propa'[Moved(x, n, r)] \subseteq propa[x]
<1>. USE DEF MergeNodeToRep, MergePts
<1>1. \A x \in Node : rep'[x] = Moved(rep[x], n, r)
  OBVIOUS
<1>2. ASSUME NEW x, NEW y, Joined(x, y)
      PROVE  Joined(Moved(x, n, r), Moved(y, n, r))'
  <2>1. CASE x = y
    BY <2>1 DEF Joined
  <2>2. CASE <<x, y>> \in copyE
    <3>1. <<Moved(x, n, r), Moved(y, n, r)>> \in MovedPairs(copyE, n, r)
      BY <2>2 DEF MovedPairs
    <3>2. copyE' = {e \in MovedPairs(copyE, n, r) : e[1] # e[2]}
      OBVIOUS
    <3>. QED BY <3>1, <3>2 DEF Joined
  <2>. QED BY <1>2, <2>1, <2>2 DEF Joined
<1>3. \A x \in Node : propa'[Moved(x, n, r)] \subseteq propa[x]
  BY DEF Moved, IInv, DeliveredInv, GraphTypeOK
<1>. QED BY <1>1, <1>2, <1>3

-----------------------------------------------------------------------------
(* A merge of n into another representative r that pushes r, and every     *)
(* node whose points-to set it changes.                                    *)
PushedMerge(n, r, P) ==
  /\ n # r /\ rep[r] = r
  /\ MergeNodeToRep(n, r, P)
  /\ worklist \cup {r} \subseteq worklist'
  /\ \A m \in Node : P[m] # pts[m] => rep[m] \in worklist'
  /\ UNCHANGED <<prog, fi, fields, pc, cur, ptsQ, toCollapse, collapsing,
                 callgraph, connectQ>>

LEMMA PushedMergeFacts ==
  ASSUME IInv, RepInv, NEW n \in Node, NEW r \in Node, NEW P \in [Node -> SUBSET Object],
         PushedMerge(n, r, P)
  PROVE  /\ \A x \in Node : rep'[x] = Moved(rep[x], n, r)
         /\ \A x : x \in Waiting => Moved(x, n, r) \in Waiting'
         /\ r \in Waiting'
         /\ \A m \in Node : rep[m] = m /\ P[m] # pts[m] => Moved(m, n, r) \in Waiting'
         /\ \A x, y : Joined(x, y) => Joined(Moved(x, n, r), Moved(y, n, r))'
         /\ \A x \in Node : x # n /\ x # r =>
               /\ Moved(x, n, r) = x
               /\ pts'[x] = P[x]
               /\ propa'[x] = propa[x]
         /\ \A x \in Node : propa'[Moved(x, n, r)] \subseteq propa[x]
<1>. USE DEF PushedMerge, MergeNodeToRep, MergePts
<1>0. /\ rep \in [Node -> Node] /\ propa \in [Node -> SUBSET Object]
      /\ copyE \in SUBSET (Node \X Node) /\ worklist \in SUBSET Node
  BY DEF IInv, SolverTypeOK, DeliveredInv, GraphTypeOK
<1>1. \A x \in Node : rep'[x] = Moved(rep[x], n, r)
  BY MergeLinks
<1>2. ASSUME NEW x, x \in Waiting PROVE Moved(x, n, r) \in Waiting'
  <2>1. PICK d \in worklist : x = rep[d]
    BY <1>2 DEF Waiting
  <2>. QED BY <1>0, <1>1, <2>1 DEF Waiting
<1>3. r \in Waiting'
  <2>1. rep'[r] = r
    BY <1>1 DEF Moved
  <2>2. r \in worklist'
    OBVIOUS
  <2>. QED BY <2>1, <2>2 DEF Waiting
<1>4. ASSUME NEW m \in Node, rep[m] = m, P[m] # pts[m] PROVE Moved(m, n, r) \in Waiting'
  <2>1. rep[m] \in worklist' /\ rep'[rep[m]] = Moved(m, n, r)
    BY <1>1, <1>4
  <2>. QED BY <2>1 DEF Waiting
<1>5. \A x, y : Joined(x, y) => Joined(Moved(x, n, r), Moved(y, n, r))'
  BY MergeLinks
<1>6. ASSUME NEW x \in Node, x # n, x # r
      PROVE  Moved(x, n, r) = x /\ pts'[x] = P[x] /\ propa'[x] = propa[x]
  BY <1>0, <1>6 DEF Moved
<1>7. \A x \in Node : propa'[Moved(x, n, r)] \subseteq propa[x]
  BY MergeLinks
<1>. QED BY <1>1, <1>2, <1>3, <1>4, <1>5, <1>6, <1>7

(* Merging into another representative leaves every edge and flag with one,*)
(* whether or not anything is pushed.                                      *)
LEMMA MergeKeepsRep ==
  ASSUME IInv, RepInv, NEW n \in Node, NEW r \in Node, NEW P \in [Node -> SUBSET Object],
         n # r, rep[r] = r, MergeNodeToRep(n, r, P), connectQ' = {}
  PROVE  RepInv'
<1>. USE DEF IInv, DeliveredInv, GraphTypeOK
<1>1. \A x \in Node : rep'[x] = Moved(rep[x], n, r)
  BY DEF MergeNodeToRep, MergePts
<1>2. n # r /\ rep[r] = r /\ MergeNodeToRep(n, r, P) /\ connectQ' = {}
  OBVIOUS
<1>3. ASSUME NEW x \in Node, rep[x] = x PROVE rep'[Moved(x, n, r)] = Moved(x, n, r)
  BY <1>1, <1>2, <1>3 DEF Moved
<1>4. \A x \in Node : rep'[rep'[x]] = rep'[x]
  BY <1>1, <1>3 DEF RepInv
<1>5. ASSUME NEW E, \A d \in E : d[1] \in Node /\ d[2] \in Node /\ RepEnds(d),
             NEW e \in MovedPairs(E, n, r)
      PROVE  RepEnds(e)'
  <2>1. PICK d \in E : e = <<Moved(d[1], n, r), Moved(d[2], n, r)>>
    BY <1>5 DEF MovedPairs
  <2>. QED BY <1>3, <1>5, <2>1 DEF RepEnds
<1>6. /\ \A d \in copyE : d[1] \in Node /\ d[2] \in Node /\ RepEnds(d)
      /\ \A d \in loadE : d[1] \in Node /\ d[2] \in Node /\ RepEnds(d)
      /\ \A d \in storeE : d[1] \in Node /\ d[2] \in Node /\ RepEnds(d)
      /\ \A d \in vgepE : d[1] \in Node /\ d[2] \in Node /\ RepEnds(d)
  BY DEF RepInv
<1>7. /\ copyE' \subseteq MovedPairs(copyE, n, r)
      /\ loadE' = MovedPairs(loadE, n, r)
      /\ storeE' = MovedPairs(storeE, n, r)
      /\ vgepE' = MovedPairs({e \in vgepE : ~Inside(e, n, r)}, n, r)
  BY <1>2 DEF MergeNodeToRep, MergePts
<1>8. /\ \A e \in copyE' : RepEnds(e)'
      /\ \A e \in loadE' : RepEnds(e)'
      /\ \A e \in storeE' : RepEnds(e)'
      /\ \A e \in vgepE' : RepEnds(e)'
  <2>1. \A e \in copyE' : RepEnds(e)'
    BY <1>5, <1>6, <1>7
  <2>2. \A e \in loadE' : RepEnds(e)'
    BY <1>5, <1>6, <1>7
  <2>3. \A e \in storeE' : RepEnds(e)'
    BY <1>5, <1>6, <1>7
  <2>4. \A e \in MovedPairs({e \in vgepE : ~Inside(e, n, r)}, n, r) : RepEnds(e)'
    BY <1>5, <1>6
  <2>. QED BY <1>7, <2>1, <2>2, <2>3, <2>4
<1>9. ASSUME NEW e \in ngepE' PROVE RepEnds(e)'
  <2>1. PICK d \in ngepE : e[1] = Moved(d[1], n, r) /\ e[2] = Moved(d[2], n, r)
    BY <1>2, MovedEdges
  <2>2. d[1] \in Node /\ d[2] \in Node /\ RepEnds(d)
    BY DEF RepInv
  <2>. QED BY <1>3, <2>1, <2>2 DEF RepEnds
<1>10. ASSUME NEW m \in pwc' PROVE rep'[m] = m
  <2>1. m = r \/ (m \in pwc /\ m # n)
    BY <1>2, <1>10 DEF MergeNodeToRep, MergePts
  <2>2. m \in pwc => m \in Node /\ rep[m] = m
    BY DEF RepInv
  <2>. QED BY <1>1, <1>2, <2>1, <2>2 DEF Moved
<1>11. \A e \in copyE' \cup loadE' \cup storeE' \cup vgepE' \cup connectQ' : RepEnds(e)'
  BY <1>2, <1>8
<1>. QED BY <1>4, <1>9, <1>10, <1>11 DEF RepInv

LEMMA MergeRep ==
  ASSUME IInv, RepInv, NEW n \in Node, NEW r \in Node, NEW P \in [Node -> SUBSET Object],
         PushedMerge(n, r, P), connectQ = {}
  PROVE  RepInv'
BY MergeKeepsRep DEF PushedMerge

LEMMA MergeKeepsProgram ==
  ASSUME IInv, ProgramInv, NEW n \in Node, NEW r \in Node,
         NEW P \in [Node -> SUBSET Object], MergeNodeToRep(n, r, P),
         UNCHANGED <<prog, fi, callgraph>>, connectQ = {}, connectQ' = {}, IInv', Grows
  PROVE  ProgramInv'
<1>. USE DEF IInv, DeliveredInv, GraphTypeOK
<1>1. /\ \A x \in Node : rep'[x] = Moved(rep[x], n, r)
      /\ \A x, y : Joined(x, y) => Joined(Moved(x, n, r), Moved(y, n, r))'
  BY MergeLinks
<1>2. /\ MergeNodeToRep(n, r, P) /\ connectQ' = {} /\ UNCHANGED <<prog, fi, callgraph>>
  OBVIOUS
<1>3. prog \in Program
  BY SystemAssumption
<1>4. ASSUME NEW x \in Node, NEW y \in Node, Linked(x, y) PROVE Linked(x, y)'
  BY <1>1, <1>4 DEF Linked
<1>5. ASSUME NEW e \in prog.addr PROVE Covers(fi', pts'[rep'[e[2]]], {e[1]})
  <2>1. e[1] \in Object /\ e[2] \in Node
    BY <1>3 DEF Program
  <2>2. Covers(fi', pts'[rep'[e[2]]], pts[rep[e[2]]])
    BY <2>1 DEF Grows, Solution
  <2>3. Covers(fi', pts[rep[e[2]]], {e[1]})
    BY <1>2 DEF ProgramInv
  <2>. QED BY <2>2, <2>3, CoversTransitive
<1>6. ASSUME NEW e \in prog.copy PROVE Linked(e[1], e[2])'
  BY <1>3, <1>4 DEF Program, ProgramInv
<1>7. ASSUME NEW e \in prog.load PROVE <<rep'[e[1]], rep'[e[2]]>> \in loadE'
  <2>1. e[1] \in Node /\ e[2] \in Node /\ <<rep[e[1]], rep[e[2]]>> \in loadE
    BY <1>3 DEF Program, ProgramInv
  <2>2. loadE' = MovedPairs(loadE, n, r)
    BY <1>2 DEF MergeNodeToRep, MergePts
  <2>. QED BY <1>1, <2>1, <2>2 DEF MovedPairs
<1>8. ASSUME NEW e \in prog.store PROVE <<rep'[e[1]], rep'[e[2]]>> \in storeE'
  <2>1. e[1] \in Node /\ e[2] \in Node /\ <<rep[e[1]], rep[e[2]]>> \in storeE
    BY <1>3 DEF Program, ProgramInv
  <2>2. storeE' = MovedPairs(storeE, n, r)
    BY <1>2 DEF MergeNodeToRep, MergePts
  <2>. QED BY <1>1, <2>1, <2>2 DEF MovedPairs
<1>9. ASSUME NEW e \in prog.vgep
      PROVE  \/ <<rep'[e[1]], rep'[e[2]]>> \in vgepE'
             \/ rep'[e[1]] = rep'[e[2]] /\ rep'[e[1]] \in pwc'
  <2>. DEFINE d == <<rep[e[1]], rep[e[2]]>>
  <2>1. e[1] \in Node /\ e[2] \in Node
    BY <1>3 DEF Program
  <2>2. rep'[e[1]] = Moved(d[1], n, r) /\ rep'[e[2]] = Moved(d[2], n, r)
    BY <1>1, <2>1
  <2>3. pwc' = (pwc \ {n}) \cup
                  (IF n \in pwc \/ CriticalGepInside(n, r) THEN {r} ELSE {})
    BY <1>2 DEF MergeNodeToRep, MergePts
  <2>4. CASE d \in vgepE /\ ~Inside(d, n, r)
    <3>1. vgepE' = MovedPairs({x \in vgepE : ~Inside(x, n, r)}, n, r)
      BY <1>2 DEF MergeNodeToRep, MergePts
    <3>2. <<Moved(d[1], n, r), Moved(d[2], n, r)>> \in vgepE'
      BY <2>4, <3>1 DEF MovedPairs
    <3>. QED BY <2>2, <3>2
  <2>5. CASE d \in vgepE /\ Inside(d, n, r)
    <3>1. CriticalGepInside(n, r)
      BY <2>5 DEF CriticalGepInside
    <3>2. Moved(d[1], n, r) = r /\ Moved(d[2], n, r) = r
      BY <2>5 DEF Inside, Touches, Moved
    <3>. QED BY <2>2, <2>3, <3>1, <3>2
  <2>6. CASE rep[e[1]] = rep[e[2]] /\ rep[e[1]] \in pwc
    BY <2>2, <2>3, <2>6 DEF Moved
  <2>. QED BY <2>4, <2>5, <2>6 DEF ProgramInv
<1>10. ASSUME NEW c \in prog.icall, <<c[1], c[2]>> \in callgraph PROVE Linked(c[3], c[4])'
  <2>1. c[3] \in Node /\ c[4] \in Node
    BY <1>3 DEF Program
  <2>2. Linked(c[3], c[4])
    BY <1>10 DEF ProgramInv
  <2>. QED BY <1>4, <2>1, <2>2
<1>. QED BY <1>2, <1>5, <1>6, <1>7, <1>8, <1>9, <1>10 DEF ProgramInv

LEMMA MergeProgram ==
  ASSUME IInv, RepInv, ProgramInv, NEW n \in Node, NEW r \in Node,
         NEW P \in [Node -> SUBSET Object],
         PushedMerge(n, r, P), connectQ = {}, IInv', Grows
  PROVE  ProgramInv'
BY MergeKeepsProgram DEF PushedMerge

(* After the merge a representative waits, or is what it was. *)
LEMMA MergeDue ==
  ASSUME IInv, RepInv, NEW n \in Node, NEW r \in Node, NEW P \in [Node -> SUBSET Object],
         PushedMerge(n, r, P)
  PROVE  /\ \A m \in Node : rep[m] = m =>
               \/ Moved(m, n, r) \in Waiting'
               \/ /\ Moved(m, n, r) = m /\ m # n /\ m # r
                  /\ pts'[m] = pts[m] /\ propa'[m] = propa[m]
         /\ \A x, H : Due(x, H) => Due(Moved(x, n, r), H)'
<1>1. /\ \A x : x \in Waiting => Moved(x, n, r) \in Waiting'
      /\ r \in Waiting'
      /\ \A m \in Node : rep[m] = m /\ P[m] # pts[m] => Moved(m, n, r) \in Waiting'
      /\ \A x \in Node : x # n /\ x # r =>
            Moved(x, n, r) = x /\ pts'[x] = P[x] /\ propa'[x] = propa[x]
  BY PushedMergeFacts
<1>2. Moved(n, n, r) = r /\ Moved(r, n, r) = r
  BY DEF Moved
<1>3. ASSUME NEW m \in Node, rep[m] = m, Moved(m, n, r) \notin Waiting'
      PROVE  /\ Moved(m, n, r) = m /\ m # n /\ m # r
             /\ pts'[m] = pts[m] /\ propa'[m] = propa[m]
  BY <1>1, <1>2, <1>3
<1>4. ASSUME NEW x, NEW H, Due(x, H) PROVE Due(Moved(x, n, r), H)'
  <2>1. UNCHANGED <<pc, cur>>
    BY DEF PushedMerge
  <2>2. CASE x \in Waiting
    BY <1>1, <2>2 DEF Due
  <2>3. CASE cur = x /\ pc \in H
    <3>1. x = n \/ Moved(x, n, r) = x
      BY DEF Moved
    <3>. QED BY <1>1, <1>2, <2>1, <2>3, <3>1 DEF Due
  <2>. QED BY <1>4, <2>2, <2>3 DEF Due
<1>. QED BY <1>3, <1>4

LEMMA MergeSent ==
  ASSUME IInv, RepInv, SentInv, NEW n \in Node, NEW r \in Node,
         NEW P \in [Node -> SUBSET Object], PushedMerge(n, r, P)
  PROVE  SentInv'
<1>1. ASSUME NEW m \in Node, rep'[m] = m PROVE pts'[m] \subseteq propa'[m] \/ Due(m, ToPropagate)'
  <2>1. rep'[m] = Moved(rep[m], n, r) /\ r \in Waiting'
    BY PushedMergeFacts
  <2>2. CASE m = r
    BY <2>1, <2>2 DEF Due
  <2>3. CASE m # r
    <3>1. rep[m] = m
      BY <1>1, <2>1, <2>3 DEF Moved
    <3>2. /\ m \in Waiting' \/ (pts'[m] = pts[m] /\ propa'[m] = propa[m])
          /\ Due(m, ToPropagate) => Due(m, ToPropagate)'
      BY <1>1, <2>1, <2>3, <3>1, MergeDue
    <3>. QED BY <3>1, <3>2 DEF SentInv, Due
  <2>. QED BY <2>2, <2>3
<1>. QED BY <1>1 DEF SentInv

LEMMA MergeAccess ==
  ASSUME IInv, RepInv, AccessInv, NEW n \in Node, NEW r \in Node,
         NEW P \in [Node -> SUBSET Object], PushedMerge(n, r, P), IInv'
  PROVE  AccessInv'
<1>. USE DEF IInv, DeliveredInv, GraphTypeOK
<1>1. /\ \A x \in Node : rep'[x] = Moved(rep[x], n, r)
      /\ \A x, y : Joined(x, y) => Joined(Moved(x, n, r), Moved(y, n, r))'
  BY PushedMergeFacts
<1>2. loadE' = MovedPairs(loadE, n, r) /\ storeE' = MovedPairs(storeE, n, r)
  BY DEF PushedMerge, MergeNodeToRep, MergePts
<1>3. ASSUME NEW e \in loadE', NEW o \in pts'[e[1]] \ NonPointer
      PROVE  Joined(rep[o], e[2])' \/ Due(e[1], ToAccess)'
  <2>1. PICK d \in loadE : e = <<Moved(d[1], n, r), Moved(d[2], n, r)>>
    BY <1>2 DEF MovedPairs
  <2>2. d[1] \in Node /\ rep[d[1]] = d[1] /\ e[1] \in Node /\ o \in Node
    BY <1>3, SystemAssumption DEF RepInv, RepEnds
  <2>3. CASE e[1] \in Waiting'
    BY <2>3 DEF Due
  <2>4. CASE e[1] \notin Waiting'
    <3>1. e[1] = d[1] /\ pts'[d[1]] = pts[d[1]]
      BY <2>1, <2>2, <2>4, MergeDue
    <3>2. Joined(rep[o], d[2]) \/ Due(d[1], ToAccess)
      BY <1>3, <3>1 DEF AccessInv
    <3>3. Joined(rep[o], d[2]) => Joined(rep[o], e[2])'
      BY <1>1, <2>1, <2>2
    <3>4. Due(d[1], ToAccess) => Due(e[1], ToAccess)'
      BY <2>1, MergeDue
    <3>. QED BY <3>2, <3>3, <3>4
  <2>. QED BY <2>3, <2>4
<1>4. ASSUME NEW e \in storeE', NEW o \in pts'[e[2]] \ NonPointer
      PROVE  Joined(e[1], rep[o])' \/ Due(e[2], ToAccess)'
  <2>1. PICK d \in storeE : e = <<Moved(d[1], n, r), Moved(d[2], n, r)>>
    BY <1>2 DEF MovedPairs
  <2>2. d[2] \in Node /\ rep[d[2]] = d[2] /\ e[2] \in Node /\ o \in Node
    BY <1>4, SystemAssumption DEF RepInv, RepEnds
  <2>3. CASE e[2] \in Waiting'
    BY <2>3 DEF Due
  <2>4. CASE e[2] \notin Waiting'
    <3>1. e[2] = d[2] /\ pts'[d[2]] = pts[d[2]]
      BY <2>1, <2>2, <2>4, MergeDue
    <3>2. Joined(d[1], rep[o]) \/ Due(d[2], ToAccess)
      BY <1>4, <3>1 DEF AccessInv
    <3>3. Joined(d[1], rep[o]) => Joined(e[1], rep[o])'
      BY <1>1, <2>1, <2>2
    <3>4. Due(d[2], ToAccess) => Due(e[2], ToAccess)'
      BY <2>1, MergeDue
    <3>. QED BY <3>2, <3>3, <3>4
  <2>. QED BY <2>3, <2>4
<1>. QED BY <1>3, <1>4 DEF AccessInv

LEMMA MergeArray ==
  ASSUME IInv, ArrayInv, NEW n \in Node, NEW r \in Node,
         NEW P \in [Node -> SUBSET Object], MergeNodeToRep(n, r, P), fi' = fi
  PROVE  ArrayInv'
<1>1. ASSUME NEW e \in vgepE', NEW o \in propa'[e[1]] \ BlkOrConst PROVE BaseOf[o] \in fi'
  <2>1. MergeNodeToRep(n, r, P) /\ fi' = fi
    OBVIOUS
  <2>2. GraphTypeOK
    BY DEF IInv, DeliveredInv
  <2>3. PICK d \in vgepE : e[1] = Moved(d[1], n, r)
    BY <1>1, <2>1, <2>2, MovedEdges
  <2>4. d[1] \in Node
    BY <2>2 DEF GraphTypeOK
  <2>5. propa'[e[1]] \subseteq propa[d[1]]
    BY <2>3, <2>4, MergeLinks
  <2>. QED BY <1>1, <2>1, <2>5 DEF ArrayInv
<1>. QED BY <1>1 DEF ArrayInv

(* Nodes that are merged are merged with all their fields. *)
LEMMA MergeFields ==
  ASSUME IInv, FieldInv, NEW n \in Node, NEW r \in Node, MergeNodeToRep(n, r, pts),
         UNCHANGED <<fi, fields, fieldQ, collapsing, toCollapse>>
  PROVE  FieldInv'
<1>1. \A x \in Node : rep'[x] = Moved(rep[x], n, r)
  BY DEF MergeNodeToRep, MergePts
<1>2. ASSUME NEW m \in Node, NEW o \in pts'[m], BaseOf[o] # o PROVE o \in fields
  <2>1. pts' = [pts EXCEPT ![r] = @ \cup pts[n]] /\ pts \in [Node -> SUBSET Object]
    BY DEF MergeNodeToRep, MergePts, IInv, DeliveredInv, GraphTypeOK
  <2>2. \E x \in Node : o \in pts[x]
    BY <1>2, <2>1
  <2>. QED BY <1>2, <2>2 DEF FieldInv
<1>3. ASSUME NEW f \in fields PROVE rep[f] = rep[BaseOf[f]] => rep'[f] = rep'[BaseOf[f]]
  <2>1. f \in Node /\ BaseOf[f] \in Node
    BY SystemAssumption DEF IInv, DeliveredInv, GraphTypeOK
  <2>. QED BY <1>1, <2>1
<1>. QED BY <1>2, <1>3 DEF FieldInv

(* One iteration of collapseField's loop merges the node of its field.     *)
LEMMA CollapseOneFieldFields ==
  ASSUME IInv, FieldInv, NEW pushes, CollapseOneField(pushes) PROVE FieldInv'
<1>. DEFINE b == collapsing
<1>1. PICK f \in fieldQ :
         /\ fieldQ' = fieldQ \ {f}
         /\ \/ /\ rep[f] = rep[b]
               /\ pts' = PointeeReplaced(f, b)
               /\ UNCHANGED rep
            \/ /\ rep[f] # rep[b]
               /\ MergeNodeToRep(rep[f], rep[b], PointeeReplaced(f, b))
  BY DEF CollapseOneField
<1>2. UNCHANGED <<fi, fields, toCollapse, collapsing>> /\ collapsing # NoNode
  BY DEF CollapseOneField
<1>3. /\ b \in fi /\ b \in Object /\ BaseOf[b] = b
      /\ f \in Object /\ BaseOf[f] = b
      /\ b \in Node /\ f \in Node
      /\ rep[f] \in Node /\ rep[b] \in Node
  BY <1>1, <1>2, SystemAssumption DEF IInv, CollapseInv, SolverTypeOK, DeliveredInv, GraphTypeOK
<1>. DEFINE P == PointeeReplaced(f, b)
<1>4. P \in [Node -> SUBSET Object]
  BY <1>3, PointeeReplacedCovers DEF IInv, DeliveredInv
<1>5. \A m \in Node : P[m] \subseteq pts[m] \cup {b}
  BY DEF PointeeReplaced
<1>. HIDE DEF P
<1>6. /\ \A m \in Node : \E x \in Node : pts'[m] \subseteq pts[m] \cup pts[x] \cup {b}
      /\ \A x, y \in Node : rep[x] = rep[y] => rep'[x] = rep'[y]
      /\ rep'[f] = rep'[b]
  <2>1. CASE rep[f] = rep[b] /\ pts' = P /\ UNCHANGED rep
    BY <1>5, <2>1
  <2>2. CASE rep[f] # rep[b] /\ MergeNodeToRep(rep[f], rep[b], P)
    <3>1. \A x \in Node : rep'[x] = Moved(rep[x], rep[f], rep[b])
      BY <2>2 DEF MergeNodeToRep, MergePts
    <3>2. pts' = [P EXCEPT ![rep[b]] = @ \cup P[rep[f]]]
      BY <2>2 DEF MergeNodeToRep, MergePts
    <3>3. ASSUME NEW m \in Node PROVE \E x \in Node : pts'[m] \subseteq pts[m] \cup pts[x] \cup {b}
      BY <1>3, <1>4, <1>5, <3>2
    <3>. QED BY <1>3, <3>1, <3>3 DEF Moved
  <2>. QED BY <1>1, <2>1, <2>2 DEF P
<1>7. ASSUME NEW n \in Node, NEW o \in pts'[n], BaseOf[o] # o PROVE o \in fields
  BY <1>3, <1>6, <1>7 DEF FieldInv
<1>8. ASSUME NEW g \in fields, BaseOf[g] \in fi
      PROVE  \/ rep'[g] = rep'[BaseOf[g]]
             \/ g \in fieldQ' /\ collapsing' = BaseOf[g]
             \/ BaseOf[g] \in toCollapse'
  <2>1. g \in Node /\ BaseOf[g] \in Node
    BY SystemAssumption DEF IInv, DeliveredInv, GraphTypeOK
  <2>2. CASE g = f
    BY <1>3, <1>6, <2>2
  <2>3. CASE g # f
    BY <1>1, <1>2, <1>6, <1>8, <2>1, <2>3 DEF FieldInv
  <2>. QED BY <2>2, <2>3
<1>. QED BY <1>2, <1>7, <1>8 DEF FieldInv

LEMMA MergeCycle ==
  ASSUME IInv, RepInv, CycleInv, NEW n \in Node, NEW r \in Node,
         NEW P \in [Node -> SUBSET Object], PushedMerge(n, r, P)
  PROVE  CycleInv'
<1>1. /\ UNCHANGED <<prog, fi, pc, cur, ptsQ>>
      /\ pwc' \subseteq (pwc \ {n}) \cup {r}
  BY DEF PushedMerge, MergeNodeToRep, MergePts
<1>2. ASSUME MergePWC, NEW m \in pwc', NEW o \in pts'[m] \ BlkOrConst, m \notin Waiting'
      PROVE  BaseOf[o] \in fi \/ (cur = m /\ pc = "pwc" /\ o \in ptsQ)
  <2>1. r \in Waiting'
    BY PushedMergeFacts
  <2>2. m \in pwc /\ m # n /\ m # r
    BY <1>1, <1>2, <2>1
  <2>3. m \in Node /\ rep[m] = m /\ Moved(m, n, r) = m
    BY <2>2 DEF RepInv, IInv, DeliveredInv, GraphTypeOK, Moved
  <2>4. pts'[m] = pts[m]
    BY <1>2, <2>3, MergeDue
  <2>5. m \notin Waiting
    BY <1>2, <2>3, PushedMergeFacts
  <2>. QED BY <1>2, <2>2, <2>4, <2>5 DEF CycleInv
<1>. QED BY <1>1, <1>2 DEF CycleInv, MergePWC

-----------------------------------------------------------------------------
(* The steps of collapseField as lazy cycle detection takes them. *)
LEMMA CollapseOneFieldComplete ==
  ASSUME IInv, CompleteInv, CollapseOneField(TRUE), IInv', Grows PROVE CompleteInv'
<1>. USE DEF CompleteInv
<1>. DEFINE b == collapsing
<1>1. PICK f \in fieldQ :
         /\ fieldQ' = fieldQ \ {f}
         /\ \/ /\ rep[f] = rep[b]
               /\ pts' = PointeeReplaced(f, b)
               /\ worklist' = worklist \cup {rep[n] : n \in {m \in Node : f \in pts[m]}}
               /\ UNCHANGED <<rep, edges, pwc, propa>>
            \/ /\ rep[f] # rep[b]
               /\ MergeNodeToRep(rep[f], rep[b], PointeeReplaced(f, b))
               /\ worklist' = worklist \cup {rep[n] : n \in {m \in Node : f \in pts[m]}}
                                       \cup {rep[b]}
  BY DEF CollapseOneField
<1>2. /\ UNCHANGED <<prog, fi, fields>>
      /\ UNCHANGED <<pc, cur, ptsQ, toCollapse, collapsing, callgraph, connectQ>>
      /\ collapsing # NoNode
  BY DEF CollapseOneField
<1>3. /\ b \in fi /\ b \in Object /\ BaseOf[b] = b
      /\ f \in Object /\ BaseOf[f] = b
      /\ b \in Node /\ f \in Node
      /\ rep[f] \in Node /\ rep[b] \in Node /\ rep[rep[b]] = rep[b]
  BY <1>1, <1>2, SystemAssumption
     DEF IInv, CollapseInv, SolverTypeOK, DeliveredInv, GraphTypeOK, RepInv
<1>. DEFINE P == PointeeReplaced(f, b)
<1>4. P \in [Node -> SUBSET Object]
  BY <1>3, PointeeReplacedCovers DEF IInv, DeliveredInv
<1>5. \A m \in Node : P[m] # pts[m] => rep[m] \in worklist'
  BY <1>1 DEF PointeeReplaced
<1>. HIDE DEF P
<1>7. pc \in {"pwc", "fields"} /\ connectQ = {}
  BY <1>2 DEF ControlInv
<1>8. ControlInv'
  BY <1>2, <1>7 DEF ControlInv
<1>9. FieldInv'
  BY CollapseOneFieldFields
<1>10. CASE rep[f] = rep[b]
  <2>1. /\ pts' = P /\ UNCHANGED <<rep, copyE, loadE, storeE, ngepE, vgepE, pwc, propa>>
        /\ worklist \subseteq worklist'
    BY <1>1, <1>10 DEF P, edges
  <2>2. /\ \A x : x \in Waiting => x \in Waiting'
        /\ \A m \in Node : rep[m] = m /\ pts'[m] # pts[m] => m \in Waiting'
        /\ \A x, H : Due(x, H) => Due(x, H)'
        /\ \A x, y : Joined(x, y) => Joined(x, y)'
    <3>1. \A x : x \in Waiting => x \in Waiting'
      BY <2>1 DEF Waiting
    <3>2. ASSUME NEW m \in Node, rep[m] = m, pts'[m] # pts[m] PROVE m \in Waiting'
      <4>1. rep[m] \in worklist' /\ rep'[rep[m]] = m
        BY <1>5, <2>1, <3>2
      <4>. QED BY <4>1 DEF Waiting
    <3>3. \A x, H : Due(x, H) => Due(x, H)'
      BY <1>2, <3>1 DEF Due
    <3>. QED BY <2>1, <3>1, <3>2, <3>3 DEF Joined
  <2>3. RepInv'
    BY <1>2, <2>1 DEF RepInv, RepEnds
  <2>4. ProgramInv'
    <3>1. ASSUME NEW e \in prog.addr PROVE Covers(fi', pts'[rep'[e[2]]], {e[1]})
      <4>1. prog \in Program
        BY SystemAssumption DEF IInv, DeliveredInv, GraphTypeOK
      <4>2. e[2] \in Node
        BY <4>1 DEF Program
      <4>3. Covers(fi', pts'[rep'[e[2]]], pts[rep[e[2]]])
        BY <4>2 DEF Grows, Solution
      <4>4. Covers(fi', pts[rep[e[2]]], {e[1]})
        BY <1>2 DEF ProgramInv
      <4>. QED BY <4>3, <4>4, CoversTransitive
    <3>2. \A x, y : Linked(x, y) => Linked(x, y)'
      BY <2>1, <2>2 DEF Linked, Joined
    <3>3. /\ \A e \in prog.copy : Linked(e[1], e[2])'
          /\ \A c \in prog.icall : <<c[1], c[2]>> \in callgraph =>
                Linked(c[3], c[4])' \/ <<rep[c[3]], rep[c[4]]>> \in connectQ
      BY <3>2 DEF ProgramInv
    <3>. QED BY <1>2, <2>1, <3>1, <3>3 DEF ProgramInv
  <2>5. SentInv'
    <3>1. ASSUME NEW m \in Node, rep[m] = m
          PROVE  pts'[m] \subseteq propa[m] \/ Due(m, ToPropagate)'
      BY <2>2, <3>1 DEF SentInv, Due
    <3>. QED BY <2>1, <3>1 DEF SentInv
  <2>6. AccessInv'
    <3>1. \A e \in loadE \cup storeE :
           /\ e[1] \in Node /\ rep[e[1]] = e[1]
           /\ e[2] \in Node /\ rep[e[2]] = e[2]
      BY DEF IInv, DeliveredInv, GraphTypeOK, RepInv, RepEnds
    <3>2. ASSUME NEW e \in loadE, NEW o \in pts'[e[1]] \ NonPointer, e[1] \notin Waiting'
          PROVE  Joined(rep[o], e[2])' \/ Due(e[1], ToAccess)'
      <4>1. o \in pts[e[1]]
        BY <2>2, <3>1, <3>2
      <4>2. Joined(rep[o], e[2]) \/ Due(e[1], ToAccess)
        BY <3>2, <4>1 DEF AccessInv
      <4>. QED BY <2>1, <2>2, <4>2 DEF Joined
    <3>3. ASSUME NEW e \in storeE, NEW o \in pts'[e[2]] \ NonPointer, e[2] \notin Waiting'
          PROVE  Joined(e[1], rep[o])' \/ Due(e[2], ToAccess)'
      <4>1. o \in pts[e[2]]
        BY <2>2, <3>1, <3>3
      <4>2. Joined(e[1], rep[o]) \/ Due(e[2], ToAccess)
        BY <3>3, <4>1 DEF AccessInv
      <4>. QED BY <2>1, <2>2, <4>2 DEF Joined
    <3>4. \A n, H : n \in Waiting' => Due(n, H)'
      BY DEF Due
    <3>5. \A e \in loadE' : \A o \in pts'[e[1]] \ NonPointer :
             Joined(rep[o], e[2])' \/ Due(e[1], ToAccess)'
      BY <2>1, <3>2, <3>4
    <3>6. \A e \in storeE' : \A o \in pts'[e[2]] \ NonPointer :
             Joined(e[1], rep[o])' \/ Due(e[2], ToAccess)'
      BY <2>1, <3>3, <3>4
    <3>. QED BY <3>5, <3>6 DEF AccessInv
  <2>7. ArrayInv'
    BY <1>2, <2>1 DEF ArrayInv
  <2>8. CycleInv'
    <3>1. ASSUME MergePWC, NEW m \in pwc, NEW o \in pts'[m] \ BlkOrConst, m \notin Waiting'
          PROVE  BaseOf[o] \in fi \/ (cur = m /\ pc = "pwc" /\ o \in ptsQ)
      <4>1. m \in Node /\ rep[m] = m
        BY DEF RepInv, IInv, DeliveredInv, GraphTypeOK
      <4>. QED BY <2>2, <3>1, <4>1 DEF CycleInv
    <3>. QED BY <1>2, <2>1, <3>1 DEF CycleInv, MergePWC
  <2>. QED BY <1>8, <1>9, <2>3, <2>4, <2>5, <2>6, <2>7, <2>8
<1>11. CASE rep[f] # rep[b]
  <2>1. PushedMerge(rep[f], rep[b], P)
    <3>1. MergeNodeToRep(rep[f], rep[b], P) /\ worklist \cup {rep[b]} \subseteq worklist'
      BY <1>1, <1>11 DEF P
    <3>. QED BY <1>2, <1>3, <1>5, <1>11, <3>1 DEF PushedMerge
  <2>2. RepInv' /\ ProgramInv' /\ SentInv' /\ AccessInv' /\ ArrayInv' /\ CycleInv'
    BY <1>3, <1>4, <1>7, <2>1, MergeRep, MergeProgram, MergeSent, MergeAccess,
       MergeArray, MergeCycle DEF PushedMerge
  <2>. QED BY <1>8, <1>9, <2>2
<1>. QED BY <1>10, <1>11

(* What a solver has to have done when it stops: nothing is under way,     *)
(* every difference has been propagated, and cycles have been collapsed.   *)
NothingPending ==
  NewTargets = {} /\ connectQ = {} /\ toCollapse = {} /\ collapsing = NoNode

AllPropagated == \A n \in Node : rep[n] = n => pts[n] \subseteq propa[n]

CyclesCollapsed == MergePWC => \A n \in pwc : \A o \in pts[n] \ BlkOrConst : BaseOf[o] \in fi

LEMMA LinkedCovers ==
  ASSUME IInv, RepInv, AllPropagated, NEW x \in Node, NEW y \in Node, Linked(x, y)
  PROVE  Covers(fi, Solution[y], Solution[x])
<1>. USE DEF IInv, DeliveredInv, GraphTypeOK
<1>1. \A n \in Node : Solution[n] = pts[rep[n]] /\ rep[n] \in Node
  BY DEF Solution
<1>2. CASE rep[x] = rep[y]
  BY <1>1, <1>2, CoversItself
<1>3. CASE <<rep[x], rep[y]>> \in copyE
  <2>1. rep[rep[x]] = rep[x] /\ Covers(fi, pts[rep[y]], propa[rep[x]])
    BY <1>3 DEF RepInv, RepEnds, PropagatedDelivered
  <2>. QED BY <1>1, <2>1, CoversSubset, CoversTransitive DEF AllPropagated
<1>. QED BY <1>2, <1>3 DEF Linked, Joined

(* Then everything but loads and stores is satisfied.                      *)
LEMMA SolvedButForAccesses ==
  ASSUME IInv, RepInv, ProgramInv, ArrayInv, FieldInv,
         NothingPending, AllPropagated, CyclesCollapsed
  PROVE  /\ AddrHolds(prog, fi, Solution)
         /\ CopyHolds(prog, fi, Solution)
         /\ CallHolds(prog, fi, Solution)
         /\ FieldsAgree(fi, fields, Solution)
         /\ MergePWC \/ prog.vgep = {} => VariantGepHolds(prog, fi, Solution)
<1>. USE DEF IInv, DeliveredInv, GraphTypeOK, NothingPending
<1>1. prog \in Program
  BY SystemAssumption
<1>2. \A n \in Node : Solution[n] = pts[rep[n]] /\ rep[n] \in Node
  BY DEF Solution
<1>3. AddrHolds(prog, fi, Solution)
  BY <1>1, <1>2 DEF ProgramInv, AddrHolds, Program
<1>4. CopyHolds(prog, fi, Solution)
  BY <1>1, LinkedCovers DEF ProgramInv, CopyHolds, Program
<1>5. ASSUME MergePWC \/ prog.vgep = {} PROVE VariantGepHolds(prog, fi, Solution)
  <2>1. ASSUME NEW e \in prog.vgep
        PROVE  /\ Covers(fi, Solution[e[2]], VariantObjNodes(Solution[e[1]]))
               /\ \A o \in Solution[e[1]] \ BlkOrConst : BaseOf[o] \in fi
    <3>. DEFINE x == rep[e[1]]
                y == rep[e[2]]
    <3>1. /\ e[1] \in Node /\ e[2] \in Node /\ x \in Node /\ y \in Node
          /\ Solution[e[1]] = pts[x] /\ Solution[e[2]] = pts[y]
          /\ rep[x] = x
      BY <1>1, <1>2 DEF Program, RepInv
    <3>2. CASE <<x, y>> \in vgepE
      <4>1. pts[x] \subseteq propa[x]
        BY <3>1 DEF AllPropagated
      <4>2. Covers(fi, pts[y], VariantObjNodes(propa[x]))
        BY <3>2 DEF PropagatedDelivered
      <4>3. VariantObjNodes(pts[x]) \subseteq VariantObjNodes(propa[x])
        BY <4>1 DEF VariantObjNodes
      <4>4. \A o \in pts[x] \ BlkOrConst : BaseOf[o] \in fi
        BY <3>2, <4>1 DEF ArrayInv
      <4>. QED BY <3>1, <4>2, <4>3, <4>4, CoversSubset, CoversTransitive
    <3>3. CASE x = y /\ x \in pwc
      <4>1. \A o \in pts[x] \ BlkOrConst : BaseOf[o] \in fi
        BY <1>5, <2>1, <3>3 DEF CyclesCollapsed
      <4>2. \A o \in pts[x] : Norm(fi, VariantObjNode(o)) = Norm(fi, o)
        BY <3>1, <4>1, SystemAssumption DEF Norm, VariantObjNode
      <4>3. Covers(fi, pts[x], VariantObjNodes(pts[x]))
        BY <4>2 DEF Covers, NormSet, VariantObjNodes
      <4>. QED BY <3>1, <3>3, <4>1, <4>3
    <3>. QED BY <3>2, <3>3 DEF ProgramInv
  <2>. QED BY <2>1 DEF VariantGepHolds
<1>6. CallHolds(prog, fi, Solution)
  <2>1. ASSUME NEW c \in prog.icall, c[2] \in Solution[c[1]]
        PROVE  Covers(fi, Solution[c[4]], Solution[c[3]])
    <3>1. c[1] \in Node /\ c[3] \in Node /\ c[4] \in Node
      BY <1>1 DEF Program
    <3>2. <<c[1], c[2]>> \in callgraph
      BY <1>2, <2>1, <3>1 DEF NewTargets
    <3>3. Linked(c[3], c[4])
      BY <3>2 DEF ProgramInv
    <3>. QED BY <3>1, <3>3, LinkedCovers
  <2>. QED BY <2>1 DEF CallHolds
<1>7. FieldsAgree(fi, fields, Solution)
  <2>1. ASSUME NEW f \in fields, BaseOf[f] \in fi PROVE Solution[f] = Solution[BaseOf[f]]
    <3>1. f \in Node /\ BaseOf[f] \in Node /\ BaseOf[f] # NoNode
      BY SystemAssumption
    <3>2. rep[f] = rep[BaseOf[f]]
      BY <2>1, <3>1 DEF FieldInv
    <3>. QED BY <1>2, <3>1, <3>2
  <2>. QED BY <2>1 DEF FieldsAgree
<1>. QED BY <1>3, <1>4, <1>5, <1>6, <1>7

LEMMA CompletePropagated ==
  ASSUME CompleteInv, pc = "done" PROVE NothingPending /\ AllPropagated /\ CyclesCollapsed
<1>. USE DEF CompleteInv
<1>1. worklist = {} /\ NothingPending
  BY DEF ControlInv, NothingPending
<1>2. Waiting = {} /\ \A n : ~Due(n, ToPropagate)
  BY <1>1 DEF Waiting, Due, ToPropagate
<1>. QED BY <1>1, <1>2 DEF SentInv, AllPropagated, CycleInv, CyclesCollapsed

(* With every handler a node has done what its edges ask; the graph is the *)
(* program's.                                                              *)
LEMMA CompleteWhenDone ==
  ASSUME IInv, CompleteInv, MergePWC \/ prog.vgep = {} PROVE SolvedWhenDone
<1>. USE DEF IInv, DeliveredInv, GraphTypeOK, CompleteInv
<1>. SUFFICES ASSUME pc = "done"
              PROVE  /\ AddrHolds(prog, fi, Solution)
                     /\ CopyHolds(prog, fi, Solution)
                     /\ LoadHolds(prog, fi, Solution)
                     /\ StoreHolds(prog, fi, Solution)
                     /\ VariantGepHolds(prog, fi, Solution)
                     /\ CallHolds(prog, fi, Solution)
                     /\ FieldsAgree(fi, fields, Solution)
  BY DEF SolvedWhenDone
<1>1. NothingPending /\ AllPropagated /\ CyclesCollapsed
  BY CompletePropagated
<1>2. \A n : ~Due(n, ToAccess)
  BY DEF ControlInv, Waiting, Due, ToAccess
<1>3. prog \in Program
  BY SystemAssumption
<1>4. \A n \in Node : Solution[n] = pts[rep[n]] /\ rep[n] \in Node
  BY DEF Solution
<1>5. LoadHolds(prog, fi, Solution)
  <2>1. ASSUME NEW e \in prog.load, NEW o \in Solution[e[1]] \ NonPointer
        PROVE  Covers(fi, Solution[e[2]], Solution[o])
    <3>1. e[1] \in Node /\ e[2] \in Node /\ <<rep[e[1]], rep[e[2]]>> \in loadE
      BY <1>3 DEF Program, ProgramInv
    <3>2. o \in pts[rep[e[1]]] \ NonPointer /\ o \in Node
      BY <1>4, <2>1, <3>1, SystemAssumption
    <3>3. Joined(rep[o], rep[e[2]])
      BY <1>2, <3>1, <3>2 DEF AccessInv
    <3>. QED BY <1>1, <3>1, <3>2, <3>3, LinkedCovers DEF Linked
  <2>. QED BY <2>1 DEF LoadHolds
<1>6. StoreHolds(prog, fi, Solution)
  <2>1. ASSUME NEW e \in prog.store, NEW o \in Solution[e[2]] \ NonPointer
        PROVE  Covers(fi, Solution[o], Solution[e[1]])
    <3>1. e[1] \in Node /\ e[2] \in Node /\ <<rep[e[1]], rep[e[2]]>> \in storeE
      BY <1>3 DEF Program, ProgramInv
    <3>2. o \in pts[rep[e[2]]] \ NonPointer /\ o \in Node
      BY <1>4, <2>1, <3>1, SystemAssumption
    <3>3. Joined(rep[e[1]], rep[o])
      BY <1>2, <3>1, <3>2 DEF AccessInv
    <3>. QED BY <1>1, <3>1, <3>2, <3>3, LinkedCovers DEF Linked
  <2>. QED BY <2>1 DEF StoreHolds
<1>. QED BY <1>1, <1>5, <1>6, SolvedButForAccesses

-----------------------------------------------------------------------------
(* The base solver on programs without array accesses: nothing is ever     *)
(* collapsed, nor merged, as only a variant gep starts either.             *)
NoArraysInv ==
  /\ prog.vgep = {} /\ vgepE = {} /\ pwc = {}
  /\ ptsQ = {} /\ toCollapse = {} /\ collapsing = NoNode
  /\ \A n \in Node : rep[n] = n
  /\ ngepE = prog.ngep

LEMMA NextNoArrays ==
  ASSUME NoArraysInv, [Next]_vars PROVE NoArraysInv' /\ ~Collapse(FALSE)
<1>. USE DEF NoArraysInv
<1>1. ~Collapse(FALSE)
  <2>1. NextToCollapse = {}
    BY DEF NextToCollapse, StillToCollapse
  <2>. QED BY <2>1 DEF Collapse, CollapseObject, CollapseOneField, EndCollapse
<1>. SUFFICES NoArraysInv'
  BY <1>1
<1>2. CASE Pop
  BY <1>2 DEF Pop, graph, edges
<1>3. CASE HandleCopyGep
  <2>1. VariantGepBases(cur) = {}
    BY DEF VariantGepBases
  <2>. QED BY <1>3, <2>1 DEF HandleCopyGep, Propagate, edges
<1>4. CASE StartNode("loadstore") \/ EndLoadStore("copygep") \/ EndNode
  BY <1>4 DEF StartNode, EndLoadStore, EndNode, graph, edges
<1>5. CASE ProcessLoadStore
  BY <1>5 DEF ProcessLoadStore
<1>6. CASE OnTheFlyCallGraph
  BY <1>6 DEF OnTheFlyCallGraph, UpdateCallGraph, ConnectParam, EndConnect, graph, edges
<1>7. CASE Terminated \/ UNCHANGED vars
  BY <1>7 DEF Terminated, vars, graph, edges, control
<1>. QED BY <1>1, <1>2, <1>3, <1>4, <1>5, <1>6, <1>7 DEF Next, ProcessNode

LEMMA NextComplete ==
  ASSUME IInv, CompleteInv, [Next]_vars, ~Collapse(FALSE) PROVE CompleteInv'
<1>1. CASE Pop
  BY <1>1, PopComplete
<1>2. CASE StartNode("loadstore")
  BY <1>2, StartNodeComplete
<1>3. CASE ProcessLoadStore
  BY <1>3, ProcessLoadStoreComplete
<1>4. CASE EndLoadStore("copygep")
  BY <1>4, EndLoadStoreComplete
<1>5. CASE HandleCopyGep
  BY <1>5, HandleCopyGepComplete
<1>6. CASE EndNode
  BY <1>6, EndNodeComplete
<1>7. CASE OnTheFlyCallGraph
  BY <1>7, UpdateCallGraphComplete, ConnectParamComplete, EndConnectComplete
     DEF OnTheFlyCallGraph
<1>8. CASE Terminated \/ UNCHANGED vars
  BY <1>8, StutterComplete DEF Terminated
<1>. QED BY <1>1, <1>2, <1>3, <1>4, <1>5, <1>6, <1>7, <1>8 DEF Next, ProcessNode

LEMMA GepsSolvedWithoutArrays ==
  ASSUME IInv, CompleteInv, NoArraysInv PROVE NormalGepsSolvedWhenDone
<1>. USE DEF IInv, DeliveredInv, GraphTypeOK, CompleteInv, NoArraysInv
<1>. SUFFICES ASSUME pc = "done", NEW e \in prog.ngep
              PROVE  Covers(fi, Solution[e[2]], GepObjNodes(fi, Solution[e[1]], e[3]))
  BY DEF NormalGepsSolvedWhenDone, NormalGepHolds
<1>1. e \in ngepE /\ e[1] \in Node /\ e[2] \in Node
  OBVIOUS
<1>2. worklist = {}
  BY DEF ControlInv
<1>3. ~Due(e[1], ToPropagate)
  BY <1>2 DEF Due, Waiting, ToPropagate
<1>4. pts[e[1]] \subseteq propa[e[1]]
  BY <1>1, <1>3 DEF SentInv
<1>5. GepObjNodes(fi, pts[e[1]], e[3]) \subseteq GepObjNodes(fi, propa[e[1]], e[3])
  BY <1>4 DEF GepObjNodes
<1>6. Covers(fi, pts[e[2]], GepObjNodes(fi, propa[e[1]], e[3]))
  BY <1>1 DEF PropagatedDelivered
<1>7. Solution[e[1]] = pts[e[1]] /\ Solution[e[2]] = pts[e[2]]
  BY <1>1 DEF Solution
<1>. QED BY <1>5, <1>6, <1>7, CoversSubset, CoversTransitive

(* Programs without array accesses are solved: when the base solver stops, *)
(* every statement of the program is satisfied, indirect calls and normal  *)
(* geps included, in whatever order it took nodes from its work list.      *)
THEOREM SolvedWithoutArrays ==
  Spec => [](prog.vgep = {} => SolvedWhenDone /\ NormalGepsSolvedWhenDone)
<1>. DEFINE Inv == IInv /\ (prog.vgep = {} => CompleteInv /\ NoArraysInv)
<1>1. Init => Inv
  BY InitIInv, InitComplete DEF Init, BuildCG, NoArraysInv
<1>2. Inv /\ [Next]_vars => Inv'
  BY NextKeeps, NextNoArrays, NextComplete, ProgUnchanged DEF Kept
<1>3. Inv => (prog.vgep = {} => SolvedWhenDone /\ NormalGepsSolvedWhenDone)
  BY CompleteWhenDone, GepsSolvedWithoutArrays
<1>. HIDE DEF Inv
<1>. QED BY <1>1, <1>2, <1>3, PTL DEF Spec

(* In particular every field access is satisfied: what a node points to    *)
(* when it was last processed has gone through all of its geps.            *)
THEOREM GepsSolved ==
  Spec => [](prog.vgep = {} => NormalGepsSolvedWhenDone)
<1>1. (prog.vgep = {} => SolvedWhenDone /\ NormalGepsSolvedWhenDone)
         => (prog.vgep = {} => NormalGepsSolvedWhenDone)
  OBVIOUS
<1>. QED BY <1>1, SolvedWithoutArrays, PTL

-----------------------------------------------------------------------------
(* Lazy cycle detection.                                                   *)
LCDInv ==
  /\ IInv
  /\ metEdges \in SUBSET (Node \X Node)
  /\ lcdCandidates \in SUBSET Node
  /\ merging \in SUBSET (Node \X Node)

LCDKept == LCDInv' /\ Grows

-----------------------------------------------------------------------------
LEMMA MergeSCCKeeps ==
  ASSUME LCDInv, MergeSCC PROVE LCDKept
<1>1. Kept
  BY StutterKeeps DEF MergeSCC, LCDInv
<1>2. merging' \in SUBSET (Node \X Node)
  <2>. DEFINE from == {c \in lcdCandidates : rep[c] = c}
  <2>1. from \in SUBSET Node
    BY DEF LCDInv
  <2>2. PICK root \in RootsOf(SCCs(from)) : merging' = MergesInto(root)
    BY DEF MergeSCC
  <2>. HIDE DEF from
  <2>. QED BY <2>1, <2>2, MergesIntoType
<1>. QED BY <1>1, <1>2 DEF MergeSCC, LCDInv, LCDKept, Kept

LEMMA MergeNodeKeeps ==
  ASSUME LCDInv, MergeNode PROVE LCDKept
<1>1. PICK e \in merging :
         /\ MergeNodeToRep(e[1], e[2], pts)
         /\ worklist' = worklist \cup {e[2]}
         /\ merging' = merging \ {e}
  BY DEF MergeNode
<1>2. e[1] \in Node /\ e[2] \in Node
  BY DEF LCDInv
<1>3. SolverTypeOK' /\ CollapseInv'
  BY <1>1, <1>2 DEF MergeNode, LCDInv, IInv, SolverTypeOK, CollapseInv
<1>4. Kept
  BY <1>1, <1>2, <1>3, MergeKeeps DEF MergeNode, LCDInv
<1>. QED BY <1>1, <1>4 DEF MergeNode, ForgetMovedEdges, LCDInv, LCDKept, Kept

LEMMA LCDHandleCopyGepKeeps ==
  ASSUME LCDInv, LCDHandleCopyGep PROVE LCDKept
<1>1. Kept
  BY HandleCopyGepKeeps DEF LCDHandleCopyGep, LCDInv
<1>2. copyE \in SUBSET (Node \X Node)
  BY DEF LCDInv, IInv, DeliveredInv, GraphTypeOK
<1>3. metEdges' \in SUBSET (Node \X Node) /\ lcdCandidates' \in SUBSET Node
  BY <1>2 DEF LCDHandleCopyGep, LCDInv
<1>. QED BY <1>1, <1>3 DEF LCDHandleCopyGep, LCDInv, LCDKept, Kept

LEMMA LCDNextKeeps ==
  ASSUME LCDInv, [LCDNext]_lcdVars PROVE LCDKept
<1>. USE DEF LCDKept, Kept
<1>1. CASE MergeSCC
  BY <1>1, MergeSCCKeeps
<1>2. CASE MergeNode
  BY <1>2, MergeNodeKeeps
<1>3. CASE LCDPop
  BY <1>3, PopKeeps DEF LCDPop, LCDInv
<1>4. CASE LCDCollapse
  <2>1. Kept
    BY <1>4, CollapseKeeps DEF LCDCollapse, LCDInv
  <2>. QED BY <1>4, <2>1 DEF LCDCollapse, ForgetMovedEdges, LCDInv
<1>5. CASE LCDHandleCopyGep
  BY <1>5, LCDHandleCopyGepKeeps
<1>6. CASE LCDOther
  <2>1. Kept
    BY <1>6, StartNodeKeeps, ProcessLoadStoreKeeps, EndLoadStoreKeeps, EndNodeKeeps,
       CallGraphKeeps, StutterKeeps DEF LCDOther, LCDInv, Handlers, Terminated
  <2>. QED BY <1>6, <2>1 DEF LCDOther, LCDInv
<1>7. CASE UNCHANGED lcdVars
  BY <1>7, StutterKeeps DEF lcdVars, LCDInv
<1>. QED BY <1>1, <1>2, <1>3, <1>4, <1>5, <1>6, <1>7 DEF LCDNext

THEOREM LCDInvariance == LCDSpec => []LCDInv
<1>1. LCDInit => LCDInv
  BY InitIInv DEF LCDInit, LCDInv
<1>2. LCDInv /\ [LCDNext]_lcdVars => LCDInv'
  BY LCDNextKeeps DEF LCDKept
<1>. QED BY <1>1, <1>2, PTL DEF LCDSpec

(* Type correctness of lazy cycle detection. *)
THEOREM LCDTypeCorrect == LCDSpec => []LCDTypeOK
<1>1. LCDInv => LCDTypeOK
  BY DEF LCDInv, IInv, DeliveredInv, LCDTypeOK, TypeOK
<1>. QED BY LCDInvariance, <1>1, PTL

(* Merging the cycles it finds, the solver still records as propagated     *)
(* only what it has delivered along every edge, re-targeted ones included. *)
THEOREM LCDNothingSkipped == LCDSpec => []PropagatedDelivered
<1>1. LCDInv => PropagatedDelivered
  BY DEF LCDInv, IInv, DeliveredInv
<1>. QED BY LCDInvariance, <1>1, PTL

(* ... and no pointee of any node is ever lost. *)
THEOREM LCDNothingLost == LCDSpec => SolutionGrows
<1>1. LCDInv /\ [LCDNext]_lcdVars => Grows
  BY LCDNextKeeps DEF LCDKept
<1>2. LCDInv /\ [LCDNext]_lcdVars => [Grows]_vars
  BY <1>1
<1>3. LCDSpec => [][Grows]_vars
  BY LCDInvariance, <1>2, PTL DEF LCDSpec
<1>. QED BY <1>3 DEF SolutionGrows, Grows

-----------------------------------------------------------------------------
(* Precision.  Merges that wait are between nodes on which every solution  *)
(* agrees, as they lie on a cycle when the detector finds them; later      *)
(* changes of the graph cannot make them differ.                           *)
LCDPreciseInv(L) ==
  PreciseInv(L) /\ \A e \in merging : L[e[1]] = L[e[2]]

LEMMA MergeSCCPrecise ==
  ASSUME LCDInv, NEW L, LCDPreciseInv(L), MergeSCC PROVE LCDPreciseInv(L)'
<1>. DEFINE from == {c \in lcdCandidates : rep[c] = c}
<1>1. PICK root \in RootsOf(SCCs(from)) : merging' = MergesInto(root)
  BY DEF MergeSCC
<1>2. from \in SUBSET Node /\ GraphTypeOK /\ Below(L)
  BY DEF LCDInv, IInv, DeliveredInv, LCDPreciseInv, PreciseInv
<1>. HIDE DEF from
<1>3. \A e \in merging' : L[e[1]] = L[e[2]]
  BY <1>1, <1>2, MergesAreLevel
<1>4. PreciseInv(L)'
  BY QuietPrecise DEF MergeSCC, LCDPreciseInv, vars, graph, control
<1>. QED BY <1>3, <1>4 DEF LCDPreciseInv

LEMMA MergeNodePrecise ==
  ASSUME LCDInv, NEW L, LCDPreciseInv(L), MergeNode PROVE LCDPreciseInv(L)'
<1>1. PICK e \in merging : MergeNodeToRep(e[1], e[2], pts) /\ merging' = merging \ {e}
  BY DEF MergeNode
<1>2. e[1] \in Node /\ e[2] \in Node /\ L[e[1]] = L[e[2]]
  BY DEF LCDInv, LCDPreciseInv
<1>3. Below(L)'
  BY <1>1, <1>2, MergeKeepsBelow
     DEF LCDInv, IInv, DeliveredInv, GraphTypeOK, LCDPreciseInv, PreciseInv, Below
<1>. QED BY <1>1, <1>3 DEF MergeNode, LCDPreciseInv, PreciseInv

LEMMA LCDNextPrecise ==
  ASSUME LCDInv, NEW L, LCDPreciseInv(L), [LCDNext]_lcdVars
  PROVE  LCDPreciseInv(L)' /\ prog' = prog
<1>1. CASE MergeSCC
  BY <1>1, MergeSCCPrecise DEF MergeSCC, vars, graph
<1>2. CASE MergeNode
  BY <1>2, MergeNodePrecise DEF MergeNode
<1>. DEFINE Others == LCDPop \/ LCDCollapse \/ LCDHandleCopyGep \/ LCDOther
<1>3. CASE Others
  <2>1. IInv /\ PreciseInv(L) /\ merging' = merging
    BY <1>3 DEF LCDInv, LCDPreciseInv, LCDPop, LCDCollapse, LCDHandleCopyGep, LCDOther
  <2>2. CASE Next
    BY <2>1, <2>2, NextPrecise, ProgUnchanged DEF LCDPreciseInv
  <2>3. CASE LCDCollapse
    BY <2>1, <2>3, CollapsePrecise
       DEF LCDPreciseInv, LCDCollapse, Collapse, CollapseObject, StartCollapse,
           CollapseOneField, EndCollapse, graph
  <2>. QED BY <1>3, <2>2, <2>3
           DEF LCDPop, LCDHandleCopyGep, LCDOther, Next, ProcessNode
<1>4. CASE UNCHANGED lcdVars
  BY <1>4, QuietPrecise DEF lcdVars, vars, graph, control, LCDPreciseInv
<1>. QED BY <1>1, <1>2, <1>3, <1>4 DEF LCDNext

(* Only true cycles are merged: lazy cycle detection, whose candidates may *)
(* be stale, adds nothing that a solution of the program does not have.    *)
THEOREM LCDNothingInvented == LCDSpec => []PreciseWhenDone
<1>. DEFINE Inv == LCDInv /\ LCDPreciseInv(Insensitive(prog))
<1>1. LCDInit => Inv
  BY InitIInv, InitPrecise DEF LCDInit, LCDInv, LCDPreciseInv
<1>2. ASSUME Inv, [LCDNext]_lcdVars PROVE Inv'
  <2>1. PICK L : L = Insensitive(prog)
    OBVIOUS
  <2>2. LCDPreciseInv(L)' /\ prog' = prog
    BY <1>2, <2>1, LCDNextPrecise
  <2>3. LCDInv'
    BY <1>2, LCDNextKeeps DEF LCDKept
  <2>. QED BY <2>1, <2>2, <2>3
<1>3. Inv => PreciseWhenDone
  BY PreciseImpliesWithin DEF PreciseWhenDone, LCDInv, LCDPreciseInv
<1>4. Inv /\ [LCDNext]_lcdVars => Inv'
  BY <1>2
<1>. HIDE DEF Inv
<1>. QED BY <1>1, <1>3, <1>4, PTL DEF LCDSpec

-----------------------------------------------------------------------------
(* Completeness.  The merges that wait are made before anything else runs, *)
(* and a node that others are merged into is not itself merged away.       *)
MergingInv ==
  /\ merging # {} => pc = "solve" /\ worklist # {}
  /\ \A e \in merging : rep[e[2]] = e[2] /\ \A d \in merging : d[1] # e[2]

LCDCompleteInv == CompleteInv /\ MergingInv

(* A component is merged into one of its members, a representative: what   *)
(* others are merged into is not itself merged away.                       *)
LEMMA MergesIntoRoots ==
  ASSUME NEW from \in SUBSET Node, NEW root \in RootsOf(SCCs(from)),
         \A e \in SCCEdges : e[2] \in Node /\ rep[e[2]] = e[2],
         NEW e \in MergesInto(root)
  PROVE  rep[e[2]] = e[2] /\ \A d \in MergesInto(root) : d[1] # e[2]
<1>1. DOMAIN root = SCCs(from) /\ \A K \in SCCs(from) : root[K] \in K
  BY DEF RootsOf
<1>2. PICK K \in SCCs(from) : e \in (K \ {root[K]}) \X {root[K]}
  BY <1>1 DEF MergesInto
<1>3. e[2] = root[K] /\ e[2] \in K
  BY <1>1, <1>2
<1>4. rep[e[2]] = e[2]
  BY <1>3, ComponentHasEdges
<1>5. ASSUME NEW d \in MergesInto(root), d[1] = e[2] PROVE FALSE
  <2>1. PICK J \in SCCs(from) : d \in (J \ {root[J]}) \X {root[J]}
    BY <1>1 DEF MergesInto
  <2>2. d[1] \in J /\ d[1] # root[J]
    BY <2>1
  <2>3. J = K
    BY <1>3, <1>5, <2>2, ComponentsDisjoint
  <2>. QED BY <1>3, <1>5, <2>2, <2>3
<1>. QED BY <1>4, <1>5

LEMMA SCCEdgesJoinReps ==
  ASSUME IInv, RepInv
  PROVE  \A e \in SCCEdges : /\ e[1] \in Node /\ rep[e[1]] = e[1]
                             /\ e[2] \in Node /\ rep[e[2]] = e[2]
BY DEF SCCEdges, IInv, DeliveredInv, GraphTypeOK, RepInv, RepEnds

LEMMA MergeSCCComplete ==
  ASSUME LCDInv, LCDCompleteInv, MergeSCC PROVE LCDCompleteInv'
<1>. DEFINE from == {c \in lcdCandidates : rep[c] = c}
<1>1. PICK root \in RootsOf(SCCs(from)) : merging' = MergesInto(root)
  BY DEF MergeSCC
<1>2. from \in SUBSET Node
  BY DEF LCDInv
<1>. HIDE DEF from
<1>3. \A e \in SCCEdges : e[2] \in Node /\ rep[e[2]] = e[2]
  BY SCCEdgesJoinReps DEF LCDInv, LCDCompleteInv, CompleteInv
<1>4. \A e \in merging' : rep[e[2]] = e[2] /\ \A d \in merging' : d[1] # e[2]
  BY <1>1, <1>2, <1>3, MergesIntoRoots
<1>5. pc = "solve" /\ worklist # {} /\ UNCHANGED vars
  BY DEF MergeSCC
<1>6. CompleteInv'
  BY <1>5, StutterComplete DEF LCDInv, LCDCompleteInv
<1>7. UNCHANGED <<rep, pc, worklist>>
  BY <1>5 DEF vars, graph, control
<1>. QED BY <1>4, <1>5, <1>6, <1>7 DEF LCDCompleteInv, MergingInv

LEMMA MergeNodeComplete ==
  ASSUME LCDInv, LCDCompleteInv, MergeNode, LCDKept PROVE LCDCompleteInv'
<1>. USE DEF LCDInv, LCDCompleteInv, CompleteInv
<1>1. PICK e \in merging :
         /\ MergeNodeToRep(e[1], e[2], pts)
         /\ worklist' = worklist \cup {e[2]}
         /\ merging' = merging \ {e}
  BY DEF MergeNode
<1>. DEFINE n == e[1]
            r == e[2]
<1>2. /\ n \in Node /\ r \in Node /\ n # r /\ rep[r] = r /\ rep[n] \in Node
      /\ pts \in [Node -> SUBSET Object] /\ rep \in [Node -> Node]
  BY DEF MergingInv, IInv, DeliveredInv, GraphTypeOK
<1>3. /\ UNCHANGED <<prog, fi, fields>>
      /\ UNCHANGED <<pc, cur, ptsQ, toCollapse, collapsing, fieldQ, callgraph, connectQ>>
      /\ pc = "solve"
  BY DEF MergeNode, MergingInv
<1>4. connectQ = {} /\ toCollapse = {} /\ collapsing = NoNode
  BY <1>3 DEF ControlInv
<1>5. PushedMerge(n, r, pts)
  BY <1>1, <1>2, <1>3 DEF PushedMerge
<1>6. IInv' /\ Grows
  BY DEF LCDKept
<1>7. RepInv' /\ ProgramInv' /\ SentInv' /\ AccessInv' /\ ArrayInv' /\ CycleInv'
  BY <1>2, <1>4, <1>5, <1>6, MergeRep, MergeProgram, MergeSent, MergeAccess,
     MergeArray, MergeCycle DEF PushedMerge
<1>8. \A x \in Node : rep'[x] = Moved(rep[x], n, r)
  BY <1>2, <1>5, PushedMergeFacts
<1>9. FieldInv'
  BY <1>1, <1>2, <1>3, MergeFields
<1>10. ControlInv'
  BY <1>3, <1>4 DEF ControlInv
<1>11. MergingInv'
  <2>1. ASSUME NEW d \in merging' PROVE rep'[d[2]] = d[2]
    <3>1. d[2] \in Node /\ rep[d[2]] = d[2] /\ d[2] # n
      BY <1>1 DEF MergingInv
    <3>. QED BY <1>8, <3>1 DEF Moved
  <2>. QED BY <1>1, <1>3, <2>1 DEF MergingInv
<1>. QED BY <1>7, <1>9, <1>10, <1>11

LEMMA LCDNextComplete ==
  ASSUME LCDInv, LCDCompleteInv, [LCDNext]_lcdVars PROVE LCDCompleteInv'
<1>. USE DEF LCDInv, LCDCompleteInv
<1>0. LCDKept
  BY LCDNextKeeps
<1>1. CASE MergeSCC
  BY <1>1, MergeSCCComplete
<1>2. CASE MergeNode
  BY <1>0, <1>2, MergeNodeComplete
<1>3. CASE LCDPop
  <2>1. CompleteInv'
    BY <1>3, PopComplete DEF LCDPop
  <2>. QED BY <1>3, <2>1 DEF LCDPop, MergingInv
<1>4. CASE LCDCollapse
  <2>1. CompleteInv'
    BY <1>0, <1>4, CollapseObjectComplete, CollapseOneFieldComplete, EndCollapseComplete
       DEF LCDCollapse, Collapse, LCDKept
  <2>2. merging = {}
    <3>1. pc # "solve"
      BY <1>4 DEF LCDCollapse, Collapse, CollapseObject, CollapseOneField, EndCollapse,
                  CompleteInv, ControlInv
    <3>. QED BY <3>1 DEF MergingInv
  <2>. QED BY <1>4, <2>1, <2>2 DEF LCDCollapse, MergingInv
<1>5. CASE LCDHandleCopyGep
  <2>1. CompleteInv'
    BY <1>5, HandleCopyGepComplete DEF LCDHandleCopyGep
  <2>2. merging = {}
    BY <1>5 DEF LCDHandleCopyGep, MergingInv
  <2>. QED BY <1>5, <2>1, <2>2 DEF LCDHandleCopyGep, MergingInv
<1>6. CASE LCDOther
  <2>1. CompleteInv'
    BY <1>6, StartNodeComplete, ProcessLoadStoreComplete, EndLoadStoreComplete,
       EndNodeComplete, UpdateCallGraphComplete, ConnectParamComplete, EndConnectComplete,
       StutterComplete DEF LCDOther, OnTheFlyCallGraph, Terminated
  <2>2. CASE merging = {}
    BY <1>6, <2>1, <2>2 DEF LCDOther, MergingInv
  <2>3. CASE merging # {}
    <3>1. pc = "solve" /\ worklist # {}
      BY <2>3 DEF MergingInv
    <3>. QED BY <1>6, <3>1 DEF LCDOther, StartNode, ProcessLoadStore, EndLoadStore,
              EndNode, OnTheFlyCallGraph, UpdateCallGraph, ConnectParam, EndConnect,
              Terminated
  <2>. QED BY <2>2, <2>3
<1>7. CASE UNCHANGED lcdVars
  <2>1. CompleteInv'
    BY <1>7, StutterComplete DEF lcdVars
  <2>. QED BY <1>7, <2>1 DEF lcdVars, vars, graph, control, MergingInv
<1>. QED BY <1>1, <1>2, <1>3, <1>4, <1>5, <1>6, <1>7 DEF LCDNext

THEOREM LCDCompleteness == LCDSpec => []LCDCompleteInv
<1>1. LCDInit => LCDCompleteInv
  BY InitIInv, InitComplete DEF LCDInit, LCDCompleteInv, MergingInv
<1>2. LCDInv /\ LCDCompleteInv /\ [LCDNext]_lcdVars => LCDCompleteInv'
  BY LCDNextComplete
<1>. QED BY <1>1, <1>2, LCDInvariance, PTL DEF LCDSpec

(* Lazy cycle detection solves the program: when it stops, every statement *)
(* is satisfied, for every program without array accesses and, with        *)
(* -merge-pwc, for every program.                                          *)
THEOREM LCDSolved == LCDSpec => [](MergePWC \/ prog.vgep = {} => SolvedWhenDone)
<1>1. LCDInv /\ LCDCompleteInv => (MergePWC \/ prog.vgep = {} => SolvedWhenDone)
  BY CompleteWhenDone DEF LCDInv, LCDCompleteInv
<1>. QED BY <1>1, LCDInvariance, LCDCompleteness, PTL

(* With -merge-pwc everything that a node on a positive weight cycle       *)
(* points to has been collapsed.                                           *)
THEOREM LCDCyclesCollapsed == LCDSpec => [](MergePWC => CyclesCollapsedWhenDone)
<1>1. LCDCompleteInv => (MergePWC => CyclesCollapsedWhenDone)
  BY DEF LCDCompleteInv, CompleteInv, ControlInv, CycleInv, CyclesCollapsedWhenDone, Waiting
<1>. QED BY <1>1, LCDCompleteness, PTL

-----------------------------------------------------------------------------
(* Field accesses.  A merge drops a normal gep when the nodes it would     *)
(* join have another already, whatever its offset.  What is lost so is     *)
(* recorded by the program itself: two of its geps with different offsets  *)
(* have come to join the same nodes.                                       *)
Rival(e) ==
  \E f \in prog.ngep : f[3] # e[3] /\ rep[f[1]] = rep[e[1]] /\ rep[f[2]] = rep[e[2]]

(* Options::FirstFieldEqBase (-ff-eq-base): the first field is the object. *)
FirstFieldEqBase == \A o \in Object : 0 \in Offset => FieldAt[<<o, 0>>] = o

OneOffset(P) == \A e, f \in P.ngep : e[3] = f[3]

GepInv ==
  /\ \A e \in prog.ngep : \/ <<rep[e[1]], rep[e[2]], e[3]>> \in ngepE
                          \/ rep[e[1]] = rep[e[2]] /\ (e[3] = 0 \/ rep[e[1]] \in pwc)
                          \/ Rival(e)
  /\ \A d \in ngepE : \E f \in prog.ngep :
        rep[f[1]] = d[1] /\ rep[f[2]] = d[2] /\ f[3] = d[3]

GepsMerged ==
  \E n, r \in Node, P \in [Node -> SUBSET Object] : n # r /\ MergeNodeToRep(n, r, P)

LEMMA ProgramGeps ==
  ASSUME IInv, NEW e \in prog.ngep
  PROVE  /\ e[1] \in Node /\ e[2] \in Node /\ e[3] \in Offset
         /\ e = <<e[1], e[2], e[3]>>
<1>1. prog.ngep \subseteq Node \X Node \X Offset
  BY SystemAssumption DEF IInv, DeliveredInv, GraphTypeOK, Program
<1>. QED BY <1>1

LEMMA InitGeps ==
  ASSUME Init, IInv PROVE GepInv
<1>1. ngepE = prog.ngep /\ \A n \in Node : rep[n] = n
  BY DEF Init, BuildCG
<1>. QED BY <1>1, ProgramGeps DEF GepInv

LEMMA MergeGeps ==
  ASSUME IInv, GepInv, GepsMerged, prog' = prog PROVE GepInv'
<1>1. PICK n \in Node, r \in Node,
              P \in [Node -> SUBSET Object] : n # r /\ MergeNodeToRep(n, r, P)
  BY DEF GepsMerged
<1>2. /\ \A x \in Node : rep'[x] = Moved(rep[x], n, r)
      /\ ngepE' = MovedNormalGeps(n, r)
      /\ pwc' = (pwc \ {n}) \cup
                  (IF n \in pwc \/ CriticalGepInside(n, r) THEN {r} ELSE {})
  BY <1>1 DEF MergeNodeToRep, MergePts
<1>3. ASSUME NEW d \in ngepE', NEW c \in ngepE, d[1] = Moved(c[1], n, r),
             d[2] = Moved(c[2], n, r), d[3] = c[3]
      PROVE  \E f \in prog.ngep : rep'[f[1]] = d[1] /\ rep'[f[2]] = d[2] /\ f[3] = d[3]
  <2>1. PICK f \in prog.ngep : rep[f[1]] = c[1] /\ rep[f[2]] = c[2] /\ f[3] = c[3]
    BY DEF GepInv
  <2>. QED BY <1>2, <1>3, <2>1, ProgramGeps
<1>4. ASSUME NEW d \in ngepE'
      PROVE  \E f \in prog.ngep : rep'[f[1]] = d[1] /\ rep'[f[2]] = d[2] /\ f[3] = d[3]
  <2>1. GraphTypeOK
    BY DEF IInv, DeliveredInv
  <2>2. PICK c \in ngepE : /\ d[1] = Moved(c[1], n, r) /\ d[2] = Moved(c[2], n, r)
                           /\ d[3] = c[3]
    BY <1>1, <2>1, MovedEdges
  <2>. QED BY <1>3, <2>2
<1>5. ASSUME NEW e \in prog.ngep
      PROVE  \/ <<rep'[e[1]], rep'[e[2]], e[3]>> \in ngepE'
             \/ rep'[e[1]] = rep'[e[2]] /\ (e[3] = 0 \/ rep'[e[1]] \in pwc')
             \/ Rival(e)'
  <2>. DEFINE d == <<rep[e[1]], rep[e[2]], e[3]>>
              m == <<Moved(d[1], n, r), Moved(d[2], n, r), d[3]>>
              kept == {x \in ngepE : ~Touches(x, n)}
  <2>1. e[1] \in Node /\ e[2] \in Node
    BY ProgramGeps
  <2>2. rep'[e[1]] = m[1] /\ rep'[e[2]] = m[2] /\ m[3] = e[3]
    BY <1>2, <2>1
  <2>3. CASE Rival(e)
    <3>1. PICK f \in prog.ngep : /\ f[3] # e[3] /\ rep[f[1]] = rep[e[1]]
                                 /\ rep[f[2]] = rep[e[2]]
      BY <2>3 DEF Rival
    <3>2. rep'[f[1]] = rep'[e[1]] /\ rep'[f[2]] = rep'[e[2]]
      BY <1>2, <2>1, <3>1, ProgramGeps
    <3>. QED BY <3>1, <3>2 DEF Rival
  <2>4. CASE rep[e[1]] = rep[e[2]] /\ (e[3] = 0 \/ rep[e[1]] \in pwc)
    BY <1>2, <2>2, <2>4 DEF Moved
  <2>5. CASE d \in ngepE /\ ~Touches(d, n)
    <3>1. m = d /\ d \in ngepE'
      BY <1>2, <2>5 DEF Touches, Moved, MovedNormalGeps
    <3>. QED BY <2>2, <3>1
  <2>6. CASE d \in ngepE /\ Inside(d, n, r)
    <3>1. m[1] = r /\ m[2] = r
      BY <2>6 DEF Inside, Touches, Moved
    <3>2. d[3] # 0 => CriticalGepInside(n, r)
      BY <2>6 DEF CriticalGepInside
    <3>. QED BY <1>2, <2>2, <3>1, <3>2
  <2>7. CASE d \in ngepE /\ Touches(d, n) /\ ~Inside(d, n, r)
    <3>1. CASE ~\E k \in kept : k[1] = m[1] /\ k[2] = m[2]
      <4>1. m \in ngepE'
        BY <1>2, <2>7, <3>1 DEF MovedNormalGeps
      <4>. QED BY <2>2, <4>1
    <3>2. CASE \E k \in kept : k[1] = m[1] /\ k[2] = m[2]
      <4>1. PICK k \in kept : k[1] = m[1] /\ k[2] = m[2]
        BY <3>2
      <4>2. k \in ngepE'
        BY <1>2 DEF MovedNormalGeps
      <4>3. Moved(k[1], n, r) = k[1] /\ Moved(k[2], n, r) = k[2]
        BY DEF Touches, Moved
      <4>4. PICK f \in prog.ngep : /\ rep'[f[1]] = k[1] /\ rep'[f[2]] = k[2]
                                   /\ f[3] = k[3]
        BY <1>4, <4>2
      <4>5. CASE f[3] = e[3]
        <5>1. k = <<k[1], k[2], k[3]>>
          BY DEF IInv, DeliveredInv, GraphTypeOK
        <5>. QED BY <2>2, <4>1, <4>2, <4>4, <4>5, <5>1
      <4>6. CASE f[3] # e[3]
        BY <2>2, <4>1, <4>4, <4>6 DEF Rival
      <4>. QED BY <4>5, <4>6
    <3>. QED BY <3>1, <3>2
  <2>. HIDE DEF d
  <2>8. d \in ngepE \/ (rep[e[1]] = rep[e[2]] /\ (e[3] = 0 \/ rep[e[1]] \in pwc)) \/ Rival(e)
    BY DEF GepInv, d
  <2>. QED BY <2>3, <2>4, <2>5, <2>6, <2>7, <2>8 DEF Inside
<1>6. (\A e \in prog.ngep : \/ <<rep[e[1]], rep[e[2]], e[3]>> \in ngepE
                            \/ rep[e[1]] = rep[e[2]] /\ (e[3] = 0 \/ rep[e[1]] \in pwc)
                            \/ Rival(e))'
  BY <1>5
<1>. QED BY <1>4, <1>6 DEF GepInv

LEMMA SameGeps ==
  ASSUME GepInv, UNCHANGED <<prog, rep, ngepE, pwc>> PROVE GepInv'
BY DEF GepInv, Rival

LEMMA LCDGepChanges ==
  ASSUME LCDInv, LCDCompleteInv, [LCDNext]_lcdVars
  PROVE  prog' = prog /\ (UNCHANGED <<rep, ngepE, pwc>> \/ GepsMerged)
<1>. USE DEF LCDInv
<1>1. CASE MergeSCC \/ UNCHANGED lcdVars
  BY <1>1 DEF MergeSCC, lcdVars, vars, graph, edges
<1>2. CASE MergeNode
  <2>1. PICK e \in merging : MergeNodeToRep(e[1], e[2], pts)
    BY <1>2 DEF MergeNode
  <2>2. e[1] \in Node /\ e[2] \in Node /\ e[1] # e[2]
    BY DEF LCDCompleteInv, MergingInv
  <2>3. pts \in [Node -> SUBSET Object]
    BY DEF IInv, DeliveredInv, GraphTypeOK
  <2>. QED BY <1>2, <2>1, <2>2, <2>3 DEF GepsMerged, MergeNode
<1>3. CASE CollapseOneField(TRUE)
  <2>1. PICK f \in fieldQ :
           \/ UNCHANGED <<rep, edges, pwc>>
           \/ /\ rep[f] # rep[collapsing]
              /\ MergeNodeToRep(rep[f], rep[collapsing], PointeeReplaced(f, collapsing))
    BY <1>3 DEF CollapseOneField
  <2>2. /\ collapsing \in Object /\ f \in Object /\ collapsing # NoNode
        /\ collapsing \in Node /\ f \in Node
        /\ rep[f] \in Node /\ rep[collapsing] \in Node
        /\ collapsing \in fi /\ BaseOf[collapsing] = collapsing /\ BaseOf[f] = collapsing
    BY <1>3, SystemAssumption
       DEF CollapseOneField, IInv, SolverTypeOK, CollapseInv, DeliveredInv, GraphTypeOK
  <2>3. PointeeReplaced(f, collapsing) \in [Node -> SUBSET Object]
    BY <2>2, PointeeReplacedCovers DEF IInv, DeliveredInv
  <2>4. prog' = prog
    BY <1>3 DEF CollapseOneField
  <2>. QED BY <2>1, <2>2, <2>3, <2>4 DEF GepsMerged, edges
<1>4. CASE LCDCollapse /\ ~CollapseOneField(TRUE)
  BY <1>4 DEF LCDCollapse, Collapse, CollapseObject, StartCollapse, EndCollapse, graph, edges
<1>5. CASE LCDPop
  BY <1>5 DEF LCDPop, Pop, graph, edges
<1>6. CASE LCDHandleCopyGep
  BY <1>6 DEF LCDHandleCopyGep, HandleCopyGep, edges
<1>7. CASE LCDOther
  BY <1>7 DEF LCDOther, StartNode, ProcessLoadStore, EndLoadStore, EndNode, OnTheFlyCallGraph,
              UpdateCallGraph, ConnectParam, EndConnect, Terminated, vars, graph, edges
<1>. QED BY <1>1, <1>2, <1>3, <1>4, <1>5, <1>6, <1>7 DEF LCDNext

LEMMA LCDGepInvariance == LCDSpec => []GepInv
<1>1. LCDInit => GepInv
  BY InitIInv, InitGeps DEF LCDInit
<1>2. LCDInv /\ LCDCompleteInv /\ GepInv /\ [LCDNext]_lcdVars => GepInv'
  BY LCDGepChanges, MergeGeps, SameGeps DEF LCDInv
<1>. QED BY <1>1, <1>2, LCDInvariance, LCDCompleteness, PTL DEF LCDSpec

(* Inside a node whose objects are collapsed, or whose first fields they   *)
(* are, a gep leads to what the node points to already.                    *)
LEMMA GepInsideNode ==
  ASSUME NEW S \in SUBSET Object, NEW k \in Offset,
         \/ k = 0 /\ FirstFieldEqBase
         \/ \A o \in S \ BlkOrConst : BaseOf[o] \in fi
  PROVE  Covers(fi, S, GepObjNodes(fi, S, k))
<1>1. ASSUME NEW o \in S PROVE Norm(fi, GepObjNode(fi, o, k)) = Norm(fi, o)
  <2>1. BaseOf[BaseOf[o]] = BaseOf[o]
    BY SystemAssumption
  <2>. QED BY <2>1 DEF Norm, GepObjNode, FirstFieldEqBase
<1>. QED BY <1>1, CoversElements DEF GepObjNodes

LEMMA GepsWhenDone ==
  ASSUME IInv, RepInv, GepInv, AllPropagated, CyclesCollapsed, MergePWC, FirstFieldEqBase,
         NEW e \in prog.ngep, ~Rival(e)
  PROVE  Covers(fi, Solution[e[2]], GepObjNodes(fi, Solution[e[1]], e[3]))
<1>. USE DEF IInv, DeliveredInv, GraphTypeOK
<1>1. e[1] \in Node /\ e[2] \in Node /\ e[3] \in Offset
  BY ProgramGeps
<1>2. /\ rep[e[1]] \in Node /\ rep[e[2]] \in Node /\ rep[rep[e[1]]] = rep[e[1]]
      /\ Solution[e[1]] = pts[rep[e[1]]] /\ Solution[e[2]] = pts[rep[e[2]]]
      /\ pts[rep[e[1]]] \in SUBSET Object
  BY <1>1 DEF RepInv, Solution
<1>3. CASE <<rep[e[1]], rep[e[2]], e[3]>> \in ngepE
  <2>1. pts[rep[e[1]]] \subseteq propa[rep[e[1]]]
    BY <1>2 DEF AllPropagated
  <2>2. GepObjNodes(fi, pts[rep[e[1]]], e[3]) \subseteq GepObjNodes(fi, propa[rep[e[1]]], e[3])
    BY <2>1 DEF GepObjNodes
  <2>3. Covers(fi, pts[rep[e[2]]], GepObjNodes(fi, propa[rep[e[1]]], e[3]))
    BY <1>3 DEF PropagatedDelivered
  <2>. QED BY <1>2, <2>2, <2>3, CoversSubset, CoversTransitive
<1>4. CASE rep[e[1]] = rep[e[2]] /\ (e[3] = 0 \/ rep[e[1]] \in pwc)
  <2>1. rep[e[1]] \in pwc => \A o \in pts[rep[e[1]]] \ BlkOrConst : BaseOf[o] \in fi
    BY DEF CyclesCollapsed
  <2>. QED BY <1>1, <1>2, <1>4, <2>1, GepInsideNode
<1>. QED BY <1>3, <1>4 DEF GepInv

(* With -merge-pwc lazy cycle detection satisfies every field access but   *)
(* those whose place has been taken by another with another offset.        *)
THEOREM LCDGepsSolvedOrDeclined ==
  LCDSpec =>
    [](MergePWC /\ FirstFieldEqBase /\ pc = "done" =>
         \A e \in prog.ngep :
            Rival(e) \/ Covers(fi, Solution[e[2]], GepObjNodes(fi, Solution[e[1]], e[3])))
<1>1. LCDInv /\ LCDCompleteInv /\ GepInv =>
        (MergePWC /\ FirstFieldEqBase /\ pc = "done" =>
           \A e \in prog.ngep :
              Rival(e) \/ Covers(fi, Solution[e[2]], GepObjNodes(fi, Solution[e[1]], e[3])))
  BY GepsWhenDone, CompletePropagated DEF LCDInv, LCDCompleteInv, CompleteInv
<1>. QED BY <1>1, LCDInvariance, LCDCompleteness, LCDGepInvariance, PTL

(* In particular it satisfies all of them if they have one offset.         *)
THEOREM LCDGepsSolved ==
  LCDSpec => [](MergePWC /\ FirstFieldEqBase /\ OneOffset(prog) => NormalGepsSolvedWhenDone)
<1>1. LCDInv /\ LCDCompleteInv /\ GepInv =>
        (MergePWC /\ FirstFieldEqBase /\ OneOffset(prog) => NormalGepsSolvedWhenDone)
  BY GepsWhenDone, CompletePropagated
     DEF LCDInv, LCDCompleteInv, CompleteInv, OneOffset, Rival, NormalGepsSolvedWhenDone, NormalGepHolds
<1>. QED BY <1>1, LCDInvariance, LCDCompleteness, LCDGepInvariance, PTL

-----------------------------------------------------------------------------
(* Wave propagation.                                                       *)
Extra ==
  /\ phase \in Phases
  /\ sccMerges \in SUBSET (Node \X Node)
  /\ nodeStack \in SUBSET Node
  /\ order \in SUBSET (Node \X Node)
  /\ tmpWorklist \in SUBSET Node

WaveInv == IInv /\ Extra

WaveKept == WaveInv' /\ Grows

-----------------------------------------------------------------------------
LEMMA SCCDetectKeeps ==
  ASSUME WaveInv, SCCDetect PROVE WaveKept
<1>1. Kept
  BY StutterKeeps DEF SCCDetect, WaveInv
<1>2. sccMerges' \in SUBSET (Node \X Node)
  <2>1. Reps \in SUBSET Node
    BY DEF Reps
  <2>2. PICK root \in RootsOf(SCCs(Reps)) : sccMerges' = MergesInto(root)
    BY DEF SCCDetect
  <2>. QED BY <2>1, <2>2, MergesIntoType
<1>. QED BY <1>1, <1>2 DEF SCCDetect, WaveInv, WaveKept, Kept, Extra, Phases

LEMMA WaveMergeNodeKeeps ==
  ASSUME WaveInv, WaveMergeNode PROVE WaveKept
<1>1. PICK e \in sccMerges : MergeNodeToRep(e[1], e[2], pts) /\ sccMerges' = sccMerges \ {e}
  BY DEF WaveMergeNode
<1>2. e[1] \in Node /\ e[2] \in Node
  BY DEF WaveInv, Extra
<1>3. SolverTypeOK' /\ CollapseInv'
  BY DEF WaveMergeNode, WaveInv, IInv, SolverTypeOK, CollapseInv, control
<1>4. Kept
  BY <1>1, <1>2, <1>3, MergeKeeps DEF WaveMergeNode, WaveInv
<1>. QED BY <1>1, <1>4 DEF WaveMergeNode, WaveInv, WaveKept, Kept, Extra

LEMMA StartWaveKeeps ==
  ASSUME WaveInv, StartWave PROVE WaveKept
<1>1. Kept
  BY StutterKeeps DEF StartWave, WaveInv
<1>2. SCCEdges \in SUBSET (Node \X Node)
  BY DEF WaveInv, IInv, DeliveredInv, GraphTypeOK, SCCEdges
<1>. QED BY <1>1, <1>2 DEF StartWave, WaveInv, WaveKept, Kept, Extra, Phases, Reps

LEMMA WavePopKeeps ==
  ASSUME WaveInv, WavePop PROVE WaveKept
<1>1. PICK n \in nodeStack :
         /\ nodeStack' = nodeStack \ {n}
         /\ cur' = n
         /\ ptsQ' = IF MergePWC /\ rep[n] \in pwc THEN pts[rep[n]] ELSE {}
  BY DEF WavePop
<1>2. n \in Node /\ rep[n] \in Node /\ ptsQ' \in SUBSET Object
  BY <1>1 DEF WaveInv, Extra, IInv, DeliveredInv, GraphTypeOK
<1>3. SolverTypeOK' /\ CollapseInv'
  BY <1>1, <1>2 DEF WavePop, WaveInv, IInv, SolverTypeOK, CollapseInv, Handlers, graph
<1>4. Kept
  BY <1>3, GraphUnchanged DEF WavePop, WaveInv
<1>. QED BY <1>1, <1>4 DEF WavePop, WaveInv, WaveKept, Kept, Extra

LEMMA EndExtraKeeps ==
  ASSUME WaveInv, EndExtra PROVE WaveKept
<1>1. worklist' \in SUBSET Node
  BY DEF EndExtra, WaveInv, Extra, IInv, DeliveredInv, GraphTypeOK
<1>2. SolverTypeOK' /\ CollapseInv'
  BY <1>1 DEF EndExtra, WaveInv, IInv, SolverTypeOK, CollapseInv, graph
<1>3. Kept
  BY <1>2, GraphUnchanged DEF EndExtra, WaveInv
<1>. QED BY <1>3 DEF EndExtra, WaveInv, WaveKept, Kept, Extra, Phases

LEMMA ExtraPopKeeps ==
  ASSUME WaveInv, ExtraPop PROVE WaveKept
<1>1. Kept
  BY PopKeeps DEF ExtraPop, WaveInv
<1>2. cur' \in Node
  BY DEF ExtraPop, Pop, WaveInv, IInv, SolverTypeOK, DeliveredInv, GraphTypeOK
<1>. QED BY <1>1, <1>2 DEF ExtraPop, WaveInv, WaveKept, Kept, Extra

LEMMA WaveProcessNodeKeeps ==
  ASSUME WaveInv, WaveProcessNode PROVE WaveKept
<1>1. Kept
  BY StartNodeKeeps, CollapseKeeps, HandleCopyGepKeeps, EndNodeKeeps
     DEF WaveProcessNode, WaveInv, Handlers
<1>. QED BY <1>1 DEF WaveProcessNode, WaveInv, WaveKept, Kept, Extra

LEMMA PostPopKeeps ==
  ASSUME WaveInv, PostPop PROVE Kept
<1>1. PICK d \in worklist : worklist' = worklist \ {d} /\ cur' = rep[d]
  BY DEF PostPop
<1>2. rep[d] \in Node
  BY <1>1 DEF WaveInv, IInv, SolverTypeOK, DeliveredInv, GraphTypeOK
<1>3. SolverTypeOK' /\ CollapseInv'
  BY <1>1, <1>2 DEF PostPop, WaveInv, IInv, SolverTypeOK, CollapseInv, Handlers, graph
<1>. QED BY <1>3, GraphUnchanged DEF PostPop, WaveInv

LEMMA HandleLoadStoreKeeps ==
  ASSUME WaveInv, HandleLoadStore PROVE Kept
<1>1. PICK e \in MissingCopies(cur) : AddCopyEdge(e[1], e[2])
  BY DEF HandleLoadStore
<1>2. e[1] \in Node /\ e[2] \in Node
  BY MissingCopiesType DEF WaveInv
<1>3. SolverTypeOK' /\ CollapseInv'
  BY DEF HandleLoadStore, WaveInv, IInv, SolverTypeOK, CollapseInv
<1>. QED BY <1>1, <1>2, <1>3, AddCopyEdgeKeeps DEF HandleLoadStore, WaveInv

LEMMA PostProcessNodeKeeps ==
  ASSUME WaveInv, PostProcessNode PROVE WaveKept
<1>1. Kept
  BY PostPopKeeps, HandleLoadStoreKeeps, EndLoadStoreKeeps
     DEF PostProcessNode, WaveInv, Handlers
<1>. QED BY <1>1 DEF PostProcessNode, WaveInv, WaveKept, Kept, Extra

LEMMA WaveNextKeeps ==
  ASSUME WaveInv, [WaveNext]_waveVars PROVE WaveKept
<1>1. CASE SCCDetect \/ WaveMergeNode \/ StartWave \/ WavePop
  BY <1>1, SCCDetectKeeps, WaveMergeNodeKeeps, StartWaveKeeps, WavePopKeeps
<1>2. CASE ExtraPop \/ EndExtra \/ WaveProcessNode \/ PostProcessNode
  BY <1>2, ExtraPopKeeps, EndExtraKeeps, WaveProcessNodeKeeps, PostProcessNodeKeeps
<1>3. CASE EndWave
  <2>1. Kept
    BY <1>3, StutterKeeps DEF EndWave, WaveInv
  <2>. QED BY <1>3, <2>1 DEF EndWave, WaveInv, WaveKept, Kept, Extra, Phases
<1>4. CASE WaveUpdateCallGraph
  <2>1. Kept
    BY <1>4, UpdateCallGraphKeeps DEF WaveUpdateCallGraph, WaveInv
  <2>. QED BY <1>4, <2>1 DEF WaveUpdateCallGraph, WaveInv, WaveKept, Kept, Extra, Phases
<1>5. CASE WaveConnect
  <2>1. Kept
    BY <1>5, ConnectParamKeeps, EndConnectKeeps, StutterKeeps
       DEF WaveConnect, WaveInv, Terminated
  <2>. QED BY <1>5, <2>1 DEF WaveConnect, WaveInv, WaveKept, Kept, Extra
<1>6. CASE UNCHANGED waveVars
  <2>1. Kept
    BY <1>6, StutterKeeps DEF waveVars, WaveInv
  <2>. QED BY <1>6, <2>1 DEF waveVars, WaveInv, WaveKept, Kept, Extra
<1>. QED BY <1>1, <1>2, <1>3, <1>4, <1>5, <1>6 DEF WaveNext

THEOREM WaveInvariance == WaveSpec => []WaveInv
<1>1. WaveInit => WaveInv
  BY InitIInv DEF WaveInit, WaveInv, Extra, Phases
<1>2. WaveInv /\ [WaveNext]_waveVars => WaveInv'
  BY WaveNextKeeps DEF WaveKept
<1>. QED BY <1>1, <1>2, PTL DEF WaveSpec

(* Type correctness of wave propagation. *)
THEOREM WaveTypeCorrect == WaveSpec => []WaveTypeOK
<1>1. WaveInv => WaveTypeOK
  BY DEF WaveInv, Extra, IInv, DeliveredInv, WaveTypeOK, TypeOK
<1>. QED BY WaveInvariance, <1>1, PTL

(* What a wave records as propagated has been delivered, although merges,  *)
(* collapses and new copies all change the graph under it.                 *)
THEOREM WaveNothingSkipped == WaveSpec => []PropagatedDelivered
<1>1. WaveInv => PropagatedDelivered
  BY DEF WaveInv, IInv, DeliveredInv
<1>. QED BY WaveInvariance, <1>1, PTL

(* No step of wave propagation loses a pointee. *)
THEOREM WaveNothingLost == WaveSpec => SolutionGrows
<1>1. WaveInv /\ [WaveNext]_waveVars => Grows
  BY WaveNextKeeps DEF WaveKept
<1>2. WaveInv /\ [WaveNext]_waveVars => [Grows]_vars
  BY <1>1
<1>3. WaveSpec => [][Grows]_vars
  BY WaveInvariance, <1>2, PTL DEF WaveSpec
<1>. QED BY <1>3 DEF SolutionGrows, Grows

-----------------------------------------------------------------------------
(* Precision, as for lazy cycle detection: waiting merges are between      *)
(* nodes of a cycle.                                                       *)
WavePreciseInv(L) ==
  PreciseInv(L) /\ \A e \in sccMerges : L[e[1]] = L[e[2]]

LEMMA SCCDetectPrecise ==
  ASSUME WaveInv, NEW L, WavePreciseInv(L), SCCDetect PROVE WavePreciseInv(L)'
<1>1. PICK root \in RootsOf(SCCs(Reps)) : sccMerges' = MergesInto(root)
  BY DEF SCCDetect
<1>2. Reps \in SUBSET Node /\ GraphTypeOK /\ Below(L)
  BY DEF Reps, WaveInv, IInv, DeliveredInv, WavePreciseInv, PreciseInv
<1>3. \A e \in sccMerges' : L[e[1]] = L[e[2]]
  BY <1>1, <1>2, MergesAreLevel
<1>4. PreciseInv(L)'
  BY QuietPrecise DEF SCCDetect, WavePreciseInv, vars, graph, control
<1>. QED BY <1>3, <1>4 DEF WavePreciseInv

LEMMA WaveMergeNodePrecise ==
  ASSUME WaveInv, NEW L, WavePreciseInv(L), WaveMergeNode PROVE WavePreciseInv(L)'
<1>1. PICK e \in sccMerges : MergeNodeToRep(e[1], e[2], pts) /\ sccMerges' = sccMerges \ {e}
  BY DEF WaveMergeNode
<1>2. e[1] \in Node /\ e[2] \in Node /\ L[e[1]] = L[e[2]]
  BY DEF WaveInv, Extra, WavePreciseInv
<1>3. Below(L)'
  BY <1>1, <1>2, MergeKeepsBelow
     DEF WaveInv, IInv, DeliveredInv, GraphTypeOK, WavePreciseInv, PreciseInv, Below
<1>. QED BY <1>1, <1>3 DEF WaveMergeNode, WavePreciseInv, PreciseInv, control

LEMMA HandleLoadStorePrecise ==
  ASSUME WaveInv, NEW L, PreciseInv(L), HandleLoadStore PROVE PreciseInv(L)'
<1>1. PICK e \in MissingCopies(cur) : AddCopyEdge(e[1], e[2])
  BY DEF HandleLoadStore
<1>2. e[1] \in Node /\ e[2] \in Node /\ L[e[1]] \subseteq L[e[2]]
  BY MissingCopiesType, DerivedBelow DEF WaveInv
<1>. QED BY <1>1, <1>2, AddCopyEdgePrecise DEF HandleLoadStore

LEMMA WaveNextPrecise ==
  ASSUME WaveInv, NEW L, WavePreciseInv(L), [WaveNext]_waveVars
  PROVE  WavePreciseInv(L)' /\ prog' = prog
<1>. USE DEF WaveInv, WavePreciseInv
<1>1. CASE SCCDetect
  BY <1>1, SCCDetectPrecise DEF SCCDetect, vars, graph
<1>2. CASE WaveMergeNode
  BY <1>2, WaveMergeNodePrecise DEF WaveMergeNode
<1>3. CASE StartWave \/ EndWave \/ UNCHANGED waveVars
  BY <1>3, QuietPrecise DEF StartWave, EndWave, waveVars, vars, graph, control
<1>4. CASE WavePop \/ EndExtra
  BY <1>4, QuietPrecise DEF WavePop, EndExtra, graph
<1>5. CASE ExtraPop
  BY <1>5, QuietPrecise DEF ExtraPop, Pop, graph
<1>6. CASE WaveProcessNode
  <2>1. sccMerges' = sccMerges
    BY <1>6 DEF WaveProcessNode
  <2>2. CASE StartNode("copygep") \/ EndNode
    BY <2>1, <2>2, QuietPrecise DEF StartNode, EndNode, graph
  <2>3. CASE Collapse(FALSE)
    BY <2>1, <2>3, CollapsePrecise
       DEF Collapse, CollapseObject, StartCollapse, CollapseOneField, EndCollapse, graph
  <2>4. CASE HandleCopyGep
    BY <2>1, <2>4, HandleCopyGepPrecise DEF HandleCopyGep
  <2>. QED BY <1>6, <2>2, <2>3, <2>4 DEF WaveProcessNode
<1>7. CASE PostProcessNode
  <2>1. sccMerges' = sccMerges
    BY <1>7 DEF PostProcessNode
  <2>2. CASE PostPop
    BY <2>1, <2>2, QuietPrecise DEF PostPop, graph
  <2>3. CASE EndLoadStore("solve")
    BY <2>1, <2>3, QuietPrecise DEF EndLoadStore, graph
  <2>4. CASE HandleLoadStore
    BY <2>1, <2>4, HandleLoadStorePrecise DEF HandleLoadStore
  <2>. QED BY <1>7, <2>2, <2>3, <2>4 DEF PostProcessNode
<1>8. CASE WaveUpdateCallGraph
  BY <1>8, UpdateCallGraphPrecise DEF WaveUpdateCallGraph, UpdateCallGraph, graph
<1>9. CASE WaveConnect
  <2>1. sccMerges' = sccMerges
    BY <1>9 DEF WaveConnect
  <2>2. CASE ConnectParam
    BY <2>1, <2>2, ConnectParamPrecise DEF ConnectParam
  <2>3. CASE EndConnect
    BY <2>1, <2>3, QuietPrecise DEF EndConnect, graph
  <2>4. CASE Terminated
    BY <2>1, <2>4, QuietPrecise DEF Terminated, vars, graph, control
  <2>. QED BY <1>9, <2>2, <2>3, <2>4 DEF WaveConnect
<1>. QED BY <1>1, <1>2, <1>3, <1>4, <1>5, <1>6, <1>7, <1>8, <1>9 DEF WaveNext

(* Whatever cycles a round merges and however the wave rewrites the graph, *)
(* nothing is added that a solution of the program does not have.          *)
THEOREM WaveNothingInvented == WaveSpec => []PreciseWhenDone
<1>. DEFINE Inv == WaveInv /\ WavePreciseInv(Insensitive(prog))
<1>1. WaveInit => Inv
  BY InitIInv, InitPrecise DEF WaveInit, WaveInv, Extra, Phases, WavePreciseInv
<1>2. ASSUME Inv, [WaveNext]_waveVars PROVE Inv'
  <2>1. PICK L : L = Insensitive(prog)
    OBVIOUS
  <2>2. WavePreciseInv(L)' /\ prog' = prog
    BY <1>2, <2>1, WaveNextPrecise
  <2>3. WaveInv'
    BY <1>2, WaveNextKeeps DEF WaveKept
  <2>. QED BY <2>1, <2>2, <2>3
<1>3. Inv => PreciseWhenDone
  BY PreciseImpliesWithin DEF PreciseWhenDone, WaveInv, WavePreciseInv
<1>4. Inv /\ [WaveNext]_waveVars => Inv'
  BY <1>2
<1>. HIDE DEF Inv
<1>. QED BY <1>1, <1>3, <1>4, PTL DEF WaveSpec
-----------------------------------------------------------------------------
(* What the waves achieve.  A round that nothing disturbs (reanalyze stays *)
(* FALSE) propagates along the edges in an order that stays topological,   *)
(* so that with every node popped once all differences have arrived.  What *)
(* disturbs a round asks for another: a new copy, or a field merged with   *)
(* its object, which is why a node has to point to every field that is     *)
(* merged.  That, and an order without edges from a node to itself, is     *)
(* more than an arbitrary constraint system offers.                        *)
Plain(P) ==
  /\ \A f \in Mentioned(P) : BaseOf[f] = f
  /\ P.mergePWC => (\A e \in P.vgep : e[1] # e[2]) /\ (\A e \in P.ngep : e[1] # e[2])

ProperEdges ==
  /\ \A e \in copyE : e[1] # e[2]
  /\ MergePWC => (\A e \in vgepE : e[1] # e[2]) /\ (\A e \in ngepE : e[1] # e[2])

(* Some node points to every field that may yet be merged. *)
Pointed(f) == \E n \in Node : f \in pts[n]

PointedInv ==
  /\ toCollapse \subseteq fi
  /\ \A o \in toCollapse : BaseOf[o] = o
  /\ collapsing \notin toCollapse
  /\ collapsing # NoNode => \A f \in fieldQ : Pointed(f)
  /\ \A f \in fields : BaseOf[f] \notin fi \/ BaseOf[f] \in toCollapse => Pointed(f)

PhaseInv ==
  /\ pc \in {"pwc", "copygep", "fields"} => phase \in {"wave", "extra"}
  /\ pc = "loadstore" => phase = "post"
  /\ pc \in {"connect", "done"} => phase = "detect"
  /\ phase = "extra" => ~MergePWC
  /\ phase \in {"extra", "post"} => nodeStack = {}
  /\ collapsing # NoNode => pc \in {"pwc", "fields"}
  /\ connectQ # {} => pc = "connect"

SccMergesInv ==
  \A e \in sccMerges : /\ phase = "merge"
                       /\ rep[e[2]] = e[2]
                       /\ \A d \in sccMerges : d[1] # e[2]

ShapeInv == RepInv /\ ProperEdges /\ PointedInv /\ PhaseInv /\ SccMergesInv

(* Who has something to propagate will be popped, or is being processed.   *)
WaveSent ==
  \A n \in Reps : \/ pts[n] \subseteq propa[n]
                  \/ n \in nodeStack
                  \/ cur = n /\ pc \in {"pwc", "copygep"}
                  \/ ~MergePWC /\ n \in Waiting

(* The successors of a node on the stack, and of the node just popped, are *)
(* on the stack.                                                           *)
OrderKept ==
  /\ SCCEdges \subseteq order
  /\ \A e \in SCCEdges : e[1] \in nodeStack => e[2] \in nodeStack
  /\ pc \in {"pwc", "copygep"} => \A e \in SCCEdges : e[1] = cur => e[2] \in nodeStack

Insensitised(o, Q) == BaseOf[o] \in fi \/ o \in BlkOrConst \/ o \in Q

CyclesDealtWith ==
  \A n \in pwc : \/ n \in nodeStack
                 \/ \A o \in pts[n] : Insensitised(o, {})
                 \/ cur = n /\ pc = "pwc" /\ \A o \in pts[n] : Insensitised(o, ptsQ)

RoundOver ==
  /\ AllPropagated
  /\ MergePWC => \A n \in pwc : \A o \in pts[n] : Insensitised(o, {})

RoundInv ==
  /\ ~reanalyze /\ phase \in {"wave", "extra"} => WaveSent
  /\ ~reanalyze /\ phase = "wave" /\ MergePWC => OrderKept /\ CyclesDealtWith
  /\ (~reanalyze /\ phase = "post") \/ pc = "done" => RoundOver

(* As for the other solvers, every statement of the program is in the graph*)
(* all the time, and arrays that have been indexed are collapsed.          *)
StatementsInv ==
  /\ ProgramInv /\ GepInv /\ ArrayInv /\ FieldInv
  /\ toCollapse # {} => pc = "fields"
  /\ pc = "done" => NewTargets = {}

WaveCompleteInv == ShapeInv /\ RoundInv /\ StatementsInv

-----------------------------------------------------------------------------
LEMMA WavePhases ==
  ASSUME PhaseInv, [WaveNext]_waveVars PROVE PhaseInv'
<1>1. CASE SCCDetect \/ StartWave \/ EndWave \/ UNCHANGED waveVars
  BY <1>1 DEF SCCDetect, StartWave, EndWave, Idle, waveVars, vars, graph, control, PhaseInv,
              MergePWC
<1>2. CASE WaveMergeNode
  BY <1>2 DEF WaveMergeNode, control, PhaseInv, MergePWC
<1>3. CASE WavePop \/ ExtraPop \/ EndExtra
  BY <1>3 DEF WavePop, ExtraPop, Pop, EndExtra, Idle, graph, PhaseInv, MergePWC
<1>4. CASE WaveProcessNode
  BY <1>4 DEF WaveProcessNode, StartNode, Collapse, CollapseObject, StartCollapse,
              CollapseOneField, EndCollapse, CollapseIdle, HandleCopyGep, Propagate, EndNode,
              graph, PhaseInv, MergePWC
<1>5. CASE PostProcessNode
  BY <1>5 DEF PostProcessNode, PostPop, HandleLoadStore, EndLoadStore, Idle, graph, PhaseInv,
              MergePWC
<1>6. CASE WaveUpdateCallGraph
  BY <1>6 DEF WaveUpdateCallGraph, UpdateCallGraph, NextRound, graph, PhaseInv, MergePWC
<1>7. CASE WaveConnect
  BY <1>7 DEF WaveConnect, ConnectParam, EndConnect, Terminated, vars, control, graph,
              PhaseInv, MergePWC
<1>. QED BY <1>1, <1>2, <1>3, <1>4, <1>5, <1>6, <1>7 DEF WaveNext

(* A step keeps the edges, merges a representative into another, or adds a *)
(* copy between two.                                                       *)
EdgesKept ==
  /\ UNCHANGED <<rep, edges, pwc>>
  /\ UNCHANGED propa \/ HandleCopyGep
  /\ \A e \in connectQ' : RepEnds(e)

RepMerged ==
  \E n, r \in Node, P \in [Node -> SUBSET Object] :
     /\ n # r /\ rep[r] = r /\ MergeNodeToRep(n, r, P)
     /\ connectQ = {} /\ connectQ' = {} /\ UNCHANGED <<fi, callgraph>>

CopyAdded ==
  /\ \E s, d \in Node : rep[s] = s /\ rep[d] = d /\ s # d /\ AddCopyEdge(s, d)
  /\ UNCHANGED <<rep, loadE, storeE, ngepE, vgepE, pwc, pts>>
  /\ connectQ' \subseteq connectQ

LEMMA CollapseOneFieldChanges ==
  ASSUME WaveInv, ShapeInv, CollapseOneField(FALSE) PROVE EdgesKept \/ RepMerged
<1>. USE DEF WaveInv
<1>. DEFINE b == collapsing
<1>1. PICK f \in fieldQ :
         \/ /\ rep[f] = rep[b]
            /\ UNCHANGED <<rep, edges, pwc, propa>>
         \/ /\ rep[f] # rep[b]
            /\ MergeNodeToRep(rep[f], rep[b], PointeeReplaced(f, b))
  BY DEF CollapseOneField
<1>2. UNCHANGED <<fi, callgraph, connectQ>> /\ collapsing # NoNode
  BY DEF CollapseOneField
<1>3. connectQ = {}
  BY <1>2 DEF ShapeInv, PhaseInv
<1>4. /\ b \in fi /\ b \in Object /\ BaseOf[b] = b
      /\ f \in Object /\ BaseOf[f] = b
      /\ b \in Node /\ f \in Node
      /\ rep[f] \in Node /\ rep[b] \in Node /\ rep[rep[b]] = rep[b]
  BY <1>1, <1>2, SystemAssumption
     DEF IInv, CollapseInv, SolverTypeOK, DeliveredInv, GraphTypeOK, ShapeInv, RepInv
<1>5. PointeeReplaced(f, b) \in [Node -> SUBSET Object]
  BY <1>4, PointeeReplacedCovers DEF IInv, DeliveredInv
<1>6. CASE rep[f] = rep[b] /\ UNCHANGED <<rep, edges, pwc, propa>>
  BY <1>2, <1>3, <1>6 DEF EdgesKept
<1>7. CASE rep[f] # rep[b] /\ MergeNodeToRep(rep[f], rep[b], PointeeReplaced(f, b))
  BY <1>2, <1>3, <1>4, <1>5, <1>7 DEF RepMerged
<1>. QED BY <1>1, <1>6, <1>7

LEMMA WaveChanges ==
  ASSUME WaveInv, ShapeInv, [WaveNext]_waveVars
  PROVE  prog' = prog /\ (EdgesKept \/ RepMerged \/ CopyAdded)
<1>. USE DEF WaveInv, ShapeInv
<1>1. \A e \in connectQ : RepEnds(e) /\ e[1] \in Node /\ e[2] \in Node
  BY DEF RepInv, IInv, SolverTypeOK
<1>2. CASE SCCDetect \/ StartWave \/ EndWave \/ UNCHANGED waveVars
  BY <1>1, <1>2 DEF SCCDetect, StartWave, EndWave, waveVars, vars, graph, control, EdgesKept
<1>3. CASE WavePop \/ ExtraPop \/ EndExtra
  BY <1>1, <1>3 DEF WavePop, ExtraPop, Pop, EndExtra, graph, EdgesKept
<1>4. CASE WaveMergeNode
  <2>1. PICK e \in sccMerges : MergeNodeToRep(e[1], e[2], pts)
    BY <1>4 DEF WaveMergeNode
  <2>2. e[1] \in Node /\ e[2] \in Node /\ rep[e[2]] = e[2] /\ e[1] # e[2]
    BY DEF Extra, SccMergesInv
  <2>3. pts \in [Node -> SUBSET Object]
    BY DEF IInv, DeliveredInv, GraphTypeOK
  <2>4. UNCHANGED <<prog, fi, callgraph, connectQ>> /\ connectQ = {}
    BY <1>4 DEF WaveMergeNode, control, PhaseInv
  <2>. QED BY <2>1, <2>2, <2>3, <2>4 DEF RepMerged
<1>5. CASE CollapseOneField(FALSE)
  BY <1>5, CollapseOneFieldChanges DEF CollapseOneField
<1>6. CASE WaveProcessNode /\ ~CollapseOneField(FALSE)
  BY <1>1, <1>6 DEF WaveProcessNode, StartNode, Collapse, CollapseObject, StartCollapse,
                    EndCollapse, HandleCopyGep, EndNode, graph, EdgesKept
<1>7. CASE PostPop \/ EndLoadStore("solve")
  BY <1>1, <1>7 DEF PostPop, EndLoadStore, graph, EdgesKept
<1>8. CASE HandleLoadStore
  <2>1. PICK e \in MissingCopies(cur) : AddCopyEdge(e[1], e[2])
    BY <1>8 DEF HandleLoadStore
  <2>2. e[1] \in Node /\ e[2] \in Node /\ rep[e[1]] = e[1] /\ rep[e[2]] = e[2]
    BY MissingCopiesType, MissingCopiesJoinReps
  <2>3. e[1] # e[2]
    BY DEF MissingCopies, NewCopy
  <2>. QED BY <1>8, <2>1, <2>2, <2>3 DEF HandleLoadStore, CopyAdded
<1>9. CASE WaveUpdateCallGraph
  <2>1. UpdateCallGraph /\ prog' = prog /\ UNCHANGED <<rep, edges, pwc, propa>>
    BY <1>9 DEF WaveUpdateCallGraph, UpdateCallGraph, graph
  <2>2. ASSUME NEW c \in NewTargets PROVE RepEnds(<<rep[c[3]], rep[c[4]]>>)
    <3>1. c \in Node \X Object \X Node \X Node
      BY SystemAssumption DEF NewTargets, IInv, DeliveredInv, GraphTypeOK, Program
    <3>. QED BY <3>1 DEF RepInv, RepEnds
  <2>. QED BY <2>1, <2>2 DEF UpdateCallGraph, EdgesKept
<1>10. CASE ConnectParam
  <2>1. PICK e \in connectQ :
           /\ connectQ' = connectQ \ {e}
           /\ (NewCopy(e[1], e[2]) /\ AddCopyEdge(e[1], e[2])) \/ UNCHANGED <<copyE, propa>>
    BY <1>10 DEF ConnectParam
  <2>2. UNCHANGED <<prog, rep, loadE, storeE, ngepE, vgepE, pwc, pts>>
    BY <1>10 DEF ConnectParam
  <2>3. CASE UNCHANGED <<copyE, propa>>
    BY <1>1, <2>1, <2>2, <2>3 DEF EdgesKept, edges
  <2>4. CASE NewCopy(e[1], e[2]) /\ AddCopyEdge(e[1], e[2])
    BY <1>1, <2>1, <2>2, <2>4 DEF CopyAdded, NewCopy, RepEnds
  <2>. QED BY <2>1, <2>3, <2>4
<1>11. CASE EndConnect \/ Terminated
  BY <1>1, <1>11 DEF EndConnect, Terminated, vars, graph, control, EdgesKept
<1>. QED BY <1>2, <1>3, <1>4, <1>5, <1>6, <1>7, <1>8, <1>9, <1>10, <1>11
         DEF WaveNext, WaveProcessNode, Collapse, PostProcessNode, WaveConnect

LEMMA WaveRep ==
  ASSUME WaveInv, RepInv, EdgesKept \/ RepMerged \/ CopyAdded PROVE RepInv'
<1>1. CASE EdgesKept
  BY <1>1 DEF EdgesKept, edges, RepInv, RepEnds
<1>2. CASE RepMerged
  BY <1>2, MergeKeepsRep DEF RepMerged, WaveInv
<1>3. CASE CopyAdded
  BY <1>3 DEF CopyAdded, AddCopyEdge, RepInv, RepEnds
<1>. QED BY <1>1, <1>2, <1>3

LEMMA WaveProper ==
  ASSUME WaveInv, ProperEdges, prog' = prog, EdgesKept \/ RepMerged \/ CopyAdded
  PROVE  ProperEdges'
<1>. USE DEF ProperEdges, MergePWC
<1>1. CASE EdgesKept
  BY <1>1 DEF EdgesKept, edges
<1>2. CASE CopyAdded
  BY <1>2 DEF CopyAdded, AddCopyEdge
<1>3. CASE RepMerged
  <2>1. PICK n \in Node, r \in Node,
              P \in [Node -> SUBSET Object] : n # r /\ MergeNodeToRep(n, r, P)
    BY <1>3 DEF RepMerged
  <2>2. \A e \in copyE' : e[1] # e[2]
    BY <2>1 DEF MergeNodeToRep
  <2>3. ASSUME MergePWC, NEW e \in vgepE' PROVE e[1] # e[2]
    <3>1. PICK d \in vgepE : /\ ~Inside(d, n, r)
                             /\ e = <<Moved(d[1], n, r), Moved(d[2], n, r)>>
      BY <2>1, <2>3 DEF MergeNodeToRep, MovedPairs
    <3>2. d[1] # d[2]
      BY <2>3
    <3>. QED BY <2>1, <3>1, <3>2 DEF Inside, Touches, Moved
  <2>4. ASSUME MergePWC, NEW e \in ngepE' PROVE e[1] # e[2]
    <3>1. CASE e \in ngepE
      BY <2>4, <3>1
    <3>2. CASE \E d \in ngepE : /\ ~Inside(d, n, r)
                                /\ e = <<Moved(d[1], n, r), Moved(d[2], n, r), d[3]>>
      <4>1. PICK d \in ngepE : /\ ~Inside(d, n, r)
                               /\ e = <<Moved(d[1], n, r), Moved(d[2], n, r), d[3]>>
        BY <3>2
      <4>2. d[1] # d[2]
        BY <2>4
      <4>. QED BY <2>1, <4>1, <4>2 DEF Inside, Touches, Moved
    <3>. QED BY <2>1, <2>4, <3>1, <3>2 DEF MergeNodeToRep, MovedNormalGeps
  <2>. QED BY <2>2, <2>3, <2>4
<1>. QED BY <1>1, <1>2, <1>3

-----------------------------------------------------------------------------
LEMMA PointedStays ==
  ASSUME PointedInv, UNCHANGED <<toCollapse, collapsing, fieldQ, fields, fi>>,
         \A n \in Node : pts[n] \subseteq pts'[n]
  PROVE  PointedInv'
<1>1. \A f : Pointed(f) => Pointed(f)'
  BY DEF Pointed
<1>. QED BY <1>1 DEF PointedInv

LEMMA CollapseObjectPointed ==
  ASSUME IInv, PointedInv, CollapseObject PROVE PointedInv'
<1>1. PICK o \in NextToCollapse :
        /\ StartCollapse(o)
        /\ toCollapse' = IF o \in StillToCollapse(ptsQ) THEN toCollapse
                         ELSE toCollapse \ {o}
  BY DEF CollapseObject
<1>2. /\ fi' = fi \cup {BaseOf[o]} /\ collapsing' = BaseOf[o]
      /\ fieldQ' = {f \in fields : BaseOf[f] = BaseOf[o]}
      /\ UNCHANGED <<pts, fields>>
  BY <1>1 DEF StartCollapse
<1>3. \A f : Pointed(f)' <=> Pointed(f)
  BY <1>2 DEF Pointed
<1>4. CASE o \in StillToCollapse(ptsQ)
  <2>1. BaseOf[o] \notin fi /\ toCollapse' = toCollapse
    BY <1>1, <1>4 DEF StillToCollapse
  <2>. QED BY <1>2, <1>3, <2>1 DEF PointedInv
<1>5. CASE o \notin StillToCollapse(ptsQ)
  <2>1. o \in toCollapse /\ BaseOf[o] = o /\ toCollapse' = toCollapse \ {o}
    BY <1>1, <1>5 DEF NextToCollapse, PointedInv
  <2>. QED BY <1>2, <1>3, <2>1 DEF PointedInv
<1>. QED BY <1>4, <1>5

(* A field that is pointed to asks for another round when it is merged. *)
LEMMA CollapseOneFieldPointed ==
  ASSUME IInv, PointedInv, CollapseOneField(FALSE) PROVE PointedInv' /\ reanalyze'
<1>1. PICK f \in fieldQ :
         /\ fieldQ' = fieldQ \ {f}
         /\ \/ pts' = PointeeReplaced(f, collapsing)
            \/ MergeNodeToRep(rep[f], rep[collapsing], PointeeReplaced(f, collapsing))
         /\ reanalyze' = (reanalyze \/ {n \in Node : f \in pts[n]} # {})
  BY DEF CollapseOneField
<1>2. /\ UNCHANGED <<fi, fields, toCollapse, collapsing>> /\ collapsing # NoNode
      /\ collapsing \in fi /\ \A g \in fieldQ : BaseOf[g] = collapsing
  BY DEF CollapseOneField, IInv, CollapseInv
<1>3. Pointed(f)
  BY <1>1, <1>2 DEF PointedInv
<1>4. reanalyze'
  BY <1>1, <1>3 DEF Pointed
<1>5. ASSUME NEW n \in Node, NEW g \in pts[n], g # f PROVE g \in pts'[n]
  <2>. DEFINE P == PointeeReplaced(f, collapsing)
  <2>1. g \in P[n] /\ P = [m \in Node |-> P[m]]
    BY <1>5 DEF PointeeReplaced
  <2>. HIDE DEF P
  <2>2. CASE pts' = P
    BY <2>1, <2>2
  <2>3. CASE MergeNodeToRep(rep[f], rep[collapsing], P)
    BY <2>1, <2>3 DEF MergeNodeToRep, MergePts
  <2>. QED BY <1>1, <2>2, <2>3 DEF P
<1>6. \A g : g # f /\ Pointed(g) => Pointed(g)'
  BY <1>5 DEF Pointed
<1>7. \A g \in fields : BaseOf[g] \notin fi \/ BaseOf[g] \in toCollapse => g # f
  BY <1>1, <1>2 DEF PointedInv
<1>. QED BY <1>1, <1>2, <1>4, <1>6, <1>7 DEF PointedInv

LEMMA HandleCopyGepPointed ==
  ASSUME IInv, PointedInv, HandleCopyGep, collapsing = NoNode PROVE PointedInv'
<1>1. PICK Early : Propagate(Early)
  BY DEF HandleCopyGep
<1>2. /\ \A d \in Node : pts'[d] = pts[d] \cup Received(cur, d, Early)
      /\ fi' = fi \cup VariantGepBases(cur)
      /\ toCollapse' = toCollapse \cup VariantGepBases(cur)
      /\ fields' = fields \cup
           {f \in UNION {Received(cur, d, Early) : d \in Node} : BaseOf[f] # f}
      /\ UNCHANGED <<collapsing, fieldQ>>
  BY <1>1 DEF Propagate, HandleCopyGep
<1>3. VariantGepBases(cur) \in SUBSET Object /\ VariantGepBases(cur) \cap fi = {}
  BY VariantGepBasesType DEF VariantGepBases
<1>4. \A o \in VariantGepBases(cur) : BaseOf[o] = o
  <2>1. cur \in Node => DiffPts(cur) \in SUBSET Object
    BY DEF DiffPts, IInv, DeliveredInv, GraphTypeOK
  <2>2. \A e \in vgepE : e[1] \in Node
    BY DEF IInv, DeliveredInv, GraphTypeOK
  <2>. QED BY <2>1, <2>2, SystemAssumption DEF VariantGepBases
<1>5. \A f : Pointed(f) => Pointed(f)'
  BY <1>2 DEF Pointed
<1>6. \A f \in fields' \ fields : Pointed(f)'
  BY <1>2 DEF Pointed
<1>7. NoNode \notin Object /\ toCollapse \in SUBSET Object
  BY SystemAssumption DEF IInv, SolverTypeOK
<1>8. \A f \in fields' : BaseOf[f] \notin fi' \/ BaseOf[f] \in toCollapse' => Pointed(f)'
  BY <1>2, <1>3, <1>5, <1>6 DEF PointedInv
<1>. QED BY <1>2, <1>3, <1>4, <1>7, <1>8 DEF PointedInv

LEMMA WavePointed ==
  ASSUME WaveInv, ShapeInv, [WaveNext]_waveVars PROVE PointedInv'
<1>. USE DEF WaveInv, ShapeInv
<1>1. CASE CollapseObject
  BY <1>1, CollapseObjectPointed
<1>2. CASE CollapseOneField(FALSE)
  BY <1>2, CollapseOneFieldPointed
<1>3. CASE HandleCopyGep
  <2>1. collapsing = NoNode
    BY <1>3 DEF HandleCopyGep, PhaseInv
  <2>. QED BY <1>3, <2>1, HandleCopyGepPointed
<1>4. CASE EndCollapse
  <2>1. NoNode \notin Object /\ toCollapse \in SUBSET Object
    BY SystemAssumption DEF IInv, SolverTypeOK
  <2>. QED BY <1>4, <2>1 DEF EndCollapse, graph, PointedInv, Pointed
<1>5. CASE WaveMergeNode
  <2>1. \A n \in Node : pts[n] \subseteq pts'[n]
    BY <1>5 DEF WaveMergeNode, MergeNodeToRep, MergePts, IInv, DeliveredInv, GraphTypeOK
  <2>. QED BY <1>5, <2>1, PointedStays DEF WaveMergeNode, control
<1>6. CASE SCCDetect \/ StartWave \/ EndWave \/ UNCHANGED waveVars
  BY <1>6, PointedStays DEF SCCDetect, StartWave, EndWave, waveVars, vars, graph, control
<1>7. CASE WavePop \/ ExtraPop \/ EndExtra
  BY <1>7, PointedStays DEF WavePop, ExtraPop, Pop, EndExtra, graph
<1>8. CASE StartNode("copygep") \/ EndNode
  BY <1>8, PointedStays DEF StartNode, EndNode, graph
<1>9. CASE PostProcessNode
  BY <1>9, PointedStays DEF PostProcessNode, PostPop, HandleLoadStore, EndLoadStore, graph
<1>10. CASE WaveUpdateCallGraph \/ WaveConnect
  BY <1>10, PointedStays DEF WaveUpdateCallGraph, UpdateCallGraph, WaveConnect, ConnectParam,
                             EndConnect, Terminated, vars, graph, control
<1>. QED BY <1>1, <1>2, <1>3, <1>4, <1>5, <1>6, <1>7, <1>8, <1>9, <1>10
         DEF WaveNext, WaveProcessNode, Collapse

LEMMA WaveSccMerges ==
  ASSUME WaveInv, ShapeInv, [WaveNext]_waveVars PROVE SccMergesInv'
<1>. USE DEF WaveInv, ShapeInv, SccMergesInv
<1>1. CASE SCCDetect
  <2>1. PICK root \in RootsOf(SCCs(Reps)) : sccMerges' = MergesInto(root)
    BY <1>1 DEF SCCDetect
  <2>2. \A e \in SCCEdges : e[2] \in Node /\ rep[e[2]] = e[2]
    BY SCCEdgesJoinReps
  <2>3. Reps \in SUBSET Node
    BY DEF Reps
  <2>4. \A e \in sccMerges' : rep[e[2]] = e[2] /\ \A d \in sccMerges' : d[1] # e[2]
    BY <2>1, <2>2, <2>3, MergesIntoRoots
  <2>. QED BY <1>1, <2>4 DEF SCCDetect, vars, graph
<1>2. CASE WaveMergeNode
  <2>1. PICK x \in sccMerges : MergeNodeToRep(x[1], x[2], pts) /\ sccMerges' = sccMerges \ {x}
    BY <1>2 DEF WaveMergeNode
  <2>2. ASSUME NEW e \in sccMerges' PROVE rep'[e[2]] = e[2]
    <3>1. e[2] \in Node /\ rep[e[2]] = e[2] /\ e[2] # x[1]
      BY <2>1 DEF Extra
    <3>. QED BY <2>1, <3>1 DEF MergeNodeToRep, MergePts, Moved
  <2>. QED BY <1>2, <2>1, <2>2 DEF WaveMergeNode
<1>3. CASE StartWave
  BY <1>3 DEF StartWave
<1>4. CASE phase # "merge" /\ sccMerges' = sccMerges
  BY <1>4
<1>5. \/ sccMerges' = sccMerges /\ (phase # "merge" \/ UNCHANGED <<rep, phase>>)
      \/ SCCDetect \/ WaveMergeNode \/ StartWave
  BY DEF WaveNext, WavePop, EndWave, ExtraPop, EndExtra, WaveProcessNode, StartNode, Collapse,
         CollapseObject, CollapseOneField, EndCollapse, HandleCopyGep, EndNode, PostProcessNode,
         PostPop, HandleLoadStore, EndLoadStore, WaveUpdateCallGraph, WaveConnect, ConnectParam,
         EndConnect, Terminated, Idle, PhaseInv, waveVars, vars, graph
<1>. QED BY <1>1, <1>2, <1>3, <1>4, <1>5

-----------------------------------------------------------------------------
LEMMA StartWaveRound ==
  ASSUME WaveInv, ShapeInv, StartWave PROVE RoundInv'
<1>. USE DEF WaveInv, ShapeInv
<1>1. /\ nodeStack' = Reps /\ order' = {e \in SCCEdges : e[1] # e[2]}
      /\ phase = "merge" /\ phase' = "wave" /\ UNCHANGED vars
  BY DEF StartWave
<1>2. UNCHANGED <<prog, rep, edges, pwc, pts, propa, fi, worklist, cur, pc, ptsQ, reanalyze>>
  BY <1>1 DEF vars, graph, control
<1>3. pc \notin {"pwc", "copygep", "done"}
  BY <1>1 DEF PhaseInv
<1>4. WaveSent'
  BY <1>1, <1>2 DEF WaveSent, Reps
<1>5. ASSUME MergePWC PROVE OrderKept' /\ CyclesDealtWith'
  <2>1. \A e \in SCCEdges : e[1] \in Reps /\ e[2] \in Reps
    BY SCCEdgesJoinReps DEF Reps
  <2>2. \A e \in SCCEdges : e[1] # e[2]
    BY <1>5 DEF SCCEdges, ProperEdges
  <2>3. SCCEdges' = SCCEdges
    BY <1>2 DEF SCCEdges, edges, MergePWC
  <2>4. OrderKept'
    BY <1>1, <1>2, <1>3, <2>1, <2>2, <2>3 DEF OrderKept
  <2>5. pwc \subseteq Reps
    BY DEF RepInv, Reps, IInv, DeliveredInv, GraphTypeOK
  <2>. QED BY <1>1, <1>2, <2>4, <2>5 DEF CyclesDealtWith
<1>. QED BY <1>1, <1>2, <1>3, <1>4, <1>5 DEF RoundInv, MergePWC

(* The node popped has no predecessor on the stack. *)
LEMMA WavePopRound ==
  ASSUME WaveInv, ShapeInv, RoundInv, WavePop PROVE RoundInv'
<1>. USE DEF WaveInv, ShapeInv
<1>1. PICK n \in nodeStack :
         /\ ~\E m \in nodeStack : <<m, n>> \in order
         /\ nodeStack' = nodeStack \ {n}
         /\ cur' = n
         /\ ptsQ' = IF MergePWC /\ rep[n] \in pwc THEN pts[rep[n]] ELSE {}
  BY DEF WavePop
<1>2. /\ phase = "wave" /\ pc = "solve" /\ pc' = "pwc"
      /\ UNCHANGED <<prog, rep, edges, pwc, pts, propa, fi>>
      /\ UNCHANGED <<worklist, reanalyze, phase, order>>
  BY DEF WavePop, Idle, graph
<1>3. SUFFICES ASSUME ~reanalyze PROVE RoundInv'
  BY <1>2 DEF RoundInv
<1>4. WaveSent
  BY <1>2, <1>3 DEF RoundInv
<1>5. WaveSent'
  BY <1>1, <1>2, <1>4 DEF WaveSent, Reps, Waiting, MergePWC
<1>6. ASSUME MergePWC PROVE OrderKept' /\ CyclesDealtWith'
  <2>1. OrderKept /\ CyclesDealtWith
    BY <1>2, <1>3, <1>6 DEF RoundInv
  <2>2. SCCEdges' = SCCEdges
    BY <1>2 DEF SCCEdges, edges, MergePWC
  <2>3. ASSUME NEW e \in SCCEdges, e[1] \in nodeStack PROVE e[2] \in nodeStack'
    <3>1. e[2] \in nodeStack /\ e \in order /\ e = <<e[1], e[2]>>
      BY <2>1, <2>3 DEF OrderKept, Extra
    <3>2. e[2] # n
      BY <1>1, <2>3, <3>1
    <3>. QED BY <1>1, <3>1, <3>2
  <2>4. OrderKept'
    BY <1>1, <1>2, <2>1, <2>2, <2>3 DEF OrderKept
  <2>5. n \in pwc => rep[n] = n /\ ptsQ' = pts[n]
    BY <1>1, <1>6 DEF RepInv
  <2>6. CyclesDealtWith'
    BY <1>1, <1>2, <2>1, <2>5 DEF CyclesDealtWith, Insensitised
  <2>. QED BY <2>4, <2>6
<1>. QED BY <1>2, <1>5, <1>6 DEF RoundInv, MergePWC

(* With nobody left to propagate every copy edge has passed on all there is.*)
LEMMA AllSent ==
  ASSUME IInv, RepInv, AllPropagated
  PROVE  \A e \in copyE : Covers(fi, pts[e[2]], pts[e[1]])
<1>. TAKE e \in copyE
<1>1. pts[e[1]] \subseteq propa[e[1]]
  BY DEF IInv, DeliveredInv, GraphTypeOK, RepInv, RepEnds, AllPropagated
<1>2. Covers(fi, pts[e[2]], propa[e[1]])
  BY DEF IInv, DeliveredInv, PropagatedDelivered
<1>. QED BY <1>1, <1>2, CoversSubset, CoversTransitive

LEMMA EndWaveRound ==
  ASSUME WaveInv, ShapeInv, RoundInv, EndWave PROVE RoundInv'
<1>1. /\ phase = "wave" /\ pc = "solve" /\ nodeStack = {}
      /\ phase' = IF MergePWC THEN "post" ELSE "extra"
      /\ UNCHANGED <<prog, rep, edges, pwc, pts, propa, fi>>
      /\ UNCHANGED <<worklist, cur, pc, ptsQ, reanalyze, nodeStack>>
  BY DEF EndWave, Idle, vars, graph, control
<1>2. SUFFICES ASSUME ~reanalyze PROVE RoundInv'
  BY <1>1 DEF RoundInv
<1>3. WaveSent
  BY <1>1, <1>2 DEF RoundInv
<1>4. CASE MergePWC
  <2>1. CyclesDealtWith
    BY <1>1, <1>2, <1>4 DEF RoundInv
  <2>2. AllPropagated
    BY <1>1, <1>3, <1>4 DEF WaveSent, Reps, AllPropagated
  <2>3. RoundOver
    BY <1>1, <2>1, <2>2 DEF RoundOver, CyclesDealtWith
  <2>4. RoundOver'
    BY <1>1, <2>3 DEF RoundOver, AllPropagated, Insensitised, MergePWC
  <2>. QED BY <1>1, <1>4, <2>4 DEF RoundInv
<1>5. CASE ~MergePWC
  <2>1. WaveSent'
    BY <1>1, <1>3 DEF WaveSent, Reps, Waiting, MergePWC
  <2>. QED BY <1>1, <1>5, <2>1 DEF RoundInv
<1>. QED BY <1>4, <1>5

LEMMA ExtraPopRound ==
  ASSUME WaveInv, ShapeInv, RoundInv, ExtraPop PROVE RoundInv'
<1>1. /\ phase = "extra" /\ pc = "solve" /\ pc' = "pwc" /\ phase' = phase
      /\ UNCHANGED <<prog, rep, edges, pwc, pts, propa, fi>>
      /\ UNCHANGED <<reanalyze, nodeStack>>
  BY DEF ExtraPop, Pop, Idle, graph
<1>2. PICK d \in worklist : worklist' = worklist \ {d} /\ cur' = rep[d]
  BY DEF ExtraPop, Pop
<1>3. \A n : n \in Waiting => n \in Waiting' \/ n = cur'
  BY <1>1, <1>2 DEF Waiting
<1>4. WaveSent => WaveSent'
  BY <1>1, <1>3 DEF WaveSent, Reps, MergePWC
<1>. QED BY <1>1, <1>4 DEF RoundInv

LEMMA EndExtraRound ==
  ASSUME WaveInv, ShapeInv, RoundInv, EndExtra PROVE RoundInv'
<1>1. /\ phase = "extra" /\ pc = "solve" /\ phase' = "post" /\ worklist = {}
      /\ UNCHANGED <<prog, rep, edges, pwc, pts, propa, fi>>
      /\ UNCHANGED <<pc, reanalyze>>
  BY DEF EndExtra, Idle, graph
<1>2. ~MergePWC /\ nodeStack = {}
  BY <1>1 DEF ShapeInv, PhaseInv
<1>3. ASSUME ~reanalyze PROVE RoundOver'
  <2>1. WaveSent /\ Waiting = {}
    BY <1>1, <1>3 DEF RoundInv, Waiting
  <2>2. AllPropagated
    BY <1>1, <1>2, <2>1 DEF WaveSent, Reps, AllPropagated
  <2>. QED BY <1>1, <1>2, <2>2 DEF RoundOver, AllPropagated, MergePWC
<1>. QED BY <1>1, <1>3 DEF RoundInv

(* The steps of a node that leave points-to sets alone: what still has to  *)
(* propagate, or to be collapsed, is in hand.                              *)
HandKept ==
  /\ UNCHANGED <<prog, rep, edges, pwc, pts, propa>> /\ fi \subseteq fi'
  /\ UNCHANGED <<worklist, reanalyze, phase, nodeStack, order>>
  /\ pc' # "done"
  /\ pc' \in {"pwc", "copygep"} => cur' = cur /\ pc \in {"pwc", "copygep"}
  /\ rep[cur] = cur /\ pc \in {"pwc", "copygep"} => pc' \in {"pwc", "copygep"} /\ cur' = cur

LEMMA HandKeptRound ==
  ASSUME WaveInv, ShapeInv, RoundInv, HandKept, phase \in {"wave", "extra"},
         pc = "pwc" => \A o \in Object : Insensitised(o, ptsQ) =>
            Insensitised(o, {})' \/ (pc' = "pwc" /\ Insensitised(o, ptsQ)')
  PROVE  RoundInv'
<1>. USE DEF WaveInv, ShapeInv, HandKept
<1>1. SUFFICES ASSUME ~reanalyze PROVE RoundInv'
  BY DEF RoundInv
<1>2. WaveSent'
  <2>1. WaveSent
    BY <1>1 DEF RoundInv
  <2>. QED BY <2>1 DEF WaveSent, Reps, Waiting, MergePWC
<1>3. ASSUME MergePWC, phase = "wave" PROVE OrderKept' /\ CyclesDealtWith'
  <2>1. OrderKept /\ CyclesDealtWith
    BY <1>1, <1>3 DEF RoundInv
  <2>2. SCCEdges' = SCCEdges
    BY DEF SCCEdges, edges, MergePWC
  <2>3. OrderKept'
    BY <2>1, <2>2 DEF OrderKept
  <2>4. ASSUME NEW n \in pwc, n \notin nodeStack,
               ~(\A o \in pts[n] : Insensitised(o, {})')
        PROVE  cur' = n /\ pc' = "pwc" /\ \A o \in pts[n] : Insensitised(o, ptsQ)'
    <3>1. pts[n] \subseteq Object /\ n \in Node /\ rep[n] = n
      BY <2>4 DEF IInv, DeliveredInv, GraphTypeOK, RepInv
    <3>2. \A o : Insensitised(o, {}) => Insensitised(o, {})'
      BY DEF Insensitised
    <3>3. cur = n /\ pc = "pwc" /\ \A o \in pts[n] : Insensitised(o, ptsQ)
      BY <2>1, <2>4, <3>2 DEF CyclesDealtWith
    <3>4. \A o \in pts[n] : Insensitised(o, ptsQ)' \/ Insensitised(o, {})'
      BY <3>1, <3>3
    <3>5. pc' = "pwc"
      BY <2>4, <3>1, <3>3
    <3>. QED BY <3>1, <3>3, <3>4, <3>5 DEF Insensitised
  <2>5. CyclesDealtWith'
    BY <2>4 DEF CyclesDealtWith
  <2>. QED BY <2>3, <2>5
<1>. QED BY <1>1, <1>2, <1>3 DEF RoundInv, MergePWC

LEMMA ProcessQuietRound ==
  ASSUME WaveInv, ShapeInv, RoundInv,
         StartNode("copygep") \/ CollapseObject \/ EndCollapse \/ EndNode,
         UNCHANGED <<phase, nodeStack, order>>
  PROVE  RoundInv'
<1>1. pc \in {"pwc", "fields"}
  BY DEF StartNode, CollapseObject, EndCollapse, EndNode, ShapeInv, PhaseInv
<1>2. phase \in {"wave", "extra"}
  BY <1>1 DEF ShapeInv, PhaseInv
<1>3. CASE StartNode("copygep")
  <2>1. StillToCollapse(ptsQ) = {}
    BY <1>3 DEF StartNode, CollapseIdle
  <2>2. \A o \in Object : Insensitised(o, ptsQ) => Insensitised(o, {})'
    BY <1>3, <2>1 DEF Insensitised, StillToCollapse, StartNode, graph
  <2>3. HandKept
    BY <1>3 DEF HandKept, StartNode, graph
  <2>. QED BY <1>2, <2>2, <2>3, HandKeptRound
<1>4. CASE CollapseObject
  <2>1. PICK o \in NextToCollapse : StartCollapse(o) /\ ptsQ' = ptsQ \ {o}
    BY <1>4 DEF CollapseObject
  <2>2. \A x \in Object : Insensitised(x, ptsQ) => Insensitised(x, ptsQ)'
    BY <2>1 DEF Insensitised, StartCollapse
  <2>3. HandKept
    BY <1>1, <2>1 DEF HandKept, StartCollapse
  <2>4. pc' = pc
    BY <2>1 DEF StartCollapse
  <2>. QED BY <1>2, <2>2, <2>3, <2>4, HandKeptRound
<1>5. CASE EndCollapse
  <2>1. ptsQ \subseteq ptsQ'
    BY <1>5 DEF EndCollapse
  <2>2. \A x \in Object : Insensitised(x, ptsQ) => Insensitised(x, ptsQ)'
    BY <1>5, <2>1 DEF Insensitised, EndCollapse, graph
  <2>3. HandKept /\ pc' = pc
    BY <1>1, <1>5 DEF HandKept, EndCollapse, graph
  <2>. QED BY <1>2, <2>2, <2>3, HandKeptRound
<1>6. CASE EndNode
  <2>1. StillToCollapse(ptsQ) = {}
    BY <1>6 DEF EndNode, CollapseIdle
  <2>2. \A o \in Object : Insensitised(o, ptsQ) => Insensitised(o, {})'
    BY <1>6, <2>1 DEF Insensitised, StillToCollapse, EndNode, graph
  <2>3. HandKept
    BY <1>6 DEF HandKept, EndNode, graph
  <2>. QED BY <1>2, <2>2, <2>3, HandKeptRound
<1>. QED BY <1>3, <1>4, <1>5, <1>6

(* Who receives something is a successor of the node in hand, hence still  *)
(* on the stack, or in the extra phase is pushed.                          *)
LEMMA HandleCopyGepRound ==
  ASSUME WaveInv, ShapeInv, RoundInv, HandleCopyGep, UNCHANGED <<phase, nodeStack, order>>
  PROVE  RoundInv'
<1>. USE DEF WaveInv, ShapeInv
<1>1. PICK Early : Propagate(Early)
  BY DEF HandleCopyGep
<1>2. /\ \A d \in Node : pts'[d] = pts[d] \cup Received(cur, d, Early)
      /\ fi \subseteq fi'
      /\ worklist' = worklist \cup {d \in Node : ~(Received(cur, d, Early) \subseteq pts[d])}
      /\ propa' = [propa EXCEPT ![cur] = pts[cur]]
  BY <1>1 DEF Propagate
<1>3. /\ pc = "copygep" /\ pc' = "fields"
      /\ UNCHANGED <<prog, rep, edges, pwc, cur, ptsQ, reanalyze>>
  BY DEF HandleCopyGep
<1>4. phase \in {"wave", "extra"} /\ (phase = "extra" => ~MergePWC)
  BY <1>3 DEF PhaseInv
<1>5. SUFFICES ASSUME ~reanalyze PROVE RoundInv'
  BY <1>3, <1>4 DEF RoundInv
<1>6. ASSUME NEW d \in Node, pts'[d] # pts[d]
      PROVE  /\ d \in Waiting'
             /\ MergePWC => \E e \in SCCEdges : e[1] = cur /\ e[2] = d
  <2>1. PICK o \in Received(cur, d, Early) : o \notin pts[d]
    BY <1>2, <1>6
  <2>2. \/ <<cur, d>> \in copyE \cup vgepE
        \/ \E e \in ngepE : e[1] = cur /\ e[2] = d
    BY <2>1, ReceivedFrom
  <2>3. rep[d] = d
    <3>1. CASE <<cur, d>> \in copyE \cup vgepE
      BY <3>1 DEF RepInv, RepEnds
    <3>2. CASE \E e \in ngepE : e[1] = cur /\ e[2] = d
      BY <3>2 DEF RepInv, RepEnds
    <3>. QED BY <2>2, <3>1, <3>2
  <2>4. d \in Waiting'
    BY <1>2, <1>3, <2>1, <2>3 DEF Waiting
  <2>5. ASSUME MergePWC PROVE <<cur, d>> \in SCCEdges
    BY <2>2, <2>5 DEF SCCEdges
  <2>. QED BY <2>4, <2>5
<1>7. ASSUME MergePWC, NEW d \in Node, pts'[d] # pts[d] PROVE d \in nodeStack /\ d # cur
  <2>1. PICK e \in SCCEdges : e[1] = cur /\ e[2] = d
    BY <1>6, <1>7
  <2>2. OrderKept
    BY <1>4, <1>5, <1>7 DEF RoundInv
  <2>3. d \in nodeStack
    BY <1>3, <2>1, <2>2 DEF OrderKept
  <2>4. d # cur
    BY <1>7, <2>1 DEF SCCEdges, ProperEdges
  <2>. QED BY <2>3, <2>4
<1>8. WaveSent'
  <2>1. WaveSent
    BY <1>4, <1>5 DEF RoundInv
  <2>2. ASSUME NEW n \in Reps, pts'[n] = pts[n]
        PROVE  \/ pts'[n] \subseteq propa'[n]
               \/ n \in nodeStack
               \/ ~MergePWC /\ n \in Waiting'
    <3>1. n \in Node /\ propa \in [Node -> SUBSET Object]
      BY DEF Reps, IInv, DeliveredInv, GraphTypeOK
    <3>2. n \in Waiting => n \in Waiting'
      BY <1>2, <1>3 DEF Waiting
    <3>. QED BY <1>2, <2>1, <2>2, <3>1, <3>2 DEF WaveSent
  <2>3. ASSUME NEW n \in Reps, pts'[n] # pts[n]
        PROVE  n \in nodeStack \/ (~MergePWC /\ n \in Waiting')
    BY <1>6, <1>7, <2>3 DEF Reps
  <2>4. Reps' = Reps /\ MergePWC' = MergePWC
    BY <1>3 DEF Reps, MergePWC
  <2>. QED BY <2>2, <2>3, <2>4 DEF WaveSent
<1>9. ASSUME MergePWC, phase = "wave" PROVE OrderKept' /\ CyclesDealtWith'
  <2>1. OrderKept /\ CyclesDealtWith
    BY <1>5, <1>9 DEF RoundInv
  <2>2. SCCEdges' = SCCEdges
    BY <1>3 DEF SCCEdges, edges, MergePWC
  <2>3. OrderKept'
    BY <1>3, <2>1, <2>2 DEF OrderKept
  <2>4. ASSUME NEW n \in pwc, n \notin nodeStack PROVE \A o \in pts'[n] : Insensitised(o, {})'
    <3>1. n \in Node
      BY DEF IInv, DeliveredInv, GraphTypeOK
    <3>2. pts'[n] = pts[n]
      BY <1>7, <1>9, <2>4, <3>1
    <3>. QED BY <1>2, <1>3, <2>1, <2>4, <3>2 DEF CyclesDealtWith, Insensitised
  <2>5. CyclesDealtWith'
    BY <1>3, <2>4 DEF CyclesDealtWith
  <2>. QED BY <2>3, <2>5
<1>. QED BY <1>3, <1>4, <1>8, <1>9 DEF RoundInv, MergePWC

LEMMA StutterRound ==
  ASSUME RoundInv, UNCHANGED <<vars, phase, nodeStack, order>> PROVE RoundInv'
BY DEF RoundInv, WaveSent, OrderKept, CyclesDealtWith, RoundOver, AllPropagated, Insensitised, Reps,
       Waiting, SCCEdges, MergePWC, vars, graph, edges, control

LEMMA WaveRound ==
  ASSUME WaveInv, ShapeInv, RoundInv, [WaveNext]_waveVars PROVE RoundInv'
<1>. USE DEF ShapeInv
<1>1. CASE SCCDetect
  BY <1>1 DEF SCCDetect, Idle, vars, control, RoundInv
<1>2. CASE WaveMergeNode
  BY <1>2 DEF WaveMergeNode, control, PhaseInv, RoundInv
<1>3. CASE StartWave
  BY <1>3, StartWaveRound
<1>4. CASE WavePop \/ EndWave \/ ExtraPop \/ EndExtra
  BY <1>4, WavePopRound, EndWaveRound, ExtraPopRound, EndExtraRound
<1>5. CASE WaveProcessNode
  <2>1. UNCHANGED <<phase, nodeStack, order>>
    BY <1>5 DEF WaveProcessNode
  <2>2. CASE CollapseOneField(FALSE)
    <3>1. reanalyze'
      BY <2>2, CollapseOneFieldPointed DEF WaveInv
    <3>2. pc' \in {"pwc", "fields"}
      BY <2>2 DEF CollapseOneField, PhaseInv
    <3>. QED BY <3>1, <3>2 DEF RoundInv
  <2>. QED BY <1>5, <2>1, <2>2, ProcessQuietRound, HandleCopyGepRound
           DEF WaveProcessNode, Collapse
<1>6. CASE PostProcessNode
  <2>1. CASE HandleLoadStore
    BY <2>1 DEF HandleLoadStore, RoundInv
  <2>2. CASE PostPop \/ EndLoadStore("solve")
    <3>1. UNCHANGED <<prog, rep, pts, propa, fi, pwc, reanalyze, phase>> /\ pc' # "done"
      BY <1>6, <2>2 DEF PostProcessNode, PostPop, EndLoadStore, graph
    <3>2. phase = "post"
      BY <2>2 DEF PostPop, EndLoadStore, Idle, PhaseInv
    <3>. QED BY <3>1, <3>2 DEF RoundInv, RoundOver, AllPropagated, Insensitised, MergePWC
  <2>. QED BY <1>6, <2>1, <2>2 DEF PostProcessNode
<1>7. CASE WaveUpdateCallGraph
  <2>1. UNCHANGED <<prog, rep, pts, propa, fi, pwc>> /\ phase = "post" /\ phase' = "detect"
    BY <1>7 DEF WaveUpdateCallGraph, UpdateCallGraph, graph
  <2>2. pc' = "done" => ~reanalyze
    BY <1>7 DEF WaveUpdateCallGraph, UpdateCallGraph, NextRound
  <2>. QED BY <2>1, <2>2 DEF RoundInv, RoundOver, AllPropagated, Insensitised, MergePWC
<1>8. CASE WaveConnect
  <2>1. CASE ConnectParam \/ EndConnect
    BY <1>8, <2>1 DEF WaveConnect, ConnectParam, EndConnect, PhaseInv, RoundInv
  <2>2. CASE Terminated
    BY <1>8, <2>2, StutterRound DEF WaveConnect, Terminated
  <2>. QED BY <1>8, <2>1, <2>2 DEF WaveConnect
<1>9. CASE UNCHANGED waveVars
  BY <1>9, StutterRound DEF waveVars
<1>. QED BY <1>1, <1>2, <1>3, <1>4, <1>5, <1>6, <1>7, <1>8, <1>9 DEF WaveNext

-----------------------------------------------------------------------------
LEMMA WaveInsensitive ==
  ASSUME [WaveNext]_waveVars PROVE fi \subseteq fi'
<1>1. HandleCopyGep => fi \subseteq fi'
  BY DEF HandleCopyGep, Propagate
<1>. QED BY <1>1
         DEF WaveNext, SCCDetect, WaveMergeNode, StartWave, WavePop, EndWave, ExtraPop, Pop,
             EndExtra, WaveProcessNode, StartNode, Collapse, CollapseObject, StartCollapse,
             CollapseOneField, EndCollapse, EndNode, PostProcessNode, PostPop, HandleLoadStore,
             EndLoadStore, WaveUpdateCallGraph, UpdateCallGraph, WaveConnect, ConnectParam,
             EndConnect, Terminated, waveVars, vars, graph

(* Calls that are resolved are queued, and leave the queue when connected. *)
CallsDealtWith ==
  /\ \A c \in prog.icall : <<c[1], c[2]>> \in callgraph' =>
        <<c[1], c[2]>> \in callgraph \/ <<rep[c[3]], rep[c[4]]>> \in connectQ'
  /\ \A e \in connectQ : e \in connectQ' \/ Joined(e[1], e[2])'

LEMMA WaveCalls ==
  ASSUME WaveInv, ShapeInv, [WaveNext]_waveVars PROVE CallsDealtWith
<1>1. CASE WaveUpdateCallGraph
  <2>1. /\ connectQ = {}
        /\ callgraph' = callgraph \cup {<<c[1], c[2]>> : c \in NewTargets}
        /\ connectQ' = {<<rep[c[3]], rep[c[4]]>> : c \in NewTargets}
    BY <1>1 DEF WaveUpdateCallGraph, UpdateCallGraph, ShapeInv, PhaseInv
  <2>2. ASSUME NEW c \in prog.icall, <<c[1], c[2]>> \in callgraph' \ callgraph
        PROVE  <<rep[c[3]], rep[c[4]]>> \in connectQ'
    <3>1. PICK d \in NewTargets : <<c[1], c[2]>> = <<d[1], d[2]>>
      BY <2>1, <2>2
    <3>2. c \in NewTargets
      BY <3>1 DEF NewTargets
    <3>. QED BY <2>1, <3>2
  <2>. QED BY <2>1, <2>2 DEF CallsDealtWith
<1>2. CASE ConnectParam
  <2>1. PICK e \in connectQ :
           /\ connectQ' = connectQ \ {e}
           /\ AddCopyEdge(e[1], e[2]) \/ (~NewCopy(e[1], e[2]) /\ UNCHANGED copyE)
    BY <1>2 DEF ConnectParam
  <2>2. Joined(e[1], e[2])'
    BY <2>1 DEF Joined, AddCopyEdge, NewCopy
  <2>3. callgraph' = callgraph
    BY <1>2 DEF ConnectParam
  <2>. QED BY <2>1, <2>2, <2>3 DEF CallsDealtWith
<1>3. CASE UNCHANGED <<callgraph, connectQ>>
  BY <1>3 DEF CallsDealtWith
<1>4. WaveUpdateCallGraph \/ ConnectParam \/ UNCHANGED <<callgraph, connectQ>>
  BY DEF WaveNext, SCCDetect, WaveMergeNode, StartWave, WavePop, EndWave, ExtraPop, Pop,
         EndExtra, WaveProcessNode, StartNode, Collapse, CollapseObject, StartCollapse,
         CollapseOneField, EndCollapse, HandleCopyGep, EndNode, PostProcessNode, PostPop,
         HandleLoadStore, EndLoadStore, WaveConnect, EndConnect, Terminated, waveVars, vars,
         control
<1>. QED BY <1>1, <1>2, <1>3, <1>4

LEMMA WaveProgram ==
  ASSUME WaveInv, ProgramInv, [WaveNext]_waveVars, WaveKept, prog' = prog,
         CallsDealtWith, EdgesKept \/ RepMerged \/ CopyAdded
  PROVE  ProgramInv'
<1>. USE DEF WaveInv, WaveKept
<1>1. CASE RepMerged
  BY <1>1, MergeKeepsProgram DEF RepMerged
<1>2. CASE EdgesKept \/ CopyAdded
  <2>1. UNCHANGED <<rep, loadE, storeE, vgepE, pwc>> /\ copyE \subseteq copyE'
    BY <1>2 DEF EdgesKept, CopyAdded, AddCopyEdge, edges
  <2>2. prog \in Program
    BY SystemAssumption DEF IInv, DeliveredInv, GraphTypeOK
  <2>3. ASSUME NEW e \in prog.addr PROVE Covers(fi', pts'[rep'[e[2]]], {e[1]})
    <3>1. e[1] \in Object /\ e[2] \in Node /\ rep[e[2]] \in Node
      BY <2>2 DEF Program, IInv, DeliveredInv, GraphTypeOK
    <3>2. pts[rep[e[2]]] \in SUBSET Object /\ Covers(fi, pts[rep[e[2]]], {e[1]})
      BY <3>1 DEF IInv, DeliveredInv, GraphTypeOK, ProgramInv
    <3>3. Covers(fi', pts[rep[e[2]]], {e[1]})
      BY <3>1, <3>2, WaveInsensitive, CoversMoreInsensitive
    <3>4. Covers(fi', pts'[rep'[e[2]]], pts[rep[e[2]]])
      BY <3>1 DEF Grows, Solution
    <3>. QED BY <3>3, <3>4, CoversTransitive
  <2>4. \A x, y : Linked(x, y) => Linked(x, y)'
    BY <2>1 DEF Linked, Joined
  <2>5. ASSUME NEW c \in prog.icall, <<c[1], c[2]>> \in callgraph'
        PROVE  Linked(c[3], c[4])' \/ <<rep[c[3]], rep[c[4]]>> \in connectQ'
    <3>1. PICK d : d = <<rep[c[3]], rep[c[4]]>>
      OBVIOUS
    <3>2. Linked(c[3], c[4]) \/ d \in connectQ \/ d \in connectQ'
      BY <2>5, <3>1 DEF ProgramInv, CallsDealtWith
    <3>3. d \in connectQ => d \in connectQ' \/ Joined(d[1], d[2])'
      BY DEF CallsDealtWith
    <3>. QED BY <2>1, <2>4, <3>1, <3>2, <3>3 DEF Linked
  <2>6. \A e \in prog.copy : Linked(e[1], e[2])'
    BY <2>4 DEF ProgramInv
  <2>. QED BY <2>1, <2>3, <2>5, <2>6 DEF ProgramInv
<1>. QED BY <1>1, <1>2

LEMMA WaveArray ==
  ASSUME WaveInv, ArrayInv, [WaveNext]_waveVars, EdgesKept \/ RepMerged \/ CopyAdded
  PROVE  ArrayInv'
<1>. USE DEF WaveInv
<1>1. CASE HandleCopyGep
  BY <1>1, HandleCopyGepArray
<1>2. CASE RepMerged
  BY <1>2, MergeArray DEF RepMerged
<1>3. CASE (EdgesKept /\ UNCHANGED propa) \/ CopyAdded
  <2>1. vgepE' = vgepE /\ \A n \in Node : propa'[n] \subseteq propa[n]
    BY <1>3 DEF EdgesKept, CopyAdded, AddCopyEdge, edges, IInv, DeliveredInv, GraphTypeOK
  <2>2. \A e \in vgepE : e[1] \in Node
    BY DEF IInv, DeliveredInv, GraphTypeOK
  <2>. QED BY <2>1, <2>2, WaveInsensitive DEF ArrayInv
<1>. QED BY <1>1, <1>2, <1>3 DEF EdgesKept

LEMMA WaveGeps ==
  ASSUME WaveInv, GepInv, prog' = prog, EdgesKept \/ RepMerged \/ CopyAdded
  PROVE  GepInv'
<1>1. CASE RepMerged
  BY <1>1, MergeGeps DEF RepMerged, GepsMerged, WaveInv
<1>. QED BY <1>1, SameGeps DEF EdgesKept, CopyAdded, edges

LEMMA WaveFields ==
  ASSUME WaveInv, ShapeInv, FieldInv, [WaveNext]_waveVars PROVE FieldInv'
<1>. USE DEF WaveInv
<1>1. CASE CollapseObject
  BY <1>1, CollapseObjectFields DEF ShapeInv, PointedInv
<1>2. CASE CollapseOneField(FALSE)
  BY <1>2, CollapseOneFieldFields
<1>3. CASE HandleCopyGep
  BY <1>3, HandleCopyGepFields
<1>4. CASE WaveMergeNode
  <2>1. PICK e \in sccMerges : MergeNodeToRep(e[1], e[2], pts)
    BY <1>4 DEF WaveMergeNode
  <2>2. e[1] \in Node /\ e[2] \in Node
    BY DEF Extra
  <2>3. UNCHANGED <<fi, fields, fieldQ, collapsing, toCollapse>>
    BY <1>4 DEF WaveMergeNode, control
  <2>. QED BY <2>1, <2>2, <2>3, MergeFields
<1>5. CASE EndCollapse
  BY <1>5 DEF EndCollapse, graph, FieldInv
<1>6. CASE UNCHANGED <<rep, pts, fi, fields, fieldQ, collapsing, toCollapse>>
  BY <1>6 DEF FieldInv
<1>7. \/ CollapseObject \/ CollapseOneField(FALSE) \/ HandleCopyGep \/ WaveMergeNode
      \/ EndCollapse \/ UNCHANGED <<rep, pts, fi, fields, fieldQ, collapsing, toCollapse>>
  BY DEF WaveNext, SCCDetect, StartWave, WavePop, EndWave, ExtraPop, Pop, EndExtra,
         WaveProcessNode, StartNode, Collapse, EndNode, PostProcessNode, PostPop,
         HandleLoadStore, EndLoadStore, WaveUpdateCallGraph, UpdateCallGraph, WaveConnect,
         ConnectParam, EndConnect, Terminated, waveVars, vars, control, graph
<1>. QED BY <1>1, <1>2, <1>3, <1>4, <1>5, <1>6, <1>7

(* Only updateCallGraph stops the solver, and not while a call has a target*)
(* that it does not know.                                                  *)
LEMMA WaveStops ==
  ASSUME WaveInv, ShapeInv, StatementsInv, [WaveNext]_waveVars
  PROVE  /\ toCollapse' # {} => pc' = "fields"
         /\ pc' = "done" => NewTargets' = {}
<1>. USE DEF ShapeInv, PhaseInv, StatementsInv
<1>1. CASE SCCDetect \/ StartWave \/ EndWave \/ UNCHANGED waveVars
  BY <1>1 DEF SCCDetect, StartWave, EndWave, waveVars, vars, graph, control, NewTargets
<1>2. CASE WaveMergeNode \/ WavePop \/ ExtraPop \/ EndExtra
  BY <1>2 DEF WaveMergeNode, WavePop, ExtraPop, EndExtra, Idle, Pop, control
<1>3. CASE WaveProcessNode
  <2>1. CASE CollapseObject
    <3>1. PICK o : StartCollapse(o) /\ toCollapse' \subseteq toCollapse
      BY <2>1 DEF CollapseObject
    <3>2. pc' = pc /\ pc # "done"
      BY <2>1, <3>1 DEF CollapseObject, StartCollapse
    <3>. QED BY <3>1, <3>2
  <2>2. CASE StartNode("copygep") \/ CollapseOneField(FALSE) \/ EndCollapse
    BY <2>2 DEF StartNode, CollapseOneField, EndCollapse
  <2>3. CASE HandleCopyGep \/ EndNode
    BY <2>3 DEF HandleCopyGep, EndNode
  <2>. QED BY <1>3, <2>1, <2>2, <2>3 DEF WaveProcessNode, Collapse
<1>4. CASE PostProcessNode
  BY <1>4 DEF PostProcessNode, PostPop, Idle, HandleLoadStore, EndLoadStore
<1>5. CASE WaveUpdateCallGraph
  <2>1. pc = "solve" /\ NextRound /\ UNCHANGED toCollapse /\ UNCHANGED graph
        /\ callgraph' = callgraph \cup {<<c[1], c[2]>> : c \in NewTargets}
    BY <1>5 DEF WaveUpdateCallGraph, UpdateCallGraph
  <2>2. pc' = "done" => NewTargets = {}
    BY <2>1 DEF NextRound
  <2>3. NewTargets = {} => NewTargets' = {}
    BY <2>1 DEF NewTargets, graph
  <2>. QED BY <2>1, <2>2, <2>3
<1>6. CASE WaveConnect
  <2>1. CASE ConnectParam \/ EndConnect
    BY <2>1 DEF ConnectParam, EndConnect
  <2>2. CASE Terminated
    BY <2>2 DEF Terminated, vars, graph, control, NewTargets
  <2>. QED BY <1>6, <2>1, <2>2 DEF WaveConnect
<1>. QED BY <1>1, <1>2, <1>3, <1>4, <1>5, <1>6 DEF WaveNext

LEMMA WaveStatements ==
  ASSUME WaveInv, ShapeInv, StatementsInv, [WaveNext]_waveVars PROVE StatementsInv'
<1>1. prog' = prog /\ (EdgesKept \/ RepMerged \/ CopyAdded)
  BY WaveChanges
<1>2. WaveKept
  BY WaveNextKeeps
<1>3. ProgramInv' /\ GepInv' /\ ArrayInv' /\ FieldInv'
  BY <1>1, <1>2, WaveCalls, WaveProgram, WaveGeps, WaveArray, WaveFields DEF StatementsInv
<1>. QED BY <1>3, WaveStops DEF StatementsInv

LEMMA WaveNextComplete ==
  ASSUME WaveInv, WaveCompleteInv, [WaveNext]_waveVars PROVE WaveCompleteInv' /\ prog' = prog
<1>. USE DEF WaveCompleteInv
<1>1. prog' = prog /\ (EdgesKept \/ RepMerged \/ CopyAdded)
  BY WaveChanges
<1>2. RepInv' /\ ProperEdges'
  BY <1>1, WaveRep, WaveProper DEF ShapeInv
<1>3. PhaseInv'
  BY WavePhases DEF ShapeInv
<1>4. PointedInv' /\ SccMergesInv'
  BY WavePointed, WaveSccMerges
<1>5. RoundInv' /\ StatementsInv'
  BY WaveRound, WaveStatements
<1>. QED BY <1>1, <1>2, <1>3, <1>4, <1>5 DEF ShapeInv

LEMMA WaveInitComplete ==
  ASSUME WaveInit, WaveInv, Plain(prog) PROVE WaveCompleteInv
<1>1. PICK P \in Programs : BuildCG(P)
  BY DEF WaveInit, Init
<1>2. /\ prog = P /\ rep = [n \in Node |-> n] /\ copyE = {e \in P.copy : e[1] # e[2]}
      /\ ngepE = P.ngep /\ vgepE = P.vgep /\ pwc = {}
      /\ fields = {f \in Mentioned(P) : BaseOf[f] # f}
  BY <1>1 DEF BuildCG
<1>3. /\ pc = "solve" /\ toCollapse = {} /\ collapsing = NoNode /\ connectQ = {}
      /\ phase = "detect" /\ nodeStack = {} /\ sccMerges = {}
  BY DEF WaveInit, Init
<1>4. RepInv
  BY <1>2, <1>3 DEF RepInv, RepEnds, WaveInv, IInv, DeliveredInv, GraphTypeOK
<1>5. ProperEdges
  <2>1. ASSUME MergePWC, NEW e \in P.ngep PROVE e[1] # e[2]
    BY <1>2, <2>1 DEF Plain, MergePWC
  <2>2. ASSUME MergePWC, NEW e \in P.vgep PROVE e[1] # e[2]
    BY <1>2, <2>2 DEF Plain, MergePWC
  <2>. QED BY <1>2, <2>1, <2>2 DEF ProperEdges
<1>6. PointedInv
  <2>1. fields = {}
    BY <1>2 DEF Plain
  <2>. QED BY <1>3, <2>1 DEF PointedInv
<1>7. PhaseInv /\ SccMergesInv
  BY <1>3 DEF PhaseInv, SccMergesInv
<1>8. RoundInv
  BY <1>3 DEF RoundInv
<1>9. StatementsInv
  BY <1>3, InitComplete, InitGeps DEF WaveInit, WaveInv, CompleteInv, StatementsInv
<1>. QED BY <1>4, <1>5, <1>6, <1>7, <1>8, <1>9 DEF WaveCompleteInv, ShapeInv

LEMMA WaveProgUnchanged ==
  ASSUME [WaveNext]_waveVars PROVE prog' = prog
BY DEF WaveNext, SCCDetect, WaveMergeNode, StartWave, WavePop, EndWave, ExtraPop, Pop, EndExtra,
       WaveProcessNode, StartNode, Collapse, CollapseObject, StartCollapse, CollapseOneField,
       EndCollapse, HandleCopyGep, EndNode, PostProcessNode, PostPop, HandleLoadStore,
       EndLoadStore, WaveUpdateCallGraph, UpdateCallGraph, WaveConnect, ConnectParam, EndConnect,
       Terminated, waveVars, vars, graph

THEOREM WaveCompleteness == WaveSpec => [](Plain(prog) => WaveCompleteInv)
<1>. DEFINE Inv == WaveInv /\ (Plain(prog) => WaveCompleteInv)
<1>1. WaveInit => Inv
  BY InitIInv, WaveInitComplete DEF WaveInit, WaveInv, Extra, Phases
<1>2. ASSUME Inv, [WaveNext]_waveVars PROVE Inv'
  <2>1. WaveInv'
    BY <1>2, WaveNextKeeps DEF WaveKept
  <2>2. prog' = prog
    BY <1>2, WaveProgUnchanged
  <2>3. CASE Plain(prog)
    BY <1>2, <2>1, <2>3, WaveNextComplete
  <2>4. CASE ~Plain(prog)
    BY <2>1, <2>2, <2>4
  <2>. QED BY <2>3, <2>4
<1>3. Inv => (Plain(prog) => WaveCompleteInv)
  OBVIOUS
<1>4. Inv /\ [WaveNext]_waveVars => Inv'
  BY <1>2
<1>. HIDE DEF Inv
<1>. QED BY <1>1, <1>3, <1>4, PTL DEF WaveSpec

LEMMA WavePropagated ==
  ASSUME WaveCompleteInv, pc = "done" PROVE NothingPending /\ AllPropagated /\ CyclesCollapsed
BY DEF WaveCompleteInv, ShapeInv, PhaseInv, RoundInv, RoundOver, Insensitised, StatementsInv,
       NothingPending, CyclesCollapsed

(* When wave propagation stops, every copy edge of the final graph is      *)
(* satisfied, those that loads, stores and calls have added included.      *)
THEOREM WaveCopiesSolved == WaveSpec => [](Plain(prog) => CopyEdgesSolvedWhenDone)
<1>1. WaveInv /\ (Plain(prog) => WaveCompleteInv)
        => (Plain(prog) => CopyEdgesSolvedWhenDone)
  BY WavePropagated, AllSent
     DEF WaveInv, WaveCompleteInv, ShapeInv, CopyEdgesSolvedWhenDone
<1>. QED BY <1>1, WaveInvariance, WaveCompleteness, PTL

(* ... and with -merge-pwc everything that a node on a positive weight     *)
(* cycle points to has been collapsed.                                     *)
THEOREM WaveCyclesCollapsed ==
  WaveSpec => [](Plain(prog) /\ MergePWC => CyclesCollapsedWhenDone)
<1>1. WaveCompleteInv => (MergePWC => CyclesCollapsedWhenDone)
  BY DEF WaveCompleteInv, RoundInv, RoundOver, Insensitised, CyclesCollapsedWhenDone
<1>2. (Plain(prog) => WaveCompleteInv)
         => (Plain(prog) /\ MergePWC => CyclesCollapsedWhenDone)
  BY <1>1
<1>. QED BY <1>2, WaveCompleteness, PTL

(* When wave propagation stops, all statements of the program but its loads*)
(* and stores are satisfied: addresses, copies, the calls resolved, the    *)
(* collapsed objects and, with -merge-pwc, array accesses.                 *)
THEOREM WaveSolvedButForAccesses ==
  WaveSpec =>
    [](Plain(prog) /\ pc = "done" =>
         /\ AddrHolds(prog, fi, Solution)
         /\ CopyHolds(prog, fi, Solution)
         /\ CallHolds(prog, fi, Solution)
         /\ FieldsAgree(fi, fields, Solution)
         /\ MergePWC \/ prog.vgep = {} => VariantGepHolds(prog, fi, Solution))
<1>1. WaveInv /\ (Plain(prog) => WaveCompleteInv) =>
        (Plain(prog) /\ pc = "done" =>
           /\ AddrHolds(prog, fi, Solution)
           /\ CopyHolds(prog, fi, Solution)
           /\ CallHolds(prog, fi, Solution)
           /\ FieldsAgree(fi, fields, Solution)
           /\ MergePWC \/ prog.vgep = {} => VariantGepHolds(prog, fi, Solution))
  BY WavePropagated, SolvedButForAccesses
     DEF WaveInv, WaveCompleteInv, ShapeInv, StatementsInv
<1>. QED BY <1>1, WaveInvariance, WaveCompleteness, PTL

(* With -merge-pwc it satisfies every field access but those whose place   *)
(* has been taken by another with another offset.                          *)
THEOREM WaveGepsSolvedOrDeclined ==
  WaveSpec =>
    [](Plain(prog) /\ MergePWC /\ FirstFieldEqBase /\ pc = "done" =>
         \A e \in prog.ngep :
            Rival(e) \/ Covers(fi, Solution[e[2]], GepObjNodes(fi, Solution[e[1]], e[3])))
<1>1. WaveInv /\ (Plain(prog) => WaveCompleteInv) =>
        (Plain(prog) /\ MergePWC /\ FirstFieldEqBase /\ pc = "done" =>
           \A e \in prog.ngep :
              Rival(e) \/ Covers(fi, Solution[e[2]], GepObjNodes(fi, Solution[e[1]], e[3])))
  BY WavePropagated, GepsWhenDone
     DEF WaveInv, WaveCompleteInv, ShapeInv, StatementsInv
<1>. QED BY <1>1, WaveInvariance, WaveCompleteness, PTL

(* ... all of them, if they have one offset.                               *)
THEOREM WaveGepsSolved ==
  WaveSpec =>
    [](Plain(prog) /\ MergePWC /\ FirstFieldEqBase /\ OneOffset(prog)
         => NormalGepsSolvedWhenDone)
<1>1. WaveInv /\ (Plain(prog) => WaveCompleteInv) =>
        (Plain(prog) /\ MergePWC /\ FirstFieldEqBase /\ OneOffset(prog)
           => NormalGepsSolvedWhenDone)
  BY WavePropagated, GepsWhenDone
     DEF WaveInv, WaveCompleteInv, ShapeInv, StatementsInv, OneOffset, Rival,
         NormalGepsSolvedWhenDone, NormalGepHolds
<1>. QED BY <1>1, WaveInvariance, WaveCompleteness, PTL
=============================================================================
