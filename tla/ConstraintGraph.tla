--------------------------- MODULE ConstraintGraph ---------------------------
(***************************************************************************)
(* ConstraintGraph (Graphs/ConsG.h, ConsG.cpp) with the points-to data it  *)
(* is solved over (MutablePTData and MutableDiffPTData): the state that    *)
(* every Andersen solver shares and the operations on it.  Edges join      *)
(* representatives only; nodeToRepMap sends every PAG node to its own.     *)
(***************************************************************************)
EXTENDS ConstraintSystem

VARIABLES
  prog,      \* the constraint system being solved
  rep,       \* nodeToRepMap; nodeToSubsMap[r] is {n : rep[n] = r}
  copyE, loadE, storeE, ngepE, vgepE,   \* the edges, by kind
  pwc,       \* nodes flagged as part of a positive weight cycle
  pts,       \* ptsMap
  propa,     \* propaPtsMap: what has been propagated along the out-edges
  fi,        \* objects whose MemObj is field-insensitive
  fields     \* memToFieldsMap: the field objects that exist

(* Options::MergePWC: find and collapse positive weight cycles.            *)
MergePWC == prog.mergePWC

edges == <<copyE, loadE, storeE, ngepE, vgepE>>
graph == <<prog, rep, edges, pwc, pts, propa, fi, fields>>

GraphTypeOK ==
  /\ prog \in Programs
  /\ rep \in [Node -> Node]
  /\ copyE \in SUBSET (Node \X Node)
  /\ loadE \in SUBSET (Node \X Node)
  /\ storeE \in SUBSET (Node \X Node)
  /\ ngepE \in SUBSET (Node \X Node \X Offset)
  /\ vgepE \in SUBSET (Node \X Node)
  /\ pwc \in SUBSET Node
  /\ pts \in [Node -> SUBSET Object]
  /\ propa \in [Node -> SUBSET Object]
  /\ fi \in SUBSET Object
  /\ fields \in SUBSET Object

(* The solution the clients of the analysis see: getPts goes through the   *)
(* representative.                                                         *)
Solution == [n \in Node |-> pts[rep[n]]]

(* Objects the program names as nodes of its own; their field nodes exist  *)
(* before solving starts.                                                  *)
Mentioned(P) ==
  {o \in Object : \/ \E e \in P.addr \cup P.copy \cup P.load \cup P.store
                                       \cup P.vgep : o \in {e[1], e[2]}
                  \/ \E e \in P.ngep : o \in {e[1], e[2]}
                  \/ \E e \in P.icall : o \in {e[1], e[3], e[4]}}

(* buildCG: every PAG edge becomes a constraint edge, except that a copy   *)
(* from a node to itself is dropped; processAllAddr then seeds pts.        *)
BuildCG(P) ==
  /\ prog = P
  /\ rep = [n \in Node |-> n]
  /\ copyE = {e \in P.copy : e[1] # e[2]}
  /\ loadE = P.load
  /\ storeE = P.store
  /\ ngepE = P.ngep
  /\ vgepE = P.vgep
  /\ pwc = {}
  /\ pts = [n \in Node |-> {o \in Object : <<o, n>> \in P.addr}]
  /\ propa = [n \in Node |-> {}]
  /\ fi = {}
  /\ fields = {f \in Mentioned(P) : BaseOf[f] # f}

-----------------------------------------------------------------------------
(* Andersen::addCopyEdge between representatives s and d adds an edge      *)
(* unless the nodes are one or the edge exists; what s has propagated is   *)
(* then only what the new successor has been given as well.                *)
NewCopy(s, d) == s # d /\ <<s, d>> \notin copyE

(* Slip: what s has propagated is taken to hold for the new edge too. *)
AddCopyEdge_KeepsPropagated(s, d) ==
  copyE' = copyE \cup {<<s, d>>} /\ UNCHANGED propa

AddCopyEdge(s, d) ==
  /\ copyE' = copyE \cup {<<s, d>>}
  /\ propa' = [propa EXCEPT ![s] = @ \cap propa[d]]

-----------------------------------------------------------------------------
(* Merging the representative n into the representative r.                 *)
Moved(x, n, r) == IF x = n THEN r ELSE x

MovedPairs(E, n, r) == {<<Moved(e[1], n, r), Moved(e[2], n, r)>> : e \in E}

Touches(e, n) == n \in {e[1], e[2]}

(* An edge between n and r, or from n to n, ends up inside the merged node.*)
Inside(e, n, r) == Touches(e, n) /\ {e[1], e[2]} \subseteq {n, r}

(* moveInEdgesToRepNode and moveOutEdgesToRepNode re-target a normal gep   *)
(* by removing it and calling addNormalGepCGEdge, which declines when the  *)
(* two nodes already have a normal gep edge, whatever its offset.          *)
(* Slip: the geps of a merged node are removed but not added again. *)
MovedNormalGeps_Dropped(n, r) == {e \in ngepE : ~Touches(e, n)}

MovedNormalGeps(n, r) ==
  LET kept == {e \in ngepE : ~Touches(e, n)}
      moved == {<<Moved(e[1], n, r), Moved(e[2], n, r), e[3]>> :
                  e \in {x \in ngepE : Touches(x, n) /\ ~Inside(x, n, r)}}
  IN  kept \cup {e \in moved : ~\E k \in kept : k[1] = e[1] /\ k[2] = e[2]}

(* A gep edge that may have a non-zero offset and closes a cycle makes the *)
(* merged node a PWC node.                                                 *)
CriticalGepInside(n, r) ==
  \/ \E e \in ngepE : Inside(e, n, r) /\ e[3] # 0
  \/ \E e \in vgepE : Inside(e, n, r)

(* Slip: the points-to set of n is forgotten. *)
MergePts_SetForgotten(n, r, P) ==
  pts' = P /\ propa' = [propa EXCEPT ![r] = @ \cap propa[n]]

(* updatePropaPts and unionPts: propagated sets are intersected, points-to *)
(* sets united.                                                            *)
MergePts(n, r, P) ==
  /\ pts' = [P EXCEPT ![r] = @ \cup P[n]]
  /\ propa' = [propa EXCEPT ![r] = @ \cap propa[n]]

(* mergeNodeToRep: the sets are merged, edges moved or dropped,            *)
(* representatives updated, n removed.  P are the points-to sets at the    *)
(* time of the call.                                                       *)
MergeNodeToRep(n, r, P) ==
  /\ MergePts(n, r, P)
  /\ copyE' = {e \in MovedPairs(copyE, n, r) : e[1] # e[2]}
  /\ loadE' = MovedPairs(loadE, n, r)
  /\ storeE' = MovedPairs(storeE, n, r)
  /\ ngepE' = MovedNormalGeps(n, r)
  /\ vgepE' = MovedPairs({e \in vgepE : ~Inside(e, n, r)}, n, r)
  /\ rep' = [x \in Node |-> Moved(rep[x], n, r)]
  /\ pwc' = (pwc \ {n}) \cup
              (IF n \in pwc \/ CriticalGepInside(n, r) THEN {r} ELSE {})

-----------------------------------------------------------------------------
(* SCC detection.  SCCDetection (Util/SCC.h) is a module of its own; here  *)
(* it is what it computes.                                                 *)

(* The nodes reachable from x: those in every set that contains x and is   *)
(* closed under E.                                                         *)
ReachableFrom(x, E) ==
  LET closed == {S \in SUBSET Node :
                   x \in S /\ \A e \in E : e[1] \in S => e[2] \in S}
  IN  {y \in Node : \A S \in closed : y \in S}

(* The edges SCC detection follows: copies, and geps too with MergePWC     *)
(* (setPWCOpt).                                                            *)
SCCEdges == copyE \cup (IF MergePWC
                        THEN vgepE \cup {<<e[1], e[2]>> : e \in ngepE} ELSE {})

(* The components of more than one node among the nodes reachable from the *)
(* given ones.                                                             *)
(* Slip: everything a node reaches is taken for its component. *)
SCCs_Reachable(from) ==
  {K \in {ReachableFrom(x, SCCEdges) : x \in from} : Cardinality(K) > 1}

SCCs(from) ==
  LET reach == [x \in Node |-> ReachableFrom(x, SCCEdges)]
      visited == UNION {reach[c] : c \in from}
  IN  {K \in {{y \in reach[x] : x \in reach[y]} : x \in visited} :
         Cardinality(K) > 1}

(* mergeSccCycle merges every component into its root, the member that the *)
(* depth-first search entered first: any member, according to the order of *)
(* the search.  MergesInto lists the merges to make.                       *)
RootsOf(sccs) == {root \in [sccs -> Node] : \A K \in sccs : root[K] \in K}

MergesInto(root) ==
  UNION {(K \ {root[K]}) \X {root[K]} : K \in DOMAIN root}

-----------------------------------------------------------------------------
(* Difference propagation never records more than it has done: what a node *)
(* counts as propagated has arrived, as the edge transforms it, at the end *)
(* of every copy, variant gep and normal gep edge that leaves it, new and  *)
(* re-targeted edges included.                                             *)
PropagatedDelivered ==
  /\ \A e \in copyE : Covers(fi, pts[e[2]], propa[e[1]])
  /\ \A e \in vgepE :
        Covers(fi, pts[e[2]], VariantObjNodes(propa[e[1]]))
  /\ \A e \in ngepE :
        Covers(fi, pts[e[2]], GepObjNodes(fi, propa[e[1]], e[3]))

(* What a node counts as propagated it still points to. *)
PropagatedWithinPts == \A n \in Node : Covers(fi, pts[n], propa[n])
=============================================================================
