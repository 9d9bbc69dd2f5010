---------------------------- MODULE SCCDetection ----------------------------
(***************************************************************************)
(* SCCDetection (include/Util/SCC.h): the depth-first search that finds    *)
(* the strongly connected components of a constraint graph, with a         *)
(* representative for each and the representatives in topological order.   *)
(* A solver keeps one detector and calls find() on it again and again.     *)
(* The recursion of visit() is an explicit stack of frames.                *)
(***************************************************************************)
EXTENDS Naturals, Sequences, FiniteSets, SequencesExt

CONSTANTS
  Node,
  GraphsToSearch,   \* sets of edges
  CandidateSets,    \* what find() may be asked to search from
  NoNode            \* UINT_MAX: no representative yet

ASSUME SCCAssumption ==
  /\ NoNode \notin Node
  /\ GraphsToSearch \subseteq SUBSET (Node \X Node)
  /\ CandidateSets \subseteq SUBSET Node

VARIABLES
  edges,
  candidates,  \* of the last call of find()
  calls,       \* frames of visit(): [node, todo, child], innermost last; child
               \* is the successor whose own visit has been started, or NoNode
  clock,       \* _I
  stamp,       \* _D, 0 for a node without an entry
  visited, inSCC, rep, subNodes,   \* the fields of GNodeSCCInfo
  SS,          \* _SS, top last
  T,           \* _T, top last
  repNodes

info == <<visited, inSCC, rep, subNodes>>
vars == <<edges, candidates, calls, clock, stamp, info, SS, T, repNodes>>

Cleared(clk, st, v, i, r, s, ss, t, rn) ==
  /\ clk = 0
  /\ st = [n \in Node |-> 0]
  /\ v = {} /\ i = {}
  /\ r = [n \in Node |-> NoNode]
  /\ s = [n \in Node |-> {}]
  /\ ss = <<>> /\ t = <<>>
  /\ rn = {}

Init ==
  /\ edges \in GraphsToSearch
  /\ candidates = {}
  /\ calls = <<>>
  /\ Cleared(clock, stamp, visited, inSCC, rep, subNodes, SS, T, repNodes)

Successors(n) == {e[2] : e \in {x \in edges : x[1] = n}}

Top(s) == s[Len(s)]

-----------------------------------------------------------------------------
(* find() has visited all its candidates and returned. *)
Returned == calls = <<>> /\ candidates \subseteq visited

(* find(candidates), or find(), whose candidates are all the nodes. *)
Find ==
  /\ Returned
  /\ candidates' \in CandidateSets
  /\ Cleared(clock', stamp', visited', inSCC', rep', subNodes', SS', T', repNodes')
  /\ UNCHANGED <<edges, calls>>

(* rep(n, r): the sub nodes of n go, whoever it represented. *)
SetRep(n, r) ==
  /\ rep' = [rep EXCEPT ![n] = r]
  /\ subNodes' = [x \in Node |-> IF x = r THEN subNodes[x] \cup {n}
                                 ELSE IF x = n THEN {} ELSE subNodes[x]]

(* visit(v) starts; caller is the stack of its callers' frames. *)
Enter(v, caller) ==
  /\ clock' = clock + 1
  /\ stamp' = [stamp EXCEPT ![v] = clock + 1]
  /\ SetRep(v, v)
  /\ visited' = visited \cup {v}
  /\ calls' = Append(caller, [node |-> v, todo |-> Successors(v), child |-> NoNode])
  /\ UNCHANGED <<edges, candidates, inSCC, SS, T, repNodes>>

VisitCandidate ==
  /\ calls = <<>>
  /\ \E v \in candidates \ visited : Enter(v, <<>>)

VisitSuccessor ==
  /\ calls # <<>>
  /\ Top(calls).child = NoNode
  /\ \E w \in Top(calls).todo \ visited :
       Enter(w, Append(Front(calls),
                       [Top(calls) EXCEPT !.todo = @ \ {w}, !.child = w]))

(* The rest of the loop body, for a successor w that has been visited: if  *)
(* its component is still open, v takes the older representative.          *)
(* Slip: components that are closed already are joined too. *)
LowerRep_ClosedToo(v, w) ==
  SetRep(v, IF stamp[rep[v]] < stamp[rep[w]] THEN rep[v] ELSE rep[w])

LowerRep(v, w) ==
  \/ /\ w \notin inSCC
     /\ SetRep(v, IF stamp[rep[v]] < stamp[rep[w]] THEN rep[v] ELSE rep[w])
  \/ /\ w \in inSCC
     /\ UNCHANGED <<rep, subNodes>>

(* Slip: the loop does not move on to the next successor. *)
LookAtSuccessor_Stays ==
  /\ calls # <<>>
  /\ \/ \E w \in Top(calls).todo \cap visited :
          /\ Top(calls).child = NoNode
          /\ LowerRep(Top(calls).node, w)
          /\ UNCHANGED calls
     \/ /\ Top(calls).child # NoNode
        /\ LowerRep(Top(calls).node, Top(calls).child)
        /\ calls' = Append(Front(calls), [Top(calls) EXCEPT !.child = NoNode])
  /\ UNCHANGED <<edges, candidates, clock, stamp, visited, inSCC, SS, T, repNodes>>

LookAtSuccessor ==
  /\ calls # <<>>
  /\ \/ \E w \in Top(calls).todo \cap visited :
          /\ Top(calls).child = NoNode
          /\ LowerRep(Top(calls).node, w)
          /\ calls' = Append(Front(calls), [Top(calls) EXCEPT !.todo = @ \ {w}])
     \/ /\ Top(calls).child # NoNode
        /\ LowerRep(Top(calls).node, Top(calls).child)
        /\ calls' = Append(Front(calls), [Top(calls) EXCEPT !.child = NoNode])
  /\ UNCHANGED <<edges, candidates, clock, stamp, visited, inSCC, SS, T, repNodes>>

(* Slip: T grows at its bottom. *)
PushTopo_AtBottom(v) == T' = <<v>> \o T

PushTopo(v) == T' = Append(T, v)

(* A root pops the nodes above it, all those younger than itself, off the  *)
(* internal stack and becomes their representative.                        *)
Younger(v) ==
  LET oldest == {i \in DOMAIN SS : stamp[SS[i]] <= stamp[v]}
      k == IF oldest = {} THEN 0 ELSE CHOOSE i \in oldest : \A j \in oldest : j <= i
  IN  [kept |-> SubSeq(SS, 1, k), popped |-> ToSet(SubSeq(SS, k + 1, Len(SS)))]

(* Slip: the popped nodes do not become sub nodes of v. *)
CloseComponent_SubNodesForgotten(v) ==
  LET y == Younger(v) IN
  /\ rep[v] = v
  /\ inSCC' = inSCC \cup {v} \cup y.popped
  /\ rep' = [n \in Node |-> IF n \in y.popped THEN v ELSE rep[n]]
  /\ SS' = y.kept
  /\ PushTopo(v)
  /\ repNodes' = repNodes \cup {v}
  /\ UNCHANGED subNodes

CloseComponent(v) ==
  LET y == Younger(v) IN
  /\ rep[v] = v
  /\ inSCC' = inSCC \cup {v} \cup y.popped
  /\ rep' = [n \in Node |-> IF n \in y.popped THEN v ELSE rep[n]]
  /\ subNodes' = [n \in Node |-> IF n = v THEN subNodes[n] \cup y.popped
                                 ELSE IF n \in y.popped THEN {} ELSE subNodes[n]]
  /\ SS' = y.kept
  /\ PushTopo(v)
  /\ repNodes' = repNodes \cup {v}

LeaveOpen(v) ==
  /\ rep[v] # v
  /\ SS' = Append(SS, v)
  /\ UNCHANGED <<inSCC, rep, subNodes, T, repNodes>>

EndVisit ==
  /\ calls # <<>>
  /\ Top(calls).todo = {}
  /\ Top(calls).child = NoNode
  /\ CloseComponent(Top(calls).node) \/ LeaveOpen(Top(calls).node)
  /\ calls' = Front(calls)
  /\ UNCHANGED <<edges, candidates, clock, stamp, visited>>

Next == Find \/ VisitCandidate \/ VisitSuccessor \/ LookAtSuccessor \/ EndVisit

(* find() runs to its end; nothing obliges a client to call it. *)
Spec == Init /\ [][Next]_vars
             /\ WF_vars(VisitCandidate \/ VisitSuccessor \/ LookAtSuccessor \/ EndVisit)

-----------------------------------------------------------------------------
(* The reference: y is reachable from x if it is in every set of nodes     *)
(* that contains x and is closed under the edges.                          *)
ReachableFrom(x) ==
  LET closed == {S \in SUBSET Node :
                   x \in S /\ \A e \in edges : e[1] \in S => e[2] \in S}
  IN  {y \in Node : \A S \in closed : y \in S}

(* What find() visits is what its candidates reach, every visited node has *)
(* a representative, and two have the same one exactly when each reaches   *)
(* the other.                                                              *)
ComponentsFound ==
  Returned =>
    /\ visited = UNION {ReachableFrom(c) : c \in candidates}
    /\ \A x, y \in visited :
         rep[x] = rep[y] <=> (y \in ReachableFrom(x) /\ x \in ReachableFrom(y))

(* mergeSccCycle relies on subNodes: those of a representative are its     *)
(* component, itself included, and those of any other node are empty.      *)
SubNodesAreComponents ==
  Returned => \A r \in Node :
    subNodes[r] = IF r \in repNodes THEN {n \in visited : rep[n] = r} ELSE {}

(* The wave relies on topoNodeStack: it holds every representative once,   *)
(* and one from which another can be reached lies above it.                *)
TopologicalOrder ==
  Returned =>
    /\ ToSet(T) = {rep[n] : n \in visited}
    /\ \A i, j \in DOMAIN T : i < j => T[j] \notin ReachableFrom(T[i])

(* Every find() returns. *)
FindReturns == (candidates # {}) ~> Returned

TypeOK ==
  /\ edges \in GraphsToSearch
  /\ candidates \in SUBSET Node
  /\ visited \in SUBSET Node /\ inSCC \in SUBSET visited
  /\ clock \in 0 .. Cardinality(Node)
  /\ stamp \in [Node -> 0 .. Cardinality(Node)]
  /\ rep \in [Node -> Node \cup {NoNode}]
  /\ subNodes \in [Node -> SUBSET Node]
  /\ ToSet(SS) \cup ToSet(T) \subseteq visited
  /\ repNodes \in SUBSET Node
=============================================================================
