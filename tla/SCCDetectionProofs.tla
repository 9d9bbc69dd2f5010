-------------------------- MODULE SCCDetectionProofs ---------------------------
(***************************************************************************)
(* Nuutila's algorithm as coded in SCC.h finds the strongly connected      *)
(* components of every graph.  A node is open from the time it is visited  *)
(* until its component is closed.  Older open nodes reach younger ones by  *)
(* way of the calls that are active; what is closed leads only to what is  *)
(* closed; and when a node that is its own representative ends, nothing    *)
(* open and younger leads to anything open and older (LowInv).             *)
(***************************************************************************)
EXTENDS SCCDetection, SequenceTheorems, WellFoundedInduction, TLAPS

Frame == [node : Node, todo : SUBSET Node, child : Node \cup {NoNode}]

Open == visited \ inSCC

Active == {calls[i].node : i \in DOMAIN calls}

TypeInv ==
  /\ edges \in GraphsToSearch
  /\ candidates \in SUBSET Node
  /\ calls \in Seq(Frame)
  /\ clock \in Nat
  /\ stamp \in [Node -> Nat]
  /\ visited \in SUBSET Node
  /\ inSCC \in SUBSET visited
  /\ rep \in [Node -> Node \cup {NoNode}]
  /\ subNodes \in [Node -> SUBSET Node]
  /\ SS \in Seq(Node)
  /\ T \in Seq(Node)
  /\ repNodes \in SUBSET Node

StampInv ==
  /\ \A x \in visited : 1 <= stamp[x] /\ stamp[x] <= clock
  /\ \A x, y \in visited : stamp[x] = stamp[y] => x = y

(* Calls are nested: the node of one is the child of the one before.       *)
CallsInv ==
  \A i \in DOMAIN calls :
    /\ calls[i].node \in Open
    /\ calls[i].todo \subseteq Successors(calls[i].node)
    /\ calls[i].child # NoNode =>
         /\ calls[i].child \in visited \cap Successors(calls[i].node)
         /\ stamp[calls[i].node] < stamp[calls[i].child]
    /\ i < Len(calls) => calls[i].child = calls[i + 1].node
    /\ \A j \in DOMAIN calls : i < j => stamp[calls[i].node] < stamp[calls[j].node]

(* What was left open since a call began lies above what was before.       *)
StackInv ==
  /\ ToSet(SS) = Open \ Active
  /\ \A a \in Active : \A i, j \in DOMAIN SS :
       i < j /\ stamp[a] < stamp[SS[i]] => stamp[a] < stamp[SS[j]]

ReachInv ==
  /\ \A a \in Active : \A y \in Open : stamp[a] <= stamp[y] => y \in ReachableFrom(a)
  /\ \A y \in Open : \E a \in Active : stamp[a] <= stamp[y] /\ a \in ReachableFrom(y)
  /\ \A x \in visited : \E c \in candidates : x \in ReachableFrom(c)

RepInv ==
  /\ \A x \in Open : rep[x] \in Open /\ stamp[rep[x]] <= stamp[x] /\ rep[x] \in ReachableFrom(x)
  /\ \A x \in inSCC : rep[x] \in inSCC

(* A successor w that has yet to be looked at, or is being visited.        *)
Pending(x, w) ==
  \E i \in DOMAIN calls : calls[i].node = x /\ (w \in calls[i].todo \/ w = calls[i].child)

(* The representative of an open node is as old as any open node that an   *)
(* edge leads to, and that of an active node as old as those of the open   *)
(* nodes visited since, but for a child that has yet to be looked at.      *)
LowInv ==
  /\ \A x \in Open : \A w \in Successors(x) :
       w \in inSCC \/ (w \in Open /\ stamp[rep[x]] <= stamp[w]) \/ Pending(x, w)
  /\ \A i \in DOMAIN calls : \A y \in Open :
       /\ stamp[calls[i].node] <= stamp[y]
       /\ calls[i].child = NoNode \/ stamp[y] < stamp[calls[i].child]
       => stamp[rep[calls[i].node]] <= stamp[rep[y]]
  /\ calls # <<>> /\ Top(calls).child # NoNode =>
       \A y \in Open : stamp[Top(calls).child] <= stamp[y] =>
         Top(calls).child \in Open /\ stamp[rep[Top(calls).child]] <= stamp[rep[y]]

ClosedInv ==
  /\ \A x \in inSCC : Successors(x) \subseteq inSCC
  /\ \A x, y \in inSCC :
       rep[x] = rep[y] <=> (y \in ReachableFrom(x) /\ x \in ReachableFrom(y))

SubInv ==
  /\ \A r \in Node \ visited : subNodes[r] = {}
  /\ \A r \in inSCC :
       subNodes[r] = IF r \in repNodes THEN {n \in inSCC : rep[n] = r} ELSE {}
  /\ \A r \in Open : \A n \in subNodes[r] :
       n \in Open /\ stamp[rep[n]] <= stamp[r] /\ stamp[r] <= stamp[n]
  /\ \A x \in Open : rep[x] = x => x \in subNodes[x]

TopoInv ==
  /\ repNodes = ToSet(T)
  /\ repNodes = {rep[n] : n \in inSCC}
  /\ \A i, j \in DOMAIN T : i < j => T[j] \notin ReachableFrom(T[i])

SCCInv == /\ TypeInv /\ StampInv /\ CallsInv /\ StackInv /\ ReachInv /\ RepInv /\ LowInv
          /\ ClosedInv /\ SubInv /\ TopoInv
-----------------------------------------------------------------------------
LEMMA GraphTypes ==
  ASSUME TypeInv
  PROVE  /\ edges \subseteq Node \X Node
         /\ \A n : Successors(n) \subseteq Node
         /\ \A n, w : w \in Successors(n) <=> <<n, w>> \in edges
         /\ \A C \in CandidateSets : C \subseteq Node
<1>1. edges \subseteq Node \X Node
  BY SCCAssumption DEF TypeInv
<1>2. \A e \in edges : e = <<e[1], e[2]>>
  BY <1>1
<1>3. \A n, w : w \in Successors(n) <=> <<n, w>> \in edges
  BY <1>2 DEF Successors
<1>4. \A C \in CandidateSets : C \subseteq Node
  BY SCCAssumption
<1>5. ASSUME NEW n, NEW w \in Successors(n) PROVE w \in Node
  <2>1. <<n, w>> \in Node \X Node
    BY <1>1, <1>3
  <2>. QED BY <2>1
<1>. QED BY <1>1, <1>3, <1>4, <1>5

(* Reachability: reflexive, along edges, transitive, and within whatever   *)
(* set the edges do not leave.                                             *)
LEMMA ReachItself ==
  ASSUME NEW x \in Node
  PROVE  x \in ReachableFrom(x)
BY DEF ReachableFrom

LEMMA ReachWithin ==
  ASSUME TypeInv, NEW S \in SUBSET Node, NEW x \in S, \A y \in S : Successors(y) \subseteq S
  PROVE  ReachableFrom(x) \subseteq S
<1>1. \A e \in edges : e[1] \in S => e[2] \in S
  BY DEF Successors
<1>. QED BY <1>1 DEF ReachableFrom

LEMMA ReachEdge ==
  ASSUME TypeInv, NEW x \in Node, NEW y \in ReachableFrom(x), NEW z \in Successors(y)
  PROVE  z \in ReachableFrom(x)
<1>1. z \in Node
  BY GraphTypes
<1>2. PICK e \in edges : e[1] = y /\ e[2] = z
  BY DEF Successors
<1>. QED BY <1>1, <1>2 DEF ReachableFrom

LEMMA ReachTransitive ==
  ASSUME NEW x, NEW y \in ReachableFrom(x), NEW z \in ReachableFrom(y)
  PROVE  z \in ReachableFrom(x)
BY DEF ReachableFrom

LEMMA ReachTyped == \A x : ReachableFrom(x) \subseteq Node
BY DEF ReachableFrom

LEMMA ReachStable ==
  ASSUME edges' = edges
  PROVE  \A x : ReachableFrom(x)' = ReachableFrom(x) /\ Successors(x)' = Successors(x)
BY DEF ReachableFrom, Successors

-----------------------------------------------------------------------------
(* Sequences.                                                              *)
LEMMA FrontProperties ==
  ASSUME NEW S, NEW s \in Seq(S), s # <<>>
  PROVE  /\ Front(s) \in Seq(S)
         /\ Len(s) \in Nat \ {0}
         /\ Len(Front(s)) = Len(s) - 1
         /\ \A i \in 1..Len(s) - 1 : Front(s)[i] = s[i]
<1> DEFINE n == Len(s) - 1
           v == SubSeq(s, 1, n)
<1>1. n \in Nat /\ Len(s) = n + 1
  OBVIOUS
<1>2. \A i \in 1..n : s[i] \in S
  BY <1>1
<1>3. Front(s) = v
  BY DEF Front
<1>. HIDE DEF n
<1>4. /\ v \in Seq(S)
      /\ Len(v) = IF 1 <= n THEN n - 1 + 1 ELSE 0
      /\ \A i \in 1..n - 1 + 1 : v[i] = s[1 + i - 1]
  BY <1>1, <1>2, SubSeqProperties
<1>. HIDE DEF v
<1>5. Len(v) = n
  BY <1>1, <1>4
<1>6. ASSUME NEW i \in 1..n PROVE v[i] = s[i]
  <2>1. i \in 1..n - 1 + 1 /\ 1 + i - 1 = i
    BY <1>1
  <2>. QED BY <1>4, <2>1
<1>7. Len(Front(s)) = n /\ Front(s) \in Seq(S) /\ (\A i \in 1..n : Front(s)[i] = s[i])
  BY <1>3, <1>4, <1>5, <1>6
<1>8. Len(s) \in Nat \ {0}
  BY <1>1
<1>. QED BY <1>7, <1>8 DEF n

LEMMA AppendIt ==
  ASSUME NEW S, NEW s \in Seq(S), NEW x \in S
  PROVE  /\ Append(s, x) \in Seq(S)
         /\ Len(Append(s, x)) = Len(s) + 1
         /\ Append(s, x)[Len(s) + 1] = x
         /\ \A i \in 1..Len(s) : Append(s, x)[i] = s[i]
OBVIOUS

LEMMA Smallest ==
  ASSUME NEW S \in SUBSET Nat, S # {}
  PROVE  \E k \in S : \A l \in S : k <= l
<1> DEFINE R == {ss \in Nat \X Nat : ss[1] < ss[2]}
<1>1. IsWellFoundedOn(R, Nat)
  BY NatLessThanWellFounded DEF OpToRel
<1>2. \A l, k \in Nat : l < k => <<l, k>> \in R
  OBVIOUS
<1>. HIDE DEF R
<1>3. PICK k \in S : \A l \in S : <<l, k>> \notin R
  BY <1>1, WFMin
<1>4. \A l \in S : ~(l < k)
  BY <1>2, <1>3
<1>. QED BY <1>4

LEMMA Greatest ==
  ASSUME NEW n \in Nat, NEW S \in SUBSET (1..n), S # {}
  PROVE  \E k \in S : \A l \in S : l <= k
<1> DEFINE D == {n - k : k \in S}
<1>1. D \in SUBSET Nat /\ D # {}
  <2>1. \A k \in S : n - k \in Nat
    OBVIOUS
  <2>. QED BY <2>1
<1>. HIDE DEF D
<1>2. PICK d \in D : \A l \in D : d <= l
  BY <1>1, Smallest
<1>3. PICK k \in S : d = n - k
  BY DEF D
<1>4. \A l \in S : n - k <= n - l
  BY <1>2, <1>3 DEF D
<1>5. \A l \in S : l <= k
  BY <1>4
<1>. QED BY <1>5
-----------------------------------------------------------------------------
(* What the actions do to the calls.                                       *)
Depth == Len(calls)

CalledFor(v) ==
  /\ calls' \in Seq(Frame) /\ Len(calls') = Depth + 1
  /\ calls'[Depth + 1] = [node |-> v, todo |-> Successors(v), child |-> NoNode]
  /\ \A i \in 1..Depth : /\ calls'[i].node = calls[i].node
                         /\ i < Depth => calls'[i] = calls[i]
  /\ Depth = 0 => v \in candidates
  /\ Depth > 0 => /\ calls[Depth].child = NoNode
                  /\ v \in calls[Depth].todo
                  /\ calls'[Depth].todo = calls[Depth].todo \ {v}
                  /\ calls'[Depth].child = v

Entered(v) ==
  /\ v \in Node \ visited
  /\ CalledFor(v)
  /\ clock' = clock + 1
  /\ stamp' = [stamp EXCEPT ![v] = clock + 1]
  /\ SetRep(v, v)
  /\ visited' = visited \cup {v}
  /\ UNCHANGED <<edges, candidates, inSCC, SS, T, repNodes>>

LookedAt(w) ==
  /\ Depth > 0
  /\ calls' \in Seq(Frame) /\ Len(calls') = Depth
  /\ \A i \in 1..Depth : /\ calls'[i].node = calls[i].node
                         /\ i < Depth => calls'[i] = calls[i]
  /\ \/ /\ w \in calls[Depth].todo /\ calls[Depth].child = NoNode
        /\ calls'[Depth].todo = calls[Depth].todo \ {w}
     \/ /\ w = calls[Depth].child /\ w # NoNode
        /\ calls'[Depth].todo = calls[Depth].todo
  /\ calls'[Depth].child = NoNode
  /\ w \in visited
  /\ LowerRep(calls[Depth].node, w)
  /\ UNCHANGED <<edges, candidates, clock, stamp, visited, inSCC, SS, T, repNodes>>

Left ==
  /\ Depth > 0
  /\ calls' \in Seq(Frame) /\ Len(calls') = Depth - 1
  /\ \A i \in 1..Depth - 1 : calls'[i] = calls[i]
  /\ calls[Depth].todo = {} /\ calls[Depth].child = NoNode
  /\ CloseComponent(calls[Depth].node) \/ LeaveOpen(calls[Depth].node)
  /\ UNCHANGED <<edges, candidates, clock, stamp, visited>>

LEMMA FrameTypes ==
  ASSUME TypeInv
  PROVE  /\ Depth \in Nat /\ DOMAIN calls = 1..Depth
         /\ \A i \in 1..Depth : /\ calls[i] \in Frame
                                /\ calls[i].node \in Node /\ calls[i].todo \subseteq Node
                                /\ calls[i].child \in Node \cup {NoNode}
         /\ calls = <<>> <=> Depth = 0
         /\ NoNode \notin Node
<1>1. \A i \in 1..Depth : calls[i] \in Frame
  BY DEF TypeInv, Depth
<1>2. \A f \in Frame : f.node \in Node /\ f.todo \subseteq Node /\ f.child \in Node \cup {NoNode}
  BY DEF Frame
<1>. QED BY <1>1, <1>2, SCCAssumption DEF TypeInv, Depth

(* The top frame is replaced by f: what becomes of the others.             *)
LEMMA Replaced ==
  ASSUME TypeInv, Depth > 0, NEW f \in Frame
  PROVE  LET c == Append(Front(calls), f)
         IN  /\ c \in Seq(Frame) /\ Len(c) = Depth /\ c[Depth] = f
             /\ \A i \in 1..Depth : i < Depth => c[i] = calls[i]
<1> DEFINE s == Front(calls)
<1>1. calls \in Seq(Frame) /\ calls # <<>> /\ Depth \in Nat
  BY FrameTypes DEF TypeInv
<1>2. /\ s \in Seq(Frame) /\ Len(s) = Depth - 1
      /\ \A i \in 1..Depth - 1 : s[i] = calls[i]
  BY <1>1, FrontProperties DEF Depth
<1>. HIDE DEF s
<1> DEFINE c == Append(s, f)
<1>3. /\ c \in Seq(Frame) /\ Len(c) = Depth - 1 + 1 /\ c[Depth - 1 + 1] = f
      /\ \A i \in 1..Depth - 1 : c[i] = s[i]
  BY <1>2, AppendIt
<1>. HIDE DEF c
<1>4. Depth - 1 + 1 = Depth /\ \A i \in 1..Depth : i < Depth => i \in 1..Depth - 1
  BY <1>1
<1>5. c \in Seq(Frame) /\ Len(c) = Depth /\ c[Depth] = f
  BY <1>3, <1>4
<1>6. \A i \in 1..Depth : i < Depth => c[i] = calls[i]
  BY <1>2, <1>3, <1>4
<1>. QED BY <1>5, <1>6 DEF c, s

LEMMA EnterShape ==
  ASSUME TypeInv, VisitCandidate \/ VisitSuccessor
  PROVE  \E v : Entered(v)
<1>1. CASE VisitCandidate
  <2>1. PICK v \in candidates \ visited : Enter(v, <<>>)
    BY <1>1 DEF VisitCandidate
  <2>2. calls = <<>> /\ Depth = 0
    BY <1>1 DEF VisitCandidate, Depth
  <2> DEFINE f == [node |-> v, todo |-> Successors(v), child |-> NoNode]
  <2>3. v \in Node \ visited /\ f \in Frame
    BY GraphTypes DEF TypeInv, Frame
  <2>4. calls' = Append(<<>>, f)
    BY <2>1 DEF Enter
  <2>. HIDE DEF f
  <2>5. calls' \in Seq(Frame) /\ Len(calls') = 1 /\ calls'[1] = f
    BY <2>3, <2>4
  <2>6. 0 + 1 = 1 /\ 1..0 = {} /\ ~(0 > 0)
    OBVIOUS
  <2>7. /\ clock' = clock + 1 /\ stamp' = [stamp EXCEPT ![v] = clock + 1]
        /\ SetRep(v, v) /\ visited' = visited \cup {v}
        /\ UNCHANGED <<edges, candidates, inSCC, SS, T, repNodes>>
    BY <2>1 DEF Enter
  <2>8. Entered(v)
    BY <2>1, <2>2, <2>3, <2>5, <2>6, <2>7 DEF Entered, CalledFor, f
  <2>. QED BY <2>8
<1>2. CASE VisitSuccessor
  <2>0. PICK w \in Top(calls).todo \ visited :
          Enter(w, Append(Front(calls), [Top(calls) EXCEPT !.todo = @ \ {w}, !.child = w]))
    <3>1. \E w \in Top(calls).todo \ visited :
            Enter(w, Append(Front(calls), [Top(calls) EXCEPT !.todo = @ \ {w}, !.child = w]))
      BY <1>2 DEF VisitSuccessor
    <3>. QED BY <3>1
  <2> DEFINE g == calls[Depth]
  <2>2. calls # <<>> /\ Depth > 0 /\ Top(calls) = g /\ g \in Frame /\ g.child = NoNode
    <3>1. calls # <<>> /\ Top(calls) = g /\ g.child = NoNode
      BY <1>2 DEF VisitSuccessor, Depth, Top
    <3>. QED BY <3>1, FrameTypes
  <2>1. w \in g.todo \ visited
        /\ Enter(w, Append(Front(calls), [g EXCEPT !.todo = @ \ {w}, !.child = w]))
    BY <2>0, <2>2
  <2> DEFINE f == [g EXCEPT !.todo = @ \ {w}, !.child = w]
             h == [node |-> w, todo |-> Successors(w), child |-> NoNode]
             c == Append(Front(calls), f)
  <2>3. w \in Node \ visited /\ h \in Frame
    BY <2>2, GraphTypes DEF Frame
  <2>4. f \in Frame /\ f.node = g.node /\ f.todo = g.todo \ {w} /\ f.child = w
    BY <2>2, <2>3 DEF Frame
  <2>5. calls' = Append(c, h)
    BY <2>1 DEF Enter
  <2>. HIDE DEF f, h, g
  <2>6. /\ c \in Seq(Frame) /\ Len(c) = Depth /\ c[Depth] = f
        /\ \A i \in 1..Depth : i < Depth => c[i] = calls[i]
    BY <2>2, <2>4, Replaced
  <2>. HIDE DEF c
  <2>7. /\ calls' \in Seq(Frame) /\ Len(calls') = Depth + 1 /\ calls'[Depth + 1] = h
        /\ \A i \in 1..Depth : calls'[i] = c[i]
    BY <2>3, <2>5, <2>6, AppendIt
  <2>8. Depth \in Nat /\ Depth \in 1..Depth
    BY <2>2, FrameTypes
  <2>9. calls'[Depth] = f
    BY <2>6, <2>7, <2>8
  <2>10. \A i \in 1..Depth : /\ calls'[i].node = calls[i].node
                             /\ i < Depth => calls'[i] = calls[i]
    <3>. SUFFICES ASSUME NEW i \in 1..Depth
                  PROVE  calls'[i].node = calls[i].node /\ (i < Depth => calls'[i] = calls[i])
      OBVIOUS
    <3>1. CASE i = Depth
      BY <2>2, <2>4, <2>9, <3>1 DEF g
    <3>2. CASE i < Depth
      BY <2>6, <2>7, <3>2
    <3>. QED BY <2>8, <3>1, <3>2
  <2>11. /\ clock' = clock + 1 /\ stamp' = [stamp EXCEPT ![w] = clock + 1]
         /\ SetRep(w, w) /\ visited' = visited \cup {w}
         /\ UNCHANGED <<edges, candidates, inSCC, SS, T, repNodes>>
    BY <2>1 DEF Enter
  <2>12. /\ g.child = NoNode /\ w \in g.todo
         /\ calls'[Depth].todo = g.todo \ {w} /\ calls'[Depth].child = w
    BY <2>1, <2>2, <2>4, <2>9
  <2>13. calls'[Depth + 1] = [node |-> w, todo |-> Successors(w), child |-> NoNode]
    BY <2>7 DEF h
  <2>14. Depth # 0 /\ Depth > 0
    BY <2>2, <2>8
  <2>15. /\ calls[Depth].child = NoNode /\ w \in calls[Depth].todo
         /\ calls'[Depth].todo = calls[Depth].todo \ {w} /\ calls'[Depth].child = w
    BY <2>12 DEF g
  <2>16. w \in Node \ visited /\ calls' \in Seq(Frame) /\ Len(calls') = Depth + 1
    BY <2>3, <2>7
  <2>17. /\ Depth = 0 => w \in candidates
         /\ Depth > 0 => /\ calls[Depth].child = NoNode
                         /\ w \in calls[Depth].todo
                         /\ calls'[Depth].todo = calls[Depth].todo \ {w}
                         /\ calls'[Depth].child = w
    BY <2>14, <2>15
  <2>. HIDE DEF c
  <2>18. CalledFor(w)
    BY <2>10, <2>13, <2>16, <2>17 DEF CalledFor
  <2>. QED BY <2>11, <2>16, <2>18 DEF Entered
<1>. QED BY <1>1, <1>2

LEMMA LookShape ==
  ASSUME TypeInv, CallsInv, LookAtSuccessor
  PROVE  \E w : LookedAt(w)
<1> DEFINE g == calls[Depth]
<1>1. calls # <<>> /\ Depth > 0 /\ Top(calls) = g /\ g \in Frame
  <2>1. calls # <<>> /\ Top(calls) = g
    BY DEF LookAtSuccessor, Depth, Top
  <2>. QED BY <2>1, FrameTypes
<1>2. /\ g.node \in Node /\ g.todo \subseteq Node /\ g.child \in Node \cup {NoNode}
      /\ g = [node |-> g.node, todo |-> g.todo, child |-> g.child]
  BY <1>1 DEF Frame
<1>3. \/ \E w \in g.todo \cap visited :
           /\ g.child = NoNode /\ LowerRep(g.node, w)
           /\ calls' = Append(Front(calls), [g EXCEPT !.todo = @ \ {w}])
      \/ /\ g.child # NoNode /\ LowerRep(g.node, g.child)
         /\ calls' = Append(Front(calls), [g EXCEPT !.child = NoNode])
  BY <1>1, Zenon DEF LookAtSuccessor
<1>4. /\ UNCHANGED <<edges, candidates, clock, stamp, visited, inSCC, SS, T, repNodes>>
      /\ g.child = NoNode \/ g.child \in visited
  BY <1>1, FrameTypes DEF LookAtSuccessor, CallsInv
<1>5. ASSUME NEW f \in Frame, f.node = g.node, calls' = Append(Front(calls), f)
      PROVE  /\ calls' \in Seq(Frame) /\ Len(calls') = Depth /\ calls'[Depth] = f
             /\ \A i \in 1..Depth : /\ calls'[i].node = calls[i].node
                                    /\ i < Depth => calls'[i] = calls[i]
  <2>1. /\ calls' \in Seq(Frame) /\ Len(calls') = Depth /\ calls'[Depth] = f
        /\ \A i \in 1..Depth : i < Depth => calls'[i] = calls[i]
    BY <1>1, <1>5, Replaced
  <2>2. \A i \in 1..Depth : i = Depth \/ i < Depth
    BY FrameTypes
  <2>. QED BY <1>5, <2>1, <2>2
<1>. HIDE DEF g
<1>6. ASSUME NEW w \in g.todo \cap visited, g.child = NoNode, LowerRep(g.node, w),
             calls' = Append(Front(calls), [g EXCEPT !.todo = @ \ {w}])
      PROVE  LookedAt(w)
  <2> DEFINE f == [g EXCEPT !.todo = @ \ {w}]
  <2>1. f \in Frame /\ f.node = g.node /\ f.todo = g.todo \ {w} /\ f.child = NoNode
    BY <1>1, <1>6 DEF Frame
  <2>. HIDE DEF f
  <2>2. calls' = Append(Front(calls), f)
    BY <1>6 DEF f
  <2>. QED BY <1>1, <1>4, <1>5, <1>6, <2>1, <2>2 DEF LookedAt, g
<1>7. ASSUME g.child # NoNode, LowerRep(g.node, g.child), g.child \in visited,
             calls' = Append(Front(calls), [g EXCEPT !.child = NoNode])
      PROVE  LookedAt(g.child)
  <2> DEFINE f == [g EXCEPT !.child = NoNode]
  <2>1. f \in Frame /\ f.node = g.node /\ f.todo = g.todo /\ f.child = NoNode
    BY <1>1, <1>7 DEF Frame
  <2>. HIDE DEF f
  <2>2. calls' = Append(Front(calls), f)
    BY <1>7 DEF f
  <2>. QED BY <1>1, <1>4, <1>5, <1>7, <2>1, <2>2 DEF LookedAt, g
<1>. QED BY <1>1, <1>3, <1>4, <1>6, <1>7 DEF g

LEMMA LeftShape ==
  ASSUME TypeInv, EndVisit
  PROVE  Left
<1>1. calls # <<>> /\ Depth > 0 /\ Top(calls) = calls[Depth] /\ Depth \in Nat
  <2>1. calls # <<>> /\ Top(calls) = calls[Depth]
    BY DEF EndVisit, Depth, Top
  <2>. QED BY <2>1, FrameTypes
<1>2. /\ calls' \in Seq(Frame) /\ Len(calls') = Depth - 1
      /\ \A i \in 1..Depth - 1 : calls'[i] = calls[i]
  <2>1. calls \in Seq(Frame) /\ calls' = Front(calls)
    BY DEF TypeInv, EndVisit
  <2>. QED BY <1>1, <2>1, FrontProperties DEF Depth
<1>. QED BY <1>1, <1>2 DEF Left, EndVisit

-----------------------------------------------------------------------------
(* What the invariant says of a single state.                              *)
Current == calls[Depth].node

LEMMA StateFacts ==
  ASSUME SCCInv
  PROVE  /\ Open \subseteq visited /\ visited \subseteq Node /\ inSCC \subseteq visited
         /\ visited = Open \cup inSCC /\ Open \cap inSCC = {}
         /\ clock \in Nat
         /\ \A x \in Node : stamp[x] \in Nat
         /\ \A x : Successors(x) \subseteq Node
         /\ \A x \in visited : rep[x] \in visited
         /\ \A x \in Node : subNodes[x] \subseteq Node
         /\ NoNode \notin Node
         /\ Depth \in Nat /\ DOMAIN calls = 1..Depth
<1>. USE DEF SCCInv
<1>1. \A x \in visited : rep[x] \in visited
  BY DEF RepInv, Open, TypeInv
<1>. QED BY <1>1, GraphTypes, FrameTypes DEF TypeInv, Open

LEMMA ActiveFacts ==
  ASSUME SCCInv
  PROVE  /\ Active \subseteq Open
         /\ \A x : x \in Active <=> \E i \in 1..Depth : x = calls[i].node
         /\ \A i, j \in 1..Depth : calls[i].node = calls[j].node => i = j
         /\ Depth = 0 => Active = {} /\ Open = {}
         /\ Depth > 0 => /\ Current \in Active /\ Depth \in 1..Depth
                         /\ \A a \in Active : stamp[a] <= stamp[Current]
                         /\ \A i \in 1..Depth : i # Depth => stamp[calls[i].node] < stamp[Current]
<1>. USE DEF SCCInv
<1>1. Depth \in Nat /\ DOMAIN calls = 1..Depth
  BY StateFacts
<1>2. \A x : x \in Active <=> \E i \in 1..Depth : x = calls[i].node
  BY <1>1 DEF Active
<1>3. Active \subseteq Open
  BY <1>1, <1>2 DEF CallsInv
<1>4. \A i, j \in 1..Depth : i < j => stamp[calls[i].node] < stamp[calls[j].node]
  BY <1>1 DEF CallsInv
<1>5. \A i \in 1..Depth : stamp[calls[i].node] \in Nat
  BY <1>2, <1>3, StateFacts
<1>6. ASSUME NEW i \in 1..Depth, NEW j \in 1..Depth, calls[i].node = calls[j].node PROVE i = j
  <2>1. i < j \/ j < i \/ i = j
    BY <1>1
  <2>. QED BY <1>4, <1>5, <1>6, <2>1
<1>7. Depth = 0 => Active = {} /\ Open = {}
  BY <1>2 DEF ReachInv
<1>8. ASSUME Depth > 0
      PROVE  /\ Current \in Active /\ Depth \in 1..Depth
             /\ \A a \in Active : stamp[a] <= stamp[Current]
             /\ \A i \in 1..Depth : i # Depth => stamp[calls[i].node] < stamp[Current]
  <2>1. Depth \in 1..Depth
    BY <1>1, <1>8
  <2>2. \A i \in 1..Depth : i # Depth => i < Depth
    BY <1>1
  <2>3. \A i \in 1..Depth : i # Depth => stamp[calls[i].node] < stamp[Current]
    BY <1>4, <2>1, <2>2 DEF Current
  <2>4. \A i \in 1..Depth : stamp[calls[i].node] <= stamp[Current]
    BY <1>5, <2>1, <2>3 DEF Current
  <2>. QED BY <1>2, <2>1, <2>3, <2>4 DEF Current
<1>. QED BY <1>2, <1>3, <1>6, <1>7, <1>8

(* The node of the topmost call reaches all that is active and as young,   *)
(* and every open node that is as young reaches it.                        *)
LEMMA CurrentReached ==
  ASSUME SCCInv, Depth > 0, NEW x \in Open, stamp[Current] <= stamp[x]
  PROVE  x \in ReachableFrom(Current) /\ Current \in ReachableFrom(x)
<1>. USE DEF SCCInv
<1>1. Current \in Active /\ Current \in Open
  BY ActiveFacts
<1>2. x \in ReachableFrom(Current)
  BY <1>1 DEF ReachInv
<1>3. PICK a \in Active : stamp[a] <= stamp[x] /\ a \in ReachableFrom(x)
  BY DEF ReachInv
<1>4. Current \in ReachableFrom(a)
  BY <1>1, <1>3, ActiveFacts DEF ReachInv
<1>. QED BY <1>2, <1>3, <1>4, ReachTransitive

LEMMA ClosedWithin ==
  ASSUME SCCInv, NEW x \in inSCC
  PROVE  ReachableFrom(x) \subseteq inSCC
BY StateFacts, ReachWithin DEF SCCInv, ClosedInv

(* What a visit changes as it begins.                                      *)
LEMMA EnteredFacts ==
  ASSUME SCCInv, NEW v, Entered(v)
  PROVE  /\ v \in Node /\ v \notin visited
         /\ visited' = visited \cup {v} /\ inSCC' = inSCC /\ Open' = Open \cup {v}
         /\ Active' = Active \cup {v}
         /\ stamp'[v] = clock + 1 /\ \A x \in Node \ {v} : stamp'[x] = stamp[x]
         /\ \A x \in visited : stamp[x] < clock + 1
         /\ rep'[v] = v /\ \A x \in Node \ {v} : rep'[x] = rep[x]
         /\ subNodes'[v] = {v} /\ \A x \in Node \ {v} : subNodes'[x] = subNodes[x]
         /\ Depth > 0 => v \in Successors(Current)
         /\ Depth' = Depth + 1
         /\ \A x : ReachableFrom(x)' = ReachableFrom(x) /\ Successors(x)' = Successors(x)
<1>. USE DEF SCCInv
<1>1. v \in Node /\ v \notin visited /\ visited' = visited \cup {v} /\ inSCC' = inSCC
  BY DEF Entered, CalledFor
<1>2. Open' = Open \cup {v}
  BY <1>1, StateFacts DEF Open
<1>3. Depth' = Depth + 1 /\ DOMAIN calls' = 1..Depth + 1 /\ Depth \in Nat
  BY StateFacts DEF Entered, CalledFor, Depth
<1>4. Active' = Active \cup {v}
  <2>1. \A i \in 1..Depth + 1 : i \in 1..Depth \/ i = Depth + 1
    BY <1>3
  <2>2. \A i \in 1..Depth : i \in 1..Depth + 1 /\ calls'[i].node = calls[i].node
    BY <1>3 DEF Entered, CalledFor
  <2>3. calls'[Depth + 1].node = v /\ Depth + 1 \in 1..Depth + 1
    BY <1>3 DEF Entered, CalledFor
  <2>4. \A x : x \in Active' <=> \E i \in 1..Depth + 1 : x = calls'[i].node
    BY <1>3 DEF Active
  <2>5. \A x : x \in Active <=> \E i \in 1..Depth : x = calls[i].node
    BY ActiveFacts
  <2>6. \A x : x \in Active' <=> x \in Active \/ x = v
    BY <2>1, <2>2, <2>3, <2>4, <2>5
  <2>. QED BY <2>6
<1>5. stamp'[v] = clock + 1 /\ \A x \in Node \ {v} : stamp'[x] = stamp[x]
  BY <1>1 DEF Entered, CalledFor, TypeInv
<1>6. \A x \in visited : stamp[x] < clock + 1
  BY StateFacts DEF StampInv
<1>7. rep'[v] = v /\ \A x \in Node \ {v} : rep'[x] = rep[x]
  BY <1>1 DEF Entered, CalledFor, TypeInv, SetRep
<1>8. subNodes'[v] = {v} /\ \A x \in Node \ {v} : subNodes'[x] = subNodes[x]
  BY <1>1 DEF Entered, CalledFor, SubInv, SetRep
<1>9. Depth > 0 => v \in Successors(Current)
  BY ActiveFacts, StateFacts DEF Entered, CalledFor, CallsInv, Current
<1>10. \A x : ReachableFrom(x)' = ReachableFrom(x) /\ Successors(x)' = Successors(x)
  BY ReachStable DEF Entered, CalledFor
<1>. QED BY <1>1, <1>2, <1>3, <1>4, <1>5, <1>6, <1>7, <1>8, <1>9, <1>10

(* What looking at a successor w changes: at most the representative of    *)
(* the current node, for one that is as old and that it reaches.           *)
LEMMA LookedFacts ==
  ASSUME SCCInv, NEW w, LookedAt(w)
  PROVE  /\ Current \in Open /\ w \in Successors(Current) /\ w \in visited
         /\ Depth' = Depth /\ Active' = Active /\ Open' = Open
         /\ \A x \in Node \ {Current} : rep'[x] = rep[x]
         /\ rep'[Current] \in Open /\ stamp[rep'[Current]] <= stamp[rep[Current]]
         /\ rep'[Current] \in ReachableFrom(Current)
         /\ w \in inSCC \/ (w \in Open /\ stamp[rep'[Current]] <= stamp[rep[w]])
         /\ \A r \in Node : r # Current /\ r # rep'[Current] => subNodes'[r] = subNodes[r]
         /\ \A r \in Node : \A n \in subNodes'[r] :
              n \in subNodes[r] \/ (n = Current /\ r = rep'[Current])
         /\ \A r \in Node \ {Current} : subNodes[r] \subseteq subNodes'[r]
         /\ rep'[Current] = Current => Current \in subNodes'[Current]
         /\ \A x : ReachableFrom(x)' = ReachableFrom(x) /\ Successors(x)' = Successors(x)
<1>. USE DEF SCCInv
<1> DEFINE v == Current
<1>0. v = Current
  OBVIOUS
<1>1. v \in Open /\ v \in Active /\ Depth \in 1..Depth /\ v = calls[Depth].node
  BY ActiveFacts DEF LookedAt, Current
<1>2. w \in Successors(v) /\ w \in visited
  BY <1>1, StateFacts DEF LookedAt, CallsInv
<1>3. Depth' = Depth /\ Open' = Open
  BY DEF LookedAt, Depth, Open
<1>4. Active' = Active
  <2>1. DOMAIN calls' = 1..Depth /\ DOMAIN calls = 1..Depth
    BY StateFacts DEF LookedAt
  <2>. QED BY <2>1 DEF LookedAt, Active
<1>5. LowerRep(v, w)
  BY <1>1 DEF LookedAt
<1>. HIDE DEF v
<1>6. /\ v \in Node /\ rep[v] \in Open /\ rep[v] \in ReachableFrom(v)
      /\ w \in Node /\ stamp[rep[v]] \in Nat
  BY <1>1, <1>2, StateFacts DEF RepInv
<1>7. \A x : ReachableFrom(x)' = ReachableFrom(x) /\ Successors(x)' = Successors(x)
  BY ReachStable DEF LookedAt
<1>8. CASE w \in inSCC
  <2>1. rep' = rep /\ subNodes' = subNodes
    BY <1>5, <1>8 DEF LowerRep
  <2>2. rep[v] = v => v \in subNodes[v]
    BY <1>1 DEF SubInv
  <2>. QED BY <1>0, <1>1, <1>2, <1>3, <1>4, <1>6, <1>7, <1>8, <2>1, <2>2
<1>9. CASE w \notin inSCC
  <2>1. w \in Open /\ rep[w] \in Open /\ rep[w] \in ReachableFrom(w) /\ stamp[rep[w]] \in Nat
    BY <1>2, <1>9, StateFacts DEF RepInv
  <2>2. PICK r \in {rep[v], rep[w]} :
          /\ SetRep(v, r)
          /\ stamp[r] <= stamp[rep[v]] /\ stamp[r] <= stamp[rep[w]]
    <3> DEFINE r == IF stamp[rep[v]] < stamp[rep[w]] THEN rep[v] ELSE rep[w]
    <3>1. SetRep(v, r)
      BY <1>5, <1>9 DEF LowerRep
    <3>2. stamp[r] <= stamp[rep[v]] /\ stamp[r] <= stamp[rep[w]] /\ r \in {rep[v], rep[w]}
      BY <1>6, <2>1
    <3>. QED BY <3>1, <3>2
  <2>3. w \in ReachableFrom(v)
    BY <1>2, <1>6, ReachItself, ReachEdge
  <2>4. r \in Open /\ r \in ReachableFrom(v) /\ r \in Node
    BY <1>6, <2>1, <2>2, <2>3, ReachTransitive, ReachTyped
  <2>5. rep'[v] = r /\ \A x \in Node \ {v} : rep'[x] = rep[x]
    BY <1>6, <2>2 DEF SetRep, TypeInv
  <2>6. \A x \in Node : subNodes'[x] = IF x = r THEN subNodes[x] \cup {v}
                                       ELSE IF x = v THEN {} ELSE subNodes[x]
    BY <2>2 DEF SetRep
  <2>7. \A x \in Node : x # v /\ x # r => subNodes'[x] = subNodes[x]
    BY <2>6
  <2>8. \A x \in Node : \A n \in subNodes'[x] : n \in subNodes[x] \/ (n = v /\ x = r)
    BY <2>6
  <2>9. \A x \in Node \ {v} : subNodes[x] \subseteq subNodes'[x]
    BY <2>6
  <2>10. r = v => v \in subNodes'[v]
    BY <1>6, <2>6
  <2>. QED BY <1>0, <1>1, <1>2, <1>3, <1>4, <1>7, <2>1, <2>2, <2>4, <2>5, <2>7, <2>8, <2>9, <2>10
<1>. QED BY <1>8, <1>9

(* What the end of a visit leaves of the calls.                            *)
LEMMA LeftFacts ==
  ASSUME SCCInv, Left
  PROVE  /\ Current \in Open /\ Current \in Active
         /\ \A a \in Active : stamp[a] <= stamp[Current]
         /\ Depth \in Nat \ {0} /\ Depth' = Depth - 1
         /\ Active' = Active \ {Current}
         /\ \A x : ReachableFrom(x)' = ReachableFrom(x) /\ Successors(x)' = Successors(x)
<1>. USE DEF SCCInv
<1>1. /\ Current \in Open /\ Current \in Active /\ Depth \in 1..Depth
      /\ \A a \in Active : stamp[a] <= stamp[Current]
  BY ActiveFacts DEF Left
<1>2. Depth \in Nat \ {0} /\ Depth' = Depth - 1 /\ DOMAIN calls' = 1..Depth - 1
  BY StateFacts DEF Left, Depth
<1>3. Active' = Active \ {Current}
  <2>1. \A x : x \in Active' <=> \E i \in 1..Depth - 1 : x = calls'[i].node
    BY <1>2 DEF Active
  <2>2. \A i \in 1..Depth - 1 : calls'[i] = calls[i] /\ i \in 1..Depth /\ i # Depth
    BY <1>2 DEF Left
  <2>3. \A i \in 1..Depth : i # Depth => i \in 1..Depth - 1
    BY <1>2
  <2>4. \A x : x \in Active <=> \E i \in 1..Depth : x = calls[i].node
    BY ActiveFacts
  <2>5. \A i \in 1..Depth : calls[i].node = Current => i = Depth
    BY <1>1, ActiveFacts DEF Current
  <2>6. \A x : x \in Active' <=> x \in Active /\ x # Current
    BY <2>1, <2>2, <2>3, <2>4, <2>5 DEF Current
  <2>. QED BY <2>6
<1>4. \A x : ReachableFrom(x)' = ReachableFrom(x) /\ Successors(x)' = Successors(x)
  BY ReachStable DEF Left
<1>. QED BY <1>1, <1>2, <1>3, <1>4

(* Younger cuts the internal stack at the current node's age.              *)
LEMMA YoungerFacts ==
  ASSUME SCCInv, Depth > 0
  PROVE  /\ Younger(Current).kept \in Seq(Node)
         /\ ToSet(Younger(Current).kept) = {x \in ToSet(SS) : stamp[x] <= stamp[Current]}
         /\ Younger(Current).popped = {x \in ToSet(SS) : stamp[Current] < stamp[x]}
         /\ Len(Younger(Current).kept) <= Len(SS)
         /\ \A i \in DOMAIN Younger(Current).kept :
              i \in DOMAIN SS /\ Younger(Current).kept[i] = SS[i]
<1>. USE DEF SCCInv
<1> DEFINE v == Current
           n == Len(SS)
           oldest == {i \in DOMAIN SS : stamp[SS[i]] <= stamp[v]}
           k == IF oldest = {} THEN 0 ELSE CHOOSE i \in oldest : \A j \in oldest : j <= i
           kept == SubSeq(SS, 1, k)
           rest == SubSeq(SS, k + 1, n)
<1>1. v \in Active /\ v \in Node /\ stamp[v] \in Nat
  BY ActiveFacts, StateFacts
<1>2. n \in Nat /\ DOMAIN SS = 1..n /\ \A i \in 1..n : SS[i] \in Node /\ stamp[SS[i]] \in Nat
  BY StateFacts DEF TypeInv
<1>3. Younger(Current) = [kept |-> kept, popped |-> ToSet(rest)]
  BY DEF Younger
<1>4. /\ k \in Nat /\ k <= n
      /\ \A j \in oldest : j <= k
      /\ k # 0 => k \in oldest
  <2>1. CASE oldest = {}
    BY <1>2, <2>1
  <2>2. CASE oldest # {}
    <3>1. oldest \in SUBSET (1..n)
      BY <1>2
    <3>2. \E i \in oldest : \A j \in oldest : j <= i
      BY <1>2, <2>2, <3>1, Greatest
    <3>3. k \in oldest /\ \A j \in oldest : j <= k
      BY <2>2, <3>2
    <3>. QED BY <1>2, <3>1, <3>3
  <2>. QED BY <2>1, <2>2
<1>. HIDE DEF k
<1>5. ASSUME NEW i \in 1..n PROVE i <= k <=> stamp[SS[i]] <= stamp[v]
  <2>1. stamp[SS[i]] <= stamp[v] => i <= k
    BY <1>2, <1>4, <1>5
  <2>2. ASSUME i <= k, stamp[v] < stamp[SS[i]] PROVE FALSE
    <3>1. k \in 1..n /\ stamp[SS[k]] <= stamp[v]
      BY <1>2, <1>4, <1>5, <2>2
    <3>2. i < k
      <4>1. i # k
        BY <1>1, <1>2, <2>2, <3>1
      <4>. QED BY <1>4, <2>2, <4>1
    <3>3. stamp[v] < stamp[SS[k]]
      BY <1>1, <1>2, <2>2, <3>1, <3>2 DEF StackInv
    <3>. QED BY <1>1, <1>2, <3>1, <3>3
  <2>. QED BY <1>1, <1>2, <2>1, <2>2
<1>. HIDE DEF oldest, k, n, v
<1>6. \A i \in 1..n : SS[i] \in Node
  BY <1>2
<1>7. \A i \in 1..k : i \in 1..n
  BY <1>2, <1>4
<1>8. /\ kept \in Seq(Node)
      /\ Len(kept) = IF 1 <= k THEN k - 1 + 1 ELSE 0
      /\ \A i \in 1..k - 1 + 1 : kept[i] = SS[1 + i - 1]
  <2>1. \A i \in 1..k : SS[i] \in Node
    BY <1>6, <1>7
  <2>. QED BY <1>4, <2>1, SubSeqProperties
<1>9. /\ rest \in Seq(Node)
      /\ Len(rest) = IF k + 1 <= n THEN n - (k + 1) + 1 ELSE 0
      /\ \A i \in 1..n - (k + 1) + 1 : rest[i] = SS[k + 1 + i - 1]
  <2>1. \A i \in k + 1..n : SS[i] \in Node /\ i \in 1..n
    BY <1>2, <1>4, <1>6
  <2>. QED BY <1>2, <1>4, <2>1, SubSeqProperties
<1>. HIDE DEF kept, rest
<1>10. Len(kept) = k /\ DOMAIN kept = 1..k /\ \A i \in 1..k : kept[i] = SS[i]
  <2>1. Len(kept) = k /\ k - 1 + 1 = k /\ \A i \in 1..k : 1 + i - 1 = i
    BY <1>4, <1>8
  <2>. QED BY <1>8, <2>1
<1>11. Len(rest) = n - k /\ DOMAIN rest = 1..n - k /\ \A i \in 1..n - k : rest[i] = SS[k + i]
  <2>1. Len(rest) = n - k /\ n - (k + 1) + 1 = n - k /\ \A i \in 1..n - k : k + 1 + i - 1 = k + i
    BY <1>2, <1>4, <1>9
  <2>. QED BY <1>9, <2>1
<1>12. \A x : x \in ToSet(SS) <=> \E i \in 1..n : x = SS[i]
  BY <1>2 DEF ToSet
<1>13. \A x : x \in ToSet(kept) <=> \E i \in 1..k : x = SS[i]
  BY <1>10 DEF ToSet
<1>14. \A x : x \in ToSet(rest) <=> \E i \in k + 1..n : x = SS[i]
  <2>1. \A x : x \in ToSet(rest) <=> \E i \in 1..n - k : x = SS[k + i]
    BY <1>11 DEF ToSet
  <2>2. \A i \in 1..n - k : k + i \in k + 1..n
    BY <1>2, <1>4
  <2>3. \A i \in k + 1..n : i - k \in 1..n - k /\ k + (i - k) = i
    BY <1>2, <1>4
  <2>. QED BY <2>1, <2>2, <2>3
<1>15. ToSet(kept) = {x \in ToSet(SS) : stamp[x] <= stamp[v]}
  <2>1. \A i \in 1..n : i \in 1..k <=> stamp[SS[i]] <= stamp[v]
    BY <1>2, <1>4, <1>5
  <2>2. \A x : x \in ToSet(kept) <=> x \in ToSet(SS) /\ stamp[x] <= stamp[v]
    BY <1>7, <1>12, <1>13, <2>1
  <2>. QED BY <2>2
<1>16. ToSet(rest) = {x \in ToSet(SS) : stamp[v] < stamp[x]}
  <2>1. \A i \in 1..n : i \in k + 1..n <=> stamp[v] < stamp[SS[i]]
    BY <1>1, <1>2, <1>4, <1>5
  <2>2. \A i \in k + 1..n : i \in 1..n
    BY <1>2, <1>4
  <2>3. \A x : x \in ToSet(rest) <=> x \in ToSet(SS) /\ stamp[v] < stamp[x]
    BY <1>12, <1>14, <2>1, <2>2
  <2>. QED BY <2>3
<1>17. \A i \in DOMAIN kept : i \in DOMAIN SS /\ kept[i] = SS[i]
  BY <1>2, <1>7, <1>10
<1>. QED BY <1>3, <1>4, <1>8, <1>10, <1>15, <1>16, <1>17 DEF v, n

(* The component that a current node which is its own representative       *)
(* closes: whatever is open and as young.                                  *)
Closing == {x \in Open : stamp[Current] <= stamp[x]}

LEMMA CloseFacts ==
  ASSUME SCCInv, Left, CloseComponent(Current)
  PROVE  /\ rep[Current] = Current /\ Current \in Closing
         /\ inSCC' = inSCC \cup Closing /\ visited' = visited
         /\ Open' = {x \in Open : stamp[x] < stamp[Current]}
         /\ Open' \cap Closing = {} /\ Open = Open' \cup Closing
         /\ \A x \in Closing : rep'[x] = Current
         /\ \A x \in Node \ Closing : rep'[x] = rep[x] /\ subNodes'[x] = subNodes[x]
         /\ subNodes'[Current] = subNodes[Current] \cup Closing
         /\ \A x \in Closing \ {Current} : subNodes'[x] = {}
         /\ SS' = Younger(Current).kept
         /\ T' = Append(T, Current) /\ repNodes' = repNodes \cup {Current}
         /\ stamp' = stamp
<1>. USE DEF SCCInv
<1> DEFINE v == Current
           popped == Younger(Current).popped
<1>0. v = Current
  OBVIOUS
<1>1. v \in Open /\ v \in Active /\ (\A a \in Active : stamp[a] <= stamp[v]) /\ Depth > 0
  BY LeftFacts DEF Left
<1>2. v \in Node /\ \A x \in Open : x \in Node /\ stamp[x] \in Nat
  BY <1>1, StateFacts
<1>3. popped = Closing \ {v}
  <2>1. popped = {x \in Open \ Active : stamp[v] < stamp[x]}
    BY <1>1, YoungerFacts DEF StackInv
  <2>2. \A x \in Open : x # v => stamp[x] # stamp[v]
    BY <1>1, StateFacts DEF StampInv
  <2>3. ASSUME NEW x \in Open PROVE x \in popped <=> stamp[v] <= stamp[x] /\ x # v
    BY <1>1, <1>2, <2>1, <2>2, <2>3
  <2>. QED BY <2>1, <2>3 DEF Closing
<1>4. /\ rep[v] = v
      /\ inSCC' = inSCC \cup {v} \cup popped
      /\ rep' = [n \in Node |-> IF n \in popped THEN v ELSE rep[n]]
      /\ subNodes' = [n \in Node |-> IF n = v THEN subNodes[n] \cup popped
                                     ELSE IF n \in popped THEN {} ELSE subNodes[n]]
      /\ SS' = Younger(Current).kept
      /\ T' = Append(T, v)
      /\ repNodes' = repNodes \cup {v}
  BY DEF CloseComponent, PushTopo
<1>5. v \in Closing /\ Closing \subseteq Open
  BY <1>1, <1>2 DEF Closing
<1>6. visited' = visited /\ stamp' = stamp
  BY DEF Left
<1>. HIDE DEF popped, v
<1>7. inSCC' = inSCC \cup Closing
  BY <1>3, <1>4, <1>5
<1>8. Open' = Open \ Closing
  BY <1>6, <1>7 DEF Open
<1>9. Open' = {x \in Open : stamp[x] < stamp[v]}
  BY <1>1, <1>2, <1>8 DEF Closing, v
<1>10. \A x \in Closing : rep'[x] = v
  BY <1>2, <1>3, <1>4, <1>5
<1>11. \A x \in Node \ Closing : rep'[x] = rep[x] /\ subNodes'[x] = subNodes[x]
  BY <1>3, <1>4, <1>5
<1>12. v \in subNodes[v]
  BY <1>1, <1>4 DEF SubInv
<1>13. subNodes'[v] = subNodes[v] \cup Closing /\ \A x \in Closing \ {v} : subNodes'[x] = {}
  BY <1>2, <1>3, <1>4, <1>5, <1>12
<1>. QED BY <1>0, <1>4, <1>5, <1>6, <1>7, <1>8, <1>9, <1>10, <1>11, <1>13

-----------------------------------------------------------------------------
(* The invariant is inductive: a visit begins.                             *)
LEMMA EnteredKeeps ==
  ASSUME SCCInv, NEW v, Entered(v)
  PROVE  SCCInv'
<1>. USE DEF SCCInv
<1>1. /\ v \in Node /\ v \notin visited
      /\ visited' = visited \cup {v} /\ inSCC' = inSCC /\ Open' = Open \cup {v}
      /\ Active' = Active \cup {v}
      /\ stamp'[v] = clock + 1 /\ \A x \in Node \ {v} : stamp'[x] = stamp[x]
      /\ \A x \in visited : stamp[x] < clock + 1
      /\ rep'[v] = v /\ \A x \in Node \ {v} : rep'[x] = rep[x]
      /\ subNodes'[v] = {v} /\ \A x \in Node \ {v} : subNodes'[x] = subNodes[x]
      /\ Depth > 0 => v \in Successors(Current)
      /\ Depth' = Depth + 1
  BY EnteredFacts
<1>2. \A x : ReachableFrom(x)' = ReachableFrom(x) /\ Successors(x)' = Successors(x)
  BY EnteredFacts
<1>3. /\ Open \subseteq visited /\ visited \subseteq Node /\ inSCC \subseteq visited
      /\ visited = Open \cup inSCC /\ Open \cap inSCC = {}
      /\ clock \in Nat /\ (\A x \in Node : stamp[x] \in Nat)
      /\ (\A x \in visited : rep[x] \in visited)
      /\ NoNode \notin Node /\ Depth \in Nat /\ DOMAIN calls = 1..Depth
      /\ \A x : Successors(x) \subseteq Node
  BY StateFacts
<1>4. \A x \in visited : x # v /\ stamp'[x] = stamp[x] /\ rep'[x] = rep[x]
                         /\ subNodes'[x] = subNodes[x] /\ stamp'[rep[x]] = stamp[rep[x]]
  BY <1>1, <1>3
<1>5. TypeInv'
  <2>1. stamp' \in [Node -> Nat]
    BY <1>1, <1>3 DEF Entered, TypeInv
  <2>2. rep' \in [Node -> Node \cup {NoNode}] /\ subNodes' \in [Node -> SUBSET Node]
    BY <1>1 DEF Entered, SetRep, TypeInv
  <2>. QED BY <1>1, <1>3, <2>1, <2>2 DEF Entered, CalledFor, TypeInv
<1>6. StampInv'
  <2>1. clock' = clock + 1
    BY DEF Entered
  <2>2. \A x \in visited : 1 <= stamp'[x] /\ stamp'[x] <= clock
    BY <1>4 DEF StampInv
  <2>3. \A x, y \in visited : stamp'[x] = stamp'[y] => x = y
    BY <1>4 DEF StampInv
  <2>4. \A x \in visited : stamp'[x] \in Nat
    BY <1>3, <1>4
  <2>. QED BY <1>1, <1>3, <2>1, <2>2, <2>3, <2>4 DEF StampInv
<1>7. /\ calls'[Depth + 1] = [node |-> v, todo |-> Successors(v), child |-> NoNode]
      /\ \A i \in 1..Depth : /\ calls'[i].node = calls[i].node
                             /\ i < Depth => calls'[i] = calls[i]
      /\ Depth > 0 => /\ calls[Depth].child = NoNode
                      /\ v \in calls[Depth].todo
                      /\ calls'[Depth].todo = calls[Depth].todo \ {v}
                      /\ calls'[Depth].child = v
      /\ DOMAIN calls' = 1..Depth + 1 /\ Len(calls') = Depth + 1
  BY <1>3 DEF Entered, CalledFor
<1>8. \A i \in 1..Depth + 1 : i \in 1..Depth \/ i = Depth + 1
  BY <1>3
<1>9. \A i \in 1..Depth : i < Depth \/ (i = Depth /\ Depth > 0)
  BY <1>3
<1>10. \A i \in 1..Depth : calls[i].node \in Active /\ calls[i].node \in visited
  BY <1>3, ActiveFacts
<1>11. CallsInv'
  <2>1. ASSUME NEW i \in 1..Depth
        PROVE  /\ calls'[i].node \in Open'
               /\ calls'[i].todo \subseteq Successors(calls'[i].node)
               /\ calls'[i].child # NoNode =>
                    /\ calls'[i].child \in visited' \cap Successors(calls'[i].node)
                    /\ stamp'[calls'[i].node] < stamp'[calls'[i].child]
               /\ calls'[i].child = calls'[i + 1].node
               /\ \A j \in 1..Depth + 1 : i < j => stamp'[calls'[i].node] < stamp'[calls'[j].node]
    <3>1. /\ calls[i].node \in Open
          /\ calls[i].todo \subseteq Successors(calls[i].node)
          /\ calls[i].child # NoNode =>
               /\ calls[i].child \in visited \cap Successors(calls[i].node)
               /\ stamp[calls[i].node] < stamp[calls[i].child]
          /\ i < Depth => calls[i].child = calls[i + 1].node
          /\ \A j \in 1..Depth : i < j => stamp[calls[i].node] < stamp[calls[j].node]
      BY <1>3 DEF CallsInv, Depth
    <3>2. calls'[i].node = calls[i].node /\ calls[i].node \in visited
      BY <1>7, <1>10
    <3>3. calls'[i].node \in Open'
      BY <1>1, <3>1, <3>2
    <3>4. \A j \in 1..Depth + 1 : i < j => stamp'[calls'[i].node] < stamp'[calls'[j].node]
      BY <1>1, <1>4, <1>7, <1>8, <1>10, <3>1, <3>2
    <3>5. CASE i < Depth
      <4>1. calls'[i] = calls[i] /\ i + 1 \in 1..Depth
        BY <1>3, <1>7, <3>5
      <4>2. calls'[i].child = calls'[i + 1].node
        BY <1>7, <3>1, <3>5, <4>1
      <4>3. calls'[i].child # NoNode => stamp'[calls'[i].node] < stamp'[calls'[i].child]
        BY <1>4, <3>1, <3>2, <4>1
      <4>. QED BY <1>1, <3>1, <3>2, <3>3, <3>4, <4>1, <4>2, <4>3
    <3>6. CASE i = Depth /\ Depth > 0
      <4>1. calls'[i].todo = calls[i].todo \ {v} /\ calls'[i].child = v /\ v \in calls[i].todo
        BY <1>7, <3>6
      <4>2. calls'[i + 1].node = v
        BY <1>7, <3>6
      <4>3. stamp'[calls'[i].node] < stamp'[v]
        BY <1>1, <1>4, <3>2
      <4>. QED BY <1>1, <3>1, <3>2, <3>3, <3>4, <4>1, <4>2, <4>3
    <3>. QED BY <1>9, <3>5, <3>6
  <2>2. /\ calls'[Depth + 1].node = v /\ calls'[Depth + 1].todo = Successors(v)
        /\ calls'[Depth + 1].child = NoNode /\ v \in Open'
        /\ ~(Depth + 1 < Depth + 1) /\ \A j \in 1..Depth + 1 : ~(Depth + 1 < j)
    BY <1>1, <1>3, <1>7
  <2>3. \A i \in 1..Depth + 1 :
          /\ calls'[i].node \in Open'
          /\ calls'[i].todo \subseteq Successors(calls'[i].node)
          /\ calls'[i].child # NoNode =>
               /\ calls'[i].child \in visited' \cap Successors(calls'[i].node)
               /\ stamp'[calls'[i].node] < stamp'[calls'[i].child]
          /\ i < Depth + 1 => calls'[i].child = calls'[i + 1].node
          /\ \A j \in 1..Depth + 1 : i < j => stamp'[calls'[i].node] < stamp'[calls'[j].node]
    <3>. SUFFICES ASSUME NEW i \in 1..Depth + 1
                  PROVE  /\ calls'[i].node \in Open'
                         /\ calls'[i].todo \subseteq Successors(calls'[i].node)
                         /\ calls'[i].child # NoNode =>
                              /\ calls'[i].child \in visited' \cap Successors(calls'[i].node)
                              /\ stamp'[calls'[i].node] < stamp'[calls'[i].child]
                         /\ i < Depth + 1 => calls'[i].child = calls'[i + 1].node
                         /\ \A j \in 1..Depth + 1 :
                              i < j => stamp'[calls'[i].node] < stamp'[calls'[j].node]
      OBVIOUS
    <3>1. CASE i \in 1..Depth
      BY <2>1, <3>1
    <3>2. CASE i = Depth + 1
      BY <2>2, <3>2
    <3>. QED BY <1>8, <3>1, <3>2
  <2>4. \A x : Successors(x)' = Successors(x)
    BY <1>2
  <2>. QED BY <1>7, <2>3, <2>4 DEF CallsInv
<1>12. StackInv'
  <2>1. SS' = SS
    BY DEF Entered
  <2>2. ToSet(SS) = Open \ Active /\ ToSet(SS)' = ToSet(SS)
    BY <2>1 DEF StackInv, ToSet
  <2>3. ToSet(SS)' = Open' \ Active'
    BY <1>1, <1>3, <2>2
  <2>4. \A i \in DOMAIN SS : SS[i] \in visited
    BY <1>3, <2>2 DEF ToSet
  <2>5. \A a \in Active' : \A i, j \in DOMAIN SS :
          i < j /\ stamp'[a] < stamp'[SS[i]] => stamp'[a] < stamp'[SS[j]]
    <3>. SUFFICES ASSUME NEW a \in Active', NEW i \in DOMAIN SS, NEW j \in DOMAIN SS, i < j,
                         stamp'[a] < stamp'[SS[i]]
                  PROVE  stamp'[a] < stamp'[SS[j]]
      OBVIOUS
    <3>1. CASE a = v
      BY <1>1, <1>3, <1>4, <2>4, <3>1
    <3>2. CASE a \in Active
      BY <1>3, <1>4, <2>4, <3>2, ActiveFacts DEF StackInv
    <3>. QED BY <1>1, <3>1, <3>2
  <2>. QED BY <2>1, <2>3, <2>5 DEF StackInv
<1>13. Active \subseteq visited
  BY <1>3, ActiveFacts
<1>14. ReachInv'
  <2>1. ASSUME NEW a \in Active', NEW y \in Open', stamp'[a] <= stamp'[y]
        PROVE  y \in ReachableFrom(a)
    <3>1. CASE a = v
      <4>1. y = v
        BY <1>1, <1>3, <1>4, <2>1, <3>1
      <4>. QED BY <1>1, <3>1, <4>1, ReachItself
    <3>2. CASE a # v /\ y # v
      <4>1. a \in Active /\ y \in Open /\ stamp[a] <= stamp[y]
        BY <1>1, <1>3, <1>4, <1>13, <2>1, <3>2
      <4>. QED BY <4>1 DEF ReachInv
    <3>3. CASE a # v /\ y = v
      <4>1. a \in Active /\ Depth > 0
        BY <1>1, <1>3, <3>3, ActiveFacts
      <4>2. Current \in ReachableFrom(a)
        BY <4>1, ActiveFacts DEF ReachInv
      <4>. QED BY <1>1, <1>3, <1>13, <3>3, <4>1, <4>2, ReachEdge
    <3>. QED BY <3>1, <3>2, <3>3
  <2>2. ASSUME NEW y \in Open'
        PROVE  \E a \in Active' : stamp'[a] <= stamp'[y] /\ a \in ReachableFrom(y)
    <3>1. CASE y = v
      BY <1>1, <1>3, <3>1, ReachItself
    <3>2. CASE y \in Open
      <4>1. PICK a \in Active : stamp[a] <= stamp[y] /\ a \in ReachableFrom(y)
        BY <3>2 DEF ReachInv
      <4>. QED BY <1>1, <1>3, <1>4, <1>13, <3>2, <4>1
    <3>. QED BY <1>1, <3>1, <3>2
  <2>3. ASSUME NEW x \in visited' PROVE \E c \in candidates : x \in ReachableFrom(c)
    <3>1. CASE x \in visited
      BY <3>1 DEF ReachInv
    <3>2. CASE x = v /\ Depth = 0
      <4>1. v \in candidates
        BY <3>2 DEF Entered, CalledFor
      <4>. QED BY <1>1, <3>2, <4>1, ReachItself
    <3>3. CASE x = v /\ Depth > 0
      <4>1. Current \in visited
        BY <1>13, <3>3, ActiveFacts
      <4>2. PICK c \in candidates : Current \in ReachableFrom(c)
        BY <4>1 DEF ReachInv
      <4>3. c \in Node
        BY DEF TypeInv
      <4>. QED BY <1>1, <3>3, <4>2, <4>3, ReachEdge
    <3>. QED BY <1>1, <1>3, <3>1, <3>2, <3>3
  <2>4. candidates' = candidates
    BY DEF Entered
  <2>. QED BY <1>2, <2>1, <2>2, <2>3, <2>4 DEF ReachInv
<1>15. RepInv'
  <2>1. \A x \in Open : /\ rep[x] \in Open /\ stamp[rep[x]] <= stamp[x]
                        /\ rep[x] \in ReachableFrom(x)
    BY DEF RepInv
  <2>2. \A x \in inSCC : rep[x] \in inSCC
    BY DEF RepInv
  <2>3. v \in ReachableFrom(v)
    BY <1>1, ReachItself
  <2>4. \A x \in Open' : /\ rep'[x] \in Open' /\ stamp'[rep'[x]] <= stamp'[x]
                         /\ rep'[x] \in ReachableFrom(x)
    BY <1>1, <1>3, <1>4, <2>1, <2>3
  <2>5. \A x \in inSCC' : rep'[x] \in inSCC'
    BY <1>1, <1>3, <1>4, <2>2
  <2>. QED BY <1>2, <2>4, <2>5 DEF RepInv
<1>16. LowInv'
  <2>1. ASSUME NEW x \in Open', NEW w \in Successors(x)
        PROVE  \/ w \in inSCC'
               \/ w \in Open' /\ stamp'[rep'[x]] <= stamp'[w]
               \/ Pending(x, w)'
    <3>1. CASE x = v
      <4>1. Depth + 1 \in DOMAIN calls' /\ calls'[Depth + 1].node = v
            /\ calls'[Depth + 1].todo = Successors(v)
        BY <1>3, <1>7
      <4>. QED BY <2>1, <3>1, <4>1 DEF Pending
    <3>2. CASE x \in Open /\ w \in Open /\ stamp[rep[x]] <= stamp[w]
      BY <1>1, <1>3, <1>4, <3>2
    <3>3. CASE x \in Open /\ Pending(x, w)
      <4>1. PICK i \in 1..Depth : calls[i].node = x /\ (w \in calls[i].todo \/ w = calls[i].child)
        BY <1>3, <3>3 DEF Pending
      <4>2. i \in DOMAIN calls' /\ calls'[i].node = x
        BY <1>3, <1>7, <4>1
      <4>3. w # NoNode
        BY <1>3
      <4>4. w \in calls'[i].todo \/ w = calls'[i].child
        BY <1>7, <1>9, <4>1, <4>3
      <4>. QED BY <4>2, <4>4 DEF Pending
    <3>4. CASE x \in Open /\ w \in inSCC
      BY <1>1, <3>4
    <3>. QED BY <1>1, <3>1, <3>2, <3>3, <3>4 DEF LowInv
  <2>2. ASSUME NEW i \in 1..Depth + 1, NEW y \in Open',
               stamp'[calls'[i].node] <= stamp'[y],
               calls'[i].child = NoNode \/ stamp'[y] < stamp'[calls'[i].child]
        PROVE  stamp'[rep'[calls'[i].node]] <= stamp'[rep'[y]]
    <3>1. CASE i = Depth + 1
      <4>1. calls'[i].node = v
        BY <1>7, <3>1
      <4>2. y = v
        BY <1>1, <1>3, <1>4, <2>2, <4>1
      <4>. QED BY <1>1, <1>3, <4>1, <4>2
    <3>2. CASE i \in 1..Depth
      <4>1. calls'[i].node = calls[i].node /\ calls[i].node \in visited
        BY <1>7, <1>10, <3>2
      <4>2. calls'[i].child # NoNode
            /\ stamp'[calls'[i].child] <= stamp'[v] /\ stamp'[calls'[i].child] \in Nat
            /\ (i < Depth => calls'[i].child = calls[i].child
                             /\ calls[i].child \in visited)
            /\ (i = Depth => calls[i].child = NoNode)
        <5>1. CASE i < Depth
          <6>1. calls'[i].child = calls[i + 1].node /\ calls'[i].child = calls[i].child
                /\ i + 1 \in 1..Depth
            BY <1>3, <1>7, <3>2, <5>1 DEF CallsInv, Depth
          <6>2. calls[i + 1].node \in visited
            BY <1>10, <6>1
          <6>. QED BY <1>1, <1>3, <1>4, <5>1, <6>1, <6>2
        <5>2. CASE i = Depth /\ Depth > 0
          BY <1>1, <1>3, <1>7, <5>2
        <5>. QED BY <1>9, <3>2, <5>1, <5>2
      <4>3. y \in Open /\ y # v
        BY <1>1, <1>3, <1>4, <2>2, <3>2, <4>2
      <4>4. stamp[calls[i].node] <= stamp[y]
        BY <1>3, <1>4, <2>2, <4>1, <4>3
      <4>5. calls[i].child = NoNode \/ stamp[y] < stamp[calls[i].child]
        BY <1>3, <1>4, <1>9, <2>2, <3>2, <4>2, <4>3
      <4>6. stamp[rep[calls[i].node]] <= stamp[rep[y]]
        BY <1>3, <3>2, <4>3, <4>4, <4>5 DEF LowInv
      <4>. QED BY <1>3, <1>4, <4>1, <4>3, <4>6
    <3>. QED BY <1>8, <3>1, <3>2
  <2>3. Top(calls)'.child = NoNode
    BY <1>7 DEF Top
  <2>4. \A x : Successors(x)' = Successors(x)
    BY <1>2
  <2>. QED BY <1>7, <2>1, <2>2, <2>3, <2>4 DEF LowInv
<1>17. ClosedInv'
  BY <1>1, <1>2, <1>3, <1>4 DEF ClosedInv
<1>18. SubInv'
  <2>1. \A r \in Node \ visited' : subNodes'[r] = {}
    BY <1>1 DEF SubInv
  <2>2. repNodes' = repNodes /\ {n \in inSCC' : rep'[n] = v} = {}
    BY <1>1, <1>3, <1>4 DEF Entered
  <2>3. ASSUME NEW r \in inSCC'
        PROVE  subNodes'[r] = IF r \in repNodes' THEN {n \in inSCC' : rep'[n] = r} ELSE {}
    <3>1. r \in inSCC /\ subNodes'[r] = subNodes[r]
      BY <1>1, <1>3, <1>4
    <3>2. {n \in inSCC' : rep'[n] = r} = {n \in inSCC : rep[n] = r}
      BY <1>1, <1>3, <1>4
    <3>. QED BY <2>2, <3>1, <3>2 DEF SubInv
  <2>4. ASSUME NEW r \in Open', NEW n \in subNodes'[r]
        PROVE  n \in Open' /\ stamp'[rep'[n]] <= stamp'[r] /\ stamp'[r] <= stamp'[n]
    <3>1. CASE r = v
      BY <1>1, <1>3, <2>4, <3>1
    <3>2. CASE r \in Open
      <4>1. n \in Open /\ stamp[rep[n]] <= stamp[r] /\ stamp[r] <= stamp[n]
        BY <1>3, <1>4, <2>4, <3>2 DEF SubInv
      <4>. QED BY <1>1, <1>3, <1>4, <3>2, <4>1
    <3>. QED BY <1>1, <3>1, <3>2
  <2>5. ASSUME NEW x \in Open', rep'[x] = x PROVE x \in subNodes'[x]
    <3>1. CASE x = v
      BY <1>1, <3>1
    <3>2. CASE x \in Open
      BY <1>3, <1>4, <2>5, <3>2 DEF SubInv
    <3>. QED BY <1>1, <3>1, <3>2
  <2>. QED BY <2>1, <2>3, <2>4, <2>5 DEF SubInv
<1>19. TopoInv'
  <2>1. repNodes' = repNodes /\ T' = T
    BY DEF Entered
  <2>2. {rep'[n] : n \in inSCC'} = {rep[n] : n \in inSCC}
    BY <1>1, <1>3, <1>4
  <2>. QED BY <1>2, <2>1, <2>2 DEF TopoInv, ToSet
<1>. QED BY <1>5, <1>6, <1>11, <1>12, <1>14, <1>15, <1>16, <1>17, <1>18, <1>19

(* A visit looks at a successor that has been visited.                     *)
LEMMA LookedKeeps ==
  ASSUME SCCInv, NEW w, LookedAt(w)
  PROVE  SCCInv'
<1>. USE DEF SCCInv
<1> DEFINE v == Current
<1>1. /\ v \in Open /\ w \in Successors(v) /\ w \in visited
      /\ Depth' = Depth /\ Active' = Active /\ Open' = Open
      /\ \A x \in Node \ {v} : rep'[x] = rep[x]
      /\ rep'[v] \in Open /\ stamp[rep'[v]] <= stamp[rep[v]]
      /\ rep'[v] \in ReachableFrom(v)
      /\ w \in inSCC \/ (w \in Open /\ stamp[rep'[v]] <= stamp[rep[w]])
  BY LookedFacts
<1>2. /\ \A r \in Node : r # v /\ r # rep'[v] => subNodes'[r] = subNodes[r]
      /\ \A r \in Node : \A n \in subNodes'[r] : n \in subNodes[r] \/ (n = v /\ r = rep'[v])
      /\ \A r \in Node \ {v} : subNodes[r] \subseteq subNodes'[r]
      /\ rep'[v] = v => v \in subNodes'[v]
  BY LookedFacts
<1>3. \A x : ReachableFrom(x)' = ReachableFrom(x) /\ Successors(x)' = Successors(x)
  BY LookedFacts
<1>4. /\ Open \subseteq visited /\ visited \subseteq Node /\ inSCC \subseteq visited
      /\ visited = Open \cup inSCC /\ Open \cap inSCC = {}
      /\ (\A x \in Node : stamp[x] \in Nat)
      /\ (\A x \in visited : rep[x] \in visited)
      /\ NoNode \notin Node /\ Depth \in Nat /\ DOMAIN calls = 1..Depth
      /\ \A x : Successors(x) \subseteq Node
  BY StateFacts
<1>5. UNCHANGED <<edges, candidates, clock, stamp, visited, inSCC, SS, T, repNodes>>
  BY DEF LookedAt
<1>6. /\ DOMAIN calls' = 1..Depth /\ Len(calls') = Depth /\ Depth \in 1..Depth
      /\ \A i \in 1..Depth : /\ calls'[i].node = calls[i].node
                             /\ i < Depth => calls'[i] = calls[i]
      /\ calls'[Depth].child = NoNode
      /\ \/ /\ w \in calls[Depth].todo /\ calls[Depth].child = NoNode
            /\ calls'[Depth].todo = calls[Depth].todo \ {w}
         \/ /\ w = calls[Depth].child /\ w # NoNode
            /\ calls'[Depth].todo = calls[Depth].todo
      /\ v = calls[Depth].node
  BY <1>4 DEF LookedAt, Current
<1>7. \A i \in 1..Depth : i < Depth \/ i = Depth
  BY <1>4
<1>8. \A i, j \in 1..Depth : calls[i].node = calls[j].node => i = j
  BY ActiveFacts
<1>. HIDE DEF v
<1>9. TypeInv'
  <2>1. LowerRep(v, w) => rep' \in [Node -> Node \cup {NoNode}]
                          /\ subNodes' \in [Node -> SUBSET Node]
    <3>1. rep[v] \in Node /\ rep[w] \in Node /\ v \in Node
      BY <1>1, <1>4
    <3>2. ASSUME NEW r \in Node, SetRep(v, r)
          PROVE  rep' \in [Node -> Node \cup {NoNode}] /\ subNodes' \in [Node -> SUBSET Node]
      BY <3>1, <3>2 DEF SetRep, TypeInv
    <3>3. rep \in [Node -> Node \cup {NoNode}] /\ subNodes \in [Node -> SUBSET Node]
      BY DEF TypeInv
    <3>. QED BY <3>1, <3>2, <3>3 DEF LowerRep
  <2>2. LowerRep(v, w)
    BY <1>6 DEF LookedAt
  <2>. QED BY <1>5, <2>1, <2>2 DEF LookedAt, TypeInv
<1>10. StampInv'
  BY <1>5 DEF StampInv
<1>11. CallsInv'
  <2>1. ASSUME NEW i \in 1..Depth
        PROVE  /\ calls'[i].node \in Open'
               /\ calls'[i].todo \subseteq Successors(calls'[i].node)
               /\ calls'[i].child # NoNode =>
                    /\ calls'[i].child \in visited' \cap Successors(calls'[i].node)
                    /\ stamp'[calls'[i].node] < stamp'[calls'[i].child]
               /\ i < Depth => calls'[i].child = calls'[i + 1].node
               /\ \A j \in 1..Depth : i < j => stamp'[calls'[i].node] < stamp'[calls'[j].node]
    <3>1. /\ calls[i].node \in Open
          /\ calls[i].todo \subseteq Successors(calls[i].node)
          /\ calls[i].child # NoNode =>
               /\ calls[i].child \in visited \cap Successors(calls[i].node)
               /\ stamp[calls[i].node] < stamp[calls[i].child]
          /\ i < Depth => calls[i].child = calls[i + 1].node
          /\ \A j \in 1..Depth : i < j => stamp[calls[i].node] < stamp[calls[j].node]
      BY <1>4 DEF CallsInv, Depth
    <3>2. \A j \in 1..Depth : calls'[j].node = calls[j].node
      BY <1>6
    <3>3. /\ calls'[i].node \in Open'
          /\ \A j \in 1..Depth : i < j => stamp'[calls'[i].node] < stamp'[calls'[j].node]
      BY <1>1, <1>5, <3>1, <3>2
    <3>4. CASE i < Depth
      <4>1. calls'[i] = calls[i] /\ i + 1 \in 1..Depth
        BY <1>4, <1>6, <3>4
      <4>2. calls'[i].child = calls'[i + 1].node
        BY <3>1, <3>2, <3>4, <4>1
      <4>. QED BY <1>5, <3>1, <3>3, <4>1, <4>2
    <3>5. CASE i = Depth
      <4>1. calls'[i].todo \subseteq calls[i].todo /\ calls'[i].child = NoNode
        BY <1>6, <3>5
      <4>2. ~(i < Depth)
        BY <1>4, <3>5
      <4>. QED BY <3>1, <3>2, <3>3, <4>1, <4>2
    <3>. QED BY <1>7, <3>4, <3>5
  <2>. QED BY <1>3, <1>6, <2>1 DEF CallsInv
<1>12. StackInv'
  BY <1>1, <1>5 DEF StackInv, ToSet
<1>13. ReachInv'
  BY <1>1, <1>3, <1>5 DEF ReachInv
<1>14. RepInv'
  <2>1. ASSUME NEW x \in Open
        PROVE  rep'[x] \in Open /\ stamp[rep'[x]] <= stamp[x] /\ rep'[x] \in ReachableFrom(x)
    <3>1. rep[x] \in Open /\ stamp[rep[x]] <= stamp[x] /\ rep[x] \in ReachableFrom(x)
      BY DEF RepInv
    <3>2. stamp[x] \in Nat /\ stamp[rep[x]] \in Nat /\ stamp[rep'[v]] \in Nat
      BY <1>1, <1>4
    <3>. QED BY <1>1, <1>4, <3>1, <3>2
  <2>2. \A x \in inSCC : rep'[x] \in inSCC
    BY <1>1, <1>4 DEF RepInv
  <2>. QED BY <1>1, <1>3, <1>5, <2>1, <2>2 DEF RepInv
<1>15. \A x \in Open : stamp[rep'[x]] <= stamp[rep[x]] /\ stamp[rep'[x]] \in Nat /\ stamp[rep[x]] \in Nat
  <2>1. \A x \in Open : stamp[rep[x]] \in Nat
    BY <1>4
  <2>2. stamp[rep'[v]] \in Nat
    BY <1>1, <1>4
  <2>. QED BY <1>1, <1>4, <2>1, <2>2
<1>16. LowInv'
  <2>1. ASSUME NEW x \in Open, NEW y \in Successors(x)
        PROVE  \/ y \in inSCC
               \/ y \in Open /\ stamp[rep'[x]] <= stamp[y]
               \/ Pending(x, y)'
    <3>0. y \in Node
      BY <1>4
    <3>1. CASE y \in Open /\ stamp[rep[x]] <= stamp[y]
      BY <1>4, <1>15, <3>0, <3>1
    <3>2. CASE Pending(x, y)
      <4>1. PICK i \in 1..Depth : calls[i].node = x /\ (y \in calls[i].todo \/ y = calls[i].child)
        BY <1>4, <3>2 DEF Pending
      <4>2. i \in DOMAIN calls' /\ calls'[i].node = x
        BY <1>4, <1>6, <4>1
      <4>3. y # NoNode
        BY <1>4
      <4>4. CASE i = Depth /\ y = w
        <5>1. x = v
          BY <1>6, <4>1, <4>4
        <5>2. w \in Open => stamp[rep[w]] <= stamp[w] /\ stamp[rep[w]] \in Nat /\ stamp[w] \in Nat
          BY <1>4 DEF RepInv
        <5>. QED BY <1>1, <1>15, <4>4, <5>1, <5>2
      <4>5. CASE i < Depth \/ y # w
        <5>1. y \in calls'[i].todo \/ y = calls'[i].child
          BY <1>6, <1>7, <4>1, <4>3, <4>5
        <5>. QED BY <4>2, <5>1 DEF Pending
      <4>. QED BY <1>7, <4>4, <4>5
    <3>. QED BY <3>1, <3>2 DEF LowInv
  <2>2. ASSUME NEW i \in 1..Depth, NEW y \in Open,
               stamp[calls[i].node] <= stamp[y],
               calls'[i].child = NoNode \/ stamp[y] < stamp[calls'[i].child]
        PROVE  stamp[rep'[calls[i].node]] <= stamp[rep'[y]]
    <3>1. CASE i < Depth
      <4>1. calls'[i] = calls[i] /\ i + 1 \in 1..Depth /\ calls[i].child = calls[i + 1].node
        BY <1>4, <1>6, <3>1 DEF CallsInv, Depth
      <4>2. /\ calls[i].node # v
            /\ calls[i].node \in Open /\ calls[i + 1].node \in Open
            /\ stamp[calls[i + 1].node] <= stamp[v]
        BY <1>4, <1>6, <1>8, <3>1, <4>1, ActiveFacts DEF v
      <4>3. calls[i + 1].node # NoNode
        BY <1>4, <4>2
      <4>4. y # v
        BY <1>4, <2>2, <4>1, <4>2, <4>3
      <4>5. stamp[rep[calls[i].node]] <= stamp[rep[y]]
        BY <1>4, <2>2, <4>1 DEF LowInv
      <4>. QED BY <1>1, <1>4, <4>2, <4>4, <4>5
    <3>2. CASE i = Depth
      <4>1. calls[i].node = v
        BY <1>6, <3>2
      <4>2. CASE y = v
        BY <1>15, <4>1, <4>2
      <4>3. CASE y # v /\ (calls[i].child = NoNode \/ stamp[y] < stamp[calls[i].child])
        <5>1. stamp[rep[v]] <= stamp[rep[y]]
          BY <1>4, <2>2, <4>1, <4>3 DEF LowInv
        <5>2. rep'[y] = rep[y]
          BY <1>1, <1>4, <4>3
        <5>3. stamp[rep'[v]] <= stamp[rep[v]] /\ stamp[rep'[v]] \in Nat /\ stamp[rep[v]] \in Nat
              /\ stamp[rep[y]] \in Nat
          BY <1>1, <1>15
        <5>. QED BY <4>1, <5>1, <5>2, <5>3
      <4>4. CASE y # v /\ calls[i].child # NoNode /\ ~(stamp[y] < stamp[calls[i].child])
        <5>1. w = calls[Depth].child /\ w \in Node
          BY <1>1, <1>4, <1>6, <3>2, <4>4
        <5>2. stamp[w] <= stamp[y]
          BY <1>4, <3>2, <4>4, <5>1
        <5>3. w \in Open /\ stamp[rep[w]] <= stamp[rep[y]]
          BY <1>4, <3>2, <4>4, <5>1, <5>2 DEF LowInv, Top, Depth
        <5>4. stamp[rep'[v]] <= stamp[rep[w]] /\ stamp[rep[w]] \in Nat /\ stamp[rep[y]] \in Nat
              /\ stamp[rep'[v]] \in Nat
          BY <1>1, <1>4, <1>15, <5>3
        <5>5. rep'[y] = rep[y]
          BY <1>1, <1>4, <4>4
        <5>. QED BY <4>1, <5>3, <5>4, <5>5
      <4>. QED BY <4>2, <4>3, <4>4
    <3>. QED BY <1>7, <3>1, <3>2
  <2>3. \A i \in 1..Depth : calls'[i].node = calls[i].node
    BY <1>6
  <2>4. Top(calls)'.child = NoNode
    BY <1>6 DEF Top
  <2>. QED BY <1>1, <1>3, <1>5, <1>6, <2>1, <2>2, <2>3, <2>4 DEF LowInv
<1>17. \A x \in inSCC : rep'[x] = rep[x] /\ subNodes'[x] = subNodes[x]
  BY <1>1, <1>2, <1>4
<1>18. ClosedInv'
  BY <1>3, <1>5, <1>17 DEF ClosedInv
<1>19. SubInv'
  <2>1. \A r \in Node \ visited : subNodes'[r] = {}
    BY <1>1, <1>2, <1>4 DEF SubInv
  <2>2. \A r \in inSCC :
          subNodes'[r] = IF r \in repNodes THEN {n \in inSCC : rep'[n] = r} ELSE {}
    <3>1. \A r \in inSCC : {n \in inSCC : rep'[n] = r} = {n \in inSCC : rep[n] = r}
      BY <1>17
    <3>. QED BY <1>17, <3>1 DEF SubInv
  <2>3. ASSUME NEW r \in Open, NEW n \in subNodes'[r]
        PROVE  n \in Open /\ stamp[rep'[n]] <= stamp[r] /\ stamp[r] <= stamp[n]
    <3>1. CASE n \in subNodes[r]
      <4>1. n \in Open /\ stamp[rep[n]] <= stamp[r] /\ stamp[r] <= stamp[n]
        BY <3>1 DEF SubInv
      <4>. QED BY <1>4, <1>15, <4>1
    <3>2. CASE n = v /\ r = rep'[v]
      <4>1. stamp[rep'[v]] <= stamp[rep[v]] /\ stamp[rep[v]] <= stamp[v]
        BY <1>1 DEF RepInv
      <4>2. stamp[rep'[v]] \in Nat /\ stamp[rep[v]] \in Nat /\ stamp[v] \in Nat
        BY <1>1, <1>4, <1>15
      <4>. QED BY <1>1, <3>2, <4>1, <4>2
    <3>. QED BY <1>2, <1>4, <2>3, <3>1, <3>2
  <2>4. ASSUME NEW x \in Open, rep'[x] = x PROVE x \in subNodes'[x]
    <3>1. CASE x = v
      BY <1>2, <2>4, <3>1
    <3>2. CASE x # v
      BY <1>1, <1>2, <1>4, <2>4, <3>2 DEF SubInv
    <3>. QED BY <3>1, <3>2
  <2>. QED BY <1>1, <1>5, <2>1, <2>2, <2>3, <2>4 DEF SubInv
<1>20. TopoInv'
  <2>1. {rep'[n] : n \in inSCC} = {rep[n] : n \in inSCC}
    BY <1>17
  <2>. QED BY <1>3, <1>5, <2>1 DEF TopoInv, ToSet
<1>. QED BY <1>9, <1>10, <1>11, <1>12, <1>13, <1>14, <1>16, <1>18, <1>19, <1>20

(* A visit ends; what that leaves of the calls keeps what is said of them. *)
LEMMA LeftCalls ==
  ASSUME SCCInv, Left
  PROVE  /\ DOMAIN calls' = 1..Depth - 1 /\ Len(calls') = Depth - 1
         /\ \A i \in 1..Depth - 1 :
              /\ i \in 1..Depth /\ calls'[i] = calls[i]
              /\ calls[i].node # Current /\ calls[i].node \in Active'
         /\ \A i \in 1..Depth : i = Depth \/ i \in 1..Depth - 1
         /\ Depth > 1 => /\ calls[Depth - 1].child = Current /\ Depth - 1 \in 1..Depth - 1
                         /\ Top(calls)' = calls[Depth - 1]
         /\ Depth = 1 => calls' = <<>>
         /\ \A w : w \in Node => ~Pending(Current, w)
         /\ \A x, w : x # Current /\ Pending(x, w) => Pending(x, w)'
         /\ StampInv'
         /\ Active' \subseteq Open' => CallsInv'
<1>. USE DEF SCCInv
<1>1. Depth \in Nat \ {0} /\ DOMAIN calls = 1..Depth /\ Depth \in 1..Depth /\ NoNode \notin Node
  BY LeftFacts, StateFacts
<1>2. /\ calls' \in Seq(Frame) /\ Len(calls') = Depth - 1
      /\ \A i \in 1..Depth - 1 : calls'[i] = calls[i]
      /\ calls[Depth].todo = {} /\ calls[Depth].child = NoNode
  BY DEF Left
<1>3. DOMAIN calls' = 1..Depth - 1
  BY <1>1, <1>2
<1>4. \A i \in 1..Depth : i = Depth \/ i \in 1..Depth - 1
  BY <1>1
<1>5. \A i \in 1..Depth - 1 : i \in 1..Depth /\ i # Depth
  BY <1>1
<1>6. \A i \in 1..Depth - 1 : calls[i].node # Current /\ calls[i].node \in Active'
  <2>1. \A i \in 1..Depth - 1 : calls[i].node # Current
    BY <1>1, <1>5, ActiveFacts DEF Current
  <2>. QED BY <1>5, <2>1, ActiveFacts, LeftFacts
<1>7. Depth > 1 => /\ calls[Depth - 1].child = Current /\ Depth - 1 \in 1..Depth - 1
                   /\ Top(calls)' = calls[Depth - 1]
  <2>. SUFFICES ASSUME Depth > 1
                PROVE  /\ calls[Depth - 1].child = Current /\ Depth - 1 \in 1..Depth - 1
                       /\ Top(calls)' = calls[Depth - 1]
    OBVIOUS
  <2>1. Depth - 1 \in 1..Depth - 1 /\ Depth - 1 + 1 = Depth /\ Depth - 1 < Depth
        /\ Depth - 1 \in 1..Depth
    BY <1>1
  <2>2. calls[Depth - 1].child = calls[Depth - 1 + 1].node
    BY <1>1, <2>1 DEF CallsInv, Depth
  <2>. QED BY <1>2, <2>1, <2>2 DEF Current, Top
<1>8. Depth = 1 => calls' = <<>>
  BY <1>2
<1>9. \A w : w \in Node => ~Pending(Current, w)
  <2>1. \A i \in 1..Depth : calls[i].node = Current => i = Depth
    BY <1>1, ActiveFacts DEF Current
  <2>. QED BY <1>1, <1>2, <2>1 DEF Pending
<1>10. \A x, w : x # Current /\ Pending(x, w) => Pending(x, w)'
  <2>. SUFFICES ASSUME NEW x, NEW w, x # Current, Pending(x, w) PROVE Pending(x, w)'
    OBVIOUS
  <2>1. PICK i \in 1..Depth : calls[i].node = x /\ (w \in calls[i].todo \/ w = calls[i].child)
    BY <1>1 DEF Pending
  <2>2. i \in 1..Depth - 1
    BY <1>4, <2>1 DEF Current
  <2>. QED BY <1>2, <1>3, <2>1, <2>2 DEF Pending
<1>11. StampInv'
  BY DEF Left, StampInv
<1>12. ASSUME Active' \subseteq Open' PROVE CallsInv'
  <2>1. visited' = visited /\ stamp' = stamp
    BY DEF Left
  <2>2. \A i \in 1..Depth - 1 :
          /\ calls[i].todo \subseteq Successors(calls[i].node)
          /\ calls[i].child # NoNode =>
               /\ calls[i].child \in visited \cap Successors(calls[i].node)
               /\ stamp[calls[i].node] < stamp[calls[i].child]
          /\ i < Depth => calls[i].child = calls[i + 1].node
          /\ \A j \in 1..Depth - 1 : i < j => stamp[calls[i].node] < stamp[calls[j].node]
    BY <1>1, <1>5 DEF CallsInv, Depth
  <2>3. \A i \in 1..Depth - 1 : i < Depth /\ (i < Depth - 1 => i + 1 \in 1..Depth - 1)
    BY <1>1
  <2>4. \A x : Successors(x)' = Successors(x)
    BY LeftFacts
  <2>. QED BY <1>2, <1>3, <1>6, <1>12, <2>1, <2>2, <2>3, <2>4 DEF CallsInv
<1>. QED BY <1>2, <1>3, <1>4, <1>5, <1>6, <1>7, <1>8, <1>9, <1>10, <1>11, <1>12

(* The node is not its own representative and stays open.                  *)
LEMMA LeftOpenKeeps ==
  ASSUME SCCInv, Left, LeaveOpen(Current)
  PROVE  SCCInv'
<1>. USE DEF SCCInv
<1> DEFINE v == Current
<1>1. /\ v \in Open /\ v \in Active /\ (\A a \in Active : stamp[a] <= stamp[v])
      /\ Depth \in Nat \ {0} /\ Active' = Active \ {v}
  BY LeftFacts
<1>2. \A x : ReachableFrom(x)' = ReachableFrom(x) /\ Successors(x)' = Successors(x)
  BY LeftFacts
<1>3. /\ rep[v] # v /\ SS' = Append(SS, v)
      /\ UNCHANGED <<inSCC, rep, subNodes, T, repNodes>>
      /\ UNCHANGED <<edges, candidates, clock, stamp, visited>>
  BY DEF Left, LeaveOpen
<1>4. /\ Open \subseteq visited /\ visited \subseteq Node
      /\ (\A x \in Node : stamp[x] \in Nat) /\ (\A x \in visited : rep[x] \in visited)
      /\ \A x : Successors(x) \subseteq Node
  BY StateFacts
<1>5. Open' = Open /\ Active \subseteq Open
  BY <1>3, ActiveFacts DEF Open
<1>6. v = calls[Depth].node /\ DOMAIN calls = 1..Depth /\ Depth \in 1..Depth
  BY <1>1, StateFacts DEF Current
<1>7. /\ DOMAIN calls' = 1..Depth - 1 /\ Len(calls') = Depth - 1
      /\ \A i \in 1..Depth - 1 :
           /\ i \in 1..Depth /\ calls'[i] = calls[i]
           /\ calls[i].node # v /\ calls[i].node \in Active'
      /\ Depth > 1 => /\ calls[Depth - 1].child = v /\ Top(calls)' = calls[Depth - 1]
      /\ Depth = 1 => calls' = <<>>
      /\ \A w : w \in Node => ~Pending(v, w)
      /\ \A x, w : x # v /\ Pending(x, w) => Pending(x, w)'
  BY LeftCalls
<1>8. CallsInv' /\ StampInv'
  BY <1>1, <1>5, LeftCalls
<1>. HIDE DEF v
<1>9. TypeInv'
  BY <1>1, <1>3, <1>4 DEF TypeInv, Left
<1>10. StackInv'
  <2>1. /\ ToSet(SS)' = ToSet(SS) \cup {v} /\ Len(SS) \in Nat
        /\ DOMAIN SS = 1..Len(SS) /\ DOMAIN SS' = 1..Len(SS) + 1
        /\ SS'[Len(SS) + 1] = v /\ \A i \in 1..Len(SS) : SS'[i] = SS[i]
    <3>1. SS \in Seq(Node) /\ v \in Node
      BY <1>1, <1>4 DEF TypeInv
    <3>2. /\ Len(SS) \in Nat /\ DOMAIN SS = 1..Len(SS) /\ DOMAIN SS' = 1..Len(SS) + 1
          /\ SS'[Len(SS) + 1] = v /\ \A i \in 1..Len(SS) : SS'[i] = SS[i]
      BY <1>3, <3>1, AppendIt
    <3>3. \A i \in 1..Len(SS) + 1 : i \in 1..Len(SS) \/ i = Len(SS) + 1
      BY <3>2
    <3>4. \A i \in 1..Len(SS) : i \in 1..Len(SS) + 1
      BY <3>2
    <3>5. Len(SS) + 1 \in 1..Len(SS) + 1
      BY <3>2
    <3>6. \A x : x \in ToSet(SS)' <=> x \in ToSet(SS) \/ x = v
      BY <3>2, <3>3, <3>4, <3>5 DEF ToSet
    <3>. QED BY <3>2, <3>6
  <2>2. ToSet(SS)' = Open \ Active'
    BY <1>1, <2>1 DEF StackInv
  <2>3. ASSUME NEW a \in Active', NEW i \in 1..Len(SS) + 1, NEW j \in 1..Len(SS) + 1,
               i < j, stamp[a] < stamp[SS'[i]]
        PROVE  stamp[a] < stamp[SS'[j]]
    <3>1. i \in 1..Len(SS)
      BY <2>1, <2>3
    <3>2. CASE j \in 1..Len(SS)
      <4>1. a \in Active /\ stamp[a] < stamp[SS[i]] /\ SS'[j] = SS[j]
        BY <1>1, <2>1, <2>3, <3>1, <3>2
      <4>. QED BY <2>1, <2>3, <3>1, <3>2, <4>1 DEF StackInv
    <3>3. CASE j = Len(SS) + 1
      <4>1. a \in Active /\ a # v /\ stamp[a] <= stamp[v] /\ stamp[a] # stamp[v]
        BY <1>1, <1>4, <1>5, <2>3 DEF StampInv
      <4>2. stamp[a] \in Nat /\ stamp[v] \in Nat
        BY <1>1, <1>4, <1>5, <4>1
      <4>. QED BY <2>1, <3>3, <4>1, <4>2
    <3>. QED BY <2>1, <3>2, <3>3
  <2>. QED BY <1>3, <1>5, <2>1, <2>2, <2>3 DEF StackInv
<1>11. ReachInv'
  <2>1. \A a \in Active' : \A y \in Open : stamp[a] <= stamp[y] => y \in ReachableFrom(a)
    BY <1>1 DEF ReachInv
  <2>2. ASSUME NEW y \in Open
        PROVE  \E a \in Active' : stamp[a] <= stamp[y] /\ a \in ReachableFrom(y)
    <3>1. PICK a \in Active : stamp[a] <= stamp[y] /\ a \in ReachableFrom(y)
      BY DEF ReachInv
    <3>2. CASE a # v
      BY <1>1, <3>1, <3>2
    <3>3. CASE a = v
      <4>1. rep[v] \in Open /\ stamp[rep[v]] <= stamp[v] /\ rep[v] \in ReachableFrom(v)
        BY <1>1 DEF RepInv
      <4>2. stamp[rep[v]] # stamp[v]
        BY <1>1, <1>3, <1>4, <4>1 DEF StampInv
      <4>3. PICK b \in Active : stamp[b] <= stamp[rep[v]] /\ b \in ReachableFrom(rep[v])
        BY <4>1 DEF ReachInv
      <4>4. stamp[b] \in Nat /\ stamp[rep[v]] \in Nat /\ stamp[v] \in Nat /\ stamp[y] \in Nat
        BY <1>1, <1>4, <1>5, <4>1
      <4>5. b # v /\ stamp[b] <= stamp[y]
        BY <3>1, <3>3, <4>1, <4>2, <4>3, <4>4
      <4>6. b \in ReachableFrom(y)
        BY <3>1, <3>3, <4>1, <4>3, ReachTransitive
      <4>. QED BY <1>1, <4>5, <4>6
    <3>. QED BY <3>2, <3>3
  <2>. QED BY <1>2, <1>3, <1>5, <2>1, <2>2 DEF ReachInv
<1>12. RepInv'
  BY <1>2, <1>3, <1>5 DEF RepInv
<1>13. LowInv'
  <2>1. ASSUME NEW x \in Open, NEW w \in Successors(x)
        PROVE  w \in inSCC \/ (w \in Open /\ stamp[rep[x]] <= stamp[w]) \/ Pending(x, w)'
    <3>1. w \in Node
      BY <1>4
    <3>2. Pending(x, w) => Pending(x, w)'
      BY <1>7, <3>1
    <3>. QED BY <3>2 DEF LowInv
  <2>2. \A i \in 1..Depth - 1 : \A y \in Open :
          /\ stamp[calls[i].node] <= stamp[y]
          /\ calls[i].child = NoNode \/ stamp[y] < stamp[calls[i].child]
          => stamp[rep[calls[i].node]] <= stamp[rep[y]]
    BY <1>6, <1>7 DEF LowInv
  <2>3. \A y \in Open : stamp[v] <= stamp[y] => stamp[rep[v]] <= stamp[rep[y]]
    BY <1>6 DEF LowInv, Left
  <2>4. calls' # <<>> => Top(calls)'.child = v
    BY <1>1, <1>7
  <2>. QED BY <1>1, <1>2, <1>3, <1>5, <1>7, <2>1, <2>2, <2>3, <2>4 DEF LowInv
<1>14. ClosedInv'
  BY <1>2, <1>3 DEF ClosedInv
<1>15. SubInv'
  BY <1>3, <1>5 DEF SubInv
<1>16. TopoInv'
  BY <1>2, <1>3 DEF TopoInv, ToSet
<1>. QED BY <1>8, <1>9, <1>10, <1>11, <1>12, <1>13, <1>14, <1>15, <1>16

(* The node is its own representative and closes its component.            *)
LEMMA ClosedKeeps ==
  ASSUME SCCInv, Left, CloseComponent(Current)
  PROVE  SCCInv'
<1>. USE DEF SCCInv
<1> DEFINE v == Current
<1>1. /\ v \in Open /\ v \in Active /\ (\A a \in Active : stamp[a] <= stamp[v])
      /\ Depth \in Nat \ {0} /\ Active' = Active \ {v}
  BY LeftFacts
<1>2. \A x : ReachableFrom(x)' = ReachableFrom(x) /\ Successors(x)' = Successors(x)
  BY LeftFacts
<1>3. /\ rep[v] = v /\ v \in Closing
      /\ inSCC' = inSCC \cup Closing /\ visited' = visited /\ stamp' = stamp
      /\ Open' = {x \in Open : stamp[x] < stamp[v]}
      /\ Open' \cap Closing = {} /\ Open = Open' \cup Closing
      /\ \A x \in Closing : rep'[x] = v
      /\ \A x \in Node \ Closing : rep'[x] = rep[x] /\ subNodes'[x] = subNodes[x]
      /\ subNodes'[v] = subNodes[v] \cup Closing
      /\ \A x \in Closing \ {v} : subNodes'[x] = {}
  BY CloseFacts
<1>4. SS' = Younger(v).kept /\ T' = Append(T, v) /\ repNodes' = repNodes \cup {v}
  BY CloseFacts
<1>5. /\ Open \subseteq visited /\ visited \subseteq Node /\ inSCC \subseteq visited
      /\ visited = Open \cup inSCC /\ Open \cap inSCC = {}
      /\ (\A x \in Node : stamp[x] \in Nat) /\ (\A x \in visited : rep[x] \in visited)
      /\ \A x : Successors(x) \subseteq Node
  BY StateFacts
<1>6. v = calls[Depth].node /\ DOMAIN calls = 1..Depth /\ Depth \in 1..Depth
  BY <1>1, StateFacts DEF Current
<1>7. /\ DOMAIN calls' = 1..Depth - 1 /\ Len(calls') = Depth - 1
      /\ \A i \in 1..Depth - 1 :
           /\ i \in 1..Depth /\ calls'[i] = calls[i]
           /\ calls[i].node # v /\ calls[i].node \in Active'
      /\ Depth > 1 => /\ calls[Depth - 1].child = v /\ Top(calls)' = calls[Depth - 1]
      /\ Depth = 1 => calls' = <<>>
      /\ \A w : w \in Node => ~Pending(v, w)
      /\ \A x, w : x # v /\ Pending(x, w) => Pending(x, w)'
      /\ \A i \in 1..Depth : i = Depth \/ i \in 1..Depth - 1
  BY LeftCalls
<1>8. Active' \subseteq Open'
  <2>1. \A a \in Active : a \in Open /\ (a # v => stamp[a] # stamp[v])
    BY <1>1, <1>5, ActiveFacts DEF StampInv
  <2>2. \A a \in Active : a # v => stamp[a] < stamp[v]
    BY <1>1, <1>5, <2>1
  <2>. QED BY <1>1, <1>3, <2>1, <2>2
<1>9. CallsInv' /\ StampInv'
  BY <1>8, LeftCalls
<1>10. /\ \A x \in Closing : x \in Open /\ x \in Node /\ stamp[v] <= stamp[x]
       /\ \A x \in Open' : x \in Open /\ x \in Node /\ x \notin Closing /\ stamp[x] < stamp[v]
       /\ v \in Node /\ stamp[v] \in Nat
  BY <1>1, <1>3, <1>5 DEF Closing
<1>11. \A x \in Closing : x \in ReachableFrom(v) /\ v \in ReachableFrom(x)
  BY <1>1, CurrentReached DEF Closing
<1>12. \A y \in Closing : stamp[v] <= stamp[rep[y]] /\ stamp[rep[y]] \in Nat
  <2>1. \A y \in Open : stamp[v] <= stamp[y] => stamp[rep[v]] <= stamp[rep[y]]
    BY <1>6 DEF LowInv, Left
  <2>. QED BY <1>3, <1>5, <1>10, <2>1
<1>13. \A x \in inSCC : x \in Node /\ x \notin Closing /\ rep[x] \in inSCC /\ rep'[x] = rep[x]
                        /\ subNodes'[x] = subNodes[x] /\ x # v /\ rep[x] # v
  BY <1>3, <1>5, <1>10 DEF RepInv
<1>14. /\ Younger(v).kept \in Seq(Node)
       /\ ToSet(Younger(v).kept) = {x \in ToSet(SS) : stamp[x] <= stamp[v]}
       /\ \A i \in DOMAIN Younger(v).kept : i \in DOMAIN SS /\ Younger(v).kept[i] = SS[i]
  BY <1>1, YoungerFacts
<1>. HIDE DEF v
<1>15. TypeInv'
  <2>1. rep' \in [Node -> Node \cup {NoNode}] /\ subNodes' \in [Node -> SUBSET Node]
    <3>1. /\ rep' = [n \in Node |-> IF n \in Younger(v).popped THEN v ELSE rep[n]]
          /\ subNodes' = [n \in Node |-> IF n = v THEN subNodes[n] \cup Younger(v).popped
                                         ELSE IF n \in Younger(v).popped THEN {} ELSE subNodes[n]]
      BY DEF CloseComponent, v
    <3>2. \A n \in Node : rep'[n] \in Node \cup {NoNode} /\ subNodes'[n] \subseteq Node
      BY <1>3, <1>10 DEF TypeInv
    <3>. QED BY <3>1, <3>2
  <2>2. inSCC' \subseteq visited'
    BY <1>3, <1>5
  <2>3. T' \in Seq(Node) /\ repNodes' \subseteq Node
    BY <1>4, <1>10 DEF TypeInv
  <2>4. UNCHANGED <<edges, candidates, clock, stamp, visited>> /\ calls' \in Seq(Frame)
    BY DEF Left
  <2>. QED BY <1>4, <1>14, <2>1, <2>2, <2>3, <2>4 DEF TypeInv
<1>16. StackInv'
  <2>1. ToSet(SS)' = {x \in Open \ Active : stamp[x] <= stamp[v]}
    BY <1>4, <1>14 DEF StackInv, ToSet
  <2>2. \A x \in Open : x # v => stamp[x] # stamp[v]
    BY <1>1, <1>5 DEF StampInv
  <2>3. \A x : x \in ToSet(SS)' <=> x \in Open' \ Active'
    BY <1>1, <1>3, <1>5, <1>10, <2>1, <2>2
  <2>4. \A a \in Active' : \A i, j \in DOMAIN SS' :
          i < j /\ stamp[a] < stamp[SS'[i]] => stamp[a] < stamp[SS'[j]]
    BY <1>1, <1>4, <1>14 DEF StackInv
  <2>. QED BY <1>3, <2>3, <2>4 DEF StackInv
<1>17. ReachInv'
  <2>1. \A a \in Active' : \A y \in Open' : stamp[a] <= stamp[y] => y \in ReachableFrom(a)
    BY <1>1, <1>10 DEF ReachInv
  <2>2. ASSUME NEW y \in Open'
        PROVE  \E a \in Active' : stamp[a] <= stamp[y] /\ a \in ReachableFrom(y)
    <3>1. PICK a \in Active : stamp[a] <= stamp[y] /\ a \in ReachableFrom(y)
      BY <1>10 DEF ReachInv
    <3>2. a # v
      BY <1>5, <1>10, <3>1
    <3>. QED BY <1>1, <3>1, <3>2
  <2>3. candidates' = candidates
    BY DEF Left
  <2>. QED BY <1>2, <1>3, <2>1, <2>2, <2>3 DEF ReachInv
<1>18. \A x \in Open' : rep'[x] = rep[x] /\ rep[x] \in Open' /\ stamp[rep[x]] \in Nat
  <2>1. ASSUME NEW x \in Open' PROVE rep[x] \in Open' /\ stamp[rep[x]] \in Nat
    <3>1. rep[x] \in Open /\ stamp[rep[x]] <= stamp[x]
      BY <1>10 DEF RepInv
    <3>. QED BY <1>3, <1>5, <1>10, <3>1
  <2>. QED BY <1>3, <1>10, <2>1
<1>19. RepInv'
  <2>1. \A x \in Open' : /\ rep'[x] \in Open' /\ stamp[rep'[x]] <= stamp[x]
                         /\ rep'[x] \in ReachableFrom(x)
    BY <1>10, <1>18 DEF RepInv
  <2>2. \A x \in inSCC' : rep'[x] \in inSCC'
    BY <1>3, <1>13
  <2>. QED BY <1>2, <1>3, <2>1, <2>2 DEF RepInv
<1>20. LowInv'
  <2>1. ASSUME NEW x \in Open', NEW w \in Successors(x)
        PROVE  \/ w \in inSCC'
               \/ w \in Open' /\ stamp[rep'[x]] <= stamp[w]
               \/ Pending(x, w)'
    <3>1. x \in Open /\ x # v
      BY <1>3, <1>10
    <3>2. Pending(x, w) => Pending(x, w)'
      BY <1>7, <3>1
    <3>3. w \in inSCC \/ (w \in Open /\ stamp[rep[x]] <= stamp[w]) \/ Pending(x, w)
      BY <3>1 DEF LowInv
    <3>. QED BY <1>3, <1>18, <3>2, <3>3
  <2>2. ASSUME NEW i \in 1..Depth - 1, NEW y \in Open',
               stamp[calls[i].node] <= stamp[y],
               calls[i].child = NoNode \/ stamp[y] < stamp[calls[i].child]
        PROVE  stamp[rep'[calls[i].node]] <= stamp[rep'[y]]
    <3>1. stamp[rep[calls[i].node]] <= stamp[rep[y]]
      BY <1>6, <1>7, <1>10, <2>2 DEF LowInv
    <3>2. calls[i].node \in Open'
      BY <1>7, <1>8
    <3>. QED BY <1>18, <3>1, <3>2
  <2>3. calls' # <<>> => Top(calls)'.child = v
    BY <1>1, <1>7
  <2>4. \A y \in Open' : ~(stamp[v] <= stamp[y])
    BY <1>5, <1>10
  <2>. QED BY <1>2, <1>3, <1>7, <2>1, <2>2, <2>3, <2>4 DEF LowInv
<1>21. ClosedInv'
  <2>1. ASSUME NEW x \in Closing, NEW w \in Successors(x) PROVE w \in inSCC'
    <3>1. w \in Node /\ x \in Open
      BY <1>5, <1>10
    <3>2. CASE w \in inSCC
      BY <1>3, <3>2
    <3>3. CASE w \in Open /\ stamp[rep[x]] <= stamp[w]
      BY <1>3, <1>5, <1>10, <1>12, <3>1, <3>3 DEF Closing, v
    <3>4. ~Pending(x, w)
      <4>1. CASE x = v
        BY <1>7, <3>1, <4>1
      <4>2. CASE x # v
        <5>. SUFFICES ASSUME Pending(x, w) PROVE FALSE
          OBVIOUS
        <5>1. PICK i \in 1..Depth : calls[i].node = x
          BY <1>6 DEF Pending
        <5>2. i \in 1..Depth - 1
          BY <1>6, <1>7, <4>2, <5>1
        <5>3. x \in Open'
          BY <1>7, <1>8, <5>1, <5>2
        <5>. QED BY <1>3, <5>3
      <4>. QED BY <4>1, <4>2
    <3>. QED BY <3>1, <3>2, <3>3, <3>4 DEF LowInv
  <2>2. \A x \in inSCC' : Successors(x) \subseteq inSCC'
    BY <1>3, <2>1 DEF ClosedInv
  <2>3. ASSUME NEW x \in inSCC', NEW y \in inSCC'
        PROVE  rep'[x] = rep'[y] <=> (y \in ReachableFrom(x) /\ x \in ReachableFrom(y))
    <3>1. CASE x \in inSCC /\ y \in inSCC
      BY <1>13, <3>1 DEF ClosedInv
    <3>2. CASE x \in Closing /\ y \in Closing
      BY <1>3, <1>11, <3>2, ReachTransitive
    <3>3. CASE x \in inSCC /\ y \in Closing
      BY <1>3, <1>13, <3>3, ClosedWithin
    <3>4. CASE x \in Closing /\ y \in inSCC
      BY <1>3, <1>13, <3>4, ClosedWithin
    <3>. QED BY <1>3, <3>1, <3>2, <3>3, <3>4
  <2>. QED BY <1>2, <2>2, <2>3 DEF ClosedInv
<1>22. repNodes \subseteq inSCC
  BY <1>13 DEF TopoInv
<1>23. SubInv'
  <2>1. \A r \in Node \ visited : subNodes'[r] = {}
    BY <1>3, <1>5, <1>10 DEF SubInv
  <2>2. ASSUME NEW r \in inSCC'
        PROVE  subNodes'[r] = IF r \in repNodes' THEN {n \in inSCC' : rep'[n] = r} ELSE {}
    <3>1. CASE r \in inSCC
      <4>1. {n \in inSCC' : rep'[n] = r} = {n \in inSCC : rep[n] = r}
        BY <1>3, <1>13, <3>1
      <4>2. r \in repNodes' <=> r \in repNodes
        BY <1>4, <1>13, <3>1
      <4>. QED BY <1>13, <3>1, <4>1, <4>2 DEF SubInv
    <3>2. CASE r = v
      <4>1. {n \in inSCC' : rep'[n] = v} = Closing
        BY <1>3, <1>13
      <4>2. subNodes[v] \subseteq Closing
        BY <1>1 DEF SubInv, Closing, v
      <4>. QED BY <1>3, <1>4, <3>2, <4>1, <4>2
    <3>3. CASE r \in Closing /\ r # v
      BY <1>3, <1>4, <1>13, <1>22, <3>3
    <3>. QED BY <1>3, <3>1, <3>2, <3>3
  <2>3. ASSUME NEW r \in Open', NEW n \in subNodes'[r]
        PROVE  n \in Open' /\ stamp[rep'[n]] <= stamp[r] /\ stamp[r] <= stamp[n]
    <3>1. n \in Open /\ stamp[rep[n]] <= stamp[r] /\ stamp[r] <= stamp[n]
      BY <1>3, <1>10, <2>3 DEF SubInv
    <3>2. n \notin Closing
      BY <1>5, <1>10, <1>12, <3>1
    <3>. QED BY <1>3, <1>18, <3>1, <3>2
  <2>4. \A x \in Open' : rep'[x] = x => x \in subNodes'[x]
    BY <1>3, <1>10, <1>18 DEF SubInv
  <2>. QED BY <1>3, <2>1, <2>2, <2>3, <2>4 DEF SubInv
<1>24. TopoInv'
  <2>1. /\ T \in Seq(Node) /\ Len(T) \in Nat /\ DOMAIN T = 1..Len(T)
        /\ DOMAIN T' = 1..Len(T) + 1
        /\ T'[Len(T) + 1] = v /\ \A i \in 1..Len(T) : T'[i] = T[i]
    <3>1. T \in Seq(Node)
      BY DEF TypeInv
    <3>. QED BY <1>4, <1>10, <3>1, AppendIt
  <2>2. \A i \in 1..Len(T) + 1 : i \in 1..Len(T) \/ i = Len(T) + 1
    BY <2>1
  <2>3. \A i \in 1..Len(T) : i \in 1..Len(T) + 1 /\ T[i] \in inSCC
    BY <1>22, <2>1 DEF TopoInv, ToSet
  <2>4. ToSet(T)' = ToSet(T) \cup {v}
    <3>1. Len(T) + 1 \in 1..Len(T) + 1
      BY <2>1
    <3>2. \A x : x \in ToSet(T)' <=> x \in ToSet(T) \/ x = v
      BY <2>1, <2>2, <2>3, <3>1 DEF ToSet
    <3>. QED BY <3>2
  <2>5. {rep'[n] : n \in inSCC'} = {rep[n] : n \in inSCC} \cup {v}
    BY <1>3, <1>13
  <2>6. ASSUME NEW i \in 1..Len(T) + 1, NEW j \in 1..Len(T) + 1, i < j
        PROVE  T'[j] \notin ReachableFrom(T'[i])
    <3>1. i \in 1..Len(T)
      BY <2>1, <2>6
    <3>2. CASE j \in 1..Len(T)
      BY <2>1, <2>6, <3>1, <3>2 DEF TopoInv
    <3>3. CASE j = Len(T) + 1
      <4>1. ReachableFrom(T[i]) \subseteq inSCC
        BY <2>3, <3>1, ClosedWithin
      <4>. QED BY <1>13, <2>1, <3>1, <3>3, <4>1
    <3>. QED BY <2>2, <3>2, <3>3
  <2>. QED BY <1>2, <1>4, <2>1, <2>4, <2>5, <2>6 DEF TopoInv
<1>. QED BY <1>9, <1>15, <1>16, <1>17, <1>19, <1>20, <1>21, <1>23, <1>24

(* find() begins: nothing is left of the call before.                      *)
Blank ==
  /\ edges \in GraphsToSearch /\ candidates \subseteq Node /\ calls = <<>>
  /\ Cleared(clock, stamp, visited, inSCC, rep, subNodes, SS, T, repNodes)

LEMMA BlankInv == Blank => SCCInv
<1>. SUFFICES ASSUME Blank PROVE SCCInv
  OBVIOUS
<1>1. /\ edges \in GraphsToSearch /\ candidates \subseteq Node /\ calls = <<>>
      /\ clock = 0 /\ stamp = [n \in Node |-> 0] /\ visited = {} /\ inSCC = {}
      /\ rep = [n \in Node |-> NoNode] /\ subNodes = [n \in Node |-> {}]
      /\ SS = <<>> /\ T = <<>> /\ repNodes = {}
  BY DEF Blank, Cleared
<1>2. Open = {} /\ Active = {} /\ DOMAIN calls = {}
  BY <1>1 DEF Open, Active
<1>3. TypeInv
  BY <1>1 DEF TypeInv
<1>4. StampInv /\ RepInv /\ ClosedInv
  BY <1>1, <1>2 DEF StampInv, RepInv, ClosedInv
<1>5. CallsInv /\ LowInv
  BY <1>1, <1>2 DEF CallsInv, LowInv
<1>6. StackInv /\ TopoInv
  <2>1. ToSet(SS) = {} /\ ToSet(T) = {} /\ DOMAIN SS = {} /\ DOMAIN T = {}
    BY <1>1 DEF ToSet
  <2>. QED BY <1>1, <1>2, <2>1 DEF StackInv, TopoInv
<1>7. ReachInv /\ SubInv
  BY <1>1, <1>2 DEF ReachInv, SubInv
<1>. QED BY <1>3, <1>4, <1>5, <1>6, <1>7 DEF SCCInv

(* The invariant holds, whatever the graph, the candidates and the order   *)
(* in which successors are visited.                                        *)
THEOREM SCCInvariant == Spec => []SCCInv
<1>1. Init => SCCInv
  <2>1. Init => Blank
    BY DEF Init, Blank
  <2>. QED BY <2>1, BlankInv
<1>2. SCCInv /\ Find => SCCInv'
  <2>1. SCCInv /\ Find => Blank'
    <3>. SUFFICES ASSUME SCCInv, Find PROVE Blank'
      OBVIOUS
    <3>1. candidates' \subseteq Node
      BY GraphTypes DEF Find, SCCInv
    <3>2. edges' \in GraphsToSearch /\ calls' = <<>>
      BY DEF Find, Returned, SCCInv, TypeInv
    <3>3. Cleared(clock', stamp', visited', inSCC', rep', subNodes', SS', T', repNodes')
      BY DEF Find
    <3>. QED BY <3>1, <3>2, <3>3 DEF Blank, Cleared
  <2>2. Blank => SCCInv
    BY BlankInv
  <2>. QED BY <2>1, <2>2, PTL
<1>3. SCCInv /\ (VisitCandidate \/ VisitSuccessor) => SCCInv'
  <2>. SUFFICES ASSUME SCCInv, VisitCandidate \/ VisitSuccessor PROVE SCCInv'
    OBVIOUS
  <2>1. PICK v : Entered(v)
    BY EnterShape DEF SCCInv
  <2>. QED BY <2>1, EnteredKeeps
<1>4. SCCInv /\ LookAtSuccessor => SCCInv'
  <2>. SUFFICES ASSUME SCCInv, LookAtSuccessor PROVE SCCInv'
    OBVIOUS
  <2>1. PICK w : LookedAt(w)
    BY LookShape DEF SCCInv
  <2>. QED BY <2>1, LookedKeeps
<1>5. SCCInv /\ EndVisit => SCCInv'
  <2>. SUFFICES ASSUME SCCInv, EndVisit PROVE SCCInv'
    OBVIOUS
  <2>1. Left
    BY LeftShape DEF SCCInv
  <2>2. CloseComponent(Current) \/ LeaveOpen(Current)
    BY <2>1 DEF Left, Current
  <2>. QED BY <2>1, <2>2, ClosedKeeps, LeftOpenKeeps
<1>6. SCCInv /\ UNCHANGED vars => SCCInv'
  <2>. SUFFICES ASSUME SCCInv, UNCHANGED vars PROVE SCCInv'
    OBVIOUS
  <2>1. UNCHANGED <<edges, candidates, calls, clock, stamp>>
        /\ UNCHANGED <<visited, inSCC, rep, subNodes>> /\ UNCHANGED <<SS, T, repNodes>>
    BY DEF vars, info
  <2>2. \A x : ReachableFrom(x)' = ReachableFrom(x) /\ Successors(x)' = Successors(x)
    BY <2>1, ReachStable
  <2>3. Open' = Open /\ Active' = Active /\ ToSet(SS)' = ToSet(SS) /\ ToSet(T)' = ToSet(T)
    BY <2>1 DEF Open, Active, ToSet
  <2>4. TypeInv' /\ StampInv' /\ CallsInv' /\ StackInv'
    BY <2>1, <2>2, <2>3 DEF SCCInv, TypeInv, StampInv, CallsInv, StackInv
  <2>5. ReachInv' /\ RepInv'
    BY <2>1, <2>2, <2>3 DEF SCCInv, ReachInv, RepInv
  <2>6. LowInv'
    BY <2>1, <2>2, <2>3 DEF SCCInv, LowInv, Pending, Top
  <2>7. ClosedInv' /\ SubInv'
    BY <2>1, <2>2, <2>3 DEF SCCInv, ClosedInv, SubInv
  <2>8. TopoInv'
    BY <2>1, <2>2, <2>3 DEF SCCInv, TopoInv
  <2>. QED BY <2>4, <2>5, <2>6, <2>7, <2>8 DEF SCCInv
<1>. QED BY <1>1, <1>2, <1>3, <1>4, <1>5, <1>6, PTL DEF Spec, Next

-----------------------------------------------------------------------------
(* find() has returned: nothing is open.                                   *)
LEMMA AllClosed ==
  ASSUME SCCInv, Returned
  PROVE  visited = inSCC /\ candidates \subseteq inSCC
<1>1. Open = {} /\ visited = Open \cup inSCC
  BY ActiveFacts, StateFacts DEF Returned, Depth
<1>. QED BY <1>1 DEF Returned

(* Every graph: find() visits what its candidates reach, and two nodes     *)
(* have the same representative exactly when each reaches the other.       *)
THEOREM FindsComponents == Spec => []ComponentsFound
<1>1. SCCInv => ComponentsFound
  <2>. SUFFICES ASSUME SCCInv, Returned
                PROVE  /\ visited = UNION {ReachableFrom(c) : c \in candidates}
                       /\ \A x, y \in visited : rep[x] = rep[y] <=>
                            (y \in ReachableFrom(x) /\ x \in ReachableFrom(y))
    BY DEF ComponentsFound
  <2>1. visited = inSCC /\ candidates \subseteq inSCC
    BY AllClosed
  <2>2. \A c \in candidates : ReachableFrom(c) \subseteq visited
    BY <2>1, ClosedWithin
  <2>3. \A x \in visited : \E c \in candidates : x \in ReachableFrom(c)
    BY DEF SCCInv, ReachInv
  <2>4. \A x : x \in visited <=> \E c \in candidates : x \in ReachableFrom(c)
    BY <2>2, <2>3
  <2>. QED BY <2>1, <2>4 DEF SCCInv, ClosedInv
<1>. QED BY <1>1, SCCInvariant, PTL

(* Every graph: the sub nodes of a representative are its component.       *)
THEOREM SubNodesCollected == Spec => []SubNodesAreComponents
<1>1. SCCInv => SubNodesAreComponents
  <2>. SUFFICES ASSUME SCCInv, Returned, NEW r \in Node
                PROVE  subNodes[r] = IF r \in repNodes THEN {n \in visited : rep[n] = r} ELSE {}
    BY DEF SubNodesAreComponents
  <2>1. visited = inSCC
    BY AllClosed
  <2>2. repNodes \subseteq inSCC
    BY DEF SCCInv, TopoInv, RepInv
  <2>. QED BY <2>1, <2>2 DEF SCCInv, SubInv
<1>. QED BY <1>1, SCCInvariant, PTL

(* Every graph: the representatives come out in topological order.         *)
THEOREM RepresentativesOrdered == Spec => []TopologicalOrder
<1>1. SCCInv => TopologicalOrder
  BY AllClosed DEF SCCInv, TopoInv, TopologicalOrder
<1>. QED BY <1>1, SCCInvariant, PTL
=============================================================================
