-------------------------- MODULE FlowSensitiveProofs --------------------------
(***************************************************************************)
(* What FlowSensitive counts as passed on has arrived, for every value-    *)
(* flow graph.  UnflaggedDelivered is inductive together with the types    *)
(* and with what the handlers may rely on when they start (Control).       *)
(***************************************************************************)
EXTENDS FlowSensitive, TLAPS

(* OUT flags exist only while their node is being propagated, and edges    *)
(* wait to be served only while the call graph is being updated.           *)
Control ==
  /\ pc = "propagate" <=> cur # NoLoc
  /\ \A n \in Loc : outNew[n] # {} => n = cur
  /\ newEdges # {} => pc = "connect"
  /\ newEdges \subseteq Indirect
  /\ \A e \in newEdges : Op(e[2]) = "mem"
  /\ pc = "done" => worklist = {}

FlowInv == TypeOK /\ Control /\ UnflaggedDelivered

-----------------------------------------------------------------------------
(* The types of the parts of a program.                                    *)
LEMMA ProgramTypes ==
  ASSUME svfg \in Programs
  PROVE  /\ svfg.nodes \in SUBSET Loc
         /\ svfg.stmt \in [Loc -> Stmt]
         /\ svfg.direct \in SUBSET (Loc \X Loc)
         /\ svfg.indirect \in SUBSET (Loc \X Loc \X Obj)
         /\ svfg.calls \in SUBSET Call
         /\ svfg.inc \in BOOLEAN
BY ValueFlowAssumption DEF Program

(* Indirect edges leave stores and memory SSA nodes; those that connecting *)
(* a call adds end at memory SSA nodes.                                    *)
LEMMA EdgeKinds ==
  ASSUME svfg \in Programs, callgraph \subseteq svfg.calls
  PROVE  /\ \A e \in Indirect : /\ e \in Loc \X Loc \X Obj
                                /\ e[1] \in svfg.nodes /\ e[2] \in svfg.nodes
                                /\ Op(e[1]) \in {"store", "mem"}
         /\ \A c \in svfg.calls : \A e \in c.indirect :
               e \in Loc \X Loc \X Obj /\ Op(e[2]) = "mem"
<1> DEFINE all == svfg.indirect \cup UNION {c.indirect : c \in svfg.calls}
<1>1. \A c \in svfg.calls : c.indirect \in SUBSET (Loc \X Loc \X Obj)
  BY ProgramTypes DEF Call
<1>2. Indirect \subseteq all
  BY DEF Indirect, IndirectEdges
<1>3. \A e \in all : e \in Loc \X Loc \X Obj
  BY <1>1, ProgramTypes
<1>4. \A e \in all : /\ e[1] \in svfg.nodes /\ e[2] \in svfg.nodes
                     /\ svfg.stmt[e[1]].op \in {"store", "mem"}
  BY ValueFlowAssumption
<1>5. \A c \in svfg.calls : \A e \in c.indirect : svfg.stmt[e[2]].op = "mem"
  BY ValueFlowAssumption
<1>. QED BY <1>1, <1>2, <1>3, <1>4, <1>5 DEF Op

LEMMA UsedTyped ==
  ASSUME TypeOK, NEW n \in Loc
  PROVE  Used(n) \in SUBSET Obj
<1>1. svfg.stmt[n].rhs \in SUBSET Var
  BY ProgramTypes DEF TypeOK, Stmt
<1>2. \A c \in callgraph : c.ops \in SUBSET (Loc \X Var)
  BY ProgramTypes DEF TypeOK, Call
<1>3. Operands(svfg, callgraph, n) \in SUBSET Var
  BY <1>1, <1>2 DEF Operands
<1>. QED BY <1>3 DEF Used, TypeOK

LEMMA LhsTyped ==
  ASSUME TypeOK, NEW n \in Loc
  PROVE  Lhs(n) \in Var
BY ProgramTypes DEF TypeOK, Stmt, Lhs

LEMMA DeliveredAt ==
  ASSUME TypeOK, NEW s \in Loc, NEW E \in SUBSET Indirect, NEW d \in Loc, NEW o \in Obj
  PROVE  Delivered(s, E)[d][o] =
           IF <<s, d, o>> \in E THEN dfIn[d][o] \cup Value(s, o) ELSE dfIn[d][o]
<1>1. CASE \E e \in E : e[2] = d
  BY <1>1 DEF Delivered
<1>2. CASE ~\E e \in E : e[2] = d
  <2>1. <<s, d, o>> \notin E
    BY <1>2
  <2>. QED BY <1>2, <2>1 DEF Delivered
<1>. QED BY <1>1, <1>2

(* What arrives over the edges E from s: IN only grows, it holds what the  *)
(* edges carry, and where it has grown that is flagged.                    *)
LEMMA Arrival ==
  ASSUME TypeOK, NEW s \in Loc, NEW E \in SUBSET Indirect,
         \A e \in E : e[1] = s,
         dfIn' = Delivered(s, E), FlagGrown
  PROVE  /\ dfIn' \in [Loc -> [Obj -> SUBSET Obj]]
         /\ inNew' \in [Loc -> SUBSET Obj]
         /\ \A d \in Loc, o \in Obj : dfIn[d][o] \subseteq dfIn'[d][o]
         /\ \A e \in E : Value(e[1], e[3]) \subseteq dfIn'[e[2]][e[3]]
         /\ \A d \in Loc : inNew[d] \subseteq inNew'[d]
         /\ svfg.inc => \A d \in Loc : \A o \in Obj \ inNew'[d] : dfIn'[d][o] = dfIn[d][o]
<1>1. \A o \in Obj : Value(s, o) \in SUBSET Obj
  BY DEF Value, TypeOK
<1>2. \A d \in Loc, o \in Obj :
        dfIn'[d][o] = IF <<s, d, o>> \in E THEN dfIn[d][o] \cup Value(s, o) ELSE dfIn[d][o]
  BY DeliveredAt
<1>3. dfIn' \in [Loc -> [Obj -> SUBSET Obj]]
  BY <1>1 DEF Delivered, TypeOK
<1>4. \A e \in E : Value(e[1], e[3]) \subseteq dfIn'[e[2]][e[3]]
  <2>. SUFFICES ASSUME NEW e \in E
                PROVE  Value(e[1], e[3]) \subseteq dfIn'[e[2]][e[3]]
    OBVIOUS
  <2>1. e \in Loc \X Loc \X Obj /\ e = <<s, e[2], e[3]>> /\ e[2] \in Loc /\ e[3] \in Obj
    BY EdgeKinds DEF TypeOK
  <2>. QED BY <1>2, <2>1
<1>5. /\ inNew' \in [Loc -> SUBSET Obj]
      /\ \A d \in Loc : inNew[d] \subseteq inNew'[d]
  BY DEF FlagGrown, Flagged, TypeOK
<1>6. svfg.inc => \A d \in Loc : \A o \in Obj \ inNew'[d] : dfIn'[d][o] = dfIn[d][o]
  BY DEF FlagGrown, Flagged, TypeOK
<1>7. \A d \in Loc, o \in Obj : dfIn[d][o] \subseteq dfIn'[d][o]
  <2>. TAKE d \in Loc, o \in Obj
  <2>1. dfIn'[d][o] = IF <<s, d, o>> \in E THEN dfIn[d][o] \cup Value(s, o) ELSE dfIn[d][o]
    BY <1>2
  <2>. QED BY <2>1
<1>. QED BY <1>3, <1>4, <1>5, <1>6, <1>7
-----------------------------------------------------------------------------
(* UnflaggedDelivered in two parts: edges, and the flags of IN.            *)
EdgesDelivered ==
  \A e \in Indirect :
    \/ e \in newEdges
    \/ Passing(e[1], e[3])
    \/ Value(e[1], e[3]) \subseteq dfIn[e[2]][e[3]]

FlagsTrue ==
  svfg.inc => \A n \in svfg.nodes : \A o \in Obj \ inNew[n] :
    /\ Op(n) = "store" => dfIn[n][o] \subseteq dfOut[n][o]
    /\ Op(n) = "load" => dfIn[n][o] \subseteq pts[Lhs(n)]
    /\ Op(n) = "mem" => dfIn[n][o] = {}

LEMMA TwoParts == UnflaggedDelivered <=> EdgesDelivered /\ FlagsTrue
BY DEF UnflaggedDelivered, EdgesDelivered, FlagsTrue

(* Where a handler starts nothing is under way.                            *)
LEMMA AtRest ==
  ASSUME FlowInv, pc = "solve"
  PROVE  /\ cur = NoLoc /\ NoLoc \notin Loc /\ NoLoc \notin svfg.nodes
         /\ \A d \in Loc : outNew[d] = {}
         /\ newEdges = {}
<1>1. NoLoc \notin Loc
  BY ValueFlowAssumption
<1>2. svfg.nodes \subseteq Loc
  BY ProgramTypes DEF FlowInv, TypeOK
<1>3. cur = NoLoc /\ newEdges = {}
  BY DEF FlowInv, Control
<1>4. \A d \in Loc : outNew[d] = {}
  BY <1>1, <1>3 DEF FlowInv, Control
<1>. QED BY <1>1, <1>2, <1>3, <1>4

(* Handlers that leave IN, OUT and their flags alone and take no memory    *)
(* SSA node from the worklist.                                             *)
LEMMA DataUnchanged ==
  ASSUME FlowInv, UNCHANGED <<svfg, callgraph, dfIn, dfOut, inNew, outNew, newEdges>>,
         \A x \in Var : pts[x] \subseteq pts'[x],
         \A n \in svfg.nodes :
           Op(n) = "mem" /\ n \in worklist \cup {cur} => n \in worklist' \cup {cur'},
         \A n \in svfg.nodes : Op(n) = "store" => n # cur
  PROVE  UnflaggedDelivered'
<1>1. EdgesDelivered'
  <2>1. Indirect' = Indirect
    BY DEF Indirect, IndirectEdges
  <2>. SUFFICES ASSUME NEW e \in Indirect, e \notin newEdges, ~Passing(e[1], e[3])'
                PROVE  Value(e[1], e[3])' \subseteq dfIn'[e[2]][e[3]]
    BY <2>1 DEF EdgesDelivered
  <2>2. e[1] \in svfg.nodes /\ Op(e[1]) \in {"store", "mem"}
    BY EdgeKinds DEF FlowInv, TypeOK
  <2>3. ~Passing(e[1], e[3])
    BY <2>2 DEF Passing, Op
  <2>4. Value(e[1], e[3])' = Value(e[1], e[3])
    BY DEF Value, Op
  <2>. QED BY <2>3, <2>4 DEF FlowInv, UnflaggedDelivered
<1>2. FlagsTrue'
  <2>. SUFFICES ASSUME svfg.inc, NEW n \in svfg.nodes, NEW o \in Obj \ inNew[n]
                PROVE  /\ Op(n) = "store" => dfIn[n][o] \subseteq dfOut[n][o]
                       /\ Op(n) = "load" => dfIn[n][o] \subseteq pts'[Lhs(n)]
                       /\ Op(n) = "mem" => dfIn[n][o] = {}
    BY DEF FlagsTrue, Op, Lhs
  <2>1. Lhs(n) \in Var
    BY LhsTyped, ProgramTypes DEF FlowInv, TypeOK
  <2>. QED BY <2>1 DEF FlowInv, UnflaggedDelivered
<1>. QED BY <1>1, <1>2 DEF UnflaggedDelivered, EdgesDelivered, FlagsTrue

LEMMA TopLevelStep ==
  ASSUME FlowInv, NEW n \in worklist, ProcessTopLevel(n)
  PROVE  FlowInv'
<1>0. cur = NoLoc /\ NoLoc \notin svfg.nodes /\ newEdges = {} /\ \A d \in Loc : outNew[d] = {}
  BY AtRest DEF ProcessTopLevel, Take
<1>1. n \in svfg.nodes /\ n \in Loc /\ Lhs(n) \in Var
  BY LhsTyped, ProgramTypes DEF FlowInv, TypeOK
<1>2. TopLevelValue(n) \in SUBSET Obj
  <2>1. svfg.stmt[n].obj \in Obj /\ svfg.stmt[n].off \in Offset
    BY <1>0, <1>1, ProgramTypes DEF FlowInv, TypeOK, Stmt
  <2>2. Used(n) \in SUBSET Obj
    BY <1>0, <1>1, UsedTyped DEF FlowInv
  <2>3. \A o \in Used(n) : FieldAt[<<o, svfg.stmt[n].off>>] \in Obj
    BY <2>1, <2>2, ValueFlowAssumption
  <2>. QED BY <2>1, <2>2, <2>3 DEF TopLevelValue, ProcessTopLevel
<1>3. TypeOK'
  BY <1>0, <1>1, <1>2 DEF FlowInv, TypeOK, ProcessTopLevel, Take, Finish
<1>4. Control'
  BY <1>0, <1>1 DEF FlowInv, TypeOK, Control, ProcessTopLevel, Take, Finish, Indirect, Op
<1>5. \A x \in Var : pts[x] \subseteq pts'[x]
  BY <1>0, <1>1 DEF FlowInv, TypeOK, ProcessTopLevel
<1>6. UnflaggedDelivered'
  BY <1>0, <1>1, <1>5, DataUnchanged DEF ProcessTopLevel, Take
<1>. QED BY <1>3, <1>4, <1>6 DEF FlowInv

LEMMA SkipStoreStep ==
  ASSUME FlowInv, NEW n \in worklist, SkipStore(n)
  PROVE  FlowInv'
<1>0. cur = NoLoc /\ NoLoc \notin svfg.nodes /\ newEdges = {} /\ \A d \in Loc : outNew[d] = {}
  BY AtRest DEF SkipStore, Take
<1>1. n \in svfg.nodes
  BY DEF FlowInv, TypeOK
<1>2. TypeOK'
  BY <1>0, <1>1 DEF FlowInv, TypeOK, SkipStore, Take, Finish
<1>3. Control'
  BY <1>0, <1>1 DEF FlowInv, TypeOK, Control, SkipStore, Take, Finish, Indirect, Op
<1>4. UnflaggedDelivered'
  BY <1>0, <1>1, DataUnchanged DEF SkipStore, Take
<1>. QED BY <1>2, <1>3, <1>4 DEF FlowInv

LEMMA PassOnStep ==
  ASSUME FlowInv, NEW n \in worklist, ProcessPassOn(n)
  PROVE  FlowInv'
<1>0. cur = NoLoc /\ NoLoc \notin svfg.nodes /\ newEdges = {} /\ \A d \in Loc : outNew[d] = {}
  BY AtRest DEF ProcessPassOn, Take
<1>1. n \in svfg.nodes
  BY DEF FlowInv, TypeOK
<1>2. TypeOK'
  BY <1>0, <1>1 DEF FlowInv, TypeOK, ProcessPassOn, Take, Finish
<1>3. Control'
  BY <1>0, <1>1 DEF FlowInv, TypeOK, Control, ProcessPassOn, Take, Finish, Indirect, Op
<1>4. UnflaggedDelivered'
  BY <1>0, <1>1, DataUnchanged DEF ProcessPassOn, Take, Finish
<1>. QED BY <1>2, <1>3, <1>4 DEF FlowInv

(* A load loses flags of what it has just read.                            *)
LEMMA LoadStep ==
  ASSUME FlowInv, NEW n \in worklist, ProcessLoad(n)
  PROVE  FlowInv'
<1> DEFINE loaded == {o \in Used(n) \ NonPointer : New(inNew, n, o)}
<1>0. cur = NoLoc /\ NoLoc \notin svfg.nodes /\ newEdges = {} /\ \A d \in Loc : outNew[d] = {}
  BY AtRest DEF ProcessLoad, Take
<1>1. n \in svfg.nodes /\ n \in Loc /\ Lhs(n) \in Var
  BY LhsTyped, ProgramTypes DEF FlowInv, TypeOK
<1>2. /\ pts' = [pts EXCEPT ![Lhs(n)] = @ \cup UNION {dfIn[n][o] : o \in loaded}]
      /\ inNew' = [inNew EXCEPT ![n] = @ \ loaded]
  BY DEF ProcessLoad
<1>3. loaded \in SUBSET Obj
  BY <1>0, <1>1, UsedTyped DEF FlowInv
<1>4. UNION {dfIn[n][o] : o \in loaded} \in SUBSET Obj
  BY <1>0, <1>1, <1>3 DEF FlowInv, TypeOK
<1>. HIDE DEF loaded
<1>5. TypeOK'
  <2>1. pts' \in [Var -> SUBSET Obj]
    BY <1>1, <1>2, <1>4 DEF FlowInv, TypeOK
  <2>2. inNew' \in [Loc -> SUBSET Obj]
    BY <1>1, <1>2 DEF FlowInv, TypeOK
  <2>3. worklist' \subseteq svfg.nodes
    BY DEF FlowInv, TypeOK, ProcessLoad, Take
  <2>4. cur' \in svfg.nodes \cup {NoLoc} /\ pc' \in {"propagate", "solve"}
    BY <1>1 DEF ProcessLoad, Finish
  <2>. QED BY <2>1, <2>2, <2>3, <2>4 DEF FlowInv, TypeOK, ProcessLoad
<1>6. Control'
  BY <1>0, <1>1 DEF FlowInv, TypeOK, Control, ProcessLoad, Take, Finish, Indirect, Op
<1>7. \A x \in Var : pts[x] \subseteq pts'[x]
  BY <1>0, <1>1, <1>2 DEF FlowInv, TypeOK
<1>8. EdgesDelivered'
  <2>1. Indirect' = Indirect
    BY DEF Indirect, IndirectEdges, ProcessLoad
  <2>. SUFFICES ASSUME NEW e \in Indirect, e \notin newEdges, ~Passing(e[1], e[3])'
                PROVE  Value(e[1], e[3])' \subseteq dfIn'[e[2]][e[3]]
    BY <2>1 DEF EdgesDelivered, ProcessLoad
  <2>2. e[1] \in svfg.nodes /\ Op(e[1]) \in {"store", "mem"}
    BY EdgeKinds DEF FlowInv, TypeOK
  <2>3. ~Passing(e[1], e[3])
    BY <1>0, <1>1, <2>2 DEF Passing, Op, ProcessLoad, Take
  <2>4. Value(e[1], e[3])' = Value(e[1], e[3]) /\ dfIn' = dfIn
    BY DEF Value, Op, ProcessLoad
  <2>. QED BY <2>3, <2>4 DEF FlowInv, UnflaggedDelivered
<1>9. FlagsTrue'
  <2>. SUFFICES ASSUME svfg.inc, NEW d \in svfg.nodes, NEW o \in Obj \ inNew'[d]
                PROVE  /\ Op(d) = "store" => dfIn[d][o] \subseteq dfOut[d][o]
                       /\ Op(d) = "load" => dfIn[d][o] \subseteq pts'[Lhs(d)]
                       /\ Op(d) = "mem" => dfIn[d][o] = {}
    BY DEF FlagsTrue, Op, Lhs, ProcessLoad
  <2>1. d \in Loc /\ Lhs(d) \in Var
    BY LhsTyped, ProgramTypes DEF FlowInv, TypeOK
  <2>2. CASE o \notin inNew[d]
    BY <1>7, <2>1, <2>2 DEF FlowInv, UnflaggedDelivered
  <2>3. CASE o \in inNew[d]
    <3>1. d = n /\ o \in loaded
      BY <1>0, <1>1, <1>2, <2>1, <2>3 DEF FlowInv, TypeOK
    <3>2. dfIn[n][o] \subseteq pts'[Lhs(n)]
      BY <1>0, <1>1, <1>2, <3>1 DEF FlowInv, TypeOK
    <3>. QED BY <3>1, <3>2 DEF ProcessLoad
  <2>. QED BY <2>2, <2>3
<1>. QED BY <1>5, <1>6, <1>8, <1>9
     DEF FlowInv, UnflaggedDelivered, EdgesDelivered, FlagsTrue

(* A store puts into OUT all whose flags it takes, and flags what has      *)
(* grown there for the propagation that follows.                           *)
LEMMA StoreStep ==
  ASSUME FlowInv, NEW n \in worklist, ProcessStore(n)
  PROVE  FlowInv'
<1> DEFINE grown == {o \in Obj : ~(Sent(n, o) \subseteq dfOut[n][o])}
<1>0. cur = NoLoc /\ NoLoc \notin svfg.nodes /\ newEdges = {} /\ \A d \in Loc : outNew[d] = {}
  BY AtRest DEF ProcessStore, Take
<1>1. n \in svfg.nodes /\ n \in Loc /\ Op(n) = "store"
  BY ProgramTypes DEF FlowInv, TypeOK, ProcessStore
<1>2. /\ dfOut' = [dfOut EXCEPT ![n] = [o \in Obj |-> @[o] \cup Sent(n, o)]]
      /\ inNew' = [inNew EXCEPT ![n] = @ \ Passed(n)]
      /\ outNew' = [outNew EXCEPT ![n] = IF grown = {} THEN {} ELSE @ \cup Flagged(grown)]
      /\ pc' = IF grown # {} THEN "propagate" ELSE "solve"
      /\ cur' = IF grown # {} THEN n ELSE NoLoc
      /\ worklist' = worklist \ {n}
  BY DEF ProcessStore, Take, Finish
<1>3. \A o \in Obj : Sent(n, o) \in SUBSET Obj
  <2>1. Used(n) \in SUBSET Obj
    BY <1>0, <1>1, UsedTyped DEF FlowInv
  <2>. QED BY <1>0, <1>1, <2>1 DEF Sent, FlowInv, TypeOK
<1>4. Flagged(grown) \in SUBSET Obj /\ (grown = {} \/ grown # {})
  BY DEF Flagged
<1>5. \A o \in Passed(n) : o \in Obj /\ dfIn[n][o] \subseteq Sent(n, o)
  BY DEF Passed, Sent
<1>6. /\ \A o \in Obj : dfOut'[n][o] = dfOut[n][o] \cup Sent(n, o)
      /\ \A d \in Loc \ {n} : dfOut'[d] = dfOut[d] /\ inNew'[d] = inNew[d] /\ outNew'[d] = outNew[d]
      /\ inNew'[n] = inNew[n] \ Passed(n)
      /\ outNew'[n] = IF grown = {} THEN {} ELSE outNew[n] \cup Flagged(grown)
  BY <1>0, <1>1, <1>2 DEF FlowInv, TypeOK
<1>7. \A o \in Obj \ grown : dfOut'[n][o] = dfOut[n][o]
  BY <1>6
<1>8. svfg.inc => grown \subseteq outNew'[n]
  BY <1>6 DEF Flagged
<1>9. UNCHANGED <<svfg, callgraph, pts, dfIn, newEdges>> /\ pc = "solve"
  BY DEF ProcessStore, Take
<1>. HIDE DEF grown
<1>10. TypeOK'
  <2>1. dfOut' \in [Loc -> [Obj -> SUBSET Obj]]
    BY <1>0, <1>1, <1>2, <1>3 DEF FlowInv, TypeOK
  <2>2. outNew' \in [Loc -> SUBSET Obj] /\ inNew' \in [Loc -> SUBSET Obj]
    BY <1>0, <1>1, <1>2, <1>4 DEF FlowInv, TypeOK
  <2>. QED BY <1>0, <1>1, <1>2, <1>9, <2>1, <2>2 DEF FlowInv, TypeOK
<1>11. Control'
  <2>1. pc' = "propagate" <=> cur' # NoLoc
    BY <1>0, <1>1, <1>2, <1>9 DEF FlowInv, TypeOK
  <2>2. \A d \in Loc : outNew'[d] # {} => d = cur'
    BY <1>0, <1>1, <1>2, <1>6, <1>9 DEF FlowInv, Control
  <2>3. Indirect' = Indirect /\ newEdges = {}
    BY <1>0, <1>9 DEF Indirect, IndirectEdges
  <2>. QED BY <1>2, <1>9, <2>1, <2>2, <2>3 DEF FlowInv, Control, Op
<1>12. EdgesDelivered'
  <2>1. Indirect' = Indirect
    BY <1>9 DEF Indirect, IndirectEdges
  <2>. SUFFICES ASSUME NEW e \in Indirect, e \notin newEdges, ~Passing(e[1], e[3])'
                PROVE  Value(e[1], e[3])' \subseteq dfIn'[e[2]][e[3]]
    BY <1>9, <2>1 DEF EdgesDelivered
  <2>2. /\ e[1] \in svfg.nodes /\ e[1] \in Loc /\ e[3] \in Obj
        /\ Op(e[1]) \in {"store", "mem"}
    BY EdgeKinds, ProgramTypes DEF FlowInv, TypeOK
  <2>3. ~Passing(e[1], e[3])
    BY <1>0, <1>1, <1>2, <1>9, <2>2 DEF Passing, Op
  <2>4. CASE e[1] # n
    BY <1>6, <1>9, <2>2, <2>3, <2>4 DEF Value, Op, FlowInv, UnflaggedDelivered
  <2>5. CASE e[1] = n
    <3>1. e[3] \notin grown
      BY <1>0, <1>1, <1>2, <1>8, <1>9, <2>2, <2>5 DEF Passing, New, Op
    <3>. QED BY <1>0, <1>1, <1>7, <1>9, <2>2, <2>3, <2>5, <3>1 DEF Value, Op, FlowInv, UnflaggedDelivered
  <2>. QED BY <2>4, <2>5
<1>13. FlagsTrue'
  <2>. SUFFICES ASSUME svfg.inc, NEW d \in svfg.nodes, NEW o \in Obj \ inNew'[d]
                PROVE  /\ Op(d) = "store" => dfIn[d][o] \subseteq dfOut'[d][o]
                       /\ Op(d) = "load" => dfIn[d][o] \subseteq pts[Lhs(d)]
                       /\ Op(d) = "mem" => dfIn[d][o] = {}
    BY <1>9 DEF FlagsTrue, Op, Lhs
  <2>1. d \in Loc
    BY ProgramTypes DEF FlowInv, TypeOK
  <2>2. dfOut[d][o] \subseteq dfOut'[d][o]
    BY <1>6, <2>1
  <2>3. CASE o \notin inNew[d]
    BY <2>2, <2>3 DEF FlowInv, UnflaggedDelivered
  <2>4. CASE o \in inNew[d]
    <3>1. d = n /\ o \in Passed(n)
      BY <1>6, <2>1, <2>4
    <3>. QED BY <1>0, <1>1, <1>5, <1>6, <3>1
  <2>. QED BY <2>3, <2>4
<1>. QED BY <1>10, <1>11, <1>12, <1>13
     DEF FlowInv, UnflaggedDelivered, EdgesDelivered, FlagsTrue

-----------------------------------------------------------------------------
(* What is left of the flags when IN has grown.                            *)
LEMMA FlagsStayTrue ==
  ASSUME FlowInv, UNCHANGED <<svfg, dfOut>>,
         \A x \in Var : pts[x] \subseteq pts'[x],
         \A d \in Loc : inNew[d] \subseteq inNew'[d],
         svfg.inc => \A d \in Loc : \A o \in Obj \ inNew'[d] : dfIn'[d][o] = dfIn[d][o]
  PROVE  FlagsTrue'
<1>. SUFFICES ASSUME svfg.inc, NEW d \in svfg.nodes, NEW o \in Obj \ inNew'[d]
              PROVE  /\ Op(d) = "store" => dfIn'[d][o] \subseteq dfOut[d][o]
                     /\ Op(d) = "load" => dfIn'[d][o] \subseteq pts'[Lhs(d)]
                     /\ Op(d) = "mem" => dfIn'[d][o] = {}
  BY DEF FlagsTrue, Op, Lhs
<1>1. d \in Loc /\ Lhs(d) \in Var
  BY LhsTyped, ProgramTypes DEF FlowInv, TypeOK
<1>2. dfIn'[d][o] = dfIn[d][o] /\ o \notin inNew[d]
  BY <1>1
<1>. QED BY <1>1, <1>2 DEF FlowInv, UnflaggedDelivered

(* The flags of OUT are cleared when everything flagged has been sent, and *)
(* a memory SSA node whose IN has grown is on the worklist again.          *)
LEMMA PropagateStep ==
  ASSUME FlowInv, Propagate
  PROVE  FlowInv'
<1> DEFINE E == {e \in Indirect : e[1] = cur /\ IsNew(cur, e[3])}
<1>1. cur \in svfg.nodes /\ cur \in Loc /\ NoLoc \notin Loc /\ newEdges = {}
  BY ProgramTypes, ValueFlowAssumption DEF FlowInv, TypeOK, Control, Propagate
<1>2. /\ dfIn' = Delivered(cur, E) /\ FlagGrown
      /\ outNew' = [outNew EXCEPT ![cur] = {}]
      /\ cur' = NoLoc /\ pc' = "solve"
      /\ UNCHANGED <<svfg, callgraph, dfOut, newEdges>>
      /\ worklist \cup Grown \subseteq worklist'
  BY DEF Propagate
<1>. E \in SUBSET Indirect /\ \A e \in E : e[1] = cur
  OBVIOUS
<1>. HIDE DEF E
<1>3. /\ dfIn' \in [Loc -> [Obj -> SUBSET Obj]]
      /\ inNew' \in [Loc -> SUBSET Obj]
      /\ \A d \in Loc, o \in Obj : dfIn[d][o] \subseteq dfIn'[d][o]
      /\ \A e \in E : Value(e[1], e[3]) \subseteq dfIn'[e[2]][e[3]]
      /\ \A d \in Loc : inNew[d] \subseteq inNew'[d]
      /\ svfg.inc => \A d \in Loc : \A o \in Obj \ inNew'[d] : dfIn'[d][o] = dfIn[d][o]
  BY <1>1, <1>2, Arrival DEF FlowInv
<1>4. pts' \in [Var -> SUBSET Obj] /\ \A x \in Var : pts[x] \subseteq pts'[x]
  <2>1. pts[Lhs(cur)] \in SUBSET Obj
    BY <1>1, LhsTyped DEF FlowInv, TypeOK
  <2>. QED BY <2>1 DEF Propagate, FlowInv, TypeOK
<1>5. TypeOK'
  <2>1. worklist' \subseteq svfg.nodes
    BY DEF Propagate, Grown, FlowInv, TypeOK
  <2>. QED BY <1>1, <1>2, <1>3, <1>4, <2>1 DEF FlowInv, TypeOK
<1>6. Control'
  <2>1. \A d \in Loc : outNew'[d] = {}
    BY <1>1, <1>2 DEF FlowInv, TypeOK, Control
  <2>. QED BY <1>1, <1>2, <2>1 DEF Control
<1>7. EdgesDelivered'
  <2>1. Indirect' = Indirect
    BY <1>2 DEF Indirect, IndirectEdges
  <2>. SUFFICES ASSUME NEW e \in Indirect, ~Passing(e[1], e[3])'
                PROVE  Value(e[1], e[3])' \subseteq dfIn'[e[2]][e[3]]
    BY <2>1 DEF EdgesDelivered
  <2>2. /\ e[1] \in svfg.nodes /\ e[1] \in Loc /\ e[2] \in Loc /\ e[3] \in Obj
        /\ Op(e[1]) \in {"store", "mem"}
    BY EdgeKinds, ProgramTypes DEF FlowInv, TypeOK
  <2>3. Op(e[1]) = "mem" => e[1] \notin worklist' /\ dfIn'[e[1]] = dfIn[e[1]]
    BY <1>2, <2>2 DEF Passing, Op, Grown
  <2>4. Value(e[1], e[3])' = Value(e[1], e[3])
    BY <1>2, <2>2, <2>3 DEF Value, Op
  <2>5. CASE e \in E
    BY <1>3, <2>4, <2>5
  <2>6. CASE e \notin E
    <3>1. Value(e[1], e[3]) \subseteq dfIn[e[2]][e[3]]
      <4>1. CASE Passing(e[1], e[3])
        <5>1. e[1] = cur
          BY <1>2, <2>2, <2>3, <4>1 DEF Passing
        <5>2. ~IsNew(cur, e[3])
          BY <2>6, <5>1 DEF E
        <5>3. Op(cur) = "mem" /\ svfg.inc /\ e[3] \notin inNew[cur]
          BY <2>2, <4>1, <5>1, <5>2 DEF Passing, IsNew, New
        <5>4. Value(e[1], e[3]) = {}
          BY <1>1, <2>2, <5>1, <5>3 DEF Value, FlowInv, UnflaggedDelivered
        <5>. QED BY <5>4
      <4>2. CASE ~Passing(e[1], e[3])
        BY <1>1, <4>2 DEF FlowInv, UnflaggedDelivered
      <4>. QED BY <4>1, <4>2
    <3>. QED BY <1>3, <2>2, <2>4, <3>1
  <2>. QED BY <2>5, <2>6
<1>8. FlagsTrue'
  BY <1>2, <1>3, <1>4, FlagsStayTrue
<1>. QED BY <1>5, <1>6, <1>7, <1>8
     DEF FlowInv, UnflaggedDelivered, EdgesDelivered, FlagsTrue

-----------------------------------------------------------------------------
(* The edges of new targets are all waiting to be served.                  *)
LEMMA UpdateCallGraphStep ==
  ASSUME FlowInv, UpdateCallGraph
  PROVE  FlowInv'
<1>0. cur = NoLoc /\ NoLoc \notin svfg.nodes /\ newEdges = {} /\ \A d \in Loc : outNew[d] = {}
  BY AtRest DEF UpdateCallGraph
<1>1. /\ callgraph' = callgraph \cup NewTargets
      /\ newEdges' = UNION {c.indirect : c \in NewTargets}
      /\ pc' = "connect" /\ pc = "solve" /\ worklist = {}
      /\ UNCHANGED <<svfg, pts, dfIn, dfOut, inNew, outNew, cur>>
  BY DEF UpdateCallGraph
<1>2. NewTargets \subseteq svfg.calls
  BY DEF NewTargets
<1>3. Indirect' = Indirect \cup newEdges'
  BY <1>1 DEF Indirect, IndirectEdges
<1>4. \A e \in newEdges' : e \in Loc \X Loc \X Obj /\ Op(e[2]) = "mem"
  BY <1>1, <1>2, EdgeKinds DEF FlowInv, TypeOK
<1>5. TypeOK'
  <2>1. worklist' \subseteq svfg.nodes
    BY DEF UpdateCallGraph
  <2>2. newEdges' \subseteq Loc \X Loc \X Obj
    BY <1>4
  <2>3. callgraph' \subseteq svfg.calls
    BY <1>1, <1>2 DEF FlowInv, TypeOK
  <2>. QED BY <1>1, <2>1, <2>2, <2>3 DEF FlowInv, TypeOK
<1>6. Control'
  BY <1>0, <1>1, <1>3, <1>4 DEF Control, Op
<1>7. EdgesDelivered'
  <2>. SUFFICES ASSUME NEW e \in Indirect
                PROVE  Value(e[1], e[3])' \subseteq dfIn'[e[2]][e[3]]
    BY <1>3 DEF EdgesDelivered
  <2>1. e[1] \in svfg.nodes
    BY EdgeKinds DEF FlowInv, TypeOK
  <2>2. ~Passing(e[1], e[3])
    BY <1>0, <1>1, <2>1 DEF Passing
  <2>3. Value(e[1], e[3])' = Value(e[1], e[3])
    BY <1>1 DEF Value, Op
  <2>. QED BY <1>0, <1>1, <2>2, <2>3 DEF FlowInv, UnflaggedDelivered
<1>8. FlagsTrue'
  BY <1>1 DEF FlagsTrue, Op, Lhs, FlowInv, UnflaggedDelivered
<1>. QED BY <1>5, <1>6, <1>7, <1>8
     DEF FlowInv, UnflaggedDelivered, EdgesDelivered, FlagsTrue

(* Serving a new edge moves over everything its source has.                *)
LEMMA ConnectEdgeStep ==
  ASSUME FlowInv, ConnectEdge
  PROVE  FlowInv'
<1>1. PICK x \in newEdges :
        /\ newEdges' = newEdges \ {x}
        /\ dfIn' = Delivered(x[1], {y \in {x} : Op(y[2]) = "mem"})
        /\ FlagGrown
        /\ worklist' = worklist \cup Grown
        /\ UNCHANGED <<svfg, callgraph, pts, dfOut, outNew, cur, pc>>
  BY DEF ConnectEdge
<1>2. /\ x \in Indirect /\ Op(x[2]) = "mem" /\ pc = "connect" /\ cur = NoLoc
      /\ x[1] \in svfg.nodes /\ x[1] \in Loc
      /\ {y \in {x} : Op(y[2]) = "mem"} = {x}
  BY EdgeKinds, ProgramTypes DEF FlowInv, TypeOK, Control
<1>3. /\ dfIn' \in [Loc -> [Obj -> SUBSET Obj]]
      /\ inNew' \in [Loc -> SUBSET Obj]
      /\ \A d \in Loc, o \in Obj : dfIn[d][o] \subseteq dfIn'[d][o]
      /\ \A e \in {x} : Value(e[1], e[3]) \subseteq dfIn'[e[2]][e[3]]
      /\ \A d \in Loc : inNew[d] \subseteq inNew'[d]
      /\ svfg.inc => \A d \in Loc : \A o \in Obj \ inNew'[d] : dfIn'[d][o] = dfIn[d][o]
  BY <1>1, <1>2, Arrival DEF FlowInv
<1>4. TypeOK'
  <2>1. worklist' \subseteq svfg.nodes
    BY <1>1 DEF Grown, FlowInv, TypeOK
  <2>. QED BY <1>1, <1>3, <2>1 DEF FlowInv, TypeOK
<1>5. Control'
  BY <1>1, <1>2 DEF FlowInv, Control, Indirect, Op
<1>6. EdgesDelivered'
  <2>1. Indirect' = Indirect
    BY <1>1 DEF Indirect, IndirectEdges
  <2>. SUFFICES ASSUME NEW e \in Indirect, e \notin newEdges', ~Passing(e[1], e[3])'
                PROVE  Value(e[1], e[3])' \subseteq dfIn'[e[2]][e[3]]
    BY <2>1 DEF EdgesDelivered
  <2>2. /\ e[1] \in svfg.nodes /\ e[1] \in Loc /\ e[2] \in Loc /\ e[3] \in Obj
        /\ Op(e[1]) \in {"store", "mem"}
    BY EdgeKinds, ProgramTypes DEF FlowInv, TypeOK
  <2>3. Op(e[1]) = "mem" => e[1] \notin worklist' /\ dfIn'[e[1]] = dfIn[e[1]]
    BY <1>1, <2>2 DEF Passing, Op, Grown
  <2>4. Value(e[1], e[3])' = Value(e[1], e[3])
    BY <1>1, <2>2, <2>3 DEF Value, Op
  <2>5. ~Passing(e[1], e[3])
    BY <1>1, <2>2 DEF Passing, Op, New
  <2>6. CASE e = x
    BY <1>3, <2>4, <2>6
  <2>7. CASE e # x
    <3>1. Value(e[1], e[3]) \subseteq dfIn[e[2]][e[3]]
      BY <1>1, <2>5, <2>7 DEF FlowInv, UnflaggedDelivered
    <3>. QED BY <1>3, <2>2, <2>4, <3>1
  <2>. QED BY <2>6, <2>7
<1>7. FlagsTrue'
  BY <1>1, <1>3, FlagsStayTrue
<1>. QED BY <1>4, <1>5, <1>6, <1>7
     DEF FlowInv, UnflaggedDelivered, EdgesDelivered, FlagsTrue

(* Steps of the outer loop: no data changes.                               *)
LEMMA RoundStep ==
  ASSUME FlowInv, NextRound \/ Finished \/ UNCHANGED vars
  PROVE  FlowInv'
<1>1. /\ UNCHANGED <<svfg, callgraph, pts, dfIn, dfOut, inNew, outNew, cur, newEdges>>
      /\ worklist \subseteq worklist' /\ worklist' \subseteq svfg.nodes
      /\ pc' \in {"solve", "propagate", "connect", "done"}
      /\ pc' = "propagate" <=> pc = "propagate"
      /\ newEdges # {} => pc' = "connect"
      /\ pc' = "done" => worklist' = {}
  BY DEF FlowInv, TypeOK, Control, NextRound, Finished, vars
<1>2. TypeOK' /\ Control'
  BY <1>1 DEF FlowInv, TypeOK, Control, Indirect, Op
<1>3. EdgesDelivered' /\ FlagsTrue'
  <2>1. \A e \in Indirect : Passing(e[1], e[3]) => Passing(e[1], e[3])'
    BY <1>1 DEF Passing, New, Op
  <2>2. /\ Indirect' = Indirect
        /\ \A e \in Indirect : Value(e[1], e[3])' = Value(e[1], e[3])
    BY <1>1 DEF Indirect, IndirectEdges, Value, Op
  <2>3. EdgesDelivered'
    BY <1>1, <2>1, <2>2 DEF EdgesDelivered, FlowInv, UnflaggedDelivered
  <2>4. FlagsTrue'
    BY <1>1 DEF FlagsTrue, Op, Lhs, FlowInv, UnflaggedDelivered
  <2>. QED BY <2>3, <2>4
<1>. QED BY <1>2, <1>3 DEF FlowInv, UnflaggedDelivered, EdgesDelivered, FlagsTrue

-----------------------------------------------------------------------------
LEMMA FlowInit == Init => FlowInv
<1>. SUFFICES ASSUME Init PROVE FlowInv
  OBVIOUS
<1>1. TypeOK
  BY DEF Init, TypeOK
<1>2. Control
  BY DEF Init, Control
<1>3. UnflaggedDelivered
  <2>1. \A e \in Indirect : Value(e[1], e[3]) = {}
    BY <1>1, EdgeKinds, ProgramTypes DEF Init, TypeOK, Value
  <2>2. \A n \in svfg.nodes : \A o \in Obj : dfIn[n][o] = {}
    BY ProgramTypes DEF Init
  <2>. QED BY <2>1, <2>2 DEF UnflaggedDelivered
<1>. QED BY <1>1, <1>2, <1>3 DEF FlowInv

LEMMA FlowNext == FlowInv /\ [Next]_vars => FlowInv'
<1>. SUFFICES ASSUME FlowInv, [Next]_vars PROVE FlowInv'
  OBVIOUS
<1>1. CASE \E n \in worklist : ProcessTopLevel(n)
  BY <1>1, TopLevelStep
<1>2. CASE \E n \in worklist : ProcessLoad(n)
  BY <1>2, LoadStep
<1>3. CASE \E n \in worklist : ProcessStore(n)
  BY <1>3, StoreStep
<1>4. CASE \E n \in worklist : SkipStore(n)
  BY <1>4, SkipStoreStep
<1>5. CASE \E n \in worklist : ProcessPassOn(n)
  BY <1>5, PassOnStep
<1>6. CASE Propagate
  BY <1>6, PropagateStep
<1>7. CASE UpdateCallGraph
  BY <1>7, UpdateCallGraphStep
<1>8. CASE ConnectEdge
  BY <1>8, ConnectEdgeStep
<1>9. CASE NextRound \/ Finished \/ Terminated \/ UNCHANGED vars
  BY <1>9, RoundStep DEF Terminated
<1>. QED BY <1>1, <1>2, <1>3, <1>4, <1>5, <1>6, <1>7, <1>8, <1>9 DEF Next

(* The flow-sensitive solver keeps its state well-typed, whatever the      *)
(* value-flow graph and the order of processing.                           *)
THEOREM FlowTypeCorrect == Spec => []TypeOK
<1>1. FlowInv => TypeOK
  BY DEF FlowInv
<1>. QED BY <1>1, FlowInit, FlowNext, PTL DEF Spec

(* What is not flagged as new has been passed on, in every round and for   *)
(* edges connected late (MutablePointsToDS.h, FlowSensitive.cpp).          *)
THEOREM FlowNothingSkipped == Spec => []UnflaggedDelivered
<1>1. FlowInv => UnflaggedDelivered
  BY DEF FlowInv
<1>. QED BY <1>1, FlowInit, FlowNext, PTL DEF Spec

(* When the solver is done every object's points-to set has arrived at all *)
(* the uses that the final value-flow graph links its definition to.       *)
AllDelivered ==
  pc = "done" => \A e \in Indirect : Value(e[1], e[3]) \subseteq dfIn[e[2]][e[3]]

THEOREM FlowSolutionDelivered == Spec => []AllDelivered
<1>1. FlowInv => AllDelivered
  <2>. SUFFICES ASSUME FlowInv, pc = "done", NEW e \in Indirect
                PROVE  Value(e[1], e[3]) \subseteq dfIn[e[2]][e[3]]
    BY DEF AllDelivered
  <2>1. e[1] \in svfg.nodes /\ NoLoc \notin svfg.nodes
    BY EdgeKinds, ProgramTypes, ValueFlowAssumption DEF FlowInv, TypeOK
  <2>2. worklist = {} /\ cur = NoLoc /\ newEdges = {}
    BY DEF FlowInv, Control
  <2>3. ~Passing(e[1], e[3])
    BY <2>1, <2>2 DEF Passing
  <2>. QED BY <2>2, <2>3 DEF FlowInv, UnflaggedDelivered
<1>. QED BY <1>1, FlowInit, FlowNext, PTL DEF Spec

-----------------------------------------------------------------------------
(* Nothing is invented: the state is always within any solution X of the   *)
(* flow equations.  The equations are monotone, strong updates included: a *)
(* pointer that points to more, or a function found to be recursive, can   *)
(* only stop a store from overwriting.                                     *)
Below(X) ==
  /\ callgraph \subseteq X.calls
  /\ \A x \in Var : pts[x] \subseteq X.pts[x]
  /\ \A n \in svfg.nodes : \A o \in Obj :
       dfIn[n][o] \subseteq X.in[n][o] /\ dfOut[n][o] \subseteq X.out[n][o]

LEMMA BelowIsWithin ==
  ASSUME NEW X PROVE FlowWithin(svfg, Result, X) <=> Below(X)
BY DEF FlowWithin, Result, Below

LEMMA CalleesMonotone ==
  ASSUME NEW E, NEW F, E \subseteq F, NEW f
  PROVE  Callees(E, f) \subseteq Callees(F, f)
<1>. SUFFICES ASSUME NEW g \in Callees(E, f), NEW S \in SUBSET Fun,
                     \A e \in F : e[1] \in S \cup {f} => e[2] \in S
              PROVE  g \in S
  BY DEF Callees
<1>. QED BY DEF Callees

LEMMA StrongMonotone ==
  ASSUME NEW P, NEW C, NEW D, C \subseteq D, NEW S, NEW T, S \subseteq T, S # {},
         Strong(P, D, T)
  PROVE  Strong(P, C, S) /\ S = T
<1>1. PICK o \in Singular : T = {o} /\ ~LocalInRecursion(P, D, o)
  BY DEF Strong
<1>2. S = {o}
  BY <1>1
<1>3. CallEdges(C) \subseteq CallEdges(D)
  BY DEF CallEdges
<1>4. \A f : Callees(CallEdges(C), f) \subseteq Callees(CallEdges(D), f)
  BY <1>3, CalleesMonotone
<1>5. ~LocalInRecursion(P, C, o)
  BY <1>1, <1>4 DEF LocalInRecursion
<1>. QED BY <1>1, <1>2, <1>5 DEF Strong

LEMMA EdgesMonotone ==
  ASSUME NEW X, callgraph \subseteq X.calls
  PROVE  /\ Direct \subseteq DirectEdges(svfg, X.calls)
         /\ Indirect \subseteq IndirectEdges(svfg, X.calls)
         /\ \A n : Operands(svfg, callgraph, n) \subseteq Operands(svfg, X.calls, n)
BY DEF Direct, Indirect, DirectEdges, IndirectEdges, Operands

LEMMA OperandsTyped ==
  ASSUME TypeOK, NEW n \in Loc
  PROVE  Operands(svfg, callgraph, n) \in SUBSET Var
<1>1. svfg.stmt[n].rhs \in SUBSET Var
  BY ProgramTypes DEF TypeOK, Stmt
<1>2. \A c \in callgraph : c.ops \in SUBSET (Loc \X Var)
  BY ProgramTypes DEF TypeOK, Call
<1>. QED BY <1>1, <1>2 DEF Operands

LEMMA UsedBelow ==
  ASSUME TypeOK, NEW X, Below(X), NEW n \in Loc
  PROVE  Used(n) \subseteq FlowUsed(svfg, X, n)
<1>1. Operands(svfg, callgraph, n) \subseteq Operands(svfg, X.calls, n)
  BY EdgesMonotone DEF Below
<1>2. \A x \in Operands(svfg, callgraph, n) : pts[x] \subseteq X.pts[x]
  BY OperandsTyped DEF Below
<1>. QED BY <1>1, <1>2 DEF Used, FlowUsed

(* A variable that receives no more than the equations define. *)
LEMMA VariableBelow ==
  ASSUME FlowInv, NEW X, Below(X), FlowSolution(svfg, X), NEW n \in svfg.nodes,
         NEW S, S \subseteq FlowDefined(svfg, X, n),
         pts' = [pts EXCEPT ![Lhs(n)] = @ \cup S],
         UNCHANGED <<svfg, callgraph, dfIn, dfOut>>
  PROVE  Below(X)'
<1>1. FlowDefined(svfg, X, n) \subseteq X.pts[Lhs(n)]
  BY DEF FlowSolution, Lhs
<1>2. \A x \in Var : pts'[x] \subseteq X.pts[x]
  BY <1>1 DEF Below, FlowInv, TypeOK
<1>. QED BY <1>2 DEF Below

LEMMA TopLevelBelow ==
  ASSUME FlowInv, NEW X, Below(X), FlowSolution(svfg, X), NEW n \in worklist,
         ProcessTopLevel(n)
  PROVE  Below(X)'
<1>1. n \in svfg.nodes /\ n \in Loc
  BY ProgramTypes DEF FlowInv, TypeOK
<1>2. Used(n) \subseteq FlowUsed(svfg, X, n)
  BY <1>1, UsedBelow DEF FlowInv
<1>3. TopLevelValue(n) \subseteq FlowDefined(svfg, X, n)
  <2>1. Op(n) = svfg.stmt[n].op
    BY DEF Op
  <2>2. CASE Op(n) = "addr"
    BY <2>1, <2>2 DEF TopLevelValue, FlowDefined
  <2>3. CASE Op(n) = "phi"
    BY <1>2, <2>1, <2>3 DEF TopLevelValue, FlowDefined
  <2>4. CASE Op(n) = "gep"
    BY <1>2, <2>1, <2>4 DEF TopLevelValue, FlowDefined
  <2>. QED BY <2>2, <2>3, <2>4 DEF ProcessTopLevel
<1>. QED BY <1>1, <1>3, VariableBelow DEF ProcessTopLevel

LEMMA LoadBelow ==
  ASSUME FlowInv, NEW X, Below(X), FlowSolution(svfg, X), NEW n \in worklist,
         ProcessLoad(n)
  PROVE  Below(X)'
<1>. DEFINE loaded == {o \in Used(n) \ NonPointer : New(inNew, n, o)}
            S == UNION {dfIn[n][o] : o \in loaded}
<1>1. n \in svfg.nodes /\ n \in Loc
  BY ProgramTypes DEF FlowInv, TypeOK
<1>2. Used(n) \subseteq FlowUsed(svfg, X, n) /\ Used(n) \subseteq Obj
  BY <1>1, UsedBelow, UsedTyped DEF FlowInv
<1>3. \A o \in loaded : o \in FlowUsed(svfg, X, n) \ NonPointer /\ dfIn[n][o] \subseteq X.in[n][o]
  BY <1>1, <1>2 DEF Below
<1>4. S \subseteq FlowDefined(svfg, X, n)
  BY <1>3 DEF FlowDefined, ProcessLoad, Op
<1>5. pts' = [pts EXCEPT ![Lhs(n)] = @ \cup S]
  BY DEF ProcessLoad
<1>6. UNCHANGED <<svfg, callgraph, dfIn, dfOut>>
  BY DEF ProcessLoad
<1>. HIDE DEF S
<1>. QED BY <1>1, <1>4, <1>5, <1>6, VariableBelow

LEMMA StoreBelow ==
  ASSUME FlowInv, NEW X, Below(X), FlowSolution(svfg, X), NEW n \in worklist,
         ProcessStore(n)
  PROVE  Below(X)'
<1>1. n \in svfg.nodes /\ n \in Loc /\ Lhs(n) \in Var /\ Lhs(n) = svfg.stmt[n].lhs
  BY LhsTyped, ProgramTypes DEF FlowInv, TypeOK, Lhs
<1>2. Used(n) \subseteq FlowUsed(svfg, X, n)
  BY <1>1, UsedBelow DEF FlowInv
<1>3. pts[Lhs(n)] \subseteq X.pts[Lhs(n)] /\ pts[Lhs(n)] # {} /\ callgraph \subseteq X.calls
  BY <1>1 DEF Below, ProcessStore
<1>4. FlowOverwritten(svfg, X, n) \subseteq Overwritten(n)
  <2>1. CASE Strong(svfg, X.calls, X.pts[Lhs(n)])
    <3>1. Strong(svfg, callgraph, pts[Lhs(n)]) /\ pts[Lhs(n)] = X.pts[Lhs(n)]
      BY <1>3, <2>1, StrongMonotone
    <3>. QED BY <1>1, <3>1 DEF FlowOverwritten, Overwritten
  <2>2. CASE ~Strong(svfg, X.calls, X.pts[Lhs(n)])
    BY <1>1, <2>2 DEF FlowOverwritten
  <2>. QED BY <2>1, <2>2
<1>5. \A o \in Obj : Sent(n, o) \subseteq X.out[n][o]
  <2>. TAKE o \in Obj
  <2>1. FlowStored(svfg, X, n, o) \subseteq X.out[n][o]
    BY <1>1, <1>3 DEF FlowSolution, ProcessStore, Op
  <2>2. o \in Written(n) => Used(n) \subseteq FlowStored(svfg, X, n, o)
    BY <1>1, <1>2, <1>3 DEF Written, FlowStored
  <2>3. o \in Passed(n) => dfIn[n][o] \subseteq FlowStored(svfg, X, n, o)
    BY <1>1, <1>4 DEF Passed, FlowStored, Below
  <2>. QED BY <2>1, <2>2, <2>3 DEF Sent
<1>6. \A d \in svfg.nodes : \A o \in Obj : dfOut'[d][o] \subseteq X.out[d][o]
  <2>. TAKE d \in svfg.nodes
  <2>. TAKE o \in Obj
  <2>1. d \in Loc
    BY ProgramTypes DEF FlowInv, TypeOK
  <2>2. dfOut' = [dfOut EXCEPT ![n] = [x \in Obj |-> @[x] \cup Sent(n, x)]]
    BY DEF ProcessStore
  <2>3. CASE d = n
    <3>1. dfOut'[n][o] = dfOut[n][o] \cup Sent(n, o)
      BY <1>1, <2>2 DEF FlowInv, TypeOK
    <3>. QED BY <1>5, <2>3, <3>1 DEF Below
  <2>4. CASE d # n
    BY <2>1, <2>2, <2>4 DEF Below, FlowInv, TypeOK
  <2>. QED BY <2>3, <2>4
<1>. QED BY <1>6 DEF Below, ProcessStore

(* IN of the nodes at the end of edges receives no more than they carry.   *)
LEMMA ArrivalBelow ==
  ASSUME FlowInv, NEW X, Below(X), FlowSolution(svfg, X), NEW s \in svfg.nodes,
         NEW E \in SUBSET Indirect, \A e \in E : e[1] = s, dfIn' = Delivered(s, E)
  PROVE  \A d \in svfg.nodes : \A o \in Obj : dfIn'[d][o] \subseteq X.in[d][o]
<1>. TAKE d \in svfg.nodes
<1>. TAKE o \in Obj
<1>1. d \in Loc /\ s \in Loc
  BY ProgramTypes DEF FlowInv, TypeOK
<1>2. dfIn'[d][o] = IF <<s, d, o>> \in E THEN dfIn[d][o] \cup Value(s, o) ELSE dfIn[d][o]
  BY <1>1, DeliveredAt DEF FlowInv
<1>3. Value(s, o) \subseteq FlowValue(svfg, X, s, o)
  BY DEF Value, FlowValue, Below, Op
<1>4. ASSUME <<s, d, o>> \in E PROVE FlowValue(svfg, X, s, o) \subseteq X.in[d][o]
  <2>1. <<s, d, o>> \in IndirectEdges(svfg, X.calls)
    BY <1>4, EdgesMonotone DEF Below
  <2>. QED BY <2>1 DEF FlowSolution
<1>. QED BY <1>2, <1>3, <1>4 DEF Below

LEMMA PropagateBelow ==
  ASSUME FlowInv, NEW X, Below(X), FlowSolution(svfg, X), Propagate
  PROVE  Below(X)'
<1>. DEFINE E == {e \in Indirect : e[1] = cur /\ IsNew(cur, e[3])}
<1>1. cur \in svfg.nodes /\ cur \in Loc
  BY ProgramTypes, ValueFlowAssumption DEF FlowInv, TypeOK, Control, Propagate
<1>2. E \in SUBSET Indirect /\ (\A e \in E : e[1] = cur) /\ dfIn' = Delivered(cur, E)
  BY DEF Propagate
<1>. HIDE DEF E
<1>3. \A d \in svfg.nodes : \A o \in Obj : dfIn'[d][o] \subseteq X.in[d][o]
  BY <1>1, <1>2, ArrivalBelow
<1>4. \A d \in Passes(cur) : pts[Lhs(cur)] \subseteq X.pts[Lhs(d)]
  <2>. TAKE d \in Passes(cur)
  <2>1. <<cur, d>> \in DirectEdges(svfg, X.calls) /\ Op(cur) = "actual"
    BY EdgesMonotone DEF Passes, Below
  <2>2. X.pts[Lhs(cur)] \subseteq X.pts[Lhs(d)]
    BY <2>1 DEF FlowSolution, Op, Lhs
  <2>. QED BY <1>1, <2>2, LhsTyped DEF Below, FlowInv
<1>5. \A x \in Var : pts'[x] \subseteq X.pts[x]
  <2>. TAKE x \in Var
  <2>1. pts'[x] = IF \E d \in Passes(cur) : Lhs(d) = x THEN pts[x] \cup pts[Lhs(cur)] ELSE pts[x]
    BY DEF Propagate
  <2>. QED BY <1>4, <2>1 DEF Below
<1>. QED BY <1>3, <1>5 DEF Below, Propagate

LEMMA ConnectEdgeBelow ==
  ASSUME FlowInv, NEW X, Below(X), FlowSolution(svfg, X), ConnectEdge
  PROVE  Below(X)'
<1>1. PICK e \in newEdges : dfIn' = Delivered(e[1], {x \in {e} : Op(x[2]) = "mem"})
  BY DEF ConnectEdge
<1>. DEFINE E == {x \in {e} : Op(x[2]) = "mem"}
<1>2. e \in Indirect
  BY DEF FlowInv, Control
<1>3. e[1] \in svfg.nodes
  BY <1>2, EdgeKinds DEF FlowInv, TypeOK
<1>4. E \in SUBSET Indirect /\ (\A x \in E : x[1] = e[1]) /\ dfIn' = Delivered(e[1], E)
  BY <1>1, <1>2
<1>. HIDE DEF E
<1>5. \A d \in svfg.nodes : \A o \in Obj : dfIn'[d][o] \subseteq X.in[d][o]
  BY <1>3, <1>4, ArrivalBelow
<1>. QED BY <1>5 DEF Below, ConnectEdge

LEMMA UpdateCallGraphBelow ==
  ASSUME FlowInv, NEW X, Below(X), FlowSolution(svfg, X), UpdateCallGraph
  PROVE  Below(X)'
<1>1. ASSUME NEW c \in NewTargets PROVE c \in X.calls
  <2>1. c \in svfg.calls /\ c.fp \in Var /\ c.fun \in pts[c.fp]
    BY ProgramTypes DEF NewTargets, FlowInv, TypeOK, Call
  <2>. QED BY <2>1 DEF Below, FlowSolution
<1>. QED BY <1>1 DEF Below, UpdateCallGraph

LEMMA NextBelow ==
  ASSUME FlowInv, NEW X, Below(X), FlowSolution(svfg, X), [Next]_vars
  PROVE  Below(X)' /\ svfg' = svfg
<1>1. CASE \E n \in worklist : ProcessTopLevel(n)
  BY <1>1, TopLevelBelow DEF ProcessTopLevel
<1>2. CASE \E n \in worklist : ProcessLoad(n)
  BY <1>2, LoadBelow DEF ProcessLoad
<1>3. CASE \E n \in worklist : ProcessStore(n)
  BY <1>3, StoreBelow DEF ProcessStore
<1>4. CASE \E n \in worklist : SkipStore(n) \/ ProcessPassOn(n)
  BY <1>4 DEF SkipStore, ProcessPassOn, Below
<1>5. CASE Propagate
  BY <1>5, PropagateBelow DEF Propagate
<1>6. CASE UpdateCallGraph
  BY <1>6, UpdateCallGraphBelow DEF UpdateCallGraph
<1>7. CASE ConnectEdge
  BY <1>7, ConnectEdgeBelow DEF ConnectEdge
<1>8. CASE NextRound \/ Finished \/ Terminated \/ UNCHANGED vars
  BY <1>8 DEF NextRound, Finished, Terminated, vars, Below
<1>. QED BY <1>1, <1>2, <1>3, <1>4, <1>5, <1>6, <1>7, <1>8 DEF Next

-----------------------------------------------------------------------------
(* Nothing is left out: every statement satisfies the equations, or its    *)
(* node is waiting, or someone is about to tell it: the node whose result  *)
(* is being propagated, or a formal that is waiting.                       *)
Satisfied(n) ==
  /\ FlowDefined(svfg, Result, n) \subseteq pts[Lhs(n)]
  /\ Op(n) = "store" /\ pts[Lhs(n)] # {} =>
       \A o \in Obj : FlowStored(svfg, Result, n, o) \subseteq dfOut[n][o]
  /\ \A d \in Passes(n) : pts[Lhs(n)] \subseteq pts[Lhs(d)]

Told(n) ==
  \/ n \in worklist
  \/ n = cur /\ Op(n) = "actual"
  \/ <<cur, n>> \in Direct
  \/ \E d \in worklist : Op(d) = "formal" /\ <<d, n>> \in Direct

SolvedInv ==
  /\ pc # "connect" => \A n \in svfg.nodes : Satisfied(n) \/ Told(n)
  /\ pc = "done" => NewTargets = {}

LEMMA ResultParts ==
  ASSUME NEW n
  PROVE  /\ FlowUsed(svfg, Result, n) = Used(n)
         /\ FlowOverwritten(svfg, Result, n) = Overwritten(n)
         /\ Op(n) = "addr" => FlowDefined(svfg, Result, n) = {svfg.stmt[n].obj}
         /\ Op(n) = "phi" => FlowDefined(svfg, Result, n) = Used(n)
         /\ Op(n) = "gep" => FlowDefined(svfg, Result, n) =
               {FieldAt[<<o, svfg.stmt[n].off>>] : o \in Used(n)}
         /\ Op(n) = "load" => FlowDefined(svfg, Result, n) =
               UNION {dfIn[n][o] : o \in Used(n) \ NonPointer}
         /\ Op(n) \notin {"addr", "phi", "gep", "load"} => FlowDefined(svfg, Result, n) = {}
         /\ \A o : FlowStored(svfg, Result, n, o) =
               (IF o \in pts[Lhs(n)] \ NonPointer THEN Used(n) ELSE {})
                 \cup (IF o \in Overwritten(n) THEN {} ELSE dfIn[n][o])
<1>1. /\ Result.pts = pts /\ Result.in = dfIn /\ Result.out = dfOut
      /\ Result.calls = callgraph
  BY DEF Result
<1>2. FlowUsed(svfg, Result, n) = Used(n)
  BY <1>1 DEF FlowUsed, Used
<1>3. FlowOverwritten(svfg, Result, n) = Overwritten(n)
  BY <1>1 DEF FlowOverwritten, Overwritten, Lhs
<1>4. /\ Op(n) = "addr" => FlowDefined(svfg, Result, n) = {svfg.stmt[n].obj}
      /\ Op(n) = "phi" => FlowDefined(svfg, Result, n) = Used(n)
      /\ Op(n) \notin {"addr", "phi", "gep", "load"} => FlowDefined(svfg, Result, n) = {}
  BY <1>2 DEF FlowDefined, Op
<1>5. Op(n) = "gep" => FlowDefined(svfg, Result, n) =
        {FieldAt[<<o, svfg.stmt[n].off>>] : o \in Used(n)}
  BY <1>2 DEF FlowDefined, Op
<1>6. Op(n) = "load" => FlowDefined(svfg, Result, n) =
        UNION {dfIn[n][o] : o \in Used(n) \ NonPointer}
  BY <1>1, <1>2 DEF FlowDefined, Op
<1>7. \A o : FlowStored(svfg, Result, n, o) =
        (IF o \in pts[Lhs(n)] \ NonPointer THEN Used(n) ELSE {})
          \cup (IF o \in Overwritten(n) THEN {} ELSE dfIn[n][o])
  BY <1>1, <1>2, <1>3 DEF FlowStored, Lhs
<1>. QED BY <1>2, <1>3, <1>4, <1>5, <1>6, <1>7

(* Who defines a variable is linked with those that use it. *)
LEMMA UsersLinked ==
  ASSUME TypeOK, NEW m \in svfg.nodes, Op(m) \in {"addr", "gep", "phi", "load", "formal"},
         NEW n \in svfg.nodes,
         \/ Lhs(m) \in Operands(svfg, callgraph, n)
         \/ Op(n) \in {"store", "actual"} /\ Lhs(m) = Lhs(n)
  PROVE  <<m, n>> \in Direct
BY UsesLinkedAssumption DEF TypeOK, Op, Lhs, Direct

LEMMA DirectTyped ==
  ASSUME TypeOK, NEW e \in Direct
  PROVE  /\ e[1] \in svfg.nodes /\ e[2] \in svfg.nodes
         /\ Op(e[1]) = "actual" => Op(e[2]) = "formal"
<1>1. Direct \subseteq svfg.direct \cup UNION {c.direct : c \in svfg.calls}
  BY DEF TypeOK, Direct, DirectEdges
<1>. QED BY <1>1, ValueFlowAssumption DEF TypeOK, Op

(* A statement stays satisfied while what it reads stays the same. *)
LEMMA StaysSatisfied ==
  ASSUME TypeOK, NEW n \in svfg.nodes, Satisfied(n), UNCHANGED <<svfg, callgraph>>,
         dfIn'[n] = dfIn[n],
         \A o \in Obj : dfOut[n][o] \subseteq dfOut'[n][o],
         \A x \in Var : pts[x] \subseteq pts'[x],
         \A x \in Operands(svfg, callgraph, n) : pts'[x] = pts[x],
         Op(n) \in {"store", "actual"} => pts'[Lhs(n)] = pts[Lhs(n)]
  PROVE  Satisfied(n)'
<1>1. n \in Loc /\ Lhs(n) \in Var
  BY LhsTyped, ProgramTypes DEF TypeOK
<1>2. Used(n)' = Used(n)
  BY DEF Used
<1>3. Op(n)' = Op(n) /\ Lhs(n)' = Lhs(n) /\ Passes(n)' = Passes(n)
  BY DEF Op, Lhs, Passes, Direct
<1>4. FlowDefined(svfg, Result, n)' = FlowDefined(svfg, Result, n)
  BY <1>2, <1>3 DEF FlowDefined, FlowUsed, Result, Used, Op
<1>5. pts[Lhs(n)] \subseteq pts'[Lhs(n)]
  BY <1>1
<1>6. ASSUME Op(n) = "store", pts'[Lhs(n)] # {}, NEW o \in Obj
      PROVE  FlowStored(svfg, Result, n, o)' \subseteq dfOut'[n][o]
  <2>1. pts'[Lhs(n)] = pts[Lhs(n)]
    BY <1>6
  <2>2. Overwritten(n)' = Overwritten(n)
    BY <1>3, <2>1 DEF Overwritten
  <2>3. FlowStored(svfg, Result, n, o) \subseteq dfOut[n][o]
    BY <1>6, <2>1 DEF Satisfied
  <2>4. FlowStored(svfg, Result, n, o) =
          (IF o \in pts[Lhs(n)] \ NonPointer THEN Used(n) ELSE {})
            \cup (IF o \in Overwritten(n) THEN {} ELSE dfIn[n][o])
    BY ResultParts
  <2>5. FlowStored(svfg, Result, n, o)' =
          (IF o \in pts'[Lhs(n)] \ NonPointer THEN Used(n)' ELSE {})
            \cup (IF o \in Overwritten(n)' THEN {} ELSE dfIn'[n][o])
    BY <1>2, <1>3, <2>1 DEF FlowStored, FlowUsed, FlowOverwritten, Overwritten, Result, Used, Lhs
  <2>6. FlowStored(svfg, Result, n, o)' = FlowStored(svfg, Result, n, o)
    BY <1>2, <2>1, <2>2, <2>4, <2>5
  <2>. QED BY <2>3, <2>6
<1>7. ASSUME NEW d \in Passes(n) PROVE pts'[Lhs(n)] \subseteq pts'[Lhs(d)]
  <2>1. Op(n) = "actual" /\ d \in svfg.nodes
    BY DEF Passes
  <2>2. Lhs(d) \in Var
    BY <2>1, LhsTyped, ProgramTypes DEF TypeOK
  <2>. QED BY <2>1, <2>2 DEF Satisfied
<1>. QED BY <1>3, <1>4, <1>5, <1>6, <1>7 DEF Satisfied, Lhs, Op, Passes, Direct

(* Taking m from the worklist leaves told whoever was told before, unless  *)
(* m is a formal; its result will be propagated if it has one.             *)
LEMMA StaysTold ==
  ASSUME FlowInv, pc = "solve", NEW m \in worklist, worklist' = worklist \ {m},
         UNCHANGED <<svfg, callgraph>>, Op(m) = "formal" => cur' = m,
         NEW n \in svfg.nodes, n # m, Told(n)
  PROVE  Told(n)'
<1>1. cur = NoLoc /\ NoLoc \notin svfg.nodes
  BY AtRest
<1>2. <<cur, n>> \notin Direct /\ n # cur
  BY <1>1, DirectTyped DEF FlowInv
<1>3. Direct' = Direct
  BY DEF Direct
<1>4. n \in worklist \/ \E d \in worklist : Op(d) = "formal" /\ <<d, n>> \in Direct
  BY <1>2 DEF Told
<1>. QED BY <1>3, <1>4 DEF Told, Op

(* A node that defines a variable has been processed. *)
LEMMA DefinerSolved ==
  ASSUME FlowInv, SolvedInv, pc = "solve", NEW m \in worklist, worklist' = worklist \ {m},
         UNCHANGED <<svfg, callgraph, dfIn, dfOut>>,
         Op(m) \in {"addr", "phi", "gep", "load"},
         NEW S, pts' = [pts EXCEPT ![Lhs(m)] = @ \cup S],
         Finish(m, pts' # pts),
         FlowDefined(svfg, Result, m) \subseteq pts'[Lhs(m)]
  PROVE  SolvedInv'
<1>1. m \in svfg.nodes /\ m \in Loc /\ Lhs(m) \in Var
  BY LhsTyped, ProgramTypes DEF FlowInv, TypeOK
<1>2. /\ \A x \in Var : pts[x] \subseteq pts'[x]
      /\ \A x \in Var : x # Lhs(m) => pts'[x] = pts[x]
      /\ pts' # pts => cur' = m
      /\ pc' # "done"
  BY <1>1 DEF FlowInv, TypeOK, Finish
<1>3. Direct' = Direct
  BY DEF Direct
<1>4. ASSUME NEW n \in svfg.nodes, <<m, n>> \notin Direct \/ pts' = pts
      PROVE  /\ \A x \in Operands(svfg, callgraph, n) : pts'[x] = pts[x]
             /\ Op(n) \in {"store", "actual"} => pts'[Lhs(n)] = pts[Lhs(n)]
  <2>1. CASE pts' = pts
    BY <2>1
  <2>2. CASE <<m, n>> \notin Direct
    <3>1. n \in Loc
      BY ProgramTypes DEF FlowInv, TypeOK
    <3>2. Lhs(m) \notin Operands(svfg, callgraph, n)
      BY <1>1, <2>2, UsersLinked DEF FlowInv
    <3>3. ~(Op(n) \in {"store", "actual"} /\ Lhs(m) = Lhs(n))
      BY <1>1, <2>2, UsersLinked DEF FlowInv
    <3>. QED BY <1>2, <3>1, <3>2, <3>3, OperandsTyped, LhsTyped DEF FlowInv
  <2>. QED BY <1>4, <2>1, <2>2
<1>5. ASSUME NEW n \in svfg.nodes PROVE Satisfied(n)' \/ Told(n)'
  <2>1. CASE <<m, n>> \in Direct /\ pts' # pts
    BY <1>2, <1>3, <2>1 DEF Told
  <2>2. CASE (<<m, n>> \notin Direct \/ pts' = pts) /\ n # m
    <3>1. CASE Satisfied(n)
      BY <1>2, <1>4, <2>2, <3>1, StaysSatisfied DEF FlowInv
    <3>2. CASE Told(n)
      BY <2>2, <3>2, StaysTold
    <3>. QED BY <3>1, <3>2 DEF SolvedInv
  <2>3. CASE (<<m, n>> \notin Direct \/ pts' = pts) /\ n = m
    <3>1. Used(m)' = Used(m)
      BY <1>4, <2>3 DEF Used
    <3>2. FlowDefined(svfg, Result, m)' = FlowDefined(svfg, Result, m)
      BY <3>1 DEF FlowDefined, FlowUsed, Result, Used, Op
    <3>3. Passes(m)' = {} /\ Op(m)' # "store"
      BY DEF Passes, Op
    <3>. QED BY <2>3, <3>2, <3>3 DEF Satisfied, Lhs
  <2>. QED BY <2>1, <2>2, <2>3
<1>. QED BY <1>2, <1>5 DEF SolvedInv

LEMMA TopLevelSolved ==
  ASSUME FlowInv, SolvedInv, NEW n \in worklist, ProcessTopLevel(n) PROVE SolvedInv'
<1>1. n \in Loc /\ Lhs(n) \in Var
  BY LhsTyped, ProgramTypes DEF FlowInv, TypeOK
<1>2. pts' = [pts EXCEPT ![Lhs(n)] = @ \cup TopLevelValue(n)]
  BY DEF ProcessTopLevel
<1>3. FlowDefined(svfg, Result, n) = TopLevelValue(n)
  BY ResultParts DEF ProcessTopLevel, TopLevelValue
<1>4. FlowDefined(svfg, Result, n) \subseteq pts'[Lhs(n)]
  BY <1>1, <1>2, <1>3 DEF FlowInv, TypeOK
<1>. QED BY <1>2, <1>4, DefinerSolved DEF ProcessTopLevel, Take

(* What a load does not find flagged as new it has read before.            *)
LEMMA LoadSolved ==
  ASSUME FlowInv, SolvedInv, NEW n \in worklist, ProcessLoad(n) PROVE SolvedInv'
<1>. DEFINE loaded == {o \in Used(n) \ NonPointer : New(inNew, n, o)}
            S == UNION {dfIn[n][o] : o \in loaded}
<1>1. n \in svfg.nodes /\ n \in Loc /\ Lhs(n) \in Var /\ Op(n) = "load"
  BY LhsTyped, ProgramTypes DEF FlowInv, TypeOK, ProcessLoad
<1>2. Used(n) \subseteq Obj
  BY <1>1, UsedTyped DEF FlowInv
<1>3. pts' = [pts EXCEPT ![Lhs(n)] = @ \cup S]
  BY DEF ProcessLoad
<1>. HIDE DEF S
<1>4. pts'[Lhs(n)] = pts[Lhs(n)] \cup S
  BY <1>1, <1>3 DEF FlowInv, TypeOK
<1>5. ASSUME NEW o \in Used(n) \ NonPointer PROVE dfIn[n][o] \subseteq pts'[Lhs(n)]
  <2>1. CASE o \in loaded
    BY <1>4, <2>1 DEF S
  <2>2. CASE o \notin loaded
    <3>1. svfg.inc /\ o \in Obj \ inNew[n]
      BY <1>2, <2>2 DEF New
    <3>2. dfIn[n][o] \subseteq pts[Lhs(n)]
      BY <1>1, <3>1 DEF FlowInv, UnflaggedDelivered
    <3>. QED BY <1>4, <3>2
  <2>. QED BY <2>1, <2>2
<1>6. FlowDefined(svfg, Result, n) \subseteq pts'[Lhs(n)]
  <2>1. FlowDefined(svfg, Result, n) = UNION {dfIn[n][o] : o \in Used(n) \ NonPointer}
    BY <1>1, ResultParts
  <2>. QED BY <1>5, <2>1
<1>. QED BY <1>1, <1>3, <1>6, DefinerSolved DEF ProcessLoad, Take

(* The same for a store and what it passes on.                             *)
LEMMA StoreSolved ==
  ASSUME FlowInv, SolvedInv, NEW n \in worklist, ProcessStore(n) PROVE SolvedInv'
<1>1. n \in svfg.nodes /\ n \in Loc /\ Op(n) = "store"
  BY ProgramTypes DEF FlowInv, TypeOK, ProcessStore
<1>2. /\ dfOut' = [dfOut EXCEPT ![n] = [o \in Obj |-> @[o] \cup Sent(n, o)]]
      /\ worklist' = worklist \ {n} /\ pc = "solve" /\ pc' \in {"propagate", "solve"}
      /\ UNCHANGED <<svfg, callgraph, pts, dfIn>>
  BY DEF ProcessStore, Take, Finish
<1>3. \A o \in Obj : dfOut'[n][o] = dfOut[n][o] \cup Sent(n, o)
  BY <1>1, <1>2 DEF FlowInv, TypeOK
<1>4. \A d \in svfg.nodes \ {n} : dfOut'[d] = dfOut[d]
  BY <1>2, ProgramTypes DEF FlowInv, TypeOK
<1>5. ASSUME NEW o \in Obj PROVE FlowStored(svfg, Result, n, o)' \subseteq dfOut'[n][o]
  <2>1. FlowStored(svfg, Result, n, o) =
          (IF o \in pts[Lhs(n)] \ NonPointer THEN Used(n) ELSE {})
            \cup (IF o \in Overwritten(n) THEN {} ELSE dfIn[n][o])
    BY ResultParts
  <2>2. (IF o \in pts[Lhs(n)] \ NonPointer THEN Used(n) ELSE {}) \subseteq Sent(n, o)
    BY DEF Sent, Written
  <2>3. o \notin Overwritten(n) => dfIn[n][o] \subseteq dfOut'[n][o]
    <3>1. CASE New(inNew, n, o)
      BY <1>3, <3>1 DEF Sent, Passed
    <3>2. CASE ~New(inNew, n, o)
      BY <1>1, <1>3, <3>2 DEF New, FlowInv, UnflaggedDelivered
    <3>. QED BY <3>1, <3>2
  <2>4. FlowStored(svfg, Result, n, o)' = FlowStored(svfg, Result, n, o)
    BY <1>2 DEF FlowStored, FlowUsed, FlowOverwritten, Result
  <2>. QED BY <1>3, <2>1, <2>2, <2>3, <2>4
<1>6. ASSUME NEW d \in svfg.nodes PROVE Satisfied(d)' \/ Told(d)'
  <2>1. CASE d = n
    <3>1. FlowDefined(svfg, Result, n)' = {}
      BY <1>1, <1>2 DEF FlowDefined, Op
    <3>2. Passes(n)' = {}
      BY <1>1, <1>2 DEF Passes, Op
    <3>. QED BY <1>5, <2>1, <3>1, <3>2 DEF Satisfied
  <2>2. CASE d # n /\ Satisfied(d)
    BY <1>2, <1>4, <2>2, StaysSatisfied DEF FlowInv
  <2>3. CASE d # n /\ Told(d)
    BY <1>1, <1>2, <2>3, StaysTold
  <2>. QED BY <1>2, <2>1, <2>2, <2>3 DEF SolvedInv
<1>. QED BY <1>2, <1>6 DEF SolvedInv

LEMMA SkipStoreSolved ==
  ASSUME FlowInv, SolvedInv, NEW n \in worklist, SkipStore(n) PROVE SolvedInv'
<1>1. /\ worklist' = worklist \ {n} /\ pc = "solve" /\ pc' = "solve"
      /\ UNCHANGED <<svfg, callgraph, pts, dfIn, dfOut>>
      /\ Op(n) = "store" /\ pts[Lhs(n)] = {}
  BY DEF SkipStore, Take, Finish
<1>2. ASSUME NEW d \in svfg.nodes PROVE Satisfied(d)' \/ Told(d)'
  <2>1. CASE d = n
    <3>1. FlowDefined(svfg, Result, n)' = {}
      BY <1>1 DEF FlowDefined, Op
    <3>2. Passes(n)' = {} /\ pts'[Lhs(n)'] = {}
      BY <1>1 DEF Passes, Op, Lhs
    <3>. QED BY <2>1, <3>1, <3>2 DEF Satisfied
  <2>2. CASE d # n /\ Satisfied(d)
    BY <1>1, <2>2, StaysSatisfied DEF FlowInv
  <2>3. CASE d # n /\ Told(d)
    BY <1>1, <2>3, StaysTold
  <2>. QED BY <1>1, <2>1, <2>2, <2>3 DEF SolvedInv
<1>. QED BY <1>1, <1>2 DEF SolvedInv

LEMMA PassOnSolved ==
  ASSUME FlowInv, SolvedInv, NEW n \in worklist, ProcessPassOn(n) PROVE SolvedInv'
<1>1. /\ worklist' = worklist \ {n} /\ pc = "solve" /\ pc' = "propagate" /\ cur' = n
      /\ UNCHANGED <<svfg, callgraph, pts, dfIn, dfOut>>
      /\ Op(n) \in {"mem", "actual", "formal"}
  BY DEF ProcessPassOn, Take, Finish
<1>2. ASSUME NEW d \in svfg.nodes PROVE Satisfied(d)' \/ Told(d)'
  <2>1. CASE d = n
    <3>1. FlowDefined(svfg, Result, n)' = {} /\ Op(n)' # "store"
      BY <1>1 DEF FlowDefined, Op
    <3>2. Op(n) # "actual" => Passes(n)' = {}
      BY <1>1 DEF Passes, Op
    <3>3. Op(n) = "actual" => Told(n)'
      BY <1>1 DEF Told, Op
    <3>. QED BY <2>1, <3>1, <3>2, <3>3 DEF Satisfied
  <2>2. CASE d # n /\ Satisfied(d)
    BY <1>1, <2>2, StaysSatisfied DEF FlowInv
  <2>3. CASE d # n /\ Told(d)
    BY <1>1, <2>3, StaysTold
  <2>. QED BY <1>1, <2>1, <2>2, <2>3 DEF SolvedInv
<1>. QED BY <1>1, <1>2 DEF SolvedInv

(* Everyone who uses a variable that has grown is pushed; behind an actual *)
(* that is the formal, which will tell the users in turn.                  *)
LEMMA PropagateSolved ==
  ASSUME FlowInv, SolvedInv, Propagate PROVE SolvedInv'
<1>. DEFINE E == {e \in Indirect : e[1] = cur /\ IsNew(cur, e[3])}
<1>1. cur \in svfg.nodes /\ cur \in Loc
  BY ProgramTypes DEF FlowInv, TypeOK, Control, Propagate
<1>2. /\ pc = "propagate" /\ pc' = "solve" /\ UNCHANGED <<svfg, callgraph, dfOut>>
      /\ worklist \cup Grown \subseteq worklist'
      /\ \A d \in svfg.nodes : <<cur, d>> \in Direct
            /\ (d \in Passes(cur) => pts'[Lhs(d)] # pts[Lhs(d)]) => d \in worklist'
  BY DEF Propagate
<1>3. Direct' = Direct
  BY <1>2 DEF Direct
<1>4. \A x \in Var : pts'[x] = IF \E d \in Passes(cur) : Lhs(d) = x
                               THEN pts[x] \cup pts[Lhs(cur)] ELSE pts[x]
  BY DEF Propagate
<1>5. \A d \in Passes(cur) : /\ d \in svfg.nodes /\ <<cur, d>> \in Direct
                             /\ Op(cur) = "actual" /\ Op(d) = "formal" /\ Lhs(d) \in Var
  <2>. TAKE d \in Passes(cur)
  <2>1. d \in svfg.nodes /\ <<cur, d>> \in Direct /\ Op(cur) = "actual"
    BY DEF Passes
  <2>2. Op(d) = "formal"
    BY <2>1, DirectTyped DEF FlowInv
  <2>. QED BY <2>1, <2>2, LhsTyped, ProgramTypes DEF FlowInv, TypeOK
<1>6. \A x \in Var : pts'[x] # pts[x] => \E d \in Passes(cur) : Lhs(d) = x /\ d \in worklist'
  BY <1>2, <1>4, <1>5
<1>7. \A d \in svfg.nodes : d \notin worklist' => dfIn'[d] = dfIn[d]
  BY <1>2 DEF Grown
<1>8. ASSUME NEW n \in svfg.nodes,
             NEW x \in Var, pts'[x] # pts[x],
             x \in Operands(svfg, callgraph, n) \/ (Op(n) \in {"store", "actual"} /\ x = Lhs(n))
      PROVE  Told(n)'
  <2>1. PICK d \in Passes(cur) : Lhs(d) = x /\ d \in worklist'
    BY <1>6, <1>8
  <2>2. <<d, n>> \in Direct /\ Op(d) = "formal"
    BY <1>5, <1>8, <2>1, UsersLinked DEF FlowInv
  <2>. QED BY <1>2, <1>3, <2>1, <2>2 DEF Told, Op
<1>9. ASSUME NEW n \in svfg.nodes, ~Told(n)' PROVE Satisfied(n)'
  <2>1. n \in Loc /\ Lhs(n) \in Var /\ n \notin worklist' /\ dfIn'[n] = dfIn[n]
    BY <1>7, <1>9, LhsTyped, ProgramTypes DEF FlowInv, TypeOK, Told
  <2>2. Operands(svfg, callgraph, n) \in SUBSET Var
    BY <2>1, OperandsTyped DEF FlowInv
  <2>3. /\ \A x \in Operands(svfg, callgraph, n) : pts'[x] = pts[x]
        /\ Op(n) \in {"store", "actual"} => pts'[Lhs(n)] = pts[Lhs(n)]
    BY <1>8, <1>9, <2>1, <2>2
  <2>4. \A x \in Var : pts[x] \subseteq pts'[x]
    BY <1>4
  <2>5. CASE Satisfied(n)
    BY <1>2, <2>1, <2>3, <2>4, <2>5, StaysSatisfied DEF FlowInv
  <2>6. CASE n = cur /\ Op(n) = "actual"
    <3>1. FlowDefined(svfg, Result, n)' = {} /\ Op(n)' # "store"
      BY <1>2, <2>6 DEF FlowDefined, Op
    <3>2. Passes(n)' = Passes(n) /\ Lhs(n)' = Lhs(n)
      BY <1>2, <1>3 DEF Passes, Op, Lhs
    <3>3. ASSUME NEW d \in Passes(n) PROVE pts'[Lhs(n)] \subseteq pts'[Lhs(d)]
      BY <1>4, <1>5, <2>3, <2>6
    <3>. QED BY <1>2, <3>1, <3>2, <3>3 DEF Satisfied, Lhs
  <2>7. CASE <<cur, n>> \in Direct
    <3>1. n \in Passes(cur)
      BY <1>2, <2>1, <2>7
    <3>2. Op(n) = "formal"
      BY <1>5, <3>1
    <3>3. FlowDefined(svfg, Result, n)' = {} /\ Op(n)' # "store" /\ Passes(n)' = {}
      BY <1>2, <3>2 DEF FlowDefined, Op, Passes
    <3>. QED BY <3>3 DEF Satisfied
  <2>8. CASE n \in worklist \/ \E d \in worklist : Op(d) = "formal" /\ <<d, n>> \in Direct
    BY <1>2, <1>3, <1>9, <2>8 DEF Told, Op
  <2>. QED BY <1>2, <2>5, <2>6, <2>7, <2>8 DEF SolvedInv, Told
<1>. QED BY <1>2, <1>9 DEF SolvedInv

LEMMA SolvedNext ==
  ASSUME FlowInv, SolvedInv, [Next]_vars PROVE SolvedInv'
<1>1. CASE \E n \in worklist : ProcessTopLevel(n)
  BY <1>1, TopLevelSolved
<1>2. CASE \E n \in worklist : ProcessLoad(n)
  BY <1>2, LoadSolved
<1>3. CASE \E n \in worklist : ProcessStore(n)
  BY <1>3, StoreSolved
<1>4. CASE \E n \in worklist : SkipStore(n)
  BY <1>4, SkipStoreSolved
<1>5. CASE \E n \in worklist : ProcessPassOn(n)
  BY <1>5, PassOnSolved
<1>6. CASE Propagate
  BY <1>6, PropagateSolved
<1>7. CASE UpdateCallGraph \/ ConnectEdge
  <2>1. pc' = "connect"
    BY <1>7 DEF UpdateCallGraph, ConnectEdge, FlowInv, Control
  <2>. QED BY <2>1 DEF SolvedInv
<1>8. CASE NextRound
  BY <1>8 DEF NextRound, SolvedInv, Told
<1>9. CASE Finished \/ Terminated \/ UNCHANGED vars
  <2>1. UNCHANGED <<svfg, callgraph, pts, dfIn, dfOut, worklist, cur>>
    BY <1>9 DEF Finished, Terminated, vars
  <2>2. \A n \in svfg.nodes : Satisfied(n)' <=> Satisfied(n)
    BY <2>1 DEF Satisfied, FlowDefined, FlowStored, FlowUsed, FlowOverwritten, Result,
                Op, Lhs, Passes, Direct
  <2>3. \A n \in svfg.nodes : Told(n)' <=> Told(n)
    BY <2>1 DEF Told, Op, Direct
  <2>4. NewTargets' = NewTargets
    BY <2>1 DEF NewTargets
  <2>5. (pc' # "connect" => pc # "connect") /\ (pc' = "done" => NewTargets = {})
    BY <1>9 DEF Finished, Terminated, vars, SolvedInv
  <2>. QED BY <2>1, <2>2, <2>3, <2>4, <2>5 DEF SolvedInv
<1>. QED BY <1>1, <1>2, <1>3, <1>4, <1>5, <1>6, <1>7, <1>8, <1>9 DEF Next

LEMMA SolvedWhenDone ==
  ASSUME FlowInv, SolvedInv, pc = "done" PROVE FlowSolution(svfg, Result)
<1>1. cur = NoLoc /\ worklist = {} /\ newEdges = {} /\ NewTargets = {}
  BY DEF FlowInv, Control, SolvedInv
<1>2. NoLoc \notin svfg.nodes
  BY ProgramTypes, ValueFlowAssumption DEF FlowInv, TypeOK
<1>3. \A n \in svfg.nodes : Satisfied(n)
  BY <1>1, <1>2, DirectTyped DEF SolvedInv, Told, FlowInv
<1>4. /\ Result.pts = pts /\ Result.in = dfIn /\ Result.out = dfOut
      /\ Result.calls = callgraph
  BY DEF Result
<1>5. \A c \in svfg.calls : c.fun \in pts[c.fp] => c \in callgraph
  BY <1>1 DEF NewTargets
<1>6. ASSUME NEW e \in Direct, Op(e[1]) = "actual"
      PROVE  pts[Lhs(e[1])] \subseteq pts[Lhs(e[2])]
  <2>1. e = <<e[1], e[2]>>
    <3>1. svfg \in Programs /\ callgraph \subseteq svfg.calls
      BY DEF FlowInv, TypeOK
    <3>2. \A c \in svfg.calls : c.direct \in SUBSET (Loc \X Loc)
      BY <3>1, ProgramTypes DEF Call
    <3>3. e \in svfg.direct \/ \E c \in callgraph : e \in c.direct
      BY <1>6 DEF Direct, DirectEdges
    <3>4. e \in Loc \X Loc
      BY <3>1, <3>2, <3>3, ProgramTypes
    <3>. QED BY <3>4
  <2>2. e[1] \in svfg.nodes /\ e[2] \in Passes(e[1])
    BY <1>6, <2>1, DirectTyped DEF FlowInv, Passes
  <2>. QED BY <1>3, <2>2 DEF Satisfied
<1>7. ASSUME NEW e \in Indirect PROVE Value(e[1], e[3]) \subseteq dfIn[e[2]][e[3]]
  <2>1. e[1] \in svfg.nodes
    BY EdgeKinds DEF FlowInv, TypeOK
  <2>. QED BY <1>1, <1>2, <2>1 DEF FlowInv, UnflaggedDelivered, Passing
<1>. QED BY <1>3, <1>4, <1>5, <1>6, <1>7
         DEF FlowSolution, FlowValue, Satisfied, Op, Lhs, Direct, Indirect, Value

(* The result is a solution of the flow equations, and within every        *)
(* solution that Reference may stand for: it is the least one, for every   *)
(* graph, in whatever order nodes are processed and calls found.           *)
THEOREM FlowLeast == Spec => []LeastWhenDone
<1>. DEFINE Inv == FlowInv /\ SolvedInv /\ FlowWithin(svfg, Result, Reference(svfg))
<1>1. Init => Inv
  <2>. SUFFICES ASSUME Init PROVE Inv
    OBVIOUS
  <2>1. FlowInv
    BY FlowInit
  <2>2. SolvedInv
    BY DEF Init, SolvedInv, Told
  <2>3. PICK X : X = Reference(svfg)
    OBVIOUS
  <2>4. Below(X)
    <3>1. svfg.nodes \subseteq Loc
      BY ProgramTypes DEF Init
    <3>. QED BY <3>1 DEF Init, Below
  <2>. QED BY <2>1, <2>2, <2>3, <2>4, BelowIsWithin
<1>2. ASSUME Inv, [Next]_vars PROVE Inv'
  <2>1. FlowInv'
    BY <1>2, FlowNext
  <2>2. SolvedInv'
    BY <1>2, SolvedNext
  <2>3. PICK X : X = Reference(svfg)
    OBVIOUS
  <2>4. FlowSolution(svfg, X)
    BY <1>2, <2>3, ReferenceAssumption DEF FlowInv, TypeOK
  <2>5. Below(X)
    BY <1>2, <2>3, BelowIsWithin
  <2>6. Below(X)' /\ svfg' = svfg
    BY <1>2, <2>4, <2>5, NextBelow
  <2>7. FlowWithin(svfg, Result, X)'
    BY <2>6 DEF FlowWithin, Result, Below
  <2>. QED BY <2>1, <2>2, <2>3, <2>6, <2>7
<1>3. Inv => LeastWhenDone
  BY SolvedWhenDone DEF LeastWhenDone
<1>4. Inv /\ [Next]_vars => Inv'
  BY <1>2
<1>. HIDE DEF Inv
<1>. QED BY <1>1, <1>3, <1>4, PTL DEF Spec

=============================================================================
