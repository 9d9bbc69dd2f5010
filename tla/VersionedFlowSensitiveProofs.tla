--------------------- MODULE VersionedFlowSensitiveProofs ----------------------
(***************************************************************************)
(* No version and no statement misses what another version has gained, for *)
(* every value-flow graph.  The two properties are inductive together with *)
(* the types and with what holds before solving begins (Control).  From    *)
(* them, from what labels say of the graph (LabelInv), and since neither   *)
(* labels nor versions exceed any solution of the flow equations (Below,   *)
(* LabelsBelow), the result is within all solutions, and one itself.       *)
(***************************************************************************)
EXTENDS VersionedFlowSensitive, TLAPS

(* While the graph is labelled there is nothing to propagate, and edges    *)
(* wait to be served only while the call graph is being updated.           *)
Control ==
  /\ pc = "label" => vPtD = {} /\ pending = {} /\ versionReliance = {}
  /\ newEdges # {} => pc = "connect"
  /\ pc = "done" => pending = {}

VersionInv == TypeOK /\ Control /\ ReliantDelivered /\ StatementsNotified

-----------------------------------------------------------------------------
LEMMA ProgramTypes ==
  ASSUME svfg \in Programs
  PROVE  /\ svfg.nodes \in SUBSET Loc
         /\ svfg.stmt \in [Loc -> Stmt]
         /\ svfg.indirect \in SUBSET (Loc \X Loc \X Obj)
         /\ svfg.calls \in SUBSET Call
         /\ svfg.direct \in SUBSET (Loc \X Loc)
BY ValueFlowAssumption DEF Program

LEMMA StmtTypes ==
  ASSUME TypeOK, NEW n \in Loc
  PROVE  /\ Lhs(n) \in Var
         /\ svfg.stmt[n].obj \in Obj /\ svfg.stmt[n].off \in Offset
         /\ Used(n) \in SUBSET Obj
         /\ \A o \in Obj : Yield(n, o) \in Version
<1>1. svfg.stmt[n] \in Stmt
  BY ProgramTypes DEF TypeOK
<1>2. \A c \in callgraph : c.ops \in SUBSET (Loc \X Var)
  BY ProgramTypes DEF TypeOK, Call
<1>3. Operands(svfg, callgraph, n) \in SUBSET Var
  BY <1>1, <1>2 DEF Operands, Stmt
<1>4. Used(n) \in SUBSET Obj
  BY <1>3 DEF Used, TypeOK
<1>5. \A o \in Obj : Yield(n, o) \in Version
  BY DEF Yield, Version, TypeOK
<1>. QED BY <1>1, <1>4, <1>5 DEF Stmt, Lhs

LEMMA AtTyped == \A o, v : At(o, v) \in SUBSET Obj
BY DEF At

(* Whatever reads a variable is a user of all that define it, and what     *)
(* uses an actual parameter is a formal one.                               *)
LEMMA Linked ==
  ASSUME TypeOK, NEW m \in svfg.nodes, NEW n \in svfg.nodes,
         Op(m) \in {"addr", "gep", "phi", "load", "formal"},
         \/ Lhs(m) \in Operands(svfg, callgraph, n)
         \/ Op(n) \in {"store", "actual"} /\ Lhs(m) = Lhs(n)
  PROVE  n \in Users(m)
<1>1. svfg \in Programs /\ callgraph \in SUBSET svfg.calls
  BY DEF TypeOK
<1>2. /\ svfg.stmt[m].op \in {"addr", "gep", "phi", "load", "formal"}
      /\ \/ svfg.stmt[m].lhs \in Operands(svfg, callgraph, n)
         \/ svfg.stmt[n].op \in {"store", "actual"} /\ svfg.stmt[m].lhs = svfg.stmt[n].lhs
  BY DEF Op, Lhs
<1>3. <<m, n>> \in DirectEdges(svfg, callgraph)
  BY <1>1, <1>2, UsesLinkedAssumption
<1>. QED BY <1>3 DEF Users, Direct

LEMMA FormalUsers ==
  ASSUME TypeOK, NEW m \in svfg.nodes, Op(m) = "actual", NEW d \in Users(m)
  PROVE  Op(d) = "formal"
<1> DEFINE direct == svfg.direct \cup UNION {c.direct : c \in svfg.calls}
<1>1. <<m, d>> \in direct
  BY DEF Users, Direct, DirectEdges, TypeOK
<1>2. \A e \in direct : svfg.stmt[e[1]].op = "actual" => svfg.stmt[e[2]].op = "formal"
  BY ValueFlowAssumption DEF TypeOK
<1>. QED BY <1>1, <1>2 DEF Op

-----------------------------------------------------------------------------
(* Where versions do not change, it is enough that the statement processed *)
(* has read what it sees, and that all whose operands change are on their  *)
(* way to being processed.                                                 *)
LEMMA VersionsUnchanged ==
  ASSUME VersionInv, pc = "solve", pc' = "solve",
         NEW m \in worklist, Op(m) # "store",
         UNCHANGED <<svfg, callgraph, consume, versionReliance, vPtD, pending>>,
         worklist \ {m} \subseteq worklist',
         Op(m) = "formal" => Users(m) \subseteq worklist',
         \A x \in Var : pts[x] \subseteq pts'[x],
         \A n \in svfg.nodes : ToBeProcessed(n)' \/
           (Used(n)' = Used(n) /\ (Op(n) = "store" => pts'[Lhs(n)] = pts[Lhs(n)])),
         \A o \in Used(m) \ NonPointer :
           Op(m) = "load" /\ consume[m][o] # {} => At(o, consume[m][o]) \subseteq pts'[Lhs(m)]
  PROVE  ReliantDelivered' /\ StatementsNotified'
<1>1. \A o, v : At(o, v)' = At(o, v)
  BY DEF At
<1>2. ReliantDelivered'
  BY <1>1 DEF VersionInv, ReliantDelivered
<1>3. \A n : Op(n)' = Op(n) /\ Lhs(n)' = Lhs(n) /\ \A o : Yield(n, o)' = Yield(n, o)
  BY DEF Op, Lhs, Yield
<1>4. StatementsNotified'
  <2>. SUFFICES ASSUME NEW n \in svfg.nodes, NEW o \in Obj,
                       consume[n][o] # {}, <<o, consume[n][o]>> \notin pending,
                       ~ToBeProcessed(n)'
                PROVE  UpToDate(n, o)'
    BY DEF StatementsNotified
  <2>1. /\ Used(n)' = Used(n) /\ (Op(n) = "store" => pts'[Lhs(n)] = pts[Lhs(n)])
        /\ n \in Loc /\ Lhs(n) \in Var
    BY ProgramTypes, StmtTypes DEF VersionInv, TypeOK
  <2>2. CASE n = m
    <3>1. Op(n) = "load" /\ o \in Used(n) \ NonPointer => At(o, consume[n][o]) \subseteq pts'[Lhs(n)]
      BY <2>2
    <3>. QED BY <1>1, <1>3, <2>1, <2>2, <3>1 DEF UpToDate
  <2>3. CASE n # m
    <3>1. ~ToBeProcessed(n)
      <4>1. n \notin worklist
        BY <2>3 DEF ToBeProcessed
      <4>2. ASSUME NEW d \in worklist, Op(d) = "formal", <<d, n>> \in Direct
            PROVE  FALSE
        <5>1. d = m \/ d \in worklist'
          OBVIOUS
        <5>2. Direct' = Direct
          BY DEF Direct, DirectEdges
        <5>3. CASE d = m
          BY <4>2, <5>3 DEF Users, ToBeProcessed
        <5>4. CASE d \in worklist'
          BY <1>3, <4>2, <5>2, <5>4 DEF ToBeProcessed
        <5>. QED BY <5>1, <5>3, <5>4
      <4>. QED BY <4>1, <4>2 DEF ToBeProcessed
    <3>2. UpToDate(n, o)
      BY <3>1 DEF VersionInv, StatementsNotified
    <3>3. Op(n) = "store" => Overwritten(n)' = Overwritten(n)
      BY <1>3, <2>1 DEF Overwritten
    <3>4. pts[Lhs(n)] \subseteq pts'[Lhs(n)]
      BY <2>1
    <3>. QED BY <1>1, <1>3, <2>1, <3>2, <3>3, <3>4 DEF UpToDate
  <2>. QED BY <2>2, <2>3
<1>. QED BY <1>2, <1>4

LEMMA TopLevelStep ==
  ASSUME VersionInv, NEW n \in worklist, ProcessTopLevel(n)
  PROVE  VersionInv'
<1>1. /\ n \in svfg.nodes /\ n \in Loc /\ Lhs(n) \in Var /\ Used(n) \in SUBSET Obj
      /\ svfg.stmt[n].obj \in Obj /\ svfg.stmt[n].off \in Offset
  BY ProgramTypes, StmtTypes DEF VersionInv, TypeOK
<1>2. /\ Op(n) \in {"addr", "phi", "gep", "load"} /\ pc = "solve" /\ pc' = "solve"
      /\ pts' = [pts EXCEPT ![Lhs(n)] = @ \cup TopLevelValue(n)]
      /\ worklist' = (worklist \ {n}) \cup (IF pts' = pts THEN {} ELSE Users(n))
      /\ UNCHANGED <<svfg, callgraph, consume, vWorklist, versionReliance, vPtD, pending,
                     newEdges>>
  BY DEF ProcessTopLevel, Take
<1>3. TopLevelValue(n) \in SUBSET Obj
  <2>1. \A o \in Used(n) : FieldAt[<<o, svfg.stmt[n].off>>] \in Obj
    BY <1>1, ValueFlowAssumption
  <2>2. UNION {At(o, consume[n][o]) : o \in {o \in Used(n) \ NonPointer : consume[n][o] # {}}}
          \in SUBSET Obj
    BY AtTyped
  <2>3. CASE Op(n) = "addr"
    BY <1>1, <2>3 DEF TopLevelValue
  <2>4. CASE Op(n) = "phi"
    BY <1>1, <2>4 DEF TopLevelValue
  <2>5. CASE Op(n) = "gep"
    BY <2>1, <2>5 DEF TopLevelValue
  <2>6. CASE Op(n) = "load"
    BY <2>2, <2>6 DEF TopLevelValue
  <2>. QED BY <1>2, <2>3, <2>4, <2>5, <2>6
<1>4. TypeOK'
  <2>1. worklist' \subseteq svfg.nodes
    BY <1>2 DEF VersionInv, TypeOK, Users
  <2>. QED BY <1>1, <1>2, <1>3, <2>1 DEF VersionInv, TypeOK
<1>5. Control'
  BY <1>2 DEF VersionInv, Control
<1>6. /\ \A x \in Var : pts[x] \subseteq pts'[x]
      /\ \A x \in Var \ {Lhs(n)} : pts'[x] = pts[x]
      /\ pts'[Lhs(n)] = pts[Lhs(n)] \cup TopLevelValue(n)
  BY <1>1, <1>2 DEF VersionInv, TypeOK
<1>7. ASSUME NEW d \in svfg.nodes
      PROVE  ToBeProcessed(d)' \/
             (Used(d)' = Used(d) /\ (Op(d) = "store" => pts'[Lhs(d)] = pts[Lhs(d)]))
  <2>1. CASE pts' = pts
    BY <1>2, <2>1 DEF Used
  <2>2. CASE pts' # pts /\ d \in Users(n)
    BY <1>2, <2>2 DEF ToBeProcessed
  <2>3. CASE d \notin Users(n)
    <3>1. /\ Lhs(n) \notin Operands(svfg, callgraph, d)
          /\ Op(d) = "store" => Lhs(n) # Lhs(d)
      BY <1>1, <1>2, <2>3, Linked DEF VersionInv
    <3>2. Operands(svfg, callgraph, d) \subseteq Var /\ Lhs(d) \in Var
      <4>1. d \in Loc /\ svfg.stmt[d] \in Stmt
        BY ProgramTypes DEF VersionInv, TypeOK
      <4>2. \A c \in callgraph : c.ops \in SUBSET (Loc \X Var)
        BY ProgramTypes DEF VersionInv, TypeOK, Call
      <4>. QED BY <4>1, <4>2 DEF Operands, Stmt, Lhs
    <3>3. \A x \in Operands(svfg, callgraph, d) : pts'[x] = pts[x]
      BY <1>6, <3>1, <3>2
    <3>4. Used(d)' = Used(d)
      BY <1>2, <3>3 DEF Used
    <3>. QED BY <1>6, <3>1, <3>2, <3>4
  <2>. QED BY <2>1, <2>2, <2>3
<1>8. \A o \in Used(n) \ NonPointer :
        Op(n) = "load" /\ consume[n][o] # {} => At(o, consume[n][o]) \subseteq pts'[Lhs(n)]
  BY <1>6 DEF TopLevelValue
<1>9. ReliantDelivered' /\ StatementsNotified'
  BY <1>2, <1>6, <1>7, <1>8, VersionsUnchanged
<1>. QED BY <1>4, <1>5, <1>9 DEF VersionInv

LEMMA OperandTypes ==
  ASSUME TypeOK, NEW d \in svfg.nodes
  PROVE  d \in Loc /\ Lhs(d) \in Var /\ Operands(svfg, callgraph, d) \subseteq Var
<1>1. d \in Loc /\ svfg.stmt[d] \in Stmt
  BY ProgramTypes DEF TypeOK
<1>2. \A c \in callgraph : c.ops \in SUBSET (Loc \X Var)
  BY ProgramTypes DEF TypeOK, Call
<1>. QED BY <1>1, <1>2 DEF Operands, Stmt, Lhs

LEMMA PassOnStep ==
  ASSUME VersionInv, NEW n \in worklist, ProcessPassOn(n)
  PROVE  VersionInv'
<1>1. /\ n \in svfg.nodes /\ n \in Loc /\ Lhs(n) \in Var
      /\ pts[Lhs(n)] \in SUBSET Obj
  BY ProgramTypes, StmtTypes DEF VersionInv, TypeOK
<1>2. /\ Op(n) \in {"mem", "actual", "formal"} /\ pc = "solve" /\ pc' = "solve"
      /\ pts' = [x \in Var |-> IF \E d \in Passes(n) : Lhs(d) = x
                               THEN pts[x] \cup pts[Lhs(n)] ELSE pts[x]]
      /\ worklist' = (worklist \ {n})
           \cup {d \in Users(n) : d \in Passes(n) => pts'[Lhs(d)] # pts[Lhs(d)]}
      /\ UNCHANGED <<svfg, callgraph, consume, vWorklist, versionReliance, vPtD, pending,
                     newEdges>>
  BY DEF ProcessPassOn, Take
<1>3. TypeOK'
  <2>1. worklist' \subseteq svfg.nodes
    BY <1>2 DEF VersionInv, TypeOK, Users
  <2>2. pts' \in [Var -> SUBSET Obj]
    BY <1>1, <1>2 DEF VersionInv, TypeOK
  <2>. QED BY <1>2, <2>1, <2>2 DEF VersionInv, TypeOK
<1>4. Control'
  BY <1>2 DEF VersionInv, Control
<1>5. \A x \in Var : pts[x] \subseteq pts'[x]
  BY <1>2
<1>6. ASSUME NEW d \in svfg.nodes, NEW x \in Var, pts'[x] # pts[x],
             x \in Operands(svfg, callgraph, d) \/ (Op(d) = "store" /\ x = Lhs(d))
      PROVE  ToBeProcessed(d)'
  <2>1. PICK f \in Passes(n) : Lhs(f) = x
    BY <1>2, <1>6
  <2>2. Op(n) = "actual" /\ f \in Users(n) /\ f \in svfg.nodes
    BY <2>1 DEF Passes, Users
  <2>3. Op(f) = "formal" /\ f \in worklist'
    BY <1>1, <1>2, <1>6, <2>1, <2>2, FormalUsers DEF VersionInv
  <2>4. d \in Users(f)
    BY <1>6, <2>1, <2>2, <2>3, Linked DEF VersionInv
  <2>5. Direct' = Direct /\ Op(f)' = Op(f)
    BY <1>2 DEF Direct, DirectEdges, Op
  <2>. QED BY <2>3, <2>4, <2>5 DEF ToBeProcessed, Users
<1>7. ASSUME NEW d \in svfg.nodes
      PROVE  ToBeProcessed(d)' \/
             (Used(d)' = Used(d) /\ (Op(d) = "store" => pts'[Lhs(d)] = pts[Lhs(d)]))
  <2>. SUFFICES ASSUME ~ToBeProcessed(d)'
                PROVE  Used(d)' = Used(d) /\ (Op(d) = "store" => pts'[Lhs(d)] = pts[Lhs(d)])
    OBVIOUS
  <2>1. Operands(svfg, callgraph, d) \subseteq Var /\ Lhs(d) \in Var
    BY OperandTypes DEF VersionInv
  <2>2. \A x \in Operands(svfg, callgraph, d) : pts'[x] = pts[x]
    BY <1>6, <2>1
  <2>3. Used(d)' = Used(d)
    <3>1. Operands(svfg, callgraph, d)' = Operands(svfg, callgraph, d)
      BY <1>2
    <3>. QED BY <2>2, <3>1 DEF Used
  <2>. QED BY <1>6, <2>1, <2>3
<1>8. Op(n) = "formal" => Users(n) \subseteq worklist'
  BY <1>2 DEF Passes
<1>9. ReliantDelivered' /\ StatementsNotified'
  BY <1>2, <1>5, <1>7, <1>8, VersionsUnchanged
<1>. QED BY <1>3, <1>4, <1>9 DEF VersionInv

-----------------------------------------------------------------------------
(* Where versions grow, those that do are about to be propagated.          *)
LEMMA SentTyped ==
  ASSUME TypeOK, NEW n \in Loc, NEW o \in Obj
  PROVE  Sent(n, o) \in SUBSET Obj
BY StmtTypes, AtTyped DEF Sent

LEMMA StoreStep ==
  ASSUME VersionInv, NEW n \in worklist, ProcessStore(n)
  PROVE  VersionInv'
<1> DEFINE changed == {o \in Obj : /\ pts[Lhs(n)] # {} /\ Yield(n, o) # {}
                                   /\ ~(Sent(n, o) \subseteq At(o, Yield(n, o)))}
<1>1. n \in svfg.nodes /\ n \in Loc
  BY ProgramTypes DEF VersionInv, TypeOK
<1>2. /\ Op(n) = "store" /\ pc = "solve" /\ pc' = "solve" /\ pending = {}
      /\ vPtD' = vPtD \cup UNION {Entries(o, Yield(n, o), Sent(n, o)) : o \in changed}
      /\ pending' = {<<o, Yield(n, o)>> : o \in changed}
      /\ worklist' = worklist \ {n}
      /\ UNCHANGED <<svfg, callgraph, pts, consume, vWorklist, versionReliance, newEdges>>
  BY DEF ProcessStore, Take
<1>3. \A o \in Obj : Sent(n, o) \in SUBSET Obj /\ Yield(n, o) \in Version
  BY <1>1, SentTyped, StmtTypes DEF VersionInv
<1>4. TypeOK'
  <2>1. vPtD' \subseteq Obj \X Version \X Obj
    BY <1>2, <1>3 DEF VersionInv, TypeOK, Entries
  <2>2. pending' \subseteq Obj \X Version
    BY <1>2, <1>3
  <2>. QED BY <1>2, <2>1, <2>2 DEF VersionInv, TypeOK
<1>5. Control'
  BY <1>2 DEF VersionInv, Control
<1>6. \A o, v : At(o, v) \subseteq At(o, v)'
  BY <1>2 DEF At
<1>7. ASSUME NEW o, NEW v, <<o, v>> \notin pending'
      PROVE  At(o, v)' = At(o, v)
  <2>1. ASSUME NEW x \in Obj, <<o, v, x>> \in vPtD'
        PROVE  <<o, v, x>> \in vPtD
    <3>. SUFFICES ASSUME <<o, v, x>> \notin vPtD PROVE FALSE
      OBVIOUS
    <3>1. PICK c \in changed : <<o, v, x>> \in Entries(c, Yield(n, c), Sent(n, c))
      BY <1>2, <2>1
    <3>2. o = c /\ v = Yield(n, c)
      BY <3>1 DEF Entries
    <3>. QED BY <1>2, <1>7, <3>1, <3>2
  <2>. QED BY <1>6, <2>1 DEF At
<1>8. \A o \in Obj : pts[Lhs(n)] # {} /\ Yield(n, o) # {} => Sent(n, o) \subseteq At(o, Yield(n, o))'
  <2>. SUFFICES ASSUME NEW o \in Obj, pts[Lhs(n)] # {}, Yield(n, o) # {}
                PROVE  Sent(n, o) \subseteq At(o, Yield(n, o))'
    OBVIOUS
  <2>0. Yield(n, o)' = Yield(n, o)
    BY <1>2 DEF Yield, Op, Lhs
  <2>1. CASE o \in changed
    <3>1. \A x \in Sent(n, o) : <<o, Yield(n, o), x>> \in vPtD'
      BY <1>2, <2>1 DEF Entries
    <3>. QED BY <1>3, <2>0, <3>1 DEF At
  <2>2. CASE o \notin changed
    BY <1>6, <2>0, <2>2
  <2>. QED BY <2>1, <2>2
<1>9. ReliantDelivered'
  BY <1>2, <1>6, <1>7 DEF VersionInv, ReliantDelivered
<1>10. \A m : /\ Op(m)' = Op(m) /\ Lhs(m)' = Lhs(m) /\ Used(m)' = Used(m)
              /\ \A o : Yield(m, o)' = Yield(m, o)
              /\ Overwritten(m)' = Overwritten(m)
  BY <1>2 DEF Op, Lhs, Yield, Used, Overwritten
<1>11. StatementsNotified'
  <2>. SUFFICES ASSUME NEW m \in svfg.nodes, NEW o \in Obj,
                       consume[m][o] # {}, <<o, consume[m][o]>> \notin pending',
                       ~ToBeProcessed(m)'
                PROVE  UpToDate(m, o)'
    BY <1>2 DEF StatementsNotified
  <2>1. At(o, consume[m][o])' = At(o, consume[m][o])
    BY <1>2, <1>7
  <2>2. CASE m = n
    <3>1. ASSUME pts[Lhs(n)] # {}, o \notin Overwritten(n), Yield(n, o) # {}
          PROVE  At(o, consume[n][o]) \subseteq At(o, Yield(n, o))'
      <4>1. At(o, consume[n][o]) \subseteq Sent(n, o)
        BY <2>2, <3>1 DEF Sent
      <4>. QED BY <1>8, <3>1, <4>1
    <3>. QED BY <1>2, <1>10, <2>1, <2>2, <3>1 DEF UpToDate
  <2>3. CASE m # n
    <3>1. ~ToBeProcessed(m)
      <4>1. Direct' = Direct
        BY <1>2 DEF Direct, DirectEdges
      <4>. QED BY <1>2, <1>10, <2>3, <4>1 DEF ToBeProcessed
    <3>2. UpToDate(m, o)
      BY <1>2, <3>1 DEF VersionInv, StatementsNotified
    <3>. QED BY <1>2, <1>6, <1>10, <2>1, <3>2 DEF UpToDate
  <2>. QED BY <2>2, <2>3
<1>. QED BY <1>4, <1>5, <1>9, <1>11 DEF VersionInv

LEMMA PropagateStep ==
  ASSUME VersionInv, PropagateVersion
  PROVE  VersionInv'
<1>1. PICK k \in pending :
        LET relying == {x[3] : x \in {x \in versionReliance : x[1] = k[1] /\ x[2] = k[2]}}
            S == At(k[1], k[2])
        IN
        /\ vPtD' = vPtD \cup UNION {Entries(k[1], r, S) : r \in relying}
        /\ pending' = (pending \ {k})
             \cup {<<k[1], r>> : r \in {r \in relying : ~(S \subseteq At(k[1], r))}}
        /\ worklist' = worklist \cup StmtReliance(k[1], k[2])
        /\ UNCHANGED <<svfg, callgraph, pts, consume, vWorklist, versionReliance, newEdges, pc>>
  BY DEF PropagateVersion
<1> DEFINE relying == {x[3] : x \in {x \in versionReliance : x[1] = k[1] /\ x[2] = k[2]}}
           S == At(k[1], k[2])
<1>2. /\ vPtD' = vPtD \cup UNION {Entries(k[1], r, S) : r \in relying}
      /\ pending' = (pending \ {k})
           \cup {<<k[1], r>> : r \in {r \in relying : ~(S \subseteq At(k[1], r))}}
      /\ worklist' = worklist \cup StmtReliance(k[1], k[2])
      /\ UNCHANGED <<svfg, callgraph, pts, consume, vWorklist, versionReliance, newEdges, pc>>
  BY <1>1
<1>3. /\ k[1] \in Obj /\ k[2] \in Version /\ k = <<k[1], k[2]>>
      /\ relying \subseteq Version /\ S \in SUBSET Obj
  BY AtTyped DEF VersionInv, TypeOK
<1>. HIDE DEF relying, S
<1>4. TypeOK'
  <2>1. vPtD' \subseteq Obj \X Version \X Obj
    BY <1>2, <1>3 DEF VersionInv, TypeOK, Entries
  <2>2. pending' \subseteq Obj \X Version
    BY <1>2, <1>3 DEF VersionInv, TypeOK
  <2>3. worklist' \subseteq svfg.nodes
    BY <1>2 DEF VersionInv, TypeOK, StmtReliance
  <2>. QED BY <1>2, <2>1, <2>2, <2>3 DEF VersionInv, TypeOK
<1>5. Control'
  BY <1>2 DEF VersionInv, Control
<1>6. \A o, v : At(o, v) \subseteq At(o, v)'
  BY <1>2 DEF At
<1>7. \A r \in relying : S \subseteq At(k[1], r)'
  <2>1. \A r \in relying : \A x \in S : <<k[1], r, x>> \in vPtD'
    BY <1>2 DEF Entries
  <2>. QED BY <1>3, <2>1 DEF At
<1>8. ASSUME NEW o, NEW v, <<o, v>> \notin pending'
      PROVE  At(o, v)' = At(o, v)
  <2>1. ASSUME NEW x \in Obj, <<o, v, x>> \in vPtD'
        PROVE  <<o, v, x>> \in vPtD
    <3>. SUFFICES ASSUME <<o, v, x>> \notin vPtD PROVE FALSE
      OBVIOUS
    <3>1. PICK r \in relying : <<o, v, x>> \in Entries(k[1], r, S)
      BY <1>2, <2>1
    <3>2. o = k[1] /\ v = r /\ x \in S
      BY <3>1 DEF Entries
    <3>3. ~(S \subseteq At(k[1], r))
      BY <3>2 DEF At
    <3>. QED BY <1>2, <1>8, <3>2, <3>3
  <2>. QED BY <1>6, <2>1 DEF At
<1>9. S = At(k[1], k[2])'
  <2>1. CASE <<k[1], k[2]>> \notin pending'
    BY <1>8, <2>1 DEF S
  <2>2. CASE <<k[1], k[2]>> \in pending'
    <3>1. PICK r \in relying : <<k[1], k[2]>> = <<k[1], r>> /\ ~(S \subseteq At(k[1], r))
      BY <1>2, <1>3, <2>2
    <3>. QED BY <3>1 DEF S
  <2>. QED BY <2>1, <2>2
<1>10. ReliantDelivered'
  <2>. SUFFICES ASSUME NEW x \in versionReliance, <<x[1], x[2]>> \notin pending'
                PROVE  At(x[1], x[2])' \subseteq At(x[1], x[3])'
    BY <1>2 DEF ReliantDelivered
  <2>1. CASE x[1] = k[1] /\ x[2] = k[2]
    <3>1. x[3] \in relying
      BY <2>1 DEF relying
    <3>. QED BY <1>7, <1>9, <2>1, <3>1
  <2>2. CASE ~(x[1] = k[1] /\ x[2] = k[2])
    <3>1. <<x[1], x[2]>> # k
      BY <1>3, <2>2
    <3>2. <<x[1], x[2]>> \notin pending
      BY <1>2, <3>1
    <3>3. At(x[1], x[2]) \subseteq At(x[1], x[3])
      BY <3>2 DEF VersionInv, ReliantDelivered
    <3>. QED BY <1>6, <1>8, <3>3
  <2>. QED BY <2>1, <2>2
<1>11. \A m : /\ Op(m)' = Op(m) /\ Lhs(m)' = Lhs(m) /\ Used(m)' = Used(m)
              /\ \A o : Yield(m, o)' = Yield(m, o)
              /\ Overwritten(m)' = Overwritten(m)
  BY <1>2 DEF Op, Lhs, Yield, Used, Overwritten
<1>12. StatementsNotified'
  <2>. SUFFICES ASSUME pc \in {"solve", "done"}, NEW n \in svfg.nodes, NEW o \in Obj,
                       consume[n][o] # {}, <<o, consume[n][o]>> \notin pending',
                       ~ToBeProcessed(n)'
                PROVE  UpToDate(n, o)'
    BY <1>2 DEF StatementsNotified
  <2>1. At(o, consume[n][o])' = At(o, consume[n][o])
    BY <1>2, <1>8
  <2>2. CASE o = k[1] /\ consume[n][o] = k[2]
    <3>1. Op(n) \notin {"load", "store"}
      BY <1>2, <2>2 DEF ToBeProcessed, StmtReliance
    <3>. QED BY <1>11, <3>1 DEF UpToDate
  <2>3. CASE ~(o = k[1] /\ consume[n][o] = k[2])
    <3>1. <<o, consume[n][o]>> \notin pending
      BY <1>2, <1>3, <2>3
    <3>2. ~ToBeProcessed(n)
      <4>1. Direct' = Direct
        BY <1>2 DEF Direct, DirectEdges
      <4>. QED BY <1>2, <1>11, <4>1 DEF ToBeProcessed
    <3>3. UpToDate(n, o)
      BY <3>1, <3>2 DEF VersionInv, StatementsNotified
    <3>. QED BY <1>2, <1>6, <1>11, <2>1, <3>3 DEF UpToDate
  <2>. QED BY <2>2, <2>3
<1>. QED BY <1>4, <1>5, <1>10, <1>12 DEF VersionInv

-----------------------------------------------------------------------------
(* Before solving and between the rounds.                                  *)
LEMMA MeldLabelStep ==
  ASSUME VersionInv, NEW l \in vWorklist, MeldLabel(l)
  PROVE  VersionInv'
<1> DEFINE Reached(d) == {o \in Obj : <<l, d, o>> \in svfg.indirect}
           open == {d \in svfg.nodes \ DeltaNodes(svfg) : d = l => Op(l) = "store"}
<1>1. /\ pc = "label" /\ pc' = "label"
      /\ consume' = [d \in Loc |->
           IF d \in open /\ Reached(d) # {}
           THEN [o \in Obj |-> IF o \in Reached(d) THEN consume[d][o] \cup Yield(l, o)
                                                   ELSE consume[d][o]]
           ELSE consume[d]]
      /\ vWorklist' = (vWorklist \ {l})
           \cup {d \in open : Op(d) # "store" /\ consume'[d] # consume[d]}
      /\ UNCHANGED <<svfg, callgraph, pts, versionReliance, vPtD, pending, worklist, newEdges>>
  BY DEF MeldLabel
<1>2. l \in Loc
  BY ProgramTypes DEF VersionInv, TypeOK
<1>3. \A d \in Loc, o \in Obj : /\ consume[d][o] \in SUBSET Loc
                                /\ Yield(l, o) \in SUBSET Loc
  BY <1>2, StmtTypes DEF VersionInv, TypeOK, Version
<1>4. vWorklist' \subseteq svfg.nodes
  BY <1>1 DEF VersionInv, TypeOK
<1>. HIDE DEF Reached, open
<1>5. consume' \in [Loc -> [Obj -> Version]]
  <2> DEFINE Melded(d) == [o \in Obj |->
        IF o \in Reached(d) THEN consume[d][o] \cup Yield(l, o) ELSE consume[d][o]]
  <2>1. \A d \in Loc : Melded(d) \in [Obj -> Version]
    BY <1>3 DEF Version
  <2>2. consume' = [d \in Loc |-> IF d \in open /\ Reached(d) # {} THEN Melded(d)
                                                                 ELSE consume[d]]
    BY <1>1
  <2>3. \A d \in Loc : consume[d] \in [Obj -> Version]
    BY DEF VersionInv, TypeOK
  <2>. HIDE DEF Melded
  <2>. QED BY <2>1, <2>2, <2>3
<1>6. TypeOK'
  BY <1>1, <1>4, <1>5 DEF VersionInv, TypeOK
<1>7. Control' /\ ReliantDelivered' /\ StatementsNotified'
  BY <1>1 DEF VersionInv, Control, ReliantDelivered, StatementsNotified
<1>. QED BY <1>6, <1>7 DEF VersionInv

LEMMA RelianceTyped ==
  ASSUME TypeOK, NEW e \in Loc \X Loc \X Obj
  PROVE  Reliance(e) \in SUBSET (Obj \X Version \X Version)
<1>1. e[1] \in Loc /\ e[2] \in Loc /\ e[3] \in Obj
  OBVIOUS
<1>2. Yield(e[1], e[3]) \in Version /\ consume[e[2]][e[3]] \in Version
  BY <1>1, StmtTypes DEF TypeOK
<1>. QED BY <1>1, <1>2 DEF Reliance

LEMMA StartSolvingStep ==
  ASSUME VersionInv, StartSolving
  PROVE  VersionInv'
<1>1. /\ pc = "label" /\ pc' = "solve" /\ worklist' = svfg.nodes
      /\ versionReliance' = {x \in UNION {Reliance(e) : e \in svfg.indirect} : x[2] # x[3]}
      /\ UNCHANGED <<svfg, callgraph, pts, consume, vWorklist, vPtD, pending, newEdges>>
  BY DEF StartSolving
<1>2. TypeOK'
  <2>1. \A e \in svfg.indirect : Reliance(e) \in SUBSET (Obj \X Version \X Version)
    BY ProgramTypes, RelianceTyped DEF VersionInv, TypeOK
  <2>2. versionReliance' \subseteq Obj \X Version \X Version
    BY <1>1, <2>1
  <2>. QED BY <1>1, <2>2 DEF VersionInv, TypeOK
<1>3. Control'
  BY <1>1 DEF VersionInv, Control
<1>4. \A o, v : At(o, v)' = {}
  BY <1>1 DEF VersionInv, Control, At
<1>5. ReliantDelivered'
  BY <1>4 DEF ReliantDelivered
<1>6. StatementsNotified'
  BY <1>1 DEF StatementsNotified, ToBeProcessed
<1>. QED BY <1>2, <1>3, <1>5, <1>6 DEF VersionInv

LEMMA UpdateCallGraphStep ==
  ASSUME VersionInv, UpdateCallGraph
  PROVE  VersionInv'
<1>1. /\ pc' = "connect" /\ pending = {}
      /\ callgraph' = callgraph \cup NewTargets
      /\ newEdges' = UNION {c.indirect : c \in NewTargets}
      /\ worklist' \subseteq svfg.nodes
      /\ UNCHANGED <<svfg, pts, consume, vWorklist, versionReliance, vPtD, pending>>
  BY DEF UpdateCallGraph, Quiet
<1>2. NewTargets \subseteq svfg.calls
  BY DEF NewTargets
<1>3. newEdges' \subseteq Loc \X Loc \X Obj
  BY <1>1, <1>2, ProgramTypes DEF VersionInv, TypeOK, Call
<1>4. TypeOK'
  BY <1>1, <1>2, <1>3 DEF VersionInv, TypeOK
<1>5. ReliantDelivered'
  BY <1>1 DEF VersionInv, ReliantDelivered, At
<1>. QED BY <1>1, <1>4, <1>5 DEF VersionInv, Control, StatementsNotified

LEMMA ConnectEdgeStep ==
  ASSUME VersionInv, ConnectEdge
  PROVE  VersionInv'
<1>1. PICK e \in newEdges :
        LET added == IF Op(e[2]) = "mem" THEN Reliance(e) ELSE {} IN
        /\ pending = {}
        /\ newEdges' = newEdges \ {e}
        /\ versionReliance' = versionReliance \cup added
        /\ pending' = {<<x[1], x[2]>> : x \in added}
        /\ UNCHANGED <<svfg, callgraph, pts, consume, vWorklist, vPtD, worklist, pc>>
  BY DEF ConnectEdge
<1> DEFINE added == IF Op(e[2]) = "mem" THEN Reliance(e) ELSE {}
<1>2. added \in SUBSET (Obj \X Version \X Version)
  BY RelianceTyped DEF VersionInv, TypeOK
<1>. HIDE DEF added
<1>3. /\ newEdges' = newEdges \ {e}
      /\ versionReliance' = versionReliance \cup added
      /\ pending' = {<<x[1], x[2]>> : x \in added}
      /\ pending = {}
      /\ UNCHANGED <<svfg, callgraph, pts, consume, vWorklist, vPtD, worklist, pc>>
  BY <1>1 DEF added
<1>4. pc = "connect"
  BY DEF VersionInv, Control
<1>5. TypeOK'
  BY <1>2, <1>3 DEF VersionInv, TypeOK
<1>6. ReliantDelivered'
  <2>1. \A o, v : At(o, v)' = At(o, v)
    BY <1>3 DEF At
  <2>. QED BY <1>3, <2>1 DEF VersionInv, ReliantDelivered
<1>. QED BY <1>3, <1>4, <1>5, <1>6 DEF VersionInv, Control, StatementsNotified

LEMMA NextRoundStep ==
  ASSUME VersionInv, NextRound
  PROVE  VersionInv'
<1>1. /\ pc' = "solve" /\ pending = {} /\ newEdges = {} /\ worklist' = svfg.nodes
      /\ UNCHANGED <<svfg, callgraph, pts, consume, vWorklist, versionReliance, vPtD, pending,
                     newEdges>>
  BY DEF NextRound
<1>2. TypeOK' /\ Control'
  BY <1>1 DEF VersionInv, TypeOK, Control
<1>3. ReliantDelivered'
  BY <1>1 DEF VersionInv, ReliantDelivered, At
<1>4. StatementsNotified'
  BY <1>1 DEF StatementsNotified, ToBeProcessed
<1>. QED BY <1>2, <1>3, <1>4 DEF VersionInv

LEMMA ControlStep ==
  ASSUME VersionInv, Finished \/ Terminated \/ UNCHANGED vars
  PROVE  VersionInv'
<1>1. /\ UNCHANGED <<svfg, callgraph, pts, consume, vWorklist, versionReliance, vPtD, pending,
                     worklist, newEdges>>
      /\ \/ pc' = pc
         \/ pc = "solve" /\ pc' = "done" /\ pending = {}
  BY DEF Finished, Quiet, Terminated, vars
<1>2. TypeOK' /\ Control'
  BY <1>1 DEF VersionInv, TypeOK, Control
<1>3. ReliantDelivered'
  BY <1>1 DEF VersionInv, ReliantDelivered, At
<1>4. \A n, o : /\ UpToDate(n, o)' = UpToDate(n, o) /\ ToBeProcessed(n)' = ToBeProcessed(n)
  BY <1>1 DEF UpToDate, ToBeProcessed, Direct, DirectEdges, Op, Lhs, Used, Yield, Overwritten, At
<1>5. StatementsNotified'
  BY <1>1, <1>4 DEF VersionInv, StatementsNotified
<1>. QED BY <1>2, <1>3, <1>5 DEF VersionInv

-----------------------------------------------------------------------------
LEMMA VersionInit == Init => VersionInv
<1>. SUFFICES ASSUME Init PROVE VersionInv
  OBVIOUS
<1>1. /\ svfg \in Programs /\ callgraph = {} /\ pts = [x \in Var |-> {}]
      /\ consume = Prelabel(svfg) /\ vWorklist \subseteq svfg.nodes
      /\ versionReliance = {} /\ vPtD = {} /\ pending = {} /\ worklist = {}
      /\ newEdges = {} /\ pc = "label"
  BY DEF Init
<1>2. consume \in [Loc -> [Obj -> Version]]
  BY <1>1 DEF Prelabel, Version
<1>3. TypeOK
  BY <1>1, <1>2 DEF TypeOK
<1>. QED BY <1>1, <1>3 DEF VersionInv, Control, ReliantDelivered, StatementsNotified

LEMMA VersionNext == VersionInv /\ [Next]_vars => VersionInv'
<1>. SUFFICES ASSUME VersionInv, [Next]_vars PROVE VersionInv'
  OBVIOUS
<1>1. ASSUME NEW l \in vWorklist, MeldLabel(l) PROVE VersionInv'
  BY <1>1, MeldLabelStep
<1>2. CASE StartSolving
  BY <1>2, StartSolvingStep
<1>3. ASSUME NEW n \in worklist, ProcessTopLevel(n) PROVE VersionInv'
  BY <1>3, TopLevelStep
<1>4. ASSUME NEW n \in worklist, ProcessPassOn(n) PROVE VersionInv'
  BY <1>4, PassOnStep
<1>5. ASSUME NEW n \in worklist, ProcessStore(n) PROVE VersionInv'
  BY <1>5, StoreStep
<1>6. CASE PropagateVersion
  BY <1>6, PropagateStep
<1>7. CASE UpdateCallGraph
  BY <1>7, UpdateCallGraphStep
<1>8. CASE ConnectEdge
  BY <1>8, ConnectEdgeStep
<1>9. CASE NextRound
  BY <1>9, NextRoundStep
<1>10. CASE Finished \/ Terminated \/ UNCHANGED vars
  BY <1>10, ControlStep
<1>. QED BY <1>1, <1>2, <1>3, <1>4, <1>5, <1>6, <1>7, <1>8, <1>9, <1>10 DEF Next

(* Every version is a set of nodes, and everything that is recorded about  *)
(* versions is about such sets and objects of the program.                 *)
THEOREM VersionTypeCorrect == Spec => []TypeOK
<1>1. VersionInv => TypeOK
  BY DEF VersionInv
<1>. QED BY <1>1, VersionInit, VersionNext, PTL DEF Spec

(* What a version has is in every version that relies on it, or about to   *)
(* be sent there (propagateVersion, updateConnectedNodes).                 *)
THEOREM VersionNothingMissed == Spec => []ReliantDelivered
<1>1. VersionInv => ReliantDelivered
  BY DEF VersionInv
<1>. QED BY <1>1, VersionInit, VersionNext, PTL DEF Spec

(* A load or store that has not read all of a version it sees is on its    *)
(* way to being processed (stmtReliance, processLoad, processStore).       *)
THEOREM VersionStatementsNotified == Spec => []StatementsNotified
<1>1. VersionInv => StatementsNotified
  BY DEF VersionInv
<1>. QED BY <1>1, VersionInit, VersionNext, PTL DEF Spec

-----------------------------------------------------------------------------
(* Labels.  A delta node sees what prelabel() gave it, what a location     *)
(* yields is in what the others at the end of its edges see, and there is  *)
(* a reliance for every edge served; those to serve lead to delta nodes.   *)
Reliable(e) == \A x \in Reliance(e) : x[2] = x[3] \/ x \in versionReliance

DeltaLabels ==
  \A l \in DeltaNodes(svfg) : \A o \in Obj : consume[l][o] = Prelabel(svfg)[l][o]

Melded ==
  \A e \in svfg.indirect :
    \/ e[2] \in DeltaNodes(svfg)
    \/ pc = "label" /\ e[1] \in vWorklist
    \/ Yield(e[1], e[3]) \subseteq consume[e[2]][e[3]]

EdgesServed ==
  /\ newEdges \subseteq UNION {c.indirect : c \in callgraph}
  /\ pc = "label" => callgraph = {}
  /\ pc # "label" => \A e \in svfg.indirect : Reliable(e)
  /\ \A c \in callgraph : \A e \in c.indirect : e \in newEdges \/ Reliable(e)

LabelInv == DeltaLabels /\ Melded /\ EdgesServed

(* Indirect edges leave stores and memory SSA nodes; those that connecting *)
(* a call adds end at delta nodes, which are memory SSA nodes.             *)
LEMMA EdgeKinds ==
  ASSUME svfg \in Programs
  PROVE  /\ \A e \in IndirectEdges(svfg, svfg.calls) :
               /\ e \in Loc \X Loc \X Obj /\ e = <<e[1], e[2], e[3]>>
               /\ e[1] \in svfg.nodes /\ e[2] \in svfg.nodes
               /\ e[1] \in Loc /\ e[2] \in Loc /\ e[3] \in Obj
               /\ Op(e[1]) \in {"store", "mem"}
         /\ \A c \in svfg.calls : \A e \in c.indirect :
               e[2] \in DeltaNodes(svfg) /\ e \in IndirectEdges(svfg, svfg.calls)
         /\ \A l \in DeltaNodes(svfg) : Op(l) = "mem" /\ l \in svfg.nodes
         /\ svfg.indirect \subseteq IndirectEdges(svfg, svfg.calls)
<1> DEFINE all == svfg.indirect \cup UNION {c.indirect : c \in svfg.calls}
<1>1. \A c \in svfg.calls : c.indirect \in SUBSET (Loc \X Loc \X Obj)
  BY ProgramTypes DEF Call
<1>2. \A e \in all : e \in Loc \X Loc \X Obj
  BY <1>1, ProgramTypes
<1>3. \A e \in all : /\ e[1] \in svfg.nodes /\ e[2] \in svfg.nodes
                     /\ svfg.stmt[e[1]].op \in {"store", "mem"}
  BY ValueFlowAssumption
<1>4. \A c \in svfg.calls : \A e \in c.indirect : svfg.stmt[e[2]].op = "mem"
  BY ValueFlowAssumption
<1>5. \A c \in svfg.calls : \A e \in c.indirect : e[2] \in DeltaNodes(svfg)
  BY DEF DeltaNodes
<1>6. \A l \in DeltaNodes(svfg) : \E c \in svfg.calls : \E e \in c.indirect : l = e[2]
  BY DEF DeltaNodes
<1>7. \A l \in DeltaNodes(svfg) : Op(l) = "mem" /\ l \in svfg.nodes
  BY <1>3, <1>4, <1>6 DEF Op
<1>8. all = IndirectEdges(svfg, svfg.calls)
  BY DEF IndirectEdges
<1>. QED BY <1>2, <1>3, <1>5, <1>7, <1>8 DEF Op

(* What the other actions leave alone is all that labels depend on.        *)
LEMMA LabelsUnchanged ==
  ASSUME LabelInv, pc # "label", pc' # "label",
         UNCHANGED <<svfg, callgraph, consume, versionReliance, newEdges>>
  PROVE  LabelInv'
<1>1. \A l, o : Yield(l, o)' = Yield(l, o)
  BY DEF Yield, Op, Lhs
<1>2. \A e : Reliable(e)' <=> Reliable(e)
  BY <1>1 DEF Reliable, Reliance
<1>3. DeltaLabels'
  BY DEF LabelInv, DeltaLabels, DeltaNodes
<1>4. Melded'
  BY <1>1 DEF LabelInv, Melded, DeltaNodes
<1>5. EdgesServed'
  BY <1>2 DEF LabelInv, EdgesServed
<1>. QED BY <1>3, <1>4, <1>5 DEF LabelInv

LEMMA MeldLabels ==
  ASSUME VersionInv, LabelInv, NEW l \in vWorklist, MeldLabel(l)
  PROVE  LabelInv'
<1> DEFINE Reached(d) == {o \in Obj : <<l, d, o>> \in svfg.indirect}
           open == {d \in svfg.nodes \ DeltaNodes(svfg) : d = l => Op(l) = "store"}
<1>1. /\ pc = "label" /\ pc' = "label"
      /\ consume' = [d \in Loc |->
           IF d \in open /\ Reached(d) # {}
           THEN [o \in Obj |-> IF o \in Reached(d) THEN consume[d][o] \cup Yield(l, o)
                                                   ELSE consume[d][o]]
           ELSE consume[d]]
      /\ vWorklist' = (vWorklist \ {l})
           \cup {d \in open : Op(d) # "store" /\ consume'[d] # consume[d]}
      /\ UNCHANGED <<svfg, callgraph, pts, versionReliance, vPtD, pending, worklist, newEdges>>
  BY DEF MeldLabel
<1>2. \A d \in Loc, o \in Obj :
        consume'[d][o] = IF d \in open /\ <<l, d, o>> \in svfg.indirect
                         THEN consume[d][o] \cup Yield(l, o) ELSE consume[d][o]
  <2>. TAKE d \in Loc, o \in Obj
  <2>1. CASE d \in open /\ Reached(d) # {}
    BY <1>1, <2>1
  <2>2. CASE ~(d \in open /\ Reached(d) # {})
    <3>1. ~(d \in open /\ <<l, d, o>> \in svfg.indirect)
      BY <2>2
    <3>. QED BY <1>1, <2>2, <3>1
  <2>. QED BY <2>1, <2>2
<1>3. svfg \in Programs /\ svfg' = svfg
  BY <1>1 DEF VersionInv, TypeOK
<1>4. DeltaNodes(svfg)' = DeltaNodes(svfg) /\ DeltaNodes(svfg) \subseteq Loc
  BY <1>1, <1>3, EdgeKinds, ProgramTypes DEF DeltaNodes
<1>5. DeltaLabels'
  BY <1>2, <1>3, <1>4 DEF LabelInv, DeltaLabels
<1>6. ASSUME NEW e \in svfg.indirect, e[2] \notin DeltaNodes(svfg), e[1] \notin vWorklist'
      PROVE  Yield(e[1], e[3])' \subseteq consume'[e[2]][e[3]]
  <2>1. /\ e[1] \in Loc /\ e[2] \in Loc /\ e[3] \in Obj /\ e = <<e[1], e[2], e[3]>>
        /\ e[1] \in svfg.nodes /\ e[2] \in svfg.nodes
    BY <1>3, EdgeKinds
  <2>2. Op(e[1])' = Op(e[1]) /\ Lhs(e[1])' = Lhs(e[1])
    BY <1>1 DEF Op, Lhs
  <2>3. Op(e[1]) = "store" => Yield(e[1], e[3])' = Yield(e[1], e[3])
    BY <1>1, <2>2 DEF Yield
  <2>4. CASE e[1] = e[2] /\ Op(e[1]) # "store"
    BY <2>2, <2>4 DEF Yield
  <2>5. CASE e[1] = l /\ ~(e[1] = e[2] /\ Op(e[1]) # "store")
    <3>1. e[2] \in open /\ l \notin {d \in open : Op(d) # "store"}
      BY <1>6, <2>1, <2>5
    <3>2. Op(l) # "store" => consume'[e[1]][e[3]] = consume[e[1]][e[3]]
      BY <1>2, <2>1, <2>5
    <3>3. Yield(e[1], e[3])' = Yield(e[1], e[3])
      BY <2>2, <2>3, <2>5, <3>2 DEF Yield
    <3>4. <<l, e[2], e[3]>> \in svfg.indirect /\ Yield(e[1], e[3]) = Yield(l, e[3])
      BY <2>1, <2>5
    <3>5. consume'[e[2]][e[3]] = consume[e[2]][e[3]] \cup Yield(l, e[3])
      BY <1>2, <2>1, <3>1, <3>4
    <3>. QED BY <3>3, <3>4, <3>5
  <2>6. CASE e[1] # l
    <3>1. e[1] \notin vWorklist
      BY <1>1, <1>6, <2>6
    <3>2. Yield(e[1], e[3]) \subseteq consume[e[2]][e[3]]
      BY <1>6, <3>1 DEF LabelInv, Melded
    <3>3. ASSUME Op(e[1]) # "store" PROVE consume'[e[1]][e[3]] = consume[e[1]][e[3]]
      <4>1. CASE e[1] \in open
        <5>1. consume'[e[1]] = consume[e[1]]
          BY <1>1, <1>6, <3>3, <4>1
        <5>. QED BY <5>1
      <4>2. CASE e[1] \notin open
        BY <1>2, <2>1, <4>2
      <4>. QED BY <4>1, <4>2
    <3>4. Yield(e[1], e[3])' = Yield(e[1], e[3])
      BY <2>2, <2>3, <3>3 DEF Yield
    <3>. QED BY <1>2, <2>1, <3>2, <3>4
  <2>. QED BY <2>4, <2>5, <2>6
<1>7. Melded'
  BY <1>1, <1>4, <1>6 DEF Melded
<1>8. EdgesServed'
  BY <1>1 DEF LabelInv, EdgesServed
<1>. QED BY <1>5, <1>7, <1>8 DEF LabelInv

LEMMA LabelInit == Init => LabelInv
<1>. SUFFICES ASSUME Init PROVE LabelInv
  OBVIOUS
<1>1. /\ svfg \in Programs /\ callgraph = {} /\ consume = Prelabel(svfg) /\ pc = "label"
      /\ vWorklist = {l \in svfg.nodes : \/ Op(l) = "store"
                                         \/ \E o \in Obj : consume[l][o] # {}}
      /\ newEdges = {}
  BY DEF Init
<1>4. Melded
  <2>. SUFFICES ASSUME NEW e \in svfg.indirect, e[1] \notin vWorklist
                PROVE  Yield(e[1], e[3]) = {}
    BY <1>1 DEF Melded
  <2>1. e[1] \in svfg.nodes /\ e[3] \in Obj
    BY <1>1, EdgeKinds
  <2>. QED BY <1>1, <2>1 DEF Yield
<1>. QED BY <1>1, <1>4 DEF LabelInv, DeltaLabels, EdgesServed

LEMMA LabelNext ==
  ASSUME VersionInv, LabelInv, [Next]_vars PROVE LabelInv'
<1>1. ASSUME NEW l \in vWorklist, MeldLabel(l) PROVE LabelInv'
  BY <1>1, MeldLabels
<1>2. CASE StartSolving
  <2>1. /\ pc = "label" /\ vWorklist = {} /\ pc' = "solve"
        /\ versionReliance' = {x \in UNION {Reliance(e) : e \in svfg.indirect} : x[2] # x[3]}
        /\ UNCHANGED <<svfg, callgraph, consume, vWorklist, newEdges>>
    BY <1>2 DEF StartSolving
  <2>2. \A l, o : Yield(l, o)' = Yield(l, o)
    BY <2>1 DEF Yield, Op, Lhs
  <2>3. \A e \in svfg.indirect : Reliable(e)'
    <3>1. \A e : Reliance(e)' = Reliance(e)
      BY <2>1, <2>2 DEF Reliance
    <3>. QED BY <2>1, <3>1 DEF Reliable
  <2>. QED BY <2>1, <2>2, <2>3 DEF LabelInv, DeltaLabels, DeltaNodes, Melded, EdgesServed
<1>3. CASE \E n \in worklist : ProcessTopLevel(n) \/ ProcessPassOn(n) \/ ProcessStore(n)
  BY <1>3, LabelsUnchanged DEF ProcessTopLevel, ProcessPassOn, ProcessStore, Take
<1>4. CASE PropagateVersion
  <2>1. pc # "label"
    BY <1>4 DEF PropagateVersion, VersionInv, Control
  <2>. QED BY <1>4, <2>1, LabelsUnchanged DEF PropagateVersion
<1>5. CASE UpdateCallGraph
  <2>1. /\ pc # "label" /\ pc' # "label" /\ callgraph' = callgraph \cup NewTargets
        /\ newEdges = {} /\ newEdges' = UNION {c.indirect : c \in NewTargets}
        /\ UNCHANGED <<svfg, consume, versionReliance>>
    BY <1>5 DEF UpdateCallGraph, Quiet, VersionInv, Control
  <2>2. \A l, o : Yield(l, o)' = Yield(l, o)
    BY <2>1 DEF Yield, Op, Lhs
  <2>3. \A e : Reliable(e)' <=> Reliable(e)
    BY <2>1, <2>2 DEF Reliable, Reliance
  <2>4. EdgesServed'
    BY <2>1, <2>3 DEF LabelInv, EdgesServed
  <2>. QED BY <2>1, <2>2, <2>4 DEF LabelInv, DeltaLabels, DeltaNodes, Melded
<1>6. CASE ConnectEdge
  <2>1. PICK e \in newEdges :
          /\ newEdges' = newEdges \ {e}
          /\ versionReliance' = versionReliance \cup
                (IF Op(e[2]) = "mem" THEN Reliance(e) ELSE {})
          /\ UNCHANGED <<svfg, callgraph, consume, pc>>
    BY <1>6 DEF ConnectEdge
  <2>2. pc # "label"
    BY DEF VersionInv, Control
  <2>3. \A l, o : Yield(l, o)' = Yield(l, o)
    BY <2>1 DEF Yield, Op, Lhs
  <2>4. \A x : Reliance(x)' = Reliance(x)
    BY <2>1, <2>3 DEF Reliance
  <2>5. \A x : Reliable(x) => Reliable(x)'
    BY <2>1, <2>4 DEF Reliable
  <2>6. Reliable(e)'
    <3>1. PICK c \in callgraph : e \in c.indirect
      BY DEF LabelInv, EdgesServed
    <3>2. svfg \in Programs /\ c \in svfg.calls
      BY DEF VersionInv, TypeOK
    <3>3. Op(e[2]) = "mem"
      BY <3>1, <3>2, EdgeKinds
    <3>. QED BY <2>1, <2>4, <3>3 DEF Reliable
  <2>7. EdgesServed'
    <3>1. newEdges' \subseteq UNION {c.indirect : c \in callgraph'}
      BY <2>1 DEF LabelInv, EdgesServed
    <3>2. \A x \in svfg'.indirect : Reliable(x)'
      BY <2>1, <2>2, <2>5 DEF LabelInv, EdgesServed
    <3>3. \A c \in callgraph' : \A x \in c.indirect : x \in newEdges' \/ Reliable(x)'
      BY <2>1, <2>5, <2>6 DEF LabelInv, EdgesServed
    <3>. QED BY <2>1, <2>2, <3>1, <3>2, <3>3 DEF EdgesServed
  <2>. QED BY <2>1, <2>2, <2>3, <2>7 DEF LabelInv, DeltaLabels, DeltaNodes, Melded
<1>7. CASE NextRound \/ Finished
  BY <1>7, LabelsUnchanged DEF NextRound, Finished, Quiet
<1>8. CASE Terminated \/ UNCHANGED vars
  <2>1. UNCHANGED vars
    BY <1>8 DEF Terminated
  <2>2. \A l, o : Yield(l, o)' = Yield(l, o)
    BY <2>1 DEF Yield, Op, Lhs, vars
  <2>3. \A e : Reliable(e)' <=> Reliable(e)
    BY <2>1, <2>2 DEF Reliable, Reliance, vars
  <2>. QED BY <2>1, <2>2, <2>3
       DEF LabelInv, DeltaLabels, DeltaNodes, Melded, EdgesServed, vars
<1>. QED BY <1>1, <1>2, <1>3, <1>4, <1>5, <1>6, <1>7, <1>8 DEF Next

-----------------------------------------------------------------------------
(* Nothing that versions hold exceeds a solution X of the flow equations:  *)
(* a version has no more than its labels have in X, a label no more than   *)
(* where it is seen, and reliances lead to versions with at least as much. *)
Bound(X, o, v) == UNION {FlowValue(svfg, X, d, o) : d \in v}

Below(X) ==
  /\ callgraph \subseteq X.calls
  /\ \A x \in Var : pts[x] \subseteq X.pts[x]
  /\ \A o, v : At(o, v) \subseteq Bound(X, o, v)

LabelsBelow(X) ==
  /\ \A l \in svfg.nodes : \A o \in Obj :
       Bound(X, o, consume[l][o]) \subseteq X.in[l][o]
  /\ \A x \in versionReliance : Bound(X, x[1], x[2]) \subseteq Bound(X, x[1], x[3])

LEMMA CalleesMonotone ==
  ASSUME NEW E, NEW F, E \subseteq F, NEW f
  PROVE  Callees(E, f) \subseteq Callees(F, f)
<1>. SUFFICES ASSUME NEW g \in Callees(E, f), NEW S \in SUBSET Fun,
                     \A e \in F : e[1] \in S \cup {f} => e[2] \in S
              PROVE  g \in S
  BY DEF Callees
<1>. QED BY DEF Callees

LEMMA StrongMonotone ==
  ASSUME NEW P, NEW C, NEW D, C \subseteq D, NEW S, NEW T, S \subseteq T, S # {},
         Strong(P, D, T)
  PROVE  Strong(P, C, S) /\ S = T
<1>1. PICK o \in Singular : T = {o} /\ ~LocalInRecursion(P, D, o)
  BY DEF Strong
<1>2. S = {o}
  BY <1>1
<1>3. CallEdges(C) \subseteq CallEdges(D)
  BY DEF CallEdges
<1>4. \A f : Callees(CallEdges(C), f) \subseteq Callees(CallEdges(D), f)
  BY <1>3, CalleesMonotone
<1>5. ~LocalInRecursion(P, C, o)
  BY <1>1, <1>4 DEF LocalInRecursion
<1>. QED BY <1>1, <1>2, <1>5 DEF Strong

LEMMA EdgesMonotone ==
  ASSUME NEW X, callgraph \subseteq X.calls
  PROVE  /\ Direct \subseteq DirectEdges(svfg, X.calls)
         /\ IndirectEdges(svfg, callgraph) \subseteq IndirectEdges(svfg, X.calls)
         /\ \A n : Operands(svfg, callgraph, n) \subseteq Operands(svfg, X.calls, n)
BY DEF Direct, DirectEdges, IndirectEdges, Operands

LEMMA UsedBelow ==
  ASSUME TypeOK, NEW X, Below(X), NEW n \in svfg.nodes
  PROVE  Used(n) \subseteq FlowUsed(svfg, X, n)
<1>1. Operands(svfg, callgraph, n) \subseteq Operands(svfg, X.calls, n)
  BY EdgesMonotone DEF Below
<1>2. \A x \in Operands(svfg, callgraph, n) : pts[x] \subseteq X.pts[x]
  BY OperandTypes DEF Below
<1>. QED BY <1>1, <1>2 DEF Used, FlowUsed

(* What a location sees and yields.                                        *)
LEMMA YieldBelow ==
  ASSUME NEW X, LabelsBelow(X), NEW n \in svfg.nodes, NEW o \in Obj
  PROVE  Bound(X, o, Yield(n, o)) \subseteq FlowValue(svfg, X, n, o)
<1>1. CASE Op(n) = "store"
  <2>1. \A d \in Yield(n, o) : d = n
    BY <1>1 DEF Yield
  <2>. QED BY <2>1 DEF Bound
<1>2. CASE Op(n) # "store"
  BY <1>2 DEF Yield, FlowValue, LabelsBelow, Op
<1>. QED BY <1>1, <1>2

LEMMA SeenBelow ==
  ASSUME NEW X, Below(X), LabelsBelow(X), NEW n \in svfg.nodes, NEW o \in Obj
  PROVE  /\ At(o, consume[n][o]) \subseteq X.in[n][o]
         /\ At(o, Yield(n, o)) \subseteq FlowValue(svfg, X, n, o)
BY YieldBelow DEF Below, LabelsBelow

(* A reliance that an edge of X sets up leads to a version with as much.   *)
LEMMA RelianceBelow ==
  ASSUME VersionInv, LabelInv, NEW X, FlowSolution(svfg, X), LabelsBelow(X),
         NEW e \in IndirectEdges(svfg, svfg.calls), e \in IndirectEdges(svfg, X.calls),
         \/ e[2] \in DeltaNodes(svfg)
         \/ Yield(e[1], e[3]) \subseteq consume[e[2]][e[3]],
         NEW x \in Reliance(e)
  PROVE  Bound(X, x[1], x[2]) \subseteq Bound(X, x[1], x[3])
<1>1. /\ x = <<e[3], Yield(e[1], e[3]), consume[e[2]][e[3]]>>
      /\ consume[e[2]][e[3]] # {}
  BY DEF Reliance
<1>2. e[1] \in svfg.nodes /\ e[2] \in Loc /\ e[3] \in Obj /\ svfg \in Programs
  BY EdgeKinds DEF VersionInv, TypeOK
<1>3. CASE Yield(e[1], e[3]) \subseteq consume[e[2]][e[3]]
  BY <1>1, <1>3 DEF Bound
<1>4. CASE e[2] \in DeltaNodes(svfg)
  <2>1. consume[e[2]][e[3]] = {e[2]}
    BY <1>1, <1>2, <1>4 DEF LabelInv, DeltaLabels, Prelabel
  <2>2. Bound(X, e[3], {e[2]}) = X.in[e[2]][e[3]]
    <3>1. svfg.stmt[e[2]].op = "mem"
      BY <1>2, <1>4, EdgeKinds DEF Op
    <3>. QED BY <3>1 DEF Bound, FlowValue
  <2>3. Bound(X, e[3], Yield(e[1], e[3])) \subseteq FlowValue(svfg, X, e[1], e[3])
    BY <1>2, YieldBelow
  <2>4. FlowValue(svfg, X, e[1], e[3]) \subseteq X.in[e[2]][e[3]]
    BY DEF FlowSolution
  <2>. QED BY <1>1, <2>1, <2>2, <2>3, <2>4
<1>. QED BY <1>3, <1>4

(* Melding: what is added to a label is no more than the edge carries.     *)
LEMMA MeldLabelBelow ==
  ASSUME VersionInv, LabelInv, NEW X, FlowSolution(svfg, X), Below(X), LabelsBelow(X),
         NEW l \in vWorklist, MeldLabel(l)
  PROVE  Below(X)' /\ LabelsBelow(X)'
<1>1. /\ \A d \in Loc, o \in Obj :
           consume'[d][o] = consume[d][o] \/
             (<<l, d, o>> \in svfg.indirect /\ consume'[d][o] = consume[d][o] \cup Yield(l, o))
      /\ UNCHANGED <<svfg, callgraph, pts, vPtD, versionReliance>>
  BY DEF MeldLabel
<1>2. \A o, v : Bound(X, o, v)' = Bound(X, o, v) /\ At(o, v)' = At(o, v)
  BY <1>1 DEF Bound, At
<1>3. l \in svfg.nodes /\ svfg.nodes \subseteq Loc
  BY ProgramTypes DEF VersionInv, TypeOK
<1>4. ASSUME NEW d \in svfg.nodes, NEW o \in Obj
      PROVE  Bound(X, o, consume'[d][o]) \subseteq X.in[d][o]
  <2>1. Bound(X, o, consume[d][o]) \subseteq X.in[d][o]
    BY DEF LabelsBelow
  <2>2. CASE consume'[d][o] = consume[d][o]
    BY <2>1, <2>2
  <2>3. CASE <<l, d, o>> \in svfg.indirect /\ consume'[d][o] = consume[d][o] \cup Yield(l, o)
    <3>1. Bound(X, o, Yield(l, o)) \subseteq FlowValue(svfg, X, l, o)
      BY <1>3, YieldBelow
    <3>2. FlowValue(svfg, X, l, o) \subseteq X.in[d][o]
      <4>1. <<l, d, o>> \in IndirectEdges(svfg, X.calls)
        BY <2>3 DEF IndirectEdges
      <4>. QED BY <4>1 DEF FlowSolution
    <3>3. Bound(X, o, consume'[d][o]) =
            Bound(X, o, consume[d][o]) \cup Bound(X, o, Yield(l, o))
      BY <2>3 DEF Bound
    <3>. QED BY <2>1, <3>1, <3>2, <3>3
  <2>. QED BY <1>1, <1>3, <2>2, <2>3
<1>5. Below(X)'
  BY <1>1, <1>2 DEF Below
<1>6. LabelsBelow(X)'
  BY <1>1, <1>2, <1>4 DEF LabelsBelow
<1>. QED BY <1>5, <1>6

(* Steps that leave what versions hold alone, and those that leave labels  *)
(* and reliances alone.                                                    *)
LEMMA LabelsBelowUnchanged ==
  ASSUME NEW X, LabelsBelow(X), UNCHANGED <<svfg, consume, versionReliance>>
  PROVE  LabelsBelow(X)'
<1>1. \A o, v : Bound(X, o, v)' = Bound(X, o, v)
  BY DEF Bound
<1>. QED BY <1>1 DEF LabelsBelow

LEMMA BelowUnchanged ==
  ASSUME NEW X, Below(X), UNCHANGED <<svfg, vPtD>>,
         callgraph' \subseteq X.calls, \A x \in Var : pts'[x] \subseteq X.pts[x]
  PROVE  Below(X)'
<1>1. \A o, v : Bound(X, o, v)' = Bound(X, o, v) /\ At(o, v)' = At(o, v)
  BY DEF Bound, At
<1>. QED BY <1>1 DEF Below

LEMMA StartSolvingBelow ==
  ASSUME VersionInv, LabelInv, NEW X, FlowSolution(svfg, X), Below(X), LabelsBelow(X),
         StartSolving
  PROVE  Below(X)' /\ LabelsBelow(X)'
<1>1. /\ pc = "label" /\ vWorklist = {}
      /\ versionReliance' \subseteq UNION {Reliance(e) : e \in svfg.indirect}
      /\ UNCHANGED <<svfg, callgraph, pts, consume, vPtD>>
  BY DEF StartSolving
<1>2. ASSUME NEW x \in versionReliance'
      PROVE  Bound(X, x[1], x[2]) \subseteq Bound(X, x[1], x[3])
  <2>1. PICK e \in svfg.indirect : x \in Reliance(e)
    BY <1>1
  <2>2. e \in IndirectEdges(svfg, svfg.calls) /\ e \in IndirectEdges(svfg, X.calls)
    BY DEF IndirectEdges
  <2>3. \/ e[2] \in DeltaNodes(svfg)
        \/ Yield(e[1], e[3]) \subseteq consume[e[2]][e[3]]
    BY <1>1 DEF LabelInv, Melded
  <2>. QED BY <2>1, <2>2, <2>3, RelianceBelow
<1>3. \A o, v : Bound(X, o, v)' = Bound(X, o, v)
  BY <1>1 DEF Bound
<1>4. LabelsBelow(X)'
  BY <1>1, <1>2, <1>3 DEF LabelsBelow
<1>. QED BY <1>1, <1>4, BelowUnchanged DEF Below

(* A variable receives no more than the equations define.                  *)
LEMMA TopLevelBelow ==
  ASSUME VersionInv, NEW X, FlowSolution(svfg, X), Below(X), LabelsBelow(X),
         NEW n \in worklist, ProcessTopLevel(n)
  PROVE  Below(X)' /\ LabelsBelow(X)'
<1>1. n \in svfg.nodes /\ TypeOK
  BY DEF VersionInv, TypeOK
<1>2. Lhs(n) \in Var /\ Used(n) \subseteq FlowUsed(svfg, X, n) /\ Used(n) \subseteq Obj
  BY <1>1, OperandTypes, UsedBelow, StmtTypes
<1>3. TopLevelValue(n) \subseteq FlowDefined(svfg, X, n)
  <2>1. Op(n) = svfg.stmt[n].op
    BY DEF Op
  <2>2. CASE Op(n) = "addr"
    BY <2>1, <2>2 DEF TopLevelValue, FlowDefined
  <2>3. CASE Op(n) = "phi"
    BY <1>2, <2>1, <2>3 DEF TopLevelValue, FlowDefined
  <2>4. CASE Op(n) = "gep"
    BY <1>2, <2>1, <2>4 DEF TopLevelValue, FlowDefined
  <2>5. CASE Op(n) = "load"
    <3>1. \A o \in Used(n) : At(o, consume[n][o]) \subseteq X.in[n][o]
      BY <1>1, <1>2, SeenBelow
    <3>. QED BY <1>2, <2>1, <2>5, <3>1 DEF TopLevelValue, FlowDefined
  <2>. QED BY <2>2, <2>3, <2>4, <2>5 DEF ProcessTopLevel
<1>4. FlowDefined(svfg, X, n) \subseteq X.pts[Lhs(n)]
  BY <1>1 DEF FlowSolution, Lhs
<1>5. /\ pts' = [pts EXCEPT ![Lhs(n)] = @ \cup TopLevelValue(n)]
      /\ UNCHANGED <<svfg, callgraph, consume, versionReliance, vPtD>>
  BY DEF ProcessTopLevel
<1>6. \A x \in Var : pts'[x] \subseteq X.pts[x]
  BY <1>1, <1>3, <1>4, <1>5 DEF Below, TypeOK
<1>. QED BY <1>5, <1>6, BelowUnchanged, LabelsBelowUnchanged DEF Below

LEMMA PassOnBelow ==
  ASSUME VersionInv, NEW X, FlowSolution(svfg, X), Below(X), LabelsBelow(X),
         NEW n \in worklist, ProcessPassOn(n)
  PROVE  Below(X)' /\ LabelsBelow(X)'
<1>1. n \in svfg.nodes /\ TypeOK /\ Lhs(n) \in Var
  BY OperandTypes DEF VersionInv, TypeOK
<1>2. \A d \in Passes(n) : pts[Lhs(n)] \subseteq X.pts[Lhs(d)]
  <2>. TAKE d \in Passes(n)
  <2>1. <<n, d>> \in DirectEdges(svfg, X.calls) /\ Op(n) = "actual"
    BY EdgesMonotone DEF Passes, Users, Below
  <2>2. X.pts[Lhs(n)] \subseteq X.pts[Lhs(d)]
    BY <2>1 DEF FlowSolution, Op, Lhs
  <2>. QED BY <1>1, <2>2 DEF Below
<1>3. /\ pts' = [x \in Var |-> IF \E d \in Passes(n) : Lhs(d) = x
                               THEN pts[x] \cup pts[Lhs(n)] ELSE pts[x]]
      /\ UNCHANGED <<svfg, callgraph, consume, versionReliance, vPtD>>
  BY DEF ProcessPassOn
<1>4. \A x \in Var : pts'[x] \subseteq X.pts[x]
  BY <1>2, <1>3 DEF Below
<1>. QED BY <1>3, <1>4, BelowUnchanged, LabelsBelowUnchanged DEF Below

(* A store overwrites whatever it must in X: that its pointer has one      *)
(* pointee can only cease to be true.                                      *)
LEMMA SentBelow ==
  ASSUME VersionInv, NEW X, FlowSolution(svfg, X), Below(X), LabelsBelow(X),
         NEW n \in svfg.nodes, Op(n) = "store", pts[Lhs(n)] # {}, NEW o \in Obj
  PROVE  Sent(n, o) \subseteq X.out[n][o]
<1>1. /\ Lhs(n) \in Var /\ Lhs(n) = svfg.stmt[n].lhs /\ svfg.stmt[n].op = "store"
      /\ Used(n) \subseteq FlowUsed(svfg, X, n)
  BY OperandTypes, UsedBelow DEF VersionInv, Lhs, Op
<1>2. pts[Lhs(n)] \subseteq X.pts[Lhs(n)] /\ pts[Lhs(n)] # {} /\ callgraph \subseteq X.calls
  BY <1>1 DEF Below
<1>3. FlowOverwritten(svfg, X, n) \subseteq Overwritten(n)
  <2>1. CASE Strong(svfg, X.calls, X.pts[Lhs(n)])
    <3>1. Strong(svfg, callgraph, pts[Lhs(n)]) /\ pts[Lhs(n)] = X.pts[Lhs(n)]
      BY <1>2, <2>1, StrongMonotone
    <3>. QED BY <1>1, <3>1 DEF FlowOverwritten, Overwritten
  <2>2. CASE ~Strong(svfg, X.calls, X.pts[Lhs(n)])
    BY <1>1, <2>2 DEF FlowOverwritten
  <2>. QED BY <2>1, <2>2
<1>4. At(o, consume[n][o]) \subseteq X.in[n][o]
  BY SeenBelow
<1>5. FlowStored(svfg, X, n, o) \subseteq X.out[n][o]
  BY <1>1, <1>2 DEF FlowSolution
<1>6. o \in Written(n) => Used(n) \subseteq FlowStored(svfg, X, n, o)
  BY <1>1, <1>2 DEF Written, FlowStored
<1>7. o \notin Overwritten(n) => At(o, consume[n][o]) \subseteq FlowStored(svfg, X, n, o)
  BY <1>3, <1>4 DEF FlowStored
<1>. QED BY <1>5, <1>6, <1>7 DEF Sent

LEMMA StoreVersionBelow ==
  ASSUME VersionInv, NEW X, FlowSolution(svfg, X), Below(X), LabelsBelow(X),
         NEW n \in worklist, ProcessStore(n)
  PROVE  Below(X)' /\ LabelsBelow(X)'
<1> DEFINE changed == {o \in Obj : /\ pts[Lhs(n)] # {} /\ Yield(n, o) # {}
                                   /\ ~(Sent(n, o) \subseteq At(o, Yield(n, o)))}
<1>1. n \in svfg.nodes /\ Op(n) = "store"
  BY DEF VersionInv, TypeOK, ProcessStore
<1>2. /\ vPtD' = vPtD \cup UNION {Entries(o, Yield(n, o), Sent(n, o)) : o \in changed}
      /\ UNCHANGED <<svfg, callgraph, pts, consume, versionReliance>>
  BY DEF ProcessStore
<1>3. \A o, v : Bound(X, o, v)' = Bound(X, o, v)
  BY <1>2 DEF Bound
<1>4. ASSUME NEW o, NEW v, NEW x \in At(o, v)'
      PROVE  x \in Bound(X, o, v)
  <2>1. CASE <<o, v, x>> \in vPtD
    BY <2>1 DEF At, Below
  <2>2. CASE <<o, v, x>> \notin vPtD
    <3>1. PICK c \in changed : <<o, v, x>> \in Entries(c, Yield(n, c), Sent(n, c))
      BY <1>2, <2>2 DEF At
    <3>2. o = c /\ v = Yield(n, c) /\ x \in Sent(n, c)
      BY <3>1 DEF Entries
    <3>3. x \in X.out[n][c]
      BY <1>1, <3>2, SentBelow
    <3>4. Yield(n, c) = {n}
      BY <1>1 DEF Yield
    <3>5. FlowValue(svfg, X, n, c) = X.out[n][c]
      BY <1>1 DEF FlowValue, Op
    <3>. QED BY <3>2, <3>3, <3>4, <3>5 DEF Bound
  <2>. QED BY <2>1, <2>2 DEF At
<1>5. Below(X)'
  BY <1>2, <1>3, <1>4 DEF Below
<1>. QED BY <1>2, <1>5, LabelsBelowUnchanged

LEMMA PropagateVersionBelow ==
  ASSUME VersionInv, NEW X, Below(X), LabelsBelow(X), PropagateVersion
  PROVE  Below(X)' /\ LabelsBelow(X)'
<1>1. PICK k \in pending :
        LET relying == {x[3] : x \in {x \in versionReliance : x[1] = k[1] /\ x[2] = k[2]}}
        IN  /\ vPtD' = vPtD \cup UNION {Entries(k[1], r, At(k[1], k[2])) : r \in relying}
            /\ UNCHANGED <<svfg, callgraph, pts, consume, versionReliance>>
  BY DEF PropagateVersion
<1> DEFINE relying == {x[3] : x \in {x \in versionReliance : x[1] = k[1] /\ x[2] = k[2]}}
<1>2. \A o, v : Bound(X, o, v)' = Bound(X, o, v)
  BY <1>1 DEF Bound
<1>3. ASSUME NEW r \in relying PROVE At(k[1], k[2]) \subseteq Bound(X, k[1], r)
  <2>1. Bound(X, k[1], k[2]) \subseteq Bound(X, k[1], r)
    BY <1>3 DEF LabelsBelow
  <2>. QED BY <2>1 DEF Below
<1>4. ASSUME NEW o, NEW v, NEW x \in At(o, v)'
      PROVE  x \in Bound(X, o, v)
  <2>1. CASE <<o, v, x>> \in vPtD
    BY <2>1 DEF At, Below
  <2>2. CASE <<o, v, x>> \notin vPtD
    <3>1. PICK r \in relying : <<o, v, x>> \in Entries(k[1], r, At(k[1], k[2]))
      BY <1>1, <2>2 DEF At
    <3>2. o = k[1] /\ v = r /\ x \in At(k[1], k[2])
      BY <3>1 DEF Entries
    <3>. QED BY <1>3, <3>2
  <2>. QED BY <2>1, <2>2 DEF At
<1>5. Below(X)'
  BY <1>1, <1>2, <1>4 DEF Below
<1>. QED BY <1>1, <1>5, LabelsBelowUnchanged

LEMMA UpdateCallGraphBelow ==
  ASSUME VersionInv, NEW X, FlowSolution(svfg, X), Below(X), LabelsBelow(X), UpdateCallGraph
  PROVE  Below(X)' /\ LabelsBelow(X)'
<1>1. ASSUME NEW c \in NewTargets PROVE c \in X.calls
  <2>1. c \in svfg.calls /\ c.fp \in Var /\ c.fun \in pts[c.fp]
    BY ProgramTypes DEF NewTargets, VersionInv, TypeOK, Call
  <2>. QED BY <2>1 DEF Below, FlowSolution
<1>2. callgraph' \subseteq X.calls /\ UNCHANGED <<svfg, pts, consume, versionReliance, vPtD>>
  BY <1>1 DEF Below, UpdateCallGraph
<1>. QED BY <1>2, BelowUnchanged, LabelsBelowUnchanged DEF Below

LEMMA ConnectEdgeBelow ==
  ASSUME VersionInv, LabelInv, NEW X, FlowSolution(svfg, X), Below(X), LabelsBelow(X),
         ConnectEdge
  PROVE  Below(X)' /\ LabelsBelow(X)'
<1>1. PICK e \in newEdges :
        /\ versionReliance' \subseteq versionReliance \cup Reliance(e)
        /\ UNCHANGED <<svfg, callgraph, pts, consume, vPtD>>
  BY DEF ConnectEdge
<1>2. PICK c \in callgraph : e \in c.indirect
  BY DEF LabelInv, EdgesServed
<1>3. /\ e[2] \in DeltaNodes(svfg) /\ e \in IndirectEdges(svfg, svfg.calls)
      /\ e \in IndirectEdges(svfg, X.calls)
  <2>1. c \in svfg.calls /\ c \in X.calls /\ svfg \in Programs
    BY DEF VersionInv, TypeOK, Below
  <2>. QED BY <1>2, <2>1, EdgeKinds DEF IndirectEdges
<1>4. \A x \in versionReliance' : Bound(X, x[1], x[2]) \subseteq Bound(X, x[1], x[3])
  BY <1>1, <1>3, RelianceBelow DEF LabelsBelow
<1>5. \A o, v : Bound(X, o, v)' = Bound(X, o, v)
  BY <1>1 DEF Bound
<1>6. LabelsBelow(X)'
  BY <1>1, <1>4, <1>5 DEF LabelsBelow
<1>. QED BY <1>1, <1>6, BelowUnchanged DEF Below

LEMMA NextBelow ==
  ASSUME VersionInv, LabelInv, NEW X, FlowSolution(svfg, X), Below(X), LabelsBelow(X),
         [Next]_vars
  PROVE  Below(X)' /\ LabelsBelow(X)' /\ svfg' = svfg
<1>1. CASE \E l \in vWorklist : MeldLabel(l)
  BY <1>1, MeldLabelBelow DEF MeldLabel
<1>2. CASE StartSolving
  BY <1>2, StartSolvingBelow DEF StartSolving
<1>3. CASE \E n \in worklist : ProcessTopLevel(n)
  BY <1>3, TopLevelBelow DEF ProcessTopLevel
<1>4. CASE \E n \in worklist : ProcessPassOn(n)
  BY <1>4, PassOnBelow DEF ProcessPassOn
<1>5. CASE \E n \in worklist : ProcessStore(n)
  BY <1>5, StoreVersionBelow DEF ProcessStore
<1>6. CASE PropagateVersion
  BY <1>6, PropagateVersionBelow DEF PropagateVersion
<1>7. CASE UpdateCallGraph
  BY <1>7, UpdateCallGraphBelow DEF UpdateCallGraph
<1>8. CASE ConnectEdge
  BY <1>8, ConnectEdgeBelow DEF ConnectEdge
<1>9. CASE NextRound \/ Finished \/ Terminated \/ UNCHANGED vars
  <2>1. UNCHANGED <<svfg, callgraph, pts, consume, versionReliance, vPtD>>
    BY <1>9 DEF NextRound, Finished, Terminated, vars
  <2>. QED BY <2>1, BelowUnchanged, LabelsBelowUnchanged DEF Below
<1>. QED BY <1>1, <1>2, <1>3, <1>4, <1>5, <1>6, <1>7, <1>8, <1>9 DEF Next

LEMMA InitBelow ==
  ASSUME Init, NEW X PROVE Below(X) /\ LabelsBelow(X)
<1>1. /\ svfg \in Programs /\ callgraph = {} /\ pts = [x \in Var |-> {}]
      /\ consume = Prelabel(svfg) /\ versionReliance = {} /\ vPtD = {}
  BY DEF Init
<1>2. ASSUME NEW l \in svfg.nodes, NEW o \in Obj
      PROVE  Bound(X, o, consume[l][o]) \subseteq X.in[l][o]
  <2>1. l \in Loc
    BY <1>1, ProgramTypes
  <2>2. consume[l][o] = {} \/ (consume[l][o] = {l} /\ l \in DeltaNodes(svfg))
    BY <1>1, <2>1 DEF Prelabel
  <2>3. l \in DeltaNodes(svfg) => FlowValue(svfg, X, l, o) = X.in[l][o]
    BY <1>1, EdgeKinds DEF FlowValue, Op
  <2>. QED BY <2>2, <2>3 DEF Bound
<1>3. LabelsBelow(X)
  BY <1>1, <1>2 DEF LabelsBelow
<1>4. \A o, v : At(o, v) = {}
  BY <1>1 DEF At
<1>. QED BY <1>1, <1>3, <1>4 DEF Below

-----------------------------------------------------------------------------
(* The result is within X if the pre-analysis covers what X says of the    *)
(* pointers of stores.                                                     *)
Covered(X) == \A x \in Var : X.pts[x] \subseteq svfg.ander[x]

LEMMA ReferenceCovered ==
  ASSUME svfg \in Programs, NEW X, X = Reference(svfg)
  PROVE  FlowSolution(svfg, X) /\ Covered(X)
BY ReferenceAssumption, PreAnalysisAssumption DEF Covered

LEMMA ResultBelow ==
  ASSUME VersionInv, NEW X, FlowSolution(svfg, X), Covered(X), Below(X), LabelsBelow(X)
  PROVE  FlowWithin(svfg, Result, X)
<1>1. ASSUME NEW l \in svfg.nodes, NEW o \in Obj PROVE Seen(l, o) \subseteq X.in[l][o]
  <2>1. CASE consume[l][o] # {}
    BY <2>1, SeenBelow DEF Seen
  <2>2. CASE consume[l][o] = {}
    <3>. SUFFICES ASSUME NEW e \in IndirectEdges(svfg, callgraph), e[2] = l, e[3] = o
                  PROVE  At(o, Yield(e[1], o)) \subseteq X.in[l][o]
      BY <2>2 DEF Seen
    <3>1. e \in IndirectEdges(svfg, svfg.calls) /\ svfg \in Programs
      BY DEF IndirectEdges, VersionInv, TypeOK
    <3>2. e \in IndirectEdges(svfg, X.calls)
      BY EdgesMonotone DEF Below
    <3>3. FlowValue(svfg, X, e[1], e[3]) \subseteq X.in[e[2]][e[3]]
      BY <3>2 DEF FlowSolution
    <3>4. At(e[3], Yield(e[1], e[3])) \subseteq FlowValue(svfg, X, e[1], e[3])
      BY <3>1, EdgeKinds, SeenBelow
    <3>. QED BY <3>3, <3>4
  <2>. QED BY <2>1, <2>2
<1>2. ASSUME NEW l \in svfg.nodes, NEW o \in Obj, Op(l) = "store"
      PROVE  Left(l, o) \subseteq X.out[l][o]
  <2>1. CASE Yield(l, o) # {}
    BY <1>2, <2>1, SeenBelow DEF Left, FlowValue, Op
  <2>2. CASE Yield(l, o) = {} /\ pts[Lhs(l)] # {}
    <3>1. Lhs(l) \in Var /\ Lhs(l) = svfg.stmt[l].lhs
      BY OperandTypes DEF VersionInv, Lhs
    <3>2. o \notin X.pts[Lhs(l)] /\ X.pts[Lhs(l)] # {}
      BY <1>2, <2>2, <3>1 DEF Yield, Covered, Below
    <3>3. X.in[l][o] \subseteq FlowStored(svfg, X, l, o)
      BY <3>1, <3>2 DEF FlowStored, FlowOverwritten
    <3>4. FlowStored(svfg, X, l, o) \subseteq X.out[l][o]
      BY <1>2, <3>1, <3>2 DEF FlowSolution, Op
    <3>. QED BY <1>1, <2>2, <3>3, <3>4 DEF Left
  <2>. QED BY <2>1, <2>2 DEF Left
<1>3. /\ Result.calls = callgraph /\ Result.pts = pts
      /\ \A l \in svfg.nodes, o \in Obj :
           /\ Result.in[l][o] = Seen(l, o)
           /\ Result.out[l][o] = IF Op(l) = "store" THEN Left(l, o) ELSE {}
  BY DEF Result
<1>. QED BY <1>1, <1>2, <1>3 DEF FlowWithin, Below

-----------------------------------------------------------------------------
(* Nothing is left out: what a statement defines is defined, or it is      *)
(* going to be processed.  Loads, and what stores pass on, are the         *)
(* business of StatementsNotified.                                         *)
Satisfied(n) ==
  /\ Op(n) \in {"addr", "phi", "gep"} => TopLevelValue(n) \subseteq pts[Lhs(n)]
  /\ Op(n) = "store" =>
       \A o \in Written(n) : Yield(n, o) # {} => Used(n) \subseteq At(o, Yield(n, o))
  /\ \A d \in Passes(n) : pts[Lhs(n)] \subseteq pts[Lhs(d)]

SolvedInv ==
  /\ pc \in {"solve", "done"} => \A n \in svfg.nodes : Satisfied(n) \/ ToBeProcessed(n)
  /\ pc = "done" => worklist = {} /\ NewTargets = {}

LEMMA StaysSatisfied ==
  ASSUME TypeOK, NEW n \in svfg.nodes, Satisfied(n), UNCHANGED <<svfg, callgraph, consume>>,
         \A x \in Var : pts[x] \subseteq pts'[x],
         \A o, v : At(o, v) \subseteq At(o, v)',
         Used(n)' = Used(n),
         Op(n) \in {"store", "actual"} => pts'[Lhs(n)] = pts[Lhs(n)]
  PROVE  Satisfied(n)'
<1>1. Op(n)' = Op(n) /\ Lhs(n)' = Lhs(n) /\ Lhs(n) \in Var
  BY OperandTypes DEF Op, Lhs
<1>2. \A o : Yield(n, o)' = Yield(n, o)
  BY <1>1 DEF Yield
<1>3. Passes(n)' = Passes(n)
  BY <1>1 DEF Passes, Users, Direct
<1>4. Op(n) \in {"addr", "phi", "gep"} => TopLevelValue(n)' = TopLevelValue(n)
  BY <1>1 DEF TopLevelValue
<1>5. pts[Lhs(n)] \subseteq pts'[Lhs(n)]
  BY <1>1
<1>6. Op(n) = "store" => Written(n)' = Written(n)
  BY <1>1 DEF Written
<1>7. ASSUME NEW o \in Written(n), Op(n) = "store", Yield(n, o) # {}
      PROVE  Used(n) \subseteq At(o, Yield(n, o))'
  <2>1. Used(n) \subseteq At(o, Yield(n, o))
    BY <1>7 DEF Satisfied
  <2>2. PICK v : v = Yield(n, o)
    OBVIOUS
  <2>3. Yield(n, o)' = v
    BY <1>2, <2>2
  <2>4. At(o, v) \subseteq At(o, v)'
    OBVIOUS
  <2>. QED BY <2>1, <2>2, <2>3, <2>4 DEF At
<1>8. ASSUME NEW d \in Passes(n) PROVE pts'[Lhs(n)] \subseteq pts'[Lhs(d)]
  <2>1. Op(n) = "actual" /\ d \in svfg.nodes
    BY DEF Passes, Users
  <2>2. Lhs(d) \in Var
    BY <2>1, OperandTypes
  <2>. QED BY <2>1, <2>2 DEF Satisfied
<1>9. \A d : Lhs(d)' = Lhs(d)
  BY DEF Lhs
<1>. QED BY <1>1, <1>2, <1>3, <1>4, <1>5, <1>6, <1>7, <1>8, <1>9 DEF Satisfied

(* A node m is processed: it is satisfied then, unless its own result      *)
(* changes what it uses, and so are others, unless they are told.          *)
LEMMA ProcessedSolved ==
  ASSUME VersionInv, SolvedInv, pc = "solve", pc' = "solve", NEW m \in worklist,
         UNCHANGED <<svfg, callgraph, consume>>,
         worklist \ {m} \subseteq worklist',
         Op(m) = "formal" => Users(m) \subseteq worklist',
         \A x \in Var : pts[x] \subseteq pts'[x],
         \A o, v : At(o, v) \subseteq At(o, v)',
         \A n \in svfg.nodes :
           \/ ToBeProcessed(n)'
           \/ /\ Used(n)' = Used(n)
              /\ Op(n) \in {"store", "actual"} => pts'[Lhs(n)] = pts[Lhs(n)],
         Satisfied(m)' \/ ToBeProcessed(m)'
  PROVE  SolvedInv'
<1>1. ASSUME NEW n \in svfg.nodes, n # m, ToBeProcessed(n) PROVE ToBeProcessed(n)'
  <2>1. Direct' = Direct
    BY DEF Direct, DirectEdges
  <2>2. CASE n \in worklist
    BY <1>1, <2>2 DEF ToBeProcessed
  <2>3. ASSUME NEW d \in worklist, Op(d) = "formal", <<d, n>> \in Direct
        PROVE  ToBeProcessed(n)'
    <3>1. d = m => n \in worklist'
      BY <2>3 DEF Users
    <3>2. d # m => d \in worklist'
      OBVIOUS
    <3>. QED BY <2>1, <2>3, <3>1, <3>2 DEF ToBeProcessed, Op
  <2>. QED BY <1>1, <2>2, <2>3 DEF ToBeProcessed
<1>2. ASSUME NEW n \in svfg.nodes PROVE Satisfied(n)' \/ ToBeProcessed(n)'
  <2>1. CASE n = m
    BY <2>1
  <2>2. CASE n # m /\ ToBeProcessed(n)
    BY <1>1, <2>2
  <2>3. CASE Satisfied(n)
    BY <2>3, StaysSatisfied DEF VersionInv
  <2>. QED BY <2>1, <2>2, <2>3 DEF SolvedInv
<1>. QED BY <1>2 DEF SolvedInv

LEMMA TopLevelSolved ==
  ASSUME VersionInv, SolvedInv, NEW m \in worklist, ProcessTopLevel(m)
  PROVE  SolvedInv'
<1>1. m \in svfg.nodes /\ Lhs(m) \in Var /\ TypeOK
  BY OperandTypes DEF VersionInv, TypeOK
<1>2. /\ Op(m) \in {"addr", "phi", "gep", "load"} /\ pc = "solve" /\ pc' = "solve"
      /\ pts' = [pts EXCEPT ![Lhs(m)] = @ \cup TopLevelValue(m)]
      /\ worklist' = (worklist \ {m}) \cup (IF pts' = pts THEN {} ELSE Users(m))
      /\ UNCHANGED <<svfg, callgraph, consume, vPtD>>
  BY DEF ProcessTopLevel, Take
<1>3. /\ \A x \in Var : pts[x] \subseteq pts'[x]
      /\ \A x \in Var \ {Lhs(m)} : pts'[x] = pts[x]
      /\ pts'[Lhs(m)] = pts[Lhs(m)] \cup TopLevelValue(m)
  BY <1>1, <1>2 DEF TypeOK
<1>4. ASSUME NEW n \in svfg.nodes
      PROVE  \/ ToBeProcessed(n)'
             \/ /\ Used(n)' = Used(n)
                /\ Op(n) \in {"store", "actual"} => pts'[Lhs(n)] = pts[Lhs(n)]
  <2>1. CASE pts' = pts
    BY <1>2, <2>1 DEF Used
  <2>2. CASE pts' # pts /\ n \in Users(m)
    BY <1>2, <2>2 DEF ToBeProcessed
  <2>3. CASE n \notin Users(m)
    <3>1. /\ Lhs(m) \notin Operands(svfg, callgraph, n)
          /\ Op(n) \in {"store", "actual"} => Lhs(m) # Lhs(n)
      BY <1>1, <1>2, <2>3, Linked
    <3>2. Operands(svfg, callgraph, n) \subseteq Var /\ Lhs(n) \in Var
      BY <1>1, OperandTypes
    <3>3. \A x \in Operands(svfg, callgraph, n) : pts'[x] = pts[x]
      BY <1>3, <3>1, <3>2
    <3>4. Used(n)' = Used(n)
      BY <1>2, <3>3 DEF Used
    <3>. QED BY <1>3, <3>1, <3>2, <3>4
  <2>. QED BY <2>1, <2>2, <2>3
<1>5. ASSUME Used(m)' = Used(m) PROVE Satisfied(m)'
  <2>1. Op(m)' = Op(m) /\ Lhs(m)' = Lhs(m)
    BY <1>2 DEF Op, Lhs
  <2>2. Op(m) \in {"addr", "phi", "gep"} => TopLevelValue(m)' = TopLevelValue(m)
    BY <1>2, <1>5, <2>1 DEF TopLevelValue
  <2>3. Passes(m)' = {}
    BY <1>2, <2>1 DEF Passes
  <2>. QED BY <1>2, <1>3, <2>1, <2>2, <2>3 DEF Satisfied
<1>6. \A o, v : At(o, v)' = At(o, v)
  BY <1>2 DEF At
<1>. QED BY <1>1, <1>2, <1>3, <1>4, <1>5, <1>6, ProcessedSolved

LEMMA PassOnSolved ==
  ASSUME VersionInv, SolvedInv, NEW m \in worklist, ProcessPassOn(m)
  PROVE  SolvedInv'
<1>1. m \in svfg.nodes /\ Lhs(m) \in Var /\ TypeOK
  BY OperandTypes DEF VersionInv, TypeOK
<1>2. /\ Op(m) \in {"mem", "actual", "formal"} /\ pc = "solve" /\ pc' = "solve"
      /\ pts' = [x \in Var |-> IF \E d \in Passes(m) : Lhs(d) = x
                               THEN pts[x] \cup pts[Lhs(m)] ELSE pts[x]]
      /\ worklist' = (worklist \ {m})
           \cup {d \in Users(m) : d \in Passes(m) => pts'[Lhs(d)] # pts[Lhs(d)]}
      /\ UNCHANGED <<svfg, callgraph, consume, vPtD>>
  BY DEF ProcessPassOn, Take
<1>3. \A x \in Var : pts[x] \subseteq pts'[x]
  BY <1>2
<1>4. ASSUME NEW n \in svfg.nodes, NEW x \in Var, pts'[x] # pts[x],
             x \in Operands(svfg, callgraph, n) \/
               (Op(n) \in {"store", "actual"} /\ x = Lhs(n))
      PROVE  ToBeProcessed(n)'
  <2>1. PICK f \in Passes(m) : Lhs(f) = x
    BY <1>2, <1>4
  <2>2. Op(m) = "actual" /\ f \in Users(m) /\ f \in svfg.nodes
    BY <2>1 DEF Passes, Users
  <2>3. Op(f) = "formal" /\ f \in worklist'
    BY <1>1, <1>2, <1>4, <2>1, <2>2, FormalUsers
  <2>4. n \in Users(f)
    BY <1>1, <1>4, <2>1, <2>2, <2>3, Linked
  <2>5. Direct' = Direct /\ Op(f)' = Op(f)
    BY <1>2 DEF Direct, DirectEdges, Op
  <2>. QED BY <2>3, <2>4, <2>5 DEF ToBeProcessed, Users
<1>5. ASSUME NEW n \in svfg.nodes, ~ToBeProcessed(n)'
      PROVE  /\ Used(n)' = Used(n)
             /\ Op(n) \in {"store", "actual"} => pts'[Lhs(n)] = pts[Lhs(n)]
  <2>1. Operands(svfg, callgraph, n) \subseteq Var /\ Lhs(n) \in Var
    BY <1>1, OperandTypes
  <2>2. \A x \in Operands(svfg, callgraph, n) : pts'[x] = pts[x]
    BY <1>4, <1>5, <2>1
  <2>3. Operands(svfg, callgraph, n)' = Operands(svfg, callgraph, n)
    BY <1>2
  <2>. QED BY <1>4, <1>5, <2>1, <2>2, <2>3 DEF Used
<1>6. Op(m) = "formal" => Users(m) \subseteq worklist'
  BY <1>2 DEF Passes
<1>7. ASSUME ~ToBeProcessed(m)' PROVE Satisfied(m)'
  <2>1. Op(m)' = Op(m) /\ (\A d : Lhs(d)' = Lhs(d)) /\ Passes(m)' = Passes(m)
    BY <1>2 DEF Op, Lhs, Passes, Users, Direct, DirectEdges
  <2>2. ASSUME NEW d \in Passes(m) PROVE pts'[Lhs(m)] \subseteq pts'[Lhs(d)]
    <3>1. Op(m) = "actual" /\ d \in svfg.nodes
      BY DEF Passes, Users
    <3>2. Lhs(d) \in Var
      BY <1>1, <3>1, OperandTypes
    <3>3. pts'[Lhs(m)] = pts[Lhs(m)]
      BY <1>1, <1>5, <1>7, <3>1
    <3>. QED BY <1>2, <3>2, <3>3
  <2>. QED BY <1>2, <2>1, <2>2 DEF Satisfied
<1>8. \A o, v : At(o, v)' = At(o, v)
  BY <1>2 DEF At
<1>. QED BY <1>1, <1>2, <1>3, <1>5, <1>6, <1>7, <1>8, ProcessedSolved

LEMMA StoreSolved ==
  ASSUME VersionInv, SolvedInv, NEW m \in worklist, ProcessStore(m)
  PROVE  SolvedInv'
<1> DEFINE changed == {o \in Obj : /\ pts[Lhs(m)] # {} /\ Yield(m, o) # {}
                                   /\ ~(Sent(m, o) \subseteq At(o, Yield(m, o)))}
<1>1. m \in svfg.nodes /\ Lhs(m) \in Var /\ TypeOK /\ m \in Loc
  BY OperandTypes DEF VersionInv, TypeOK
<1>2. /\ Op(m) = "store" /\ pc = "solve" /\ pc' = "solve"
      /\ vPtD' = vPtD \cup UNION {Entries(o, Yield(m, o), Sent(m, o)) : o \in changed}
      /\ worklist' = worklist \ {m}
      /\ UNCHANGED <<svfg, callgraph, pts, consume>>
  BY DEF ProcessStore, Take
<1>3. \A o, v : At(o, v) \subseteq At(o, v)'
  BY <1>2 DEF At
<1>4. /\ Op(m)' = Op(m) /\ Lhs(m)' = Lhs(m) /\ Passes(m)' = {}
      /\ \A o : Yield(m, o)' = Yield(m, o)
      /\ Written(m)' = Written(m) /\ \A n : Used(n)' = Used(n)
  BY <1>2 DEF Op, Lhs, Passes, Yield, Written, Used
<1>5. ASSUME NEW o \in Written(m), Yield(m, o) # {}
      PROVE  Used(m) \subseteq At(o, Yield(m, o))'
  <2>1. o \in Obj /\ pts[Lhs(m)] # {} /\ Used(m) \subseteq Sent(m, o)
    BY <1>1 DEF Written, TypeOK, Sent
  <2>2. PICK v : v = Yield(m, o)
    OBVIOUS
  <2>3. Sent(m, o) \subseteq At(o, v)'
    <3>1. CASE o \in changed
      <4>1. \A x \in Sent(m, o) : <<o, v, x>> \in vPtD'
        BY <1>2, <2>2, <3>1 DEF Entries
      <4>2. Sent(m, o) \in SUBSET Obj
        BY <1>1, <2>1, SentTyped
      <4>. QED BY <4>1, <4>2 DEF At
    <3>2. CASE o \notin changed
      BY <1>3, <1>5, <2>1, <2>2, <3>2
    <3>. QED BY <3>1, <3>2
  <2>4. Yield(m, o)' = v
    BY <1>4, <2>2
  <2>. QED BY <2>1, <2>3, <2>4 DEF At
<1>6. Satisfied(m)'
  BY <1>2, <1>4, <1>5 DEF Satisfied
<1>. QED BY <1>2, <1>3, <1>4, <1>6, ProcessedSolved

LEMMA SolvedNext ==
  ASSUME VersionInv, SolvedInv, [Next]_vars PROVE SolvedInv'
<1>1. CASE \E n \in worklist : ProcessTopLevel(n)
  BY <1>1, TopLevelSolved
<1>2. CASE \E n \in worklist : ProcessPassOn(n)
  BY <1>2, PassOnSolved
<1>3. CASE \E n \in worklist : ProcessStore(n)
  BY <1>3, StoreSolved
<1>4. CASE PropagateVersion
  <2>1. /\ UNCHANGED <<svfg, callgraph, pts, consume, pc>> /\ vPtD \subseteq vPtD'
        /\ worklist \subseteq worklist' /\ pc # "done"
    BY <1>4 DEF PropagateVersion, VersionInv, Control
  <2>2. \A o, v : At(o, v) \subseteq At(o, v)'
    BY <2>1 DEF At
  <2>3. \A n : Used(n)' = Used(n)
    BY <2>1 DEF Used
  <2>4. \A n \in svfg.nodes : ToBeProcessed(n) => ToBeProcessed(n)'
    BY <2>1 DEF ToBeProcessed, Op, Direct, DirectEdges
  <2>5. \A n \in svfg.nodes : Satisfied(n) => Satisfied(n)'
    BY <2>1, <2>2, <2>3, StaysSatisfied DEF VersionInv
  <2>. QED BY <2>1, <2>4, <2>5 DEF SolvedInv
<1>5. CASE StartSolving \/ NextRound
  <2>1. pc' = "solve" /\ worklist' = svfg.nodes /\ svfg' = svfg
    BY <1>5 DEF StartSolving, NextRound
  <2>. QED BY <2>1 DEF SolvedInv, ToBeProcessed
<1>6. CASE (\E l \in vWorklist : MeldLabel(l)) \/ UpdateCallGraph \/ ConnectEdge
  <2>1. pc' \in {"label", "connect"}
    BY <1>6 DEF MeldLabel, UpdateCallGraph, ConnectEdge, VersionInv, Control
  <2>. QED BY <2>1 DEF SolvedInv
<1>7. CASE Finished \/ Terminated \/ UNCHANGED vars
  <2>1. UNCHANGED <<svfg, callgraph, pts, consume, vPtD, worklist>>
    BY <1>7 DEF Finished, Terminated, vars
  <2>2. /\ \A n \in svfg.nodes : Satisfied(n) => Satisfied(n)'
        /\ \A n \in svfg.nodes : ToBeProcessed(n) => ToBeProcessed(n)'
    <3>1. \A n : Used(n)' = Used(n)
      BY <2>1 DEF Used
    <3>2. \A o, v : At(o, v)' = At(o, v)
      BY <2>1 DEF At
    <3>. QED BY <2>1, <3>1, <3>2, StaysSatisfied
         DEF VersionInv, ToBeProcessed, Op, Direct, DirectEdges
  <2>3. NewTargets' = NewTargets
    BY <2>1 DEF NewTargets
  <2>4. pc \in {"solve", "done"} \/ pc' \notin {"solve", "done"}
    BY <1>7 DEF Finished, Terminated, vars, Quiet
  <2>5. pc' = "done" => worklist = {} /\ NewTargets = {}
    BY <1>7 DEF Finished, Terminated, vars, Quiet, SolvedInv
  <2>. QED BY <2>1, <2>2, <2>3, <2>4, <2>5 DEF SolvedInv
<1>. QED BY <1>1, <1>2, <1>3, <1>4, <1>5, <1>6, <1>7 DEF Next

(* A location without a version sees nothing, unless it is a delta node;   *)
(* and delta nodes that edges leave have a version.                        *)
LEMMA NothingUnseen ==
  ASSUME VersionInv, LabelInv, NEW X, Below(X), pc # "label",
         NEW l \in svfg.nodes \ DeltaNodes(svfg), NEW o \in Obj, consume[l][o] = {}
  PROVE  Seen(l, o) = {}
<1>1. At(o, {}) = {}
  BY DEF Below, Bound
<1>2. ASSUME NEW e \in IndirectEdges(svfg, callgraph), e[2] = l, e[3] = o
      PROVE  Yield(e[1], o) = {}
  <2>1. svfg \in Programs /\ callgraph \subseteq svfg.calls
    BY DEF VersionInv, TypeOK
  <2>2. e \in svfg.indirect
    BY <1>2, <2>1, EdgeKinds DEF IndirectEdges
  <2>. QED BY <1>2, <2>2 DEF LabelInv, Melded
<1>. QED BY <1>1, <1>2 DEF Seen

LEMMA DeltaVersions ==
  ASSUME VersionInv, LabelInv, Anticipated(svfg), NEW e \in IndirectEdges(svfg, callgraph),
         e[1] \in DeltaNodes(svfg)
  PROVE  consume[e[1]][e[3]] # {}
<1>1. /\ svfg \in Programs /\ callgraph \subseteq svfg.calls
      /\ e \in IndirectEdges(svfg, svfg.calls)
  BY DEF VersionInv, TypeOK, IndirectEdges
<1>2. e[1] \in Loc /\ e[3] \in Obj
  BY <1>1, EdgeKinds
<1>3. \E x \in svfg.indirect : x[1] = e[1] /\ x[3] = e[3]
  BY <1>1 DEF IndirectEdges, Anticipated
<1>4. Prelabel(svfg)[e[1]][e[3]] = {e[1]}
  BY <1>2, <1>3 DEF Prelabel
<1>. QED BY <1>2, <1>4 DEF LabelInv, DeltaLabels

(* What the equations carry along an edge is in the version that its       *)
(* source yields, and in the end where the edge leads.                     *)
LEMMA EdgesSolved ==
  ASSUME VersionInv, LabelInv, NEW X, Below(X), pc = "done", Anticipated(svfg),
         NEW e \in IndirectEdges(svfg, callgraph)
  PROVE  FlowValue(svfg, Result, e[1], e[3]) \subseteq Seen(e[2], e[3])
<1>1. /\ svfg \in Programs /\ callgraph \subseteq svfg.calls
      /\ e \in IndirectEdges(svfg, svfg.calls)
  BY DEF VersionInv, TypeOK, IndirectEdges
<1>2. /\ e[1] \in svfg.nodes /\ e[2] \in svfg.nodes /\ e[3] \in Obj
      /\ Op(e[1]) \in {"store", "mem"}
  BY <1>1, EdgeKinds
<1>3. FlowValue(svfg, Result, e[1], e[3]) = At(e[3], Yield(e[1], e[3]))
  <2>1. CASE Op(e[1]) = "store"
    <3>1. e[3] \in svfg.ander[Lhs(e[1])]
      BY <1>1, <2>1, PreAnalysisAssumption DEF Op, Lhs
    <3>2. Yield(e[1], e[3]) # {}
      BY <2>1, <3>1 DEF Yield
    <3>3. FlowValue(svfg, Result, e[1], e[3]) = Left(e[1], e[3])
      BY <1>2, <2>1 DEF FlowValue, Result, Op
    <3>. QED BY <3>2, <3>3 DEF Left
  <2>2. CASE Op(e[1]) = "mem"
    <3>1. FlowValue(svfg, Result, e[1], e[3]) = Seen(e[1], e[3])
      BY <1>2, <2>2 DEF FlowValue, Result, Op
    <3>2. Yield(e[1], e[3]) = consume[e[1]][e[3]]
      BY <2>2 DEF Yield
    <3>3. CASE consume[e[1]][e[3]] # {}
      BY <3>1, <3>2, <3>3 DEF Seen
    <3>4. CASE consume[e[1]][e[3]] = {}
      <4>1. e[1] \notin DeltaNodes(svfg)
        BY <3>4, DeltaVersions
      <4>2. Seen(e[1], e[3]) = {}
        BY <1>2, <3>4, <4>1, NothingUnseen
      <4>3. At(e[3], {}) = {}
        BY DEF Below, Bound
      <4>. QED BY <3>1, <3>2, <3>4, <4>2, <4>3
    <3>. QED BY <3>3, <3>4
  <2>. QED BY <1>2, <2>1, <2>2
<1>4. CASE consume[e[2]][e[3]] = {}
  BY <1>3, <1>4 DEF Seen
<1>5. CASE consume[e[2]][e[3]] # {}
  <2>1. Seen(e[2], e[3]) = At(e[3], consume[e[2]][e[3]])
    BY <1>5 DEF Seen
  <2>2. CASE Yield(e[1], e[3]) = {}
    <3>1. At(e[3], {}) = {}
      BY DEF Below, Bound
    <3>. QED BY <1>3, <2>2, <3>1
  <2>3. CASE Yield(e[1], e[3]) # {}
    <3>1. newEdges = {} /\ pending = {}
      BY DEF VersionInv, Control
    <3>2. Reliable(e)
      BY <3>1 DEF LabelInv, EdgesServed, IndirectEdges
    <3>3. PICK x : x = <<e[3], Yield(e[1], e[3]), consume[e[2]][e[3]]>>
      OBVIOUS
    <3>4. x \in Reliance(e)
      BY <1>5, <2>3, <3>3 DEF Reliance
    <3>5. x[2] = x[3] \/ x \in versionReliance
      BY <3>2, <3>4 DEF Reliable
    <3>6. x \in versionReliance => At(x[1], x[2]) \subseteq At(x[1], x[3])
      BY <3>1 DEF VersionInv, ReliantDelivered
    <3>7. x[1] = e[3] /\ x[2] = Yield(e[1], e[3]) /\ x[3] = consume[e[2]][e[3]]
      BY <3>3
    <3>. QED BY <1>3, <2>1, <3>5, <3>6, <3>7
  <2>. QED BY <2>2, <2>3
<1>. QED BY <1>4, <1>5

(* Loads, stores and all others at the end.                                *)
LEMMA StatementsSolved ==
  ASSUME VersionInv, LabelInv, SolvedInv, NEW X, Below(X), Covered(X), pc = "done",
         NEW n \in svfg.nodes
  PROVE  /\ FlowDefined(svfg, Result, n) \subseteq pts[Lhs(n)]
         /\ Op(n) = "store" /\ pts[Lhs(n)] # {} =>
              \A o \in Obj : FlowStored(svfg, Result, n, o) \subseteq Left(n, o)
         /\ \A d \in Passes(n) : pts[Lhs(n)] \subseteq pts[Lhs(d)]
<1>1. /\ svfg \in Programs /\ TypeOK /\ pending = {} /\ worklist = {}
      /\ n \in Loc /\ Lhs(n) \in Var /\ Used(n) \subseteq Obj
  BY OperandTypes, StmtTypes DEF VersionInv, TypeOK, Control, SolvedInv
<1>2. Satisfied(n)
  BY <1>1 DEF SolvedInv, ToBeProcessed
<1>3. \A o \in Obj : consume[n][o] # {} => UpToDate(n, o)
  BY <1>1 DEF VersionInv, StatementsNotified, ToBeProcessed
<1>4. /\ Result.pts = pts /\ Result.calls = callgraph
      /\ \A o \in Obj : Result.in[n][o] = Seen(n, o)
  BY DEF Result
<1>5. FlowUsed(svfg, Result, n) = Used(n)
  BY <1>4 DEF FlowUsed, Used
<1>6. \A o \in Obj : Op(n) # "mem" /\ consume[n][o] = {} => Seen(n, o) = {}
  <2>1. Op(n) # "mem" => n \notin DeltaNodes(svfg)
    BY <1>1, EdgeKinds
  <2>. QED BY <2>1, NothingUnseen
<1>7. FlowDefined(svfg, Result, n) \subseteq pts[Lhs(n)]
  <2>1. CASE Op(n) \in {"addr", "phi", "gep"}
    <3>1. TopLevelValue(n) = FlowDefined(svfg, Result, n)
      BY <1>5, <2>1 DEF TopLevelValue, FlowDefined, Op
    <3>. QED BY <1>2, <2>1, <3>1 DEF Satisfied
  <2>2. CASE Op(n) = "load"
    <3>1. ASSUME NEW o \in Used(n) \ NonPointer PROVE Result.in[n][o] \subseteq pts[Lhs(n)]
      <4>1. CASE consume[n][o] = {}
        BY <1>1, <1>4, <1>6, <2>2, <4>1
      <4>2. CASE consume[n][o] # {}
        <5>1. At(o, consume[n][o]) \subseteq pts[Lhs(n)]
          BY <1>1, <1>3, <2>2, <4>2 DEF UpToDate
        <5>. QED BY <1>1, <1>4, <4>2, <5>1 DEF Seen
      <4>. QED BY <4>1, <4>2
    <3>2. FlowDefined(svfg, Result, n) = UNION {Result.in[n][o] : o \in Used(n) \ NonPointer}
      BY <1>5, <2>2 DEF FlowDefined, Op
    <3>. QED BY <3>1, <3>2
  <2>3. CASE Op(n) \notin {"addr", "phi", "gep", "load"}
    BY <2>3 DEF FlowDefined, Op
  <2>. QED BY <2>1, <2>2, <2>3
<1>8. ASSUME Op(n) = "store", pts[Lhs(n)] # {}, NEW o \in Obj
      PROVE  FlowStored(svfg, Result, n, o) \subseteq Left(n, o)
  <2>1. FlowOverwritten(svfg, Result, n) = Overwritten(n)
    BY <1>4 DEF FlowOverwritten, Overwritten, Lhs
  <2>2. FlowStored(svfg, Result, n, o) =
          (IF o \in pts[Lhs(n)] \ NonPointer THEN Used(n) ELSE {})
            \cup (IF o \in Overwritten(n) THEN {} ELSE Seen(n, o))
    BY <1>4, <1>5, <2>1 DEF FlowStored, Lhs
  <2>3. CASE Yield(n, o) = {}
    <3>1. o \notin pts[Lhs(n)]
      BY <1>1, <1>8, <2>3 DEF Yield, Covered, Below
    <3>. QED BY <1>8, <2>2, <2>3, <3>1 DEF Left
  <2>4. CASE Yield(n, o) # {}
    <3>1. o \in pts[Lhs(n)] \ NonPointer => Used(n) \subseteq At(o, Yield(n, o))
      BY <1>2, <1>8, <2>4 DEF Satisfied, Written
    <3>2. o \notin Overwritten(n) => Seen(n, o) \subseteq At(o, Yield(n, o))
      <4>1. CASE consume[n][o] = {}
        BY <1>6, <1>8, <4>1
      <4>2. CASE consume[n][o] # {}
        BY <1>3, <1>8, <2>4, <4>2 DEF UpToDate, Seen
      <4>. QED BY <4>1, <4>2
    <3>3. Left(n, o) = At(o, Yield(n, o))
      BY <2>4 DEF Left
    <3>. QED BY <2>2, <3>1, <3>2, <3>3
  <2>. QED BY <2>3, <2>4
<1>. QED BY <1>2, <1>7, <1>8 DEF Satisfied

LEMMA ResultSolved ==
  ASSUME VersionInv, LabelInv, SolvedInv, NEW X, Below(X), Covered(X)
  PROVE  pc = "done" => Solved
<1>. SUFFICES ASSUME pc = "done", Anticipated(svfg) PROVE FlowSolution(svfg, Result)
  BY DEF Solved
<1>1. svfg \in Programs /\ TypeOK /\ callgraph \subseteq svfg.calls /\ NewTargets = {}
  BY DEF VersionInv, TypeOK, SolvedInv
<1>2. /\ Result.pts = pts /\ Result.calls = callgraph
      /\ \A l \in svfg.nodes, o \in Obj :
           /\ Result.in[l][o] = Seen(l, o)
           /\ Op(l) = "store" => Result.out[l][o] = Left(l, o)
  BY DEF Result
<1>3. \A c \in svfg.calls : c.fun \in pts[c.fp] => c \in callgraph
  BY <1>1 DEF NewTargets
<1>4. ASSUME NEW e \in DirectEdges(svfg, callgraph), svfg.stmt[e[1]].op = "actual"
      PROVE  pts[svfg.stmt[e[1]].lhs] \subseteq pts[svfg.stmt[e[2]].lhs]
  <2>1. /\ e[1] \in svfg.nodes /\ e[2] \in svfg.nodes
        /\ e = <<e[1], e[2]>>
    <3>1. e \in svfg.direct \cup UNION {c.direct : c \in svfg.calls}
      BY <1>1 DEF DirectEdges
    <3>2. \A c \in svfg.calls : c.direct \in SUBSET (Loc \X Loc)
      BY <1>1, ProgramTypes DEF Call
    <3>3. e \in Loc \X Loc
      BY <1>1, <3>1, <3>2, ProgramTypes
    <3>. QED BY <1>1, <3>1, <3>3, ValueFlowAssumption
  <2>2. e[2] \in Passes(e[1])
    BY <1>4, <2>1 DEF Passes, Users, Direct, Op
  <2>. QED BY <2>1, <2>2, StatementsSolved DEF Lhs
<1>5. ASSUME NEW e \in IndirectEdges(svfg, callgraph)
      PROVE  FlowValue(svfg, Result, e[1], e[3]) \subseteq Result.in[e[2]][e[3]]
  <2>1. e[2] \in svfg.nodes /\ e[3] \in Obj
    BY <1>1, EdgeKinds DEF IndirectEdges
  <2>. QED BY <1>2, <2>1, EdgesSolved
<1>6. \A l \in svfg.nodes : /\ FlowDefined(svfg, Result, l) \subseteq pts[svfg.stmt[l].lhs]
                            /\ svfg.stmt[l].op = "store" /\ pts[svfg.stmt[l].lhs] # {} =>
                                 \A o \in Obj : FlowStored(svfg, Result, l, o) \subseteq Left(l, o)
  BY StatementsSolved DEF Op, Lhs
<1>. QED BY <1>2, <1>3, <1>4, <1>5, <1>6 DEF FlowSolution, Op

-----------------------------------------------------------------------------
WithinSolutions == \A X : FlowSolution(svfg, X) => Below(X) /\ LabelsBelow(X)

ResultInv == VersionInv /\ LabelInv /\ SolvedInv /\ WithinSolutions

LEMMA ResultInit == Init => ResultInv
<1>. SUFFICES ASSUME Init PROVE ResultInv
  OBVIOUS
<1>1. SolvedInv
  BY DEF Init, SolvedInv
<1>. QED BY <1>1, VersionInit, LabelInit, InitBelow DEF ResultInv, WithinSolutions

LEMMA ResultNext == ResultInv /\ [Next]_vars => ResultInv'
<1>. SUFFICES ASSUME ResultInv, [Next]_vars PROVE ResultInv'
  OBVIOUS
<1>1. VersionInv' /\ LabelInv' /\ SolvedInv'
  BY VersionNext, LabelNext, SolvedNext DEF ResultInv
<1>2. svfg' = svfg
  BY DEF Next, MeldLabel, StartSolving, ProcessTopLevel, ProcessPassOn, ProcessStore,
         PropagateVersion, UpdateCallGraph, ConnectEdge, NextRound, Finished, Terminated, vars
<1>3. ASSUME NEW X, FlowSolution(svfg, X) PROVE Below(X)' /\ LabelsBelow(X)'
  BY <1>3, NextBelow DEF ResultInv, WithinSolutions
<1>4. WithinSolutions'
  BY <1>2, <1>3 DEF WithinSolutions
<1>. QED BY <1>1, <1>4 DEF ResultInv

LEMMA ResultReference ==
  ASSUME ResultInv
  PROVE  \E X : /\ X = Reference(svfg) /\ FlowSolution(svfg, X) /\ Covered(X)
                /\ Below(X) /\ LabelsBelow(X)
<1>1. PICK X : X = Reference(svfg)
  OBVIOUS
<1>2. FlowSolution(svfg, X) /\ Covered(X)
  BY <1>1, ReferenceCovered DEF ResultInv, VersionInv, TypeOK
<1>. QED BY <1>1, <1>2 DEF ResultInv, WithinSolutions

(* The result is within every solution that Reference may stand for, the   *)
(* least one among them, for every graph and whatever melds into whatever: *)
(* no pointee is due to the sharing of versions (prelabel, meldLabel).     *)
LEMMA ResultPrecise == ResultInv => Precise
BY ResultReference, ResultBelow DEF ResultInv, Precise

(* When the versioned solver is done, the result is within all solutions   *)
(* that Reference may stand for; and it solves the flow equations of every *)
(* graph whose call edges carry from delta nodes only what edges of the    *)
(* graph carry from them: reliances between versions replace the edges     *)
(* (determineReliance, updateConnectedNodes, propagateVersion).            *)
THEOREM VersionsLeast == Spec => []LeastWhenDone
<1>1. ResultInv /\ pc = "done" => Solved
  BY ResultReference, ResultSolved DEF ResultInv
<1>2. ResultInv => LeastWhenDone
  BY <1>1, ResultPrecise DEF LeastWhenDone
<1>3. Spec => []ResultInv
  BY ResultInit, ResultNext, PTL DEF Spec
<1>. QED BY <1>2, <1>3, PTL
=============================================================================
