--------------------------- MODULE DemandDrivenProofs ----------------------------
(***************************************************************************)
(* No answer of a demand-driven query exceeds what the flow equations      *)
(* justify, for every value-flow graph, every budget and every number of   *)
(* queries.  Each frame of the stack of calls is bounded by a solution of  *)
(* the equations (FrameBelow), and so are the caches, however often what   *)
(* they hold is found again from inside the queries under way.             *)
(***************************************************************************)
EXTENDS DemandDriven, SequenceTheorems, TLAPS

Defining == {"addr", "phi", "gep", "load", "formal"}

(* A pair that findPT() may be called with: a definition and what it       *)
(* defines.                                                                *)
Formed(P, d) ==
  /\ d \in Dpm
  /\ d[1] \in P.nodes
  /\ IF P.stmt[d[1]].op \notin {"store", "mem"} THEN d[2] = P.stmt[d[1]].lhs
                                                ELSE d[2] \in Obj \ NonPointer

(* What a solution X of the flow equations has for d; what it has for what *)
(* d is made of; and what it has for the pointer of a load or store.       *)
Value(P, X, d) ==
  IF P.stmt[d[1]].op \notin {"store", "mem"} THEN X.pts[d[2]] ELSE FlowValue(P, X, d[1], d[2])

Made(P, X, d) ==
  CASE P.stmt[d[1]].op = "addr" -> {}
    [] P.stmt[d[1]].op = "gep" -> FlowUsed(P, X, d[1])
    [] OTHER -> Value(P, X, d)

PointerValue(P, X, l) ==
  IF P.stmt[l].op = "store" THEN X.pts[P.stmt[l].lhs] ELSE FlowUsed(P, X, l)

FrameOK(P, f) ==
  /\ f \in Frame
  /\ f.phase = "query" => /\ f.dpm \in {NoLoc} \X Var
                          /\ \E l \in P.nodes : /\ P.stmt[l].op \in Defining
                                                /\ P.stmt[l].lhs = f.dpm[2]
  /\ f.phase # "query" => Formed(P, f.dpm)
  /\ \A t \in f.todo : Formed(P, t)
  /\ f.phase \in {"pointer", "value"} => P.stmt[f.dpm[1]].op \in {"load", "store"}
  /\ f.edges # {} => Recomputing(f)
  /\ f.phase = "value" => P.stmt[f.dpm[1]].op = "store" /\ f.ptrs = {f.dpm[2]}

(* What a call has found, and what it is going to find, is within X.       *)
FrameBelow(P, X, f) ==
  f.phase # "query" =>
    /\ f.acc \subseteq Made(P, X, f.dpm)
    /\ f.ptrs \subseteq PointerValue(P, X, f.dpm[1])
    /\ f.phase = "pointer" =>
         \A t \in f.todo : Value(P, X, t) \subseteq PointerValue(P, X, f.dpm[1])
    /\ f.phase \in {"value", "sources"} =>
         \A t \in f.todo : Value(P, X, t) \subseteq Made(P, X, f.dpm)

(* A call is about one of the pairs its caller has to find; the outermost  *)
(* is the query.                                                           *)
StackOK(P, X, s) ==
  /\ s \in Seq(Frame)
  /\ \A i \in 1 .. Len(s) : FrameOK(P, s[i]) /\ FrameBelow(P, X, s[i])
  /\ \A i \in 1 .. Len(s) : s[i].phase = "query" <=> i = Len(s)
  /\ \A i \in 1 .. Len(s) - 1 : s[i].dpm \in s[i + 1].todo

CachesBelow(X) ==
  /\ callgraph \subseteq X.calls
  /\ \A x \in Var : pts[x] \subseteq X.pts[x]
  /\ \A l \in svfg.nodes : \A o \in Obj : Op(l) \in {"store", "mem"} =>
       adPts[<<l, o>>] \subseteq FlowValue(svfg, X, l, o)

Inv(X) ==
  /\ TypeOK
  /\ \A t \in traversed : Formed(svfg, t)
  /\ StackOK(svfg, X, stack)
  /\ CachesBelow(X)

-----------------------------------------------------------------------------
LEMMA ReplaceSeq ==
  ASSUME NEW S, NEW s \in Seq(S), s # <<>>, NEW f \in S
  PROVE  LET r == <<f>> \o Tail(s) IN
         /\ r \in Seq(S) /\ Len(r) = Len(s)
         /\ \A i \in 1 .. Len(s) : r[i] = IF i = 1 THEN f ELSE s[i]
<1>1. Tail(s) \in Seq(S) /\ Len(Tail(s)) = Len(s) - 1
      /\ \A i \in 1 .. Len(s) - 1 : Tail(s)[i] = s[i + 1]
  BY HeadTailProperties
<1>2. <<f>> \in Seq(S) /\ Len(<<f>>) = 1 /\ <<f>>[1] = f
  OBVIOUS
<1>3. Len(s) \in Nat /\ Len(s) >= 1
  BY EmptySeq
<1>. QED BY <1>1, <1>2, <1>3, ConcatProperties

LEMMA PushSeq ==
  ASSUME NEW S, NEW s \in Seq(S), NEW f \in S
  PROVE  LET r == <<f>> \o s IN
         /\ r \in Seq(S) /\ Len(r) = Len(s) + 1
         /\ \A i \in 1 .. Len(s) + 1 : r[i] = IF i = 1 THEN f ELSE s[i - 1]
<1>1. <<f>> \in Seq(S) /\ Len(<<f>>) = 1 /\ <<f>>[1] = f
  OBVIOUS
<1>. QED BY <1>1, ConcatProperties

LEMMA ReturnSeq ==
  ASSUME NEW S, NEW s \in Seq(S), Len(s) >= 2, NEW f \in S
  PROVE  LET r == <<f>> \o SubSeq(s, 3, Len(s)) IN
         /\ r \in Seq(S) /\ Len(r) = Len(s) - 1
         /\ \A i \in 1 .. Len(s) - 1 : r[i] = IF i = 1 THEN f ELSE s[i + 1]
<1>. DEFINE t == SubSeq(s, 3, Len(s))
<1>1. t \in Seq(S) /\ Len(t) = Len(s) - 2 /\ \A i \in 1 .. Len(s) - 2 : t[i] = s[i + 2]
  <2>1. Len(s) \in Nat /\ \A i \in 3 .. Len(s) : s[i] \in S
    OBVIOUS
  <2>2. /\ t \in Seq(S)
        /\ Len(t) = IF 3 <= Len(s) THEN Len(s) - 3 + 1 ELSE 0
        /\ \A i \in 1 .. Len(s) - 3 + 1 : t[i] = s[3 + i - 1]
    BY <2>1, SubSeqProperties
  <2>. HIDE DEF t
  <2>3. Len(t) = Len(s) - 2
    <3>1. Len(s) \in Nat /\ Len(s) >= 2
      BY <2>1
    <3>2. CASE 3 <= Len(s)
      BY <2>2, <3>1, <3>2
    <3>3. CASE ~(3 <= Len(s))
      <4>1. Len(t) = 0
        BY <2>2, <3>3
      <4>2. Len(s) = 2
        <5>1. \A n \in Nat : n >= 2 /\ ~(3 <= n) => n = 2
          OBVIOUS
        <5>. QED BY <3>1, <3>3, <5>1, Zenon
      <4>. QED BY <4>1, <4>2
    <3>. QED BY <3>2, <3>3
  <2>4. ASSUME NEW i \in 1 .. Len(s) - 2 PROVE t[i] = s[i + 2]
    <3>1. i \in 1 .. Len(s) - 3 + 1 /\ 3 + i - 1 = i + 2
      BY <2>1
    <3>. QED BY <2>2, <3>1
  <2>. QED BY <2>2, <2>3, <2>4
<1>2. <<f>> \in Seq(S) /\ Len(<<f>>) = 1 /\ <<f>>[1] = f
  OBVIOUS
<1>. HIDE DEF t
<1>3. LET r == <<f>> \o t IN
         /\ r \in Seq(S) /\ Len(r) = Len(s) - 1
         /\ \A i \in 1 .. Len(s) - 1 : r[i] = IF i = 1 THEN f ELSE t[i - 1]
  BY <1>1, <1>2, ConcatProperties
<1>. QED BY <1>1, <1>3 DEF t

(* The three ways in which the stack changes keep its shape.               *)
LEMMA ReplaceOK ==
  ASSUME NEW P, NEW X, NEW s, StackOK(P, X, s), s # <<>>, NEW f, FrameOK(P, f),
         FrameBelow(P, X, f),
         f.dpm = s[1].dpm, f.phase = "query" <=> s[1].phase = "query"
  PROVE  StackOK(P, X, <<f>> \o Tail(s))
<1>1. s \in Seq(Frame) /\ f \in Frame /\ Len(s) \in Nat
  BY DEF StackOK, FrameOK
<1>2. PICK r : r = <<f>> \o Tail(s)
  OBVIOUS
<1>3. /\ r \in Seq(Frame) /\ Len(r) = Len(s)
      /\ \A i \in 1 .. Len(s) : r[i] = IF i = 1 THEN f ELSE s[i]
  BY <1>1, <1>2, ReplaceSeq
<1>4. \A i \in 1 .. Len(r) : FrameOK(P, r[i]) /\ FrameBelow(P, X, r[i]) /\ (r[i].phase = "query" <=> i = Len(r))
  BY <1>1, <1>3 DEF StackOK
<1>5. \A i \in 1 .. Len(r) - 1 : r[i].dpm \in r[i + 1].todo
  <2>. SUFFICES ASSUME NEW i \in 1 .. Len(s) - 1 PROVE r[i].dpm \in r[i + 1].todo
    BY <1>3
  <2>1. r[i].dpm = s[i].dpm /\ r[i + 1] = s[i + 1]
    BY <1>1, <1>3
  <2>. QED BY <2>1 DEF StackOK
<1>. QED BY <1>2, <1>3, <1>4, <1>5 DEF StackOK

LEMMA PushOK ==
  ASSUME NEW P, NEW X, NEW s, StackOK(P, X, s), s # <<>>, NEW f, FrameOK(P, f),
         FrameBelow(P, X, f),
         f.dpm \in s[1].todo, f.phase # "query"
  PROVE  StackOK(P, X, <<f>> \o s)
<1>1. s \in Seq(Frame) /\ f \in Frame /\ Len(s) \in Nat /\ Len(s) >= 1
  BY EmptySeq DEF StackOK, FrameOK
<1>2. PICK r : r = <<f>> \o s
  OBVIOUS
<1>3. /\ r \in Seq(Frame) /\ Len(r) = Len(s) + 1
      /\ \A i \in 1 .. Len(s) + 1 : r[i] = IF i = 1 THEN f ELSE s[i - 1]
  BY <1>1, <1>2, PushSeq
<1>4. ASSUME NEW i \in 1 .. Len(r)
      PROVE  FrameOK(P, r[i]) /\ FrameBelow(P, X, r[i]) /\ (r[i].phase = "query" <=> i = Len(r))
  <2>1. CASE i = 1
    BY <1>1, <1>3, <2>1
  <2>2. CASE i # 1
    <3>1. i - 1 \in 1 .. Len(s) /\ r[i] = s[i - 1]
      BY <1>1, <1>3, <2>2
    <3>2. FrameOK(P, s[i - 1]) /\ FrameBelow(P, X, s[i - 1]) /\ (s[i - 1].phase = "query" <=> i - 1 = Len(s))
      BY <3>1 DEF StackOK
    <3>. QED BY <1>1, <1>3, <3>1, <3>2
  <2>. QED BY <2>1, <2>2
<1>5. ASSUME NEW i \in 1 .. Len(r) - 1 PROVE r[i].dpm \in r[i + 1].todo
  <2>1. CASE i = 1
    BY <1>1, <1>3, <2>1
  <2>2. CASE i # 1
    <3>1. i - 1 \in 1 .. Len(s) - 1 /\ r[i] = s[i - 1] /\ r[i + 1] = s[(i - 1) + 1]
      BY <1>1, <1>3, <2>2
    <3>. QED BY <3>1 DEF StackOK
  <2>. QED BY <2>1, <2>2
<1>. QED BY <1>2, <1>3, <1>4, <1>5 DEF StackOK

LEMMA ReturnOK ==
  ASSUME NEW P, NEW X, NEW s, StackOK(P, X, s), Len(s) >= 2, NEW f, FrameOK(P, f),
         FrameBelow(P, X, f),
         f.dpm = s[2].dpm, f.phase = s[2].phase
  PROVE  StackOK(P, X, <<f>> \o SubSeq(s, 3, Len(s)))
<1>1. s \in Seq(Frame) /\ f \in Frame /\ Len(s) \in Nat
  BY DEF StackOK, FrameOK
<1>2. PICK r : r = <<f>> \o SubSeq(s, 3, Len(s))
  OBVIOUS
<1>3. /\ r \in Seq(Frame) /\ Len(r) = Len(s) - 1
      /\ \A i \in 1 .. Len(s) - 1 : r[i] = IF i = 1 THEN f ELSE s[i + 1]
  BY <1>1, <1>2, ReturnSeq
<1>4. ASSUME NEW i \in 1 .. Len(r)
      PROVE  /\ FrameOK(P, r[i]) /\ FrameBelow(P, X, r[i]) /\ (r[i].phase = "query" <=> i = Len(r))
             /\ r[i].dpm = s[i + 1].dpm
  <2>1. i + 1 \in 1 .. Len(s)
    BY <1>1, <1>3
  <2>2. FrameOK(P, s[i + 1]) /\ FrameBelow(P, X, s[i + 1]) /\ (s[i + 1].phase = "query" <=> i + 1 = Len(s))
    BY <2>1 DEF StackOK
  <2>3. r[i].phase = s[i + 1].phase /\ r[i].dpm = s[i + 1].dpm
        /\ FrameOK(P, r[i]) /\ FrameBelow(P, X, r[i])
    BY <1>1, <1>3, <2>2
  <2>. QED BY <1>1, <1>3, <2>2, <2>3
<1>5. ASSUME NEW i \in 1 .. Len(r) - 1 PROVE r[i].dpm \in r[i + 1].todo
  <2>1. /\ i \in 1 .. Len(r) /\ i + 1 \in 1 .. Len(s) - 1 /\ i + 1 # 1
        /\ r[i + 1] = s[(i + 1) + 1]
    BY <1>1, <1>3
  <2>2. s[i + 1].dpm \in s[(i + 1) + 1].todo
    BY <2>1 DEF StackOK
  <2>. QED BY <1>4, <2>1, <2>2
<1>. QED BY <1>2, <1>3, <1>4, <1>5 DEF StackOK

-----------------------------------------------------------------------------
LEMMA ProgramTypes ==
  /\ NoLoc \notin Loc /\ FieldAt \in [Obj \X Offset -> Obj] /\ Singular \subseteq Obj
  /\ \A P \in Programs : /\ P.nodes \subseteq Loc /\ P.stmt \in [Loc -> Stmt]
                         /\ P.direct \subseteq Loc \X Loc /\ P.indirect \subseteq Loc \X Loc \X Obj
                         /\ P.calls \subseteq Call /\ P.ander \in [Var -> SUBSET Obj]
BY ValueFlowAssumption DEF Program

LEMMA StmtTypes ==
  ASSUME TypeOK, NEW l \in svfg.nodes
  PROVE  /\ l \in Loc /\ Op(l) \in Kind /\ Lhs(l) \in Var /\ svfg.stmt[l].rhs \subseteq Var
         /\ svfg.stmt[l].obj \in Obj /\ svfg.stmt[l].off \in Offset
<1>1. l \in Loc /\ svfg.stmt[l] \in Stmt
  BY ProgramTypes DEF TypeOK
<1>. QED BY <1>1 DEF Op, Lhs, Stmt

LEMMA EdgeTypes ==
  ASSUME TypeOK
  PROVE  /\ \A e \in Direct : /\ e \in Loc \X Loc /\ e[1] \in svfg.nodes /\ e[2] \in svfg.nodes
         /\ \A e \in Indirect : /\ e \in Loc \X Loc \X Obj
                                /\ e[1] \in svfg.nodes /\ e[2] \in svfg.nodes
                                /\ Op(e[1]) \in {"store", "mem"}
<1>1. svfg \in Programs /\ callgraph \subseteq svfg.calls
  BY DEF TypeOK
<1>2. \A c \in callgraph : c.direct \subseteq Loc \X Loc /\ c.indirect \subseteq Loc \X Loc \X Obj
  BY <1>1, ProgramTypes DEF Call
<1>3. Direct \subseteq svfg.direct \cup UNION {c.direct : c \in svfg.calls}
  BY <1>1 DEF Direct, DirectEdges
<1>4. Indirect \subseteq svfg.indirect \cup UNION {c.indirect : c \in svfg.calls}
  BY <1>1 DEF Indirect, IndirectEdges
<1>5. ASSUME NEW e \in Direct
      PROVE  e \in Loc \X Loc /\ e[1] \in svfg.nodes /\ e[2] \in svfg.nodes
  BY <1>1, <1>2, <1>3, ProgramTypes, ValueFlowAssumption DEF Direct, DirectEdges
<1>6. ASSUME NEW e \in Indirect
      PROVE  /\ e \in Loc \X Loc \X Obj /\ e[1] \in svfg.nodes /\ e[2] \in svfg.nodes
             /\ Op(e[1]) \in {"store", "mem"}
  BY <1>1, <1>2, <1>4, ProgramTypes, ValueFlowAssumption DEF Indirect, IndirectEdges, Op
<1>. QED BY <1>5, <1>6

(* A solution with at least these call targets has at least these edges,   *)
(* and updates strongly only where fewer targets would.                    *)
LEMMA EdgesMonotone ==
  ASSUME NEW X, callgraph \subseteq X.calls
  PROVE  /\ Direct \subseteq DirectEdges(svfg, X.calls)
         /\ Indirect \subseteq IndirectEdges(svfg, X.calls)
         /\ \A n : Operands(svfg, callgraph, n) \subseteq Operands(svfg, X.calls, n)
BY DEF Direct, Indirect, DirectEdges, IndirectEdges, Operands

LEMMA CalleesMonotone ==
  ASSUME NEW E, NEW F, E \subseteq F, NEW f
  PROVE  Callees(E, f) \subseteq Callees(F, f)
<1>. SUFFICES ASSUME NEW g \in Callees(E, f), NEW S \in SUBSET Fun,
                     \A e \in F : e[1] \in S \cup {f} => e[2] \in S
              PROVE  g \in S
  BY DEF Callees
<1>. QED BY DEF Callees

LEMMA StrongMonotone ==
  ASSUME NEW P, NEW C, NEW D, C \subseteq D, NEW T, Strong(P, D, T)
  PROVE  Strong(P, C, T)
<1>1. PICK o \in Singular : T = {o} /\ ~LocalInRecursion(P, D, o)
  BY DEF Strong
<1>2. CallEdges(C) \subseteq CallEdges(D)
  BY DEF CallEdges
<1>3. \A f : Callees(CallEdges(C), f) \subseteq Callees(CallEdges(D), f)
  BY <1>2, CalleesMonotone
<1>. QED BY <1>1, <1>3 DEF Strong, LocalInRecursion

-----------------------------------------------------------------------------
(* What a query depends on is well formed, and bounded by the solution.    *)
LEMMA DefFormed ==
  ASSUME TypeOK, NEW X, NEW x, \E l \in svfg.nodes : Op(l) \in Defining /\ Lhs(l) = x
  PROVE  /\ Formed(svfg, DefDpm(x)) /\ Value(svfg, X, DefDpm(x)) = X.pts[x]
         /\ DefDpm(x)[2] = x /\ x \in Var
<1>1. DefOf(x) \in svfg.nodes /\ Op(DefOf(x)) \in Defining /\ Lhs(DefOf(x)) = x
  BY DEF DefOf, Defining
<1>2. DefOf(x) \in Loc /\ x \in Var
  BY <1>1, StmtTypes
<1>. QED BY <1>1, <1>2 DEF DefDpm, Formed, Value, Op, Lhs, Defining, Dpm

LEMMA AskedDefined ==
  ASSUME TypeOK
  PROVE  /\ \A c \in svfg.calls : \E l \in svfg.nodes : Op(l) \in Defining /\ Lhs(l) = c.fp
         /\ \A m \in svfg.nodes :
              /\ \A x \in svfg.stmt[m].rhs : \E l \in svfg.nodes : Op(l) \in Defining /\ Lhs(l) = x
              /\ Op(m) = "store" => \E l \in svfg.nodes : Op(l) \in Defining /\ Lhs(l) = Lhs(m)
<1>. DEFINE stores == {l \in svfg.nodes : svfg.stmt[l].op = "store"}
            pointers == {svfg.stmt[l].lhs : l \in stores}
            asked == {c.fp : c \in svfg.calls} \cup (UNION {svfg.stmt[l].rhs : l \in svfg.nodes})
                       \cup pointers
<1>1. svfg \in Programs
  BY DEF TypeOK
<1>2. \A x \in asked : \E l \in svfg.nodes : Op(l) \in Defining /\ Lhs(l) = x
  BY <1>1, DefinitionsAssumption DEF Op, Lhs, Defining
<1>3. \A c \in svfg.calls : c.fp \in asked
  OBVIOUS
<1>4. \A m \in svfg.nodes : svfg.stmt[m].rhs \subseteq asked
  OBVIOUS
<1>5. ASSUME NEW m \in svfg.nodes, Op(m) = "store"
      PROVE  Lhs(m) \in asked
  <2>1. m \in stores
    BY <1>5 DEF Op
  <2>2. svfg.stmt[m].lhs \in pointers
    <3>. HIDE DEF stores
    <3>. QED BY <2>1
  <2>. HIDE DEF pointers
  <2>. QED BY <2>2 DEF Lhs
<1>. QED BY <1>2, <1>3, <1>4, <1>5

LEMMA FunPtrsFormed ==
  ASSUME TypeOK, NEW l, NEW t \in FunPtrs(l)
  PROVE  Formed(svfg, t)
BY AskedDefined, DefFormed DEF FunPtrs

LEMMA PointerBelow ==
  ASSUME TypeOK, NEW X, NEW l \in svfg.nodes, Op(l) \in {"load", "store"}, NEW t \in PointerOf(l)
  PROVE  Formed(svfg, t) /\ Value(svfg, X, t) \subseteq PointerValue(svfg, X, l)
<1>1. CASE Op(l) = "store"
  BY <1>1, AskedDefined, DefFormed DEF PointerOf, PointerValue, Op, Lhs
<1>2. CASE Op(l) = "load"
  <2>1. PICK x \in svfg.stmt[l].rhs : t = DefDpm(x)
    BY <1>2 DEF PointerOf
  <2>2. x \in Operands(svfg, X.calls, l)
    BY DEF Operands
  <2>. QED BY <1>2, <2>1, <2>2, AskedDefined, DefFormed DEF PointerValue, FlowUsed, Op
<1>. QED BY <1>1, <1>2

LEMMA ValueOfBelow ==
  ASSUME TypeOK, NEW X, NEW l \in svfg.nodes, NEW t \in ValueOf(l)
  PROVE  Formed(svfg, t) /\ Value(svfg, X, t) \subseteq FlowUsed(svfg, X, l)
<1>1. PICK x \in svfg.stmt[l].rhs : t = DefDpm(x)
  BY DEF ValueOf
<1>2. x \in Operands(svfg, X.calls, l)
  BY DEF Operands
<1>. QED BY <1>1, <1>2, AskedDefined, DefFormed DEF FlowUsed

LEMMA ObjectBelow ==
  ASSUME TypeOK, NEW X, FlowSolution(svfg, X), CachesBelow(X),
         NEW l \in svfg.nodes, NEW S, NEW t \in ObjectSources(l, S)
  PROVE  /\ Formed(svfg, t) /\ t[2] \in S \ NonPointer
         /\ Value(svfg, X, t) \subseteq X.in[l][t[2]]
<1>1. PICK e \in Indirect : e[2] = l /\ e[3] \in S \ NonPointer /\ t = <<e[1], e[3]>>
  BY DEF ObjectSources
<1>2. /\ e[1] \in svfg.nodes /\ e[1] \in Loc /\ e[3] \in Obj /\ Op(e[1]) \in {"store", "mem"}
  BY EdgeTypes
<1>3. e \in IndirectEdges(svfg, X.calls)
  BY EdgesMonotone DEF CachesBelow
<1>4. FlowValue(svfg, X, e[1], e[3]) \subseteq X.in[l][e[3]]
  BY <1>1, <1>3 DEF FlowSolution
<1>. QED BY <1>1, <1>2, <1>4 DEF Formed, Value, Dpm, Op

LEMMA DirectBelow ==
  ASSUME TypeOK, NEW X, FlowSolution(svfg, X), CachesBelow(X),
         NEW d, Formed(svfg, d), Op(d[1]) \in {"phi", "gep", "actual", "formal"},
         NEW t \in DirectSources(d[1])
  PROVE  Formed(svfg, t) /\ Value(svfg, X, t) \subseteq Made(svfg, X, d)
<1>1. PICK e \in Direct : e[2] = d[1] /\ t = <<e[1], Lhs(e[1])>>
  BY DEF DirectSources
<1>2. /\ e[1] \in svfg.nodes /\ e[1] \in Loc /\ Lhs(e[1]) \in Var
      /\ d[1] \in svfg.nodes /\ d[2] = Lhs(d[1])
  BY <1>1, EdgeTypes, StmtTypes DEF Formed, Op, Lhs
<1>3. svfg \in Programs /\ callgraph \in SUBSET svfg.calls
  BY DEF TypeOK
<1>4. /\ Op(e[1]) \notin {"store", "mem"}
      /\ Op(d[1]) \in {"phi", "gep"} => Lhs(e[1]) \in Operands(svfg, callgraph, d[1])
      /\ Op(d[1]) = "actual" => Lhs(e[1]) = Lhs(d[1])
      /\ Op(d[1]) = "formal" => Op(e[1]) = "actual"
  BY <1>1, <1>3, DefinitionsAssumption DEF Direct, Op, Lhs
<1>5. e \in DirectEdges(svfg, X.calls)
      /\ Operands(svfg, callgraph, d[1]) \subseteq Operands(svfg, X.calls, d[1])
  BY EdgesMonotone DEF CachesBelow
<1>6. Formed(svfg, t) /\ Value(svfg, X, t) = X.pts[Lhs(e[1])]
  BY <1>1, <1>2, <1>4 DEF Formed, Value, Dpm, Op, Lhs
<1>7. Op(d[1]) \in {"phi", "gep"} => X.pts[Lhs(e[1])] \subseteq FlowUsed(svfg, X, d[1])
  BY <1>4, <1>5 DEF FlowUsed
<1>8. Op(d[1]) = "phi" => FlowUsed(svfg, X, d[1]) \subseteq X.pts[d[2]]
  BY <1>2 DEF FlowSolution, FlowDefined, Op, Lhs
<1>9. Op(d[1]) = "formal" => X.pts[Lhs(e[1])] \subseteq X.pts[d[2]]
  BY <1>1, <1>2, <1>4, <1>5 DEF FlowSolution, Op, Lhs
<1>. QED BY <1>2, <1>4, <1>6, <1>7, <1>8, <1>9 DEF Made, Value, Op

(* What remains to be found once the pointer is known: below what d is     *)
(* made of, if the set of the pointer is.  For a store, the case in which  *)
(* the pointer points to d's object alone is apart (PassedOver).           *)
LEMMA SourcesBelow ==
  ASSUME TypeOK, NEW X, FlowSolution(svfg, X), CachesBelow(X), NEW d, Formed(svfg, d),
         NEW S, Op(d[1]) \in {"load", "store"} => S \subseteq PointerValue(svfg, X, d[1]),
         Op(d[1]) = "store" => S # {d[2]}, NEW t \in Sources(d, S)
  PROVE  Formed(svfg, t) /\ Value(svfg, X, t) \subseteq Made(svfg, X, d)
<1>. DEFINE l == d[1]
<1>1. l \in svfg.nodes /\ Op(l) \in Kind
  BY StmtTypes DEF Formed
<1>2. CASE Op(l) = "load"
  <2>1. t \in ObjectSources(l, S) /\ d[2] = Lhs(l)
    BY <1>2 DEF Sources, Formed, Op, Lhs
  <2>2. Formed(svfg, t) /\ t[2] \in S \ NonPointer /\ Value(svfg, X, t) \subseteq X.in[l][t[2]]
    BY <1>1, <2>1, ObjectBelow
  <2>3. t[2] \in FlowUsed(svfg, X, l) \ NonPointer
    BY <1>2, <2>2 DEF PointerValue, Op
  <2>4. X.in[l][t[2]] \subseteq FlowDefined(svfg, X, l)
    BY <1>2, <2>3 DEF FlowDefined, Op
  <2>5. FlowDefined(svfg, X, l) \subseteq X.pts[d[2]]
    BY <1>1, <2>1 DEF FlowSolution, Lhs
  <2>6. Made(svfg, X, d) = X.pts[d[2]]
    BY <1>2 DEF Made, Value, Op
  <2>. QED BY <2>2, <2>4, <2>5, <2>6
<1>3. CASE Op(l) = "mem"
  <2>1. t \in ObjectSources(l, {d[2]})
    BY <1>3 DEF Sources
  <2>2. Formed(svfg, t) /\ t[2] = d[2] /\ Value(svfg, X, t) \subseteq X.in[l][t[2]]
    BY <1>1, <2>1, ObjectBelow
  <2>3. Made(svfg, X, d) = X.in[l][d[2]]
    BY <1>3 DEF Made, Value, FlowValue, Op
  <2>. QED BY <2>2, <2>3
<1>4. CASE Op(l) = "store"
  <2>1. /\ d[2] \in Obj \ NonPointer /\ Made(svfg, X, d) = X.out[l][d[2]]
        /\ PointerValue(svfg, X, l) = X.pts[Lhs(l)]
    BY <1>4 DEF Formed, Made, Value, FlowValue, PointerValue, Op, Lhs
  <2>2. S # {} => FlowStored(svfg, X, l, d[2]) \subseteq X.out[l][d[2]]
    BY <1>1, <1>4, <2>1 DEF FlowSolution, Op, Lhs
  <2>3. CASE d[2] \in S /\ t \in ValueOf(l)
    <3>1. FlowUsed(svfg, X, l) \subseteq FlowStored(svfg, X, l, d[2])
      BY <1>4, <2>1, <2>3 DEF FlowStored, Lhs
    <3>. QED BY <1>1, <2>1, <2>2, <2>3, <3>1, ValueOfBelow
  <2>4. CASE S # {} /\ t \in ObjectSources(l, {d[2]})
    <3>1. Formed(svfg, t) /\ t[2] = d[2] /\ Value(svfg, X, t) \subseteq X.in[l][t[2]]
      BY <1>1, <2>4, ObjectBelow
    <3>2. d[2] \notin FlowOverwritten(svfg, X, l)
      BY <1>4, <2>1, <2>4 DEF FlowOverwritten, Strong, Lhs
    <3>3. X.in[l][d[2]] \subseteq FlowStored(svfg, X, l, d[2])
      BY <3>2 DEF FlowStored
    <3>. QED BY <2>1, <2>2, <2>4, <3>1, <3>3
  <2>. QED BY <1>4, <2>3, <2>4 DEF Sources
<1>5. CASE Op(l) = "addr"
  BY <1>5 DEF Sources
<1>6. CASE Op(l) \in {"phi", "gep", "actual", "formal"}
  BY <1>6, DirectBelow DEF Sources
<1>. QED BY <1>1, <1>2, <1>3, <1>4, <1>5, <1>6 DEF Kind

(* A store to d's object alone is made of its value and what it does not   *)
(* overwrite.                                                              *)
LEMMA StoreBelow ==
  ASSUME TypeOK, NEW X, FlowSolution(svfg, X), CachesBelow(X), NEW d, Formed(svfg, d),
         Op(d[1]) = "store", d[2] \in PointerValue(svfg, X, d[1]),
         NEW t \in ValueOf(d[1]) \cup PassedOver(d, {d[2]})
  PROVE  Formed(svfg, t) /\ Value(svfg, X, t) \subseteq Made(svfg, X, d)
<1>. DEFINE l == d[1]
<1>1. /\ l \in svfg.nodes /\ d[2] \in Obj \ NonPointer /\ Made(svfg, X, d) = X.out[l][d[2]]
      /\ PointerValue(svfg, X, l) = X.pts[Lhs(l)]
  BY DEF Formed, Made, Value, FlowValue, PointerValue, Op, Lhs
<1>2. FlowStored(svfg, X, l, d[2]) \subseteq X.out[l][d[2]]
  BY <1>1 DEF FlowSolution, Op, Lhs
<1>3. CASE t \in ValueOf(l)
  <2>1. FlowUsed(svfg, X, l) \subseteq FlowStored(svfg, X, l, d[2])
    BY <1>1 DEF FlowStored, Lhs
  <2>. QED BY <1>1, <1>2, <1>3, <2>1, ValueOfBelow
<1>4. CASE t \in PassedOver(d, {d[2]})
  <2>1. ~Strong(svfg, callgraph, {d[2]}) /\ t \in ObjectSources(l, {d[2]})
    BY <1>4 DEF PassedOver
  <2>2. Formed(svfg, t) /\ t[2] = d[2] /\ Value(svfg, X, t) \subseteq X.in[l][t[2]]
    BY <1>1, <2>1, ObjectBelow
  <2>3. ~Strong(svfg, X.calls, {d[2]})
    BY <2>1, StrongMonotone DEF CachesBelow
  <2>4. d[2] \notin FlowOverwritten(svfg, X, l)
    <3>. SUFFICES ASSUME Strong(svfg, X.calls, X.pts[Lhs(l)]), d[2] \in X.pts[Lhs(l)] PROVE FALSE
      BY DEF FlowOverwritten, Lhs
    <3>1. X.pts[Lhs(l)] = {d[2]}
      BY DEF Strong
    <3>. QED BY <2>3, <3>1
  <2>5. X.in[l][d[2]] \subseteq FlowStored(svfg, X, l, d[2])
    BY <2>4 DEF FlowStored
  <2>. QED BY <1>1, <1>2, <2>2, <2>5
<1>. QED BY <1>3, <1>4

(* What is made of bounded sources is bounded, and a set of objects.       *)
LEMMA ResultBelow ==
  ASSUME TypeOK, NEW X, FlowSolution(svfg, X), NEW d, Formed(svfg, d),
         NEW S \in SUBSET Obj, S \subseteq Made(svfg, X, d)
  PROVE  Result(d, S) \subseteq Value(svfg, X, d) \cap Obj
<1>. DEFINE l == d[1]
<1>1. l \in svfg.nodes /\ svfg.stmt[l].obj \in Obj /\ svfg.stmt[l].off \in Offset
  BY StmtTypes DEF Formed
<1>2. CASE Op(l) \in {"addr", "gep"}
  <2>1. d[2] = svfg.stmt[l].lhs /\ Value(svfg, X, d) = X.pts[svfg.stmt[l].lhs]
    BY <1>2 DEF Formed, Value, Op
  <2>2. FlowDefined(svfg, X, l) \subseteq X.pts[svfg.stmt[l].lhs]
    BY <1>1 DEF FlowSolution
  <2>3. Result(d, S) \subseteq FlowDefined(svfg, X, l)
    BY <1>2 DEF Result, FlowDefined, Made, Op
  <2>4. Result(d, S) \subseteq Obj
    BY <1>1, <1>2, ProgramTypes DEF Result
  <2>. QED BY <2>1, <2>2, <2>3, <2>4
<1>3. CASE Op(l) \notin {"addr", "gep"}
  BY <1>3 DEF Result, Made, Op
<1>. QED BY <1>2, <1>3

LEMMA CachedBelow ==
  ASSUME TypeOK, NEW X, CachesBelow(X), NEW d, Formed(svfg, d)
  PROVE  Cached(d) \subseteq Value(svfg, X, d) \cap Obj
<1>1. d[1] \in svfg.nodes /\ d \in Loc \X (Var \cup Obj)
  BY DEF Formed, Dpm
<1>2. CASE IsTopLevel(d[1])
  <2>1. d[2] = Lhs(d[1]) /\ Lhs(d[1]) \in Var
    BY <1>1, <1>2, StmtTypes DEF Formed, IsTopLevel, Op, Lhs
  <2>. QED BY <1>2, <2>1 DEF Cached, CachesBelow, Value, IsTopLevel, Op, TypeOK
<1>3. CASE ~IsTopLevel(d[1])
  <2>1. d[2] \in Obj /\ d = <<d[1], d[2]>> /\ d \in Loc \X Obj
    BY <1>1, <1>3 DEF Formed, IsTopLevel, Op
  <2>2. adPts[d] \subseteq FlowValue(svfg, X, d[1], d[2])
    BY <1>1, <1>3, <2>1 DEF CachesBelow, IsTopLevel
  <2>. QED BY <1>3, <2>1, <2>2 DEF Cached, Value, IsTopLevel, Op, TypeOK
<1>. QED BY <1>2, <1>3

-----------------------------------------------------------------------------
(* The actions.  Each keeps every frame, and the caches, within X.         *)
LEMMA ReceivedOK ==
  ASSUME NEW P, NEW X, NEW f, FrameOK(P, f), FrameBelow(P, X, f), NEW d \in f.todo,
         NEW S, S \subseteq Value(P, X, d) \cap Obj
  PROVE  LET g == Received(f, d, S)
         IN  FrameOK(P, g) /\ FrameBelow(P, X, g) /\ g.dpm = f.dpm /\ g.phase = f.phase
<1>. DEFINE g == Received(f, d, S)
<1>1. f \in Frame
  BY DEF FrameOK
<1>2. /\ g \in Frame /\ g.dpm = f.dpm /\ g.phase = f.phase /\ g.edges = f.edges
      /\ g.todo = f.todo \ {d}
      /\ g.ptrs = IF f.phase = "pointer" THEN f.ptrs \cup S ELSE f.ptrs
      /\ g.acc = IF f.phase \in {"value", "sources"} THEN f.acc \cup S ELSE f.acc
  BY <1>1 DEF Received, Frame
<1>. HIDE DEF g
<1>3. FrameOK(P, g)
  BY <1>2 DEF FrameOK, Recomputing
<1>4. FrameBelow(P, X, g)
  <2>. SUFFICES ASSUME f.phase # "query" PROVE FrameBelow(P, X, g)
    BY <1>2 DEF FrameBelow
  <2>1. g.acc \subseteq Made(P, X, f.dpm)
    BY <1>2 DEF FrameBelow
  <2>2. g.ptrs \subseteq PointerValue(P, X, f.dpm[1])
    BY <1>2 DEF FrameBelow
  <2>. QED BY <1>2, <2>1, <2>2 DEF FrameBelow
<1>. QED BY <1>2, <1>3, <1>4 DEF g

LEMMA StackTop ==
  ASSUME NEW P, NEW X, StackOK(P, X, stack), stack # <<>>
  PROVE  /\ Top = stack[1] /\ FrameOK(P, Top) /\ FrameBelow(P, X, Top)
         /\ Len(stack) \in Nat /\ Len(stack) >= 1
         /\ Top.phase = "query" <=> Len(stack) = 1
<1>1. Len(stack) \in Nat /\ Len(stack) >= 1 /\ Top = stack[1]
  BY EmptySeq DEF StackOK, Top
<1>2. /\ FrameOK(P, stack[1]) /\ FrameBelow(P, X, stack[1])
      /\ stack[1].phase = "query" <=> 1 = Len(stack)
  <2>1. 1 \in 1 .. Len(stack)
    BY <1>1
  <2>. QED BY <2>1 DEF StackOK
<1>. QED BY <1>1, <1>2

(* Where the program and the caches stay as they are.                      *)
LEMMA CachesUnchanged ==
  ASSUME NEW X, CachesBelow(X), UNCHANGED <<svfg, callgraph, pts, adPts>>
  PROVE  CachesBelow(X)'
BY DEF CachesBelow, Op

LEMMA AskBelow ==
  ASSUME NEW X, Inv(X), NEW x \in Var, Ask(x)
  PROVE  Inv(X)'
<1>. DEFINE f == [dpm |-> <<NoLoc, x>>, phase |-> "query", todo |-> {DefDpm(x)},
                  edges |-> {}, ptrs |-> {}, acc |-> {}]
<1>1. TypeOK /\ Formed(svfg, DefDpm(x))
      /\ \E l \in svfg.nodes : Op(l) \in Defining /\ Lhs(l) = x
  <2>1. TypeOK
    BY DEF Inv
  <2>2. PICK l \in svfg.nodes : Op(l) \notin {"store", "mem", "actual"} /\ Lhs(l) = x
    BY DEF Ask
  <2>3. Op(l) \in Defining
    BY <2>1, <2>2, StmtTypes DEF Kind, Defining
  <2>. QED BY <2>1, <2>2, <2>3, DefFormed
<1>2. FrameOK(svfg, f) /\ FrameBelow(svfg, X, f)
  BY <1>1 DEF FrameOK, FrameBelow, Frame, Formed, Op, Lhs
<1>3. stack' = <<f>> /\ svfg' = svfg
  BY DEF Ask
<1>. HIDE DEF f
<1>4. f \in Frame /\ f.phase = "query"
  BY <1>2 DEF FrameOK, f
<1>5. StackOK(svfg, X, <<f>>)
  BY <1>2, <1>4 DEF StackOK
<1>6. TypeOK'
  <2>1. stack' \in Seq(Frame)'
    BY <1>3, <1>4 DEF Frame, Dpm
  <2>2. visited' \subseteq visited /\ traversed' = {} /\ oob' = FALSE /\ steps' = 0
    BY DEF Ask, Kept
  <2>3. UNCHANGED <<svfg, budget, callgraph, pts, adPts, oobDpms, answered>>
    BY DEF Ask
  <2>. QED BY <1>1, <2>1, <2>2, <2>3 DEF TypeOK, Dpm, Frame
<1>. QED BY <1>3, <1>5, <1>6, CachesUnchanged DEF Inv, Ask

(* A call that returns what is cached.                                     *)
LEMMA ReceiveStack ==
  ASSUME NEW X, Inv(X), NEW d \in Todo
  PROVE  StackOK(svfg, X, Replace(Received(Top, d, Cached(d)))) /\ Formed(svfg, d)
<1>1. /\ TypeOK /\ CachesBelow(X) /\ StackOK(svfg, X, stack) /\ stack # <<>> /\ d \in Top.todo
  BY DEF Inv, Todo
<1>2. FrameOK(svfg, Top) /\ FrameBelow(svfg, X, Top) /\ Top = stack[1]
  BY <1>1, StackTop
<1>3. Formed(svfg, d)
  BY <1>1, <1>2 DEF FrameOK
<1>4. Cached(d) \subseteq Value(svfg, X, d) \cap Obj
  BY <1>1, <1>3, CachedBelow
<1>5. PICK g : g = Received(Top, d, Cached(d))
  OBVIOUS
<1>6. FrameOK(svfg, g) /\ FrameBelow(svfg, X, g) /\ g.dpm = Top.dpm /\ g.phase = Top.phase
  BY <1>1, <1>2, <1>4, <1>5, ReceivedOK
<1>7. StackOK(svfg, X, <<g>> \o Tail(stack))
  BY <1>1, <1>2, <1>6, ReplaceOK
<1>. QED BY <1>3, <1>5, <1>7 DEF Replace

LEMMA UseCachedBelow ==
  ASSUME NEW X, Inv(X), NEW d \in Todo, UseCached(d)
  PROVE  Inv(X)'
<1>1. StackOK(svfg, X, stack')
  BY ReceiveStack DEF UseCached
<1>2. TypeOK'
  BY <1>1 DEF Inv, TypeOK, StackOK, UseCached
<1>. QED BY <1>1, <1>2, CachesUnchanged DEF Inv, UseCached

LEMMA EnterBelow ==
  ASSUME NEW X, Inv(X), NEW d \in Todo, Enter(d)
  PROVE  Inv(X)'
<1>1. TypeOK /\ Formed(svfg, d) /\ stack # <<>> /\ d \in Top.todo /\ StackOK(svfg, X, stack)
  BY ReceiveStack DEF Inv, Todo
<1>. DEFINE f == [dpm |-> d, phase |-> "funptr", todo |-> FunPtrs(d[1]),
                  edges |-> {}, ptrs |-> {}, acc |-> {}]
<1>2. FrameOK(svfg, f) /\ FrameBelow(svfg, X, f)
  <2>1. \A t \in FunPtrs(d[1]) : Formed(svfg, t)
    BY <1>1, FunPtrsFormed
  <2>2. f \in Frame
    BY <1>1, <2>1 DEF Frame, Formed
  <2>. QED BY <1>1, <2>1, <2>2 DEF FrameOK, FrameBelow
<1>3. StackOK(svfg, X, <<f>> \o stack)
  <2>1. f.dpm = d /\ f.phase = "funptr"
    OBVIOUS
  <2>2. Top = stack[1]
    BY <1>1, StackTop
  <2>. HIDE DEF f
  <2>. QED BY <1>1, <1>2, <2>1, <2>2, PushOK
<1>4. StackOK(svfg, X, stack')
  BY <1>3, ReceiveStack DEF Enter
<1>5. TypeOK'
  <2>1. steps' \in Nat /\ oob' \in BOOLEAN
    BY <1>1 DEF Enter, TypeOK
  <2>2. visited' = visited \cup {d} /\ traversed' = traversed \cup {d} /\ d \in Dpm
    BY <1>1 DEF Enter, Formed
  <2>3. UNCHANGED <<svfg, budget, callgraph, pts, adPts, oobDpms, answered>>
    BY DEF Enter
  <2>. QED BY <1>1, <1>4, <2>1, <2>2, <2>3 DEF TypeOK, StackOK, Dpm
<1>6. \A t \in traversed' : Formed(svfg, t)
  BY <1>1 DEF Enter, Inv
<1>7. UNCHANGED <<svfg, callgraph, pts, adPts>>
  BY DEF Enter
<1>. QED BY <1>4, <1>5, <1>6, <1>7, CachesUnchanged DEF Inv

(* The call under way goes on: its frame alone changes.                    *)
LEMMA GoesOn ==
  ASSUME NEW X, Inv(X), stack # <<>>, NEW f, stack' = Replace(f),
         FrameOK(svfg, f), FrameBelow(svfg, X, f), f.dpm = Top.dpm,
         f.phase = "query" <=> Top.phase = "query",
         UNCHANGED <<svfg, budget, visited, traversed, oob, oobDpms, steps, answered>>
  PROVE  /\ StackOK(svfg, X, stack)'
         /\ UNCHANGED <<callgraph, pts, adPts>> => Inv(X)'
<1>1. TypeOK /\ StackOK(svfg, X, stack) /\ CachesBelow(X) /\ \A t \in traversed : Formed(svfg, t)
  BY DEF Inv
<1>2. Top = stack[1]
  BY <1>1, StackTop
<1>3. StackOK(svfg, X, <<f>> \o Tail(stack))
  BY <1>1, <1>2, ReplaceOK
<1>4. StackOK(svfg, X, stack)'
  BY <1>3 DEF Replace
<1>5. ASSUME UNCHANGED <<callgraph, pts, adPts>> PROVE Inv(X)'
  <2>1. TypeOK'
    BY <1>1, <1>3, <1>5 DEF TypeOK, StackOK, Replace
  <2>2. CachesBelow(X)'
    BY <1>1, <1>5, CachesUnchanged
  <2>. QED BY <1>1, <1>4, <2>1, <2>2 DEF Inv
<1>. QED BY <1>4, <1>5

LEMMA ContinueBelow ==
  ASSUME NEW X, Inv(X), NEW phase \in {"pointer", "value", "sources"}, NEW todo,
         stack # <<>>, Top.phase \notin {"query", "calls", "outs"}, Continue(phase, todo),
         \A t \in todo : Formed(svfg, t),
         phase = "pointer" =>
           /\ Op(Top.dpm[1]) \in {"load", "store"}
           /\ \A t \in todo : Value(svfg, X, t) \subseteq PointerValue(svfg, X, Top.dpm[1]),
         phase # "pointer" => \A t \in todo : Value(svfg, X, t) \subseteq Made(svfg, X, Top.dpm),
         phase = "value" => Op(Top.dpm[1]) = "store" /\ Top.ptrs = {Top.dpm[2]}
  PROVE  Inv(X)'
<1>1. FrameOK(svfg, Top) /\ FrameBelow(svfg, X, Top)
  BY StackTop DEF Inv
<1>2. PICK f : f = [Top EXCEPT !.phase = phase, !.todo = todo]
  OBVIOUS
<1>3. /\ f \in Frame /\ f.dpm = Top.dpm /\ f.phase = phase /\ f.todo = todo
      /\ f.ptrs = Top.ptrs /\ f.acc = Top.acc /\ f.edges = Top.edges
  <2>1. todo \subseteq Dpm
    BY DEF Formed
  <2>. QED BY <1>1, <1>2, <2>1 DEF FrameOK, Frame
<1>4. FrameOK(svfg, f) /\ FrameBelow(svfg, X, f)
  BY <1>1, <1>3 DEF FrameOK, FrameBelow, Recomputing, Op
<1>5. /\ stack' = Replace(f)
      /\ UNCHANGED <<svfg, budget, visited, traversed, oob, oobDpms, steps, answered>>
      /\ UNCHANGED <<callgraph, pts, adPts>>
  BY <1>2 DEF Continue
<1>. QED BY <1>3, <1>4, <1>5, GoesOn

LEMMA FunPtrsResolvedBelow ==
  ASSUME NEW X, FlowSolution(svfg, X), Inv(X), FunPtrsResolved
  PROVE  Inv(X)'
<1>1. stack # <<>> /\ Top.phase = "funptr" /\ TypeOK /\ CachesBelow(X)
  BY DEF Inv, FunPtrsResolved, Within
<1>2. Formed(svfg, Top.dpm)
  BY <1>1, StackTop DEF Inv, FrameOK
<1>3. Top.dpm[1] \in svfg.nodes
  BY <1>2 DEF Formed
<1>4. CASE Op(Top.dpm[1]) \in {"load", "store"}
  <2>1. Continue("pointer", PointerOf(Top.dpm[1]))
    BY <1>4 DEF FunPtrsResolved
  <2>2. \A t \in PointerOf(Top.dpm[1]) :
          Formed(svfg, t) /\ Value(svfg, X, t) \subseteq PointerValue(svfg, X, Top.dpm[1])
    BY <1>1, <1>3, <1>4, PointerBelow
  <2>. QED BY <1>1, <1>4, <2>1, <2>2, ContinueBelow
<1>5. CASE Op(Top.dpm[1]) \notin {"load", "store"}
  <2>1. Continue("sources", Sources(Top.dpm, {}))
    BY <1>5 DEF FunPtrsResolved
  <2>2. \A t \in Sources(Top.dpm, {}) :
          Formed(svfg, t) /\ Value(svfg, X, t) \subseteq Made(svfg, X, Top.dpm)
    BY <1>1, <1>2, <1>5, SourcesBelow
  <2>. QED BY <1>1, <2>1, <2>2, ContinueBelow
<1>. QED BY <1>4, <1>5

LEMMA PointerFoundBelow ==
  ASSUME NEW X, FlowSolution(svfg, X), Inv(X), PointerFound
  PROVE  Inv(X)'
<1>1. stack # <<>> /\ Top.phase = "pointer" /\ TypeOK /\ CachesBelow(X)
  BY DEF Inv, PointerFound, Within
<1>2. /\ Formed(svfg, Top.dpm) /\ Top.dpm[1] \in svfg.nodes
      /\ Top.ptrs \subseteq PointerValue(svfg, X, Top.dpm[1])
  BY <1>1, StackTop DEF Inv, FrameOK, FrameBelow, Formed
<1>3. CASE Op(Top.dpm[1]) = "store" /\ Top.ptrs = {Top.dpm[2]}
  <2>1. Continue("value", ValueOf(Top.dpm[1]))
    BY <1>3 DEF PointerFound
  <2>2. \A t \in ValueOf(Top.dpm[1]) :
          Formed(svfg, t) /\ Value(svfg, X, t) \subseteq Made(svfg, X, Top.dpm)
    BY <1>1, <1>2, <1>3, StoreBelow
  <2>. QED BY <1>1, <1>3, <2>1, <2>2, ContinueBelow
<1>4. CASE ~(Op(Top.dpm[1]) = "store" /\ Top.ptrs = {Top.dpm[2]})
  <2>1. Continue("sources", Sources(Top.dpm, Top.ptrs))
    BY <1>4 DEF PointerFound
  <2>2. \A t \in Sources(Top.dpm, Top.ptrs) :
          Formed(svfg, t) /\ Value(svfg, X, t) \subseteq Made(svfg, X, Top.dpm)
    BY <1>1, <1>2, <1>4, SourcesBelow
  <2>. QED BY <1>1, <2>1, <2>2, ContinueBelow
<1>. QED BY <1>3, <1>4

LEMMA ValueFoundBelow ==
  ASSUME NEW X, FlowSolution(svfg, X), Inv(X), ValueFound
  PROVE  Inv(X)'
<1>1. stack # <<>> /\ Top.phase = "value" /\ TypeOK /\ CachesBelow(X)
  BY DEF Inv, ValueFound, Within
<1>2. /\ Formed(svfg, Top.dpm) /\ Op(Top.dpm[1]) = "store" /\ Top.ptrs = {Top.dpm[2]}
      /\ Top.ptrs \subseteq PointerValue(svfg, X, Top.dpm[1])
  BY <1>1, StackTop DEF Inv, FrameOK, FrameBelow, Op
<1>3. Continue("sources", PassedOver(Top.dpm, {Top.dpm[2]}))
  BY <1>2 DEF ValueFound
<1>4. \A t \in PassedOver(Top.dpm, {Top.dpm[2]}) :
        Formed(svfg, t) /\ Value(svfg, X, t) \subseteq Made(svfg, X, Top.dpm)
  BY <1>1, <1>2, StoreBelow
<1>. QED BY <1>1, <1>3, <1>4, ContinueBelow

-----------------------------------------------------------------------------
(* updateCachedPointsTo and the iteration over the edges it affects.       *)
LEMMA CallsBelow ==
  ASSUME TypeOK, NEW X, FlowSolution(svfg, X), CachesBelow(X),
         NEW d, NEW S, d[2] \in Var, S \subseteq X.pts[d[2]]
  PROVE  callgraph \cup NewTargets(d, S) \subseteq X.calls \cap svfg.calls
BY DEF NewTargets, FlowSolution, CachesBelow, TypeOK

(* An object is nobody's function pointer.                                 *)
LEMMA ObjectCallsNothing ==
  ASSUME TypeOK, NEW d, d[2] \in Obj, NEW S
  PROVE  NewTargets(d, S) = {}
<1>1. \A c \in svfg.calls : c.fp \in Var
  BY ProgramTypes DEF TypeOK, Call
<1>. QED BY <1>1, DefinitionsAssumption DEF NewTargets

LEMMA EdgePairs == \A n \in Loc : \A b \in BOOLEAN : <<n, b>> \in Loc \X BOOLEAN
OBVIOUS

LEMMA UpdateBelow ==
  ASSUME NEW X, FlowSolution(svfg, X), Inv(X), Update
  PROVE  Inv(X)'
<1>. DEFINE d == Top.dpm
            grown == Cached(d) \cup Result(d, Top.acc)
            new == NewTargets(d, grown)
            reached == UNION {c.direct \cup c.indirect : c \in new}
            edges == {<<e[2], TRUE>> : e \in reached}
<1>1. /\ TypeOK /\ CachesBelow(X) /\ stack # <<>> /\ Top.phase = "sources" /\ Top.todo = {}
      /\ FrameOK(svfg, Top) /\ FrameBelow(svfg, X, Top)
  BY StackTop DEF Inv, Update, Within
<1>2. /\ AddToCache(d, Result(d, Top.acc)) /\ callgraph' = callgraph \cup new
      /\ stack' = Replace([Top EXCEPT !.phase = "calls", !.edges = edges])
      /\ UNCHANGED <<svfg, budget, visited, traversed, oob, oobDpms, steps, answered>>
  BY DEF Update
<1>3. Formed(svfg, d) /\ Top.acc \subseteq Made(svfg, X, d) /\ Top.acc \in SUBSET Obj
  BY <1>1 DEF FrameOK, FrameBelow, Frame
<1>4. /\ Result(d, Top.acc) \subseteq Value(svfg, X, d) \cap Obj
      /\ grown \subseteq Value(svfg, X, d) \cap Obj
  BY <1>1, <1>3, ResultBelow, CachedBelow
<1>5. callgraph \cup new \subseteq X.calls \cap svfg.calls
  <2>1. CASE IsTopLevel(d[1])
    <3>1. d[2] = Lhs(d[1]) /\ d[1] \in svfg.nodes /\ Value(svfg, X, d) = X.pts[d[2]]
      BY <1>3, <2>1 DEF Formed, Value, IsTopLevel, Op, Lhs
    <3>2. d[2] \in Var /\ grown \subseteq X.pts[d[2]]
      BY <1>1, <1>4, <3>1, StmtTypes
    <3>. HIDE DEF d, grown
    <3>. QED BY <1>1, <3>2, CallsBelow
  <2>2. CASE ~IsTopLevel(d[1])
    <3>1. d[2] \in Obj
      BY <1>3, <2>2 DEF Formed, IsTopLevel, Op
    <3>2. new = {}
      BY <1>1, <3>1, ObjectCallsNothing
    <3>. QED BY <1>1, <3>2 DEF CachesBelow, TypeOK
  <2>. QED BY <2>1, <2>2
<1>6. edges \subseteq Loc \X BOOLEAN
  <2>1. \A c \in new : c \in Call
    BY <1>1, <1>5, ProgramTypes DEF TypeOK
  <2>2. ASSUME NEW c \in new, NEW e \in c.direct \cup c.indirect PROVE e[2] \in Loc
    <3>1. c.direct \subseteq Loc \X Loc /\ c.indirect \subseteq Loc \X Loc \X Obj
      BY <2>1 DEF Call
    <3>. QED BY <3>1
  <2>3. \A e \in reached : e[2] \in Loc
    <3>. HIDE DEF new
    <3>. QED BY <2>2
  <2>. HIDE DEF reached
  <2>. QED BY <2>3, EdgePairs
<1>7. StackOK(svfg, X, stack)'
  <2>1. PICK f : f = [Top EXCEPT !.phase = "calls", !.edges = edges]
    OBVIOUS
  <2>. HIDE DEF edges
  <2>2. /\ f \in Frame /\ f.dpm = Top.dpm /\ f.phase = "calls" /\ f.todo = {}
        /\ f.ptrs = Top.ptrs /\ f.acc = Top.acc
    BY <1>1, <1>6, <2>1 DEF FrameOK, Frame
  <2>3. FrameOK(svfg, f) /\ FrameBelow(svfg, X, f)
    BY <1>1, <2>2 DEF FrameOK, FrameBelow, Recomputing
  <2>4. stack' = Replace(f)
    BY <1>2, <2>1
  <2>. QED BY <1>1, <1>2, <2>2, <2>3, <2>4, GoesOn
<1>. HIDE DEF grown, new, edges
<1>8. /\ pts' \in [Var -> SUBSET Obj] /\ adPts' \in [Loc \X Obj -> SUBSET Obj]
      /\ \A x \in Var : pts'[x] \subseteq X.pts[x]
      /\ \A l \in svfg.nodes : \A o \in Obj : Op(l) \in {"store", "mem"} =>
           adPts'[<<l, o>>] \subseteq FlowValue(svfg, X, l, o)
  <2>1. CASE IsTopLevel(d[1])
    <3>1. pts' = [pts EXCEPT ![d[2]] = @ \cup Result(d, Top.acc)] /\ adPts' = adPts
      BY <1>2, <2>1 DEF AddToCache
    <3>2. Value(svfg, X, d) = X.pts[d[2]]
      BY <2>1 DEF Value, IsTopLevel, Op
    <3>. QED BY <1>1, <1>4, <3>1, <3>2 DEF TypeOK, CachesBelow
  <2>2. CASE ~IsTopLevel(d[1])
    <3>1. adPts' = [adPts EXCEPT ![d] = @ \cup Result(d, Top.acc)] /\ pts' = pts
      BY <1>2, <2>2 DEF AddToCache
    <3>2. Value(svfg, X, d) = FlowValue(svfg, X, d[1], d[2])
      BY <2>2 DEF Value, IsTopLevel, Op
    <3>3. adPts' \in [Loc \X Obj -> SUBSET Obj]
      BY <1>1, <1>4, <3>1 DEF TypeOK
    <3>4. ASSUME NEW l \in svfg.nodes, NEW o \in Obj, Op(l) \in {"store", "mem"}
          PROVE  adPts'[<<l, o>>] \subseteq FlowValue(svfg, X, l, o)
      <4>1. <<l, o>> \in Loc \X Obj /\ adPts[<<l, o>>] \subseteq FlowValue(svfg, X, l, o)
        BY <1>1, <3>4, StmtTypes DEF CachesBelow
      <4>2. CASE d = <<l, o>>
        BY <1>1, <1>4, <3>1, <3>2, <4>1, <4>2 DEF TypeOK
      <4>3. CASE d # <<l, o>>
        BY <1>1, <3>1, <4>1, <4>3 DEF TypeOK
      <4>. QED BY <4>2, <4>3
    <3>. QED BY <1>1, <3>1, <3>3, <3>4 DEF TypeOK, CachesBelow
  <2>. QED BY <2>1, <2>2
<1>9. CachesBelow(X)'
  BY <1>2, <1>5, <1>8 DEF CachesBelow, Op
<1>10. TypeOK'
  BY <1>1, <1>2, <1>5, <1>7, <1>8 DEF TypeOK, StackOK
<1>. QED BY <1>2, <1>7, <1>9, <1>10 DEF Inv

(* An iteration over edges goes on with other edges, or what they affect.  *)
LEMMA ReiterateBelow ==
  ASSUME NEW X, Inv(X), stack # <<>>, Recomputing(Top),
         NEW phase \in {"calls", "outs"}, NEW edges \in SUBSET (Loc \X BOOLEAN),
         NEW todo, \A t \in todo : Formed(svfg, t),
         stack' = Replace([Top EXCEPT !.phase = phase, !.edges = edges, !.todo = todo]),
         UNCHANGED <<svfg, budget, callgraph, pts, adPts, visited, traversed, oob,
                     oobDpms, steps, answered>>
  PROVE  Inv(X)'
<1>1. FrameOK(svfg, Top) /\ FrameBelow(svfg, X, Top)
  BY StackTop DEF Inv
<1>2. PICK f : f = [Top EXCEPT !.phase = phase, !.edges = edges, !.todo = todo]
  OBVIOUS
<1>3. /\ f \in Frame /\ f.dpm = Top.dpm /\ f.phase = phase /\ f.todo = todo
      /\ f.ptrs = Top.ptrs /\ f.acc = Top.acc
  <2>1. todo \subseteq Dpm
    BY DEF Formed
  <2>. QED BY <1>1, <1>2, <2>1 DEF FrameOK, Frame
<1>4. FrameOK(svfg, f) /\ FrameBelow(svfg, X, f)
  BY <1>1, <1>3 DEF FrameOK, FrameBelow, Recomputing
<1>5. f.phase = "query" <=> Top.phase = "query"
  BY <1>3 DEF Recomputing
<1>. QED BY <1>2, <1>3, <1>4, <1>5, GoesOn

LEMMA NextEdgeBelow ==
  ASSUME NEW X, Inv(X), NextEdge
  PROVE  Inv(X)'
<1>1. stack # <<>> /\ FrameOK(svfg, Top)
  BY StackTop DEF Inv, NextEdge
<1>2. PICK e \in Top.edges :
        /\ stack' = Replace([Top EXCEPT !.edges = @ \ {e}, !.todo = Affected(Top.dpm, e)])
        /\ UNCHANGED <<svfg, budget, callgraph, pts, adPts, visited, traversed, oob,
                       oobDpms, steps, answered>>
  BY DEF NextEdge
<1>3. Recomputing(Top) /\ Top.edges \ {e} \in SUBSET (Loc \X BOOLEAN)
  BY <1>1 DEF FrameOK, Frame
<1>4. \A t \in Affected(Top.dpm, e) : Formed(svfg, t)
  BY DEF Affected, Inv
<1>5. [Top EXCEPT !.edges = @ \ {e}, !.todo = Affected(Top.dpm, e)]
        = [Top EXCEPT !.phase = Top.phase, !.edges = Top.edges \ {e}, !.todo = Affected(Top.dpm, e)]
  BY <1>1 DEF FrameOK, Frame
<1>6. Top.phase \in {"calls", "outs"}
  BY <1>3 DEF Recomputing
<1>. QED BY <1>1, <1>2, <1>3, <1>4, <1>5, <1>6, ReiterateBelow

LEMMA FollowBelow ==
  ASSUME NEW X, Inv(X), Follow
  PROVE  Inv(X)'
<1>1. /\ stack # <<>> /\ Top.phase = "calls" /\ Top.todo = {} /\ FrameOK(svfg, Top)
      /\ TypeOK
  BY StackTop DEF Inv, Follow, Within
<1>2. PICK edges : edges = OutEdges(Top.dpm[1])
  OBVIOUS
<1>3. edges \in SUBSET (Loc \X BOOLEAN)
  <2>. DEFINE l == Top.dpm[1]
              direct == {<<e[2], TRUE>> : e \in {e \in Direct : e[1] = l}}
              indirect == {<<e[2], Op(e[2]) = "load">> : e \in {e \in Indirect : e[1] = l}}
  <2>1. direct \subseteq Loc \X BOOLEAN
    BY <1>1, EdgeTypes, EdgePairs
  <2>2. indirect \subseteq Loc \X BOOLEAN
    <3>1. \A e \in Indirect : e[2] \in Loc /\ (Op(e[2]) = "load") \in BOOLEAN
      BY <1>1, EdgeTypes
    <3>. QED BY <3>1, EdgePairs
  <2>3. edges = direct \cup indirect
    BY <1>2 DEF OutEdges
  <2>. HIDE DEF direct, indirect
  <2>. QED BY <2>1, <2>2, <2>3
<1>4. [Top EXCEPT !.phase = "outs", !.edges = edges]
        = [Top EXCEPT !.phase = "outs", !.edges = edges, !.todo = {}]
  BY <1>1 DEF FrameOK, Frame
<1>5. /\ stack' = Replace([Top EXCEPT !.phase = "outs", !.edges = edges, !.todo = {}])
      /\ UNCHANGED <<svfg, budget, callgraph, pts, adPts, visited, traversed, oob,
                     oobDpms, steps, answered>>
  BY <1>2, <1>4 DEF Follow
<1>6. Recomputing(Top)
  BY <1>1 DEF Recomputing
<1>. QED BY <1>1, <1>3, <1>5, <1>6, ReiterateBelow

(* findPT() returns to its caller.                                         *)
LEMMA ReturnBelow ==
  ASSUME NEW X, Inv(X), Return
  PROVE  Inv(X)'
<1>1. /\ TypeOK /\ CachesBelow(X) /\ StackOK(svfg, X, stack) /\ stack # <<>>
      /\ Top.phase \in {"sources", "outs"}
      /\ \A t \in traversed : Formed(svfg, t)
  BY DEF Inv, Return, Unchanged, Recomputed, Within
<1>2. /\ Top = stack[1] /\ FrameOK(svfg, Top) /\ Len(stack) \in Nat /\ Len(stack) >= 2
  <2>1. /\ Top = stack[1] /\ FrameOK(svfg, Top) /\ Len(stack) \in Nat /\ Len(stack) >= 1
        /\ Top.phase = "query" <=> Len(stack) = 1
    BY <1>1, StackTop
  <2>2. Len(stack) # 1
    BY <1>1, <2>1
  <2>3. \A n \in Nat : n >= 1 /\ n # 1 => n >= 2
    OBVIOUS
  <2>. QED BY <2>1, <2>2, <2>3, Zenon
<1>3. 1 \in 1 .. Len(stack) - 1 /\ 2 \in 1 .. Len(stack) /\ 1 + 1 = 2
  BY <1>2
<1>4. Top.dpm \in stack[2].todo /\ FrameOK(svfg, stack[2]) /\ FrameBelow(svfg, X, stack[2])
  BY <1>1, <1>2, <1>3 DEF StackOK
<1>5. Formed(svfg, Top.dpm)
  BY <1>4 DEF FrameOK
<1>6. Cached(Top.dpm) \subseteq Value(svfg, X, Top.dpm) \cap Obj
  BY <1>1, <1>5, CachedBelow
<1>7. PICK g : g = Received(stack[2], Top.dpm, Cached(Top.dpm))
  OBVIOUS
<1>8. FrameOK(svfg, g) /\ FrameBelow(svfg, X, g) /\ g.dpm = stack[2].dpm /\ g.phase = stack[2].phase
  BY <1>4, <1>6, <1>7, ReceivedOK
<1>9. StackOK(svfg, X, <<g>> \o SubSeq(stack, 3, Len(stack)))
  BY <1>1, <1>2, <1>8, ReturnOK
<1>10. /\ stack' = <<g>> \o SubSeq(stack, 3, Len(stack))
       /\ UNCHANGED <<svfg, budget, callgraph, pts, adPts, visited, traversed, oob,
                      oobDpms, steps, answered>>
  BY <1>7 DEF Return
<1>11. StackOK(svfg, X, stack)'
  BY <1>9, <1>10
<1>12. TypeOK'
  BY <1>1, <1>10, <1>11 DEF TypeOK, StackOK
<1>. QED BY <1>1, <1>10, <1>11, <1>12, CachesUnchanged DEF Inv

(* The answer; over the budget, the caches take what the pre-analysis has. *)
LEMMA AnswerBelow ==
  ASSUME NEW X, FlowSolution(svfg, X), Inv(X), Answer,
         oob => \A x \in Var : svfg.ander[x] \subseteq X.pts[x]
  PROVE  Inv(X)'
<1>1. /\ TypeOK /\ CachesBelow(X) /\ stack # <<>> /\ Top.phase = "query"
      /\ FrameOK(svfg, Top) /\ \A t \in traversed : Formed(svfg, t)
  BY StackTop DEF Inv, Answer, Within
<1>2. PICK x : x = Top.dpm[2]
  OBVIOUS
<1>3. x \in Var /\ \E l \in svfg.nodes : Op(l) \in Defining /\ Lhs(l) = x
  BY <1>1, <1>2 DEF FrameOK, Op, Lhs
<1>4. DefDpm(x) \in Dpm
  BY <1>1, <1>3, DefFormed DEF Formed
<1>5. StackOK(svfg, X, <<>>)
  BY DEF StackOK
<1>6. /\ stack' = <<>> /\ answered' = answered \cup {x}
      /\ UNCHANGED <<svfg, budget, adPts, visited, traversed, oob, steps>>
  BY <1>2 DEF Answer
<1>7. stack' \in Seq(Frame)' /\ answered' \subseteq Var
  BY <1>1, <1>3, <1>6 DEF TypeOK
<1>8. CASE oob
  <2>1. /\ pts' = [pts EXCEPT ![x] = @ \cup svfg.ander[x]]
        /\ oobDpms' = oobDpms \cup {DefDpm(x)}
        /\ callgraph' \subseteq callgraph \cup NewTargets(Top.dpm, pts'[x])
        /\ callgraph \subseteq callgraph'
    BY <1>2, <1>8 DEF Answer
  <2>2. pts' \in [Var -> SUBSET Obj] /\ \A y \in Var : pts'[y] \subseteq X.pts[y]
    <3>1. svfg.ander \in [Var -> SUBSET Obj]
      BY <1>1, ProgramTypes DEF TypeOK
    <3>. QED BY <1>1, <1>3, <1>8, <2>1, <3>1 DEF TypeOK, CachesBelow
  <2>3. callgraph \cup NewTargets(Top.dpm, pts'[x]) \subseteq X.calls \cap svfg.calls
    BY <1>1, <1>2, <1>3, <2>2, CallsBelow
  <2>4. CachesBelow(X)'
    BY <1>1, <1>6, <2>1, <2>2, <2>3 DEF CachesBelow, Op
  <2>5. TypeOK'
    <3>1. oobDpms' \subseteq Dpm /\ Dpm = Dpm' /\ Frame = Frame'
      BY <1>1, <1>4, <2>1 DEF TypeOK, Dpm, Frame
    <3>2. callgraph' \subseteq svfg.calls
      BY <2>1, <2>3
    <3>. QED BY <1>1, <1>6, <1>7, <2>2, <3>1, <3>2 DEF TypeOK
  <2>. QED BY <1>1, <1>5, <1>6, <2>4, <2>5 DEF Inv
<1>9. CASE ~oob
  <2>1. UNCHANGED <<pts, callgraph, oobDpms>>
    BY <1>9 DEF Answer
  <2>2. TypeOK'
    BY <1>1, <1>6, <1>7, <2>1 DEF TypeOK
  <2>. QED BY <1>1, <1>5, <1>6, <2>1, <2>2, CachesUnchanged DEF Inv
<1>. QED BY <1>8, <1>9

-----------------------------------------------------------------------------
(* Every step keeps the invariant for every solution X, but for answers    *)
(* from a pre-analysis that X does not include.                            *)
LEMMA StepBelow ==
  ASSUME NEW X, FlowSolution(svfg, X), Inv(X), [Next]_vars,
         Answer /\ oob => \A x \in Var : svfg.ander[x] \subseteq X.pts[x]
  PROVE  Inv(X)'
<1>1. CASE \E x \in Var : Ask(x)
  BY <1>1, AskBelow
<1>2. CASE \E d \in Todo : UseCached(d) \/ Enter(d)
  BY <1>2, UseCachedBelow, EnterBelow
<1>3. CASE FunPtrsResolved
  BY <1>3, FunPtrsResolvedBelow
<1>4. CASE PointerFound
  BY <1>4, PointerFoundBelow
<1>5. CASE ValueFound
  BY <1>5, ValueFoundBelow
<1>6. CASE Update
  BY <1>6, UpdateBelow
<1>7. CASE NextEdge
  BY <1>7, NextEdgeBelow
<1>8. CASE Follow
  BY <1>8, FollowBelow
<1>9. CASE Return
  BY <1>9, ReturnBelow
<1>10. CASE Answer
  BY <1>10, AnswerBelow
<1>11. CASE UNCHANGED vars
  <2>1. UNCHANGED <<svfg, budget, callgraph, pts, adPts, visited, traversed, oob, oobDpms,
                    steps, stack, answered>>
    BY <1>11 DEF vars
  <2>. QED BY <2>1, CachesUnchanged DEF Inv, TypeOK, Dpm, Frame
<1>. QED BY <1>1, <1>2, <1>3, <1>4, <1>5, <1>6, <1>7, <1>8, <1>9, <1>10, <1>11 DEF Next, Step

LEMMA InitBelow ==
  ASSUME Init, NEW X
  PROVE  Inv(X)
<1>1. Init
  OBVIOUS
<1>2. StackOK(svfg, X, <<>>)
  BY DEF StackOK
<1>3. CachesBelow(X)
  <2>1. \A l \in svfg.nodes : l \in Loc
    BY ProgramTypes DEF Init
  <2>. QED BY <2>1 DEF Init, CachesBelow
<1>4. TypeOK
  <2>1. pts \in [Var -> SUBSET Obj] /\ adPts \in [Loc \X Obj -> SUBSET Obj]
    BY DEF Init
  <2>2. stack \in Seq(Frame) /\ steps \in Nat
    BY DEF Init
  <2>. QED BY <1>1, <2>1, <2>2 DEF Init, TypeOK
<1>. QED BY <1>2, <1>3, <1>4 DEF Inv, Init

(* Within the pre-analysis always; within the flow equations until a query *)
(* is answered by the pre-analysis.                                        *)
Justified ==
  /\ Inv(PreAnalysis(svfg))
  /\ oobDpms = {} => Inv(Reference(svfg))

LEMMA JustifiedNext == Justified /\ [Next]_vars => Justified'
<1>. SUFFICES ASSUME Justified, [Next]_vars PROVE Justified'
  OBVIOUS
<1>1. TypeOK /\ svfg \in Programs
  BY DEF Justified, Inv, TypeOK
<1>2. svfg' = svfg
  BY DEF Next, Step, Ask, UseCached, Enter, FunPtrsResolved, PointerFound, ValueFound, Continue,
         Update, NextEdge, Follow, Return, Answer, vars
<1>3. PICK A : A = PreAnalysis(svfg)
  OBVIOUS
<1>4. FlowSolution(svfg, A) /\ \A x \in Var : svfg.ander[x] \subseteq A.pts[x]
  BY <1>1, <1>3, PreAnalysisAssumption DEF PreAnalysis
<1>5. Inv(A)'
  BY <1>3, <1>4, StepBelow DEF Justified
<1>6. Inv(PreAnalysis(svfg))'
  <2>1. A = PreAnalysis(svfg)'
    BY <1>2, <1>3
  <2>. QED BY <1>5, <2>1
<1>7. ASSUME oobDpms' = {} PROVE Inv(Reference(svfg))'
  <2>1. PICK R : R = Reference(svfg)
    OBVIOUS
  <2>2. FlowSolution(svfg, R)
    BY <1>1, <2>1, ReferenceAssumption
  <2>3. oobDpms \subseteq oobDpms' /\ ~(Answer /\ oob)
    BY <1>7 DEF Next, Step, Ask, UseCached, Enter, FunPtrsResolved, PointerFound, ValueFound,
         Continue, Update, NextEdge, Follow, Return, Answer, vars
  <2>4. Inv(R)
    BY <1>7, <2>1, <2>3 DEF Justified
  <2>5. Inv(R)'
    BY <2>2, <2>3, <2>4, StepBelow
  <2>6. R = Reference(svfg)'
    BY <1>2, <2>1
  <2>. QED BY <2>5, <2>6
<1>. QED BY <1>6, <1>7 DEF Justified

LEMMA JustifiedInit == Init => Justified
BY InitBelow DEF Justified

(* The stack, the caches and the marks keep their types: findPT() is only  *)
(* called with pairs of a location and what is defined there.              *)
THEOREM DemandTypeCorrect == Spec => []TypeOK
<1>1. Justified => TypeOK
  BY DEF Justified, Inv
<1>. QED BY <1>1, JustifiedInit, JustifiedNext, PTL DEF Spec

(* No answer exceeds what the flow equations justify, whatever was asked   *)
(* before, visited in whichever order and found again; once a query ran    *)
(* out of budget, none exceeds what the pre-analysis allows.               *)
THEOREM DemandPrecise == Spec => []AnswersPrecise
<1>1. Justified => AnswersPrecise
  <2>. SUFFICES ASSUME Justified, NEW x \in answered
                PROVE  pts[x] \subseteq (IF oobDpms = {} THEN Reference(svfg).pts[x]
                                                         ELSE svfg.ander[x])
    BY DEF AnswersPrecise
  <2>1. x \in Var /\ \A y \in Var : pts[y] \subseteq PreAnalysis(svfg).pts[y]
    BY DEF Justified, Inv, TypeOK, CachesBelow
  <2>2. PreAnalysis(svfg).pts = svfg.ander
    BY DEF PreAnalysis
  <2>3. oobDpms = {} => pts[x] \subseteq Reference(svfg).pts[x]
    BY <2>1 DEF Justified, Inv, CachesBelow
  <2>. QED BY <2>1, <2>2, <2>3
<1>. QED BY <1>1, JustifiedInit, JustifiedNext, PTL DEF Spec
================================================================================
