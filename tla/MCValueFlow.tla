------------------------------ MODULE MCValueFlow ------------------------------
(***************************************************************************)
(* Small value-flow graphs for model checking, and the least solution of   *)
(* their flow equations.  p = &a; q = &b; r = phi(p, q) or r = &p->field;  *)
(* then stores and loads s1, s2, s3 in a row or as the body of a loop, or  *)
(* calls through a pointer.  A location is named after the variable        *)
(* defined there, or after the statement.                                  *)
(***************************************************************************)
EXTENDS ValueFlow, Sequences, TLC

MCObj == {"a", "af", "b", "f", "g"}
MCFun == {"main", "f", "g"}
MCVar == {"p", "q", "r", "t1", "t2", "t3", "n", "m", "fp", "gp"}
MCLoc == MCVar \cup {"s1", "s2", "s3", "s4", "ap", "fi", "fi2", "ao", "ao2", "head", "ap2"}
MCOffset == {0, 1}
MCFieldAt == [x \in MCObj \X MCOffset |-> IF x[1] = "a" /\ x[2] = 1 THEN "af" ELSE x[1]]

(* b is an array: no store to it is a strong update. *)
MCSingular == {"a", "af", "f", "g"}

Node(op, lhs, rhs) == [op |-> op, lhs |-> lhs, rhs |-> rhs, obj |-> "a", off |-> 0]
Addr(x, o) == [Node("addr", x, {}) EXCEPT !.obj = o]
Phi(x, ops) == Node("phi", x, ops)
Gep(x, y) == [Node("gep", x, {y}) EXCEPT !.off = 1]
Store(ptr, val) == Node("store", ptr, {val})
Load(x, ptr) == Node("load", x, {ptr})
Mem == Node("mem", "n", {})
Actual(x) == Node("actual", x, {})
Formal(x) == Node("formal", x, {})

Pointer(st) == IF st.op = "store" THEN st.lhs ELSE CHOOSE x \in st.rhs : TRUE
Reads(st) == (IF st.op \in {"store", "actual"} THEN {st.lhs} ELSE {}) \cup st.rhs
Defines(st, x) == st.op \in {"addr", "phi", "gep", "load", "formal"} /\ st.lhs = x

(* Every use of a variable is linked with its definitions.                 *)
UseDef(S) == {e \in (DOMAIN S) \X (DOMAIN S) : \E x \in Reads(S[e[2]]) : Defines(S[e[1]], x)}

GraphOf(S, aux, indirect, calls, local, inc) ==
  [nodes |-> DOMAIN S,
   stmt |-> [l \in MCLoc |-> IF l \in DOMAIN S THEN S[l] ELSE Mem],
   direct |-> UseDef(S), indirect |-> indirect,
   calls |-> calls, local |-> local, ander |-> [x \in MCVar |-> aux[x]], inc |-> inc]

-----------------------------------------------------------------------------
(* Statements in a row or in a loop.                                       *)
Label(i) == <<"s1", "s2", "s3">>[i]
Loaded(i) == <<"t1", "t2", "t3">>[i]

Base == ("p" :> Addr("p", "a")) @@ ("q" :> Addr("q", "b")) @@ ("r" :> Phi("r", {"p", "q"}))
FieldBase == [Base EXCEPT !["r"] = Gep("r", "p")]

(* What may stand at i after the statements in B, which are listed first. *)
Choices(B, i) ==
  LET pointers == {"p", "r"} \cup {Loaded(j) : j \in {j \in 1..(i - 1) : B[j].op = "load"}}
  IN  {Store(x, y) : x \in pointers, y \in {"p", "q"}} \cup {Load(Loaded(i), x) : x \in pointers}

RECURSIVE Bodies(_)
Bodies(k) == IF k = 0 THEN {<<>>}
             ELSE UNION {{Append(B, st) : st \in Choices(B, k)} : B \in Bodies(k - 1)}

(* The pre-analysis that the definitions and uses of objects are based on: *)
(* inclusions without regard to order.                                     *)
AuxStep(S, X) ==
  LET Of(vs) == UNION {X[v] : v \in vs}
  IN [y \in MCVar \cup MCObj |->
        X[y] \cup UNION {
          CASE st.op = "addr" /\ st.lhs = y -> {st.obj}
            [] st.op = "phi" /\ st.lhs = y -> Of(st.rhs)
            [] st.op = "gep" /\ st.lhs = y -> {MCFieldAt[<<o, 1>>] : o \in Of(st.rhs)}
            [] st.op = "load" /\ st.lhs = y -> UNION {X[o] : o \in Of(st.rhs)}
            [] st.op = "store" /\ y \in X[st.lhs] -> Of(st.rhs)
            [] OTHER -> {} : st \in {S[l] : l \in DOMAIN S}}]

RECURSIVE AuxFix(_, _)
AuxFix(S, X) == IF AuxStep(S, X) = X THEN X ELSE AuxFix(S, AuxStep(S, X))

Aux(S) == AuxFix(S, [y \in MCVar \cup MCObj |-> {}])

(* The statement before i, going round the loop if there is one, that      *)
(* may define o; i itself if it alone does.                                *)
ReachingDefs(B, aux, loop, i, o) ==
  LET defs == {j \in DOMAIN B : B[j].op = "store" /\ o \in aux[Pointer(B[j])]}
      before == {j \in defs : j < i}
      from == IF before # {} THEN before ELSE IF loop THEN defs ELSE {}
  IN  {j \in from : \A k \in from : k <= j}

DefUse(B, aux, loop) ==
  {<<Label(e[1]), Label(e[2]), e[3]>> :
     e \in {e \in (DOMAIN B) \X (DOMAIN B) \X MCObj :
              /\ e[3] \in aux[Pointer(B[e[2]])]
              /\ e[1] \in ReachingDefs(B, aux, loop, e[2], e[3])}}

(* With a memory SSA phi at the loop's head, as in a graph that SVFGOPT has *)
(* not made smaller.                                                       *)
HeadUse(B, aux) ==
  LET last(o) == {Label(i) : i \in ReachingDefs(B, aux, FALSE, Len(B) + 1, o)}
      first(o) == {Label(i) : i \in {i \in DOMAIN B : /\ o \in aux[Pointer(B[i])]
                                  /\ ReachingDefs(B, aux, FALSE, i, o) = {}}}
  IN  UNION {(last(o) \X {"head"} \X {o}) \cup
             (IF last(o) = {} THEN {} ELSE {"head"} \X first(o) \X {o}) : o \in MCObj}

Placed(base, B) ==
  base @@ [l \in {Label(i) : i \in DOMAIN B} |-> B[CHOOSE i \in DOMAIN B : Label(i) = l]]

BodyGraph(base, B, loop, inc) ==
  LET S == Placed(base, B)
      aux == Aux(S)
  IN  GraphOf(S, aux, DefUse(B, aux, loop), {}, {}, inc)

HeadGraph(base, B) ==
  LET S == Placed(base, B) @@ ("head" :> Mem)
      aux == Aux(S)
  IN  GraphOf(S, aux, DefUse(B, aux, FALSE) \cup HeadUse(B, aux), {}, {}, TRUE)

LastLoads(k) == {B \in Bodies(k) : B[k].op = "load"}

Rows(k, inc) == {BodyGraph(Base, B, FALSE, inc) : B \in LastLoads(k)}
Loops(k, inc) == {BodyGraph(Base, B, TRUE, inc) : B \in Bodies(k)}
HeadLoops(k) == {HeadGraph(Base, B) : B \in Bodies(k)}

(* r = phi(p, t) at the head, where t is loaded at the end of the body.    *)
Walks(k) == {HeadGraph([Base EXCEPT !["r"] = Phi("r", {"p", Loaded(k)})], B) : B \in LastLoads(k)}
FieldRows(k, inc) == {BodyGraph(FieldBase, B, FALSE, inc) : B \in LastLoads(k)}

(* if (..) s1 else s2; if (..) s3; n = *r; where s1 and s2 are stores; with *)
(* loop, all of it in a loop.  What s1 and s2 define meets at "head", that  *)
(* and what s3 defines at "ao".                                            *)
JoinGraph(B, loop) ==
  LET S == Placed(Base, B) @@ ("head" :> Mem) @@ ("ao" :> Mem) @@ ("s4" :> Load("n", "r"))
      aux == Aux(S)
      Edge(x, y, O) == {<<x, y, o>> : o \in O}
      defs(i) == IF B[i].op = "store" THEN aux[Pointer(B[i])] ELSE {}
      met == defs(1) \cup defs(2)
  IN  GraphOf(S, aux,
        Edge("s1", "head", defs(1)) \cup Edge("s2", "head", defs(2))
          \cup Edge("head", "s3", met \cap aux[Pointer(B[3])])
          \cup Edge("s3", "ao", defs(3)) \cup Edge("head", "ao", met \cap defs(3))
          \cup Edge("ao", "s4", defs(3) \cap aux["r"])
          \cup Edge("head", "s4", (met \ defs(3)) \cap aux["r"])
          \cup (IF loop THEN Edge("ao", "head", met \cap defs(3)) ELSE {}), {}, {}, TRUE)

(* s1 and s2 may change places, so one order is enough.                    *)
Joins(loop) ==
  {JoinGraph(B, loop) :
     B \in {B \in Bodies(3) : /\ B[1].op = "store" /\ B[2].op = "store"
                              /\ B[1].lhs = "p" \/ B[2].lhs = "r"
                              /\ loop => B[3].op = "store"}}

-----------------------------------------------------------------------------
(* A call of f(n) { *n = V; } between *p = q; and t1 = *p; and a second    *)
(* one through t1, with y, before t2 = *y.  With opt the parameter is a    *)
(* phi of SVFGOPT, else actual and formal are nodes of their own.          *)
CallBase(x, y, V) ==
  Base @@ ("fp" :> Addr("fp", "f")) @@ ("s1" :> Store("p", "q")) @@ ("s2" :> Store("n", V))
       @@ ("s3" :> Load("t1", "p")) @@ ("s4" :> Load("t2", y))
       @@ ("fi" :> Mem) @@ ("ao" :> Mem) @@ ("ao2" :> Mem)

CallGraph(x, y, V, opt) ==
  LET S == CallBase(x, y, V) @@ (IF opt THEN "n" :> Phi("n", {})
                                 ELSE ("n" :> Formal("n")) @@ ("ap" :> Actual(x)))
      aux == Aux([S EXCEPT !["n"] = Phi("n", IF opt THEN {x, y} ELSE {x})])
      Through(s, d, O) == {<<s, d, o>> : o \in O}
      first == [fp |-> "fp", caller |-> "main", fun |-> "f",
                direct |-> IF opt THEN {<<x, "n">>} ELSE {<<"ap", "n">>},
                ops |-> IF opt THEN {<<"n", x>>} ELSE {},
                indirect |-> Through("s1", "fi", aux["p"] \cap aux["n"])
                               \cup Through("s2", "ao", aux["n"])]
      second == [fp |-> "t1", caller |-> "main", fun |-> "f",
                 direct |-> {<<y, "n">>}, ops |-> {<<"n", y>>},
                 indirect |-> Through("ao", "fi", aux["n"]) \cup Through("s2", "ao2", aux["n"])]
  IN  GraphOf(S, aux, Through("fi", "s2", aux["n"])
                   \cup Through("ao", "s3", aux["p"] \cap aux["n"])
                   \cup Through("s1", "s3", aux["p"] \ aux["n"])
                   \cup Through("ao2", "s4", aux[y] \cap aux["n"])
                   \cup Through("s1", "s4", (aux[y] \cap aux["p"]) \ aux["n"]),
              IF opt THEN {first, second} ELSE {first}, {}, TRUE)

(* *p = &f; t1 = *p; t1(q); t2 = *q; where f(n) { *n = p; }.               *)
LoadedCall ==
  LET S == ("p" :> Addr("p", "a")) @@ ("q" :> Addr("q", "b")) @@ ("fp" :> Addr("fp", "f"))
             @@ ("s1" :> Store("p", "fp")) @@ ("s2" :> Load("t1", "p")) @@ ("ap" :> Actual("q"))
             @@ ("n" :> Formal("n")) @@ ("s3" :> Store("n", "p")) @@ ("ao" :> Mem)
             @@ ("s4" :> Load("t2", "q"))
  IN  GraphOf(S, Aux([S EXCEPT !["n"] = Phi("n", {"q"})]),
              {<<"s1", "s2", "a">>, <<"ao", "s4", "b">>},
              {[fp |-> "t1", caller |-> "main", fun |-> "f", direct |-> {<<"ap", "n">>},
                ops |-> {}, indirect |-> {<<"s3", "ao", "b">>}]}, {}, TRUE)

(* *p = q; f(p); where f(n) { g(n); } and g(m) { t1 = *m; } are called      *)
(* through pointers.  SVFGOPT leaves the entry of f no edge: its object    *)
(* goes nowhere until the call of g is connected.                          *)
ForwardedCall ==
  LET S == ("p" :> Addr("p", "a")) @@ ("q" :> Addr("q", "b")) @@ ("s1" :> Store("p", "q"))
             @@ ("fp" :> Addr("fp", "f")) @@ ("gp" :> Addr("gp", "g"))
             @@ ("n" :> Phi("n", {})) @@ ("m" :> Phi("m", {}))
             @@ ("fi" :> Mem) @@ ("fi2" :> Mem) @@ ("s2" :> Load("t1", "m"))
      Passed(fp, caller, fun, from, to, x, y) ==
        [fp |-> fp, caller |-> caller, fun |-> fun, direct |-> {<<x, y>>},
         ops |-> {<<y, x>>}, indirect |-> {<<from, to, "a">>}]
  IN  GraphOf(S, Aux([S EXCEPT !["n"] = Phi("n", {"p"}), !["m"] = Phi("m", {"n"})]),
              {<<"fi2", "s2", "a">>},
              {Passed("fp", "main", "f", "s1", "fi", "p", "n"),
               Passed("gp", "f", "g", "fi", "fi2", "n", "m")}, {}, TRUE)

(* f() { *p = q; t1 = *p; *p = p; f(); } through a pointer, with a local:  *)
(* that f is recursive shows only when the call is connected.              *)
RecursiveCall ==
  LET S == ("p" :> Addr("p", "a")) @@ ("q" :> Addr("q", "b")) @@ ("fp" :> Addr("fp", "f"))
             @@ ("s1" :> Store("p", "q")) @@ ("s2" :> Load("t1", "p"))
             @@ ("s3" :> Store("p", "p")) @@ ("fi" :> Mem)
  IN  GraphOf(S, Aux(S), {<<"fi", "s1", "a">>, <<"s1", "s2", "a">>, <<"s1", "s3", "a">>},
              {[fp |-> "fp", caller |-> "f", fun |-> "f", direct |-> {}, ops |-> {},
                indirect |-> {<<"s3", "fi", "a">>}]},
              {<<"a", "f">>}, TRUE)

(* f(n) { t1 = *n; f(t1); } called with p, where a holds &b and b holds &a. *)
RecursiveWalk ==
  LET S == ("p" :> Addr("p", "a")) @@ ("q" :> Addr("q", "b"))
             @@ ("s1" :> Store("p", "q")) @@ ("s2" :> Store("q", "p"))
             @@ ("ap" :> Actual("p")) @@ ("n" :> Formal("n")) @@ ("fi" :> Mem)
             @@ ("s3" :> Load("t1", "n")) @@ ("ap2" :> Actual("t1"))
      P == GraphOf(S, Aux([S EXCEPT !["n"] = Phi("n", {"p", "t1"})]),
                   {<<"s1", "fi", "a">>, <<"s2", "fi", "b">>,
                    <<"fi", "s3", "a">>, <<"fi", "s3", "b">>}, {}, {}, TRUE)
  IN  [P EXCEPT !.direct = @ \cup {<<"ap", "n">>, <<"ap2", "n">>}]

-----------------------------------------------------------------------------
(* The least solution of the flow equations, reached by applying all of    *)
(* them at once until nothing changes.  A store passes on what reaches it  *)
(* except what it must overwrite, and nothing before its pointer points    *)
(* somewhere.                                                              *)
FlowStep(P, X) ==
  LET At(ns) == UNION {X.pts[x] : x \in ns}
      used(l) == At(Operands(P, X.calls, l))
      targets(l) == X.pts[P.stmt[l].lhs]
      kept(l, o) == /\ targets(l) # {}
                    /\ ~(Strong(P, X.calls, targets(l)) /\ o \in targets(l))
      sent(l, o) == IF P.stmt[l].op = "store" THEN X.out[l][o] ELSE X.in[l][o]
      value(l) ==
        CASE P.stmt[l].op = "addr" -> {P.stmt[l].obj}
          [] P.stmt[l].op = "phi" -> used(l)
          [] P.stmt[l].op = "gep" -> {FieldAt[<<o, P.stmt[l].off>>] : o \in used(l)}
          [] P.stmt[l].op = "load" -> UNION {X.in[l][o] : o \in used(l) \ NonPointer}
          [] P.stmt[l].op = "formal" ->
               UNION {X.pts[P.stmt[e[1]].lhs] :
                        e \in {d \in DirectEdges(P, X.calls) :
                                 d[2] = l /\ P.stmt[d[1]].op = "actual"}}
          [] OTHER -> {}
      edges == IndirectEdges(P, X.calls)
  IN [pts |-> [x \in Var |->
         X.pts[x] \cup UNION {value(l) : l \in {l \in P.nodes : P.stmt[l].lhs = x}}],
      in |-> [l \in P.nodes |-> [o \in Obj |->
         UNION {sent(s, o) : s \in {s \in P.nodes : <<s, l, o>> \in edges}}]],
      out |-> [l \in P.nodes |-> [o \in Obj |->
         IF P.stmt[l].op # "store" THEN {}
         ELSE (IF o \in targets(l) \ NonPointer THEN used(l) ELSE {})
                \cup (IF kept(l, o) THEN X.in[l][o] ELSE {})]],
      calls |-> {c \in P.calls : c.fun \in X.pts[c.fp]}]

RECURSIVE FlowFix(_, _)
FlowFix(P, X) ==
  LET Y == FlowStep(P, X) IN IF Y = X THEN X ELSE FlowFix(P, Y)

LeastFlow(P) ==
  LET none == [l \in P.nodes |-> [o \in Obj |-> {}]]
  IN  FlowFix(P, [pts |-> [x \in Var |-> {}], in |-> none, out |-> none, calls |-> {}])
=============================================================================
