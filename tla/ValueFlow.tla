------------------------------- MODULE ValueFlow -------------------------------
(***************************************************************************)
(* The sparse value-flow graph (SVFG) on which SVF's flow-sensitive and    *)
(* demand-driven solvers work.  A node is a location; a direct edge links  *)
(* the definition of a top-level variable to a use of it, an indirect edge *)
(* <<s, d, o>> the definition of object o at s to a use at d.              *)
(***************************************************************************)
EXTENDS Naturals, FiniteSets

CONSTANTS
  Var,        \* top-level variables (ValPN)
  Obj,        \* memory objects (ObjPN)
  Fun,        \* functions; those whose address is taken are objects, too
  Loc,        \* SVFG nodes
  Offset,     \* field offsets of geps
  FieldAt,    \* FieldAt[<<o, k>>]: the object processGep reaches from o
  NonPointer, \* isConstantObj or isNonPointerObj
  Singular,   \* objects that are not heap, array or field-insensitive
  Programs,   \* the value-flow graphs under study
  NoLoc,      \* "no node"
  Reference(_) \* Reference(P): a solution of the flow equations of P, in the
               \* runs the least one

Kind == {"addr", "gep", "phi", "load", "store", "mem", "actual", "formal"}

(* lhs is the variable defined, for a store its pointer, for an actual or  *)
(* a formal the parameter or result it stands for; rhs are the variables   *)
(* used, for a load its pointer.  A copy is a phi of one operand.  "mem"   *)
(* stands for MSSAPHI, FormalIN, FormalOUT, ActualIN and ActualOUT.        *)
Stmt == [op : Kind, lhs : Var, rhs : SUBSET Var, obj : Obj, off : Offset]

(* A target of an indirect call and the edges that connecting it adds; ops *)
(* are the operands it gives to the phis of formals and results.           *)
Call == [fp : Var, caller : Fun, fun : Obj \cap Fun,
         direct : SUBSET (Loc \X Loc), indirect : SUBSET (Loc \X Loc \X Obj),
         ops : SUBSET (Loc \X Var)]

Program ==
  [nodes    : SUBSET Loc,
   stmt     : [Loc -> Stmt],
   direct   : SUBSET (Loc \X Loc),
   indirect : SUBSET (Loc \X Loc \X Obj),
   calls    : SUBSET Call,
   local    : SUBSET (Obj \X Fun),  \* <<o, f>>: o is on the stack of f
   ander    : [Var -> SUBSET Obj],  \* what the Andersen pre-analysis found
   inc      : BOOLEAN]              \* option -inc-data

ASSUME ValueFlowAssumption ==
  /\ NoLoc \notin Loc
  /\ FieldAt \in [Obj \X Offset -> Obj]
  /\ Singular \subseteq Obj
  /\ Programs \subseteq Program
  /\ \A P \in Programs :
       LET indirect == P.indirect \cup UNION {c.indirect : c \in P.calls}
           direct == P.direct \cup UNION {c.direct : c \in P.calls}
       IN  /\ \A e \in direct : /\ e[1] \in P.nodes /\ e[2] \in P.nodes
                                /\ P.stmt[e[1]].op = "actual" => P.stmt[e[2]].op = "formal"
           /\ \A e \in indirect : /\ e[1] \in P.nodes /\ e[2] \in P.nodes
                                  /\ P.stmt[e[1]].op \in {"store", "mem"}
                                  /\ P.stmt[e[2]].op \in {"store", "mem", "load"}
           /\ \A c \in P.calls : \A e \in c.indirect : P.stmt[e[2]].op = "mem"

-----------------------------------------------------------------------------
(* The graph of program P once the calls in C are connected.               *)
DirectEdges(P, C) == P.direct \cup UNION {c.direct : c \in C}
IndirectEdges(P, C) == P.indirect \cup UNION {c.indirect : c \in C}

(* The variables read at n, those of late phi operands included.           *)
Operands(P, C, n) ==
  P.stmt[n].rhs \cup {e[2] : e \in {x \in UNION {c.ops : c \in C} : x[1] = n}}

-----------------------------------------------------------------------------
(* Functions that are on a cycle of the call graph.  Only indirect calls   *)
(* close cycles in the programs under study.                               *)
CallEdges(C) == {<<c.caller, c.fun>> : c \in C}

Callees(E, f) ==
  LET closed == {F \in SUBSET Fun :
                   \A e \in E : e[1] \in F \cup {f} => e[2] \in F}
  IN  {g \in Fun : \A F \in closed : g \in F}

(* isLocalVarInRecursiveFun(o).                                            *)
LocalInRecursion(P, C, o) ==
  \E l \in P.local : l[1] = o /\ l[2] \in Callees(CallEdges(C), l[2])

(* isStrongUpdate: what the pointer of a store points to is one cell.      *)
Strong(P, C, targets) ==
  \E o \in Singular : targets = {o} /\ ~LocalInRecursion(P, C, o)

(* Def-use chains are complete: every use of a variable is linked with all *)
(* that define it, those that connecting calls adds included.              *)
ASSUME UsesLinkedAssumption ==
  \A P \in Programs : \A C \in SUBSET P.calls : \A m \in P.nodes : \A n \in P.nodes :
    /\ P.stmt[m].op \in {"addr", "gep", "phi", "load", "formal"}
    /\ \/ P.stmt[m].lhs \in Operands(P, C, n)
       \/ P.stmt[n].op \in {"store", "actual"} /\ P.stmt[m].lhs = P.stmt[n].lhs
    => <<m, n>> \in DirectEdges(P, C)

-----------------------------------------------------------------------------
(* The flow equations of P.  X gives variables their points-to sets, and   *)
(* nodes those of objects before (in) and, at stores, after them (out);    *)
(* X.calls are the targets it calls.  A store passes on what reaches it    *)
(* except what it must overwrite, and nothing before its pointer points    *)
(* somewhere.                                                              *)
FlowUsed(P, X, l) == UNION {X.pts[x] : x \in Operands(P, X.calls, l)}

FlowDefined(P, X, l) ==
  CASE P.stmt[l].op = "addr" -> {P.stmt[l].obj}
    [] P.stmt[l].op = "phi"  -> FlowUsed(P, X, l)
    [] P.stmt[l].op = "gep"  -> {FieldAt[<<o, P.stmt[l].off>>] : o \in FlowUsed(P, X, l)}
    [] P.stmt[l].op = "load" -> UNION {X.in[l][o] : o \in FlowUsed(P, X, l) \ NonPointer}
    [] OTHER -> {}

FlowOverwritten(P, X, l) ==
  IF Strong(P, X.calls, X.pts[P.stmt[l].lhs]) THEN X.pts[P.stmt[l].lhs] ELSE {}

FlowStored(P, X, l, o) ==
  (IF o \in X.pts[P.stmt[l].lhs] \ NonPointer THEN FlowUsed(P, X, l) ELSE {})
    \cup (IF o \in FlowOverwritten(P, X, l) THEN {} ELSE X.in[l][o])

FlowValue(P, X, l, o) == IF P.stmt[l].op = "store" THEN X.out[l][o] ELSE X.in[l][o]

FlowSolution(P, X) ==
  /\ \A c \in P.calls : c.fun \in X.pts[c.fp] => c \in X.calls
  /\ \A l \in P.nodes : FlowDefined(P, X, l) \subseteq X.pts[P.stmt[l].lhs]
  /\ \A e \in DirectEdges(P, X.calls) :
       P.stmt[e[1]].op = "actual" => X.pts[P.stmt[e[1]].lhs] \subseteq X.pts[P.stmt[e[2]].lhs]
  /\ \A e \in IndirectEdges(P, X.calls) :
       FlowValue(P, X, e[1], e[3]) \subseteq X.in[e[2]][e[3]]
  /\ \A l \in P.nodes : P.stmt[l].op = "store" /\ X.pts[P.stmt[l].lhs] # {} =>
       \A o \in Obj : FlowStored(P, X, l, o) \subseteq X.out[l][o]

ASSUME ReferenceAssumption == \A P \in Programs : FlowSolution(P, Reference(P))

(* X has nothing that Y does not have. *)
FlowWithin(P, X, Y) ==
  /\ X.calls \subseteq Y.calls
  /\ \A x \in Var : X.pts[x] \subseteq Y.pts[x]
  /\ \A l \in P.nodes : \A o \in Obj :
       X.in[l][o] \subseteq Y.in[l][o] /\ X.out[l][o] \subseteq Y.out[l][o]
================================================================================
