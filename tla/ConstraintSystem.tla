-------------------------- MODULE ConstraintSystem --------------------------
(***************************************************************************)
(* The input of SVF's inclusion-based (Andersen) solvers and what it means *)
(* to solve it.  A PAG node is a member of Node; Object is the set of the  *)
(* memory objects among them, a whole object (FIObjPN) or one of its       *)
(* fields (GepObjPN).                                                      *)
(***************************************************************************)
EXTENDS Naturals, FiniteSets

CONSTANTS
  Node,       \* NodeIDs of the PAG
  Object,     \* ObjPN nodes
  Offset,     \* field offsets of normal geps; 0 is the first field
  BaseOf,     \* BaseOf[o]: PAG::getBaseObjNode, the whole object of o
  FieldAt,    \* FieldAt[o, k]: PAG::getGepObjNode for a field-sensitive object
  BlkOrConst, \* objects for which isBlkObjOrConstantObj holds
  NonPointer, \* objects for which isConstantObj or isNonPointerObj holds
  Programs,   \* the constraint systems under study
  NoNode      \* "no node", outside Node

Program ==
  [addr  : SUBSET (Object \X Node),         \* p = &o
   copy  : SUBSET (Node \X Node),           \* copy, call, return, fork, join
   load  : SUBSET (Node \X Node),           \* dst = *src
   store : SUBSET (Node \X Node),           \* *dst = src
   ngep  : SUBSET (Node \X Node \X Offset), \* dst = &src->field
   vgep  : SUBSET (Node \X Node),           \* dst = &src[variable]
   icall : SUBSET (Node \X Object \X Node \X Node),
           \* <<fp, fun, actual, formal>>: a call through fp that reaches fun
           \* copies actual to formal (or a result back)
   mergePWC : BOOLEAN]                      \* option -merge-pwc

ASSUME SystemAssumption ==
  /\ Object \subseteq Node
  /\ NoNode \notin Node
  /\ BlkOrConst \subseteq Object
  /\ NonPointer \subseteq Object
  /\ BaseOf \in [Object -> Object]
  /\ \A o \in Object : BaseOf[BaseOf[o]] = BaseOf[o]
  /\ FieldAt \in [Object \X Offset -> Object]
  /\ \A o \in Object, k \in Offset : BaseOf[FieldAt[<<o, k>>]] = BaseOf[o]
  /\ \A o \in BlkOrConst : BaseOf[o] = o
  /\ Programs \subseteq Program
  /\ \A P \in Programs : \A e, f \in P.ngep :   \* PAG::addNormalGepPE
        e[1] = f[1] /\ e[2] = f[2] => e = f

-----------------------------------------------------------------------------
(* fi is the set of whole objects that have become field-insensitive.      *)

(* The object that stands for o: a field of a field-insensitive object is  *)
(* the whole object (getFIObjNode).                                        *)
Norm(fi, o) == IF BaseOf[o] \in fi THEN BaseOf[o] ELSE o

NormSet(fi, S) == {Norm(fi, o) : o \in S}

(* The field a normal gep with offset k reaches from o. *)
GepObjNode(fi, o, k) ==
  IF o \in BlkOrConst THEN o
  ELSE IF BaseOf[o] \in fi THEN BaseOf[o]
  ELSE FieldAt[<<o, k>>]

(* The object a variant gep reaches from o. *)
VariantObjNode(o) == IF o \in BlkOrConst THEN o ELSE BaseOf[o]

(* processGepPts computes them for a whole points-to set D. *)
GepObjNodes(fi, D, k) == {GepObjNode(fi, o, k) : o \in D}
VariantObjNodes(D) == {VariantObjNode(o) : o \in D}

-----------------------------------------------------------------------------
(* A solution S gives every node a points-to set.  Covers says that the    *)
(* objects of D, up to normalisation, are all in E.                        *)
Covers(fi, E, D) == NormSet(fi, D) \subseteq NormSet(fi, E)

AddrHolds(P, fi, S) ==
  \A e \in P.addr : Covers(fi, S[e[2]], {e[1]})

CopyHolds(P, fi, S) ==
  \A e \in P.copy : Covers(fi, S[e[2]], S[e[1]])

LoadHolds(P, fi, S) ==
  \A e \in P.load : \A o \in S[e[1]] \ NonPointer : Covers(fi, S[e[2]], S[o])

StoreHolds(P, fi, S) ==
  \A e \in P.store : \A o \in S[e[2]] \ NonPointer : Covers(fi, S[o], S[e[1]])

NormalGepHolds(P, fi, S) ==
  \A e \in P.ngep :
     Covers(fi, S[e[2]], GepObjNodes(fi, S[e[1]], e[3]))

VariantGepHolds(P, fi, S) ==
  \A e \in P.vgep :
     /\ Covers(fi, S[e[2]], VariantObjNodes(S[e[1]]))
     /\ \A o \in S[e[1]] \ BlkOrConst : BaseOf[o] \in fi

CallHolds(P, fi, S) ==
  \A c \in P.icall : c[2] \in S[c[1]] => Covers(fi, S[c[4]], S[c[3]])

(* A field-insensitive object and those of its fields that exist (flds)    *)
(* are one memory location.                                                *)
FieldsAgree(fi, flds, S) ==
  \A f \in flds : BaseOf[f] \in fi => S[f] = S[BaseOf[f]]

-----------------------------------------------------------------------------
(* The same constraints read field-insensitively: every object stands for  *)
(* its base, and geps are copies.  L is a solution of P read that way.     *)
Bases(D) == {BaseOf[o] : o \in D}

InsensitiveSolution(P, L) ==
  /\ L \in [Node -> SUBSET Object]
  /\ \A o \in Object : L[o] = L[BaseOf[o]]
  /\ \A e \in P.addr : BaseOf[e[1]] \in L[e[2]]
  /\ \A e \in P.copy \cup P.vgep : L[e[1]] \subseteq L[e[2]]
  /\ \A e \in P.ngep : L[e[1]] \subseteq L[e[2]]
  /\ \A e \in P.load : \A o \in L[e[1]] : L[o] \subseteq L[e[2]]
  /\ \A e \in P.store : \A o \in L[e[2]] : L[e[1]] \subseteq L[o]
  /\ \A c \in P.icall : BaseOf[c[2]] \in L[c[1]] => L[c[3]] \subseteq L[c[4]]
=============================================================================
