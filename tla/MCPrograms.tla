----------------------------- MODULE MCPrograms -----------------------------
(***************************************************************************)
(* Small constraint systems for model checking: the pointers in Vals,      *)
(* an aggregate a with one field af besides the first, and a scalar b.     *)
(***************************************************************************)
EXTENDS Naturals, FiniteSets

CONSTANTS p, q, r, s, a, af, b, Vals, NumArcs

MCObject == {a, af, b}
MCNode == Vals \cup MCObject
MCOffset == {0, 1}

MCBaseOf == [o \in MCObject |-> IF o = af THEN a ELSE o]

(* getModulusOffset keeps offsets within the size of the object: two       *)
(* fields for a, one for b.  The first field is the object itself.         *)
MCFieldAt ==
  [x \in MCObject \X MCOffset |->
     CASE x = <<a, 1>> -> af
       [] x = <<af, 0>> -> af
       [] x = <<b, 1>> -> b
       [] OTHER -> MCBaseOf[x[1]]]

(* The edges a program may have besides p = &a and q = &b, tagged by kind; *)
(* a normal gep has offset 1.                                              *)
Arcs(kinds) == {<<k, x, y>> : k \in kinds, x \in Vals, y \in Vals}

Proper(kinds) == {e \in Arcs(kinds) : e[2] # e[3] \/ e[1] \in {"load", "store"}}

ProgramOf(addr, arcs) ==
  LET Pairs(k) == {<<e[2], e[3]>> : e \in {x \in arcs : x[1] = k}}
  IN [addr |-> addr,
      copy |-> Pairs("copy"), load |-> Pairs("load"), store |-> Pairs("store"),
      ngep |-> {<<e[1], e[2], 1>> : e \in Pairs("ngep")},
      vgep |-> Pairs("vgep"),
      icall |-> {}, mergePWC |-> TRUE]

(* Every set of one to n of the arcs. *)
RECURSIVE ArcSets(_, _)
ArcSets(n, arcs) ==
  IF n = 0 THEN {{}} ELSE {A \cup {x} : A \in ArcSets(n - 1, arcs), x \in arcs}

ProgramsWith(n, arcs) == {ProgramOf({<<a, p>>, <<b, q>>}, A) : A \in ArcSets(n, arcs)}

MCProgramsOf(kinds) == ProgramsWith(NumArcs, Proper(kinds))

MCPrograms5 == MCProgramsOf({"copy", "load", "store", "ngep", "vgep"})
MCProgramsNoGep == MCProgramsOf({"copy", "load", "store"})

(* r = &p->field; *r = q; s = r; and more statements, one of which indexes *)
(* an array.                                                               *)
MCProgramsThatCollapse ==
  {[P EXCEPT !.ngep = {<<p, r, 1>>}, !.store = {<<q, r>>}, !.copy = {<<r, s>>}] :
     P \in {x \in MCProgramsOf({"load", "vgep"}) : x.vgep # {}}}

(* Two fields of what q points to, in a copy cycle: r = &q->first;         *)
(* s = &q->second; r = s; s = r; and q may become an alias of p.           *)
MCProgramsTwoGeps ==
  {[P EXCEPT !.ngep = {<<q, r, 0>>, <<q, s, 1>>}, !.copy = @ \cup {<<r, s>>, <<s, r>>}] :
     P \in MCProgramsOf({"copy"})}

(* *p = q; *q = p; r = *q; p = r; s = *r: resolving the accesses to what q *)
(* points to closes a copy cycle through p and r.                          *)
MCProgramsLateCycle ==
  {[P EXCEPT !.store = {<<q, p>>, <<p, q>>}, !.load = {<<q, r>>, <<r, s>>},
             !.copy = @ \cup {<<r, p>>}] : P \in MCProgramsOf({"copy"})}

(* b as a function: calls through r pass p and return into q, or pass r    *)
(* itself and return into p.                                               *)
WithCalls(n, kinds) ==
  {[P EXCEPT !.icall = {<<r, b, e[1], e[2]>>}] :
     P \in ProgramsWith(n, Proper(kinds)), e \in {<<p, q>>, <<r, p>>}}

(* What class Andersen handles without the loss that MCProgramsThatCollapse *)
(* is about: array accesses or loads, not both.                            *)
MCProgramsAndersen ==
  MCProgramsOf({"copy", "load", "store", "ngep"})
    \cup ProgramsWith(NumArcs, Proper({"copy", "store", "ngep", "vgep"}))
    \cup WithCalls(NumArcs - 1, {"copy", "load", "store"})

MCProgramsLCD == MCPrograms5 \cup WithCalls(NumArcs - 1, {"copy", "load", "vgep"})

(* All pairs of statements, more of them without field or array accesses,  *)
(* and without -merge-pwc one and an indirect call.                        *)
MCProgramsWave ==
  MCProgramsNoGep
    \cup ProgramsWith(NumArcs - 1, Proper({"copy", "load", "store", "ngep", "vgep"}))
    \cup {[P EXCEPT !.mergePWC = FALSE] :
             P \in WithCalls(NumArcs - 2, {"copy", "load", "store", "vgep"})}

-----------------------------------------------------------------------------
(* The reference: the least solution of the same constraints read          *)
(* field-insensitively, every object standing for its base, computed by    *)
(* applying all the constraints at once until nothing changes.             *)
Step(P, S) ==
  LET B(X) == {MCBaseOf[o] : o \in X}
      At(o) == S[MCBaseOf[o]]
  IN [n \in MCNode |->
        S[n] \cup B({e[1] : e \in {x \in P.addr : x[2] = n}})
             \cup UNION {S[e[1]] : e \in {x \in P.copy \cup P.vgep : x[2] = n}}
             \cup UNION {S[e[1]] : e \in {x \in P.ngep : x[2] = n}}
             \cup UNION {UNION {At(o) : o \in S[e[1]]} :
                           e \in {x \in P.load : x[2] = n}}
             \cup (IF n \in MCObject
                   THEN UNION {S[e[1]] : e \in {x \in P.store : MCBaseOf[n] \in S[x[2]]}}
                          \cup At(n)
                   ELSE {})
             \cup UNION {S[c[3]] : c \in {x \in P.icall : x[4] = n /\ x[2] \in S[x[1]]}}]

RECURSIVE Fix(_, _)
Fix(P, S) == IF Step(P, S) = S THEN S ELSE Fix(P, Step(P, S))

LeastSolution(P) == Fix(P, [n \in MCNode |-> {}])
=============================================================================
