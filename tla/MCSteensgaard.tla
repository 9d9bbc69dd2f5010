---------------------------- MODULE MCSteensgaard -----------------------------
(***************************************************************************)
(* Steensgaard on the small programs of MCPrograms.                        *)
(***************************************************************************)
EXTENDS Steensgaard, MCPrograms

Acyclic(P) == \A C \in Components(Direct(P)) : Cardinality(C) = 1

(* All programs of two statements about p, q and r, and those of three     *)
(* copies and variant geps without a cycle.                                *)
Among(kinds) == {e \in Proper(kinds) : s \notin {e[2], e[3]}}

MCProgramsShort ==
  ProgramsWith(2, Among({"copy", "load", "store", "ngep", "vgep"}))
    \cup {P \in ProgramsWith(3, Among({"copy", "vgep"})) : Acyclic(P)}

(* p = r; q = r; s = p: r moves to the class of p, then to that of q, and  *)
(* is still on the list of p's class when p moves to the class of s: r     *)
(* moves again, and loses what only q's class has.                         *)
MovedTwice == {<<r, p>>, <<r, q>>, <<p, s>>}

WithMoves(programs) == {[P EXCEPT !.copy = @ \cup MovedTwice] : P \in programs}

(* These with more copies and variant geps, or with a load.                *)
MCProgramsMoves ==
  {P \in WithMoves(ProgramsWith(NumArcs, Proper({"copy", "vgep"}))) : Acyclic(P)}
    \cup WithMoves(ProgramsWith(1, Proper({"load"})))

MCProgramsSteensgaard == MCProgramsShort \cup MCProgramsMoves

(* q = p; r = q; p = r.                                                    *)
MCProgramsCopyCycle ==
  {ProgramOf({<<a, p>>, <<b, q>>}, {<<"copy", p, q>>, <<"copy", q, r>>, <<"copy", r, p>>})}

(* *p = r; *q = r; r = &p->field: the order of the last two matters. *)
MCProgramsTwoStores ==
  {ProgramOf({<<a, p>>, <<b, q>>},
             {<<"store", r, p>>, <<"store", r, q>>, <<"ngep", p, r>>})}

(* Nothing that the inclusion-based analysis finds is missing at the end,  *)
(* although nodes may lose pointees on the way.  It holds for the programs *)
(* of the run; MCProgramsCopyCycle and MCProgramsTwoStores end with less.   *)
SoundWhenDone ==
  Done => \E least \in {LeastSolution(prog)} :
            \A n \in Node : least[n] \subseteq Solution[n]

(* The finest partition that the statements ask for: starting from single  *)
(* nodes, classes take in what a statement links them with, until nothing  *)
(* changes.                                                                *)
Joined(P, part) ==
  LET links == Direct(P)
        \cup UNION {{<<e[1], o>> : o \in Pointees(P, part, e[2])} : e \in P.store}
        \cup UNION {{<<o, e[2]>> : o \in Pointees(P, part, e[1])} : e \in P.load}
  IN  [n \in Node |->
         part[n] \cup UNION {part[e[1]] \cup part[e[2]] :
                            e \in {x \in links : {x[1], x[2]} \cap part[n] # {}}}]

RECURSIVE Unify(_, _)
Unify(P, part) ==
  IF Joined(P, part) = part THEN part ELSE Unify(P, Joined(P, part))

FinestUnification(P) == Unify(P, [n \in Node |-> {n}])
=============================================================================
