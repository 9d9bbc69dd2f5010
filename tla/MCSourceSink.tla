----------------------------- MODULE MCSourceSink ------------------------------
(***************************************************************************)
(* SourceSink on small value-flow graphs.  A wrapper allocates (m) and     *)
(* returns (x) to its callers, which receive the value at s1 and s2 and    *)
(* pass it to one function f, which returns it (h) to b3 and b4.  Other    *)
(* edges lead to the deallocations k1 and k2 or to the global g, under the *)
(* conditions given, make f recursive or let it call a function of its own.*)
(***************************************************************************)
EXTENDS SourceSink

MCNode == {"m", "x", "s1", "s2", "f", "h", "b3", "b4", "k1", "k2", "g",
           "u", "y", "r"}
MCSite == {"c0", "c1", "c2", "c3", "c4", "c5"}
MCResult == [c \in MCSite |-> CASE c = "c0" -> "m" [] c = "c1" -> "s1" [] c = "c2" -> "s2"
                                [] c = "c3" -> "b3" [] c = "c4" -> "b4" [] OTHER -> "h"]

MCValuation == {"then", "else"}

Arc(s, d, kind, site, guard) ==
  [src |-> s, dst |-> d, kind |-> kind, site |-> site, guard |-> guard]

Intra(s, d, guard) == Arc(s, d, "intra", "c0", guard)
Calls(s, d, site) == Arc(s, d, "call", site, MCValuation)
Returns(s, d, site, guard) == Arc(s, d, "ret", site, guard)

Common == {Intra("m", "x", MCValuation), Intra("f", "h", MCValuation),
           Returns("x", "s1", "c1", MCValuation), Returns("x", "s2", "c2", MCValuation),
           Calls("s1", "f", "c3"), Calls("s2", "f", "c4"),
           Returns("h", "b3", "c3", MCValuation), Returns("h", "b4", "c4", MCValuation)}

Guards == {MCValuation, {"then"}, {"else"}}

(* Each adds a few edges.                                                  *)
Extensions ==
  {{Intra(e[1], e[2], guard)} : guard \in Guards,
     e \in {<<"b3", "k1">>, <<"b3", "k2">>, <<"b4", "k2">>, <<"f", "k1">>, <<"s1", "b4">>}}
    \cup {{Intra("s1", "u", {"then"}), Intra("u", "k2", guard)} : guard \in Guards}
    \cup {{Intra("m", "k1", {"then"})},
          {Intra("b4", "g", MCValuation)},
          {Intra("s1", "k2", {"else"}), Intra("b3", "s1", MCValuation)},
          {Calls("f", "f", "c5"), Returns("h", "h", "c5", MCValuation)},
          {Calls("f", "y", "c5"), Returns("y", "r", "c5", MCValuation),
           Intra("r", "k1", MCValuation)},
          {Calls("b3", "f", "c4")}}

Extended(X) ==
  [edges |-> Common \cup UNION X, plain |-> {"x", "s1", "s2", "h", "b3", "b4"},
   sinks |-> {"k1", "k2"}, globals |-> {"g"}, allocs |-> {"c0"}, result |-> MCResult]

MCPrograms == {Extended({x, y}) : x, y \in Extensions}

(* Paths of the graph, until no edge leads any further.                    *)
RECURSIVE StagesFrom(_, _, _)
StagesFrom(P, matched, stages) ==
  LET last == stages[Len(stages)]
      more == last \cup UNION {Extend(P, matched, t) : t \in last}
  IN  IF more = last THEN stages ELSE StagesFrom(P, matched, Append(stages, more))

MCStages(P, matched, s) == StagesFrom(P, matched, <<{<<s, <<>>, TrueCond>>}>>)
=============================================================================
