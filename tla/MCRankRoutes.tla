----------------------------- MODULE MCRankRoutes -----------------------------
(* Small instances of RankRoutes for TLC. *)
EXTENDS RankRoutes, TLC

Symmetry == Permutations(Reqs)

AllEndpoints ==
  Adders \cup Readers \cup {"incr", "between", "remove", "pop_min", "pop_max", "delete", "touch"}
NoneOrSome == {Unset, 0}

(* With Big = 2 a score of 2 is the largest finite double: twice it is Inf. *)
InputScores == {0, 2, Inf, NaN}
===============================================================================
