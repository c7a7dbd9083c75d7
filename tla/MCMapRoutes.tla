------------------------------ MODULE MCMapRoutes ------------------------------
(* Small instances of MapRoutes for TLC. *)
EXTENDS MapRoutes, TLC

Symmetry == Permutations(Reqs)

AllEndpoints ==
  {"set_map", "batch_set", "set_field", "get", "get_field", "batch_get", "delete",
   "delete_field", "touch"}
NoneOrSome == {Unset, 0}
===============================================================================
