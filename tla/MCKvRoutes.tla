------------------------------ MODULE MCKvRoutes ------------------------------
(* Small instances of KvRoutes for TLC. *)
EXTENDS KvRoutes, TLC

ReqSymmetry == Permutations(Reqs)

AllEndpoints ==
  {"set", "nx", "batch_set", "get", "batch_get", "delete", "exists", "incr", "touch"}

NoneOrSome == {Unset, 0}
Minus2 == -2
===============================================================================
