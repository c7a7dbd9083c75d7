----------------------------- MODULE MCAdminRoutes -----------------------------
(* Small instances of AdminRoutes for TLC. *)
EXTENDS AdminRoutes, TLC

Symmetry == Permutations(Reqs)

AllEndpoints ==
  {"add", "batch_add", "remove", "delete", "touch", "members", "contains", "count", "batch_get",
   "set_op", "set_ttl", "info", "delete_key", "list_keys", "bulk_delete", "dry_run"}
NoneOrSome == {0, 60}
===============================================================================
