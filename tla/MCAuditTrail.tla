----------------------------- MODULE MCAuditTrail -----------------------------
(* Instances of AuditTrail: requests are interchangeable. *)
EXTENDS AuditTrail, TLC

Symmetry == Permutations(Reqs)
===============================================================================
