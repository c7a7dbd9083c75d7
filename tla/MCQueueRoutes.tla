---------------------------- MODULE MCQueueRoutes ----------------------------
(* Small instances of QueueRoutes for TLC. *)
EXTENDS QueueRoutes, TLC

Symmetry == Permutations(Reqs)

Endpoints7 == {"push", "batch_push", "pop", "trim", "len", "delete", "touch"}
NoneOrZero == {Unset, 0}

(* Either two requests are sent again when lost, and the third is refused, *)
(* or three that push, pop, trim or delete race: none is sent again or asks*)
(* for a TTL of its own.                                                   *)
Refused == {r \in Reqs : pc[r] # "idle" /\ call[r] = NoCall}
Arrived == {r \in Reqs : pc[r] # "idle"}
Slice ==
  \/ Refused # {}
  \/ \A r \in Arrived : tries[r] = 0 /\ call[r].op \notin {"touch", "len"} /\ call[r].ttl = Unset
===============================================================================
