---------------------------- MODULE MCEventRoutes ----------------------------
(* Small instances of EventRoutes for TLC. *)
EXTENDS EventRoutes, TLC

Symmetry == Permutations(Reqs)

AllEndpoints ==
  {"publish", "batch_publish", "read", "create_group", "read_group", "ack", "delete", "touch",
   "info"}
GroupEndpoints == {"batch_publish", "create_group", "read_group", "ack"}

(* Either two requests of one consumer use any endpoints, and the others   *)
(* are refused, or all, of two consumers, use those of the groups, with    *)
(* the two events of the one batch that is published, and two of them at   *)
(* most are sent again.                                                    *)
Refused == {r \in Reqs : pc[r] # "idle" /\ call[r] = NoCall}
Calling == {r \in Reqs : pc[r] # "idle"} \ Refused
OfGroup ==
  /\ clock <= 2
  /\ Cardinality({r \in Calling : call[r].op = "batch_publish"}) <= 1
  /\ Cardinality({r \in Calling : tries[r] > 0}) <= 2
  /\ \A r \in Calling : /\ call[r].op \in GroupEndpoints /\ call[r].count = 1
                        /\ call[r].ids \subseteq 1..2
Slice ==
  \/ Cardinality(Refused) >= 2 /\ \A r \in Calling : call[r].consumer = AnyConsumer
  \/ OfGroup
===============================================================================
