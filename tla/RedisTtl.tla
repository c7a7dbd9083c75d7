------------------------------- MODULE RedisTtl -------------------------------
(***************************************************************************)
(* Time-to-live arithmetic shared by every router.                         *)
(*                                                                         *)
(* A TTL is the number of seconds an EXPIRE asked for.  It does not count  *)
(* down in the models: expiry is a step of the environment that may happen *)
(* at any time while a TTL is set, so every point at which the real clock  *)
(* can run out is covered and the TTL reported is the one last set.        *)
(***************************************************************************)
EXTENDS Integers

CONSTANT DefaultTtl   \* settings.defaults.ttl

ASSUME DefaultTtlAssumption == DefaultTtl \in Nat

(* Replies of the Redis command TTL. *)
NoTtl   == -1         \* the key exists and has no TTL
Missing == -2         \* the key does not exist

(* A request body whose "ttl" is None. *)
Unset   == -3

(* resolve_ttl: None means the configured default. *)
resolve_ttl(body_ttl) == IF body_ttl # Unset THEN body_ttl ELSE DefaultTtl

(* The TTL left by the handlers' choice between EXPIRE and PERSIST. *)
ExpireOrPersist(t) == IF t > 0 THEN t ELSE NoTtl

(* Redis: TTL of a key that exists or not. *)
TtlReply(exists, t) == IF exists THEN t ELSE Missing

(* meta.ttl of a write that succeeded: a key that has gone since reads -1. *)
MetaTtl_Raw(reply) == reply
MetaTtl(reply) == IF reply # Missing THEN reply ELSE NoTtl
===============================================================================
