------------------------------ MODULE GroupRoutes ------------------------------
(***************************************************************************)
(* app/routers/group.py: sets.                                             *)
(*                                                                         *)
(* A batch adds every member to every group, in one transaction; add is a  *)
(* pipeline without one.                                                   *)
(***************************************************************************)
EXTENDS RoundTrips, FiniteSets

CONSTANTS Endpoints,   \* the endpoints the requests call
          Groups,      \* the keys of the groups
          Members,
          BodyTtls     \* values of "ttl" in a request body (Unset for None)

ASSUME GroupAssumption == BodyTtls \subseteq Nat \cup {Unset}

VARIABLES
  group,   \* group[k]: the members of k; an empty set does not exist
  ttl      \* ttl[k]: the TTL of k

groups == <<group, ttl>>

Present(k) == group[k] # {}

AnyKey == CHOOSE k \in Groups : TRUE
AnyMember == CHOOSE m \in Members : TRUE
Readers == {"members", "contains", "count", "batch_get", "set_op"}
GroupCalls ==
  [op: {"add"}, key: Groups, member: Members, ttl: BodyTtls] \cup
  [op: {"batch_add"}, key: {AnyKey}, member: {AnyMember}, ttl: BodyTtls] \cup
  [op: {"remove"}, key: Groups, member: Members, ttl: {Unset}] \cup
  [op: {"delete"} \cup Readers, key: Groups, member: {AnyMember}, ttl: {Unset}] \cup
  [op: {"touch"}, key: Groups, member: {AnyMember}, ttl: BodyTtls \ {Unset}]
NoCall == [op |-> "none", key |-> AnyKey, member |-> AnyMember, ttl |-> Unset]

GroupInit ==
  /\ group = [k \in Groups |-> {}]
  /\ ttl = [k \in Groups |-> NoTtl]
  /\ InitRequests(NoCall, 0)

AskedTtl(r) == resolve_ttl(call[r].ttl)

(* Group k becomes S with TTL t; without members it is gone. *)
Become(k, S, t) ==
  /\ group' = [group EXCEPT ![k] = S]
  /\ ttl' = [ttl EXCEPT ![k] = IF S = {} THEN NoTtl ELSE t]

-------------------------------------------------------------------------------
ArriveWith(r, calls) ==
  /\ pc[r] = "idle"
  /\ \E c \in {c \in calls : c.op \in Endpoints} :
       /\ call' = [call EXCEPT ![r] = c]
       /\ RoundTrip(r, c.op)
  /\ UNCHANGED <<groups, reply>>

(* 400 or 403 before any command. *)
Refuse(r) ==
  /\ pc[r] = "idle"
  /\ Respond(r, 400, NoTtl)
  /\ UNCHANGED groups

(* add_group: SADD, EXPIRE or PERSIST, TTL. *)
Sadd(r) ==
  LET k == call[r].key IN
  /\ pc[r] = "add"
  /\ Become(k, group[k] \cup {call[r].member}, ttl[k])
  /\ Replied(r, Cardinality({call[r].member} \ group[k]))
  /\ Step(r, "expire")

BatchAdd_NoExpire(r) ==
  /\ pc[r] = "batch_add"
  /\ group' = [k \in Groups |-> Members]
  /\ Replied(r, Cardinality(Groups))
  /\ Step(r, "answer")
  /\ UNCHANGED ttl

(* batch_add_group: MULTI, SADD and EXPIRE or PERSIST of every key, EXEC. *)
BatchAdd(r) ==
  /\ pc[r] = "batch_add"
  /\ group' = [k \in Groups |-> Members]
  /\ ttl' = [k \in Groups |-> ExpireOrPersist(AskedTtl(r))]
  /\ Replied(r, Cardinality(Groups))
  /\ Step(r, "answer")

Expire(r) ==
  LET k == call[r].key IN
  /\ pc[r] = "expire"
  /\ Become(k, group[k], ExpireOrPersist(AskedTtl(r)))
  /\ Step(r, "ttl")
  /\ UNCHANGED reply

Ttl(r) ==
  LET k == call[r].key IN
  /\ pc[r] = "ttl"
  /\ TtlReplied(r, TtlReply(Present(k), ttl[k]))
  /\ Step(r, "answer")
  /\ UNCHANGED groups

(* SREM and DEL. *)
Remove(r) ==
  LET k == call[r].key
      S == IF pc[r] = "remove" THEN {call[r].member} ELSE Members
  IN
  /\ pc[r] \in {"remove", "delete"}
  /\ Become(k, group[k] \ S, ttl[k])
  /\ Replied(r, IF group[k] \cap S = {} THEN 0 ELSE 1)
  /\ Step(r, "answer")

(* SMEMBERS, SISMEMBER, SCARD, the pipeline of SMEMBERS of batch_get, the  *)
(* SINTER, SUNION or SDIFF of _set_op; the EXISTS of touch_key.            *)
Read(r) ==
  /\ pc[r] \in Readers \cup {"touch"}
  /\ Replied(r, Cardinality(group[call[r].key]))
  /\ Step(r, IF pc[r] = "touch" THEN "expire" ELSE "answer")
  /\ UNCHANGED groups

Answer(r) ==
  LET o == call[r].op
      found == IF result[r] = 0 THEN 404 ELSE 200
  IN
  /\ pc[r] = "answer"
  /\ \/ o = "add" /\ Respond(r, 200, MetaTtl(meta[r]))
     \/ o \in {"batch_add"} \cup Readers /\ Respond(r, 200, NoTtl)
     \/ o \in {"remove", "delete"} /\ Respond(r, found, NoTtl)
     \/ o = "touch" /\ Respond(r, IF meta[r] = Missing THEN 404 ELSE found, meta[r])
  /\ UNCHANGED groups

GroupLost(r) == Lost(r) /\ UNCHANGED groups

GroupGone(k) == Become(k, {}, NoTtl) /\ UNCHANGED <<control, reply>>
GroupExpires(k) == Present(k) /\ ttl[k] > 0 /\ GroupGone(k)
GroupEvicted(k) == Present(k) /\ GroupGone(k)

GroupHandler(r) ==
  \/ Sadd(r) \/ BatchAdd(r) \/ Expire(r) \/ Ttl(r) \/ Remove(r) \/ Read(r) \/ Answer(r)
===============================================================================
