------------------------------- MODULE MapRoutes -------------------------------
(***************************************************************************)
(* app/routers/map.py: hashes.                                             *)
(*                                                                         *)
(* The value of a field is named by the request that wrote it.  A set of a *)
(* map and a batch write every field; a pipeline(transaction=True) is one  *)
(* step, a pipeline(transaction=False) one step per command.               *)
(***************************************************************************)
EXTENDS RoundTrips, FiniteSets

CONSTANTS Endpoints,   \* the endpoints the requests call
          Keys, Fields,
          BodyTtls,    \* values of "ttl" in a request body (Unset for None)
          NoReq        \* the writer of an absent field

(* A map without fields is refused (schemas/map.py).                       *)
ASSUME MapAssumption == BodyTtls \subseteq Nat \cup {Unset} /\ NoReq \notin Reqs /\ Fields # {}

VARIABLES
  hash,    \* hash[k][f]: the request that wrote field f of k
  ttl      \* ttl[k]: the TTL of k

store == <<hash, ttl>>
vars == <<store, control, reply>>

NoFields == [f \in Fields |-> NoReq]
Present(k) == hash[k] # NoFields

(* A reply: the maps read so far, by key. *)
NoReply == [k \in {} |-> NoFields]
Replies == UNION {[K -> [Fields -> Reqs \cup {NoReq}]] : K \in SUBSET Keys}

Calls ==
  [op: {"set_map"}, key: Keys, field: {CHOOSE f \in Fields : TRUE}, ttl: BodyTtls] \cup
  [op: {"batch_set"}, key: {CHOOSE k \in Keys : TRUE}, field: {CHOOSE f \in Fields : TRUE},
   ttl: BodyTtls] \cup
  [op: {"set_field"}, key: Keys, field: Fields, ttl: BodyTtls] \cup
  [op: {"get", "delete"}, key: Keys, field: {CHOOSE f \in Fields : TRUE}, ttl: {Unset}] \cup
  [op: {"batch_get"}, key: {CHOOSE k \in Keys : TRUE}, field: {CHOOSE f \in Fields : TRUE},
   ttl: {Unset}] \cup
  [op: {"get_field", "delete_field"}, key: Keys, field: Fields, ttl: {Unset}] \cup
  [op: {"touch"}, key: Keys, field: {CHOOSE f \in Fields : TRUE}, ttl: BodyTtls \ {Unset}]
NoCall == [op |-> "none", key |-> CHOOSE k \in Keys : TRUE, field |-> CHOOSE f \in Fields : TRUE,
           ttl |-> Unset]

Init ==
  /\ hash = [k \in Keys |-> NoFields]
  /\ ttl = [k \in Keys |-> NoTtl]
  /\ InitRequests(NoCall, NoReply)

AskedTtl(r) == resolve_ttl(call[r].ttl)
Tx(r) == call[r].op # "set_field" \/ AskedTtl(r) > 0

-------------------------------------------------------------------------------
Arrive(r) ==
  /\ pc[r] = "idle"
  /\ \E c \in {c \in Calls : c.op \in Endpoints} :
       /\ call' = [call EXCEPT ![r] = c]
       /\ RoundTrip(r, c.op)
  /\ UNCHANGED <<store, reply>>

(* 403 or 400 before any command. *)
Refuse(r) ==
  /\ pc[r] = "idle"
  /\ Respond(r, 400, NoTtl)
  /\ UNCHANGED store

(* HSET, EXPIRE or PERSIST, and TTL of the keys K in one MULTI/EXEC. *)
Write(r, K, F) ==
  /\ hash' = [k \in Keys |-> IF k \in K THEN [f \in Fields |-> IF f \in F THEN r ELSE hash[k][f]]
                                        ELSE hash[k]]
  /\ ttl' = [k \in Keys |-> IF k \in K THEN ExpireOrPersist(AskedTtl(r)) ELSE ttl[k]]
  /\ TtlReplied(r, ExpireOrPersist(AskedTtl(r)))
  /\ Step(r, "answer")

(* HSET alone, the first command of a pipeline without a transaction. *)
Hset(r, f, then) ==
  /\ hash' = [hash EXCEPT ![call[r].key][f] = r]
  /\ Step(r, then)
  /\ UNCHANGED <<ttl, reply>>

SetMap_NoTransaction(r) == pc[r] = "set_map" /\ Hset(r, call[r].field, "expire")
SetMap(r) == pc[r] = "set_map" /\ Write(r, {call[r].key}, Fields)

BatchSet_Pipeline(r) ==
  \/ /\ pc[r] = "batch_set"
     /\ hash' = [hash EXCEPT ![call[r].key] = [f \in Fields |-> r]]
     /\ Step(r, "rest")
     /\ UNCHANGED <<ttl, reply>>
  \/ pc[r] = "rest" /\ Write(r, Keys \ {call[r].key}, Fields)
BatchSet(r) == pc[r] = "batch_set" /\ Write(r, Keys, Fields)

(* set_map_field: a transaction when there is a TTL, a pipeline when not. *)
SetField(r) ==
  /\ pc[r] = "set_field"
  /\ \/ Tx(r) /\ Write(r, {call[r].key}, {call[r].field})
     \/ ~Tx(r) /\ Hset(r, call[r].field, "expire")

(* HGETALL / HGET, then TTL. *)
Get(r) ==
  /\ pc[r] \in {"get", "get_field"}
  /\ Replied(r, [k \in {call[r].key} |-> hash[k]])
  /\ Step(r, "ttl")
  /\ UNCHANGED store

(* batch_get_map: one HGETALL after the other, from the first one again    *)
(* when the pipeline is sent again.                                        *)
BatchGet(r) ==
  LET read == IF pc[r] = "batch_get" THEN {} ELSE DOMAIN result[r] IN
  /\ pc[r] \in {"batch_get", "hgetall"}
  /\ \E k \in Keys \ read :
       /\ Replied(r, [j \in read \cup {k} |-> IF j = k THEN hash[k] ELSE result[r][j]])
       /\ Step(r, IF read \cup {k} = Keys THEN "answer" ELSE "hgetall")
  /\ UNCHANGED store

(* touch_key: EXISTS ... *)
TouchExists(r) ==
  /\ pc[r] = "touch"
  /\ Replied(r, [k \in {call[r].key} |-> hash[k]])
  /\ Step(r, "expire")
  /\ UNCHANGED store

(* ... EXPIRE or PERSIST, also the PERSIST of set_map_field ... *)
Expire(r) ==
  /\ pc[r] = "expire"
  /\ ttl' = [ttl EXCEPT ![call[r].key] = IF Present(call[r].key) THEN ExpireOrPersist(AskedTtl(r))
                                                                 ELSE NoTtl]
  /\ Step(r, "ttl")
  /\ UNCHANGED <<hash, reply>>

(* ... and TTL. *)
Ttl(r) ==
  /\ pc[r] = "ttl"
  /\ TtlReplied(r, TtlReply(Present(call[r].key), ttl[call[r].key]))
  /\ Step(r, "answer")
  /\ UNCHANGED store

(* DEL and HDEL; a hash without fields takes its key and TTL with it. *)
Remove(k, F) ==
  /\ hash' = [hash EXCEPT ![k] = [f \in Fields |-> IF f \in F THEN NoReq ELSE @[f]]]
  /\ ttl' = [ttl EXCEPT ![k] = IF hash'[k] = NoFields THEN NoTtl ELSE @]

Delete(r) ==
  /\ pc[r] \in {"delete", "delete_field"}
  /\ Replied(r, [k \in {call[r].key} |-> hash[k]])
  /\ Remove(call[r].key, IF pc[r] = "delete" THEN Fields ELSE {call[r].field})
  /\ Step(r, "answer")

(* The response.  The TTL of a transaction is reported as it is. *)
Found(r) ==
  LET m == result[r][call[r].key] IN
  IF call[r].op \in {"get_field", "delete_field"} THEN m[call[r].field] # NoReq ELSE m # NoFields

Answer(r) ==
  LET o == call[r].op IN
  /\ pc[r] = "answer"
  /\ \/ o \in {"set_map", "set_field"} /\ Respond(r, 200, IF Tx(r) THEN meta[r] ELSE MetaTtl(meta[r]))
     \/ o \in {"get", "get_field"}       /\ Respond(r, IF Found(r) THEN 200 ELSE 404, MetaTtl(meta[r]))
     \/ o \in {"delete", "delete_field"} /\ Respond(r, IF Found(r) THEN 200 ELSE 404, NoTtl)
     \/ o = "touch" /\ Respond(r, IF Found(r) /\ meta[r] # Missing THEN 200 ELSE 404, meta[r])
     \/ o \in {"batch_get", "batch_set"} /\ Respond(r, 200, NoTtl)
  /\ UNCHANGED store

LoseRoundTrip(r) == Lost(r) /\ UNCHANGED store

KeyExpires(k) == Present(k) /\ ttl[k] > 0 /\ Remove(k, Fields) /\ UNCHANGED <<control, reply>>
KeyEvicted(k) == Present(k) /\ Remove(k, Fields) /\ UNCHANGED <<control, reply>>

Handler(r) ==
  \/ SetMap(r) \/ BatchSet(r) \/ SetField(r) \/ Get(r) \/ BatchGet(r)
  \/ TouchExists(r) \/ Expire(r) \/ Ttl(r) \/ Delete(r) \/ Answer(r)

Next ==
  \/ \E r \in Reqs : Arrive(r) \/ Refuse(r) \/ Handler(r) \/ LoseRoundTrip(r)
  \/ \E k \in Keys : KeyExpires(k) \/ KeyEvicted(k)

Spec == Init /\ [][Next]_vars

-------------------------------------------------------------------------------
(* Properties *)

(* Every variable stays in its type; a key that does not exist has no TTL. *)
TypeOK ==
  /\ hash \in [Keys -> [Fields -> Reqs \cup {NoReq}]]
  /\ ttl \in [Keys -> Nat \cup {NoTtl}]
  /\ \A k \in Keys : ~Present(k) => ttl[k] = NoTtl
  /\ call \in [Reqs -> Calls \cup {NoCall}]
  /\ tries \in [Reqs -> 0..Retries]
  /\ result \in [Reqs -> Replies]
  /\ meta \in [Reqs -> Nat \cup {NoTtl, Missing}]
  /\ status \in [Reqs -> {0, 200, 400, 404, 500}]

(* Concurrent batches do not mix: the fields of all maps that were written *)
(* by batches come from one batch, and the fields of one map written by    *)
(* whole-map writes from one write.                                        *)
WholeWrites ==
  LET By(k, f, ops) == hash[k][f] \in Reqs /\ call[hash[k][f]].op \in ops IN
  \A k, l \in Keys : \A f, g \in Fields :
    \/ By(k, f, {"batch_set"}) /\ By(l, g, {"batch_set"})
    \/ k = l /\ By(k, f, {"batch_set", "set_map"}) /\ By(l, g, {"batch_set", "set_map"})
    => hash[k][f] = hash[l][g]

TtlSetters == {"set_map", "batch_set", "set_field", "touch"}

(* A write and its TTL are one, which set_map relies on: at no point, not  *)
(* between the commands of a write and not after a lost reply, does a write*)
(* with a TTL leave a map that cannot expire (some request asked for none, *)
(* if a map has none), and no 200 carries the meta.ttl = -2 of a map that  *)
(* went in between.                                                        *)
TtlWithWrite ==
  /\ \A k \in Keys :
       Present(k) /\ ttl[k] = NoTtl =>
         \E r \in Reqs : call[r].op \in TtlSetters /\ AskedTtl(r) = 0
  /\ \A r \in Reqs : status[r] = 200 => meta[r] # Missing
===============================================================================
