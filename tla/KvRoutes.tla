------------------------------- MODULE KvRoutes -------------------------------
(***************************************************************************)
(* app/routers/kv.py: strings, counters and SETNX locks.                   *)
(*                                                                         *)
(* A stored value is text or an integer (Redis parses it on INCRBY) and is *)
(* labelled with the request that wrote it.  Integers are those of a       *)
(* signed word, IntMin..IntMax, int64 in Redis.  A batch writes every key. *)
(***************************************************************************)
EXTENDS RoundTrips, FiniteSets

CONSTANTS Endpoints,   \* the endpoints the requests call
          Keys,
          BodyTtls,    \* values of "ttl" in a request body (Unset for None)
          Numbers,     \* integers a set may store
          Deltas,      \* body.delta of an increment
          IntMin, IntMax,
          NoReq        \* the writer of a missing value

ASSUME KvAssumption ==
  /\ IntMin \in Int /\ IntMax \in Int /\ IntMin <= 0 /\ 0 <= IntMax
  /\ BodyTtls \subseteq Nat \cup {Unset}
  /\ Numbers \subseteq IntMin..IntMax /\ Deltas \subseteq IntMin..IntMax
  /\ NoReq \notin Reqs

VARIABLES
  db,      \* db[k]: the string stored under k
  ttl,     \* ttl[k]: its TTL
  age,     \* age[k]: how often k was overwritten or removed
  saw      \* saw[r]: age of its key when a command of r last changed it

store == <<db, ttl, age, saw>>
vars == <<store, control, reply>>

Text(r) == [kind |-> "text", n |-> 0, by |-> r]
Number(r, n) == [kind |-> "int", n |-> n, by |-> r]
Absent == [kind |-> "none", n |-> 0, by |-> NoReq]
Entries == [kind: {"text", "int", "none"}, n: IntMin..IntMax, by: Reqs \cup {NoReq}]
Present(k) == db[k] # Absent

(* The endpoints and what they read: a value to store (text or a number),  *)
(* a delta, a TTL.                                                         *)
Writers == {"set", "nx", "batch_set"}
Calls ==
  [op: {"set", "nx"}, key: Keys, value: {"text"}, n: {0}, ttl: BodyTtls] \cup
  [op: {"set"}, key: Keys, value: {"number"}, n: Numbers, ttl: BodyTtls] \cup
  [op: {"batch_set"}, key: {CHOOSE k \in Keys : TRUE}, value: {"text"}, n: {0}, ttl: BodyTtls] \cup
  [op: {"get", "delete", "exists"}, key: Keys, value: {"text"}, n: {0}, ttl: {Unset}] \cup
  [op: {"batch_get"}, key: {CHOOSE k \in Keys : TRUE}, value: {"text"}, n: {0},
   ttl: {Unset}] \cup
  [op: {"incr"}, key: Keys, value: {"number"}, n: Deltas, ttl: {Unset}] \cup
  [op: {"touch"}, key: Keys, value: {"text"}, n: {0}, ttl: BodyTtls \ {Unset}]
NoCall == [op |-> "none", key |-> CHOOSE k \in Keys : TRUE, value |-> "text", n |-> 0,
           ttl |-> Unset]

Init ==
  /\ db = [k \in Keys |-> Absent]
  /\ ttl = [k \in Keys |-> NoTtl]
  /\ age = [k \in Keys |-> 0]
  /\ saw = [r \in Reqs |-> 0]
  /\ InitRequests(NoCall, Absent)

(* The value r asks to store, and the TTL it asks for. *)
Value(r) == IF call[r].value = "number" THEN Number(r, call[r].n) ELSE Text(r)
AskedTtl(r) == resolve_ttl(call[r].ttl)

(* SET or SETEX on the keys S: what was there is gone, its TTL too. *)
Store_KeepTtl(S, e, t) ==
  /\ db' = [k \in Keys |-> IF k \in S THEN e ELSE db[k]]
  /\ ttl' = [k \in Keys |-> IF k \in S /\ t > 0 THEN t ELSE ttl[k]]
  /\ age' = [k \in Keys |-> IF k \in S /\ Present(k) THEN age[k] + 1 ELSE age[k]]
Store(S, e, t) ==
  /\ db' = [k \in Keys |-> IF k \in S THEN e ELSE db[k]]
  /\ ttl' = [k \in Keys |-> IF k \in S THEN ExpireOrPersist(t) ELSE ttl[k]]
  /\ age' = [k \in Keys |-> IF k \in S /\ Present(k) THEN age[k] + 1 ELSE age[k]]

-------------------------------------------------------------------------------
(* The request reaches its handler. *)
Arrive(r) ==
  /\ pc[r] = "idle"
  /\ \E c \in {c \in Calls : c.op \in Endpoints} :
       /\ call' = [call EXCEPT ![r] = c]
       /\ RoundTrip(r, c.op)
  /\ UNCHANGED <<store, reply>>

(* 403, 400 VALUE_TOO_LARGE or INVALID_KEY: refused before any command. *)
Refuse(r) ==
  /\ pc[r] = "idle"
  /\ Respond(r, 400, NoTtl)
  /\ UNCHANGED store

(* set_kv: SETEX or SET, one command. *)
Set(r) ==
  /\ pc[r] = "set"
  /\ Store({call[r].key}, Value(r), AskedTtl(r))
  /\ Step(r, "answer")
  /\ UNCHANGED <<saw, reply>>

(* batch_set_kv: one MULTI/EXEC. *)
BatchSet_Pipeline(r) ==
  /\ \/ /\ pc[r] = "batch_set"
        /\ Store({call[r].key}, Value(r), AskedTtl(r))
        /\ Step(r, "rest")
     \/ /\ pc[r] = "rest"
        /\ Store(Keys \ {call[r].key}, Value(r), AskedTtl(r))
        /\ Step(r, "answer")
  /\ UNCHANGED <<saw, reply>>

BatchSet(r) ==
  /\ pc[r] = "batch_set"
  /\ Store(Keys, Value(r), AskedTtl(r))
  /\ Step(r, "answer")
  /\ UNCHANGED <<saw, reply>>

(* set_kv_nx: SET NX, with EX when there is a TTL; the reply is None when  *)
(* the key exists.                                                         *)
SetNx_Overwrite(r) ==
  /\ pc[r] = "nx"
  /\ Store({call[r].key}, Value(r), AskedTtl(r))
  /\ saw' = [saw EXCEPT ![r] = age[call[r].key]]
  /\ Replied(r, Value(r))
  /\ Step(r, "answer")

SetNx_GetSet(r) ==
  /\ pc[r] = "nx"
  /\ Store({call[r].key}, Value(r), AskedTtl(r))
  /\ Replied(r, IF Present(call[r].key) THEN Absent ELSE Value(r))
  /\ Step(r, "answer")
  /\ UNCHANGED saw

SetNx(r) ==
  LET k == call[r].key IN
  /\ pc[r] = "nx"
  /\ \/ /\ Present(k)
        /\ Replied(r, Absent)
        /\ UNCHANGED store
     \/ /\ ~Present(k)
        /\ Store({k}, Value(r), AskedTtl(r))
        /\ saw' = [saw EXCEPT ![r] = age[k]]
        /\ Replied(r, Value(r))
  /\ Step(r, "answer")

(* get_kv: GET, then TTL. *)
Get(r) ==
  /\ pc[r] = "get"
  /\ Replied(r, db[call[r].key])
  /\ Step(r, "ttl")
  /\ UNCHANGED store

(* batch_get_kv: MGET, every key at one instant. *)
BatchGet(r) ==
  /\ pc[r] = "batch_get"
  /\ Step(r, "answer")
  /\ UNCHANGED <<store, reply>>
(* INCRBY: refused when the value is no integer or the sum leaves the word *)
(* (the reply is then an error), else the TTL is kept.                     *)
IncrRefused_NoOverflowCheck(k, delta) == db[k].kind = "text"
IncrRefused(k, delta) ==
  db[k].kind = "text" \/ db[k].n + delta \notin IntMin..IntMax

Incr(r) ==
  LET k == call[r].key
      sum == Number(r, db[k].n + call[r].n)
  IN
  /\ pc[r] = "incr"
  /\ \/ /\ IncrRefused(k, call[r].n)
        /\ Replied(r, Absent)
        /\ UNCHANGED store
     \/ /\ ~IncrRefused(k, call[r].n)
        /\ db' = [db EXCEPT ![k] = sum]
        /\ saw' = [saw EXCEPT ![r] = age[k]]
        /\ Replied(r, sum)
        /\ UNCHANGED <<ttl, age>>
  /\ Step(r, "ttl")

(* touch_key: EXISTS ... *)
TouchExists(r) ==
  /\ pc[r] = "touch"
  /\ Replied(r, db[call[r].key])
  /\ Step(r, "expire")
  /\ UNCHANGED store

(* ... EXPIRE or PERSIST, nothing on a key that does not exist ... *)
Expire(r) ==
  /\ pc[r] = "expire"
  /\ ttl' = [ttl EXCEPT ![call[r].key] = IF Present(call[r].key) THEN ExpireOrPersist(AskedTtl(r))
                                                                 ELSE NoTtl]
  /\ Step(r, "ttl")
  /\ UNCHANGED <<db, age, saw, reply>>

(* ... and TTL, which ends the pipelines of get, incr and touch. *)
Ttl(r) ==
  /\ pc[r] = "ttl"
  /\ TtlReplied(r, TtlReply(Present(call[r].key), ttl[call[r].key]))
  /\ Step(r, "answer")
  /\ UNCHANGED store

(* A key is removed: by DEL, by its TTL or by eviction. *)
Drop(k) ==
  /\ db' = [db EXCEPT ![k] = Absent]
  /\ ttl' = [ttl EXCEPT ![k] = NoTtl]
  /\ age' = [age EXCEPT ![k] = IF Present(k) THEN @ + 1 ELSE @]
  /\ UNCHANGED saw

Delete(r) ==
  /\ pc[r] = "delete"
  /\ Replied(r, db[call[r].key])
  /\ Drop(call[r].key)
  /\ Step(r, "answer")

ExistsKey(r) ==
  /\ pc[r] = "exists"
  /\ Replied(r, db[call[r].key])
  /\ Step(r, "answer")
  /\ UNCHANGED store

(* The response. *)
TouchStatus(r) == IF result[r] = Absent \/ meta[r] = Missing THEN 404 ELSE 200

Answer(r) ==
  LET op == call[r].op
      none == result[r] = Absent
  IN
  /\ pc[r] = "answer"
  /\ \/ op = "get"    /\ Respond(r, IF none THEN 404 ELSE 200,
                                 IF none THEN NoTtl ELSE MetaTtl(meta[r]))
     \/ op = "incr"   /\ Respond(r, IF none THEN 400 ELSE 200, MetaTtl(meta[r]))
     \/ op = "nx"     /\ Respond(r, IF none THEN 409 ELSE 200, ExpireOrPersist(AskedTtl(r)))
     \/ op = "delete" /\ Respond(r, IF none THEN 404 ELSE 200, NoTtl)
     \/ op = "touch"  /\ Respond(r, TouchStatus(r), meta[r])
     \/ op = "set"    /\ Respond(r, 200, ExpireOrPersist(AskedTtl(r)))
     \/ op \in {"exists", "batch_get", "batch_set"} /\ Respond(r, 200, NoTtl)
  /\ UNCHANGED store

LoseRoundTrip(r) == Lost(r) /\ UNCHANGED store

(* Redis drops a key whose TTL has run out, or evicts any (allkeys-lru). *)
KeyExpires(k) == Present(k) /\ ttl[k] > 0 /\ Drop(k) /\ UNCHANGED <<control, reply>>
KeyEvicted(k) == Present(k) /\ Drop(k) /\ UNCHANGED <<control, reply>>

Handler(r) ==
  \/ Set(r) \/ BatchSet(r) \/ SetNx(r) \/ Get(r) \/ BatchGet(r) \/ Incr(r)
  \/ TouchExists(r) \/ Expire(r) \/ Ttl(r) \/ Delete(r) \/ ExistsKey(r) \/ Answer(r)

Next ==
  \/ \E r \in Reqs : Arrive(r) \/ Refuse(r) \/ Handler(r) \/ LoseRoundTrip(r)
  \/ \E k \in Keys : KeyExpires(k) \/ KeyEvicted(k)

Spec == Init /\ [][Next]_vars

-------------------------------------------------------------------------------
(* Properties *)

(* Every variable stays in its type; a counter stays inside its word. *)
TypeOK ==
  /\ db \in [Keys -> Entries]
  /\ ttl \in [Keys -> Nat \cup {NoTtl}]
  /\ age \in [Keys -> Nat] /\ saw \in [Reqs -> Nat]
  /\ call \in [Reqs -> Calls \cup {NoCall}]
  /\ tries \in [Reqs -> 0..Retries]
  /\ result \in [Reqs -> Entries]
  /\ meta \in [Reqs -> Nat \cup {NoTtl, Missing}]
  /\ status \in [Reqs -> {0, 200, 400, 404, 409, 500}]

(* Two batches never leave a mix: when two keys hold values written by     *)
(* batch sets, it is the same batch, so an MGET reads one batch or none.   *)
BatchAtomic ==
  LET ByBatch(k) == db[k].by \in Reqs /\ call[db[k].by].op = "batch_set"
  IN \A k, l \in Keys : ByBatch(k) /\ ByBatch(l) => db[k].by = db[l].by

Done(op, code) == {r \in Reqs : call[r].op = op /\ status[r] = code}

(* The lock: while a key is neither overwritten nor removed, one request   *)
(* at most is told it has acquired it.                                     *)
NxExclusive ==
  \A r, s \in Done("nx", 200) :
    r # s /\ call[r].key = call[s].key => saw[r] # saw[s]

(* A request refused the lock does not hold it, unless it was sent twice:  *)
(* the first execution acquired, its reply was lost, the second was told   *)
(* the key exists.                                                         *)
NxRefusedByOther ==
  \A r \in Done("nx", 409) : tries[r] = 0 => \A k \in Keys : db[k].by # r

(* A key has a TTL exactly if its writer asked for one, unless a touch     *)
(* changed that: SET without TTL clears the old one, and SET NX EX never   *)
(* leaves a lock that cannot expire.                                       *)
TtlMatchesWriter ==
  \A k \in Keys :
    LET w == db[k].by IN
    w \in Reqs /\ call[w].op \in Writers =>
      \/ (ttl[k] > 0) = (AskedTtl(w) > 0)
      \/ \E r \in Reqs : call[r].op = "touch" /\ call[r].key = k /\ ttl[k] = ExpireOrPersist(AskedTtl(r))
===============================================================================
