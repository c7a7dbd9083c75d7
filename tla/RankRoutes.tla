------------------------------ MODULE RankRoutes ------------------------------
(***************************************************************************)
(* app/routers/rank.py: one sorted set.                                    *)
(*                                                                         *)
(* A score is a double: the finite ones are -Big..Big, beyond them are the *)
(* two infinities and NaN.  A sum that leaves the finite range becomes an  *)
(* infinity, and Redis refuses only NaN.                                   *)
(***************************************************************************)
EXTENDS RoundTrips, FiniteSets

CONSTANTS Endpoints,   \* the endpoints the requests call
          Members,
          Scores,      \* body.score, body.delta and a bound of between_rank
          BodyTtls,    \* values of "ttl" in a request body (Unset for None)
          Big          \* the largest finite double

Inf == Big + 1
NegInf == -Big - 1
NaN == Big + 2
AllScores == NegInf..NaN
IsFinite(s) == s \in -Big..Big

ASSUME RankAssumption ==
  /\ Big \in Nat /\ Scores \subseteq AllScores
  /\ BodyTtls \subseteq Nat \cup {Unset} /\ IsFiniteSet(Members)

VARIABLES
  zset,    \* the members present and their scores
  ttl,     \* the TTL of the key
  wrote    \* wrote[r]: a command of r has changed the key or its TTL

store == <<zset, ttl, wrote>>
vars == <<store, control, reply>>

Empty == [m \in {} |-> 0]
Exists == zset # Empty
With(M, s) == [m \in DOMAIN zset \cup M |-> IF m \in M THEN s ELSE zset[m]]
Without(M) == [m \in DOMAIN zset \ M |-> zset[m]]

Adders == {"add", "batch_add"}
Readers == {"range", "score", "batch_get"}
AnyMember == CHOOSE m \in Members : TRUE
Calls ==
  [op: {"add"}, member: Members, score: Scores, ttl: BodyTtls] \cup
  [op: {"batch_add"}, member: {AnyMember}, score: Scores, ttl: BodyTtls] \cup
  [op: {"incr"}, member: Members, score: Scores, ttl: {Unset}] \cup
  [op: {"between"}, member: {AnyMember}, score: Scores, ttl: {Unset}] \cup
  [op: {"remove", "score"}, member: Members, score: {0}, ttl: {Unset}] \cup
  [op: {"pop_min", "pop_max", "delete"} \cup Readers, member: {AnyMember}, score: {0},
   ttl: {Unset}] \cup
  [op: {"touch"}, member: {AnyMember}, score: {0}, ttl: BodyTtls \ {Unset}]
NoCall == [op |-> "none", member |-> AnyMember, score |-> 0, ttl |-> Unset]

(* A reply is a number: a count, a score, 1 for found and 0 for not found; *)
(* -1 is a ResponseError.                                                  *)
Rejected == -1

Init ==
  /\ zset = Empty /\ ttl = NoTtl
  /\ wrote = [r \in Reqs |-> FALSE]
  /\ InitRequests(NoCall, 0)

(* The key becomes z with TTL t, by a command of r; an empty sorted set    *)
(* takes its key and TTL with it.                                          *)
Become(r, z, t) ==
  /\ zset' = z
  /\ ttl' = IF z = Empty THEN NoTtl ELSE t
  /\ wrote' = [wrote EXCEPT ![r] = @ \/ z # zset \/ ttl' # ttl]

-------------------------------------------------------------------------------
(* add_rank, batch_add_rank and incr_rank refuse nan and inf before they   *)
(* send a command; between_rank leaves that to Redis.                      *)
Accepts_Any(c) == TRUE
Accepts(c) == c.op = "between" \/ IsFinite(c.score)

Arrive(r) ==
  /\ pc[r] = "idle"
  /\ \E c \in {c \in Calls : c.op \in Endpoints} :
       /\ Accepts(c)
       /\ call' = [call EXCEPT ![r] = c]
       /\ RoundTrip(r, c.op)
  /\ UNCHANGED <<store, reply>>

Refuse(r) ==
  /\ pc[r] = "idle"
  /\ Respond(r, 400, NoTtl)
  /\ UNCHANGED store

(* ZADD; the pipeline goes on to EXPIRE or PERSIST even when it is refused.*)
Zadd(r) ==
  LET M == IF pc[r] = "add" THEN {call[r].member} ELSE Members
      refused == call[r].score = NaN
  IN
  /\ pc[r] \in Adders
  /\ Become(r, IF refused THEN zset ELSE With(M, call[r].score), ttl)
  /\ Replied(r, IF refused THEN Rejected ELSE Cardinality(M))
  /\ Step(r, "expire")

Expire(r) ==
  /\ pc[r] = "expire"
  /\ Become(r, zset, ExpireOrPersist(resolve_ttl(call[r].ttl)))
  /\ Step(r, "ttl")
  /\ UNCHANGED reply

Ttl(r) ==
  /\ pc[r] = "ttl"
  /\ TtlReplied(r, TtlReply(Exists, ttl))
  /\ Step(r, "answer")
  /\ UNCHANGED store

(* The sum of two doubles. *)
Sum(a, b) ==
  IF NaN \in {a, b} \/ {a, b} = {Inf, NegInf} THEN NaN
  ELSE IF Inf \in {a, b} \/ a + b > Big THEN Inf
  ELSE IF NegInf \in {a, b} \/ a + b < -Big THEN NegInf
  ELSE a + b

(* ZINCRBY, which keeps the TTL and refuses NaN. *)
Zincrby(r) ==
  LET m == call[r].member
      sum == Sum(IF m \in DOMAIN zset THEN zset[m] ELSE 0, call[r].score)
  IN
  /\ pc[r] = "incr"
  /\ Become(r, IF sum = NaN THEN zset ELSE With({m}, sum), ttl)
  /\ Replied(r, IF sum = NaN THEN Rejected ELSE 1)
  /\ Step(r, "ttl")

(* ZPOPMIN / ZPOPMAX, ZREM, DEL: what goes, and how much of it there was. *)
Lowest == {m \in DOMAIN zset : \A n \in DOMAIN zset : zset[m] <= zset[n]}
Highest == {m \in DOMAIN zset : \A n \in DOMAIN zset : zset[m] >= zset[n]}

Pop(r) ==
  LET best == IF pc[r] = "pop_min" THEN Lowest ELSE Highest IN
  /\ pc[r] \in {"pop_min", "pop_max"}
  /\ \/ \E m \in best : Become(r, Without({m}), ttl) /\ Replied(r, 1)
     \/ ~Exists /\ Replied(r, 0) /\ UNCHANGED store
  /\ Step(r, "answer")

Remove(r) ==
  LET M == IF pc[r] = "delete" THEN Members ELSE {call[r].member} IN
  /\ pc[r] \in {"remove", "delete"}
  /\ Become(r, Without(M), ttl)
  /\ Replied(r, IF M \cap DOMAIN zset = {} THEN 0 ELSE 1)
  /\ Step(r, "answer")

(* ZRANGE, ZREVRANGE, ZSCORE; the EXISTS of touch_key. *)
Read(r) ==
  /\ pc[r] \in Readers \cup {"touch"}
  /\ Replied(r, IF pc[r] = "score" THEN (IF call[r].member \in DOMAIN zset THEN 1 ELSE 0)
                                   ELSE (IF Exists THEN 1 ELSE 0))
  /\ Step(r, IF pc[r] = "touch" THEN "expire" ELSE "answer")
  /\ UNCHANGED store

(* ZRANGEBYSCORE, which is refused when a bound is NaN. *)
Between(r) ==
  /\ pc[r] = "between"
  /\ Replied(r, IF call[r].score = NaN THEN Rejected ELSE IF Exists THEN 1 ELSE 0)
  /\ Step(r, "answer")
  /\ UNCHANGED store

(* The response. *)
Answer(r) ==
  LET o == call[r].op
      found == IF result[r] = 0 THEN 404 ELSE 200
  IN
  /\ pc[r] = "answer"
  /\ \/ /\ o \in Adders \cup {"incr", "between"}
        /\ Respond(r, IF result[r] = Rejected THEN 400 ELSE 200,
                      IF o = "between" THEN NoTtl ELSE MetaTtl(meta[r]))
     \/ /\ o \in {"pop_min", "pop_max", "remove", "delete", "score"}
        /\ Respond(r, found, NoTtl)
     \/ o = "touch" /\ Respond(r, IF meta[r] = Missing THEN 404 ELSE found, meta[r])
     \/ o \in {"range", "batch_get"} /\ Respond(r, 200, NoTtl)
  /\ UNCHANGED store

LoseRoundTrip(r) == Lost(r) /\ UNCHANGED store

Vanish == zset' = Empty /\ ttl' = NoTtl /\ UNCHANGED <<wrote, control, reply>>
KeyExpires == Exists /\ ttl > 0 /\ Vanish
KeyEvicted == Exists /\ Vanish

Handler(r) ==
  \/ Zadd(r) \/ Expire(r) \/ Ttl(r) \/ Zincrby(r) \/ Pop(r) \/ Remove(r)
  \/ Read(r) \/ Between(r) \/ Answer(r)

Next ==
  \/ \E r \in Reqs : Arrive(r) \/ Refuse(r) \/ Handler(r) \/ LoseRoundTrip(r)
  \/ KeyExpires \/ KeyEvicted

Spec == Init /\ [][Next]_vars

(* A handler that waits for Redis gets a reply or a timeout. *)
FairSpec == Spec /\ \A r \in Reqs : WF_vars(Handler(r) \/ LoseRoundTrip(r))

-------------------------------------------------------------------------------
(* Properties *)

(* Every variable stays in its type; no stored score is NaN. *)
TypeOK ==
  /\ DOMAIN zset \subseteq Members /\ \A m \in DOMAIN zset : zset[m] \in NegInf..Inf
  /\ ttl \in Nat \cup {NoTtl} /\ (~Exists => ttl = NoTtl)
  /\ wrote \in [Reqs -> BOOLEAN]
  /\ call \in [Reqs -> Calls \cup {NoCall}]
  /\ tries \in [Reqs -> 0..Retries]
  /\ result \in [Reqs -> Int]
  /\ meta \in [Reqs -> Nat \cup {NoTtl, Missing}]
  /\ status \in [Reqs -> {0, 200, 400, 404, 500}]

(* A write that is answered 400 has changed neither the sorted set nor its *)
(* TTL: no command of it reached the EXPIRE of its pipeline.               *)
RefusedHasNoEffect == \A r \in Reqs : status[r] = 400 => ~wrote[r]

(* Every request that reached a handler is answered: a round trip ends in  *)
(* a reply or a timeout, and redis-py repeats it a bounded number of times.*)
Answered == \A r \in Reqs : pc[r] # "idle" ~> pc[r] = "done"
===============================================================================
