---------------------------- MODULE RankRoutesProofs ----------------------------
(***************************************************************************)
(* Proofs about RankRoutes for every set of requests, every finite set of  *)
(* members, all scores and TTLs, every range of the doubles and any number *)
(* of retries.                                                             *)
(***************************************************************************)
EXTENDS RankRoutes, FiniteSetTheorems, TLAPS

Ops == Adders \cup Readers \cup {"incr", "between", "remove", "pop_min", "pop_max", "delete", "touch"}

-------------------------------------------------------------------------------
(* Types *)

LEMMA CallType ==
  ASSUME NEW c \in Calls
  PROVE  /\ c.op \in Ops
         /\ c.op \in {"add", "incr", "remove"} => c.member \in Members
         /\ c.op \in {"add", "batch_add", "incr"} => c.score \in AllScores
         /\ ExpireOrPersist(resolve_ttl(c.ttl)) \in Nat \cup {NoTtl}
<1>1. c.op \in Ops
  BY DEF Calls, Ops, Adders, Readers
<1>2. c.op \in {"add", "incr", "remove"} => c.member \in Members
  BY DEF Calls, Readers
<1>3. c.op \in {"add", "batch_add", "incr"} => c.score \in AllScores
  BY RankAssumption DEF Calls, Readers
<1>4. c.ttl \in Nat \cup {Unset}
  BY RankAssumption DEF Calls
<1>5. resolve_ttl(c.ttl) \in Nat
  BY <1>4, DefaultTtlAssumption DEF resolve_ttl
<1> QED
  BY <1>1, <1>2, <1>3, <1>5 DEF ExpireOrPersist

(* A request in flight is on the path of its call, whose score is finite   *)
(* if it is one to be stored; a lost round trip starts with that call.     *)
Control ==
  \A r \in Reqs :
    /\ pc[r] = "idle" => call[r] = NoCall
    /\ pc[r] \notin {"idle", "done"} =>
         /\ call[r] \in Calls /\ Accepts(call[r])
         /\ rt[r] = call[r].op
         /\ pc[r] \in {call[r].op, "expire", "ttl", "answer"}
         /\ pc[r] = "expire" => call[r].op \in Adders \cup {"touch"}

Shape ==
  /\ pc \in [Reqs -> {"idle", "done", "expire", "ttl", "answer"} \cup Ops]
  /\ rt \in [Reqs -> {"idle"} \cup Ops]

Finite(z) == DOMAIN z \subseteq Members /\ \A m \in DOMAIN z : z[m] \in NegInf..Inf

StoreTyped ==
  /\ Finite(zset)
  /\ ttl \in Nat \cup {NoTtl} /\ (~Exists => ttl = NoTtl)
  /\ wrote \in [Reqs -> BOOLEAN]

ControlTyped ==
  /\ call \in [Reqs -> Calls \cup {NoCall}]
  /\ tries \in [Reqs -> 0..Retries]

(* Redis refuses no command that writes, only reads of between_rank: a     *)
(* score it stores is not NaN, and the sum of a stored and a finite score  *)
(* is not.                                                                 *)
ReplyTyped ==
  /\ result \in [Reqs -> Nat \cup {Rejected}]
  /\ meta \in [Reqs -> Nat \cup {NoTtl, Missing}]
  /\ status \in [Reqs -> {0, 200, 400, 404, 500}]

RankType == StoreTyped /\ ControlTyped /\ ReplyTyped /\ Shape /\ Control

LEMMA AtCommand ==
  ASSUME RankType, NEW r \in Reqs, pc[r] \notin {"idle", "done"}
  PROVE  /\ call[r] \in Calls /\ call[r].op \in Ops /\ rt[r] = call[r].op
         /\ pc[r] \in Ops => call[r].op = pc[r]
         /\ pc[r] \in {"add", "incr", "remove"} => call[r].member \in Members
         /\ pc[r] \in {"add", "batch_add", "incr"} => call[r].score \in -Big..Big
         /\ ExpireOrPersist(resolve_ttl(call[r].ttl)) \in Nat \cup {NoTtl}
<1>1. /\ call[r] \in Calls /\ Accepts(call[r]) /\ rt[r] = call[r].op
      /\ pc[r] \in {call[r].op, "expire", "ttl", "answer"}
  BY DEF RankType, Control
<1>2. pc[r] \in Ops => call[r].op = pc[r]
  BY <1>1 DEF Ops, Adders, Readers
<1>3. call[r].op # "between" => call[r].score \in -Big..Big
  BY <1>1 DEF Accepts, IsFinite
<1> QED
  BY <1>1, <1>2, <1>3, CallType DEF Ops, Adders, Readers

(* The scores after a write, and what is stored of them. *)
LEMMA WithType ==
  ASSUME Finite(zset), NEW M \in SUBSET Members, NEW s \in NegInf..Inf
  PROVE  Finite(With(M, s))
BY DEF Finite, With

LEMMA WithoutType ==
  ASSUME Finite(zset), NEW M
  PROVE  Finite(Without(M))
BY DEF Finite, Without

LEMMA SumType ==
  ASSUME NEW a \in NegInf..Inf, NEW b \in -Big..Big
  PROVE  Sum(a, b) \in NegInf..Inf
BY RankAssumption DEF Sum, NaN, Inf, NegInf

LEMMA BecomeType ==
  ASSUME StoreTyped, NEW r \in Reqs, NEW z, NEW t \in Nat \cup {NoTtl}, Finite(z), Become(r, z, t)
  PROVE  StoreTyped' /\ \A v \in Reqs \ {r} : wrote'[v] = wrote[v]
<1>1. /\ zset' = z /\ ttl' = (IF z = Empty THEN NoTtl ELSE t)
      /\ wrote' = [wrote EXCEPT ![r] = wrote[r] \/ z # zset \/ ttl' # ttl]
  BY DEF Become
<1>2. (wrote[r] \/ z # zset \/ ttl' # ttl) \in BOOLEAN
  OBVIOUS
<1>3. wrote' \in [Reqs -> BOOLEAN] /\ \A v \in Reqs \ {r} : wrote'[v] = wrote[v]
  BY <1>1, <1>2 DEF StoreTyped
<1>4. Finite(zset)' /\ Empty' = Empty
  BY <1>1 DEF Finite, Empty
<1> QED
  BY <1>1, <1>3, <1>4 DEF StoreTyped, Exists

-------------------------------------------------------------------------------
(* Every step keeps the types and the paths. *)

LEMMA RankTypeInit == Init => RankType
<1> SUFFICES ASSUME Init PROVE RankType
  OBVIOUS
<1>1. StoreTyped
  BY DEF Init, StoreTyped, Finite, Exists, Empty
<1>2. ControlTyped /\ ReplyTyped
  BY RetriesAssumption DEF Init, InitRequests, ControlTyped, ReplyTyped
<1>3. Shape /\ Control
  BY DEF Init, InitRequests, Shape, Control
<1> QED
  BY <1>1, <1>2, <1>3 DEF RankType

(* A step inside a round trip, of a request that stays on its path. *)
LEMMA StepControl ==
  ASSUME RankType, NEW r \in Reqs, NEW p, Step(r, p), pc[r] \notin {"idle", "done"},
         p \in {"expire", "ttl", "answer"},
         p = "expire" => call[r].op \in Adders \cup {"touch"}
  PROVE  ControlTyped' /\ Shape' /\ Control'
<1>1. Shape' /\ ControlTyped'
  BY DEF Step, RankType, Shape, ControlTyped
<1>2. Control'
  <2> SUFFICES ASSUME NEW v \in Reqs
               PROVE  /\ pc'[v] = "idle" => call'[v] = NoCall
                      /\ pc'[v] \notin {"idle", "done"} =>
                           /\ call'[v] \in Calls /\ Accepts(call[v])'
                           /\ rt'[v] = call'[v].op
                           /\ pc'[v] \in {call'[v].op, "expire", "ttl", "answer"}
                           /\ pc'[v] = "expire" => call'[v].op \in Adders \cup {"touch"}
    BY DEF Control
  <2>1. /\ pc'[v] = (IF v = r THEN p ELSE pc[v])
        /\ rt' = rt /\ call' = call /\ Accepts(call[v])' = Accepts(call[v])
    BY DEF Step, RankType, Shape, Accepts, IsFinite
  <2> QED
    BY <2>1 DEF RankType, Control
<1> QED
  BY <1>1, <1>2

(* A data command replies with a count. *)
LEMMA CountType ==
  ASSUME RankType, NEW r \in Reqs, NEW v \in Nat, Replied(r, v)
  PROVE  /\ ReplyTyped' /\ UNCHANGED status /\ result'[r] # Rejected
         /\ \A u \in Reqs \ {r} : result'[u] = result[u]
BY DEF Replied, RankType, ReplyTyped, Rejected

(* The response of a request, or the end of its last round trip. *)
LEMMA RespondType ==
  ASSUME RankType, NEW r \in Reqs, NEW code \in {200, 400, 404, 500},
         NEW t \in Nat \cup {NoTtl, Missing}, Respond(r, code, t)
  PROVE  /\ ReplyTyped' /\ ControlTyped' /\ Shape' /\ Control'
         /\ pc' = [pc EXCEPT ![r] = "done"] /\ status' = [status EXCEPT ![r] = code]
         /\ UNCHANGED <<call, result>>
<1>1. ReplyTyped' /\ ControlTyped' /\ Shape'
  BY DEF Respond, RankType, ReplyTyped, ControlTyped, Shape
<1>2. Control'
  BY DEF Respond, RankType, Control, Shape, Accepts, IsFinite
<1> QED
  BY <1>1, <1>2 DEF Respond

(* What is left alone keeps its type. *)
LEMMA StoreKept ==
  ASSUME RankType, UNCHANGED store
  PROVE  StoreTyped' /\ UNCHANGED wrote
BY DEF store, RankType, StoreTyped, Finite, Exists, Empty

(* Neither an idle request nor a read nor one answered 400 has written,    *)
(* only a request that is done has a status, and only between_rank is      *)
(* refused by Redis.                                                       *)
Unwritten ==
  \A r \in Reqs :
    /\ pc[r] = "idle" => ~wrote[r]
    /\ pc[r] # "done" => status[r] = 0
    /\ status[r] = 400 => ~wrote[r]
    /\ call[r].op = "between" => ~wrote[r]
    /\ result[r] = Rejected => call[r].op = "between"

RankInv == RankType /\ Unwritten

-------------------------------------------------------------------------------
(* The commands of a handler.  A step of r touches no other request, and   *)
(* does not answer 400 to a write.                                         *)
Private(r) ==
  /\ pc'[r] # "idle" /\ (pc'[r] # "done" => status'[r] = 0)
  /\ status'[r] = 400 => call'[r].op = "between"
  /\ call'[r].op = "between" => ~wrote'[r]
  /\ result'[r] = Rejected => call'[r].op = "between"
  /\ \A v \in Reqs \ {r} : /\ pc'[v] = pc[v] /\ status'[v] = status[v] /\ wrote'[v] = wrote[v]
                           /\ call'[v] = call[v] /\ result'[v] = result[v]

LEMMA StepPrivate ==
  ASSUME RankInv, NEW r \in Reqs, NEW p, Step(r, p), UNCHANGED status,
         pc[r] \notin {"idle", "done"}, p \in {"expire", "ttl", "answer"},
         \A v \in Reqs \ {r} : wrote'[v] = wrote[v] /\ result'[v] = result[v],
         call[r].op # "between" \/ wrote'[r] = wrote[r],
         result'[r] = result[r] \/ result'[r] # Rejected \/ call[r].op = "between"
  PROVE  Private(r)
BY DEF Step, RankInv, RankType, Shape, Unwritten, Private

LEMMA ZaddStep ==
  ASSUME RankInv, NEW r \in Reqs, Zadd(r)
  PROVE  RankType' /\ Private(r)
<1> DEFINE M == IF pc[r] = "add" THEN {call[r].member} ELSE Members
<1> RankType /\ StoreTyped
  BY DEF RankInv, RankType
<1>1. pc[r] \in Adders /\ pc[r] \in Ops /\ pc[r] \notin {"idle", "done"}
  BY DEF Zadd, Adders, Ops
<1>2. /\ call[r].op = pc[r] /\ call[r].score \in -Big..Big
      /\ pc[r] = "add" => call[r].member \in Members
  BY <1>1, AtCommand DEF Adders
<1>3. call[r].score # NaN /\ call[r].score \in NegInf..Inf
  BY <1>2, RankAssumption DEF NaN, NegInf, Inf
<1>4. /\ Become(r, With(M, call[r].score), ttl) /\ Replied(r, Cardinality(M)) /\ Step(r, "expire")
  BY <1>3 DEF Zadd
<1>5. M \in SUBSET Members /\ Cardinality(M) \in Nat
  <2>1. M \in SUBSET Members
    BY <1>1, <1>2
  <2>2. IsFiniteSet(M)
    BY <2>1, RankAssumption, FS_Subset
  <2> QED
    BY <2>1, <2>2, FS_CardinalityType
<1> HIDE DEF M
<1>6. PICK z, n : Become(r, z, ttl) /\ Replied(r, n) /\ Finite(z) /\ n \in Nat
  <2>1. Finite(With(M, call[r].score))
    BY <1>3, <1>5, WithType DEF StoreTyped
  <2> QED
    BY <1>4, <1>5, <2>1
<1>7. StoreTyped' /\ \A v \in Reqs \ {r} : wrote'[v] = wrote[v]
  BY <1>6, BecomeType DEF StoreTyped
<1>8. /\ ReplyTyped' /\ UNCHANGED status /\ result'[r] # Rejected
      /\ \A v \in Reqs \ {r} : result'[v] = result[v]
  BY <1>6, CountType
<1>9. ControlTyped' /\ Shape' /\ Control'
  BY <1>1, <1>2, <1>4, StepControl
<1>10. Private(r)
  BY <1>1, <1>2, <1>4, <1>7, <1>8, StepPrivate DEF Adders
<1> QED
  BY <1>7, <1>8, <1>9, <1>10 DEF RankType

LEMMA ExpireStep ==
  ASSUME RankInv, NEW r \in Reqs, Expire(r)
  PROVE  RankType' /\ Private(r)
<1> RankType /\ StoreTyped /\ ReplyTyped
  BY DEF RankInv, RankType
<1>1. /\ pc[r] = "expire" /\ Step(r, "ttl") /\ UNCHANGED reply
      /\ Become(r, zset, ExpireOrPersist(resolve_ttl(call[r].ttl)))
  BY DEF Expire
<1>2. PICK t \in Nat \cup {NoTtl} : Become(r, zset, t)
  BY <1>1, AtCommand
<1>3. StoreTyped' /\ \A v \in Reqs \ {r} : wrote'[v] = wrote[v]
  BY <1>2, BecomeType DEF StoreTyped
<1>4. ReplyTyped' /\ UNCHANGED status
  BY <1>1 DEF reply, ReplyTyped
<1>5. ControlTyped' /\ Shape' /\ Control'
  BY <1>1, StepControl
<1>6. call[r].op # "between" /\ UNCHANGED result
  BY <1>1 DEF RankType, Control, Adders, reply
<1>7. Private(r)
  BY <1>1, <1>3, <1>4, <1>6, StepPrivate
<1> QED
  BY <1>3, <1>4, <1>5, <1>7 DEF RankType

LEMMA TtlStep ==
  ASSUME RankInv, NEW r \in Reqs, Ttl(r)
  PROVE  RankType' /\ Private(r)
<1> RankType /\ StoreTyped /\ ReplyTyped
  BY DEF RankInv, RankType
<1>1. /\ pc[r] = "ttl" /\ Step(r, "answer") /\ UNCHANGED store
      /\ TtlReplied(r, TtlReply(Exists, ttl))
  BY DEF Ttl
<1>2. StoreTyped' /\ UNCHANGED wrote
  BY <1>1, StoreKept
<1>3. ReplyTyped' /\ UNCHANGED <<status, result>>
  BY <1>1 DEF TtlReplied, TtlReply, ReplyTyped, StoreTyped
<1>4. ControlTyped' /\ Shape' /\ Control'
  BY <1>1, StepControl
<1>5. Private(r)
  BY <1>1, <1>2, <1>3, StepPrivate
<1> QED
  BY <1>2, <1>3, <1>4, <1>5 DEF RankType

LEMMA ZincrbyStep ==
  ASSUME RankInv, NEW r \in Reqs, Zincrby(r)
  PROVE  RankType' /\ Private(r)
<1> DEFINE m == call[r].member
           sum == Sum(IF m \in DOMAIN zset THEN zset[m] ELSE 0, call[r].score)
<1> RankType /\ StoreTyped
  BY DEF RankInv, RankType
<1>1. pc[r] = "incr" /\ Step(r, "ttl")
  BY DEF Zincrby
<1>2. call[r].score \in -Big..Big /\ m \in Members /\ call[r].op = "incr"
  BY <1>1, AtCommand DEF Ops
<1>3. (IF m \in DOMAIN zset THEN zset[m] ELSE 0) \in NegInf..Inf
  BY RankAssumption DEF StoreTyped, Finite, NegInf, Inf
<1>4. sum \in NegInf..Inf
  BY <1>2, <1>3, SumType
<1>5. sum # NaN
  BY <1>4, RankAssumption DEF NegInf, Inf, NaN
<1>6. Become(r, With({m}, sum), ttl) /\ Replied(r, 1)
  BY <1>5 DEF Zincrby
<1>7. Finite(With({m}, sum))
  BY <1>2, <1>4, WithType DEF StoreTyped
<1>8. PICK z : Become(r, z, ttl) /\ Finite(z)
  BY <1>6, <1>7
<1> HIDE DEF m, sum
<1>9. StoreTyped' /\ \A v \in Reqs \ {r} : wrote'[v] = wrote[v]
  BY <1>8, BecomeType DEF StoreTyped
<1>10. /\ ReplyTyped' /\ UNCHANGED status /\ result'[r] # Rejected
       /\ \A v \in Reqs \ {r} : result'[v] = result[v]
  BY <1>6, CountType
<1>11. ControlTyped' /\ Shape' /\ Control'
  BY <1>1, StepControl
<1>12. Private(r)
  BY <1>1, <1>2, <1>9, <1>10, StepPrivate
<1> QED
  BY <1>9, <1>10, <1>11, <1>12 DEF RankType

LEMMA PopStep ==
  ASSUME RankInv, NEW r \in Reqs, Pop(r)
  PROVE  RankType' /\ Private(r)
<1> RankType /\ StoreTyped
  BY DEF RankInv, RankType
<1>1. /\ pc[r] \notin {"idle", "done"} /\ Step(r, "answer")
      /\ pc[r] \in {"pop_min", "pop_max"}
  BY DEF Pop
<1>2. /\ \/ \E M : Become(r, Without(M), ttl)
         \/ UNCHANGED store
      /\ \E n \in Nat : Replied(r, n)
  BY DEF Pop
<1>3. StoreTyped' /\ \A v \in Reqs \ {r} : wrote'[v] = wrote[v]
  <2>1. CASE \E M : Become(r, Without(M), ttl)
    <3>1. PICK z : Become(r, z, ttl) /\ Finite(z)
      BY <2>1, WithoutType DEF StoreTyped
    <3> QED
      BY <3>1, BecomeType DEF StoreTyped
  <2>2. CASE UNCHANGED store
    BY <2>2, StoreKept
  <2> QED
    BY <1>2, <2>1, <2>2
<1>4. /\ ReplyTyped' /\ UNCHANGED status /\ result'[r] # Rejected
      /\ \A v \in Reqs \ {r} : result'[v] = result[v]
  BY <1>2, CountType
<1>5. ControlTyped' /\ Shape' /\ Control'
  BY <1>1, StepControl
<1>6. Private(r)
  <2>1. call[r].op # "between"
    BY <1>1, AtCommand DEF Ops
  <2> QED
    BY <1>1, <1>3, <1>4, <2>1, StepPrivate
<1> QED
  BY <1>3, <1>4, <1>5, <1>6 DEF RankType

LEMMA RemoveStep ==
  ASSUME RankInv, NEW r \in Reqs, Remove(r)
  PROVE  RankType' /\ Private(r)
<1> RankType /\ StoreTyped
  BY DEF RankInv, RankType
<1>1. /\ pc[r] \notin {"idle", "done"} /\ Step(r, "answer")
      /\ pc[r] \in {"remove", "delete"}
  BY DEF Remove
<1>2. (\E M : Become(r, Without(M), ttl)) /\ \E n \in Nat : Replied(r, n)
  BY DEF Remove
<1>3. PICK z : Become(r, z, ttl) /\ Finite(z)
  BY <1>2, WithoutType DEF StoreTyped
<1>4. StoreTyped' /\ \A v \in Reqs \ {r} : wrote'[v] = wrote[v]
  BY <1>3, BecomeType DEF StoreTyped
<1>5. /\ ReplyTyped' /\ UNCHANGED status /\ result'[r] # Rejected
      /\ \A v \in Reqs \ {r} : result'[v] = result[v]
  BY <1>2, CountType
<1>6. ControlTyped' /\ Shape' /\ Control'
  BY <1>1, StepControl
<1>7. Private(r)
  <2>1. call[r].op # "between"
    BY <1>1, AtCommand DEF Ops
  <2> QED
    BY <1>1, <1>4, <1>5, <2>1, StepPrivate
<1> QED
  BY <1>4, <1>5, <1>6, <1>7 DEF RankType

LEMMA ReadStep ==
  ASSUME RankInv, NEW r \in Reqs, Read(r)
  PROVE  RankType' /\ Private(r)
<1> RankType
  BY DEF RankInv
<1>1. /\ pc[r] \in Readers \cup {"touch"} /\ UNCHANGED store
      /\ Step(r, IF pc[r] = "touch" THEN "expire" ELSE "answer")
      /\ \E n \in Nat : Replied(r, n)
  BY DEF Read
<1>2. pc[r] \notin {"idle", "done"} /\ (pc[r] = "touch" => call[r].op = "touch")
  BY <1>1, AtCommand DEF Readers, Ops
<1>3. PICK p : /\ Step(r, p) /\ p \in {"expire", "answer"}
               /\ p = "expire" => call[r].op = "touch"
  BY <1>1, <1>2
<1>4. StoreTyped' /\ UNCHANGED wrote
  BY <1>1, StoreKept
<1>5. /\ ReplyTyped' /\ UNCHANGED status /\ result'[r] # Rejected
      /\ \A v \in Reqs \ {r} : result'[v] = result[v]
  BY <1>1, CountType
<1>6. ControlTyped' /\ Shape' /\ Control'
  BY <1>2, <1>3, StepControl
<1>7. Private(r)
  BY <1>2, <1>3, <1>4, <1>5, StepPrivate
<1> QED
  BY <1>4, <1>5, <1>6, <1>7 DEF RankType

LEMMA BetweenStep ==
  ASSUME RankInv, NEW r \in Reqs, Between(r)
  PROVE  RankType' /\ Private(r)
<1> RankType
  BY DEF RankInv
<1>1. /\ pc[r] = "between" /\ UNCHANGED store /\ Step(r, "answer")
      /\ \E n \in Nat \cup {Rejected} : Replied(r, n)
  BY DEF Between
<1>2. call[r].op = "between"
  BY <1>1, AtCommand DEF Ops
<1>3. StoreTyped' /\ UNCHANGED wrote
  BY <1>1, StoreKept
<1>4. /\ ReplyTyped' /\ UNCHANGED status
      /\ \A v \in Reqs \ {r} : result'[v] = result[v]
  BY <1>1 DEF Replied, RankType, ReplyTyped
<1>5. ControlTyped' /\ Shape' /\ Control'
  BY <1>1, StepControl
<1>6. Private(r)
  BY <1>1, <1>2, <1>3, <1>4, StepPrivate
<1> QED
  BY <1>3, <1>4, <1>5, <1>6 DEF RankType

(* A response other than the refusal of a write. *)
LEMMA RespondPrivate ==
  ASSUME RankInv, NEW r \in Reqs, NEW code \in {200, 400, 404, 500},
         NEW t \in Nat \cup {NoTtl, Missing}, code = 400 => call[r].op = "between",
         Respond(r, code, t), UNCHANGED store
  PROVE  RankType' /\ Private(r)
<1> RankType
  BY DEF RankInv
<1>1. /\ ReplyTyped' /\ ControlTyped' /\ Shape' /\ Control'
      /\ pc' = [pc EXCEPT ![r] = "done"] /\ status' = [status EXCEPT ![r] = code]
      /\ UNCHANGED <<call, result>>
  BY RespondType
<1>2. StoreTyped' /\ UNCHANGED wrote
  BY StoreKept
<1>3. Private(r)
  BY <1>1, <1>2 DEF Private, RankType, Shape, ReplyTyped, RankInv, Unwritten
<1> QED
  BY <1>1, <1>2, <1>3 DEF RankType

LEMMA AnswerStep ==
  ASSUME RankInv, NEW r \in Reqs, Answer(r)
  PROVE  RankType' /\ Private(r)
<1>1. /\ meta[r] \in Nat \cup {NoTtl, Missing} /\ MetaTtl(meta[r]) \in Nat \cup {NoTtl, Missing}
      /\ result[r] = Rejected => call[r].op = "between"
  BY DEF RankInv, RankType, ReplyTyped, Unwritten, MetaTtl
<1>2. UNCHANGED store
  BY DEF Answer
<1>3. PICK code, t : Respond(r, code, t) /\ code \in {200, 400, 404}
                     /\ (code = 400 => result[r] = Rejected)
                     /\ t \in {MetaTtl(meta[r]), NoTtl, meta[r]}
  <2>1. CASE call[r].op \in Adders \cup {"incr", "between"}
    <3>1. call[r].op \notin {"pop_min", "pop_max", "remove", "delete", "score", "touch", "range", "batch_get"}
      BY <2>1 DEF Adders
    <3> QED
      BY <3>1 DEF Answer
  <2>2. CASE call[r].op \notin Adders \cup {"incr", "between"}
    BY <2>2 DEF Answer
  <2> QED
    BY <2>1, <2>2
<1>4. code \in {200, 400, 404, 500} /\ t \in Nat \cup {NoTtl, Missing}
  BY <1>1, <1>3
<1>5. code = 400 => call[r].op = "between"
  BY <1>1, <1>3
<1> QED
  BY <1>2, <1>3, <1>4, <1>5, RespondPrivate

LEMMA LoseStep ==
  ASSUME RankInv, NEW r \in Reqs, LoseRoundTrip(r)
  PROVE  RankType' /\ Private(r)
<1> RankType
  BY DEF RankInv
<1>1. pc[r] \notin {"idle", "done"} /\ UNCHANGED store
  BY DEF LoseRoundTrip, Lost
<1>2. CASE /\ tries[r] < Retries
           /\ pc' = [pc EXCEPT ![r] = rt[r]]
           /\ tries' = [tries EXCEPT ![r] = tries[r] + 1]
           /\ UNCHANGED <<rt, call, reply>>
  <2>1. /\ rt[r] = call[r].op /\ rt[r] \in Ops /\ rt[r] \notin {"idle", "done", "expire", "ttl", "answer"}
    BY <1>1, AtCommand DEF Ops, Adders, Readers
  <2>2. StoreTyped' /\ UNCHANGED wrote
    BY <1>1, StoreKept
  <2>3. ReplyTyped' /\ UNCHANGED <<status, result, call>>
    BY <1>2 DEF reply, RankType, ReplyTyped
  <2>4. ControlTyped' /\ Shape'
    <3>1. tries' \in [Reqs -> 0..Retries]
      BY <1>2, RetriesAssumption DEF RankType, ControlTyped
    <3> QED
      BY <1>2, <2>1, <3>1 DEF RankType, ControlTyped, Shape
  <2>5. \A v \in Reqs : pc'[v] = IF v = r THEN rt[r] ELSE pc[v]
    BY <1>2 DEF RankType, Shape
  <2>6. Control'
    <3>1. rt' = rt /\ call' = call /\ \A v \in Reqs : Accepts(call[v])' = Accepts(call[v])
      BY <1>2 DEF Accepts, IsFinite
    <3> QED
      BY <1>1, <2>1, <2>5, <3>1 DEF RankType, Control
  <2>7. Private(r)
    BY <1>1, <2>1, <2>2, <2>3, <2>5 DEF RankInv, Unwritten, Private
  <2> QED
    BY <2>2, <2>3, <2>4, <2>6, <2>7 DEF RankType
<1>3. CASE Respond(r, 500, NoTtl)
  <2>1. PICK code, t : Respond(r, code, t) /\ code = 500 /\ t = NoTtl
    BY <1>3
  <2>2. /\ code \in {200, 400, 404, 500} /\ t \in Nat \cup {NoTtl, Missing}
        /\ code = 400 => call[r].op = "between"
    BY <2>1
  <2> QED
    BY <1>1, <2>1, <2>2, RespondPrivate
<1> QED
  BY <1>2, <1>3 DEF LoseRoundTrip, Lost

LEMMA HandlerStep ==
  ASSUME RankInv, NEW r \in Reqs, Handler(r) \/ LoseRoundTrip(r)
  PROVE  RankType' /\ Private(r)
BY ZaddStep, ExpireStep, TtlStep, ZincrbyStep, PopStep, RemoveStep, ReadStep, BetweenStep, AnswerStep, LoseStep
DEF Handler

-------------------------------------------------------------------------------
(* The requests that reach the store at all, and the two invariants. *)

LEMMA ArriveStep ==
  ASSUME RankInv, NEW r \in Reqs, Arrive(r)
  PROVE  RankType' /\ Private(r)
<1> RankType
  BY DEF RankInv
<1>1. PICK c \in Calls : /\ Accepts(c) /\ call' = [call EXCEPT ![r] = c] /\ RoundTrip(r, c.op)
                         /\ pc[r] = "idle" /\ UNCHANGED <<store, reply>>
  BY DEF Arrive
<1>2. c.op \in Ops /\ c.op \notin {"idle", "done", "expire", "ttl", "answer"}
  BY CallType DEF Ops, Adders, Readers
<1>3. StoreTyped' /\ UNCHANGED wrote
  BY <1>1, StoreKept
<1>4. /\ ReplyTyped' /\ UNCHANGED <<status, result>>
      /\ ~wrote[r] /\ result[r] # Rejected /\ status[r] = 0
  <2>1. NoCall.op # "between"
    BY DEF NoCall
  <2> QED
    BY <1>1, <2>1 DEF reply, RankType, ReplyTyped, RankInv, Unwritten, Control
<1>5. \A v \in Reqs : /\ pc'[v] = IF v = r THEN c.op ELSE pc[v]
                      /\ rt'[v] = IF v = r THEN c.op ELSE rt[v]
                      /\ call'[v] = IF v = r THEN c ELSE call[v]
  BY <1>1 DEF RoundTrip, RankType, Shape, ControlTyped
<1>6. ControlTyped' /\ Shape'
  BY <1>1, <1>2, RetriesAssumption DEF RoundTrip, RankType, ControlTyped, Shape
<1>7. Control'
  <2>1. \A v \in Reqs : Accepts(call[v])' = IF v = r THEN Accepts(c) ELSE Accepts(call[v])
    BY <1>5 DEF Accepts, IsFinite
  <2> QED
    BY <1>1, <1>2, <1>5, <2>1 DEF RankType, Control
<1>8. Private(r)
  BY <1>1, <1>2, <1>3, <1>4, <1>5 DEF RankInv, Unwritten, Private
<1> QED
  BY <1>3, <1>4, <1>6, <1>7, <1>8 DEF RankType

LEMMA RefuseStep ==
  ASSUME RankInv, NEW r \in Reqs, Refuse(r)
  PROVE  RankInv'
<1> RankType
  BY DEF RankInv
<1>1. pc[r] = "idle" /\ Respond(r, 400, NoTtl) /\ UNCHANGED store
  BY DEF Refuse
<1>2. /\ ReplyTyped' /\ ControlTyped' /\ Shape' /\ Control'
      /\ pc' = [pc EXCEPT ![r] = "done"] /\ status' = [status EXCEPT ![r] = 400]
      /\ UNCHANGED <<call, result>>
  <2>1. /\ pc' = [pc EXCEPT ![r] = "done"] /\ status' = [status EXCEPT ![r] = 400]
        /\ meta' = [meta EXCEPT ![r] = NoTtl] /\ UNCHANGED <<rt, tries, call, result>>
    BY <1>1 DEF Respond
  <2>2. PICK code, t : /\ Respond(r, code, t) /\ code = 400 /\ t = NoTtl
    BY <1>1
  <2>3. code \in {200, 400, 404, 500} /\ t \in Nat \cup {NoTtl, Missing}
    BY <2>2
  <2>4. ReplyTyped' /\ ControlTyped' /\ Shape' /\ Control'
    BY <2>2, <2>3, RespondType
  <2> QED
    BY <2>1, <2>4
<1>3. StoreTyped' /\ UNCHANGED wrote
  BY <1>1, StoreKept
<1>4. Unwritten'
  BY <1>1, <1>2, <1>3 DEF RankInv, Unwritten, RankType, Shape, ReplyTyped
<1> QED
  BY <1>2, <1>3, <1>4 DEF RankInv, RankType

LEMMA VanishStep ==
  ASSUME RankInv, Vanish
  PROVE  RankInv'
<1> USE DEF RankInv
<1>1. zset' = Empty /\ ttl' = NoTtl /\ UNCHANGED <<wrote, control, reply>>
  BY DEF Vanish
<1>2. StoreTyped'
  BY <1>1 DEF RankType, StoreTyped, Finite, Exists, Empty
<1>3. ReplyTyped' /\ ControlTyped' /\ Shape'
  BY <1>1 DEF control, reply, RankType, ReplyTyped, ControlTyped, Shape
<1>4. Control' /\ Unwritten'
  BY <1>1 DEF control, reply, RankType, Control, Unwritten, Accepts, IsFinite
<1> QED
  BY <1>2, <1>3, <1>4 DEF RankType

LEMMA StutterStep ==
  ASSUME RankInv, UNCHANGED vars
  PROVE  RankInv'
<1>1. UNCHANGED store /\ UNCHANGED control /\ UNCHANGED reply
  BY DEF vars
<1>2. StoreTyped' /\ UNCHANGED wrote
  BY <1>1, StoreKept DEF RankInv
<1>3. ReplyTyped' /\ ControlTyped' /\ Shape'
  BY <1>1 DEF control, reply, RankInv, RankType, ReplyTyped, ControlTyped, Shape
<1>4. Control' /\ Unwritten'
  BY <1>1, <1>2 DEF control, reply, RankInv, RankType, Control, Unwritten, Accepts, IsFinite
<1> QED
  BY <1>2, <1>3, <1>4 DEF RankInv, RankType

LEMMA PrivateUnwritten ==
  ASSUME Unwritten, NEW r \in Reqs, Private(r)
  PROVE  Unwritten'
BY DEF Unwritten, Private

LEMMA RankInvStep == RankInv /\ [Next]_vars => RankInv'
<1> SUFFICES ASSUME RankInv, [Next]_vars PROVE RankInv'
  OBVIOUS
<1>1. ASSUME NEW r \in Reqs, Arrive(r) \/ Handler(r) \/ LoseRoundTrip(r) PROVE RankInv'
  <2>1. RankType' /\ Private(r)
    BY <1>1, ArriveStep, HandlerStep
  <2> QED
    BY <2>1, PrivateUnwritten DEF RankInv
<1>2. ASSUME NEW r \in Reqs, Refuse(r) PROVE RankInv'
  BY <1>2, RefuseStep
<1>3. CASE KeyExpires \/ KeyEvicted
  BY <1>3, VanishStep DEF KeyExpires, KeyEvicted
<1>4. CASE UNCHANGED vars
  BY <1>4, StutterStep
<1> QED
  BY <1>1, <1>2, <1>3, <1>4 DEF Next

LEMMA RankInvInit == Init => RankInv
<1> SUFFICES ASSUME Init PROVE Unwritten
  BY RankTypeInit DEF RankInv
<1>1. NoCall.op # "between" /\ 0 # Rejected
  BY DEF NoCall, Rejected
<1> QED
  BY <1>1 DEF Init, InitRequests, Unwritten

(* Every variable keeps its type; above all no stored score is NaN, so no  *)
(* ZADD and no ZINCRBY is refused by Redis in the middle of its pipeline.  *)
THEOREM RankTypeCorrect == Spec => []TypeOK
<1>1. RankInv => TypeOK
  BY DEF RankInv, RankType, StoreTyped, ControlTyped, ReplyTyped, Rejected, Finite, TypeOK
<1> QED
  BY <1>1, RankInvInit, RankInvStep, PTL DEF Spec

(* A request that rank.py answers 400 has changed neither the sorted set   *)
(* nor its TTL: scores are refused before the pipeline that also EXPIREs.  *)
THEOREM RefusedBeforeAnyWrite == Spec => []RefusedHasNoEffect
<1>1. RankInv => RefusedHasNoEffect
  BY DEF RankInv, Unwritten, RefusedHasNoEffect
<1> QED
  BY <1>1, RankInvInit, RankInvStep, PTL DEF Spec
===============================================================================
