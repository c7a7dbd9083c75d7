------------------------------ MODULE EventRoutes ------------------------------
(***************************************************************************)
(* app/routers/event.py: a stream with consumer groups.                    *)
(*                                                                         *)
(* XADD generates increasing entry IDs, by the clock of Redis also across  *)
(* a deletion of the key, so the n-th event ever published to the key has  *)
(* ID n.  The stream is the interval first..clock of them: entries leave   *)
(* it only from the front, when XADD trims it.  redis-py sends MAXLEN ~ n  *)
(* (approximate is its default), which drops whole nodes of NodeMax        *)
(* entries and only while MaxLen entries remain.                           *)
(***************************************************************************)
EXTENDS RoundTrips, FiniteSetsExt

CONSTANTS Endpoints,   \* the endpoints the requests call
          Groups, Consumers,
          BodyTtls,    \* values of "ttl" of a touch
          Counts,      \* values of the query parameter count
          MaxLen,      \* defaults.max_stream_length
          NodeMax,     \* stream-node-max-entries of Redis
          MaxEvents    \* bound: the events published

ASSUME EventAssumption ==
  /\ BodyTtls \subseteq Nat /\ Counts \subseteq Nat \ {0}
  /\ MaxLen \in Nat \ {0} /\ NodeMax \in Nat \ {0} /\ MaxEvents \in Nat

VARIABLES
  exists,     \* the key exists
  clock,      \* the last ID generated
  born,       \* clock when the key was created: its entries have larger IDs
  first,      \* the oldest entry of the stream
  ttl,        \* the TTL of the key
  groups,     \* the consumer groups of the stream
  delivered,  \* delivered[g]: last-delivered-id of g
  pel         \* pel[g]: the pending entries of g, with their consumers

stream == <<exists, clock, born, first, ttl>>
state == <<groups, delivered, pel>>
store == <<stream, state>>
vars == <<store, control, reply>>

Ids == 1..MaxEvents
Live == IF exists THEN first..clock ELSE {}
NoPel == [i \in {} |-> CHOOSE c \in Consumers : TRUE]

AnyGroup == CHOOSE g \in Groups : TRUE
AnyConsumer == CHOOSE c \in Consumers : TRUE
Call(op, g, c, n, ids, t) ==
  [op |-> op, group |-> g, consumer |-> c, count |-> n, ids |-> ids, ttl |-> t]
Plain(op) == Call(op, AnyGroup, AnyConsumer, 1, {}, 0)
Calls ==
  {Plain(op) : op \in {"publish", "batch_publish", "delete", "info"}} \cup
  {Call("read", AnyGroup, AnyConsumer, n, {i}, 0) : n \in Counts, i \in {0} \cup Ids} \cup
  {Call("create_group", g, AnyConsumer, 1, {}, 0) : g \in Groups} \cup
  {Call("read_group", g, c, n, {}, 0) : g \in Groups, c \in Consumers, n \in Counts} \cup
  {Call("ack", g, AnyConsumer, 1, ids, 0) : g \in Groups, ids \in SUBSET Ids \ {{}}} \cup
  {Call("touch", AnyGroup, AnyConsumer, 1, {}, t) : t \in BodyTtls}
NoCall == Plain("none")

Init ==
  /\ exists = FALSE /\ clock = 0 /\ born = 0 /\ first = 1 /\ ttl = NoTtl
  /\ groups = {}
  /\ delivered = [g \in Groups |-> 0]
  /\ pel = [g \in Groups |-> NoPel]
  /\ InitRequests(NoCall, {})

-------------------------------------------------------------------------------
Arrive(r) ==
  /\ pc[r] = "idle"
  /\ \E c \in {c \in Calls : c.op \in Endpoints} :
       /\ call' = [call EXCEPT ![r] = c]
       /\ RoundTrip(r, c.op)
  /\ UNCHANGED <<store, reply>>

(* 403, an event over the size limit or a malformed ID: no command. *)
Refuse(r) ==
  /\ pc[r] = "idle"
  /\ Respond(r, 400, NoTtl)
  /\ UNCHANGED store

(* The oldest entry after an XADD that makes n the newest. *)
FirstAfter_Exact(oldest, n) ==
  IF n - oldest + 1 > MaxLen THEN n - MaxLen + 2 ELSE oldest
FirstAfter(oldest, n) ==
  LET len == n - oldest + 1 IN
  IF len > MaxLen THEN oldest + NodeMax * ((len - MaxLen) \div NodeMax) ELSE oldest

Xadd ==
  LET oldest == IF exists THEN first ELSE clock + 1 IN
  /\ clock < MaxEvents
  /\ clock' = clock + 1
  /\ exists' = TRUE
  /\ born' = IF exists THEN born ELSE clock
  /\ first' = FirstAfter(oldest, clock + 1)
  /\ UNCHANGED <<ttl, state>>

Publish(r) ==
  /\ pc[r] = "publish"
  /\ Xadd
  /\ Replied(r, {clock + 1})
  /\ Step(r, "answer")

(* The XADDs of a batch, of two events: a pipeline without a transaction.  *)
BatchPublish(r) ==
  \/ /\ pc[r] = "batch_publish"
     /\ Xadd
     /\ Replied(r, {clock + 1})
     /\ Step(r, "xadd")
  \/ /\ pc[r] = "xadd"
     /\ Xadd
     /\ Replied(r, result[r] \cup {clock + 1})
     /\ Step(r, "answer")

(* The first n of a set of IDs. *)
FirstOf(n, ids) == {i \in ids : Cardinality({j \in ids : j <= i}) <= n}

(* XRANGE (last_id + COUNT n. *)
Read(r) ==
  /\ pc[r] = "read"
  /\ \E last_id \in call[r].ids :
       Replied(r, FirstOf(call[r].count, {i \in Live : i > last_id}))
  /\ Step(r, "answer")
  /\ UNCHANGED store

(* XGROUP CREATE key group 0 MKSTREAM; BUSYGROUP answers 409. *)
CreateGroup_Reset(r) ==
  LET g == call[r].group IN
  /\ pc[r] = "create_group"
  /\ exists' = TRUE
  /\ born' = IF exists THEN born ELSE clock
  /\ first' = IF exists THEN first ELSE clock + 1
  /\ groups' = groups \cup {g}
  /\ delivered' = [delivered EXCEPT ![g] = 0]
  /\ pel' = [pel EXCEPT ![g] = NoPel]
  /\ Step(r, "answer")
  /\ UNCHANGED <<clock, ttl, reply>>
CreateGroup(r) ==
  LET g == call[r].group IN
  /\ pc[r] = "create_group"
  /\ \/ /\ g \in groups
        /\ Respond(r, 409, NoTtl)
        /\ UNCHANGED store
     \/ /\ g \notin groups
        /\ exists' = TRUE
        /\ born' = IF exists THEN born ELSE clock
        /\ first' = IF exists THEN first ELSE clock + 1
        /\ groups' = groups \cup {g}
        /\ delivered' = [delivered EXCEPT ![g] = 0]
        /\ pel' = [pel EXCEPT ![g] = NoPel]
        /\ Step(r, "answer")
        /\ UNCHANGED <<clock, ttl, reply>>

(* XREADGROUP group consumer COUNT n STREAMS key >: the next entries no    *)
(* consumer of the group has got; NOGROUP answers 404.                     *)
ReadGroup_NoAck(r) ==
  LET g == call[r].group
      new == FirstOf(call[r].count, {i \in Live : i > delivered[g]})
  IN
  /\ pc[r] = "read_group" /\ g \in groups
  /\ delivered' = [delivered EXCEPT ![g] = Max(new \cup {@})]
  /\ Replied(r, new)
  /\ Step(r, "answer")
  /\ UNCHANGED <<stream, groups, pel>>
ReadGroup(r) ==
  LET g == call[r].group
      new == FirstOf(call[r].count, {i \in Live : i > delivered[g]})
  IN
  /\ pc[r] = "read_group"
  /\ \/ /\ g \notin groups
        /\ Respond(r, 404, NoTtl)
        /\ UNCHANGED store
     \/ /\ g \in groups
        /\ delivered' = [delivered EXCEPT ![g] = Max(new \cup {@})]
        /\ pel' = [pel EXCEPT ![g] = [i \in new \cup DOMAIN @ |->
                                        IF i \in new THEN call[r].consumer ELSE @[i]]]
        /\ Replied(r, new)
        /\ Step(r, "answer")
        /\ UNCHANGED <<stream, groups>>

(* XACK: counts and forgets the pending ones of the IDs; 0 without a group.*)
Ack(r) ==
  LET g == call[r].group IN
  /\ pc[r] = "ack"
  /\ Replied(r, call[r].ids \cap DOMAIN pel[g])
  /\ pel' = [pel EXCEPT ![g] = [i \in DOMAIN @ \ call[r].ids |-> @[i]]]
  /\ Step(r, "answer")
  /\ UNCHANGED <<stream, groups, delivered>>

(* The key goes, with its groups. *)
Gone ==
  /\ exists' = FALSE
  /\ ttl' = NoTtl
  /\ groups' = {}
  /\ delivered' = [g \in Groups |-> 0]
  /\ pel' = [g \in Groups |-> NoPel]
  /\ UNCHANGED <<clock, born, first>>

Delete(r) ==
  /\ pc[r] = "delete"
  /\ \/ exists /\ Gone /\ Step(r, "answer") /\ UNCHANGED reply
     \/ ~exists /\ Respond(r, 404, NoTtl) /\ UNCHANGED store

(* touch_key: EXISTS, EXPIRE or PERSIST, TTL. *)
TouchExists(r) ==
  /\ pc[r] = "touch"
  /\ Replied(r, IF exists THEN {0} ELSE {})
  /\ Step(r, "expire")
  /\ UNCHANGED store

Expire(r) ==
  /\ pc[r] = "expire"
  /\ ttl' = IF exists THEN ExpireOrPersist(call[r].ttl) ELSE NoTtl
  /\ Step(r, "ttl")
  /\ UNCHANGED <<exists, clock, born, first, state, reply>>

Ttl(r) ==
  /\ pc[r] = "ttl"
  /\ TtlReplied(r, TtlReply(exists, ttl))
  /\ Step(r, "answer")
  /\ UNCHANGED store

(* XINFO STREAM, then XINFO GROUPS in a round trip of its own. *)
Info(r) ==
  /\ \/ /\ pc[r] = "info" /\ exists
        /\ Replied(r, Live)
        /\ RoundTrip(r, "xinfo_groups")
        /\ UNCHANGED call
     \/ pc[r] = "info" /\ ~exists /\ Respond(r, 404, NoTtl)
     \/ pc[r] = "xinfo_groups" /\ Step(r, "answer") /\ UNCHANGED reply
  /\ UNCHANGED store

Answer(r) ==
  /\ pc[r] = "answer"
  /\ \/ call[r].op # "touch" /\ Respond(r, 200, NoTtl)
     \/ /\ call[r].op = "touch"
        /\ Respond(r, IF result[r] # {} /\ meta[r] # Missing THEN 200 ELSE 404, meta[r])
  /\ UNCHANGED store

LoseRoundTrip(r) == Lost(r) /\ UNCHANGED store

KeyExpires == exists /\ ttl > 0 /\ Gone /\ UNCHANGED <<control, reply>>
KeyEvicted == exists /\ Gone /\ UNCHANGED <<control, reply>>

Handler(r) ==
  \/ Publish(r) \/ BatchPublish(r) \/ Read(r) \/ CreateGroup(r) \/ ReadGroup(r) \/ Ack(r)
  \/ Delete(r) \/ TouchExists(r) \/ Expire(r) \/ Ttl(r) \/ Info(r) \/ Answer(r)

Next ==
  \/ \E r \in Reqs : Arrive(r) \/ Refuse(r) \/ Handler(r) \/ LoseRoundTrip(r)
  \/ KeyExpires \/ KeyEvicted

Spec == Init /\ [][Next]_vars

-------------------------------------------------------------------------------
(* Properties *)

(* Every variable stays in its type, and what a group has delivered and    *)
(* what is pending in it are events of the present life of the key.        *)
TypeOK ==
  /\ exists \in BOOLEAN /\ clock \in 0..MaxEvents
  /\ born \in 0..clock /\ first \in (born + 1)..(clock + 1)
  /\ ttl \in Nat \cup {NoTtl} /\ (~exists => ttl = NoTtl)
  /\ groups \in SUBSET Groups /\ (~exists => groups = {})
  /\ delivered \in [Groups -> 0..clock]
  /\ \A g \in Groups :
       /\ g \notin groups => delivered[g] = 0
       /\ pel[g] \in [DOMAIN pel[g] -> Consumers]
       /\ DOMAIN pel[g] \subseteq (born + 1)..delivered[g]
  /\ call \in [Reqs -> Calls \cup {NoCall}]
  /\ tries \in [Reqs -> 0..Retries]
  /\ result \in [Reqs -> SUBSET (0..MaxEvents)]
  /\ status \in [Reqs -> {0, 200, 400, 404, 409, 500}]

(* Retention: whatever publishers, trimming and deletions do, the stream   *)
(* holds the newest MaxLen events published to the key since it exists (or *)
(* all of them) and less than one node more.                               *)
NewestKept ==
  exists =>
    /\ \A i \in (born + 1)..clock : clock - i < MaxLen => i \in Live
    /\ Cardinality(Live) < MaxLen + NodeMax

AnsweredReads(g) == {r \in Reqs : call[r].op = "read_group" /\ call[r].group = g /\ status[r] = 200}

(* An event is delivered to one consumer of a group, once: not to two      *)
(* readers, and not again after a retried creation of the group, a lost    *)
(* reply, or a deletion and a new creation of the key.                     *)
OncePerGroup ==
  \A g \in Groups : \A r, s \in AnsweredReads(g) : r # s => result[r] \cap result[s] = {}

AckSent(g, i) ==
  \E r \in Reqs : call[r].op = "ack" /\ call[r].group = g /\ i \in call[r].ids /\ pc[r] # "idle"

(* A consumer that crashes after it got events leaves them on record: each *)
(* one it was sent and nobody acknowledged is pending under its name, even *)
(* if the entry itself has been trimmed, while the stream lives.           *)
DeliveredIsPending ==
  \A g \in Groups : \A r \in AnsweredReads(g) : \A i \in result[r] :
    \/ ~exists \/ i <= born
    \/ AckSent(g, i)
    \/ i \in DOMAIN pel[g] /\ pel[g][i] = call[r].consumer
===============================================================================
