------------------------------ MODULE QueueRoutes ------------------------------
(***************************************************************************)
(* app/routers/queue.py: the handlers of one queue key, run concurrently   *)
(* by several gateway workers against one Redis server.                    *)
(*                                                                         *)
(* The check and the push are one Lua script; the TTL of the list is set   *)
(* by a second round trip.                                                 *)
(***************************************************************************)
EXTENDS RoundTrips, Sequences, FiniteSets

CONSTANTS Endpoints,   \* the endpoints the requests call
          MaxLen,      \* settings.defaults.max_list_length
          BodyTtls,    \* values of "ttl" in a request body (Unset for None)
          BatchSizes,  \* len(body.values) of a batch push
          Keeps        \* body.keep of a trim

ASSUME QueueAssumption ==
  /\ MaxLen \in Nat
  /\ BodyTtls \subseteq Nat \cup {Unset}
  /\ BatchSizes \subseteq Nat \ {0}
  /\ Keeps \subseteq Nat \ {0}

VARIABLES
  list,    \* the Redis list; <<>> when the key does not exist
  ttl,     \* its TTL (NoTtl when there is none, or no key)
  next,    \* number of values ever accepted: a value is named by its rank
  put,     \* put[r]: values Redis accepted from r
  taken    \* taken[r]: values Redis removed for a pop of r

store == <<list, ttl, next, put, taken>>
vars == <<store, control, reply>>

Dirs == {"left", "right"}
Elements == [id: Nat, dir: Dirs]

(* The endpoints and the arguments they read; n is the number of values of *)
(* a push or the keep of a trim, ttl is None where the body has none.      *)
Calls ==
  [op: {"push"}, dir: Dirs, n: {1}, ttl: BodyTtls] \cup
  [op: {"batch_push"}, dir: Dirs, n: BatchSizes, ttl: BodyTtls] \cup
  [op: {"pop"}, dir: Dirs, n: {1}, ttl: {Unset}] \cup
  [op: {"range", "len", "delete"}, dir: {"left"}, n: {1}, ttl: {Unset}] \cup
  [op: {"touch"}, dir: {"left"}, n: {1}, ttl: BodyTtls \ {Unset}] \cup
  [op: {"trim"}, dir: {"left"}, n: Keeps, ttl: {Unset}]

Pushes == {"push", "batch_push"}

(* The first command each handler sends. *)
FirstCommand(op) ==
  CASE op \in Pushes           -> "script"
    [] op = "pop"              -> "pop"
    [] op \in {"range", "len"} -> "read"
    [] op = "delete"           -> "del"
    [] op = "touch"            -> "exists"
    [] op = "trim"             -> "ltrim"

Commands == {"script", "expire", "ttl", "pop", "read", "del", "exists", "ltrim", "llen"}
InFlight == Commands \cup {"pushed", "trimmed", "answer"}

NoCall == [op |-> "none", dir |-> "left", n |-> 1, ttl |-> Unset]

Init ==
  /\ list = <<>> /\ ttl = NoTtl /\ next = 0
  /\ put = [r \in Reqs |-> {}]
  /\ taken = [r \in Reqs |-> {}]
  /\ InitRequests(NoCall, 0)

-------------------------------------------------------------------------------
(* A list that becomes empty takes its key, and so its TTL, with it. *)
SetList(l, t) ==
  /\ list' = l
  /\ ttl' = IF l = <<>> THEN NoTtl ELSE t

-------------------------------------------------------------------------------
(* The request reaches its handler ... *)
Arrive(r) ==
  /\ pc[r] = "idle"
  /\ \E c \in {c \in Calls : c.op \in Endpoints} :
       /\ call' = [call EXCEPT ![r] = c]
       /\ RoundTrip(r, FirstCommand(c.op))
  /\ UNCHANGED <<store, reply>>

(* ... or is refused by require_write, require_read, build_key or          *)
(* check_value_size before any command is sent.                            *)
Refuse(r) ==
  /\ pc[r] = "idle"
  /\ Respond(r, 403, NoTtl)
  /\ UNCHANGED store

(* The guards of the two Lua scripts. *)
SingleFull_OffByOne == Len(list) > MaxLen
SingleFull == Len(list) >= MaxLen
BatchFull(n) == Len(list) + n > MaxLen
QueueFull(c) == IF c.op = "push" THEN SingleFull ELSE BatchFull(c.n)

(* The n new values in the order the list holds them: LPUSH one by one     *)
(* reverses them.                                                          *)
Fresh_PushOrder(dir, n) == [i \in 1..n |-> [id |-> next + i, dir |-> dir]]
Fresh(dir, n) ==
  [i \in 1..n |-> [id |-> IF dir = "right" THEN next + i ELSE next + n + 1 - i,
                   dir |-> dir]]
Pushed(dir, n) ==
  IF dir = "right" THEN list \o Fresh(dir, n) ELSE Fresh(dir, n) \o list

(* The list takes the values of r. *)
Accept(r) ==
  /\ SetList(Pushed(call[r].dir, call[r].n), ttl)
  /\ next' = next + call[r].n
  /\ put' = [put EXCEPT ![r] = @ \cup (next + 1 .. next + call[r].n)]
  /\ UNCHANGED taken

(* _single_push_lua / _batch_push_lua: check and push, one atomic script. *)
Script_PushFirst(r) ==
  /\ pc[r] = "script"
  /\ Accept(r)
  /\ Replied(r, IF QueueFull(call[r]) THEN -1 ELSE Len(list'))
  /\ Step(r, "pushed")

Script(r) ==
  /\ pc[r] = "script"
  /\ \/ /\ QueueFull(call[r])
        /\ Replied(r, -1)
        /\ UNCHANGED store
     \/ /\ ~QueueFull(call[r])
        /\ Replied(r, Len(list) + call[r].n)
        /\ Accept(r)
  /\ Step(r, "pushed")

(* The script's reply: QUEUE_FULL, or on to EXPIRE/PERSIST and TTL. *)
PushReply_NoExpire(r) ==
  /\ pc[r] = "pushed"
  /\ Respond(r, IF result[r] = -1 THEN 400 ELSE 200, NoTtl)
  /\ UNCHANGED store

PushReply(r) ==
  /\ pc[r] = "pushed"
  /\ \/ /\ result[r] = -1
        /\ Respond(r, 400, NoTtl)
     \/ /\ result[r] # -1
        /\ RoundTrip(r, "expire")
        /\ UNCHANGED <<reply, call>>
  /\ UNCHANGED store

(* pipe.expire / pipe.persist, a no-op on a key that does not exist. *)
Expire(r) ==
  /\ pc[r] = "expire"
  /\ SetList(list, ExpireOrPersist(resolve_ttl(call[r].ttl)))
  /\ Step(r, "ttl")
  /\ UNCHANGED <<next, put, taken, reply>>

(* pipe.ttl *)
Ttl(r) ==
  /\ pc[r] = "ttl"
  /\ TtlReplied(r, TtlReply(list # <<>>, ttl))
  /\ Step(r, "answer")
  /\ UNCHANGED store

(* touch_key: pipe.exists; the result is 1 or 0. *)
Exists(r) ==
  /\ pc[r] = "exists"
  /\ Replied(r, IF list # <<>> THEN 1 ELSE 0)
  /\ Step(r, "expire")
  /\ UNCHANGED store

(* LPOP / RPOP: the value, and the list without it. *)
Popped(dir) == IF dir = "right" THEN list[Len(list)] ELSE Head(list)
Rest_AlwaysLeft(dir) == Tail(list)
Rest(dir) == IF dir = "right" THEN SubSeq(list, 1, Len(list) - 1) ELSE Tail(list)

(* pop_queue; the result is the value, 0 for None. *)
Pop(r) ==
  /\ pc[r] = "pop"
  /\ \/ /\ list = <<>>
        /\ Replied(r, 0)
        /\ UNCHANGED store
     \/ /\ list # <<>>
        /\ Replied(r, Popped(call[r].dir).id)
        /\ taken' = [taken EXCEPT ![r] = @ \cup {Popped(call[r].dir).id}]
        /\ SetList(Rest(call[r].dir), ttl)
        /\ UNCHANGED <<next, put>>
  /\ Step(r, "answer")

(* LRANGE / LLEN; both see the whole list at one instant. *)
Read(r) ==
  /\ pc[r] = "read"
  /\ Replied(r, Len(list))
  /\ Step(r, "answer")
  /\ UNCHANGED store

(* DEL; the result is the number of keys deleted. *)
Del(r) ==
  /\ pc[r] = "del"
  /\ Replied(r, IF list # <<>> THEN 1 ELSE 0)
  /\ SetList(<<>>, NoTtl)
  /\ Step(r, "answer")
  /\ UNCHANGED <<next, put, taken>>

(* LTRIM key -keep -1 *)
Trimmed_KeepOldest(keep) == SubSeq(list, 1, IF keep < Len(list) THEN keep ELSE Len(list))
Trimmed(keep) ==
  IF keep >= Len(list) THEN list
                       ELSE SubSeq(list, Len(list) - keep + 1, Len(list))

LTrim(r) ==
  /\ pc[r] = "ltrim"
  /\ SetList(Trimmed(call[r].n), ttl)
  /\ Step(r, "trimmed")
  /\ UNCHANGED <<next, put, taken, reply>>

TrimReply(r) ==
  /\ pc[r] = "trimmed"
  /\ RoundTrip(r, "llen")
  /\ UNCHANGED <<store, call, reply>>

LLen(r) ==
  /\ pc[r] = "llen"
  /\ Replied(r, Len(list))
  /\ Step(r, "answer")
  /\ UNCHANGED store

(* The last reply of the handler becomes the response. *)
TouchStatus_ExistsOnly(r) == IF result[r] = 0 THEN 404 ELSE 200
TouchStatus(r) == IF result[r] = 0 \/ meta[r] = Missing THEN 404 ELSE 200
FoundStatus(r) == IF result[r] = 0 THEN 404 ELSE 200

Answer(r) ==
  /\ pc[r] = "answer"
  /\ CASE call[r].op \in Pushes            -> Respond(r, 200, MetaTtl(meta[r]))
       [] call[r].op = "touch"             -> Respond(r, TouchStatus(r), meta[r])
       [] call[r].op \in {"pop", "delete"} -> Respond(r, FoundStatus(r), NoTtl)
       [] OTHER                            -> Respond(r, 200, NoTtl)
  /\ UNCHANGED store

LoseRoundTrip(r) == Lost(r) /\ UNCHANGED store

(* Redis drops the key: its TTL has run out, or allkeys-lru evicts it. *)
KeyExpires == /\ list # <<>> /\ ttl > 0
              /\ SetList(<<>>, NoTtl)
              /\ UNCHANGED <<next, put, taken, control, reply>>
KeyEvicted == /\ list # <<>>
              /\ SetList(<<>>, NoTtl)
              /\ UNCHANGED <<next, put, taken, control, reply>>

Handler(r) ==
  \/ Script(r) \/ PushReply(r) \/ Expire(r) \/ Ttl(r) \/ Exists(r)
  \/ Pop(r) \/ Read(r) \/ Del(r) \/ LTrim(r) \/ TrimReply(r) \/ LLen(r)
  \/ Answer(r)

Next ==
  \/ \E r \in Reqs : Arrive(r) \/ Refuse(r) \/ Handler(r) \/ LoseRoundTrip(r)
  \/ KeyExpires \/ KeyEvicted

Spec == Init /\ [][Next]_vars

-------------------------------------------------------------------------------
(* Properties *)

Ids(l) == {l[i].id : i \in DOMAIN l}

(* Every variable stays in its type. *)
TypeOK ==
  /\ list \in Seq(Elements)
  /\ ttl \in Nat \cup {NoTtl}
  /\ next \in Nat
  /\ put \in [Reqs -> SUBSET Nat]
  /\ taken \in [Reqs -> SUBSET Nat]
  /\ call \in [Reqs -> Calls \cup {NoCall}]
  /\ pc \in [Reqs -> InFlight \cup {"idle", "done"}]
  /\ rt \in [Reqs -> Commands \cup {"idle"}]
  /\ tries \in [Reqs -> 0..Retries]
  /\ result \in [Reqs -> Int]
  /\ meta \in [Reqs -> Nat \cup {NoTtl, Missing}]
  /\ status \in [Reqs -> {0, 200, 400, 403, 404, 500}]

(* However the pushes of different workers race, and whatever is sent      *)
(* twice, the Lua check-and-push never lets the list pass max_list_length. *)
QueueBounded == Len(list) <= MaxLen

(* RPUSH/LPOP is FIFO and LPUSH/LPOP is LIFO: read from the head, the list *)
(* holds the left-pushed values newest first, then the right-pushed ones   *)
(* oldest first, batches included.                                         *)
DequeOrder ==
  \A i, j \in DOMAIN list : i < j =>
    \/ list[i].dir = "left" /\ list[j].dir = "right"
    \/ list[i].dir = "right" /\ list[j].dir = "right" /\ list[i].id < list[j].id
    \/ list[i].dir = "left" /\ list[j].dir = "left" /\ list[i].id > list[j].id

(* A value taken for a pop is taken for one request only and is no longer  *)
(* in the queue: two consumers never get the same job.                     *)
NoDoubleDelivery ==
  /\ \A r \in Reqs : taken[r] \cap Ids(list) = {}
  /\ \A r, s \in Reqs : r # s => taken[r] \cap taken[s] = {}

(* A key without TTL is accounted for: some push asked for ttl 0, a touch  *)
(* removed the TTL, or a push whose values are in has not reached its      *)
(* EXPIRE yet, or never will because it failed after its script ran.       *)
NoImmortalQueue ==
  list # <<>> /\ ttl = NoTtl =>
    \E r \in Reqs :
      \/ /\ call[r].op \in Pushes \cup {"touch"}
         /\ resolve_ttl(call[r].ttl) = 0
      \/ /\ call[r].op \in Pushes /\ put[r] # {}
         /\ pc[r] \in {"script", "pushed", "expire"} \/ status[r] \in {400, 500}

(* Responses tell what happened to the queue.  A push answered 200 put its *)
(* values in as a whole, once per execution of its script; one answered    *)
(* QUEUE_FULL put nothing in, unless its script ran twice; a pop answered  *)
(* QUEUE_EMPTY lost nothing, unless it ran twice.                          *)
OutcomeHonest ==
  \A r \in Reqs : pc[r] = "done" =>
    /\ call[r].op \in Pushes =>
         /\ \E k \in 0..Retries + 1 : Cardinality(put[r]) = k * call[r].n
         /\ status[r] = 200 => put[r] # {}
         /\ status[r] = 400 /\ tries[r] = 0 => put[r] = {}
    /\ call[r].op = "pop" =>
         /\ status[r] = 200 => result[r] \in taken[r]
         /\ Cardinality(taken[r]) <= 1 + tries[r]
         /\ status[r] = 404 /\ tries[r] = 0 => taken[r] = {}

(* No response of 200 carries meta.ttl = -2, wherever a deletion or an     *)
(* expiry falls between the commands of its handler.                       *)
NoMissingTtl == \A r \in Reqs : status[r] = 200 => meta[r] # Missing

(* A trim keeps the newest of the right-pushed values: it leaves at most   *)
(* keep values, and drops no such value while it keeps an older one.       *)
TrimStep(r) ==
  /\ Len(list') <= call[r].n
  /\ \A i \in DOMAIN list, j \in DOMAIN list' :
       /\ list[i].id \notin Ids(list')
       /\ list[i].dir = "right" /\ list'[j].dir = "right"
       => list[i].id < list'[j].id

TrimKeepsNewest ==
  [][\A r \in Reqs : pc[r] = "ltrim" /\ pc'[r] = "trimmed" => TrimStep(r)]_vars
===============================================================================
