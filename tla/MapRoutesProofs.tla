---------------------------- MODULE MapRoutesProofs ----------------------------
(***************************************************************************)
(* Proofs about MapRoutes for every set of requests, keys and fields, all  *)
(* TTLs and any number of retries.                                         *)
(***************************************************************************)
EXTENDS MapRoutes, TLAPS

Ops == {"set_map", "batch_set", "set_field", "get", "get_field", "batch_get", "delete",
        "delete_field", "touch"}
Batches == {"batch_set", "batch_get"}
Writers == {"set_map", "batch_set", "set_field"}

(* The commands a request passes between its arrival and its response. *)
Path(op) ==
  {op, "answer"} \cup (IF op \in {"get", "get_field"} THEN {"ttl"} ELSE {})
                 \cup (IF op \in {"touch", "set_field"} THEN {"expire", "ttl"} ELSE {})
                 \cup (IF op = "batch_get" THEN {"hgetall"} ELSE {})

Maps == [Fields -> Reqs \cup {NoReq}]

-------------------------------------------------------------------------------
(* Types *)

(* What a call record holds, whatever the endpoint. *)
LEMMA CallType ==
  ASSUME NEW c \in Calls \cup {NoCall}
  PROVE  /\ resolve_ttl(c.ttl) \in Nat
         /\ c.field \in Fields
         /\ c \in Calls => c.op \in Ops
         /\ c \in Calls /\ c.op \notin Batches => c.key \in Keys
<1>1. c.ttl \in BodyTtls \cup {Unset}
  BY DEF Calls, NoCall
<1>2. resolve_ttl(c.ttl) \in Nat
  BY <1>1, MapAssumption, DefaultTtlAssumption DEF resolve_ttl
<1>3. (CHOOSE f \in Fields : TRUE) \in Fields
  BY MapAssumption
<1>4. c.field \in Fields
  BY <1>3 DEF Calls, NoCall
<1>5. c \in Calls => c.op \in Ops
  BY DEF Calls, Ops
<1>6. c \in Calls /\ c.op \notin Batches => c.key \in Keys
  BY DEF Calls, Batches
<1> QED
  BY <1>2, <1>4, <1>5, <1>6

(* A request in flight is on the path of its call, a lost round trip goes  *)
(* back to its first command, and a write with a TTL never leaves its      *)
(* transaction.                                                            *)
Control ==
  \A r \in Reqs :
    /\ pc[r] = "idle" => call[r] = NoCall /\ meta[r] = NoTtl
    /\ pc[r] \notin {"idle", "done"} =>
         call[r] \in Calls /\ rt[r] = call[r].op /\ pc[r] \in Path(call[r].op)
    /\ pc[r] \in {"expire", "ttl"} /\ call[r].op = "set_field" => ~Tx(r)
    /\ pc[r] # "done" => status[r] = 0

Shape ==
  /\ pc \in [Reqs -> {"idle", "done", "answer", "ttl", "expire", "hgetall"} \cup Ops]
  /\ rt \in [Reqs -> {"idle"} \cup Ops]

StoreTyped ==
  /\ hash \in [Keys -> Maps]
  /\ ttl \in [Keys -> Nat \cup {NoTtl}]
  /\ \A k \in Keys : ~Present(k) => ttl[k] = NoTtl

ReplyTyped ==
  /\ result \in [Reqs -> Replies]
  /\ meta \in [Reqs -> Nat \cup {NoTtl, Missing}]
  /\ status \in [Reqs -> {0, 200, 400, 404, 500}]

ControlTyped ==
  /\ call \in [Reqs -> Calls \cup {NoCall}]
  /\ tries \in [Reqs -> 0..Retries]

MapType == StoreTyped /\ ReplyTyped /\ ControlTyped /\ Shape /\ Control

LEMMA AskedType ==
  ASSUME ControlTyped, NEW r \in Reqs
  PROVE  /\ AskedTtl(r) \in Nat
         /\ ExpireOrPersist(AskedTtl(r)) \in Nat \cup {NoTtl}
         /\ ExpireOrPersist(AskedTtl(r)) = NoTtl <=> AskedTtl(r) = 0
         /\ Tx(r) <=> call[r].op # "set_field" \/ AskedTtl(r) # 0
<1>1. call[r] \in Calls \cup {NoCall}
  BY DEF ControlTyped
<1>2. AskedTtl(r) \in Nat
  BY <1>1, CallType DEF AskedTtl
<1> QED
  BY <1>2 DEF ExpireOrPersist, NoTtl, Tx

(* Where the handler of each endpoint may be. *)
LEMMA AtCommand ==
  ASSUME MapType, NEW r \in Reqs, pc[r] \notin {"idle", "done"}
  PROVE  /\ call[r] \in Calls
         /\ call[r].op \in Ops
         /\ rt[r] = call[r].op
         /\ call[r].field \in Fields
         /\ pc[r] \in Ops => call[r].op = pc[r]
         /\ pc[r] = "expire" => call[r].op \in {"touch", "set_field"}
         /\ pc[r] = "ttl" => call[r].op \in {"get", "get_field", "touch", "set_field"}
         /\ pc[r] = "hgetall" => call[r].op = "batch_get"
         /\ call[r].op \notin Batches => call[r].key \in Keys
<1>1. call[r] \in Calls /\ rt[r] = call[r].op /\ pc[r] \in Path(call[r].op)
  BY DEF MapType, Control
<1>2. call[r].op \in Ops
  BY <1>1, CallType
<1>3. /\ pc[r] \in Ops => call[r].op = pc[r]
      /\ pc[r] = "expire" => call[r].op \in {"touch", "set_field"}
      /\ pc[r] = "ttl" => call[r].op \in {"get", "get_field", "touch", "set_field"}
      /\ pc[r] = "hgetall" => call[r].op = "batch_get"
  BY <1>1, <1>2 DEF Path, Ops
<1> QED
  BY <1>1, <1>2, <1>3, CallType

LEMMA NoFieldsType == NoFields \in Maps
BY DEF NoFields, Maps

LEMMA MapTypeInit == Init => MapType
<1> SUFFICES ASSUME Init PROVE MapType
  OBVIOUS
<1>1. StoreTyped
  BY NoFieldsType DEF Init, StoreTyped, NoTtl
<1>2. NoReply \in Replies
  <2>1. NoReply \in [{} -> Maps]
    BY DEF NoReply
  <2> QED
    BY <2>1 DEF Replies, Maps
<1>3. ReplyTyped /\ ControlTyped
  BY <1>2, RetriesAssumption DEF Init, InitRequests, ReplyTyped, ControlTyped, NoTtl, Missing
<1>4. Shape /\ Control
  BY DEF Init, InitRequests, Shape, Control
<1> QED
  BY <1>1, <1>3, <1>4 DEF MapType

(* A reply is a set of maps; reading another one makes it a larger one.    *)
LEMMA ReplyGrows ==
  ASSUME NEW m \in Replies, NEW K, K = {} \/ K = DOMAIN m, NEW k \in Keys, NEW v \in Maps
  PROVE  [j \in K \cup {k} |-> IF j = k THEN v ELSE m[j]] \in Replies
<1>1. PICK D \in SUBSET Keys : m \in [D -> Maps]
  BY DEF Replies, Maps
<1>2. K \subseteq D
  BY <1>1
<1> DEFINE n == [j \in K \cup {k} |-> IF j = k THEN v ELSE m[j]]
<1>3. n \in [K \cup {k} -> Maps]
  BY <1>1, <1>2
<1>4. K \cup {k} \in SUBSET Keys
  BY <1>1, <1>2
<1> QED
  BY <1>3, <1>4 DEF Replies, Maps

LEMMA ReplyOne ==
  ASSUME StoreTyped, NEW k \in Keys
  PROVE  [j \in {k} |-> hash[j]] \in Replies
<1>1. [j \in {k} |-> hash[j]] \in [{k} -> Maps]
  BY DEF StoreTyped
<1> QED
  BY <1>1 DEF Replies, Maps

-------------------------------------------------------------------------------
(* What a step does to the store *)

(* The keys and fields a write of r covers. *)
WriteKeys(r) == IF call[r].op = "batch_set" THEN Keys ELSE {call[r].key}
WriteFields(r) == IF call[r].op = "set_field" THEN {call[r].field} ELSE Fields

(* r writes what it was sent, with its TTL, or without where it asked none.*)
Written(r) ==
  /\ call[r].op \in Writers
  /\ hash' = [k \in Keys |-> IF k \in WriteKeys(r)
                               THEN [f \in Fields |-> IF f \in WriteFields(r) THEN r ELSE hash[k][f]]
                               ELSE hash[k]]
  /\ \/ ttl' = [k \in Keys |-> IF k \in WriteKeys(r) THEN ExpireOrPersist(AskedTtl(r)) ELSE ttl[k]]
     \/ AskedTtl(r) = 0 /\ ttl' = ttl

(* EXPIRE or PERSIST. *)
Touched(r) ==
  /\ call[r].op \in {"touch", "set_field"}
  /\ hash' = hash
  /\ ttl' = [ttl EXCEPT ![call[r].key] = IF Present(call[r].key) THEN ExpireOrPersist(AskedTtl(r))
                                                                 ELSE NoTtl]

Removed == \E k \in Keys, F \in SUBSET Fields : Remove(k, F)

Effect(r) == UNCHANGED store \/ Written(r) \/ Touched(r) \/ Removed

(* Every command of a request in flight is one of those changes. *)
LEMMA HandlerEffect ==
  ASSUME MapType, NEW r \in Reqs, Handler(r)
  PROVE  Effect(r) /\ UNCHANGED call
<1>1. CASE SetMap(r)
  <2>1. call[r].op = "set_map" /\ UNCHANGED call
    BY <1>1, AtCommand DEF SetMap, Write, Step, Ops
  <2> QED
    BY <1>1, <2>1 DEF SetMap, Write, Effect, Written, Writers, WriteKeys, WriteFields
<1>2. CASE BatchSet(r)
  <2>1. call[r].op = "batch_set" /\ UNCHANGED call
    BY <1>2, AtCommand DEF BatchSet, Write, Step, Ops
  <2> QED
    BY <1>2, <2>1 DEF BatchSet, Write, Effect, Written, Writers, WriteKeys, WriteFields
<1>3. CASE SetField(r)
  <2>1. call[r].op = "set_field" /\ call[r].key \in Keys /\ call[r].field \in Fields
    BY <1>3, AtCommand DEF SetField, Ops, Batches
  <2>2. CASE Tx(r) /\ Write(r, {call[r].key}, {call[r].field})
    BY <2>1, <2>2 DEF Write, Step, Effect, Written, Writers, WriteKeys, WriteFields
  <2>3. CASE ~Tx(r) /\ Hset(r, call[r].field, "expire")
    <3>1. AskedTtl(r) = 0
      BY <2>1, <2>3, AskedType DEF MapType
    <3>2. hash' = [hash EXCEPT ![call[r].key][call[r].field] = r] /\ ttl' = ttl /\ UNCHANGED call
      BY <2>3 DEF Hset, Step
    <3>3. hash \in [Keys -> Maps]
      BY DEF MapType, StoreTyped
    <3>4. hash' = [k \in Keys |->
                     IF k \in {call[r].key}
                       THEN [f \in Fields |-> IF f \in {call[r].field} THEN r ELSE hash[k][f]]
                       ELSE hash[k]]
      BY <2>1, <3>2, <3>3 DEF Maps
    <3> QED
      BY <2>1, <3>1, <3>2, <3>4 DEF Effect, Written, Writers, WriteKeys, WriteFields
  <2> QED
    BY <1>3, <2>2, <2>3 DEF SetField
<1>4. CASE Get(r) \/ TouchExists(r) \/ Ttl(r)
  BY <1>4 DEF Get, TouchExists, Ttl, Step, Effect
<1>5. CASE BatchGet(r)
  BY <1>5 DEF BatchGet, Step, Effect
<1>6. CASE Expire(r)
  <2>1. call[r].op \in {"touch", "set_field"}
    BY <1>6, AtCommand DEF Expire
  <2> QED
    BY <1>6, <2>1 DEF Expire, Step, Effect, Touched
<1>7. CASE Delete(r)
  <2>1. call[r].key \in Keys /\ call[r].field \in Fields /\ UNCHANGED call
    BY <1>7, AtCommand DEF Delete, Step, Ops, Batches
  <2>2. \E F \in SUBSET Fields : Remove(call[r].key, F)
    BY <1>7, <2>1 DEF Delete
  <2> QED
    BY <2>1, <2>2 DEF Effect, Removed
<1>8. CASE Answer(r)
  BY <1>8 DEF Answer, Respond, Effect
<1> QED
  BY <1>1, <1>2, <1>3, <1>4, <1>5, <1>6, <1>7, <1>8 DEF Handler

(* Of those changes, each keeps the type of the store.                     *)
LEMMA EffectType ==
  ASSUME StoreTyped, ControlTyped, NEW r \in Reqs, Effect(r)
  PROVE  StoreTyped'
<1>1. NoReq \notin Reqs /\ ExpireOrPersist(AskedTtl(r)) \in Nat \cup {NoTtl}
  BY MapAssumption, AskedType
<1>2. CASE UNCHANGED store
  BY <1>2 DEF store, StoreTyped, Present, NoFields
<1>3. CASE Written(r)
  <2>1. hash' \in [Keys -> Maps]
    BY <1>3 DEF Written, StoreTyped, Maps
  <2>2. ttl' \in [Keys -> Nat \cup {NoTtl}]
    BY <1>1, <1>3 DEF Written, StoreTyped
  <2>3. ASSUME NEW k \in Keys, k \in WriteKeys(r)
        PROVE  hash'[k] # NoFields
    <3>1. PICK f \in WriteFields(r) : f \in Fields
      <4>1. call[r].field \in Fields
        BY CallType DEF ControlTyped
      <4> QED
        BY <4>1, MapAssumption DEF WriteFields
    <3>2. hash'[k][f] = r
      BY <1>3, <2>3, <3>1 DEF Written
    <3>3. NoFields[f] = NoReq
      BY <3>1 DEF NoFields
    <3> QED
      BY <1>1, <3>2, <3>3
  <2>4. ASSUME NEW k \in Keys, hash'[k] = NoFields PROVE ttl'[k] = NoTtl
    <3>1. k \notin WriteKeys(r) /\ hash'[k] = hash[k] /\ ttl'[k] = ttl[k]
      BY <1>3, <2>3, <2>4 DEF Written
    <3> QED
      BY <2>4, <3>1 DEF StoreTyped, Present
  <2> QED
    BY <2>1, <2>2, <2>4 DEF StoreTyped, Present, NoFields
<1>4. CASE Touched(r)
  <2>1. ttl' \in [Keys -> Nat \cup {NoTtl}] /\ hash' = hash
    BY <1>1, <1>4 DEF Touched, StoreTyped
  <2>2. ASSUME NEW k \in Keys, hash'[k] = NoFields PROVE ttl'[k] = NoTtl
    BY <1>4, <2>2 DEF Touched, StoreTyped, Present
  <2> QED
    BY <2>1, <2>2 DEF StoreTyped, Present, NoFields
<1>5. CASE Removed
  <2>1. PICK k \in Keys, F \in SUBSET Fields : Remove(k, F)
    BY <1>5 DEF Removed
  <2>2. hash' \in [Keys -> Maps]
    BY <2>1 DEF Remove, StoreTyped, Maps
  <2>3. ttl' \in [Keys -> Nat \cup {NoTtl}]
    BY <2>1 DEF Remove, StoreTyped
  <2>4. ASSUME NEW l \in Keys, hash'[l] = NoFields PROVE ttl'[l] = NoTtl
    BY <2>1, <2>4 DEF Remove, StoreTyped, Present
  <2> QED
    BY <2>2, <2>3, <2>4 DEF StoreTyped, Present, NoFields
<1> QED
  BY <1>2, <1>3, <1>4, <1>5 DEF Effect

-------------------------------------------------------------------------------
(* Where the requests stand *)

(* A step inside a round trip, of a request that is on its path. *)
LEMMA StepControl ==
  ASSUME MapType, NEW r \in Reqs, NEW p, Step(r, p), UNCHANGED status,
         pc[r] \notin {"idle", "done"}, \A s \in Reqs \ {r} : meta'[s] = meta[s],
         p \in Path(call[r].op) \ {"idle", "done"},
         p \in {"expire", "ttl"} /\ call[r].op = "set_field" => ~Tx(r)
  PROVE  ControlTyped' /\ Shape' /\ Control'
<1>1. call[r].op \in Ops
  BY AtCommand
<1>2. p \in {"answer", "ttl", "expire", "hgetall"} \cup Ops
  BY <1>1 DEF Path
<1>3. Shape' /\ ControlTyped'
  BY <1>2 DEF Step, MapType, Shape, ControlTyped
<1>4. \A s \in Reqs : Tx(s)' <=> Tx(s)
  BY DEF Step, Tx, AskedTtl
<1>5. /\ \A s \in Reqs \ {r} : pc'[s] = pc[s] /\ meta'[s] = meta[s]
      /\ pc'[r] = p /\ pc[r] # "done"
      /\ UNCHANGED <<call, rt, status>>
  BY DEF Step, MapType, Shape
<1>6. ASSUME NEW s \in Reqs
      PROVE  /\ pc'[s] = "idle" => call'[s] = NoCall /\ meta'[s] = NoTtl
             /\ pc'[s] \notin {"idle", "done"} =>
                  call'[s] \in Calls /\ rt'[s] = call'[s].op /\ pc'[s] \in Path(call'[s].op)
             /\ pc'[s] \in {"expire", "ttl"} /\ call'[s].op = "set_field" => ~Tx(s)'
             /\ pc'[s] # "done" => status'[s] = 0
  <2>1. CASE s = r
    BY <1>4, <1>5, <2>1 DEF MapType, Control
  <2>2. CASE s # r
    BY <1>4, <1>5, <2>2 DEF MapType, Control
  <2> QED
    BY <2>1, <2>2
<1> QED
  BY <1>3, <1>6 DEF Control

(* The response of a request. *)
LEMMA RespondType ==
  ASSUME MapType, NEW r \in Reqs,
         NEW code \in {200, 400, 404, 500}, NEW t \in Nat \cup {NoTtl, Missing},
         Respond(r, code, t)
  PROVE  ReplyTyped' /\ ControlTyped' /\ Shape' /\ Control'
<1>1. ReplyTyped' /\ ControlTyped' /\ Shape'
  BY DEF Respond, MapType, ReplyTyped, ControlTyped, Shape
<1>2. Control'
  BY DEF Respond, MapType, ReplyTyped, Control, Shape, Tx, AskedTtl
<1> QED
  BY <1>1, <1>2

LEMMA GivenUpType ==
  ASSUME MapType, NEW r \in Reqs, Respond(r, 400, NoTtl) \/ Respond(r, 500, NoTtl)
  PROVE  ReplyTyped' /\ ControlTyped' /\ Shape' /\ Control'
<1>1. ReplyTyped' /\ ControlTyped' /\ Shape'
  BY DEF Respond, MapType, ReplyTyped, ControlTyped, Shape
<1>2. Control'
  BY DEF Respond, MapType, ReplyTyped, Control, Shape, Tx, AskedTtl
<1> QED
  BY <1>1, <1>2

(* A data reply, and a reply of TTL. *)
LEMMA RepliesType ==
  ASSUME MapType, NEW r \in Reqs
  PROVE  /\ \A v \in Replies : Replied(r, v) =>
              ReplyTyped' /\ UNCHANGED status /\ \A s \in Reqs \ {r} : meta'[s] = meta[s]
         /\ \A t \in Nat \cup {NoTtl, Missing} : TtlReplied(r, t) =>
              ReplyTyped' /\ UNCHANGED status /\ \A s \in Reqs \ {r} : meta'[s] = meta[s]
         /\ UNCHANGED reply =>
              ReplyTyped' /\ UNCHANGED status /\ \A s \in Reqs \ {r} : meta'[s] = meta[s]
BY DEF MapType, ReplyTyped, Replied, TtlReplied, reply

(* The commands of a handler keep the types. *)
LEMMA HandlerType ==
  ASSUME MapType, NEW r \in Reqs, Handler(r)
  PROVE  MapType'
<1> DEFINE op == call[r].op
           Quiet == ReplyTyped' /\ UNCHANGED status /\ \A s \in Reqs \ {r} : meta'[s] = meta[s]
<1>1. StoreTyped'
  BY HandlerEffect, EffectType DEF MapType
<1>2. SUFFICES ReplyTyped' /\ ControlTyped' /\ Shape' /\ Control'
  BY <1>1 DEF MapType
<1>3. pc[r] \notin {"idle", "done"}
  BY DEF Handler, SetMap, BatchSet, SetField, Get, BatchGet, TouchExists, Expire, Ttl, Delete, Answer
<1>4. op \in Ops /\ "answer" \in Path(op)
  BY <1>3, AtCommand DEF Path
<1>5. ASSUME NEW p, Step(r, p), Quiet, p \in Path(op), p \notin {"idle", "done"},
             p \in {"expire", "ttl"} /\ op = "set_field" => ~Tx(r)
      PROVE  ReplyTyped' /\ ControlTyped' /\ Shape' /\ Control'
  BY <1>3, <1>5, StepControl
<1>6. ASSUME NEW K, NEW F, Write(r, K, F)
      PROVE  ReplyTyped' /\ ControlTyped' /\ Shape' /\ Control'
  <2>1. ExpireOrPersist(AskedTtl(r)) \in Nat \cup {NoTtl, Missing}
    BY AskedType DEF MapType
  <2>2. Quiet /\ Step(r, "answer")
    BY <1>6, <2>1, RepliesType DEF Write
  <2> QED
    BY <1>4, <1>5, <2>2
<1>7. CASE SetMap(r) \/ BatchSet(r)
  BY <1>6, <1>7 DEF SetMap, BatchSet
<1>8. CASE SetField(r)
  <2>1. CASE ~Tx(r) /\ Hset(r, call[r].field, "expire")
    <3>1. Quiet /\ Step(r, "expire")
      BY <2>1, RepliesType DEF Hset
    <3>2. op = "set_field"
      BY <1>3, <1>8, AtCommand DEF SetField, Ops
    <3>3. "expire" \in Path(op)
      BY <3>2 DEF Path
    <3> QED
      BY <1>5, <2>1, <3>1, <3>3
  <2> QED
    BY <1>6, <1>8, <2>1 DEF SetField
<1>9. CASE Get(r)
  <2>1. op \in {"get", "get_field"} /\ call[r].key \in Keys
    BY <1>3, <1>9, AtCommand DEF Get, Ops, Batches
  <2>2. Quiet
    BY <1>9, <2>1, ReplyOne, RepliesType DEF Get, MapType
  <2>3. Step(r, "ttl") /\ "ttl" \in Path(op)
    BY <1>9, <2>1 DEF Get, Path
  <2> QED
    BY <1>5, <2>1, <2>2, <2>3
<1>10. CASE BatchGet(r)
  <2>1. op = "batch_get"
    BY <1>3, <1>10, AtCommand DEF BatchGet, Ops
  <2> DEFINE read == IF pc[r] = "batch_get" THEN {} ELSE DOMAIN result[r]
  <2>2. PICK k \in Keys :
          /\ Replied(r, [j \in read \cup {k} |-> IF j = k THEN hash[k] ELSE result[r][j]])
          /\ Step(r, IF read \cup {k} = Keys THEN "answer" ELSE "hgetall")
    BY <1>10 DEF BatchGet
  <2>3. result[r] \in Replies /\ hash[k] \in Maps
    BY DEF MapType, ReplyTyped, StoreTyped
  <2>4. [j \in read \cup {k} |-> IF j = k THEN hash[k] ELSE result[r][j]] \in Replies
    <3>1. PICK m \in Replies, v \in Maps, K \in SUBSET Keys : m = result[r] /\ v = hash[k] /\ K = read
      <4>1. read \subseteq Keys
        BY <2>3 DEF Replies
      <4> QED
        BY <2>3, <4>1
    <3>2. K = {} \/ K = DOMAIN m
      BY <3>1
    <3>3. [j \in K \cup {k} |-> IF j = k THEN v ELSE m[j]] \in Replies
      BY <3>2, ReplyGrows
    <3> QED
      BY <3>1, <3>3
  <2>5. Quiet
    BY <2>2, <2>4, RepliesType
  <2>6. PICK p \in {"answer", "hgetall"} : Step(r, p)
    BY <2>2
  <2>7. p \in Path(op) /\ p \notin {"idle", "done", "expire", "ttl"}
    BY <2>1, <2>6 DEF Path
  <2> QED
    BY <1>5, <2>5, <2>6, <2>7
<1>11. CASE TouchExists(r)
  <2>1. op = "touch" /\ call[r].key \in Keys
    BY <1>3, <1>11, AtCommand DEF TouchExists, Ops, Batches
  <2>2. Quiet
    BY <1>11, <2>1, ReplyOne, RepliesType DEF TouchExists, MapType
  <2>3. Step(r, "expire") /\ "expire" \in Path(op)
    BY <1>11, <2>1 DEF TouchExists, Path
  <2> QED
    BY <1>5, <2>1, <2>2, <2>3
<1>12. CASE Expire(r)
  <2>1. op \in {"touch", "set_field"} /\ (op = "set_field" => ~Tx(r))
    BY <1>3, <1>12, AtCommand DEF Expire, MapType, Control
  <2>2. Quiet
    BY <1>12, RepliesType DEF Expire
  <2>3. Step(r, "ttl") /\ "ttl" \in Path(op)
    BY <1>12, <2>1 DEF Expire, Path
  <2> QED
    BY <1>5, <2>1, <2>2, <2>3
<1>13. CASE Ttl(r)
  <2>1. call[r].key \in Keys
    BY <1>3, <1>13, AtCommand DEF Ttl, Batches
  <2>2. TtlReply(Present(call[r].key), ttl[call[r].key]) \in Nat \cup {NoTtl, Missing}
    BY <2>1 DEF MapType, StoreTyped, TtlReply
  <2>3. Quiet /\ Step(r, "answer")
    BY <1>13, <2>2, RepliesType DEF Ttl
  <2> QED
    BY <1>4, <1>5, <2>3
<1>14. CASE Delete(r)
  <2>1. call[r].key \in Keys
    BY <1>3, <1>14, AtCommand DEF Delete, Ops, Batches
  <2>2. Quiet /\ Step(r, "answer")
    BY <1>14, <2>1, ReplyOne, RepliesType DEF Delete, MapType
  <2> QED
    BY <1>4, <1>5, <2>2
<1>15. CASE Answer(r)
  <2>1. meta[r] \in Nat \cup {NoTtl, Missing} /\ MetaTtl(meta[r]) \in Nat \cup {NoTtl, Missing}
    BY DEF MapType, ReplyTyped, MetaTtl
  <2>2. \E code \in {200, 404}, t \in Nat \cup {NoTtl, Missing} : Respond(r, code, t)
    BY <1>15, <2>1 DEF Answer, Respond
  <2> QED
    BY <2>2, RespondType
<1> QED
  BY <1>7, <1>8, <1>9, <1>10, <1>11, <1>12, <1>13, <1>14, <1>15 DEF Handler

LEMMA MapTypeStep == MapType /\ [Next]_vars => MapType'
<1> SUFFICES ASSUME MapType, [Next]_vars PROVE MapType'
  OBVIOUS
<1>1. UNCHANGED store => StoreTyped'
  BY DEF store, MapType, StoreTyped, Present, NoFields
<1>2. UNCHANGED <<control, reply>> => ReplyTyped' /\ ControlTyped' /\ Shape' /\ Control'
  BY DEF control, reply, MapType, ReplyTyped, ControlTyped, Shape, Control, Tx, AskedTtl
<1>3. CASE UNCHANGED vars
  BY <1>1, <1>2, <1>3 DEF vars, MapType
<1>4. ASSUME NEW r \in Reqs, Arrive(r) PROVE MapType'
  <2>1. PICK c \in Calls : call' = [call EXCEPT ![r] = c] /\ RoundTrip(r, c.op)
    BY <1>4 DEF Arrive
  <2>2. c.op \in Ops /\ c.op \in Path(c.op) /\ UNCHANGED <<store, reply>> /\ pc[r] = "idle"
    BY <1>4, CallType DEF Arrive, Path
  <2>3. ReplyTyped' /\ ControlTyped' /\ Shape'
    BY <2>1, <2>2, RetriesAssumption DEF RoundTrip, reply, MapType, ReplyTyped, ControlTyped, Shape
  <2>4. Control'
    BY <2>1, <2>2 DEF RoundTrip, reply, MapType, ControlTyped, Shape, Control, Ops, Tx, AskedTtl
  <2> QED
    BY <1>1, <2>2, <2>3, <2>4 DEF MapType
<1>5. ASSUME NEW r \in Reqs, Refuse(r) PROVE MapType'
  <2>1. Respond(r, 400, NoTtl) /\ UNCHANGED store
    BY <1>5 DEF Refuse
  <2>2. ReplyTyped' /\ ControlTyped' /\ Shape' /\ Control'
    BY <2>1, GivenUpType
  <2> QED
    BY <1>1, <2>1, <2>2 DEF MapType
<1>6. ASSUME NEW r \in Reqs, LoseRoundTrip(r) PROVE MapType'
  <2>1. CASE Respond(r, 500, NoTtl)
    <3>1. UNCHANGED store
      BY <1>6 DEF LoseRoundTrip
    <3>2. ReplyTyped' /\ ControlTyped' /\ Shape' /\ Control'
      BY <2>1, GivenUpType
    <3> QED
      BY <1>1, <3>1, <3>2 DEF MapType
  <2>2. CASE tries[r] < Retries /\ pc' = [pc EXCEPT ![r] = rt[r]]
             /\ tries' = [tries EXCEPT ![r] = @ + 1] /\ UNCHANGED <<rt, call, reply>>
    <3>1. pc[r] \notin {"idle", "done"} /\ UNCHANGED store
      BY <1>6 DEF LoseRoundTrip, Lost
    <3>2. call[r] \in Calls /\ rt[r] = call[r].op /\ call[r].op \in Ops
      BY <3>1, AtCommand
    <3>3. rt[r] \in Path(call[r].op)
      BY <3>2 DEF Path
    <3>4. tries[r] + 1 \in 0..Retries
      BY <2>2, RetriesAssumption DEF MapType, ControlTyped
    <3>5. ReplyTyped' /\ ControlTyped' /\ Shape'
      BY <2>2, <3>2, <3>4 DEF reply, MapType, ReplyTyped, ControlTyped, Shape
    <3>6. Control'
      BY <2>2, <3>1, <3>2, <3>3 DEF reply, MapType, Shape, Control, Ops, Tx, AskedTtl
    <3> QED
      BY <1>1, <3>1, <3>5, <3>6 DEF MapType
  <2> QED
    BY <1>6, <2>1, <2>2 DEF LoseRoundTrip, Lost
<1>7. ASSUME NEW k \in Keys, KeyExpires(k) \/ KeyEvicted(k) PROVE MapType'
  <2>1. Remove(k, Fields) /\ UNCHANGED <<control, reply>>
    BY <1>7 DEF KeyExpires, KeyEvicted
  <2>2. StoreTyped'
    <3>1. hash' \in [Keys -> Maps] /\ ttl' \in [Keys -> Nat \cup {NoTtl}]
      BY <2>1 DEF Remove, MapType, StoreTyped, Maps
    <3>2. ASSUME NEW l \in Keys, hash'[l] = NoFields PROVE ttl'[l] = NoTtl
      BY <2>1, <3>2 DEF Remove, MapType, StoreTyped, Present
    <3> QED
      BY <3>1, <3>2 DEF StoreTyped, Present, NoFields
  <2> QED
    BY <1>2, <2>1, <2>2 DEF MapType
<1> QED
  BY <1>3, <1>4, <1>5, <1>6, <1>7, HandlerType DEF Next

(* Map routes: every variable stays in its type, and a map that does not   *)
(* exist has no TTL, whatever the requests, maps and TTLs.                 *)
THEOREM MapTypeCorrect == Spec => []TypeOK
<1>1. MapType => TypeOK
  BY DEF MapType, StoreTyped, ReplyTyped, ControlTyped, TypeOK, Maps
<1> QED
  BY MapTypeInit, MapTypeStep, <1>1, PTL DEF Spec

-------------------------------------------------------------------------------
(* Whole writes and TTLs *)

(* A field carries the label of a request that writes. *)
Owned == \A k \in Keys, f \in Fields, r \in Reqs : hash[k][f] = r => call[r].op \in Writers

(* WholeWrites, with the writers named. *)
OneWriter ==
  \A k, l \in Keys, f, g \in Fields, r, s \in Reqs :
    /\ hash[k][f] = r /\ hash[l][g] = s
    /\ \/ call[r].op = "batch_set" /\ call[s].op = "batch_set"
       \/ k = l /\ call[r].op \in {"batch_set", "set_map"} /\ call[s].op \in {"batch_set", "set_map"}
    => r = s

LEMMA OneWriterWhole == OneWriter => WholeWrites
BY DEF OneWriter, WholeWrites

(* A map without TTL is explained by a request that asked for none. *)
NoTtlExplained ==
  \A k \in Keys : Present(k) /\ ttl[k] = NoTtl =>
    \E r \in Reqs : call[r].op \in TtlSetters /\ AskedTtl(r) = 0

(* No request that wrote in a transaction, and none that was answered 200, *)
(* has seen its map missing.                                               *)
SeenPresent ==
  \A r \in Reqs : \/ call[r].op \in Writers /\ Tx(r)
                  \/ status[r] = 200
                  => meta[r] # Missing

MapInv == MapType /\ Owned /\ OneWriter /\ NoTtlExplained /\ SeenPresent

LEMMA MapInvInit == Init => MapInv
<1> SUFFICES ASSUME Init PROVE MapInv
  OBVIOUS
<1>1. \A k \in Keys : ~Present(k) /\ \A f \in Fields : hash[k][f] \notin Reqs
  BY MapAssumption DEF Init, Present, NoFields
<1>2. Owned /\ OneWriter /\ NoTtlExplained
  BY <1>1 DEF Owned, OneWriter, NoTtlExplained
<1>3. SeenPresent
  BY DEF Init, InitRequests, SeenPresent, NoTtl, Missing
<1> QED
  BY <1>2, <1>3, MapTypeInit DEF MapInv

(* Where a request may be answered or may write, its call is fixed. *)
LEMMA CallsKept ==
  ASSUME MapType, [Next]_vars, NEW s \in Reqs, call[s].op \in Ops
  PROVE  call'[s] = call[s]
<1>1. pc[s] # "idle"
  <2>1. NoCall.op \notin Ops
    BY DEF NoCall, Ops
  <2> QED
    BY <2>1 DEF MapType, Control
<1>2. CASE UNCHANGED vars
  BY <1>2 DEF vars, control
<1>3. ASSUME NEW r \in Reqs, Arrive(r) PROVE call'[s] = call[s]
  <2>1. r # s
    BY <1>1, <1>3 DEF Arrive
  <2> QED
    BY <1>3, <2>1 DEF Arrive, MapType, ControlTyped
<1>4. ASSUME NEW r \in Reqs, Refuse(r) \/ LoseRoundTrip(r) PROVE call'[s] = call[s]
  BY <1>4 DEF Refuse, LoseRoundTrip, Lost, Respond
<1>5. ASSUME NEW r \in Reqs, Handler(r) PROVE call'[s] = call[s]
  BY <1>5, HandlerEffect
<1>6. ASSUME NEW k \in Keys, KeyExpires(k) \/ KeyEvicted(k) PROVE call'[s] = call[s]
  BY <1>6 DEF KeyExpires, KeyEvicted, control
<1> QED
  BY <1>2, <1>3, <1>4, <1>5, <1>6 DEF Next

(* A step leaves the store alone, removes fields, or is a write or a touch.*)
LEMMA StoreStep ==
  ASSUME MapType, [Next]_vars
  PROVE  \/ UNCHANGED store
         \/ Removed
         \/ \E r \in Reqs : Handler(r)
<1>1. ASSUME NEW k \in Keys, KeyExpires(k) \/ KeyEvicted(k) PROVE Removed
  BY <1>1 DEF KeyExpires, KeyEvicted, Removed
<1>2. ASSUME NEW r \in Reqs, Arrive(r) \/ Refuse(r) \/ LoseRoundTrip(r) PROVE UNCHANGED store
  BY <1>2 DEF Arrive, Refuse, LoseRoundTrip
<1> QED
  BY <1>1, <1>2 DEF Next, vars

(* What a field holds after a step: what it did, nothing, or the write of  *)
(* the request that moves.                                                 *)
LEMMA FieldsAfter ==
  ASSUME MapType, NEW k \in Keys, NEW f \in Fields
  PROVE  /\ UNCHANGED store \/ Removed => hash'[k][f] \in {hash[k][f], NoReq}
         /\ \A r \in Reqs : Touched(r) => hash'[k][f] = hash[k][f]
         /\ \A r \in Reqs : Written(r) =>
              IF k \in WriteKeys(r) /\ f \in WriteFields(r) THEN hash'[k][f] = r
                                                            ELSE hash'[k][f] = hash[k][f]
<1>1. hash \in [Keys -> Maps]
  BY DEF MapType, StoreTyped
<1>2. UNCHANGED store => hash'[k][f] \in {hash[k][f], NoReq}
  BY DEF store
<1>3. ASSUME Removed PROVE hash'[k][f] \in {hash[k][f], NoReq}
  BY <1>1, <1>3 DEF Removed, Remove, Maps
<1>4. ASSUME NEW r \in Reqs, Touched(r) PROVE hash'[k][f] = hash[k][f]
  BY <1>4 DEF Touched
<1>5. ASSUME NEW r \in Reqs, Written(r)
      PROVE  IF k \in WriteKeys(r) /\ f \in WriteFields(r) THEN hash'[k][f] = r
                                                           ELSE hash'[k][f] = hash[k][f]
  BY <1>1, <1>5 DEF Written, Maps
<1> QED
  BY <1>2, <1>3, <1>4, <1>5

LEMMA FieldsStep ==
  ASSUME MapType, Owned, OneWriter, [Next]_vars
  PROVE  Owned' /\ OneWriter'
<1>1. NoReq \notin Reqs
  BY MapAssumption
<1>2. ASSUME NEW s \in Reqs, call[s].op \in Writers PROVE call'[s] = call[s]
  BY <1>2, CallsKept DEF Writers, Ops
<1>3. ASSUME \A k \in Keys, f \in Fields : hash'[k][f] \in {hash[k][f], NoReq}
      PROVE  Owned' /\ OneWriter'
  <2>1. ASSUME NEW k \in Keys, NEW f \in Fields, NEW s \in Reqs, hash'[k][f] = s
        PROVE  hash[k][f] = s /\ call'[s] = call[s] /\ call[s].op \in Writers
    BY <1>1, <1>2, <1>3, <2>1 DEF Owned
  <2>2. Owned'
    BY <2>1 DEF Owned
  <2>3. OneWriter'
    BY <2>1 DEF OneWriter
  <2> QED
    BY <2>2, <2>3
<1>4. CASE UNCHANGED store \/ Removed
  BY <1>3, <1>4, FieldsAfter
<1>5. ASSUME NEW r \in Reqs, Handler(r) PROVE Owned' /\ OneWriter'
  <2>1. Effect(r) /\ UNCHANGED call
    BY <1>5, HandlerEffect
  <2>2. CASE Touched(r)
    BY <1>3, <2>2, FieldsAfter
  <2>3. CASE Written(r)
    <3>1. call[r].op \in Writers
      BY <2>3 DEF Written
    <3>2. \A k \in Keys, f \in Fields :
            IF k \in WriteKeys(r) /\ f \in WriteFields(r) THEN hash'[k][f] = r
                                                          ELSE hash'[k][f] = hash[k][f]
      BY <2>3, FieldsAfter
    <3>3. Owned'
      BY <2>1, <3>1, <3>2 DEF Owned
    <3>4. CASE call[r].op = "set_field"
      <4>1. \A k \in Keys, f \in Fields, s \in Reqs :
              hash'[k][f] = s /\ call[s].op # "set_field" => hash[k][f] = s
        BY <3>2, <3>4
      <4> QED
        BY <2>1, <3>3, <4>1 DEF OneWriter
    <3>5. CASE call[r].op = "set_map"
      <4>1. \A k \in Keys, f \in Fields :
              IF k = call[r].key THEN hash'[k][f] = r ELSE hash'[k][f] = hash[k][f]
        BY <3>2, <3>5 DEF WriteKeys, WriteFields
      <4> QED
        BY <2>1, <3>3, <3>5, <4>1 DEF OneWriter
    <3>6. CASE call[r].op = "batch_set"
      <4>1. \A k \in Keys, f \in Fields : hash'[k][f] = r
        BY <3>2, <3>6 DEF WriteKeys, WriteFields
      <4> QED
        BY <3>3, <4>1 DEF OneWriter
    <3> QED
      BY <3>1, <3>4, <3>5, <3>6, <3>3 DEF Writers
  <2> QED
    BY <1>4, <2>1, <2>2, <2>3 DEF Effect
<1> QED
  BY <1>4, <1>5, StoreStep

LEMMA NoTtlStep ==
  ASSUME MapType, NoTtlExplained, [Next]_vars
  PROVE  NoTtlExplained'
<1> SUFFICES ASSUME NEW k \in Keys, Present(k)', ttl'[k] = NoTtl
             PROVE  \E r \in Reqs : call'[r].op \in TtlSetters /\ AskedTtl(r)' = 0
  BY DEF NoTtlExplained
<1>1. ASSUME NEW s \in Reqs, call[s].op \in TtlSetters, AskedTtl(s) = 0
      PROVE  \E r \in Reqs : call'[r].op \in TtlSetters /\ AskedTtl(r)' = 0
  <2>1. call'[s] = call[s]
    BY <1>1, CallsKept DEF TtlSetters, Ops
  <2> QED
    BY <1>1, <2>1 DEF AskedTtl
<1>2. CASE Present(k) /\ ttl[k] = NoTtl
  BY <1>1, <1>2 DEF NoTtlExplained
<1>3. ASSUME Removed PROVE Present(k) /\ ttl[k] = NoTtl
  <2>1. PICK l \in Keys, F \in SUBSET Fields : Remove(l, F)
    BY <1>3 DEF Removed
  <2>2. CASE l # k
    BY <2>1, <2>2 DEF Remove, MapType, StoreTyped, Present, NoFields
  <2>3. CASE l = k
    <3>1. hash'[k] = [f \in Fields |-> IF f \in F THEN NoReq ELSE hash[k][f]]
      BY <2>1, <2>3 DEF Remove, MapType, StoreTyped
    <3>2. hash'[k] # NoFields
      BY DEF Present, NoFields
    <3>3. ttl'[k] = ttl[k]
      BY <2>1, <2>3, <3>2 DEF Remove, MapType, StoreTyped
    <3>4. Present(k)
      BY <3>1, <3>2 DEF Present, NoFields
    <3> QED
      BY <3>3, <3>4
  <2> QED
    BY <2>2, <2>3
<1>4. ASSUME UNCHANGED store PROVE Present(k) /\ ttl[k] = NoTtl
  BY <1>4 DEF store, Present, NoFields
<1>5. ASSUME NEW r \in Reqs, Handler(r)
      PROVE  \/ Present(k) /\ ttl[k] = NoTtl
             \/ call[r].op \in TtlSetters /\ AskedTtl(r) = 0
  <2>1. Effect(r)
    BY <1>5, HandlerEffect
  <2>2. ExpireOrPersist(AskedTtl(r)) = NoTtl <=> AskedTtl(r) = 0
    BY AskedType DEF MapType
  <2>3. CASE Written(r)
    <3>1. call[r].op \in TtlSetters
      BY <2>3 DEF Written, Writers, TtlSetters
    <3>2. CASE k \in WriteKeys(r)
      BY <2>2, <2>3, <3>1, <3>2 DEF Written
    <3>3. CASE k \notin WriteKeys(r)
      BY <2>3, <3>1, <3>3 DEF Written, Present, NoFields
    <3> QED
      BY <3>2, <3>3
  <2>4. CASE Touched(r)
    <3>1. call[r].op \in TtlSetters /\ hash' = hash /\ Present(k)
      BY <2>4 DEF Touched, TtlSetters, Present, NoFields
    <3>2. CASE k = call[r].key
      BY <2>2, <2>4, <3>1, <3>2 DEF Touched, MapType, StoreTyped
    <3>3. CASE k # call[r].key
      BY <2>4, <3>1, <3>3 DEF Touched, MapType, StoreTyped
    <3> QED
      BY <3>2, <3>3
  <2> QED
    BY <1>3, <1>4, <2>1, <2>3, <2>4 DEF Effect
<1> QED
  BY <1>1, <1>2, <1>3, <1>4, <1>5, StoreStep

(* What r has been told does not change when others move. *)
LEMMA SeenStep ==
  ASSUME MapType, SeenPresent, [Next]_vars
  PROVE  SeenPresent'
<1> DEFINE Seen(s) == (call[s].op \in Writers /\ Tx(s)) \/ status[s] = 200 => meta[s] # Missing
<1> SUFFICES ASSUME NEW s \in Reqs PROVE Seen(s)'
  BY DEF SeenPresent
<1>1. Seen(s) /\ MapType
  BY DEF SeenPresent
<1>2. call'[s] = call[s] => (Tx(s)' <=> Tx(s))
  BY DEF Tx, AskedTtl
<1>3. ASSUME UNCHANGED reply, call'[s] = call[s] PROVE Seen(s)'
  BY <1>1, <1>2, <1>3 DEF reply
<1>4. NoTtl # Missing /\ 0 # 200 /\ (\A t : MetaTtl(t) # Missing)
  BY DEF MetaTtl, NoTtl, Missing
<1>5. CASE UNCHANGED vars
  BY <1>3, <1>5 DEF vars, control
<1>6. ASSUME NEW r \in Reqs, Arrive(r) PROVE Seen(s)'
  <2>1. pc[r] = "idle" /\ meta' = meta /\ status' = status /\ (s # r => call'[s] = call[s])
    BY <1>6 DEF Arrive, reply, MapType, ControlTyped
  <2>2. meta[r] = NoTtl
    BY <2>1 DEF MapType, Control
  <2> QED
    BY <1>1, <1>2, <1>4, <2>1, <2>2
<1>7. ASSUME NEW r \in Reqs, Refuse(r) \/ LoseRoundTrip(r) PROVE Seen(s)'
  <2>1. \/ UNCHANGED <<call, reply>>
        \/ /\ UNCHANGED call
           /\ status'[r] # 200 /\ meta'[r] = NoTtl
           /\ \A q \in Reqs \ {r} : status'[q] = status[q] /\ meta'[q] = meta[q]
    BY <1>7 DEF Refuse, LoseRoundTrip, Lost, Respond, MapType, ReplyTyped
  <2> QED
    BY <1>1, <1>2, <1>3, <1>4, <2>1
<1>8. ASSUME NEW k \in Keys, KeyExpires(k) \/ KeyEvicted(k) PROVE Seen(s)'
  BY <1>3, <1>8 DEF KeyExpires, KeyEvicted, control
<1>9. ASSUME NEW r \in Reqs, Handler(r) PROVE Seen(s)'
  <2>1. UNCHANGED call /\ pc[r] \notin {"idle", "done"}
    BY <1>9, HandlerEffect
    DEF Handler, SetMap, BatchSet, SetField, Get, BatchGet, TouchExists, Expire, Ttl, Delete, Answer
  <2>2. status[r] = 0
    BY <2>1 DEF MapType, Control
  <2>3. ExpireOrPersist(AskedTtl(r)) # Missing
    BY AskedType DEF MapType, NoTtl, Missing
  <2>4. meta \in [Reqs -> Nat \cup {NoTtl, Missing}] /\ status \in [Reqs -> {0, 200, 400, 404, 500}]
    BY DEF MapType, ReplyTyped
  <2>5. ASSUME NEW K, NEW F, Write(r, K, F) PROVE Seen(s)'
    <3>1. meta' = [meta EXCEPT ![r] = ExpireOrPersist(AskedTtl(r))] /\ status' = status
      BY <2>5 DEF Write, TtlReplied
    <3> QED
      BY <1>1, <1>2, <2>1, <2>3, <2>4, <3>1
  <2>6. CASE SetMap(r) \/ BatchSet(r)
    BY <2>5, <2>6 DEF SetMap, BatchSet
  <2>7. CASE SetField(r)
    BY <1>3, <2>1, <2>5, <2>7 DEF SetField, Hset
  <2>8. CASE Get(r) \/ BatchGet(r) \/ TouchExists(r) \/ Delete(r)
    BY <1>1, <1>2, <2>1, <2>8 DEF Get, BatchGet, TouchExists, Delete, Replied
  <2>9. CASE Expire(r)
    BY <1>3, <2>1, <2>9 DEF Expire
  <2>10. CASE Ttl(r)
    <3>1. ~(call[r].op \in Writers /\ Tx(r))
      BY <2>1, <2>10, AtCommand DEF Ttl, MapType, Control, Writers
    <3>2. status' = status /\ \A q \in Reqs \ {r} : meta'[q] = meta[q]
      BY <2>4, <2>10 DEF Ttl, TtlReplied
    <3> QED
      BY <1>1, <1>2, <1>4, <2>1, <2>2, <3>1, <3>2
  <2>11. CASE Answer(r)
    <3>1. \A q \in Reqs \ {r} : meta'[q] = meta[q] /\ status'[q] = status[q]
      BY <2>4, <2>11 DEF Answer, Respond
    <3>2. /\ status'[r] = 200 => meta'[r] # Missing
          /\ call[r].op \in Writers => \/ meta'[r] \in {NoTtl, MetaTtl(meta[r])}
                                       \/ Tx(r) /\ meta'[r] = meta[r]
      <4>1. meta[r] # Missing \/ ~(call[r].op \in Writers /\ Tx(r))
        BY DEF SeenPresent
      <4>2. call[r].op = "set_map" => Tx(r)
        BY DEF Tx
      <4> QED
        BY <1>4, <2>4, <2>11, <4>1, <4>2 DEF Answer, Respond, Writers
    <3>3. call[r].op \in Writers /\ Tx(r) => meta[r] # Missing
      BY DEF SeenPresent
    <3> QED
      BY <1>1, <1>2, <1>4, <2>1, <3>1, <3>2, <3>3
  <2> QED
    BY <1>9, <2>6, <2>7, <2>8, <2>9, <2>10, <2>11 DEF Handler
<1> QED
  BY <1>5, <1>6, <1>7, <1>8, <1>9 DEF Next

LEMMA MapInvStep == MapInv /\ [Next]_vars => MapInv'
BY MapTypeStep, FieldsStep, NoTtlStep, SeenStep DEF MapInv

(* POST of a map and batch_set_map: what concurrent whole writes leave of  *)
(* a map, and batches of all maps, comes from one write.                   *)
THEOREM WritesWhole == Spec => []WholeWrites
<1>1. MapInv => WholeWrites
  BY OneWriterWhole DEF MapInv
<1> QED
  BY MapInvInit, MapInvStep, <1>1, PTL DEF Spec

(* The writes of map.py and their TTLs: a map without TTL is one that some *)
(* request wanted so, and no 200 speaks of a map that is gone.             *)
THEOREM TtlsWithWrites == Spec => []TtlWithWrite
<1>1. MapInv => TtlWithWrite
  BY DEF MapInv, NoTtlExplained, SeenPresent, TtlWithWrite
<1> QED
  BY MapInvInit, MapInvStep, <1>1, PTL DEF Spec
===============================================================================
