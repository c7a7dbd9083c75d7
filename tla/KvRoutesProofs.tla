---------------------------- MODULE KvRoutesProofs ----------------------------
(***************************************************************************)
(* Proofs about KvRoutes for every set of requests and keys, every integer *)
(* word and every number of retries.                                       *)
(***************************************************************************)
EXTENDS KvRoutes, TLAPS

Ops == {"set", "nx", "batch_set", "get", "delete", "exists", "batch_get", "incr", "touch"}
Batches == {"batch_set", "batch_get"}

(* The commands a request passes between its arrival and its response. *)
Path(op) ==
  {op, "answer"} \cup (IF op \in {"get", "incr", "touch"} THEN {"ttl"} ELSE {})
                 \cup (IF op = "touch" THEN {"expire"} ELSE {})

-------------------------------------------------------------------------------
(* Types *)

(* What a call record holds, whatever the endpoint. *)
LEMMA CallType ==
  ASSUME NEW c \in Calls \cup {NoCall}
  PROVE  /\ resolve_ttl(c.ttl) \in Nat
         /\ c.n \in IntMin..IntMax
         /\ c \in Calls => c.op \in Ops
         /\ c \in Calls /\ c.op \notin Batches => c.key \in Keys
<1>1. c.ttl \in BodyTtls \cup {Unset}
  BY DEF Calls, NoCall
<1>2. resolve_ttl(c.ttl) \in Nat
  BY <1>1, KvAssumption, DefaultTtlAssumption DEF resolve_ttl
<1>3. c.n \in {0} \cup Numbers \cup Deltas
  BY DEF Calls, NoCall
<1>4. c.n \in IntMin..IntMax
  <2>1. 0 \in IntMin..IntMax /\ Numbers \subseteq IntMin..IntMax /\ Deltas \subseteq IntMin..IntMax
    BY KvAssumption
  <2> QED
    BY <1>3, <2>1, Zenon
<1>5. c \in Calls => c.op \in Ops
  BY DEF Calls, Ops
<1>6. c \in Calls /\ c.op \notin Batches => c.key \in Keys
  BY DEF Calls, Batches
<1> QED
  BY <1>2, <1>4, <1>5, <1>6

(* A request in flight is on the path of its call and a lost round trip    *)
(* goes back to its first command.                                         *)
Control ==
  \A r \in Reqs :
    /\ pc[r] = "idle" => call[r] = NoCall
    /\ pc[r] \notin {"idle", "done"} =>
         call[r] \in Calls /\ rt[r] = call[r].op /\ pc[r] \in Path(call[r].op)
    /\ pc[r] # "done" => status[r] = 0

Shape ==
  /\ pc \in [Reqs -> {"idle", "done", "answer", "ttl", "expire"} \cup Ops]
  /\ rt \in [Reqs -> {"idle"} \cup Ops]

KvType == TypeOK /\ Shape /\ Control

LEMMA ValueType ==
  ASSUME KvType, NEW r \in Reqs
  PROVE  /\ Value(r) \in Entries
         /\ Value(r).by = r
         /\ Value(r) # Absent
         /\ AskedTtl(r) \in Nat
         /\ ExpireOrPersist(AskedTtl(r)) \in Nat \cup {NoTtl}
         /\ ExpireOrPersist(AskedTtl(r)) > 0 <=> AskedTtl(r) > 0
<1>1. call[r] \in Calls \cup {NoCall}
  BY DEF KvType, TypeOK
<1>2. call[r].n \in IntMin..IntMax /\ AskedTtl(r) \in Nat
  BY <1>1, CallType DEF AskedTtl
<1>3. Value(r) \in Entries /\ Value(r).by = r /\ Value(r) # Absent
  BY <1>2, KvAssumption DEF Value, Number, Text, Entries, Absent
<1> QED
  BY <1>2, <1>3 DEF ExpireOrPersist, NoTtl

(* Where the handler of each endpoint may be. *)
LEMMA AtCommand ==
  ASSUME KvType, NEW r \in Reqs, pc[r] \notin {"idle", "done"}
  PROVE  /\ call[r] \in Calls
         /\ call[r].op \in Ops
         /\ rt[r] = call[r].op
         /\ pc[r] \in Ops => call[r].op = pc[r]
         /\ pc[r] = "expire" => call[r].op = "touch"
         /\ pc[r] = "ttl" => call[r].op \in {"get", "incr", "touch"}
         /\ pc[r] \in {"expire", "ttl"} \cup (Ops \ Batches) => call[r].key \in Keys
<1>1. call[r] \in Calls /\ rt[r] = call[r].op /\ pc[r] \in Path(call[r].op)
  BY DEF KvType, Control
<1>2. call[r].op \in Ops
  BY <1>1, CallType
<1>3. /\ pc[r] \in Ops => call[r].op = pc[r]
      /\ pc[r] = "expire" => call[r].op = "touch"
      /\ pc[r] = "ttl" => call[r].op \in {"get", "incr", "touch"}
  BY <1>1, <1>2 DEF Path, Ops
<1> QED
  BY <1>1, <1>2, <1>3, CallType DEF Batches

LEMMA KvTypeInit == Init => KvType
<1> SUFFICES ASSUME Init PROVE KvType
  OBVIOUS
<1>1. Absent \in Entries
  BY KvAssumption DEF Absent, Entries
<1>2. TypeOK
  BY <1>1, RetriesAssumption, KvAssumption
  DEF Init, InitRequests, TypeOK, NoTtl, Missing
<1>3. Shape /\ Control
  BY DEF Init, InitRequests, Shape, Control
<1> QED
  BY <1>2, <1>3 DEF KvType

(* Storing e under the keys S keeps the types of the store. *)
LEMMA StoreType ==
  ASSUME KvType, NEW S, NEW e \in Entries, NEW t \in Nat, Store(S, e, t)
  PROVE  /\ db' \in [Keys -> Entries]
         /\ ttl' \in [Keys -> Nat \cup {NoTtl}]
         /\ age' \in [Keys -> Nat]
<1>1. ExpireOrPersist(t) \in Nat \cup {NoTtl}
  BY DEF ExpireOrPersist
<1>2. db' \in [Keys -> Entries] /\ ttl' \in [Keys -> Nat \cup {NoTtl}]
  BY <1>1 DEF Store, KvType, TypeOK
<1>3. age' \in [Keys -> Nat]
  BY DEF Store, KvType, TypeOK
<1> QED
  BY <1>2, <1>3

(* And so does removing a key. *)
LEMMA DropType ==
  ASSUME KvType, NEW k \in Keys, Drop(k)
  PROVE  /\ db' \in [Keys -> Entries]
         /\ ttl' \in [Keys -> Nat \cup {NoTtl}]
         /\ age' \in [Keys -> Nat] /\ saw' \in [Reqs -> Nat]
<1>1. Absent \in Entries
  BY KvAssumption DEF Absent, Entries
<1>2. db' \in [Keys -> Entries] /\ ttl' \in [Keys -> Nat \cup {NoTtl}]
  BY <1>1 DEF Drop, KvType, TypeOK
<1>3. age' \in [Keys -> Nat] /\ saw' \in [Reqs -> Nat]
  BY DEF Drop, KvType, TypeOK
<1> QED
  BY <1>2, <1>3

StoreTyped ==
  /\ db \in [Keys -> Entries]
  /\ ttl \in [Keys -> Nat \cup {NoTtl}]
  /\ age \in [Keys -> Nat] /\ saw \in [Reqs -> Nat]

ReplyTyped ==
  /\ result \in [Reqs -> Entries]
  /\ meta \in [Reqs -> Nat \cup {NoTtl, Missing}]
  /\ status \in [Reqs -> {0, 200, 400, 404, 409, 500}]

ControlTyped ==
  /\ call \in [Reqs -> Calls \cup {NoCall}]
  /\ tries \in [Reqs -> 0..Retries]

(* A step inside a round trip, of a request that is on its path. *)
LEMMA StepControl ==
  ASSUME KvType, NEW r \in Reqs, NEW p, Step(r, p), UNCHANGED status,
         pc[r] \notin {"idle", "done"},
         p \in Path(call[r].op) \ {"idle", "done"}
  PROVE  ControlTyped' /\ Shape' /\ Control'
<1>1. call[r].op \in Ops
  BY AtCommand
<1>2. p \in {"answer", "ttl", "expire"} \cup Ops
  BY <1>1 DEF Path
<1>3. Shape' /\ ControlTyped'
  BY <1>2 DEF Step, KvType, TypeOK, Shape, ControlTyped
<1>4. Control'
  BY DEF Step, KvType, Control, Shape
<1> QED
  BY <1>3, <1>4

(* The response of a request. *)
LEMMA RespondType ==
  ASSUME KvType, NEW r \in Reqs,
         NEW code \in {200, 400, 404, 409, 500}, NEW t \in Nat \cup {NoTtl, Missing},
         Respond(r, code, t)
  PROVE  ReplyTyped' /\ ControlTyped' /\ Shape' /\ Control'
<1>1. ReplyTyped' /\ ControlTyped' /\ Shape'
  BY DEF Respond, KvType, TypeOK, ReplyTyped, ControlTyped, Shape
<1>2. Control'
  BY DEF Respond, KvType, TypeOK, Control, Shape
<1> QED
  BY <1>1, <1>2

LEMMA KvTypeParts == TypeOK <=> StoreTyped /\ ReplyTyped /\ ControlTyped
BY DEF TypeOK, StoreTyped, ReplyTyped, ControlTyped

(* A command whose reply is data. *)
LEMMA DataReplyType ==
  ASSUME KvType, NEW r \in Reqs, NEW v \in Entries, Replied(r, v)
  PROVE  ReplyTyped' /\ UNCHANGED status
BY DEF Replied, KvType, TypeOK, ReplyTyped

(* The handler's commands keep the types. *)
LEMMA HandlerType ==
  ASSUME KvType, NEW r \in Reqs, Handler(r)
  PROVE  KvType'
<1>1. StoreTyped /\ ReplyTyped /\ ControlTyped
  BY KvTypeParts DEF KvType
<1>2. SUFFICES StoreTyped' /\ ReplyTyped' /\ ControlTyped' /\ Shape' /\ Control'
  BY KvTypeParts DEF KvType, TypeOK, StoreTyped, ReplyTyped, ControlTyped
<1> DEFINE op == call[r].op
<1>3. pc[r] \notin {"idle", "done"} => op \in Ops /\ "answer" \in Path(op) /\ Path(op) \cap {"idle", "done"} = {}
  <2>1. ASSUME op \in Ops PROVE "answer" \in Path(op) /\ Path(op) \cap {"idle", "done"} = {}
    BY <2>1 DEF Path, Ops
  <2> QED
    BY <2>1, AtCommand
<1>4. Absent \in Entries
  BY KvAssumption DEF Absent, Entries
<1>5. UNCHANGED store => StoreTyped'
  BY <1>1 DEF store, StoreTyped
<1>6. UNCHANGED reply => ReplyTyped' /\ UNCHANGED status
  BY <1>1 DEF reply, ReplyTyped
<1>7. call[r].key \in Keys => db[call[r].key] \in Entries
  BY <1>1 DEF StoreTyped
<1>8. ASSUME NEW S, Store(S, Value(r), AskedTtl(r)), UNCHANGED saw \/ \E a \in Nat : saw' = [saw EXCEPT ![r] = a]
      PROVE  StoreTyped'
  BY <1>1, <1>8, ValueType, StoreType DEF StoreTyped
<1>9. CASE Set(r)
  <2>1. pc[r] \notin {"idle", "done"} /\ Step(r, "answer") /\ UNCHANGED <<saw, reply>>
    BY <1>9 DEF Set
  <2> QED
    BY <2>1, <1>3, <1>6, <1>8, <1>9, StepControl DEF Set
<1>10. CASE BatchSet(r)
  <2>1. pc[r] \notin {"idle", "done"} /\ Step(r, "answer") /\ UNCHANGED <<saw, reply>>
    BY <1>10 DEF BatchSet
  <2> QED
    BY <2>1, <1>3, <1>6, <1>8, <1>10, StepControl DEF BatchSet
<1>11. CASE SetNx(r)
  <2>1. pc[r] \notin {"idle", "done"} /\ Step(r, "answer") /\ call[r].key \in Keys
    BY <1>11, AtCommand DEF SetNx, Ops, Batches
  <2>2. StoreTyped'
    <3>1. age[call[r].key] \in Nat
      BY <1>1, <2>1 DEF StoreTyped
    <3> QED
      BY <3>1, <1>5, <1>8, <1>11 DEF SetNx
  <2>3. ReplyTyped' /\ UNCHANGED status
    BY <1>4, <1>11, ValueType, DataReplyType DEF SetNx
  <2> QED
    BY <2>1, <2>2, <2>3, <1>3, StepControl
<1>12. CASE Get(r)
  <2>1. pc[r] \notin {"idle", "done"} /\ Step(r, "ttl") /\ call[r].key \in Keys /\ op = "get"
    BY <1>12, AtCommand DEF Get, Ops, Batches
  <2>2. "ttl" \in Path(op)
    BY <2>1 DEF Path
  <2>3. StoreTyped' /\ ReplyTyped' /\ UNCHANGED status
    BY <2>1, <1>5, <1>7, <1>12, DataReplyType DEF Get
  <2> QED
    BY <2>1, <2>2, <2>3, StepControl
<1>13. CASE BatchGet(r)
  BY <1>3, <1>5, <1>6, <1>13, StepControl DEF BatchGet, store
<1>14. CASE Incr(r)
  <2> DEFINE k == call[r].key
  <2>1. pc[r] \notin {"idle", "done"} /\ Step(r, "ttl") /\ k \in Keys /\ op = "incr"
    BY <1>14, AtCommand DEF Incr, Ops, Batches
  <2>2. "ttl" \in Path(op)
    BY <2>1 DEF Path
  <2>3. StoreTyped' /\ ReplyTyped' /\ UNCHANGED status
    <3>1. CASE UNCHANGED store /\ Replied(r, Absent)
      BY <3>1, <1>4, <1>5, DataReplyType
    <3>2. CASE ~(UNCHANGED store /\ Replied(r, Absent))
      <4> DEFINE sum == Number(r, db[k].n + call[r].n)
      <4>1. /\ ~IncrRefused(k, call[r].n)
            /\ db' = [db EXCEPT ![k] = sum] /\ saw' = [saw EXCEPT ![r] = age[k]]
            /\ Replied(r, sum) /\ UNCHANGED <<ttl, age>>
        BY <1>14, <3>2 DEF Incr
      <4>2. sum \in Entries
        BY <4>1 DEF IncrRefused, Number, Entries
      <4>3. age[k] \in Nat
        BY <1>1, <2>1 DEF StoreTyped
      <4> HIDE DEF sum
      <4>4. StoreTyped'
        BY <1>1, <2>1, <4>1, <4>2, <4>3 DEF StoreTyped
      <4> QED
        BY <4>1, <4>2, <4>4, DataReplyType
    <3> QED
      BY <3>1, <3>2
  <2> QED
    BY <2>1, <2>2, <2>3, StepControl
<1>15. CASE TouchExists(r)
  <2>1. pc[r] \notin {"idle", "done"} /\ Step(r, "expire") /\ call[r].key \in Keys /\ op = "touch"
    BY <1>15, AtCommand DEF TouchExists, Ops, Batches
  <2>2. "expire" \in Path(op)
    BY <2>1 DEF Path
  <2>3. StoreTyped' /\ ReplyTyped' /\ UNCHANGED status
    BY <2>1, <1>5, <1>7, <1>15, DataReplyType DEF TouchExists
  <2> QED
    BY <2>1, <2>2, <2>3, StepControl
<1>16. CASE Expire(r)
  <2>1. pc[r] \notin {"idle", "done"} /\ Step(r, "ttl") /\ op = "touch"
    BY <1>16, AtCommand DEF Expire
  <2>2. "ttl" \in Path(op)
    BY <2>1 DEF Path
  <2>3. StoreTyped'
    BY <1>1, <1>16, ValueType DEF Expire, StoreTyped
  <2> QED
    BY <2>1, <2>2, <2>3, <1>6, <1>16, StepControl DEF Expire, reply
<1>17. CASE Ttl(r)
  <2>1. pc[r] \notin {"idle", "done"} /\ Step(r, "answer") /\ call[r].key \in Keys
    BY <1>17, AtCommand DEF Ttl
  <2>2. ttl[call[r].key] \in Nat \cup {NoTtl}
    BY <1>1, <2>1 DEF StoreTyped
  <2>3. ReplyTyped' /\ UNCHANGED status
    BY <1>1, <1>17, <2>2 DEF Ttl, TtlReplied, TtlReply, ReplyTyped
  <2> QED
    BY <2>1, <2>3, <1>3, <1>5, <1>17, StepControl DEF Ttl, store
<1>18. CASE Delete(r)
  <2>1. pc[r] \notin {"idle", "done"} /\ Step(r, "answer") /\ call[r].key \in Keys
    BY <1>18, AtCommand DEF Delete, Ops, Batches
  <2>2. StoreTyped' /\ ReplyTyped' /\ UNCHANGED status
    BY <2>1, <1>7, <1>18, DataReplyType, DropType DEF Delete, StoreTyped
  <2> QED
    BY <2>1, <2>2, <1>3, StepControl
<1>19. CASE ExistsKey(r)
  <2>1. pc[r] \notin {"idle", "done"} /\ Step(r, "answer") /\ call[r].key \in Keys
    BY <1>19, AtCommand DEF ExistsKey, Ops, Batches
  <2>2. StoreTyped' /\ ReplyTyped' /\ UNCHANGED status
    BY <2>1, <1>5, <1>7, <1>19, DataReplyType DEF ExistsKey
  <2> QED
    BY <2>1, <2>2, <1>3, StepControl
<1>20. CASE Answer(r)
  <2>1. \E code \in {200, 400, 404, 409, 500}, t \in Nat \cup {NoTtl, Missing} : Respond(r, code, t)
    <3>1. meta[r] \in Nat \cup {NoTtl, Missing} /\ MetaTtl(meta[r]) \in Nat \cup {NoTtl, Missing}
      BY <1>1 DEF ReplyTyped, MetaTtl
    <3>2. ExpireOrPersist(AskedTtl(r)) \in Nat \cup {NoTtl, Missing}
      BY ValueType
    <3>3. TouchStatus(r) \in {200, 404}
      BY DEF TouchStatus
    <3> QED
      BY <1>20, <3>1, <3>2, <3>3 DEF Answer, Respond
  <2> QED
    BY <2>1, <1>5, <1>20, RespondType DEF Answer
<1> QED
  BY <1>9, <1>10, <1>11, <1>12, <1>13, <1>14, <1>15, <1>16, <1>17, <1>18, <1>19, <1>20 DEF Handler

(* Every step keeps the types. *)
LEMMA KvTypeStep == KvType /\ [Next]_vars => KvType'
<1> SUFFICES ASSUME KvType, [Next]_vars PROVE KvType'
  OBVIOUS
<1>1. StoreTyped /\ ReplyTyped /\ ControlTyped
  BY KvTypeParts DEF KvType
<1>2. ASSUME StoreTyped', ReplyTyped', ControlTyped', Shape', Control' PROVE KvType'
  BY <1>2 DEF KvType, TypeOK, StoreTyped, ReplyTyped, ControlTyped
<1>3. UNCHANGED store => StoreTyped'
  BY <1>1 DEF store, StoreTyped
<1>4. UNCHANGED <<control, reply>> => ReplyTyped' /\ ControlTyped' /\ Shape' /\ Control'
  BY <1>1 DEF control, reply, ReplyTyped, ControlTyped, KvType, Shape, Control
<1>5. CASE UNCHANGED vars
  BY <1>2, <1>3, <1>4, <1>5 DEF vars
<1>6. ASSUME NEW r \in Reqs, Arrive(r) PROVE KvType'
  <2>1. PICK c \in Calls : c.op \in Endpoints /\ call' = [call EXCEPT ![r] = c] /\ RoundTrip(r, c.op)
    BY <1>6 DEF Arrive
  <2>2. c.op \in Ops /\ UNCHANGED <<store, reply>>
    BY <1>6, CallType DEF Arrive
  <2>3. c.op \in Path(c.op)
    BY DEF Path
  <2>4. ReplyTyped' /\ ControlTyped' /\ Shape'
    BY <1>1, <2>1, <2>2, RetriesAssumption DEF RoundTrip, reply, ReplyTyped, ControlTyped, KvType, Shape
  <2>5. Control'
    BY <1>6, <2>1, <2>2, <2>3 DEF RoundTrip, reply, Arrive, KvType, TypeOK, Shape, Control, Ops
  <2> QED
    BY <1>2, <1>3, <2>2, <2>4, <2>5
<1>7. ASSUME NEW r \in Reqs, Refuse(r) PROVE KvType'
  <2>1. Respond(r, 400, NoTtl) /\ UNCHANGED store
    BY <1>7 DEF Refuse
  <2>2. ReplyTyped' /\ ControlTyped' /\ Shape'
    BY <2>1 DEF Respond, KvType, TypeOK, ReplyTyped, ControlTyped, Shape
  <2>3. Control'
    BY <2>1 DEF Respond, KvType, TypeOK, Control, Shape
  <2> QED
    BY <1>2, <1>3, <2>1, <2>2, <2>3
<1>8. ASSUME NEW r \in Reqs, LoseRoundTrip(r) PROVE KvType'
  <2>1. CASE Respond(r, 500, NoTtl)
    <3>1. ReplyTyped' /\ ControlTyped' /\ Shape'
      BY <2>1 DEF Respond, KvType, TypeOK, ReplyTyped, ControlTyped, Shape
    <3>2. Control'
      BY <2>1 DEF Respond, KvType, TypeOK, Control, Shape
    <3> QED
      BY <1>2, <1>3, <1>8, <3>1, <3>2 DEF LoseRoundTrip
  <2>2. CASE tries[r] < Retries /\ pc' = [pc EXCEPT ![r] = rt[r]]
             /\ tries' = [tries EXCEPT ![r] = @ + 1] /\ UNCHANGED <<rt, call, reply>>
    <3>1. pc[r] \notin {"idle", "done"} /\ UNCHANGED store
      BY <1>8 DEF LoseRoundTrip, Lost
    <3>2. call[r] \in Calls /\ rt[r] = call[r].op /\ call[r].op \in Ops
      BY <3>1, AtCommand
    <3>3. rt[r] \in Path(call[r].op)
      BY <3>2 DEF Path
    <3>4. tries[r] + 1 \in 0..Retries
      BY <1>1, <2>2, RetriesAssumption DEF ControlTyped
    <3>5. ReplyTyped' /\ ControlTyped' /\ Shape'
      BY <1>1, <2>2, <3>2, <3>4 DEF reply, ReplyTyped, ControlTyped, KvType, Shape
    <3>6. Control'
      BY <2>2, <3>1, <3>2, <3>3 DEF reply, KvType, TypeOK, Shape, Control, Ops
    <3> QED
      BY <1>2, <1>3, <3>1, <3>5, <3>6
  <2> QED
    BY <1>8, <2>1, <2>2 DEF LoseRoundTrip, Lost
<1>9. ASSUME NEW k \in Keys, KeyExpires(k) \/ KeyEvicted(k) PROVE KvType'
  BY <1>2, <1>4, <1>9, DropType DEF KeyExpires, KeyEvicted, StoreTyped
<1> QED
  BY <1>5, <1>6, <1>7, <1>8, <1>9, HandlerType DEF Next

(* KV routes: every variable stays in its type, whatever the requests,     *)
(* keys and limits; an increment never leaves the integers of the word.    *)
THEOREM KvTypeCorrect == Spec => []TypeOK
<1>1. KvType => TypeOK
  BY DEF KvType
<1> QED
  BY KvTypeInit, KvTypeStep, <1>1, PTL DEF Spec

-------------------------------------------------------------------------------
(* What a step does to the store *)

(* The changes the commands of r may make to values and TTLs. *)
Written(r) ==
  \/ UNCHANGED <<db, ttl, age>>
  \/ /\ call[r].op \in {"set", "nx"}
     /\ Store({call[r].key}, Value(r), AskedTtl(r))
  \/ /\ call[r].op = "batch_set"
     /\ Store(Keys, Value(r), AskedTtl(r))
  \/ /\ call[r].op = "incr"
     /\ \E n \in Int : db' = [db EXCEPT ![call[r].key] = Number(r, n)]
     /\ UNCHANGED <<ttl, age>>
  \/ /\ call[r].op = "touch"
     /\ ttl' = [ttl EXCEPT ![call[r].key] = IF Present(call[r].key) THEN ExpireOrPersist(AskedTtl(r))
                                                                   ELSE NoTtl]
     /\ UNCHANGED <<db, age>>
  \/ \E k \in Keys : Drop(k)

(* Request r moves, the others do not. *)
Moves(r) ==
  /\ pc[r] \notin {"idle", "done"}
  /\ \E p : p # "idle" /\ pc' = [pc EXCEPT ![r] = p]
  /\ UNCHANGED <<call, tries>>
  /\ \E v : result' = [result EXCEPT ![r] = v]
  /\ \E c : status' = [status EXCEPT ![r] = c]
  /\ UNCHANGED saw \/ \E a : saw' = [saw EXCEPT ![r] = a]

(* Every command is one of those changes, and moves its request only. *)
LEMMA HandlerEffect ==
  ASSUME KvType, NEW r \in Reqs, Handler(r)
  PROVE  Moves(r) /\ Written(r)
<1> DEFINE op == call[r].op
<1>1. result = [result EXCEPT ![r] = result[r]] /\ status = [status EXCEPT ![r] = status[r]]
  BY DEF KvType, TypeOK
<1>2. CASE Set(r) \/ BatchSet(r)
  <2>1. Moves(r)
    BY <1>1, <1>2 DEF Set, BatchSet, Moves, Step, reply
  <2>2. Written(r)
    BY <1>2, AtCommand DEF Set, BatchSet, Written, Ops
  <2> QED
    BY <2>1, <2>2
<1>3. CASE SetNx(r)
  <2>1. Moves(r)
    BY <1>1, <1>3 DEF SetNx, Moves, Step, Replied, store
  <2>2. Written(r)
    BY <1>3, AtCommand DEF SetNx, Written, Ops, store
  <2> QED
    BY <2>1, <2>2
<1>4. CASE Get(r) \/ TouchExists(r) \/ ExistsKey(r)
  BY <1>1, <1>4 DEF Get, TouchExists, ExistsKey, Moves, Written, Step, Replied, store
<1>5. CASE BatchGet(r) \/ Ttl(r)
  BY <1>1, <1>5 DEF BatchGet, Ttl, Moves, Written, Step, TtlReplied, store, reply
<1>6. CASE Incr(r)
  <2>1. Moves(r)
    BY <1>1, <1>6 DEF Incr, Moves, Step, Replied, store
  <2>2. op = "incr" /\ call[r].key \in Keys
    BY <1>6, AtCommand DEF Incr, Ops, Batches
  <2>3. db[call[r].key].n + call[r].n \in Int
    BY <2>2, CallType, KvAssumption DEF KvType, TypeOK, Entries
  <2>4. Written(r)
    BY <1>6, <2>2, <2>3 DEF Incr, Written, store
  <2> QED
    BY <2>1, <2>4
<1>7. CASE Expire(r)
  <2>1. Moves(r)
    BY <1>1, <1>7 DEF Expire, Moves, Step, reply
  <2>2. Written(r)
    BY <1>7, AtCommand DEF Expire, Written
  <2> QED
    BY <2>1, <2>2
<1>8. CASE Delete(r)
  <2>1. call[r].key \in Keys
    BY <1>8, AtCommand DEF Delete, Ops, Batches
  <2>2. Drop(call[r].key)
    BY <1>8 DEF Delete
  <2>3. Written(r)
    BY <2>1, <2>2 DEF Written
  <2>4. Moves(r)
    BY <1>1, <1>8, <2>2 DEF Delete, Moves, Step, Replied, Drop
  <2> QED
    BY <2>3, <2>4
<1>9. CASE Answer(r)
  <2>1. UNCHANGED store /\ \E code, t : Respond(r, code, t)
    BY <1>9 DEF Answer
  <2> QED
    BY <1>1, <1>9, <2>1 DEF Answer, Moves, Written, Respond, store
<1> QED
  BY <1>2, <1>3, <1>4, <1>5, <1>6, <1>7, <1>8, <1>9 DEF Handler

-------------------------------------------------------------------------------
(* Batches, locks and TTLs *)

(* A value carries the label of a request that has arrived. *)
Owned == \A k \in Keys, r \in Reqs : db[k].by = r => pc[r] # "idle"

(* BatchAtomic, with the writers named. *)
OneBatch ==
  \A k, l \in Keys, r, s \in Reqs :
    /\ db[k].by = r /\ call[r].op = "batch_set"
    /\ db[l].by = s /\ call[s].op = "batch_set"
    => r = s

LEMMA OneBatchAtomic == OneBatch => BatchAtomic
BY DEF OneBatch, BatchAtomic

(* r has been told by its last SET NX that it acquired. *)
Acquired(r) == call[r].op = "nx" /\ (pc[r] = "answer" \/ status[r] = 200) /\ result[r] # Absent

(* The key of a request that acquired is as it left it, or older.          *)
NxHeld ==
  /\ \A r \in Reqs : Acquired(r) =>
       /\ saw[r] <= age[call[r].key]
       /\ saw[r] = age[call[r].key] => Present(call[r].key)
  /\ \A r, s \in Reqs :
       Acquired(r) /\ Acquired(s) /\ r # s /\ call[r].key = call[s].key => saw[r] # saw[s]
  /\ \A r \in Reqs : call[r].op = "nx" /\ status[r] = 200 => Acquired(r)

(* A SET NX sent once, not executed yet or refused, has written nothing.   *)
Unwritten(r) ==
  /\ call[r].op = "nx" /\ tries[r] = 0
  /\ pc[r] = "nx" \/ (pc[r] = "answer" /\ result[r] = Absent) \/ status[r] = 409

NxRefused == \A r \in Reqs : Unwritten(r) => \A k \in Keys : db[k].by # r

KvInv == KvType /\ Owned /\ OneBatch /\ NxHeld /\ NxRefused /\ TtlMatchesWriter

LEMMA KvInvInit == Init => KvInv
<1> SUFFICES ASSUME Init PROVE KvInv
  OBVIOUS
<1>1. \A k \in Keys : db[k].by = NoReq
  BY DEF Init, Absent
<1>2. \A r \in Reqs : call[r].op = "none"
  BY DEF Init, InitRequests, NoCall
<1>3. Owned /\ OneBatch /\ NxRefused /\ TtlMatchesWriter
  BY <1>1, KvAssumption DEF Owned, OneBatch, NxRefused, TtlMatchesWriter
<1>4. NxHeld
  BY <1>2 DEF NxHeld, Acquired
<1> QED
  BY <1>3, <1>4, KvTypeInit DEF KvInv

(* Who has written what a step leaves: who had, nobody, or the request.    *)
LEMMA WrittenBy ==
  ASSUME KvType, NEW r \in Reqs, Written(r) \/ \E k \in Keys : Drop(k)
  PROVE  \A k \in Keys :
           /\ db'[k].by \in {db[k].by, NoReq, r}
           /\ age'[k] >= age[k]
           /\ age'[k] = age[k] /\ Present(k) => Present(k)'
<1> SUFFICES ASSUME NEW k \in Keys
             PROVE  /\ db'[k].by \in {db[k].by, NoReq, r}
                    /\ age'[k] >= age[k]
                    /\ age'[k] = age[k] /\ Present(k) => Present(k)'
  OBVIOUS
<1>1. age[k] \in Nat /\ db \in [Keys -> Entries] /\ age \in [Keys -> Nat]
  BY DEF KvType, TypeOK
<1>2. ASSUME NEW S, Store(S, Value(r), AskedTtl(r))
      PROVE  /\ db'[k].by \in {db[k].by, NoReq, r}
             /\ age'[k] >= age[k]
             /\ age'[k] = age[k] /\ Present(k) => Present(k)'
  BY <1>1, <1>2, ValueType DEF Store, Present, Absent
<1>3. ASSUME NEW l \in Keys, Drop(l)
      PROVE  /\ db'[k].by \in {db[k].by, NoReq, r}
             /\ age'[k] >= age[k]
             /\ age'[k] = age[k] /\ Present(k) => Present(k)'
  BY <1>1, <1>3 DEF Drop, Present, Absent
<1>4. ASSUME NEW n \in Int, db' = [db EXCEPT ![call[r].key] = Number(r, n)], UNCHANGED age
      PROVE  /\ db'[k].by \in {db[k].by, NoReq, r}
             /\ age'[k] >= age[k]
             /\ age'[k] = age[k] /\ Present(k) => Present(k)'
  BY <1>1, <1>4 DEF Number, Present, Absent
<1>5. ASSUME UNCHANGED <<db, age>>
      PROVE  /\ db'[k].by \in {db[k].by, NoReq, r}
             /\ age'[k] >= age[k]
             /\ age'[k] = age[k] /\ Present(k) => Present(k)'
  BY <1>1, <1>5 DEF Present, Absent
<1> QED
  BY <1>2, <1>3, <1>4, <1>5 DEF Written

(* A command of r, seen from the other requests. *)
LEMMA OthersStay ==
  ASSUME KvType, NEW r \in Reqs, Moves(r)
  PROVE  /\ UNCHANGED <<call, tries>>
         /\ pc'[r] # "idle"
         /\ \A s \in Reqs \ {r} :
              /\ pc'[s] = pc[s] /\ result'[s] = result[s]
              /\ status'[s] = status[s] /\ saw'[s] = saw[s]
BY DEF Moves, KvType, TypeOK, Shape

LEMMA HandlerOwned ==
  ASSUME KvInv, NEW r \in Reqs, Handler(r)
  PROVE  Owned' /\ OneBatch'
<1>1. Moves(r) /\ Written(r) /\ KvType
  BY HandlerEffect DEF KvInv
<1>2. \A k \in Keys : db'[k].by \in {db[k].by, NoReq, r}
  BY <1>1, WrittenBy
<1>3. call' = call /\ pc'[r] # "idle" /\ \A s \in Reqs \ {r} : pc'[s] = pc[s]
  BY <1>1, OthersStay
<1>4. Owned'
  BY <1>2, <1>3, KvAssumption DEF Owned, KvInv
<1>5. NoReq \notin Reqs /\ OneBatch
  BY KvAssumption DEF KvInv
<1>6. OneBatch'
  <2> SUFFICES ASSUME NEW k \in Keys, NEW l \in Keys, NEW s \in Reqs, NEW t \in Reqs,
                      db'[k].by = s, call[s].op = "batch_set",
                      db'[l].by = t, call[t].op = "batch_set"
               PROVE  s = t
    BY <1>3 DEF OneBatch
  <2>1. db[k].by = s /\ db[l].by = t => s = t
    BY <1>5 DEF OneBatch
  <2>2. CASE call[r].op # "batch_set"
    <3>1. db[k].by = s /\ db[l].by = t
      BY <1>2, <1>5, <2>2
    <3> QED
      BY <2>1, <3>1
  <2>3. CASE call[r].op = "batch_set"
    <3>1. CASE Store(Keys, Value(r), AskedTtl(r))
      <4>1. db'[k] = Value(r) /\ db'[l] = Value(r)
        BY <3>1 DEF Store
      <4> QED
        BY <4>1
    <3>2. CASE \E m \in Keys : Drop(m)
      <4>1. PICK m \in Keys : Drop(m)
        BY <3>2
      <4>2. \A j \in Keys : db'[j] = (IF j = m THEN Absent ELSE db[j])
        BY <1>1, <4>1 DEF Drop, KvType, TypeOK
      <4>3. Absent.by = NoReq
        BY DEF Absent
      <4>4. db'[k] = db[k] /\ db'[l] = db[l]
        BY <1>5, <4>2, <4>3
      <4> QED
        BY <2>1, <4>4
    <3>3. CASE UNCHANGED db
      BY <2>1, <3>3
    <3> QED
      BY <1>1, <2>3, <3>1, <3>2, <3>3 DEF Written
  <2> QED
    BY <2>2, <2>3
<1> QED
  BY <1>4, <1>6

(* A lock request in its handler: the SET NX, or the answer. *)
LEMMA NxHandler ==
  ASSUME KvType, NEW r \in Reqs, Handler(r), call[r].op = "nx"
  PROVE  SetNx(r) \/ Answer(r)
<1>1. pc[r] \in {"nx", "answer"}
  BY HandlerEffect DEF Moves, KvType, Control, Path
<1> QED
  BY <1>1 DEF Handler, Set, BatchSet, Get, BatchGet, Incr, TouchExists, Expire, Ttl, Delete, ExistsKey

LEMMA HandlerNx ==
  ASSUME KvInv, NEW r \in Reqs, Handler(r)
  PROVE  NxHeld' /\ NxRefused'
<1>1. KvType /\ KvType' /\ Moves(r) /\ Written(r)
  BY HandlerEffect, HandlerType DEF KvInv
<1>2. /\ call' = call /\ tries' = tries
      /\ \A s \in Reqs \ {r} :
           /\ pc'[s] = pc[s] /\ result'[s] = result[s]
           /\ status'[s] = status[s] /\ saw'[s] = saw[s]
  BY <1>1, OthersStay
<1>3. \A k \in Keys : /\ db'[k].by \in {db[k].by, NoReq, r}
                      /\ age'[k] >= age[k]
                      /\ age'[k] = age[k] /\ Present(k) => Present(k)'
  BY <1>1, WrittenBy
<1>4. \A s \in Reqs : call[s].op = "nx" => call[s].key \in Keys
  BY <1>1, CallType DEF KvType, TypeOK, NoCall, Batches
<1>5. \A s \in Reqs \ {r} : Acquired(s)' = Acquired(s) /\ Unwritten(s)' = Unwritten(s)
  BY <1>2 DEF Acquired, Unwritten
<1>6. NxHeld /\ NxRefused /\ NoReq \notin Reqs
  BY KvAssumption DEF KvInv
<1>7. (\A k \in Keys : age[k] \in Nat /\ age'[k] \in Nat) /\ (\A s \in Reqs : saw[s] \in Nat /\ saw'[s] \in Nat)
  BY <1>1 DEF KvType, TypeOK
<1>10. SUFFICES /\ NxRefused'
                /\ Acquired(r)' =>
                     /\ saw'[r] <= age'[call[r].key]
                     /\ saw'[r] = age'[call[r].key] => Present(call[r].key)'
                     /\ \A s \in Reqs \ {r} :
                          Acquired(s) /\ call[s].key = call[r].key => saw[s] # saw'[r]
                /\ call[r].op = "nx" /\ status'[r] = 200 => Acquired(r)'
  <2>1. \A s \in Reqs \ {r} :
          /\ Acquired(s)' => /\ saw'[s] <= age'[call[s].key]
                             /\ saw'[s] = age'[call[s].key] => Present(call[s].key)'
          /\ call[s].op = "nx" /\ status'[s] = 200 => Acquired(s)'
    <3> SUFFICES ASSUME NEW s \in Reqs \ {r}
                 PROVE  /\ Acquired(s)' => /\ saw'[s] <= age'[call[s].key]
                                           /\ saw'[s] = age'[call[s].key] => Present(call[s].key)'
                        /\ call[s].op = "nx" /\ status'[s] = 200 => Acquired(s)'
      OBVIOUS
    <3>1. Acquired(s)' => Acquired(s) /\ call[s].key \in Keys
      BY <1>4, <1>5 DEF Acquired
    <3>2. Acquired(s) => /\ saw[s] <= age[call[s].key]
                         /\ saw[s] = age[call[s].key] => Present(call[s].key)
      BY <1>6 DEF NxHeld
    <3>3. call[s].op = "nx" /\ status'[s] = 200 => Acquired(s)'
      BY <1>2, <1>5, <1>6 DEF NxHeld
    <3>4. saw'[s] = saw[s] /\ saw[s] \in Nat
      BY <1>2, <1>7
    <3>5. ASSUME Acquired(s)'
          PROVE  /\ saw'[s] <= age'[call[s].key]
                 /\ saw'[s] = age'[call[s].key] => Present(call[s].key)'
      <4> DEFINE k == call[s].key
      <4>1. k \in Keys /\ age[k] \in Nat /\ age'[k] \in Nat /\ age'[k] >= age[k]
            /\ (age'[k] = age[k] /\ Present(k) => Present(k)')
        <5>1. k \in Keys
          BY <3>1, <3>5
        <5> QED
          BY <1>2, <1>3, <1>7, <5>1 DEF Present, Absent
      <4>2. saw[s] <= age[k] /\ (saw[s] = age[k] => Present(k))
        BY <3>1, <3>2, <3>5
      <4> HIDE DEF k
      <4>3. saw'[s] <= age'[k] /\ (saw'[s] = age'[k] => age'[k] = age[k] /\ saw[s] = age[k])
        BY <3>4, <4>1, <4>2
      <4>4. saw'[s] <= age'[k] /\ (saw'[s] = age'[k] => Present(k)')
        BY <4>1, <4>2, <4>3
      <4> QED
        BY <4>4 DEF k
    <3> QED
      BY <3>3, <3>5
  <2>2. \A s, t \in Reqs \ {r} :
          Acquired(s)' /\ Acquired(t)' /\ s # t /\ call[s].key = call[t].key => saw'[s] # saw'[t]
    BY <1>2, <1>5, <1>6 DEF NxHeld
  <2> QED
    BY <1>2, <1>5, <2>1, <2>2 DEF NxHeld
<1>8. CASE call[r].op # "nx"
  <2>1. ~Acquired(r)' /\ ~Unwritten(r)'
    BY <1>2, <1>8 DEF Acquired, Unwritten
  <2>2. NxRefused'
    BY <1>2, <1>3, <1>5, <1>6, <2>1 DEF NxRefused
  <2> QED
    BY <1>8, <1>10, <2>1, <2>2
<1>9. CASE call[r].op = "nx"
  <2> DEFINE k == call[r].key
  <2>1. k \in Keys
    BY <1>4, <1>9
  <2>2. CASE SetNx(r) /\ Replied(r, Absent) /\ UNCHANGED store
    <3>1. ~Acquired(r)' /\ status'[r] # 200 /\ UNCHANGED <<db, age, saw>>
      BY <1>1, <2>2 DEF SetNx, Acquired, Replied, Step, store, KvType, Control, TypeOK
    <3>2. Unwritten(r)' => Unwritten(r)
      BY <1>1, <1>2, <2>2 DEF SetNx, Unwritten
    <3>3. NxRefused'
      BY <1>5, <1>6, <3>1, <3>2 DEF NxRefused
    <3> QED
      BY <1>10, <3>1, <3>3
  <2>3. CASE SetNx(r) /\ ~(Replied(r, Absent) /\ UNCHANGED store)
    <3>1. /\ ~Present(k) /\ Store({k}, Value(r), AskedTtl(r))
          /\ saw' = [saw EXCEPT ![r] = age[k]] /\ Replied(r, Value(r)) /\ Step(r, "answer")
          /\ pc[r] = "nx"
      BY <2>3 DEF SetNx
    <3>2. saw'[r] = age[k] /\ age'[k] = age[k] /\ Present(k)' /\ pc'[r] = "answer"
          /\ result'[r] # Absent /\ status'[r] = 0
      BY <1>1, <2>1, <3>1, ValueType
      DEF Store, Replied, Step, KvType, TypeOK, Control, Shape, Present, Absent
    <3>3. \A s \in Reqs : Acquired(s) /\ call[s].key = k => saw[s] # age[k]
      BY <1>6, <3>1 DEF NxHeld
    <3>4. ~Unwritten(r)' /\ Acquired(r)'
      BY <1>2, <1>9, <3>2 DEF Unwritten, Acquired, Absent
    <3>5. NxRefused'
      BY <1>2, <1>3, <1>5, <1>6, <3>4 DEF NxRefused
    <3>6. age[k] <= age'[k]
      BY <1>3, <2>1
    <3> QED
      BY <1>10, <3>2, <3>3, <3>4, <3>5, <3>6
  <2>4. CASE Answer(r)
    <3>1. UNCHANGED store /\ pc[r] = "answer" /\ result' = result
          /\ pc'[r] = "done" /\ status'[r] = IF result[r] = Absent THEN 409 ELSE 200
      BY <1>1, <1>9, <2>4 DEF Answer, Respond, KvType, TypeOK, Shape
    <3>2. Acquired(r)' = Acquired(r) /\ (status'[r] = 200 => Acquired(r)')
      BY <1>2, <1>9, <3>1 DEF Acquired, Absent
    <3>3. Unwritten(r)' => Unwritten(r)
      BY <1>2, <3>1 DEF Unwritten
    <3>4. NxRefused'
      BY <1>5, <1>6, <3>1, <3>3 DEF NxRefused, store
    <3>5. saw' = saw /\ age' = age /\ Present(k)' = Present(k)
      BY <1>2, <3>1 DEF store, Present, Absent
    <3>6. Acquired(r) => /\ saw[r] <= age[k] /\ (saw[r] = age[k] => Present(k))
                         /\ \A s \in Reqs \ {r} :
                              Acquired(s) /\ call[s].key = k => saw[s] # saw[r]
      BY <1>6 DEF NxHeld
    <3> QED
      BY <1>10, <3>2, <3>4, <3>5, <3>6
  <2> QED
    BY <1>1, <1>9, <2>2, <2>3, <2>4, NxHandler
<1> QED
  BY <1>8, <1>9

(* The TTL t of key k is the one its writer w asked for, or a touch's. *)
Explained(k, w, t) ==
  \/ t > 0 <=> AskedTtl(w) > 0
  \/ \E r \in Reqs : call[r].op = "touch" /\ call[r].key = k /\ t = ExpireOrPersist(AskedTtl(r))

LEMMA TtlExplained ==
  TtlMatchesWriter <=>
    \A k \in Keys, w \in Reqs : db[k].by = w /\ call[w].op \in Writers => Explained(k, w, ttl[k])
BY DEF TtlMatchesWriter, Explained

LEMMA HandlerTtl ==
  ASSUME KvInv, NEW r \in Reqs, Handler(r)
  PROVE  TtlMatchesWriter'
<1>1. KvType /\ Written(r) /\ call' = call /\ NoReq \notin Reqs
  BY HandlerEffect, OthersStay, KvAssumption DEF KvInv
<1>2. \A k \in Keys, w \in Reqs : db[k].by = w /\ call[w].op \in Writers => Explained(k, w, ttl[k])
  BY TtlExplained DEF KvInv
<1>3. db \in [Keys -> Entries] /\ ttl \in [Keys -> Nat \cup {NoTtl}]
  BY <1>1 DEF KvType, TypeOK
<1>4. \A k \in Keys : Present(k) \/ db[k].by \notin Reqs
  BY <1>1 DEF Present, Absent
<1>5. SUFFICES ASSUME NEW k \in Keys, NEW w \in Reqs, db'[k].by = w, call[w].op \in Writers
               PROVE  Explained(k, w, ttl'[k])
  BY <1>1 DEF TtlMatchesWriter, Explained, AskedTtl
<1>6. CASE db'[k] = db[k] /\ ttl'[k] = ttl[k]
  BY <1>2, <1>5, <1>6
<1>7. ASSUME NEW S, Store(S, Value(r), AskedTtl(r)) PROVE Explained(k, w, ttl'[k])
  <2>1. CASE k \in S
    <3>1. db'[k] = Value(r) /\ ttl'[k] = ExpireOrPersist(AskedTtl(r))
      BY <1>7, <2>1 DEF Store
    <3> QED
      BY <1>1, <1>5, <3>1, ValueType DEF Explained
  <2>2. CASE k \notin S
    BY <1>6, <1>7, <2>2 DEF Store
  <2> QED
    BY <2>1, <2>2
<1>8. CASE call[r].op = "incr" /\ (\E n \in Int : db' = [db EXCEPT ![call[r].key] = Number(r, n)]) /\ UNCHANGED ttl
  <2>1. k = call[r].key => db'[k].by = r
    BY <1>3, <1>8 DEF Number
  <2>2. k # call[r].key
    BY <1>5, <1>8, <2>1 DEF Writers
  <2> QED
    BY <1>6, <1>8, <2>2
<1>9. CASE call[r].op = "touch" /\ UNCHANGED db
           /\ ttl' = [ttl EXCEPT ![call[r].key] = IF Present(call[r].key) THEN ExpireOrPersist(AskedTtl(r))
                                                                       ELSE NoTtl]
  <2>1. CASE k = call[r].key
    <3>1. ttl'[k] = ExpireOrPersist(AskedTtl(r))
      BY <1>3, <1>4, <1>5, <1>9, <2>1
    <3> QED
      BY <1>9, <2>1, <3>1 DEF Explained
  <2>2. CASE k # call[r].key
    BY <1>6, <1>9, <2>2
  <2> QED
    BY <2>1, <2>2
<1>10. ASSUME NEW l \in Keys, Drop(l) PROVE Explained(k, w, ttl'[k])
  <2>1. k = l => db'[k].by = NoReq
    BY <1>3, <1>10 DEF Drop, Absent
  <2> QED
    BY <1>1, <1>5, <1>6, <1>10, <2>1 DEF Drop
<1> QED
  BY <1>1, <1>6, <1>7, <1>8, <1>9, <1>10 DEF Written

(* Every step keeps the invariant. *)
LEMMA KvInvStep == KvInv /\ [Next]_vars => KvInv'
<1> SUFFICES ASSUME KvInv, [Next]_vars PROVE KvInv'
  OBVIOUS
<1>1. KvType /\ KvType' /\ NoReq \notin Reqs
  BY KvTypeStep, KvAssumption DEF KvInv
<1> DEFINE Rest == Owned' /\ OneBatch' /\ NxHeld' /\ NxRefused' /\ TtlMatchesWriter'
<1>2. SUFFICES Rest
  BY <1>1 DEF KvInv
<1>3. CASE UNCHANGED vars
  BY <1>3 DEF vars, store, control, reply, KvInv, Owned, OneBatch, NxHeld, NxRefused, Acquired,
     Unwritten, Present, Absent, TtlMatchesWriter, AskedTtl
<1>4. ASSUME NEW r \in Reqs, Handler(r) PROVE Rest
  BY <1>4, HandlerOwned, HandlerNx, HandlerTtl
<1>5. ASSUME NEW r \in Reqs, Arrive(r) PROVE Rest
  <2>1. PICK c \in Calls : call' = [call EXCEPT ![r] = c] /\ RoundTrip(r, c.op)
    BY <1>5 DEF Arrive
  <2>2. pc[r] = "idle" /\ UNCHANGED <<store, reply>> /\ c.op \in Ops /\ status[r] = 0
    BY <1>1, <1>5, CallType DEF Arrive, KvType, Control
  <2>3. /\ \A s \in Reqs \ {r} : call'[s] = call[s] /\ pc'[s] = pc[s] /\ tries'[s] = tries[s]
        /\ call'[r] = c /\ pc'[r] = c.op
    BY <1>1, <2>1 DEF RoundTrip, KvType, TypeOK, Shape
  <2>4. UNCHANGED <<db, ttl, age, saw, result, status>>
    BY <2>2 DEF store, reply
  <2>5. \A k \in Keys : db[k].by # r
    BY <2>2 DEF KvInv, Owned
  <2>6. Owned'
    BY <2>2, <2>3, <2>4 DEF KvInv, Owned, Ops
  <2>7. OneBatch'
    BY <2>3, <2>4, <2>5 DEF KvInv, OneBatch
  <2>8. ~Acquired(r)' /\ \A s \in Reqs \ {r} : Acquired(s)' = Acquired(s) /\ Unwritten(s)' = Unwritten(s)
    BY <2>2, <2>3, <2>4 DEF Acquired, Unwritten, Ops, Absent
  <2>9. NxHeld'
    <3>1. \A s \in Reqs : Acquired(s)' => s # r /\ Acquired(s)
      BY <2>8
    <3>2. \A s \in Reqs : Acquired(s)' => /\ saw'[s] <= age'[call'[s].key]
                                          /\ saw'[s] = age'[call'[s].key] => Present(call[s].key)'
      BY <2>3, <2>4, <3>1 DEF KvInv, NxHeld, Present, Absent
    <3>3. \A s, t \in Reqs :
            Acquired(s)' /\ Acquired(t)' /\ s # t /\ call'[s].key = call'[t].key => saw'[s] # saw'[t]
      BY <2>3, <2>4, <3>1 DEF KvInv, NxHeld
    <3>4. \A s \in Reqs : call'[s].op = "nx" /\ status'[s] = 200 => Acquired(s)'
      BY <2>2, <2>3, <2>4, <2>8 DEF KvInv, NxHeld
    <3> QED
      BY <3>2, <3>3, <3>4 DEF NxHeld
  <2>10. NxRefused'
    BY <2>4, <2>5, <2>8 DEF KvInv, NxRefused
  <2>11. TtlMatchesWriter'
    <3>1. call[r] = NoCall /\ NoCall.op # "touch"
      BY <1>1, <2>2 DEF KvType, Control, NoCall
    <3>2. \A s \in Reqs \ {r} : AskedTtl(s)' = AskedTtl(s)
      BY <2>3 DEF AskedTtl
    <3>3. ASSUME NEW k \in Keys, NEW w \in Reqs, db[k].by = w, call'[w].op \in Writers
          PROVE  \/ (ttl'[k] > 0) = (AskedTtl(w)' > 0)
                 \/ \E s \in Reqs : call'[s].op = "touch" /\ call'[s].key = k
                                     /\ ttl'[k] = ExpireOrPersist(AskedTtl(s)')
      <4>1. w # r /\ call'[w] = call[w] /\ AskedTtl(w)' = AskedTtl(w) /\ ttl'[k] = ttl[k]
        BY <2>3, <2>4, <2>5, <3>2, <3>3
      <4>2. Explained(k, w, ttl[k])
        BY <3>3, <4>1, TtlExplained DEF KvInv
      <4> QED
        BY <2>3, <3>1, <3>2, <4>1, <4>2 DEF Explained
    <3> QED
      BY <2>4, <3>3 DEF TtlMatchesWriter
  <2> QED
    BY <2>6, <2>7, <2>9, <2>10, <2>11
<1>6. ASSUME NEW r \in Reqs, UNCHANGED <<store, call, result>>,
             \A s \in Reqs \ {r} : pc'[s] = pc[s] /\ tries'[s] = tries[s] /\ status'[s] = status[s],
             pc'[r] # "idle",
             status'[r] # 200 \/ call[r].op # "nx",
             Acquired(r)' => Acquired(r),
             Unwritten(r)' => Unwritten(r)
      PROVE  Rest
  <2>1. UNCHANGED <<db, ttl, age, saw>>
    BY <1>6 DEF store
  <2>2. Owned' /\ OneBatch' /\ TtlMatchesWriter'
    BY <1>6, <2>1 DEF KvInv, Owned, OneBatch, TtlMatchesWriter, AskedTtl
  <2>3. \A s \in Reqs : (Acquired(s)' => Acquired(s)) /\ (Unwritten(s)' => Unwritten(s))
    BY <1>6 DEF Acquired, Unwritten, Absent
  <2>4. NxRefused'
    BY <2>1, <2>3 DEF KvInv, NxRefused
  <2>5. \A s \in Reqs \ {r} : call[s].op = "nx" /\ status'[s] = 200 => Acquired(s)'
    BY <1>6 DEF KvInv, NxHeld, Acquired, Absent
  <2>6. NxHeld'
    BY <1>6, <2>1, <2>3, <2>5 DEF KvInv, NxHeld, Present, Absent
  <2> QED
    BY <2>2, <2>4, <2>6
<1>7. ASSUME NEW r \in Reqs, Refuse(r) PROVE Rest
  <2>1. pc[r] = "idle" /\ call[r].op = "none"
    <3>1. NoCall.op = "none"
      BY DEF NoCall
    <3> QED
      BY <1>1, <1>7, <3>1 DEF Refuse, KvType, Control
  <2>2. UNCHANGED <<store, call, result, tries>> /\ pc' = [pc EXCEPT ![r] = "done"]
        /\ status' = [status EXCEPT ![r] = 400]
    BY <1>7 DEF Refuse, Respond
  <2>3. pc'[r] = "done" /\ \A s \in Reqs \ {r} : pc'[s] = pc[s] /\ status'[s] = status[s]
    BY <1>1, <2>2 DEF KvType, TypeOK, Shape
  <2> QED
    BY <1>6, <2>1, <2>2, <2>3 DEF Acquired, Unwritten
<1>8. ASSUME NEW r \in Reqs, LoseRoundTrip(r) PROVE Rest
  <2>1. pc[r] \notin {"idle", "done"} /\ UNCHANGED store
    BY <1>8 DEF LoseRoundTrip, Lost
  <2>2. rt[r] = call[r].op /\ call[r].op \in Ops /\ status[r] = 0 /\ tries[r] \in Nat
    BY <1>1, <2>1, AtCommand, RetriesAssumption DEF KvType, Control, TypeOK
  <2>3. CASE Respond(r, 500, NoTtl)
    <3>1. /\ UNCHANGED <<call, result, tries>> /\ pc'[r] = "done" /\ status'[r] = 500
          /\ \A s \in Reqs \ {r} : pc'[s] = pc[s] /\ status'[s] = status[s]
      BY <1>1, <2>3 DEF Respond, KvType, TypeOK, Shape
    <3> QED
      BY <1>6, <2>1, <3>1 DEF Acquired, Unwritten
  <2>4. CASE tries[r] < Retries /\ pc' = [pc EXCEPT ![r] = rt[r]]
             /\ tries' = [tries EXCEPT ![r] = @ + 1] /\ UNCHANGED <<rt, call, reply>>
    <3>1. /\ UNCHANGED <<call, result, status>> /\ pc'[r] = call[r].op /\ tries'[r] # 0
          /\ \A s \in Reqs \ {r} : pc'[s] = pc[s] /\ tries'[s] = tries[s]
      BY <1>1, <2>2, <2>4 DEF reply, KvType, TypeOK, Shape
    <3> QED
      BY <1>6, <2>1, <2>2, <3>1 DEF Acquired, Unwritten, Ops
  <2> QED
    BY <1>8, <2>3, <2>4 DEF LoseRoundTrip, Lost
<1>9. ASSUME NEW l \in Keys, KeyExpires(l) \/ KeyEvicted(l) PROVE Rest
  <2>1. Drop(l) /\ UNCHANGED <<control, reply>> /\ saw' = saw
    BY <1>9 DEF KeyExpires, KeyEvicted, Drop
  <2>2. UNCHANGED <<call, pc, tries, result, status>>
    BY <2>1 DEF control, reply
  <2>3. /\ \A k \in Keys : db'[k] = (IF k = l THEN Absent ELSE db[k])
                          /\ (k # l => ttl'[k] = ttl[k] /\ age'[k] = age[k])
        /\ Absent.by = NoReq
    BY <1>1, <2>1 DEF Drop, KvType, TypeOK, Absent
  <2>4. Owned' /\ OneBatch' /\ NxRefused'
    <3>1. \A k \in Keys : db'[k].by = db[k].by \/ db'[k].by \notin Reqs
      BY <1>1, <2>3
    <3> QED
      BY <2>2, <3>1 DEF KvInv, Owned, OneBatch, NxRefused, Unwritten, Absent
  <2>5. TtlMatchesWriter'
    <3>1. \A k \in Keys, w \in Reqs : db'[k].by = w => db[k].by = w /\ ttl'[k] = ttl[k]
      BY <1>1, <2>3
    <3> QED
      BY <2>2, <3>1 DEF KvInv, TtlMatchesWriter, AskedTtl
  <2>6. NxHeld'
    <3>1. \A s \in Reqs : Acquired(s)' = Acquired(s)
      BY <2>2 DEF Acquired, Absent
    <3>2. ASSUME NEW s \in Reqs, Acquired(s)
          PROVE  saw[s] <= age'[call[s].key] /\ (saw[s] = age'[call[s].key] => Present(call[s].key)')
      <4> DEFINE k == call[s].key
      <4>1. k \in Keys
        BY <1>1, <3>2, CallType DEF Acquired, KvType, TypeOK, NoCall, Batches
      <4>2. saw[s] \in Nat /\ age[k] \in Nat /\ saw[s] <= age[k]
        BY <1>1, <3>2, <4>1 DEF KvInv, NxHeld, KvType, TypeOK
      <4>3. saw[s] = age[k] => db[k] # Absent
        BY <3>2 DEF KvInv, NxHeld, Present
      <4>4. k # l => age'[k] = age[k] /\ db'[k] = db[k]
        BY <2>3, <4>1
      <4>5. k = l => age'[k] = age[k] + 1
        BY <1>1, <1>9, <4>1 DEF KeyExpires, KeyEvicted, Drop, KvType, TypeOK
      <4>6. saw[s] <= age'[k] /\ (saw[s] = age'[k] => db'[k] # Absent)
        BY <4>2, <4>3, <4>4, <4>5
      <4> QED
        BY <2>2, <4>6 DEF Present, Absent
    <3> QED
      BY <2>1, <2>2, <3>1, <3>2 DEF KvInv, NxHeld
  <2> QED
    BY <2>4, <2>5, <2>6
<1> QED
  BY <1>3, <1>4, <1>5, <1>7, <1>8, <1>9 DEF Next

LEMMA KvInvAlways == Spec => []KvInv
BY KvInvInit, KvInvStep, PTL DEF Spec

(* batch_set_kv: values of two batches are never stored side by side, for  *)
(* any keys, whatever other requests write or remove between.              *)
THEOREM BatchesAtomic == Spec => []BatchAtomic
<1>1. KvInv => BatchAtomic
  BY OneBatchAtomic DEF KvInv
<1> QED
  BY KvInvAlways, <1>1, PTL

(* set_kv_nx: of the requests told they acquired a lock no two hold the    *)
(* same incarnation of its key, with any number of retries.                *)
THEOREM LocksExclusive == Spec => []NxExclusive
<1>1. KvInv => NxExclusive
  BY DEF KvInv, NxHeld, NxExclusive, Done
<1> QED
  BY KvInvAlways, <1>1, PTL

(* set_kv_nx: a 409 to a SET NX that was sent once is the truth, it has    *)
(* stored nothing.                                                         *)
THEOREM RefusalsHonest == Spec => []NxRefusedByOther
<1>1. KvInv => NxRefusedByOther
  BY DEF KvInv, NxRefused, Unwritten, NxRefusedByOther, Done
<1> QED
  BY KvInvAlways, <1>1, PTL

(* set_kv, set_kv_nx, batch_set_kv: a value has a TTL exactly if the       *)
(* request that stored it asked for one or a touch changed it since.       *)
THEOREM TtlsExplained == Spec => []TtlMatchesWriter
<1>1. KvInv => TtlMatchesWriter
  BY DEF KvInv
<1> QED
  BY KvInvAlways, <1>1, PTL
===============================================================================
