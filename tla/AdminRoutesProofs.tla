--------------------------- MODULE AdminRoutesProofs ---------------------------
(***************************************************************************)
(* Proofs about AdminRoutes, with the group requests beside it, for every  *)
(* set of requests and keys, every limit and batch size of a bulk deletion *)
(* and any number of retries.                                              *)
(***************************************************************************)
EXTENDS AdminRoutes, SequenceTheorems, FunctionTheorems, FiniteSetTheorems, TLAPS

GroupOps == {"add", "batch_add", "remove", "delete", "touch"} \cup Readers
Keyless == {"batch_add", "list_keys"} \cup Bulk
KeyOps == {"set_ttl", "info", "delete_key", "list_keys"}
Ops == GroupOps \cup KeyOps \cup Bulk

(* The commands a request passes between its arrival and its response. *)
Path(op) ==
  {op} \cup (IF op \in GroupOps THEN {"answer"} ELSE {})
       \cup (IF op \in {"add", "touch"} THEN {"expire", "ttl"} ELSE {})
       \cup (IF op = "set_ttl" THEN {"admin_expire", "admin_expired"} ELSE {})
       \cup (IF op \in {"set_ttl", "info"} THEN {"admin_ttl"} ELSE {})
       \cup (IF op = "info" THEN {"size"} ELSE {})
       \cup (IF op \in KeyOps THEN {"admin_answer"} ELSE {})
       \cup (IF op \in Bulk THEN {"scan", "del", "deleted"} ELSE {})

Inner == {"answer", "expire", "ttl", "admin_expire", "admin_expired", "admin_ttl", "size",
          "admin_answer", "scan", "del", "deleted"}
Stages == Ops \cup Inner \cup {"idle", "done"}

(* The first commands of the round trips in which a request stands at p:   *)
(* where p awaits a reply, it is the command before p.                     *)
Awaiting == {"admin_answer", "admin_expired", "deleted"}
Trips(op, p) ==
  IF op \in GroupOps THEN {op}
  ELSE IF p = "admin_answer" THEN {op, "admin_ttl", "size"} \cap Path(op)
  ELSE IF p = "admin_expired" THEN {"admin_expire"}
  ELSE IF p = "deleted" THEN {"del"}
  ELSE {p}

AllCalls == GroupCalls \cup AdminCalls
UserKeys == Groups \cup Others

-------------------------------------------------------------------------------
(* Types *)

LEMMA CallType ==
  ASSUME NEW c \in AllCalls \cup {NoCall}
  PROVE  /\ resolve_ttl(c.ttl) \in Nat
         /\ c \in AllCalls => c.op \in Ops
         /\ c \in AllCalls /\ c.op \notin Keyless => c.key \in Groups
         /\ c.op \in {"add", "remove"} => c.member \in Members
<1>1. c.ttl \in BodyTtls \cup {Unset}
  BY DEF AllCalls, GroupCalls, AdminCalls, NoCall
<1>2. resolve_ttl(c.ttl) \in Nat
  BY <1>1, GroupAssumption, DefaultTtlAssumption DEF resolve_ttl
<1>3. c \in GroupCalls =>
        /\ c.op \in Ops
        /\ c.op \notin Keyless => c.key \in Groups
        /\ c.op \in {"add", "remove"} => c.member \in Members
  BY DEF GroupCalls, Ops, GroupOps, Readers, Keyless
<1>4. c \in AdminCalls =>
        /\ c.op \in Ops
        /\ c.op \notin Keyless => c.key \in Groups
        /\ c.op \notin {"add", "remove"}
  BY DEF AdminCalls, Ops, KeyOps, Keyless, Bulk
<1>5. NoCall.op \notin {"add", "remove"} \cup Ops
  BY DEF NoCall, Ops, GroupOps, KeyOps, Readers, Bulk
<1> QED
  BY <1>2, <1>3, <1>4, <1>5 DEF AllCalls

(* A request in flight is on the path of its call; a lost round trip goes  *)
(* back to the first command of a group request, or to the command of an   *)
(* admin request whose reply is awaited.                                   *)
Control ==
  \A r \in Reqs :
    /\ pc[r] = "idle" => call[r] = NoCall
    /\ pc[r] \notin {"idle", "done"} =>
         /\ call[r] \in AllCalls
         /\ pc[r] \in Path(call[r].op)
         /\ rt[r] \in Trips(call[r].op, pc[r])
    /\ pc[r] # "done" => status[r] = 0

Shape ==
  /\ pc \in [Reqs -> Stages] /\ rt \in [Reqs -> Stages]
  /\ call \in [Reqs -> AllCalls \cup {NoCall}]
  /\ tries \in [Reqs -> 0..Retries]
  /\ status \in [Reqs -> {0, 200, 400, 404, 500}]

StoreTyped ==
  /\ group \in [Groups -> SUBSET Members]
  /\ ttl \in [Groups -> Nat \cup {NoTtl}]
  /\ others \subseteq Others \cup Internal

BulkTyped ==
  /\ todo \in [Reqs -> Seq(UserKeys)]
  /\ truncated \in [Reqs -> BOOLEAN]
  /\ stay \in [Reqs -> SUBSET (UserKeys \cup Internal)]

AdminType == Shape /\ Control /\ StoreTyped /\ BulkTyped

LEMMA AskedType ==
  ASSUME Shape, NEW r \in Reqs
  PROVE  /\ AskedTtl(r) \in Nat
         /\ ExpireOrPersist(AskedTtl(r)) \in Nat \cup {NoTtl}
         /\ ExpireOrPersist(AskedTtl(r)) = NoTtl <=> AskedTtl(r) = 0
<1>1. call[r] \in AllCalls \cup {NoCall}
  BY DEF Shape
<1>2. AskedTtl(r) \in Nat
  BY <1>1, CallType DEF AskedTtl
<1> QED
  BY <1>2 DEF ExpireOrPersist, NoTtl

LEMMA OpsApart == Ops \cap (Inner \cup {"idle", "done"}) = {} /\ KeyOps \cap GroupOps = {}
BY DEF Ops, GroupOps, KeyOps, Readers, Bulk, Inner

(* Where the handler of each endpoint may be. *)
LEMMA AtCommand ==
  ASSUME Shape, Control, NEW r \in Reqs, pc[r] \notin {"idle", "done"}
  PROVE  /\ call[r] \in AllCalls /\ call[r].op \in Ops
         /\ pc[r] \in Path(call[r].op)
         /\ rt[r] \in Trips(call[r].op, pc[r])
         /\ status[r] = 0
         /\ pc[r] \in Ops => call[r].op = pc[r]
         /\ pc[r] \in {"expire", "ttl"} => call[r].op \in {"add", "touch"}
         /\ pc[r] = "answer" => call[r].op \in GroupOps
         /\ pc[r] \in {"admin_expire", "admin_expired"} => call[r].op = "set_ttl"
         /\ pc[r] = "admin_ttl" => call[r].op \in {"set_ttl", "info"}
         /\ pc[r] = "size" => call[r].op = "info"
         /\ pc[r] = "admin_answer" => call[r].op \in KeyOps
         /\ pc[r] \in {"scan", "del", "deleted"} => call[r].op \in Bulk
         /\ call[r].op \notin Keyless => call[r].key \in Groups
<1>1. /\ call[r] \in AllCalls /\ pc[r] \in Path(call[r].op) /\ status[r] = 0
      /\ rt[r] \in Trips(call[r].op, pc[r])
  BY DEF Control
<1>2. call[r].op \in Ops
  BY <1>1, CallType
<1>3. /\ pc[r] \in Ops => call[r].op = pc[r]
      /\ pc[r] \in {"expire", "ttl"} => call[r].op \in {"add", "touch"}
      /\ pc[r] = "answer" => call[r].op \in GroupOps
      /\ pc[r] \in {"admin_expire", "admin_expired"} => call[r].op = "set_ttl"
      /\ pc[r] = "admin_ttl" => call[r].op \in {"set_ttl", "info"}
      /\ pc[r] = "size" => call[r].op = "info"
      /\ pc[r] = "admin_answer" => call[r].op \in KeyOps
      /\ pc[r] \in {"scan", "del", "deleted"} => call[r].op \in Bulk
  BY <1>1, <1>2, OpsApart DEF Path, Inner
<1> QED
  BY <1>1, <1>2, <1>3, CallType

LEMMA AdminTypeInit == Init => AdminType
<1> SUFFICES ASSUME Init PROVE AdminType
  OBVIOUS
<1>1. Shape /\ Control
  BY RetriesAssumption DEF Init, GroupInit, InitRequests, Shape, Control, Stages
<1>2. StoreTyped
  BY DEF Init, GroupInit, StoreTyped
<1>3. BulkTyped
  <2>1. <<>> \in Seq(UserKeys)
    OBVIOUS
  <2> QED
    BY <2>1 DEF Init, BulkTyped
<1> QED
  BY <1>1, <1>2, <1>3 DEF AdminType

-------------------------------------------------------------------------------
(* Where the requests stand *)

LEMMA PathStages ==
  ASSUME NEW op \in Ops
  PROVE  /\ Path(op) \subseteq Stages \ {"idle", "done"}
         /\ op \in Path(op)
         /\ op \in GroupOps => "answer" \in Path(op)
         /\ op \in KeyOps => "admin_answer" \in Path(op)
         /\ op \in Bulk => {"scan", "del", "deleted"} \subseteq Path(op)
BY OpsApart DEF Path, Stages, Inner

(* A lost round trip begins again at a command of its own. *)
LEMMA TripBegins ==
  ASSUME NEW op \in Ops, NEW p \in Path(op), NEW c \in Trips(op, p)
  PROVE  /\ c \in Path(op) /\ c \in Trips(op, c)
         /\ c = "del" => p \in {"del", "deleted"}
         /\ c \notin {"deleted", "admin_answer"}
         /\ c = "delete_key" => op = "delete_key"
         /\ p = "deleted" => c = "del"
         /\ op = "delete_key" => c = "delete_key"
         /\ op = "add" => c = "add"
<1>1. CASE op \in GroupOps
  BY <1>1, PathStages DEF Trips, GroupOps, Readers, Path, Bulk, KeyOps
<1>2. CASE op \in KeyOps
  BY <1>2, OpsApart DEF Trips, Path, GroupOps, Readers, Bulk, KeyOps
<1>3. CASE op \in Bulk
  BY <1>3 DEF Trips, Path, GroupOps, Readers, Bulk, KeyOps
<1> QED
  BY <1>1, <1>2, <1>3 DEF Ops

(* A request goes on inside its round trip. *)
LEMMA WithinControl ==
  ASSUME Shape, Control, NEW r \in Reqs, NEW p, Step(r, p), UNCHANGED status,
         pc[r] \notin {"idle", "done"}, p \in Path(call[r].op), rt[r] \in Trips(call[r].op, p)
  PROVE  Shape' /\ Control'
<1>1. p \in Stages \ {"idle", "done"}
  BY AtCommand, PathStages
<1>2. Shape'
  BY <1>1 DEF Step, Shape
<1>3. Control'
  BY <1>1 DEF Step, Shape, Control
<1> QED
  BY <1>2, <1>3

(* The whole of a group request is one round trip. *)
LEMMA StepControl ==
  ASSUME Shape, Control, NEW r \in Reqs, NEW p, Step(r, p), UNCHANGED status,
         pc[r] \notin {"idle", "done"}, call[r].op \in GroupOps, p \in Path(call[r].op)
  PROVE  Shape' /\ Control'
<1>1. rt[r] \in Trips(call[r].op, p)
  BY AtCommand DEF Trips
<1> QED
  BY <1>1, WithinControl

(* An admin request starts its next round trip. *)
LEMMA TripControl ==
  ASSUME Shape, Control, NEW r \in Reqs, NEW p, RoundTrip(r, p), UNCHANGED <<call, status>>,
         pc[r] \notin {"idle", "done"}, call[r].op \notin GroupOps,
         p \in Path(call[r].op) \ Awaiting
  PROVE  Shape' /\ Control'
<1>1. p \in Stages \ {"idle", "done"} /\ p \in Trips(call[r].op, p)
  BY AtCommand, PathStages DEF Trips, Awaiting
<1>2. Shape'
  BY <1>1, RetriesAssumption DEF RoundTrip, Shape
<1>3. Control'
  BY <1>1 DEF RoundTrip, Shape, Control
<1> QED
  BY <1>2, <1>3

(* r is answered with one of the codes of the handlers. *)
Answered(r) ==
  /\ pc' = [pc EXCEPT ![r] = "done"]
  /\ \E code \in {200, 400, 404, 500} : status' = [status EXCEPT ![r] = code]
  /\ UNCHANGED <<rt, tries, call>>

LEMMA AnsweredControl ==
  ASSUME Shape, Control, NEW r \in Reqs, Answered(r)
  PROVE  Shape' /\ Control'
<1>1. Shape'
  BY DEF Answered, Shape, Stages
<1>2. Control'
  BY DEF Answered, Shape, Control
<1> QED
  BY <1>1, <1>2

LEMMA GroupControl ==
  ASSUME Shape, Control, NEW r \in Reqs, GroupHandler(r)
  PROVE  Shape' /\ Control' /\ call' = call /\ pc[r] \notin {"idle", "done"}
<1> DEFINE op == call[r].op
<1>1. pc[r] \notin {"idle", "done"} /\ call' = call
  BY DEF GroupHandler, Sadd, BatchAdd, Expire, Ttl, Remove, Read, Answer, Step, Respond, Readers
<1>2. CASE Sadd(r)
  <2>1. op = "add" /\ Step(r, "expire") /\ UNCHANGED status
    BY <1>1, <1>2, AtCommand DEF Sadd, Replied, Ops, GroupOps
  <2>2. op \in GroupOps /\ "expire" \in Path(op)
    BY <2>1 DEF GroupOps, Path
  <2> QED
    BY <1>1, <2>1, <2>2, StepControl
<1>3. CASE BatchAdd(r) \/ Remove(r)
  <2>1. op \in {"batch_add", "remove", "delete"} /\ Step(r, "answer") /\ UNCHANGED status
    BY <1>1, <1>3, AtCommand DEF BatchAdd, Remove, Replied, Ops, GroupOps
  <2>2. op \in GroupOps /\ "answer" \in Path(op)
    BY <2>1 DEF GroupOps, Path
  <2> QED
    BY <1>1, <2>1, <2>2, StepControl
<1>4. CASE Expire(r)
  <2>1. op \in {"add", "touch"} /\ Step(r, "ttl") /\ UNCHANGED status
    BY <1>1, <1>4, AtCommand DEF Expire, reply
  <2>2. op \in GroupOps /\ "ttl" \in Path(op)
    BY <2>1 DEF GroupOps, Path
  <2> QED
    BY <1>1, <2>1, <2>2, StepControl
<1>5. CASE Ttl(r)
  <2>1. op \in {"add", "touch"} /\ Step(r, "answer") /\ UNCHANGED status
    BY <1>1, <1>5, AtCommand DEF Ttl, TtlReplied
  <2>2. op \in GroupOps /\ "answer" \in Path(op)
    BY <2>1 DEF GroupOps, Path
  <2> QED
    BY <1>1, <2>1, <2>2, StepControl
<1>6. CASE Read(r)
  <2>1. /\ op \in Readers \cup {"touch"} /\ op = pc[r]
        /\ Step(r, IF op = "touch" THEN "expire" ELSE "answer") /\ UNCHANGED status
    BY <1>1, <1>6, AtCommand DEF Read, Replied, Ops, GroupOps
  <2>2. PICK p \in {"expire", "answer"} : Step(r, p) /\ (p = "expire" => op = "touch")
    BY <2>1
  <2>3. op \in GroupOps /\ p \in Path(op)
    BY <2>1, <2>2 DEF GroupOps, Path
  <2> QED
    BY <1>1, <2>1, <2>2, <2>3, StepControl
<1>7. CASE Answer(r)
  <2>1. Answered(r)
    BY <1>7 DEF Answer, Respond, Answered
  <2> QED
    BY <2>1, <1>1, AnsweredControl
<1> QED
  BY <1>1, <1>2, <1>3, <1>4, <1>5, <1>6, <1>7 DEF GroupHandler

KeyStages == {"set_ttl", "admin_expire", "admin_expired", "info", "admin_ttl", "size",
              "delete_key", "list_keys"}

LEMMA KeyControl ==
  ASSUME Shape, Control, NEW r \in Reqs, KeyRequest(r)
  PROVE  /\ Shape' /\ Control' /\ call' = call /\ status' = status
         /\ pc[r] \in KeyStages /\ pc[r] \notin {"idle", "done"} /\ call[r].op \in KeyOps
         /\ \A s \in Reqs \ {r} : pc'[s] = pc[s] /\ tries'[s] = tries[s]
         /\ pc'[r] \in {"admin_expire", "admin_expired", "admin_ttl", "size", "admin_answer"}
<1> DEFINE op == call[r].op
<1>1. call' = call /\ status' = status
  BY DEF KeyRequest, SetTtl, KeyInfo, DeleteKey, ListKeys, Replied, TtlReplied, reply, Step
<1>2. pc[r] \in KeyStages
  BY DEF KeyRequest, SetTtl, KeyInfo, DeleteKey, ListKeys, KeyStages
<1>3. pc[r] \notin {"idle", "done"}
  BY <1>2 DEF KeyStages
<1>4. op \in KeyOps
  BY <1>2, <1>3, AtCommand DEF Ops, KeyOps, KeyStages
<1>5. op \in Ops /\ op \notin GroupOps
  BY <1>4, OpsApart DEF Ops
<1>6. \/ \E p \in {"admin_expire", "admin_ttl", "size"} :
           /\ RoundTrip(r, p)
           /\ p = "admin_expire" => pc[r] = "set_ttl"
           /\ p = "admin_ttl" => pc[r] \in {"admin_expired", "info"}
           /\ p = "size" => op = "info"
      \/ Step(r, "admin_expired") /\ pc[r] = "admin_expire"
      \/ Step(r, "admin_answer") /\ pc[r] \in KeyOps \cup {"admin_ttl", "size"}
  BY DEF KeyRequest, SetTtl, KeyInfo, DeleteKey, ListKeys, KeyOps
<1>7. CASE \E p \in {"admin_expire", "admin_ttl", "size"} :
             /\ RoundTrip(r, p)
             /\ p = "admin_expire" => pc[r] = "set_ttl"
             /\ p = "admin_ttl" => pc[r] \in {"admin_expired", "info"}
             /\ p = "size" => op = "info"
  <2>1. PICK p \in {"admin_expire", "admin_ttl", "size"} :
          /\ RoundTrip(r, p)
          /\ p = "admin_expire" => pc[r] = "set_ttl"
          /\ p = "admin_ttl" => pc[r] \in {"admin_expired", "info"}
          /\ p = "size" => op = "info"
    BY <1>7
  <2>2. p \in Path(op) \ Awaiting
    BY <1>3, <1>5, <2>1, AtCommand DEF Path, Ops, KeyOps, Awaiting
  <2>3. Shape' /\ Control'
    BY <1>1, <1>3, <1>5, <2>1, <2>2, TripControl
  <2> QED
    BY <1>1, <1>2, <1>3, <1>4, <2>1, <2>3 DEF RoundTrip, Shape
<1>8. ASSUME Step(r, "admin_expired") /\ pc[r] = "admin_expire"
      PROVE  Shape' /\ Control'
  <2>1. op = "set_ttl" /\ rt[r] \in Trips(op, "admin_expire")
    BY <1>3, <1>8, AtCommand
  <2>2. "admin_expired" \in Path(op) /\ rt[r] \in Trips(op, "admin_expired")
    BY <1>5, <2>1 DEF Path, Trips
  <2> QED
    BY <1>1, <1>3, <1>8, <2>2, WithinControl
<1>9. ASSUME Step(r, "admin_answer") /\ pc[r] \in KeyOps \cup {"admin_ttl", "size"}
      PROVE  Shape' /\ Control'
  <2>1. rt[r] \in Trips(op, pc[r]) /\ pc[r] \in Path(op) /\ (pc[r] \in Ops => pc[r] = op)
    BY <1>3, AtCommand
  <2>2. rt[r] = pc[r] /\ pc[r] \in {op, "admin_ttl", "size"}
    BY <1>5, <1>9, <2>1 DEF Trips, KeyOps, Ops
  <2>3. "admin_answer" \in Path(op) /\ rt[r] \in Trips(op, "admin_answer")
    BY <1>4, <1>5, <2>1, <2>2, PathStages DEF Trips
  <2> QED
    BY <1>1, <1>3, <1>9, <2>3, WithinControl
<1> QED
  BY <1>1, <1>2, <1>3, <1>4, <1>6, <1>7, <1>8, <1>9 DEF Step, Shape

LEMMA BulkControl ==
  ASSUME Shape, Control, NEW r \in Reqs, BulkRequest(r)
  PROVE  /\ Shape' /\ Control' /\ call' = call /\ status' = status
         /\ call[r].op \in Bulk /\ pc[r] \notin {"idle", "done"}
         /\ \A s \in Reqs \ {r} : pc'[s] = pc[s] /\ tries'[s] = tries[s]
<1> DEFINE op == call[r].op
<1>1. pc[r] \in Bulk \cup {"scan", "del", "deleted"} /\ call' = call /\ status' = status
  BY DEF BulkRequest, ScanStart, ScanKey, ScanEnd, BulkDel, BulkDeleted, Replied, reply, Step
<1>2. pc[r] \notin {"idle", "done"}
  BY <1>1 DEF Bulk
<1>3. op \in Bulk
  BY <1>1, <1>2, AtCommand DEF Ops
<1>4. op \notin GroupOps /\ {"scan", "del", "deleted"} \subseteq Path(op)
  BY <1>3 DEF GroupOps, Readers, Bulk, Path
<1>5. (\E p \in {"scan", "del"} : RoundTrip(r, p)) \/ (pc[r] = "del" /\ Step(r, "deleted"))
  BY DEF BulkRequest, ScanStart, ScanKey, ScanEnd, BulkDel, BulkDeleted
<1>6. ASSUME NEW p \in {"scan", "del"}, RoundTrip(r, p) PROVE Shape' /\ Control'
  BY <1>1, <1>2, <1>4, <1>6, TripControl DEF Awaiting
<1>7. ASSUME pc[r] = "del" /\ Step(r, "deleted") PROVE Shape' /\ Control'
  <2>1. rt[r] \in Trips(op, "deleted")
    BY <1>2, <1>4, <1>7, AtCommand DEF Trips
  <2> QED
    BY <1>1, <1>2, <1>4, <1>7, <2>1, WithinControl
<1> QED
  BY <1>1, <1>2, <1>3, <1>5, <1>6, <1>7 DEF RoundTrip, Step, Shape

-------------------------------------------------------------------------------
(* What the steps do to the keys and the bulk deletions *)

(* The group requests, the admin requests of one key and a key that ends.  *)
LEMMA GroupStore ==
  ASSUME Shape, Control, StoreTyped, NEW r \in Reqs, GroupHandler(r)
  PROVE  group' \in [Groups -> SUBSET Members] /\ ttl' \in [Groups -> Nat \cup {NoTtl}]
<1> DEFINE k == call[r].key
<1>1. UNCHANGED groups =>
        group' \in [Groups -> SUBSET Members] /\ ttl' \in [Groups -> Nat \cup {NoTtl}]
  BY DEF groups, StoreTyped
<1>2. pc[r] \notin {"idle", "done"} /\ ExpireOrPersist(AskedTtl(r)) \in Nat \cup {NoTtl}
  BY GroupControl, AskedType
<1>3. CASE Sadd(r)
  <2>1. k \in Groups /\ call[r].member \in Members
    <3>1. call[r].op = "add" /\ call[r] \in AllCalls
      BY <1>2, <1>3, AtCommand DEF Sadd, Ops, GroupOps
    <3> QED
      BY <3>1, CallType DEF Keyless, Bulk
  <2>2. group[k] \cup {call[r].member} \in SUBSET Members /\ ttl[k] \in Nat \cup {NoTtl}
    BY <2>1 DEF StoreTyped
  <2> QED
    BY <1>3, <2>1, <2>2 DEF Sadd, Become, StoreTyped
<1>4. CASE BatchAdd(r)
  BY <1>2, <1>4 DEF BatchAdd
<1>5. CASE Expire(r)
  <2>1. k \in Groups
    BY <1>2, <1>5, AtCommand DEF Expire, Keyless, Bulk
  <2> QED
    BY <1>2, <1>5, <2>1 DEF Expire, Become, StoreTyped
<1>6. CASE Remove(r)
  <2>1. k \in Groups
    BY <1>2, <1>6, AtCommand DEF Remove, Keyless, Bulk, Ops, GroupOps
  <2>2. PICK S : Become(k, group[k] \ S, ttl[k])
    BY <1>6 DEF Remove
  <2> QED
    BY <2>1, <2>2 DEF Become, StoreTyped
<1>7. CASE Ttl(r) \/ Read(r) \/ Answer(r)
  BY <1>1, <1>7 DEF Ttl, Read, Answer
<1> QED
  BY <1>3, <1>4, <1>5, <1>6, <1>7 DEF GroupHandler

LEMMA KeyStore ==
  ASSUME Shape, Control, StoreTyped, NEW r \in Reqs, KeyRequest(r)
  PROVE  group' \in [Groups -> SUBSET Members] /\ ttl' \in [Groups -> Nat \cup {NoTtl}]
<1> DEFINE k == call[r].key
<1>1. UNCHANGED groups =>
        group' \in [Groups -> SUBSET Members] /\ ttl' \in [Groups -> Nat \cup {NoTtl}]
  BY DEF groups, StoreTyped
<1>2. pc[r] \notin {"idle", "done"} /\ ExpireOrPersist(AskedTtl(r)) \in Nat \cup {NoTtl}
  BY KeyControl, AskedType
<1>3. CASE pc[r] \notin {"admin_expire", "delete_key"}
  BY <1>1, <1>3 DEF KeyRequest, SetTtl, KeyInfo, DeleteKey, ListKeys
<1>4. CASE pc[r] = "admin_expire"
  <2>1. k \in Groups
    BY <1>2, <1>4, AtCommand DEF Keyless, Bulk
  <2>2. Become(k, group[k], ExpireOrPersist(AskedTtl(r)))
    BY <1>4 DEF KeyRequest, SetTtl, KeyInfo, DeleteKey, ListKeys
  <2> QED
    BY <1>2, <2>1, <2>2 DEF Become, StoreTyped
<1>5. CASE pc[r] = "delete_key"
  <2>1. k \in Groups
    BY <1>2, <1>5, AtCommand DEF Keyless, Bulk, Ops, KeyOps
  <2>2. Become(k, {}, NoTtl)
    BY <1>5 DEF KeyRequest, SetTtl, KeyInfo, DeleteKey, ListKeys
  <2> QED
    BY <2>1, <2>2 DEF Become, StoreTyped
<1> QED
  BY <1>3, <1>4, <1>5

(* What has stayed only becomes less, except for the scan that begins.     *)
LEMMA StaysLess ==
  ASSUME BulkTyped, Stays
  PROVE  /\ stay' \in [Reqs -> SUBSET (UserKeys \cup Internal)]
         /\ \A r \in Reqs : stay'[r] = stay[r] \cap Existing'
<1> DEFINE E == Existing'
<1>1. stay' = [r \in Reqs |-> stay[r] \cap E]
  BY DEF Stays
<1> HIDE DEF E
<1>2. /\ stay' \in [Reqs -> SUBSET (UserKeys \cup Internal)]
      /\ \A r \in Reqs : stay'[r] = stay[r] \cap E
  BY <1>1 DEF BulkTyped
<1> QED
  BY <1>2 DEF E

LEMMA NoBulkType ==
  ASSUME BulkTyped, NoBulk
  PROVE  BulkTyped'
BY StaysLess DEF NoBulk, BulkTyped

(* A batch is at the front of the keys to delete; the rest follows. *)
LEMMA BatchAndRest ==
  ASSUME NEW s \in Seq(UserKeys)
  PROVE  /\ RestOf(s) \in Seq(UserKeys)
         /\ Batch(s) \subseteq Range(s)
         /\ Range(s) = Batch(s) \cup Range(RestOf(s))
         /\ Range(s) \subseteq UserKeys
<1>1. BatchSize \in Nat \ {0} /\ Len(s) \in Nat
  BY AdminAssumption
<1>2. Range(s) \subseteq UserKeys
  BY DEF Range
<1>3. CASE Len(s) <= BatchSize
  <2>1. RestOf(s) = <<>> /\ Batch(s) = Range(s)
    BY <1>3 DEF RestOf, Batch
  <2>2. Range(<<>>) = {}
    BY DEF Range
  <2> QED
    BY <1>2, <2>1, <2>2
<1>4. CASE ~(Len(s) <= BatchSize)
  <2> DEFINE f == SubSeq(s, 1, BatchSize)
             g == SubSeq(s, BatchSize + 1, Len(s))
  <2>1. Batch(s) = Range(f) /\ RestOf(s) = g
    BY <1>4 DEF RestOf, Batch
  <2>2. /\ f \in Seq(UserKeys) /\ DOMAIN f = 1..BatchSize
        /\ \A i \in 1..BatchSize : f[i] = s[i]
    BY <1>1, <1>4
  <2>3. /\ g \in Seq(UserKeys) /\ DOMAIN g = 1..(Len(s) - BatchSize)
        /\ \A i \in 1..(Len(s) - BatchSize) : g[i] = s[BatchSize + i]
    BY <1>1, <1>4
  <2> HIDE DEF f, g
  <2>4. Range(f) \subseteq Range(s)
    BY <1>1, <1>4, <2>2 DEF Range
  <2>5. Range(g) \subseteq Range(s)
    <3>1. ASSUME NEW i \in 1..(Len(s) - BatchSize) PROVE g[i] \in Range(s)
      <4>1. BatchSize + i \in DOMAIN s
        BY <1>1, <1>4
      <4> QED
        BY <2>3, <4>1 DEF Range
    <3> QED
      BY <2>3, <3>1 DEF Range
  <2>6. ASSUME NEW i \in 1..Len(s) PROVE s[i] \in Range(f) \cup Range(g)
    <3>1. CASE i <= BatchSize
      BY <1>1, <2>2, <3>1 DEF Range
    <3>2. CASE ~(i <= BatchSize)
      <4>1. i - BatchSize \in DOMAIN g /\ g[i - BatchSize] = s[i]
        BY <1>1, <1>4, <2>3, <3>2
      <4> QED
        BY <4>1 DEF Range
    <3> QED
      BY <3>1, <3>2
  <2>7. Range(s) \subseteq Range(f) \cup Range(g)
    BY <2>6 DEF Range
  <2> QED
    BY <1>2, <2>1, <2>3, <2>4, <2>5, <2>7
<1> QED
  BY <1>3, <1>4

LEMMA ExistingKeys == StoreTyped => Existing \subseteq UserKeys \cup Internal
BY DEF StoreTyped, Existing, UserKeys

LEMMA BulkStore ==
  ASSUME StoreTyped, BulkTyped, NEW r \in Reqs, BulkRequest(r)
  PROVE  StoreTyped' /\ BulkTyped'
<1>1. UNCHANGED store => StoreTyped'
  BY DEF store, groups, StoreTyped
<1>2. CASE ScanStart(r)
  BY <1>1, <1>2, ExistingKeys DEF ScanStart, BulkTyped
<1>3. ASSUME NEW k \in Existing, ScanKey(r, k) PROVE StoreTyped' /\ BulkTyped'
  <2>1. k \in UserKeys
    BY <1>3, ExistingKeys DEF ScanKey, IsStorageKey
  <2>2. Append(todo[r], k) \in Seq(UserKeys)
    BY <2>1 DEF BulkTyped
  <2>3. UNCHANGED <<store, stay>> /\ todo' \in [Reqs -> Seq(UserKeys)] /\ truncated' \in [Reqs -> BOOLEAN]
    BY <1>3, <2>2 DEF ScanKey, BulkTyped
  <2> QED
    BY <1>1, <2>3 DEF BulkTyped
<1>4. CASE ScanEnd(r)
  BY <1>1, <1>4 DEF ScanEnd, bulk, BulkTyped
<1>5. CASE BulkDel(r)
  <2>1. /\ group' = [k \in Groups |-> IF k \in Batch(todo[r]) THEN {} ELSE group[k]]
        /\ ttl' = [k \in Groups |-> IF k \in Batch(todo[r]) THEN NoTtl ELSE ttl[k]]
        /\ others' = others \ Batch(todo[r])
        /\ NoBulk
    BY <1>5 DEF BulkDel, NoBulk
  <2>2. StoreTyped'
    BY <2>1 DEF StoreTyped
  <2> QED
    BY <2>1, <2>2, NoBulkType
<1>6. CASE BulkDeleted(r)
  <2>1. RestOf(todo[r]) \in Seq(UserKeys)
    BY BatchAndRest DEF BulkTyped
  <2>2. /\ UNCHANGED <<store, stay>>
        /\ todo' \in [Reqs -> Seq(UserKeys)] /\ truncated' \in [Reqs -> BOOLEAN]
    BY <1>6, <2>1 DEF BulkDeleted, BulkTyped
  <2> QED
    BY <1>1, <2>2 DEF BulkTyped
<1> QED
  BY <1>2, <1>3, <1>4, <1>5, <1>6 DEF BulkRequest

LEMMA Arrives ==
  ASSUME Shape, Control, NEW r \in Reqs, Arrive(r)
  PROVE  /\ Shape' /\ Control' /\ UNCHANGED <<store, todo, truncated, reply>> /\ Stays
         /\ pc[r] = "idle" /\ pc'[r] \in Ops
         /\ \A s \in Reqs \ {r} : pc'[s] = pc[s] /\ call'[s] = call[s]
<1>1. PICK c \in AllCalls : call' = [call EXCEPT ![r] = c] /\ RoundTrip(r, c.op)
  BY DEF Arrive, ArriveWith, AllCalls
<1>2. /\ pc[r] = "idle" /\ status' = status /\ Stays
      /\ UNCHANGED <<store, todo, truncated, reply>>
  BY DEF Arrive, ArriveWith, NoBulk, store, reply
<1>3. c.op \in Ops
  BY CallType
<1>4. c.op \in Path(c.op) /\ c.op \in Stages \ {"idle", "done"} /\ c.op \in Trips(c.op, c.op)
  BY <1>3, PathStages, OpsApart DEF Trips, Inner
<1>5. Shape'
  BY <1>1, <1>2, <1>4, RetriesAssumption DEF RoundTrip, Shape
<1>6. Control'
  BY <1>1, <1>2, <1>4 DEF RoundTrip, Shape, Control
<1>7. pc'[r] \in Ops /\ \A s \in Reqs \ {r} : pc'[s] = pc[s] /\ call'[s] = call[s]
  BY <1>1, <1>3 DEF RoundTrip, Shape
<1> QED
  BY <1>2, <1>5, <1>6, <1>7

LEMMA Loses ==
  ASSUME Shape, Control, NEW r \in Reqs, LoseRoundTrip(r)
  PROVE  /\ Shape' /\ Control' /\ UNCHANGED <<store, bulk, call>>
         /\ pc[r] \notin {"idle", "done"}
         /\ \A s \in Reqs \ {r} : pc'[s] = pc[s] /\ status'[s] = status[s] /\ tries'[s] = tries[s]
         /\ \/ /\ pc'[r] = rt[r] /\ status'[r] = 0 /\ tries'[r] > 0
               /\ rt[r] = "del" => pc[r] \in {"del", "deleted"}
               /\ rt[r] \notin {"idle", "done", "deleted", "admin_answer"}
               /\ call[r].op = "add" => rt[r] = "add"
            \/ pc'[r] = "done" /\ status'[r] = 500
<1>1. pc[r] \notin {"idle", "done"} /\ UNCHANGED <<store, bulk, call>>
  BY DEF LoseRoundTrip, GroupLost, Lost, Respond, store
<1>2. CASE Respond(r, 500, NoTtl)
  <2>1. Answered(r) /\ status' = [status EXCEPT ![r] = 500]
    BY <1>2 DEF Respond, Answered
  <2>2. Shape' /\ Control'
    BY <2>1, AnsweredControl
  <2> QED
    BY <1>1, <2>1, <2>2 DEF Answered, Shape
<1>3. CASE /\ tries[r] < Retries /\ pc' = [pc EXCEPT ![r] = rt[r]]
           /\ tries' = [tries EXCEPT ![r] = @ + 1] /\ UNCHANGED <<rt, call, reply>>
  <2>1. /\ call[r].op \in Ops /\ pc[r] \in Path(call[r].op) /\ status[r] = 0
        /\ rt[r] \in Trips(call[r].op, pc[r])
    BY <1>1, AtCommand
  <2>2. /\ rt[r] \in Path(call[r].op) /\ rt[r] \in Trips(call[r].op, rt[r])
        /\ rt[r] = "del" => pc[r] \in {"del", "deleted"}
        /\ call[r].op = "add" => rt[r] = "add"
        /\ rt[r] \notin {"deleted", "admin_answer"}
    BY <2>1, TripBegins
  <2>3. rt[r] \in Stages \ {"idle", "done"}
    BY <2>1, <2>2, PathStages
  <2>4. tries[r] + 1 \in 0..Retries /\ tries[r] + 1 > 0
    BY <1>3, RetriesAssumption DEF Shape
  <2>5. Shape'
    BY <1>3, <2>3, <2>4 DEF reply, Shape
  <2>6. Control'
    BY <1>1, <1>3, <2>1, <2>2, <2>3 DEF reply, Shape, Control
  <2> QED
    BY <1>1, <1>3, <2>1, <2>2, <2>3, <2>4, <2>5, <2>6 DEF reply, Shape
<1> QED
  BY <1>2, <1>3 DEF LoseRoundTrip, GroupLost, Lost

(* The steps of nobody: a key ends, or another router writes. *)
LEMMA KeysMove ==
  ASSUME StoreTyped, BulkTyped, KeyGone \/ OtherWritten
  PROVE  /\ StoreTyped' /\ UNCHANGED <<control, reply, todo, truncated>>
         /\ Stays \/ stay' = stay
<1>1. CASE KeyGone
  <2>1. Stays /\ UNCHANGED <<control, reply, todo, truncated>>
    BY <1>1 DEF KeyGone, NoBulk, GroupExpires, GroupEvicted, GroupGone
  <2>2. ASSUME NEW k \in Groups, Become(k, {}, NoTtl), UNCHANGED others PROVE StoreTyped'
    BY <2>2 DEF Become, StoreTyped
  <2>3. ASSUME NEW k \in others, others' = others \ {k}, UNCHANGED groups PROVE StoreTyped'
    BY <2>3 DEF groups, StoreTyped
  <2> QED
    BY <1>1, <2>1, <2>2, <2>3 DEF KeyGone, GroupExpires, GroupEvicted, GroupGone
<1>2. CASE OtherWritten
  BY <1>2 DEF OtherWritten, groups, bulk, StoreTyped
<1> QED
  BY <1>1, <1>2

(* The answers of the admin handlers, and the refusals of all.             *)
LEMMA Answers ==
  ASSUME Shape, Control, NEW r \in Reqs, AdminAnswer(r) \/ Refuse(r)
  PROVE  /\ Shape' /\ Control' /\ Answered(r) /\ UNCHANGED <<groups, result>>
         /\ \A s \in Reqs \ {r} : pc'[s] = pc[s] /\ status'[s] = status[s]
         /\ pc'[r] = "done"
<1>1. Answered(r) /\ result' = result
  BY DEF AdminAnswer, TtlAnswer, InfoAnswer, DeleteAnswer, ListAnswer, BulkAnswer, AnswerAs, Found,
         Refuse, Respond, Answered
<1>2. Shape' /\ Control'
  BY <1>1, AnsweredControl
<1>3. /\ \A s \in Reqs \ {r} : pc'[s] = pc[s] /\ status'[s] = status[s]
      /\ pc'[r] = "done"
  BY <1>1 DEF Answered, Shape
<1> QED
  BY <1>1, <1>2, <1>3 DEF AdminAnswer, Refuse, store

LEMMA AdminAnswers ==
  ASSUME NEW r, AdminAnswer(r)
  PROVE  /\ UNCHANGED <<store, bulk, tally, call, tries>>
         /\ \/ pc[r] = "admin_answer"
            \/ pc[r] = "del" /\ AllDeleted(r)
         /\ call[r].op = "delete_key" /\ pc[r] = "admin_answer" =>
              status' = [status EXCEPT ![r] = Found(r)]
BY DEF AdminAnswer, TtlAnswer, InfoAnswer, DeleteAnswer, ListAnswer, BulkAnswer, AnswerAs, Respond

LEMMA AdminTypeStep == AdminType /\ [Next]_vars => AdminType'
<1> SUFFICES ASSUME AdminType, [Next]_vars PROVE AdminType'
  OBVIOUS
<1>1. Shape /\ Control /\ StoreTyped /\ BulkTyped
  BY DEF AdminType
<1>2. UNCHANGED store => StoreTyped'
  BY <1>1 DEF store, groups, StoreTyped
<1>3. stay' = stay /\ UNCHANGED <<todo, truncated>> => BulkTyped'
  BY <1>1 DEF BulkTyped
<1>4. Stays /\ UNCHANGED <<todo, truncated>> => BulkTyped'
  BY <1>1, NoBulkType DEF NoBulk
<1>5. UNCHANGED <<control, reply>> => Shape' /\ Control'
  BY <1>1 DEF control, reply, Shape, Control
<1>6. ASSUME UNCHANGED others, group' \in [Groups -> SUBSET Members],
             ttl' \in [Groups -> Nat \cup {NoTtl}]
      PROVE  StoreTyped'
  BY <1>1, <1>6 DEF StoreTyped
<1>7. CASE UNCHANGED vars
  BY <1>2, <1>3, <1>5, <1>7 DEF vars, bulk, AdminType
<1>8. ASSUME NEW r \in Reqs, Arrive(r) PROVE AdminType'
  BY <1>1, <1>2, <1>4, <1>8, Arrives DEF AdminType
<1>9. ASSUME NEW r \in Reqs, GroupRequest(r) PROVE AdminType'
  <2>1. UNCHANGED others /\ BulkTyped'
    BY <1>1, <1>9, NoBulkType DEF GroupRequest
  <2>2. CASE Refuse(r)
    BY <1>1, <1>2, <2>1, <2>2, Answers DEF store, AdminType
  <2>3. CASE GroupHandler(r)
    BY <1>1, <1>6, <2>1, <2>3, GroupControl, GroupStore DEF AdminType
  <2> QED
    BY <1>9, <2>2, <2>3 DEF GroupRequest
<1>10. ASSUME NEW r \in Reqs, KeyRequest(r) PROVE AdminType'
  <2>1. UNCHANGED others /\ BulkTyped'
    BY <1>1, <1>10, NoBulkType DEF KeyRequest
  <2> QED
    BY <1>1, <1>6, <1>10, <2>1, KeyControl, KeyStore DEF AdminType
<1>11. ASSUME NEW r \in Reqs, BulkRequest(r) PROVE AdminType'
  BY <1>1, <1>11, BulkControl, BulkStore DEF AdminType
<1>12. ASSUME NEW r \in Reqs, AdminAnswer(r) PROVE AdminType'
  BY <1>1, <1>2, <1>3, <1>12, Answers, AdminAnswers DEF bulk, AdminType
<1>13. ASSUME NEW r \in Reqs, LoseRoundTrip(r) PROVE AdminType'
  BY <1>1, <1>2, <1>3, <1>13, Loses DEF bulk, AdminType
<1>14. ASSUME KeyGone \/ OtherWritten PROVE AdminType'
  <2>1. StoreTyped' /\ UNCHANGED <<control, reply, todo, truncated>> /\ (Stays \/ stay' = stay)
    BY <1>1, <1>14, KeysMove
  <2> QED
    BY <1>3, <1>4, <1>5, <2>1 DEF AdminType
<1> QED
  BY <1>7, <1>8, <1>9, <1>10, <1>11, <1>12, <1>13, <1>14 DEF Next, Handler

-------------------------------------------------------------------------------
(* Bulk deletion *)

(* What stayed since the scan began is still to be deleted, except for the *)
(* batch whose DEL has run, and at the end nothing of it is left, unless   *)
(* the scan was cut short.                                                 *)
Swept(r) ==
  /\ pc[r] = "del" /\ ~truncated[r] => stay[r] \subseteq Range(todo[r]) \cup Internal
  /\ pc[r] = "deleted" /\ ~truncated[r] => stay[r] \subseteq Range(RestOf(todo[r])) \cup Internal
  /\ call[r].op = "bulk_delete" /\ status[r] = 200 /\ ~truncated[r] => stay[r] \subseteq Internal

BulkInv == AdminType /\ \A r \in Reqs : Swept(r)

(* A request that does not move stays swept, as its keys only become less. *)
LEMMA SweptQuiet ==
  ASSUME NEW r \in Reqs, Swept(r), stay'[r] \subseteq stay[r],
         pc'[r] = pc[r], call'[r] = call[r], status'[r] = status[r],
         todo'[r] = todo[r], truncated'[r] = truncated[r]
  PROVE  Swept(r)'
BY DEF Swept

(* A request that is neither deleting nor answered has nothing to show. *)
LEMMA SweptEarly ==
  ASSUME NEW r \in Reqs, pc'[r] \notin {"del", "deleted"}, call'[r].op # "bulk_delete" \/ status'[r] # 200
  PROVE  Swept(r)'
BY DEF Swept

LEMMA BulkSwept ==
  ASSUME AdminType, NEW r \in Reqs, Swept(r), BulkRequest(r)
  PROVE  Swept(r)'
<1>1. /\ call' = call /\ status' = status /\ status[r] = 0
      /\ todo \in [Reqs -> Seq(UserKeys)] /\ truncated \in [Reqs -> BOOLEAN]
      /\ pc \in [Reqs -> Stages]
  BY BulkControl, AtCommand DEF AdminType, Shape, BulkTyped
<1>2. CASE ScanStart(r) \/ \E k \in Existing : ScanKey(r, k)
  <2>1. \/ pc'[r] = "scan"
        \/ truncated'[r] = TRUE
    BY <1>1, <1>2 DEF ScanStart, ScanKey, RoundTrip
  <2> QED
    BY <1>1, <2>1 DEF Swept
<1>3. CASE ScanEnd(r)
  <2>1. pc'[r] = "del" /\ UNCHANGED bulk /\ stay[r] \subseteq Range(todo[r]) \cup Internal
    BY <1>1, <1>3 DEF ScanEnd, IsStorageKey, RoundTrip
  <2> QED
    BY <1>1, <2>1 DEF bulk, Swept
<1>4. CASE BulkDel(r)
  <2>1. /\ group' = [k \in Groups |-> IF k \in Batch(todo[r]) THEN {} ELSE group[k]]
        /\ others' = others \ Batch(todo[r]) /\ Stays
        /\ todo' = todo /\ truncated' = truncated
        /\ pc[r] = "del" /\ pc'[r] = "deleted"
    BY <1>1, <1>4 DEF BulkDel, Step
  <2>2. Range(todo[r]) = Batch(todo[r]) \cup Range(RestOf(todo[r]))
    BY <1>1, BatchAndRest
  <2>3. Existing' \cap Batch(todo[r]) = {}
    <3>1. \A k \in Groups : group'[k] # {} => k \notin Batch(todo[r])
      BY <2>1
    <3> QED
      BY <2>1, <3>1 DEF Existing, Present
  <2>4. stay'[r] = stay[r] \cap Existing'
    BY <2>1, StaysLess DEF AdminType
  <2>5. ~truncated[r] => stay'[r] \subseteq Range(RestOf(todo[r])) \cup Internal
    BY <2>1, <2>2, <2>3, <2>4 DEF Swept
  <2> QED
    BY <1>1, <2>1, <2>5 DEF Swept
<1>5. CASE BulkDeleted(r)
  <2>1. /\ todo'[r] = RestOf(todo[r]) /\ UNCHANGED <<stay, truncated>>
        /\ pc[r] = "deleted" /\ pc'[r] = "del"
    BY <1>1, <1>5 DEF BulkDeleted, RoundTrip
  <2> QED
    BY <1>1, <2>1 DEF Swept
<1> QED
  BY <1>2, <1>3, <1>4, <1>5 DEF BulkRequest

LEMMA BulkInvStep == BulkInv /\ [Next]_vars => BulkInv'
<1> SUFFICES ASSUME BulkInv, [Next]_vars, NEW s \in Reqs PROVE Swept(s)'
  BY AdminTypeStep DEF BulkInv
<1>1. /\ Shape /\ Control /\ StoreTyped /\ BulkTyped /\ Swept(s) /\ AdminType
      /\ pc \in [Reqs -> Stages] /\ status \in [Reqs -> {0, 200, 400, 404, 500}]
      /\ call \in [Reqs -> AllCalls \cup {NoCall}]
      /\ todo \in [Reqs -> Seq(UserKeys)] /\ truncated \in [Reqs -> BOOLEAN]
  BY DEF BulkInv, AdminType, Shape, BulkTyped
<1>2. Stays \/ stay' = stay => stay'[s] \subseteq stay[s]
  BY <1>1, StaysLess
<1>3. ASSUME UNCHANGED <<pc, call, status, todo, truncated>>, Stays \/ stay' = stay
      PROVE  Swept(s)'
  BY <1>1, <1>2, <1>3, SweptQuiet
<1>4. CASE UNCHANGED vars
  BY <1>3, <1>4 DEF vars, bulk, control, reply
<1>5. ASSUME NEW r \in Reqs, Arrive(r) PROVE Swept(s)'
  <2>1. /\ UNCHANGED <<todo, truncated, reply>> /\ Stays /\ pc[r] = "idle" /\ pc'[r] \in Ops
        /\ \A q \in Reqs \ {r} : pc'[q] = pc[q] /\ call'[q] = call[q]
    BY <1>1, <1>5, Arrives
  <2>2. CASE s = r
    <3>1. {"del", "deleted"} \cap Ops = {}
      BY OpsApart DEF Inner
    <3>2. status'[r] = 0
      BY <1>1, <2>1 DEF Control, reply
    <3> QED
      BY <2>1, <2>2, <3>1, <3>2, SweptEarly
  <2>3. CASE s # r
    BY <1>1, <1>2, <2>1, <2>3, SweptQuiet DEF reply
  <2> QED
    BY <2>2, <2>3
<1>6. ASSUME NEW r \in Reqs, GroupRequest(r) \/ KeyRequest(r) PROVE Swept(s)'
  <2>1. Stays /\ UNCHANGED <<todo, truncated>>
    BY <1>6 DEF GroupRequest, KeyRequest, NoBulk
  <2>2. /\ call' = call
        /\ \A q \in Reqs \ {r} : pc'[q] = pc[q] /\ status'[q] = status[q]
        /\ pc'[r] \notin {"del", "deleted"} /\ (call[r].op # "bulk_delete" \/ status'[r] # 200)
    <3>1. CASE Refuse(r)
      BY <1>1, <3>1 DEF Refuse, Respond
    <3>2. CASE GroupHandler(r)
      <4>1. pc[r] \notin {"idle", "done"} /\ call' = call
        BY <1>1, <3>2, GroupControl
      <4>2. call[r].op \in GroupOps
        <5>1. pc[r] \in GroupOps \cup {"expire", "ttl", "answer"}
          BY <3>2 DEF GroupHandler, Sadd, BatchAdd, Expire, Ttl, Remove, Read, Answer, GroupOps
        <5> QED
          BY <1>1, <4>1, <5>1, AtCommand DEF Ops, GroupOps
      <4>3. /\ \A q \in Reqs \ {r} : pc'[q] = pc[q] /\ status'[q] = status[q]
            /\ pc'[r] \notin {"del", "deleted"}
        BY <1>1, <3>2
        DEF GroupHandler, Sadd, BatchAdd, Expire, Ttl, Remove, Read, Answer, Step, Replied, TtlReplied,
            Respond, reply
      <4> QED
        BY <4>1, <4>2, <4>3 DEF GroupOps, Readers
    <3>3. CASE KeyRequest(r)
      <4>1. call' = call /\ status' = status /\ pc[r] \notin {"idle", "done"}
        BY <1>1, <3>3, KeyControl
      <4>2. status[r] = 0
        BY <1>1, <4>1, AtCommand
      <4>3. /\ \A q \in Reqs \ {r} : pc'[q] = pc[q]
            /\ pc'[r] \notin {"del", "deleted"}
        BY <1>1, <3>3, KeyControl
      <4> QED
        BY <4>1, <4>2, <4>3
    <3> QED
      BY <1>6, <3>1, <3>2, <3>3 DEF GroupRequest
  <2>3. CASE s = r
    BY <2>2, <2>3, SweptEarly
  <2>4. CASE s # r
    BY <1>1, <1>2, <2>1, <2>2, <2>4, SweptQuiet
  <2> QED
    BY <2>3, <2>4
<1>7. ASSUME NEW r \in Reqs, BulkRequest(r) PROVE Swept(s)'
  <2>1. CASE s = r
    BY <1>1, <1>7, <2>1, BulkSwept
  <2>2. CASE s # r
    <3>1. call' = call /\ status' = status
      BY <1>1, <1>7, BulkControl
    <3>2. Stays \/ stay' = stay \/ \E E : stay' = [stay EXCEPT ![r] = E]
      BY <1>7 DEF BulkRequest, ScanStart, ScanKey, ScanEnd, BulkDel, BulkDeleted, bulk
    <3>3. stay'[s] \subseteq stay[s]
      BY <1>1, <1>2, <2>2, <3>2 DEF BulkTyped
    <3>4. pc'[s] = pc[s] /\ todo'[s] = todo[s] /\ truncated'[s] = truncated[s]
      BY <1>1, <1>7, <2>2
      DEF BulkRequest, ScanStart, ScanKey, ScanEnd, BulkDel, BulkDeleted, RoundTrip, Step, bulk
    <3> QED
      BY <1>1, <3>1, <3>3, <3>4, SweptQuiet
  <2> QED
    BY <2>1, <2>2
<1>8. ASSUME NEW r \in Reqs, AdminAnswer(r) PROVE Swept(s)'
  <2>1. UNCHANGED <<bulk, call>> /\ \A q \in Reqs \ {r} : pc'[q] = pc[q] /\ status'[q] = status[q]
    BY <1>1, <1>8, Answers, AdminAnswers
  <2>2. CASE s # r
    BY <1>1, <1>2, <2>1, <2>2, SweptQuiet DEF bulk
  <2>3. CASE s = r
    <3>1. pc'[r] = "done"
      BY <1>1, <1>8, Answers
    <3>2. CASE pc[r] = "admin_answer"
      <4>1. call[r].op # "bulk_delete"
        BY <1>1, <3>2, AtCommand DEF KeyOps
      <4> QED
        BY <2>1, <2>3, <3>1, <4>1, SweptEarly
    <3>3. CASE pc[r] = "del" /\ AllDeleted(r)
      <4>1. todo[r] = <<>> => Range(todo[r]) = {}
        BY DEF Range
      <4>2. call[r].op = "bulk_delete" /\ ~truncated[r] => stay[r] \subseteq Internal
        BY <1>1, <2>3, <3>3, <4>1 DEF AllDeleted, DryRun, Swept
      <4> QED
        BY <2>1, <2>3, <3>1, <4>2 DEF bulk, Swept
    <3> QED
      BY <1>8, <3>2, <3>3, AdminAnswers
  <2> QED
    BY <2>2, <2>3
<1>9. ASSUME NEW r \in Reqs, LoseRoundTrip(r) PROVE Swept(s)'
  <2>1. /\ UNCHANGED <<bulk, call>> /\ pc[r] \notin {"idle", "done"}
        /\ \A q \in Reqs \ {r} : pc'[q] = pc[q] /\ status'[q] = status[q]
        /\ \/ pc'[r] = rt[r] /\ status'[r] = 0 /\ rt[r] # "deleted"
              /\ (rt[r] = "del" => pc[r] \in {"del", "deleted"})
           \/ pc'[r] = "done" /\ status'[r] = 500
    BY <1>1, <1>9, Loses
  <2>2. CASE s # r
    BY <1>1, <1>2, <2>1, <2>2, SweptQuiet DEF bulk
  <2>3. CASE s = r /\ pc'[r] = "done"
    BY <2>1, <2>3, SweptEarly
  <2>4. CASE s = r /\ pc'[r] = rt[r] /\ status'[r] = 0
    <3>1. rt[r] = "deleted" => FALSE
      BY <2>1, <2>4
    <3>2. Range(RestOf(todo[r])) \subseteq Range(todo[r])
      BY <1>1, BatchAndRest
    <3> QED
      BY <1>1, <2>1, <2>4, <3>1, <3>2 DEF bulk, Swept
  <2> QED
    BY <2>1, <2>2, <2>3, <2>4
<1>10. ASSUME KeyGone \/ OtherWritten PROVE Swept(s)'
  <2>1. UNCHANGED <<control, reply, todo, truncated>> /\ (Stays \/ stay' = stay)
    BY <1>1, <1>10, KeysMove
  <2> QED
    BY <1>3, <2>1 DEF control, reply
<1> QED
  BY <1>4, <1>5, <1>6, <1>7, <1>8, <1>9, <1>10 DEF Next, Handler

LEMMA BulkInvInit == Init => BulkInv
<1> SUFFICES ASSUME Init PROVE BulkInv
  OBVIOUS
<1>1. ASSUME NEW r \in Reqs PROVE pc[r] = "idle" /\ status[r] = 0
  BY DEF Init, GroupInit, InitRequests
<1> QED
  BY <1>1, AdminTypeInit DEF BulkInv, Swept

(* bulk_delete_keys: an answer that is not truncated has deleted all that  *)
(* was there from the beginning of the scan.                               *)
THEOREM DeletionComplete == Spec => []BulkDeletesAll
<1>1. BulkInv => BulkDeletesAll
  BY DEF BulkInv, Swept, BulkDeletesAll
<1> QED
  BY BulkInvInit, BulkInvStep, <1>1, PTL DEF Spec

-------------------------------------------------------------------------------
(* What deletions report *)

LEMMA BatchFinite ==
  ASSUME NEW s \in Seq(UserKeys), NEW E
  PROVE  Cardinality(Batch(s) \cap E) \in Nat
<1>1. ASSUME NEW t \in Seq(UserKeys) PROVE IsFiniteSet(Range(t))
  <2>1. IsFiniteSet(1..Len(t))
    BY FS_Interval
  <2>2. t \in [1..Len(t) -> UserKeys]
    OBVIOUS
  <2>3. t \in Surjection(1..Len(t), Range(t))
    BY <2>2, Fun_RangeProperties
  <2> QED
    BY <2>1, <2>3, FS_Surjection
<1>2. IsFiniteSet(Batch(s))
  <2>1. Batch(s) \subseteq Range(s)
    BY BatchAndRest
  <2> QED
    BY <1>1, <2>1, FS_Subset
<1> QED
  BY <1>2, FS_Intersection, FS_CardinalityType

TallyTyped ==
  /\ deleted \in [Reqs -> Nat] /\ removed \in [Reqs -> Nat]
  /\ unheard \in [Reqs -> BOOLEAN] /\ DOMAIN result = Reqs

(* The keys that the DELs of a request have removed are those it will have *)
(* counted, with the reply it awaits; only a lost reply hides some.        *)
Told(n, r) == n <= removed[r] /\ (~unheard[r] => n = removed[r])

Tally(r) ==
  /\ pc[r] = "idle" => deleted[r] = 0 /\ removed[r] = 0 /\ ~unheard[r]
  /\ call[r].op \in Bulk /\ pc[r] # "deleted" => Told(deleted[r], r)
  /\ pc[r] = "deleted" => result[r] \in Nat /\ Told(deleted[r] + result[r], r)
  /\ call[r].op = "delete_key" =>
       /\ pc[r] = "delete_key" => removed[r] = 0 \/ unheard[r]
       /\ pc[r] = "admin_answer" => IF result[r] = 0 THEN removed[r] = 0 \/ unheard[r]
                                                    ELSE removed[r] > 0
       /\ status[r] = 200 => removed[r] > 0
       /\ status[r] = 404 => removed[r] = 0 \/ unheard[r]

TallyInv == AdminType /\ TallyTyped /\ \A r \in Reqs : Tally(r)

(* A request that neither moves nor counts. *)
LEMMA TallyQuiet ==
  ASSUME NEW r \in Reqs, Tally(r),
         pc'[r] = pc[r], call'[r] = call[r], status'[r] = status[r], result'[r] = result[r],
         deleted'[r] = deleted[r], removed'[r] = removed[r], unheard'[r] = unheard[r]
  PROVE  Tally(r)'
BY DEF Tally, Told

(* A request that deletes nothing. *)
LEMMA TallyElse ==
  ASSUME NEW r \in Reqs, pc'[r] \notin {"idle", "deleted"},
         call'[r].op \notin Bulk \cup {"delete_key"}
  PROVE  Tally(r)'
BY DEF Tally

LEMMA BulkTally ==
  ASSUME AdminType, TallyTyped, NEW r \in Reqs, Tally(r), BulkRequest(r)
  PROVE  /\ Tally(r)' /\ TallyTyped'
         /\ \A s \in Reqs \ {r} : UNCHANGED <<result[s], deleted[s], removed[s], unheard[s]>>
<1>1. /\ call' = call /\ status' = status /\ call[r].op \in Bulk /\ call[r].op # "delete_key"
      /\ todo[r] \in Seq(UserKeys) /\ pc \in [Reqs -> Stages] /\ pc[r] # "idle"
  BY BulkControl DEF AdminType, Shape, BulkTyped, Bulk
<1>2. CASE BulkDel(r)
  <2> DEFINE n == Cardinality(Batch(todo[r]) \cap Existing)
  <2>1. n \in Nat
    BY <1>1, BatchFinite
  <2>2. /\ pc[r] = "del" /\ pc' = [pc EXCEPT ![r] = "deleted"]
        /\ result' = [result EXCEPT ![r] = n]
        /\ removed' = [removed EXCEPT ![r] = @ + n] /\ UNCHANGED <<deleted, unheard>>
    BY <1>2 DEF BulkDel, Step, Replied, Removes
  <2> HIDE DEF n
  <2>3. Told(deleted[r], r)
    BY <1>1, <2>2 DEF Tally
  <2>4. TallyTyped'
    BY <2>1, <2>2 DEF TallyTyped
  <2>5. /\ result'[r] = n /\ removed'[r] = removed[r] + n /\ pc'[r] = "deleted"
        /\ deleted[r] \in Nat /\ removed[r] \in Nat
    BY <1>1, <2>1, <2>2 DEF TallyTyped
  <2>6. Told(deleted[r] + result[r], r)'
    BY <2>1, <2>2, <2>3, <2>5 DEF Told
  <2>7. Tally(r)'
    BY <1>1, <2>1, <2>5, <2>6 DEF Tally
  <2> QED
    BY <2>2, <2>4, <2>7 DEF TallyTyped
<1>3. CASE BulkDeleted(r)
  <2>1. /\ pc[r] = "deleted" /\ pc'[r] = "del"
        /\ deleted' = [deleted EXCEPT ![r] = @ + result[r]]
        /\ UNCHANGED <<removed, unheard, result>>
    BY <1>1, <1>3 DEF BulkDeleted, RoundTrip, reply
  <2>2. result[r] \in Nat /\ Told(deleted[r] + result[r], r)
    BY <2>1 DEF Tally
  <2>3. TallyTyped' /\ deleted'[r] = deleted[r] + result[r]
    BY <2>1, <2>2 DEF TallyTyped
  <2>4. Told(deleted[r], r)'
    BY <2>1, <2>2, <2>3 DEF Told
  <2>5. Tally(r)'
    BY <1>1, <2>1, <2>4 DEF Tally
  <2> QED
    BY <2>1, <2>3, <2>5 DEF TallyTyped
<1>4. CASE ScanStart(r) \/ (\E k \in Existing : ScanKey(r, k)) \/ ScanEnd(r)
  <2>1. /\ UNCHANGED <<tally, result>> /\ pc[r] # "deleted" /\ pc'[r] \notin {"deleted", "idle"}
    BY <1>1, <1>4 DEF ScanStart, ScanKey, ScanEnd, RoundTrip, reply, Bulk
  <2>2. TallyTyped' /\ Told(deleted[r], r)'
    BY <1>1, <2>1 DEF tally, TallyTyped, Tally, Told
  <2>3. Tally(r)'
    BY <1>1, <2>1, <2>2 DEF Tally
  <2> QED
    BY <2>1, <2>2, <2>3 DEF tally
<1> QED
  BY <1>2, <1>3, <1>4 DEF BulkRequest

LEMMA DeleteTally ==
  ASSUME AdminType, TallyTyped, NEW r \in Reqs, Tally(r), DeleteKey(r)
  PROVE  /\ Tally(r)' /\ TallyTyped'
         /\ \A s \in Reqs \ {r} : UNCHANGED <<result[s], deleted[s], removed[s], unheard[s]>>
<1>1. PICK n \in {0, 1} :
        /\ result' = [result EXCEPT ![r] = n]
        /\ removed' = [removed EXCEPT ![r] = @ + n] /\ UNCHANGED <<deleted, unheard>>
  BY DEF DeleteKey, Replied, Removes
<1>2. pc[r] = "delete_key" /\ pc' = [pc EXCEPT ![r] = "admin_answer"] /\ UNCHANGED <<call, status>>
  BY DEF DeleteKey, Step, Replied
<1>3. call[r].op = "delete_key" /\ status[r] = 0 /\ pc'[r] = "admin_answer"
  BY <1>2, AtCommand DEF AdminType, Ops, KeyOps, Shape
<1>4. /\ removed[r] \in Nat /\ result'[r] = n /\ removed'[r] = removed[r] + n
      /\ unheard'[r] = unheard[r] /\ status'[r] = 0
      /\ TallyTyped'
  BY <1>1, <1>2, <1>3 DEF TallyTyped
<1>5. removed[r] = 0 \/ unheard[r]
  BY <1>2, <1>3 DEF Tally
<1>6. Tally(r)'
  BY <1>1, <1>2, <1>3, <1>4, <1>5 DEF Tally, Bulk
<1> QED
  BY <1>1, <1>4, <1>6 DEF TallyTyped

LEMMA TallyInvStep == TallyInv /\ [Next]_vars => TallyInv'
<1> SUFFICES ASSUME TallyInv, [Next]_vars
             PROVE  TallyTyped' /\ \A s \in Reqs : Tally(s)'
  BY AdminTypeStep DEF TallyInv
<1>1. /\ AdminType /\ Shape /\ Control /\ StoreTyped /\ BulkTyped /\ TallyTyped
      /\ \A s \in Reqs : Tally(s)
      /\ pc \in [Reqs -> Stages] /\ status \in [Reqs -> {0, 200, 400, 404, 500}]
  BY DEF TallyInv, AdminType, Shape
<1>2. ASSUME UNCHANGED <<control, reply, tally>>
      PROVE  TallyTyped' /\ \A s \in Reqs : Tally(s)'
  BY <1>1, <1>2 DEF control, reply, tally, TallyTyped, Tally, Told
<1>3. ASSUME NEW r \in Reqs, Tally(r)', TallyTyped',
             \A s \in Reqs \ {r} :
               UNCHANGED <<pc[s], call[s], status[s], result[s], deleted[s], removed[s], unheard[s]>>
      PROVE  TallyTyped' /\ \A s \in Reqs : Tally(s)'
  BY <1>1, <1>3, TallyQuiet
<1>4. ASSUME NEW r \in Reqs, Arrive(r) PROVE TallyTyped' /\ \A s \in Reqs : Tally(s)'
  <2>1. /\ UNCHANGED <<tally, reply>> /\ pc[r] = "idle" /\ pc'[r] \in Ops
        /\ \A s \in Reqs \ {r} : pc'[s] = pc[s] /\ call'[s] = call[s]
    BY <1>1, <1>4, Arrives DEF Arrive
  <2>2. pc'[r] \notin {"idle", "deleted", "admin_answer"}
    BY <2>1, OpsApart DEF Inner
  <2>3. deleted[r] = 0 /\ removed[r] = 0 /\ ~unheard[r] /\ status[r] = 0
    BY <1>1, <2>1 DEF Tally, Control
  <2>4. Tally(r)'
    BY <2>1, <2>2, <2>3 DEF tally, reply, Tally, Told
  <2>5. TallyTyped'
    BY <1>1, <2>1 DEF tally, reply, TallyTyped
  <2> QED
    BY <1>3, <2>1, <2>4, <2>5 DEF tally, reply
<1>5. ASSUME NEW r \in Reqs, Refuse(r), UNCHANGED tally
      PROVE  TallyTyped' /\ \A s \in Reqs : Tally(s)'
  <2>1. /\ UNCHANGED <<result, call>> /\ pc'[r] = "done" /\ pc[r] = "idle"
        /\ \A s \in Reqs \ {r} : pc'[s] = pc[s] /\ status'[s] = status[s]
    BY <1>1, <1>5, Answers DEF Answered, Refuse
  <2>2. call[r].op \notin Bulk \cup {"delete_key"}
    BY <1>1, <2>1 DEF Control, NoCall, Bulk
  <2>3. Tally(r)'
    BY <2>1, <2>2, TallyElse
  <2>4. TallyTyped'
    BY <1>1, <1>5, <2>1 DEF tally, TallyTyped
  <2> QED
    BY <1>3, <1>5, <2>1, <2>3, <2>4 DEF tally
<1>6. ASSUME NEW r \in Reqs, GroupHandler(r), UNCHANGED tally
      PROVE  TallyTyped' /\ \A s \in Reqs : Tally(s)'
  <2>1. pc[r] \notin {"idle", "done"} /\ call' = call
    BY <1>1, <1>6, GroupControl
  <2>2. call[r].op \in GroupOps
    <3>1. pc[r] \in GroupOps \cup {"expire", "ttl", "answer"}
      BY <1>6 DEF GroupHandler, Sadd, BatchAdd, Expire, Ttl, Remove, Read, Answer, GroupOps
    <3> QED
      BY <1>1, <2>1, <3>1, AtCommand DEF Ops, GroupOps
  <2>3. call[r].op \notin Bulk \cup {"delete_key"}
    BY <2>2 DEF GroupOps, Readers, Bulk
  <2>4. /\ \A s \in Reqs \ {r} : UNCHANGED <<pc[s], status[s], result[s]>>
        /\ pc'[r] \notin {"idle", "deleted"} /\ DOMAIN result' = DOMAIN result
    BY <1>1, <1>6
    DEF GroupHandler, Sadd, BatchAdd, Expire, Ttl, Remove, Read, Answer, Step, Replied, TtlReplied,
        Respond, reply, TallyTyped
  <2>5. Tally(r)'
    BY <2>1, <2>3, <2>4, TallyElse
  <2>6. TallyTyped'
    BY <1>1, <1>6, <2>4 DEF tally, TallyTyped
  <2> QED
    BY <1>3, <1>6, <2>1, <2>4, <2>5, <2>6 DEF tally
<1>7. ASSUME NEW r \in Reqs, KeyRequest(r) PROVE TallyTyped' /\ \A s \in Reqs : Tally(s)'
  <2>1. /\ call' = call /\ status' = status /\ pc[r] \notin {"idle", "done"}
        /\ \A s \in Reqs \ {r} : pc'[s] = pc[s]
        /\ pc'[r] \notin {"idle", "deleted"} /\ call[r].op \notin Bulk
    BY <1>1, <1>7, KeyControl DEF KeyOps, Bulk
  <2>2. CASE DeleteKey(r)
    <3>1. /\ Tally(r)' /\ TallyTyped'
          /\ \A s \in Reqs \ {r} : UNCHANGED <<result[s], deleted[s], removed[s], unheard[s]>>
      BY <1>1, <2>2, DeleteTally
    <3> QED
      BY <1>3, <2>1, <3>1
  <2>3. CASE ~DeleteKey(r)
    <3>1. UNCHANGED tally /\ pc[r] \in KeyStages \ {"delete_key"}
      BY <1>7, <2>3 DEF KeyRequest, SetTtl, KeyInfo, ListKeys, KeyStages
    <3>2. call[r].op # "delete_key"
      BY <1>1, <2>1, <3>1, AtCommand DEF KeyStages, Path, Ops, GroupOps, Readers, Bulk, KeyOps
    <3>3. DOMAIN result' = Reqs /\ \A s \in Reqs \ {r} : result'[s] = result[s]
      BY <1>1, <1>7, <2>3
      DEF KeyRequest, SetTtl, KeyInfo, ListKeys, Replied, TtlReplied, reply, TallyTyped
    <3>4. Tally(r)'
      BY <2>1, <3>2, TallyElse
    <3>5. TallyTyped'
      BY <1>1, <3>1, <3>3 DEF tally, TallyTyped
    <3> QED
      BY <1>3, <2>1, <3>1, <3>3, <3>4, <3>5 DEF tally
  <2> QED
    BY <2>2, <2>3
<1>8. ASSUME NEW r \in Reqs, BulkRequest(r) PROVE TallyTyped' /\ \A s \in Reqs : Tally(s)'
  <2>1. call' = call /\ status' = status /\ \A s \in Reqs \ {r} : pc'[s] = pc[s]
    BY <1>1, <1>8, BulkControl
  <2>2. /\ Tally(r)' /\ TallyTyped'
        /\ \A s \in Reqs \ {r} : UNCHANGED <<result[s], deleted[s], removed[s], unheard[s]>>
    BY <1>1, <1>8, BulkTally
  <2> QED
    BY <1>3, <2>1, <2>2
<1>9. ASSUME NEW r \in Reqs, AdminAnswer(r) PROVE TallyTyped' /\ \A s \in Reqs : Tally(s)'
  <2>1. /\ UNCHANGED <<tally, call, result>> /\ pc'[r] = "done"
        /\ \A s \in Reqs \ {r} : pc'[s] = pc[s] /\ status'[s] = status[s]
    BY <1>1, <1>9, Answers, AdminAnswers
  <2>2. pc[r] \in {"admin_answer", "del"}
    BY <1>9, AdminAnswers
  <2>3. CASE call[r].op \in Bulk
    <3>1. Told(deleted[r], r)'
      BY <1>1, <2>1, <2>2, <2>3 DEF Tally, Told, tally
    <3> QED
      <4>1. Tally(r)'
        BY <2>1, <2>3, <3>1 DEF Tally, Bulk
      <4>2. TallyTyped'
        BY <1>1, <2>1 DEF tally, TallyTyped
      <4> QED
        BY <1>3, <2>1, <4>1, <4>2 DEF tally
  <2>4. CASE call[r].op = "delete_key"
    <3>1. pc[r] = "admin_answer"
      BY <1>1, <2>2, <2>4, AtCommand DEF Bulk
    <3>2. status'[r] = Found(r)
      BY <1>1, <1>9, <2>4, <3>1, AdminAnswers
    <3>3. Tally(r)
      BY <1>1
    <3>4. Tally(r)'
      BY <2>1, <2>4, <3>1, <3>2, <3>3 DEF Tally, Found, Bulk, tally
    <3>5. TallyTyped'
      BY <1>1, <2>1 DEF tally, TallyTyped
    <3> QED
      BY <1>3, <2>1, <3>4, <3>5 DEF tally
  <2>5. CASE call[r].op \notin Bulk \cup {"delete_key"}
    <3>1. Tally(r)'
      BY <2>1, <2>5, TallyElse
    <3>2. TallyTyped'
      BY <1>1, <2>1 DEF tally, TallyTyped
    <3> QED
      BY <1>3, <2>1, <3>1, <3>2 DEF tally
  <2> QED
    BY <2>3, <2>4, <2>5
<1>10. ASSUME NEW r \in Reqs, LoseRoundTrip(r) PROVE TallyTyped' /\ \A s \in Reqs : Tally(s)'
  <2>1. /\ call' = call /\ pc[r] \notin {"idle", "done"}
        /\ \A s \in Reqs \ {r} : pc'[s] = pc[s] /\ status'[s] = status[s]
        /\ \/ pc'[r] = rt[r] /\ status'[r] = 0 /\ rt[r] \notin {"idle", "done", "deleted", "admin_answer"}
           \/ pc'[r] = "done" /\ status'[r] = 500
    BY <1>1, <1>10, Loses
  <2>2. /\ UNCHANGED <<deleted, removed, result>>
        /\ unheard' = [unheard EXCEPT ![r] = @ \/ rt[r] \in {"del", "delete_key"}]
    BY <1>10 DEF LoseRoundTrip, GroupLost, Lost, Respond, reply
  <2>3. TallyTyped' /\ (unheard[r] \/ rt[r] \in {"del", "delete_key"} => unheard'[r])
    BY <1>1, <2>2 DEF TallyTyped
  <2>4. pc'[r] \notin {"idle", "deleted", "admin_answer"} /\ status'[r] \in {0, 500}
    BY <2>1
  <2>5. /\ call[r].op \in Ops /\ pc[r] \in Path(call[r].op) /\ rt[r] \in Trips(call[r].op, pc[r])
    BY <1>1, <2>1, AtCommand
  <2>6. ASSUME call[r].op \in Bulk PROVE Tally(r)'
    <3>1. pc[r] = "deleted" => rt[r] = "del"
      BY <2>5, TripBegins
    <3>2. deleted[r] \in Nat /\ removed[r] \in Nat /\ Tally(r)
      BY <1>1 DEF TallyTyped
    <3>3. deleted[r] <= removed[r]
      BY <2>6, <3>2 DEF Tally, Told
    <3>4. ~unheard'[r] => deleted[r] = removed[r]
      <4>1. ~unheard'[r] => ~unheard[r] /\ pc[r] # "deleted"
        BY <2>3, <3>1
      <4> QED
        BY <2>6, <3>2, <4>1 DEF Tally, Told
    <3>5. Told(deleted[r], r)'
      BY <2>2, <3>3, <3>4 DEF Told
    <3> QED
      BY <2>1, <2>4, <2>6, <3>5 DEF Tally, Bulk
  <2>7. ASSUME call[r].op = "delete_key" PROVE Tally(r)'
    <3>1. rt[r] = "delete_key"
      BY <2>5, <2>7, TripBegins
    <3>2. unheard'[r]
      BY <2>3, <3>1
    <3> QED
      BY <2>1, <2>4, <2>7, <3>2 DEF Tally, Bulk
  <2>8. ASSUME call[r].op \notin Bulk \cup {"delete_key"} PROVE Tally(r)'
    BY <2>1, <2>4, <2>8, TallyElse
  <2>9. \A s \in Reqs \ {r} : UNCHANGED <<deleted[s], removed[s], result[s], unheard[s]>>
    BY <1>1, <2>2 DEF TallyTyped
  <2>10. Tally(r)'
    BY <2>6, <2>7, <2>8
  <2> QED
    BY <1>3, <2>1, <2>3, <2>9, <2>10
<1>11. ASSUME KeyGone \/ OtherWritten PROVE TallyTyped' /\ \A s \in Reqs : Tally(s)'
  <2>1. UNCHANGED <<control, reply, tally>>
    BY <1>1, <1>11, KeysMove DEF KeyGone, OtherWritten
  <2> QED
    BY <1>2, <2>1
<1>12. CASE UNCHANGED vars
  BY <1>2, <1>12 DEF vars
<1> QED
  BY <1>4, <1>5, <1>6, <1>7, <1>8, <1>9, <1>10, <1>11, <1>12 DEF Next, Handler, GroupRequest

LEMMA TallyInvInit == Init => TallyInv
<1> SUFFICES ASSUME Init PROVE TallyInv
  OBVIOUS
<1>1. TallyTyped /\ \A r \in Reqs : /\ pc[r] = "idle" /\ call[r] = NoCall /\ status[r] = 0
                                    /\ deleted[r] = 0 /\ removed[r] = 0 /\ ~unheard[r]
  BY DEF Init, GroupInit, InitRequests, TallyTyped
<1>2. NoCall.op \notin Bulk \cup {"delete_key"}
  BY DEF NoCall, Bulk
<1> QED
  BY <1>1, <1>2, AdminTypeInit DEF TallyInv, Tally

(* bulk_delete_keys and delete_key: "deleted" never counts a key that the  *)
(* request has not removed itself, and 200 and 404 tell which one it was,  *)
(* unless the reply of a DEL was lost, however often that happens.         *)
THEOREM DeletionsCounted == Spec => []DeletionsHonest
<1>1. TallyInv => DeletionsHonest
  <2> SUFFICES ASSUME TallyInv, NEW r \in Reqs
               PROVE  /\ call[r].op = "bulk_delete" /\ status[r] = 200 => Told(deleted[r], r)
                      /\ call[r].op = "delete_key" =>
                           /\ status[r] = 200 => removed[r] > 0
                           /\ status[r] = 404 => removed[r] = 0 \/ unheard[r]
    BY DEF DeletionsHonest, Told
  <2>1. status[r] = 200 => pc[r] = "done"
    BY DEF TallyInv, AdminType, Control
  <2> QED
    BY <2>1 DEF TallyInv, Tally, Bulk
<1> QED
  BY TallyInvInit, TallyInvStep, <1>1, PTL DEF Spec

-------------------------------------------------------------------------------
(* Who deletes what *)

LEMMA OnlyAskedStep ==
  ASSUME BulkInv, [Next]_vars, NEW s \in Reqs, pc'[s] # pc[s] \/ todo'[s] # todo[s]
  PROVE  /\ others \cap Internal \subseteq others'
         /\ call[s].op = "dry_run" => Existing \subseteq Existing'
<1> DEFINE Kept == /\ others \cap Internal \subseteq others'
                   /\ call[s].op = "dry_run" => Existing \subseteq Existing'
<1>1. /\ Shape /\ Control /\ StoreTyped /\ BulkTyped
      /\ pc \in [Reqs -> Stages] /\ todo \in [Reqs -> Seq(UserKeys)]
  BY DEF BulkInv, AdminType, Shape, BulkTyped
<1>2. UNCHANGED store => Kept
  BY DEF store, groups, Existing, Present
<1>3. ASSUME NEW r \in Reqs, GroupRequest(r) \/ KeyRequest(r) PROVE Kept
  <2>1. /\ others' = others /\ todo' = todo
        /\ \A q \in Reqs \ {r} : pc'[q] = pc[q]
    BY <1>1, <1>3
    DEF GroupRequest, KeyRequest, NoBulk, Refuse, GroupHandler, Sadd, BatchAdd, Expire, Ttl, Remove,
        Read, Answer, SetTtl, KeyInfo, DeleteKey, ListKeys, Step, RoundTrip, Respond
  <2>2. s = r
    BY <2>1
  <2>3. CASE Refuse(r)
    BY <1>2, <2>1, <2>3 DEF Refuse, store
  <2>4. CASE GroupHandler(r)
    <3>1. pc[r] \in GroupOps \cup {"expire", "ttl", "answer"} /\ pc[r] \notin {"idle", "done"}
      BY <1>1, <2>4, GroupControl
      DEF GroupHandler, Sadd, BatchAdd, Expire, Ttl, Remove, Read, Answer, GroupOps
    <3>2. call[r].op \in GroupOps
      BY <1>1, <3>1, AtCommand DEF Ops, GroupOps
    <3> QED
      BY <2>1, <2>2, <3>2 DEF GroupOps, Readers
  <2>5. CASE KeyRequest(r)
    <3>1. call[r].op # "dry_run"
      BY <1>1, <2>5, KeyControl DEF KeyOps
    <3> QED
      BY <2>1, <2>2, <3>1
  <2> QED
    BY <1>3, <2>3, <2>4, <2>5 DEF GroupRequest
<1>4. ASSUME NEW r \in Reqs, BulkRequest(r) PROVE Kept
  <2>1. CASE BulkDel(r)
    <3>1. /\ others' = others \ Batch(todo[r]) /\ call[r].op # "dry_run"
          /\ \A q \in Reqs \ {r} : pc'[q] = pc[q] /\ todo'[q] = todo[q]
      BY <1>1, <2>1 DEF BulkDel, AllDeleted, DryRun, Step
    <3>2. Batch(todo[r]) \subseteq UserKeys
      BY <1>1, BatchAndRest
    <3>3. UserKeys \cap Internal = {}
      BY AdminAssumption DEF UserKeys
    <3> QED
      BY <3>1, <3>2, <3>3
  <2>2. CASE ~BulkDel(r)
    <3>1. UNCHANGED store
      BY <1>4, <2>2 DEF BulkRequest, ScanStart, ScanKey, ScanEnd, BulkDeleted
    <3> QED
      BY <1>2, <3>1
  <2> QED
    BY <2>1, <2>2
<1>5. ASSUME NEW r \in Reqs, Arrive(r) \/ AdminAnswer(r) \/ LoseRoundTrip(r) PROVE Kept
  BY <1>2, <1>5, AdminAnswers DEF Arrive, ArriveWith, LoseRoundTrip, GroupLost, store
<1>6. ~(KeyGone \/ OtherWritten)
  <2>1. KeyGone \/ OtherWritten => UNCHANGED <<pc, todo>>
    BY <1>1, KeysMove DEF control
  <2> QED
    BY <2>1
<1>7. ~UNCHANGED vars
  BY DEF vars, control, bulk
<1> QED
  BY <1>3, <1>4, <1>5, <1>6, <1>7 DEF Next, Handler

(* _is_storage_key and dry_run of bulk_delete_keys: internal keys are not  *)
(* deleted by any request, and a dry run changes no key.                   *)
THEOREM DeletesOnlyAsked == Spec => OnlyAskedDeleted
<1>1. ASSUME BulkInv, [Next]_vars
      PROVE  [\A r \in Reqs : pc'[r] # pc[r] \/ todo'[r] # todo[r] =>
                /\ others \cap Internal \subseteq others'
                /\ call[r].op = "dry_run" => Existing \subseteq Existing']_vars
  BY <1>1, OnlyAskedStep
<1> QED
  BY BulkInvInit, BulkInvStep, <1>1, PTL DEF Spec, OnlyAskedDeleted

-------------------------------------------------------------------------------
(* TTLs of groups *)

TtlSetters == {"add", "batch_add", "touch", "set_ttl"}

(* Where a request has a call, it keeps it. *)
LEMMA CallsKept ==
  ASSUME Shape, Control, [Next]_vars, NEW s \in Reqs, call[s].op \in Ops
  PROVE  call'[s] = call[s]
<1>1. pc[s] # "idle"
  <2>1. NoCall.op \notin Ops
    BY DEF NoCall, Ops, GroupOps, KeyOps, Readers, Bulk
  <2> QED
    BY <2>1 DEF Control
<1>2. ASSUME NEW r \in Reqs, Arrive(r) PROVE call'[s] = call[s]
  BY <1>1, <1>2, Arrives
<1>3. ASSUME NEW r \in Reqs, GroupRequest(r) PROVE call'[s] = call[s]
  BY <1>3, GroupControl DEF GroupRequest, Refuse, Respond
<1>4. ASSUME NEW r \in Reqs, KeyRequest(r) \/ BulkRequest(r) PROVE call'[s] = call[s]
  BY <1>4, KeyControl, BulkControl
<1>5. ASSUME NEW r \in Reqs, AdminAnswer(r) \/ LoseRoundTrip(r) PROVE call'[s] = call[s]
  BY <1>5, Loses, AdminAnswers
<1>6. CASE KeyGone \/ OtherWritten \/ UNCHANGED vars
  BY <1>6 DEF KeyGone, OtherWritten, GroupExpires, GroupEvicted, GroupGone, vars, control
<1> QED
  BY <1>2, <1>3, <1>4, <1>5, <1>6 DEF Next, Handler

(* An add that has not set the TTL, or lost a round trip, stays one until  *)
(* it executes its EXPIRE.                                                 *)
LEMMA AddedKept ==
  ASSUME Shape, Control, StoreTyped, BulkTyped, [Next]_vars,
         NEW s \in Reqs, NEW k \in Groups, AddedOnly(s, k), ~Expire(s)
  PROVE  AddedOnly(s, k)'
<1> DEFINE Open == pc[s] = "expire" \/ (pc[s] = "add" /\ tries[s] > 0) \/ status[s] = 500
<1>1. call'[s] = call[s] /\ call[s].op = "add"
  BY CallsKept DEF AddedOnly, Ops, GroupOps
<1>2. SUFFICES Open'
  BY <1>1 DEF AddedOnly
<1>3. Open /\ pc[s] # "idle"
  <2>1. NoCall.op # "add"
    BY DEF NoCall
  <2> QED
    BY <1>1, <2>1 DEF AddedOnly, Control
<1>4. /\ pc \in [Reqs -> Stages] /\ tries \in [Reqs -> 0..Retries]
      /\ status \in [Reqs -> {0, 200, 400, 404, 500}]
  BY DEF Shape
<1>5. ASSUME pc'[s] = pc[s], tries'[s] = tries[s], status'[s] = status[s] PROVE Open'
  BY <1>3, <1>5
<1>6. status[s] = 500 => pc[s] = "done"
  BY DEF Control
<1>7. ASSUME NEW r \in Reqs, Arrive(r) PROVE Open'
  <2>1. r # s /\ \A q \in Reqs \ {r} : pc'[q] = pc[q] /\ tries'[q] = tries[q]
    BY <1>3, <1>4, <1>7 DEF Arrive, ArriveWith, RoundTrip
  <2> QED
    BY <1>5, <1>7, <2>1 DEF Arrive, ArriveWith, reply
<1>8. ASSUME NEW r \in Reqs, GroupHandler(r) PROVE Open'
  <2>1. /\ \A q \in Reqs \ {r} : pc'[q] = pc[q] /\ status'[q] = status[q]
        /\ tries' = tries /\ pc[r] # "done"
    BY <1>4, <1>8
    DEF GroupHandler, Sadd, BatchAdd, Expire, Ttl, Remove, Read, Answer, Step, Respond, Replied,
        TtlReplied, reply, Readers
  <2>2. CASE s = r
    <3>1. pc[s] = "add"
      BY <1>3, <1>6, <1>8, <2>1, <2>2
      DEF GroupHandler, Sadd, BatchAdd, Ttl, Remove, Read, Answer, Readers
    <3>2. Sadd(s)
      BY <1>8, <2>2, <3>1 DEF GroupHandler, BatchAdd, Expire, Ttl, Remove, Read, Answer, Readers
    <3> QED
      BY <1>4, <3>2 DEF Sadd, Step
  <2> QED
    BY <1>5, <2>1, <2>2
<1>9. ASSUME NEW r \in Reqs, Refuse(r) PROVE Open'
  BY <1>3, <1>4, <1>5, <1>9 DEF Refuse, Respond
<1>10. ASSUME NEW r \in Reqs, KeyRequest(r) \/ BulkRequest(r) PROVE Open'
  <2>1. /\ status' = status /\ call[r].op \in KeyOps \cup Bulk
        /\ \A q \in Reqs \ {r} : pc'[q] = pc[q] /\ tries'[q] = tries[q]
    BY <1>10, KeyControl, BulkControl
  <2> QED
    BY <1>1, <1>5, <2>1 DEF KeyOps, Bulk
<1>11. ASSUME NEW r \in Reqs, AdminAnswer(r) PROVE Open'
  <2>1. /\ pc[r] \in {"admin_answer", "del"} /\ tries' = tries
        /\ \A q \in Reqs \ {r} : pc'[q] = pc[q] /\ status'[q] = status[q]
    BY <1>11, AdminAnswers, Answers
  <2>2. call[r].op # "add"
    BY <2>1, AtCommand DEF KeyOps, Bulk
  <2> QED
    BY <1>1, <1>5, <2>1, <2>2
<1>12. ASSUME NEW r \in Reqs, LoseRoundTrip(r) PROVE Open'
  <2>1. /\ \A q \in Reqs \ {r} : pc'[q] = pc[q] /\ status'[q] = status[q] /\ tries'[q] = tries[q]
        /\ \/ pc'[r] = rt[r] /\ tries'[r] > 0 /\ (call[r].op = "add" => rt[r] = "add")
           \/ status'[r] = 500
    BY <1>12, Loses
  <2> QED
    BY <1>1, <1>5, <2>1
<1>13. CASE KeyGone \/ OtherWritten \/ UNCHANGED vars
  BY <1>5, <1>13, KeysMove DEF vars, control, reply
<1> QED
  BY <1>7, <1>8, <1>9, <1>10, <1>11, <1>12, <1>13 DEF Next, Handler, GroupRequest

(* A group becomes one without TTL by a request that explains it.          *)
LEMMA NewImmortal ==
  ASSUME Shape, Control, StoreTyped, BulkTyped, [Next]_vars, NEW k \in Groups,
         Present(k)', ttl'[k] = NoTtl, ~(Present(k) /\ ttl[k] = NoTtl)
  PROVE  \E r \in Reqs : \/ call[r].op \in TtlSetters /\ AskedTtl(r) = 0
                         \/ AddedOnly(r, k)'
<1>1. group' # group \/ ttl' # ttl
  BY DEF Present
<1>2. group'[k] # {} /\ ttl'[k] = NoTtl /\ ~(group[k] # {} /\ ttl[k] = NoTtl)
  BY DEF Present
<1>3. group \in [Groups -> SUBSET Members] /\ ttl \in [Groups -> Nat \cup {NoTtl}]
  BY DEF StoreTyped
<1>4. ASSUME NEW l \in Groups, NEW S, NEW t, Become(l, S, t)
      PROVE  /\ l = k => S # {} /\ t = NoTtl
             /\ l # k => FALSE
  BY <1>2, <1>3, <1>4 DEF Become
<1>5. ASSUME NEW r \in Reqs, ttl'[k] = ExpireOrPersist(AskedTtl(r)), call[r].op \in TtlSetters
      PROVE  call[r].op \in TtlSetters /\ AskedTtl(r) = 0
  BY <1>2, <1>5, AskedType
<1>6. ASSUME NEW r \in Reqs, GroupHandler(r)
      PROVE  (call[r].op \in TtlSetters /\ AskedTtl(r) = 0) \/ AddedOnly(r, k)'
  <2>1. pc[r] \notin {"idle", "done"} /\ call' = call
    BY <1>6, GroupControl
  <2>2. CASE Sadd(r)
    <3>1. call[r].op = "add" /\ call[r].key \in Groups /\ pc'[r] = "expire"
      BY <2>1, <2>2, AtCommand DEF Sadd, Step, Ops, GroupOps, Keyless, Bulk, Shape
    <3>2. call[r].key = k
      BY <1>2, <1>3, <2>2, <3>1 DEF Sadd, Become
    <3> QED
      BY <2>1, <3>1, <3>2 DEF AddedOnly
  <2>3. CASE BatchAdd(r)
    <3>1. call[r].op = "batch_add"
      BY <2>1, <2>3, AtCommand DEF BatchAdd, Ops, GroupOps
    <3>2. ttl'[k] = ExpireOrPersist(AskedTtl(r))
      BY <2>3 DEF BatchAdd
    <3> QED
      BY <1>5, <3>1, <3>2 DEF TtlSetters
  <2>4. CASE Expire(r)
    <3>1. call[r].op \in TtlSetters /\ call[r].key \in Groups
      BY <2>1, <2>4, AtCommand DEF Expire, TtlSetters, Keyless, Bulk
    <3>2. call[r].key = k
      BY <1>2, <1>3, <2>4, <3>1 DEF Expire, Become
    <3>3. ttl'[k] = ExpireOrPersist(AskedTtl(r))
      BY <1>2, <1>3, <2>4, <3>2 DEF Expire, Become
    <3> QED
      BY <1>5, <3>1, <3>3
  <2>5. ~Remove(r)
    <3>1. ASSUME Remove(r) PROVE FALSE
      <4>1. call[r].key \in Groups
        BY <2>1, <3>1, AtCommand DEF Remove, Keyless, Bulk, Ops, GroupOps
      <4>2. PICK S : Become(call[r].key, group[call[r].key] \ S, ttl[call[r].key])
        BY <3>1 DEF Remove
      <4> QED
        BY <1>2, <1>3, <4>1, <4>2 DEF Become
    <3> QED
      BY <3>1
  <2>6. ~(Ttl(r) \/ Read(r) \/ Answer(r))
    BY <1>1 DEF Ttl, Read, Answer, groups
  <2> QED
    BY <1>6, <2>2, <2>3, <2>4, <2>5, <2>6 DEF GroupHandler
<1>7. ASSUME NEW r \in Reqs, KeyRequest(r) PROVE call[r].op \in TtlSetters /\ AskedTtl(r) = 0
  <2>1. pc[r] \notin {"idle", "done"}
    BY <1>7, KeyControl
  <2>2. pc[r] \in {"admin_expire", "delete_key"}
    BY <1>1, <1>7 DEF KeyRequest, SetTtl, KeyInfo, DeleteKey, ListKeys, groups
  <2>3. call[r].key \in Groups
    BY <2>1, <2>2, AtCommand DEF Keyless, Bulk, Ops, KeyOps
  <2>4. pc[r] # "delete_key"
    <3>1. pc[r] = "delete_key" => Become(call[r].key, {}, NoTtl)
      BY <1>7 DEF KeyRequest, SetTtl, KeyInfo, DeleteKey, ListKeys
    <3> QED
      BY <1>2, <1>3, <2>3, <3>1 DEF Become
  <2>5. Become(call[r].key, group[call[r].key], ExpireOrPersist(AskedTtl(r))) /\ call[r].op = "set_ttl"
    BY <1>7, <2>1, <2>2, <2>4, AtCommand DEF KeyRequest, SetTtl, KeyInfo, DeleteKey, ListKeys
  <2>6. ttl'[k] = ExpireOrPersist(AskedTtl(r))
    BY <1>2, <1>3, <2>3, <2>5 DEF Become
  <2> QED
    BY <1>5, <2>5, <2>6 DEF TtlSetters
<1>8. ASSUME NEW r \in Reqs, BulkRequest(r) PROVE FALSE
  <2>1. BulkDel(r)
    BY <1>1, <1>8 DEF BulkRequest, ScanStart, ScanKey, ScanEnd, BulkDeleted, store, groups
  <2>2. /\ group' = [l \in Groups |-> IF l \in Batch(todo[r]) THEN {} ELSE group[l]]
        /\ ttl' = [l \in Groups |-> IF l \in Batch(todo[r]) THEN NoTtl ELSE ttl[l]]
    BY <2>1 DEF BulkDel
  <2> QED
    BY <1>2, <2>2
<1>9. ASSUME NEW r \in Reqs, Arrive(r) \/ AdminAnswer(r) \/ LoseRoundTrip(r) \/ Refuse(r) PROVE FALSE
  BY <1>1, <1>9, AdminAnswers DEF Arrive, ArriveWith, LoseRoundTrip, GroupLost, Refuse, store, groups
<1>10. ~KeyGone
  <2>1. ASSUME NEW l \in Groups, Become(l, {}, NoTtl) PROVE FALSE
    BY <1>2, <1>3, <2>1 DEF Become
  <2> QED
    BY <1>1, <2>1 DEF KeyGone, GroupExpires, GroupEvicted, GroupGone, groups
<1>11. ~(OtherWritten \/ UNCHANGED vars)
  BY <1>1 DEF OtherWritten, vars, store, groups
<1> QED
  BY <1>6, <1>7, <1>8, <1>9, <1>10, <1>11 DEF Next, Handler, GroupRequest

LEMMA NoImmortalStep == AdminType /\ NoImmortalGroup /\ [Next]_vars => NoImmortalGroup'
<1> SUFFICES ASSUME AdminType, NoImmortalGroup, [Next]_vars,
                    NEW k \in Groups, Present(k)', ttl'[k] = NoTtl
             PROVE  \E r \in Reqs : \/ call'[r].op \in TtlSetters /\ AskedTtl(r)' = 0
                                    \/ AddedOnly(r, k)'
  BY DEF NoImmortalGroup, TtlSetters
<1>1. Shape /\ Control /\ StoreTyped /\ BulkTyped
  BY DEF AdminType
<1>2. ASSUME NEW s \in Reqs, call[s].op \in TtlSetters, AskedTtl(s) = 0
      PROVE  call'[s].op \in TtlSetters /\ AskedTtl(s)' = 0
  <2>1. call'[s] = call[s]
    BY <1>1, <1>2, CallsKept DEF TtlSetters, Ops, GroupOps, KeyOps
  <2> QED
    BY <1>2, <2>1 DEF AskedTtl
<1>3. CASE Present(k) /\ ttl[k] = NoTtl
  <2>1. PICK s \in Reqs : (call[s].op \in TtlSetters /\ AskedTtl(s) = 0) \/ AddedOnly(s, k)
    BY <1>3 DEF NoImmortalGroup, TtlSetters
  <2>2. CASE AddedOnly(s, k) /\ Expire(s)
    <3>1. call[s].op \in TtlSetters /\ call[s].key = k
      BY <2>2 DEF AddedOnly, TtlSetters
    <3>2. ExpireOrPersist(AskedTtl(s)) = NoTtl
      BY <1>1, <2>2, <3>1 DEF Expire, Become, StoreTyped, Present
    <3> QED
      BY <1>1, <1>2, <3>1, <3>2, AskedType
  <2>3. CASE AddedOnly(s, k) /\ ~Expire(s)
    BY <1>1, <2>3, AddedKept
  <2> QED
    BY <1>2, <2>1, <2>2, <2>3
<1>4. CASE ~(Present(k) /\ ttl[k] = NoTtl)
  <2>1. PICK r \in Reqs : (call[r].op \in TtlSetters /\ AskedTtl(r) = 0) \/ AddedOnly(r, k)'
    BY <1>1, <1>4, NewImmortal
  <2> QED
    BY <1>2, <2>1
<1> QED
  BY <1>3, <1>4

(* add_group, batch_add_group, touch and set_ttl: a group without TTL is   *)
(* always explained, whatever the admin handlers do to it meanwhile.       *)
THEOREM GroupsMortal == Spec => []NoImmortalGroup
<1>1. Init => NoImmortalGroup
  BY DEF Init, GroupInit, Present, NoImmortalGroup
<1> QED
  BY AdminTypeInit, AdminTypeStep, <1>1, NoImmortalStep, PTL DEF Spec
===============================================================================
