------------------------------ MODULE AdminRoutes ------------------------------
(***************************************************************************)
(* The handlers of app/routers/admin.py that look at or change the keys of *)
(* users, beside the requests that use these keys (GroupRoutes).           *)
(*                                                                         *)
(* "others" are further keys that the SCAN pattern of a bulk deletion      *)
(* matches: those of the other routers and internal keys of the gateway.   *)
(* SCAN returns a key that is there all the time at least once, any other  *)
(* key or not, and any key more than once.                                 *)
(*                                                                         *)
(* A command that writes and the receipt of its reply are two steps: it    *)
(* may run, lose its reply and run again, on what the key has become.  One *)
(* that only reads is a single step, as its repetition is all that counts. *)
(***************************************************************************)
EXTENDS GroupRoutes, Sequences, Functions

CONSTANTS
  Others,      \* keys of the other routers
  Internal,    \* __redgw:* and redgw:metrics:*
  BulkMax,     \* keys a bulk deletion takes at most
  BatchSize    \* keys of one DEL

ASSUME AdminAssumption ==
  /\ Groups \cap (Others \cup Internal) = {} /\ Others \cap Internal = {}
  /\ BulkMax \in Nat \ {0} /\ BatchSize \in Nat \ {0}

VARIABLES
  others,      \* the keys of Others and Internal that exist
  todo,        \* todo[r]: keys_to_delete, from the batch on that is next
  truncated,   \* truncated[r]
  stay,        \* stay[r]: the keys that have existed since r began to scan
  deleted,     \* deleted[r]: "deleted" of a bulk deletion
  removed,     \* removed[r]: keys that the DELs of r have removed
  unheard      \* unheard[r]: the reply of a DEL of r was lost

bulk == <<todo, truncated, stay>>
tally == <<deleted, removed, unheard>>
store == <<groups, others>>
vars == <<store, bulk, tally, control, reply>>

Existing == {k \in Groups : Present(k)} \cup others

AdminCalls ==
  [op: {"set_ttl"}, key: Groups, member: {AnyMember}, ttl: BodyTtls \ {Unset}] \cup
  [op: {"info", "delete_key"}, key: Groups, member: {AnyMember}, ttl: {Unset}] \cup
  [op: {"list_keys", "bulk_delete", "dry_run"}, key: {AnyKey}, member: {AnyMember}, ttl: {Unset}]

Init ==
  /\ GroupInit
  /\ others = {}
  /\ todo = [r \in Reqs |-> <<>>]
  /\ truncated = [r \in Reqs |-> FALSE]
  /\ stay = [r \in Reqs |-> {}]
  /\ deleted = [r \in Reqs |-> 0] /\ removed = [r \in Reqs |-> 0]
  /\ unheard = [r \in Reqs |-> FALSE]

(* What has gone has not stayed. *)
Stays == stay' = [r \in Reqs |-> stay[r] \cap Existing']
NoBulk == Stays /\ UNCHANGED <<todo, truncated>>
Removes(r, n) == removed' = [removed EXCEPT ![r] = @ + n] /\ UNCHANGED <<deleted, unheard>>

-------------------------------------------------------------------------------
Arrive(r) == ArriveWith(r, GroupCalls \cup AdminCalls) /\ UNCHANGED <<others, tally>> /\ NoBulk

GroupRequest(r) == (Refuse(r) \/ GroupHandler(r)) /\ UNCHANGED <<others, tally>> /\ NoBulk

(* set_ttl: EXISTS, EXPIRE or PERSIST and its reply, and TTL: three round  *)
(* trips.                                                                  *)
SetTtl(r) ==
  LET k == call[r].key IN
  \/ /\ pc[r] = "set_ttl"
     /\ Replied(r, IF Present(k) THEN 1 ELSE 0)
     /\ IF Present(k) THEN RoundTrip(r, "admin_expire") /\ UNCHANGED call
                      ELSE Step(r, "admin_answer")
     /\ UNCHANGED groups
  \/ /\ pc[r] = "admin_expire"
     /\ Become(k, group[k], ExpireOrPersist(AskedTtl(r)))
     /\ Step(r, "admin_expired")
     /\ UNCHANGED reply
  \/ /\ pc[r] = "admin_expired"
     /\ RoundTrip(r, "admin_ttl")
     /\ UNCHANGED <<groups, call, reply>>

(* key_info: TYPE, then TTL, then OBJECT ENCODING and the size. *)
KeyInfo(r) ==
  LET k == call[r].key IN
  \/ /\ pc[r] = "info"
     /\ Replied(r, IF Present(k) THEN 1 ELSE 0)
     /\ IF Present(k) THEN RoundTrip(r, "admin_ttl") /\ UNCHANGED call
                      ELSE Step(r, "admin_answer")
     /\ UNCHANGED groups
  \/ /\ pc[r] = "admin_ttl"
     /\ TtlReplied(r, TtlReply(Present(k), ttl[k]))
     /\ IF call[r].op = "info" THEN RoundTrip(r, "size") /\ UNCHANGED call
                               ELSE Step(r, "admin_answer")
     /\ UNCHANGED groups
  \/ /\ pc[r] = "size"
     /\ Step(r, "admin_answer")
     /\ UNCHANGED <<groups, reply>>

(* delete_key: DEL, whose reply the answer waits for. *)
DeleteKey(r) ==
  LET k == call[r].key IN
  /\ pc[r] = "delete_key"
  /\ Become(k, {}, NoTtl)
  /\ Replied(r, IF Present(k) THEN 1 ELSE 0)
  /\ Removes(r, IF Present(k) THEN 1 ELSE 0)
  /\ Step(r, "admin_answer")

(* list_keys: one page of SCAN. *)
ListKeys(r) ==
  /\ pc[r] = "list_keys"
  /\ Step(r, "admin_answer")
  /\ UNCHANGED <<groups, reply>>

KeyRequest(r) ==
  /\ \/ (SetTtl(r) \/ KeyInfo(r) \/ ListKeys(r)) /\ UNCHANGED tally
     \/ DeleteKey(r)
  /\ UNCHANGED others /\ NoBulk

-------------------------------------------------------------------------------
(* bulk_delete_keys *)
Bulk == {"bulk_delete", "dry_run"}

(* The first SCAN: r looks at everything that exists from now on. *)
ScanStart(r) ==
  /\ pc[r] \in Bulk
  /\ stay' = [stay EXCEPT ![r] = Existing]
  /\ RoundTrip(r, "scan")
  /\ UNCHANGED <<store, todo, truncated, tally, call, reply>>

(* Keys that _is_storage_key lets through. *)
IsStorageKey_All(k) == TRUE
IsStorageKey(k) == k \notin Internal

Full(r) == Len(todo[r]) >= BulkMax

(* The iteration comes to key k, and ends at the limit. *)
ScanKey(r, k) ==
  /\ pc[r] = "scan" /\ k \in Existing /\ IsStorageKey(k)
  /\ IF Full(r)
       THEN /\ truncated' = [truncated EXCEPT ![r] = TRUE]
            /\ RoundTrip(r, "del") /\ UNCHANGED todo
       ELSE /\ todo' = [todo EXCEPT ![r] = Append(@, k)]
            /\ RoundTrip(r, "scan") /\ UNCHANGED truncated
  /\ UNCHANGED <<store, stay, tally, call, reply>>

(* The cursor is back at 0: SCAN owes no key any more. *)
ScanEnd(r) ==
  /\ pc[r] = "scan"
  /\ {k \in stay[r] : IsStorageKey(k)} \subseteq Range(todo[r])
  /\ RoundTrip(r, "del")
  /\ UNCHANGED <<store, bulk, tally, call, reply>>

DryRun(r) == call[r].op = "dry_run"
AllDeleted(r) == todo[r] = <<>> \/ DryRun(r)

(* The batch that is next, and what follows it. *)
Batch(s) == IF Len(s) <= BatchSize THEN Range(s) ELSE Range(SubSeq(s, 1, BatchSize))
RestOf_Skip(s) == IF Len(s) <= BatchSize + 1 THEN <<>> ELSE SubSeq(s, BatchSize + 2, Len(s))
RestOf(s) == IF Len(s) <= BatchSize THEN <<>> ELSE SubSeq(s, BatchSize + 1, Len(s))

(* DEL of the batch that is next ... *)
BulkDel(r) ==
  LET batch == Batch(todo[r])
      n == Cardinality(batch \cap Existing)
  IN
  /\ pc[r] = "del" /\ ~AllDeleted(r)
  /\ group' = [k \in Groups |-> IF k \in batch THEN {} ELSE group[k]]
  /\ ttl' = [k \in Groups |-> IF k \in batch THEN NoTtl ELSE ttl[k]]
  /\ others' = others \ batch
  /\ Stays
  /\ Replied(r, n) /\ Removes(r, n)
  /\ Step(r, "deleted")
  /\ UNCHANGED <<todo, truncated>>

(* ... and its reply, which is added up: on to the next batch. *)
BulkDeleted_Batch(r) ==
  /\ pc[r] = "deleted"
  /\ deleted' = [deleted EXCEPT ![r] = @ + Cardinality(Batch(todo[r]))]
  /\ todo' = [todo EXCEPT ![r] = RestOf(@)]
  /\ RoundTrip(r, "del")
  /\ UNCHANGED <<store, truncated, stay, removed, unheard, call, reply>>

BulkDeleted(r) ==
  /\ pc[r] = "deleted"
  /\ deleted' = [deleted EXCEPT ![r] = @ + result[r]]
  /\ todo' = [todo EXCEPT ![r] = RestOf(@)]
  /\ RoundTrip(r, "del")
  /\ UNCHANGED <<store, truncated, stay, removed, unheard, call, reply>>

BulkRequest(r) ==
  ScanStart(r) \/ (\E k \in Existing : ScanKey(r, k)) \/ ScanEnd(r) \/ BulkDel(r) \/ BulkDeleted(r)

-------------------------------------------------------------------------------
(* The responses: 404 for a key that was not there. *)
Found(r) == IF result[r] = 0 THEN 404 ELSE 200

AnswerAs(r, op, code, meta_ttl) ==
  pc[r] = "admin_answer" /\ call[r].op = op /\ Respond(r, code, meta_ttl)

TtlAnswer(r) == AnswerAs(r, "set_ttl", Found(r), meta[r])
InfoAnswer(r) == AnswerAs(r, "info", Found(r), meta[r])
DeleteAnswer(r) == AnswerAs(r, "delete_key", Found(r), NoTtl)
ListAnswer(r) == AnswerAs(r, "list_keys", 200, NoTtl)
BulkAnswer(r) == pc[r] = "del" /\ AllDeleted(r) /\ Respond(r, 200, NoTtl)

AdminAnswer(r) ==
  /\ TtlAnswer(r) \/ InfoAnswer(r) \/ DeleteAnswer(r) \/ ListAnswer(r) \/ BulkAnswer(r)
  /\ UNCHANGED <<store, bulk, tally>>

(* A DEL that has lost its reply may have run.  Nothing is lost where no   *)
(* round trip is in flight any more.                                       *)
LoseRoundTrip(r) ==
  /\ GroupLost(r) /\ ~(pc[r] = "del" /\ AllDeleted(r))
  /\ unheard' = [unheard EXCEPT ![r] = @ \/ rt[r] \in {"del", "delete_key"}]
  /\ UNCHANGED <<others, bulk, deleted, removed>>

KeyGone ==
  /\ \/ \E k \in Groups : (GroupExpires(k) \/ GroupEvicted(k)) /\ UNCHANGED others
     \/ \E k \in others : others' = others \ {k} /\ UNCHANGED <<groups, control, reply>>
  /\ NoBulk /\ UNCHANGED tally

(* Another router, or the gateway itself, writes a key of its own. *)
OtherWritten ==
  /\ \E k \in (Others \cup Internal) \ others : others' = others \cup {k}
  /\ UNCHANGED <<groups, bulk, tally, control, reply>>

Handler(r) == GroupRequest(r) \/ KeyRequest(r) \/ BulkRequest(r) \/ AdminAnswer(r)

Next ==
  \/ \E r \in Reqs : Arrive(r) \/ Handler(r) \/ LoseRoundTrip(r)
  \/ KeyGone \/ OtherWritten

Spec == Init /\ [][Next]_vars

-------------------------------------------------------------------------------
(* Properties *)

(* Every variable stays in its type; a group that does not exist has no TTL.*)
TypeOK ==
  /\ group \in [Groups -> SUBSET Members] /\ ttl \in [Groups -> Nat \cup {NoTtl}]
  /\ \A k \in Groups : ~Present(k) => ttl[k] = NoTtl
  /\ others \subseteq Others \cup Internal
  /\ \A r \in Reqs : /\ Len(todo[r]) <= BulkMax /\ Range(todo[r]) \cap Internal = {}
                     /\ stay[r] \subseteq Existing /\ truncated[r] \in BOOLEAN
  /\ deleted \in [Reqs -> Nat] /\ removed \in [Reqs -> Nat] /\ unheard \in [Reqs -> BOOLEAN]
  /\ call \in [Reqs -> GroupCalls \cup AdminCalls \cup {NoCall}]
  /\ tries \in [Reqs -> 0..Retries] /\ result \in [Reqs -> Nat]
  /\ meta \in [Reqs -> Nat \cup {NoTtl, Missing}] /\ status \in [Reqs -> {0, 200, 400, 404, 500}]

(* r has added a member and has not set the TTL: it stands before EXPIRE,  *)
(* or has lost the round trip and will begin it again, or never.           *)
AddedOnly(r, k) ==
  /\ call[r].op = "add" /\ call[r].key = k
  /\ pc[r] = "expire" \/ (pc[r] = "add" /\ tries[r] > 0) \/ status[r] = 500

(* A group has no TTL only when some request asked for none, or an add     *)
(* stands between SADD and EXPIRE, or lost its round trip there: batch_add,*)
(* which is a transaction, and set_ttl never leave one.                    *)
NoImmortalGroup ==
  \A k \in Groups :
    Present(k) /\ ttl[k] = NoTtl =>
      \E r \in Reqs :
        \/ call[r].op \in {"add", "batch_add", "touch", "set_ttl"} /\ AskedTtl(r) = 0
        \/ AddedOnly(r, k)

(* A bulk deletion that answers "truncated": false has deleted every key   *)
(* of users that it matched and that was there all the time since it began *)
(* to scan, whatever was written, deleted or retried meanwhile.            *)
BulkDeletesAll ==
  \A r \in Reqs :
    call[r].op = "bulk_delete" /\ status[r] = 200 /\ ~truncated[r] => stay[r] \subseteq Internal

(* What a deletion tells its client is what its own DELs have removed: the *)
(* "deleted" of a bulk deletion never says more, a key reported deleted    *)
(* was deleted by this request, and only where the reply of a DEL was lost *)
(* does "deleted" say less, or delete_key say 404 of a key it has removed. *)
DeletionsHonest ==
  \A r \in Reqs :
    /\ call[r].op = "bulk_delete" /\ status[r] = 200 =>
         deleted[r] <= removed[r] /\ (~unheard[r] => deleted[r] = removed[r])
    /\ call[r].op = "delete_key" =>
         /\ status[r] = 200 => removed[r] > 0
         /\ status[r] = 404 => removed[r] = 0 \/ unheard[r]

(* No request deletes an internal key, and a dry run deletes nothing. *)
OnlyAskedDeleted ==
  [][\A r \in Reqs : pc'[r] # pc[r] \/ todo'[r] # todo[r] =>
       /\ others \cap Internal \subseteq others'
       /\ call[r].op = "dry_run" => Existing \subseteq Existing']_vars
===============================================================================
