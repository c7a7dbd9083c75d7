--------------------------- MODULE QueueRoutesProofs ---------------------------
(***************************************************************************)
(* Proofs about QueueRoutes for every set of requests, every queue bound,  *)
(* every batch size and every number of retries.                           *)
(***************************************************************************)
EXTENDS QueueRoutes, SequenceTheorems, FiniteSetTheorems, TLAPS

-------------------------------------------------------------------------------
(* Facts about the operators *)

(* What a call record holds, whatever the endpoint. *)
LEMMA CallType ==
  ASSUME NEW c \in Calls \cup {NoCall}
  PROVE  /\ c.dir \in Dirs
         /\ c.n \in Nat /\ c.n >= 1
         /\ c.op = "push" => c.n = 1
         /\ resolve_ttl(c.ttl) \in Nat
<1>1. c.dir \in Dirs
  BY DEF Calls, NoCall, Dirs
<1>2. c.n \in {1} \cup BatchSizes \cup Keeps /\ (c.op = "push" => c.n = 1)
  BY DEF Calls, NoCall
<1>3. c.n \in Nat /\ c.n >= 1
  <2>1. \A x \in {1} \cup BatchSizes \cup Keeps : x \in Nat /\ x >= 1
    BY QueueAssumption
  <2>2. QED
    BY <1>2, <2>1, Zenon
<1>4. c.ttl \in BodyTtls \cup {Unset}
  BY DEF Calls, NoCall
<1>5. resolve_ttl(c.ttl) \in Nat
  BY <1>4, DefaultTtlAssumption, QueueAssumption DEF resolve_ttl
<1>6. QED
  BY <1>1, <1>2, <1>3, <1>5

(* Where each handler starts. *)
LEMMA FirstCommandType ==
  ASSUME NEW c \in Calls
  PROVE  /\ FirstCommand(c.op) \in Commands
         /\ FirstCommand(c.op) = "script" => c.op \in Pushes
         /\ FirstCommand(c.op) # "expire"
         /\ FirstCommand(c.op) = "exists" => c.op = "touch"
<1>1. c.op \in Pushes \cup {"pop", "range", "len", "delete", "touch", "trim"}
  BY DEF Calls, Pushes
<1>2. QED
  BY <1>1 DEF FirstCommand, Commands, Pushes

(* The list after a push, element by element. *)
LEMMA PushedList ==
  ASSUME list \in Seq(Elements), next \in Nat,
         NEW dir \in Dirs, NEW n \in Nat, n >= 1
  PROVE  /\ Fresh(dir, n) \in Seq(Elements)
         /\ Len(Fresh(dir, n)) = n
         /\ Pushed(dir, n) \in Seq(Elements)
         /\ Len(Pushed(dir, n)) = Len(list) + n
         /\ Pushed(dir, n) # <<>>
<1>1. \A i \in 1..n : Fresh(dir, n)[i] \in Elements
  BY DEF Fresh, Elements, Dirs
<1>2. Fresh(dir, n) \in Seq(Elements) /\ Len(Fresh(dir, n)) = n
  BY <1>1 DEF Fresh
<1>3. QED
  BY <1>2 DEF Pushed

(* l is the part of list that follows its first d elements. *)
Window(l, d) ==
  /\ l \in Seq(Elements)
  /\ d \in Nat
  /\ Len(l) + d <= Len(list)
  /\ \A i \in 1..Len(l) : l[i] = list[i + d]

(* A pop takes one end and leaves the rest. *)
LEMMA RestList ==
  ASSUME list \in Seq(Elements), list # <<>>, NEW dir \in Dirs
  PROVE  /\ Popped(dir) \in Elements
         /\ \E d \in Nat, k \in 1..Len(list) :
              /\ Window(Rest(dir), d)
              /\ Popped(dir) = list[k]
              /\ \A i \in 1..Len(Rest(dir)) : i + d # k
<1>1. Len(list) \in Nat /\ Len(list) >= 1
  OBVIOUS
<1>2. CASE dir = "right"
  <2>1. \A i \in 1..Len(list) - 1 : list[i] \in Elements
    BY <1>1
  <2>2. /\ Rest(dir) \in Seq(Elements)
        /\ Len(Rest(dir)) = Len(list) - 1
        /\ \A i \in 1..Len(list) - 1 : Rest(dir)[i] = list[i]
    <3>. DEFINE n == Len(list) - 1
    <3>1. n \in Int /\ 1 \in Int /\ n >= 0
      BY <1>1
    <3>2. Rest(dir) = SubSeq(list, 1, n)
      BY <1>2 DEF Rest
    <3>. HIDE DEF n
    <3>3. \A i \in 1..n : list[i] \in Elements
      BY <2>1 DEF n
    <3>4. /\ SubSeq(list, 1, n) \in Seq(Elements)
          /\ Len(SubSeq(list, 1, n)) = IF 1 <= n THEN n - 1 + 1 ELSE 0
          /\ \A i \in 1 .. n - 1 + 1 : SubSeq(list, 1, n)[i] = list[1 + i - 1]
      BY <3>1, <3>3, SubSeqProperties
    <3>5. /\ Rest(dir) \in Seq(Elements)
          /\ Len(Rest(dir)) = n
          /\ \A i \in 1..n : Rest(dir)[i] = list[i]
      BY <3>1, <3>2, <3>4
    <3>6. QED
      BY <3>5 DEF n
  <2>3. Window(Rest(dir), 0) /\ Popped(dir) = list[Len(list)] /\ Popped(dir) \in Elements
    BY <1>1, <1>2, <2>2 DEF Window, Popped
  <2>4. QED
    BY <1>1, <2>2, <2>3
<1>3. CASE dir # "right"
  <2>1. /\ Rest(dir) \in Seq(Elements)
        /\ Len(Rest(dir)) = Len(list) - 1
        /\ \A i \in 1..Len(list) - 1 : Rest(dir)[i] = list[i + 1]
    BY <1>1, <1>3 DEF Rest
  <2>2. Window(Rest(dir), 1) /\ Popped(dir) = list[1] /\ Popped(dir) \in Elements
    BY <1>1, <1>3, <2>1 DEF Window, Popped
  <2>3. QED
    BY <1>1, <2>1, <2>2
<1>4. QED
  BY <1>2, <1>3

(* LTRIM leaves the last keep elements. *)
LEMMA TrimmedTail ==
  ASSUME list \in Seq(Elements), NEW keep \in Nat, keep >= 1
  PROVE  /\ Len(Trimmed(keep)) <= keep
         /\ \E d \in Nat : Window(Trimmed(keep), d) /\ Len(Trimmed(keep)) + d = Len(list)
<1>1. CASE keep >= Len(list)
  <2>1. Window(list, 0) /\ Trimmed(keep) = list
    BY <1>1 DEF Window, Trimmed
  <2>2. QED
    BY <1>1, <2>1
<1>2. CASE ~(keep >= Len(list))
  <2>. DEFINE m == Len(list) - keep + 1
  <2>1. m \in Int /\ Len(list) \in Int /\ \A i \in m..Len(list) : list[i] \in Elements
    BY <1>2
  <2>2. Trimmed(keep) = SubSeq(list, m, Len(list))
    BY <1>2 DEF Trimmed
  <2>3. /\ SubSeq(list, m, Len(list)) \in Seq(Elements)
        /\ Len(SubSeq(list, m, Len(list))) = IF m <= Len(list) THEN Len(list)-m+1 ELSE 0
        /\ \A i \in 1 .. Len(list)-m+1 : SubSeq(list, m, Len(list))[i] = list[m+i-1]
    <3>. HIDE DEF m
    <3>. QED  BY <2>1, SubSeqProperties
  <2>4. Len(Trimmed(keep)) = keep /\ Len(list) - keep \in Nat
    BY <1>2, <2>2, <2>3
  <2>5. Window(Trimmed(keep), Len(list) - keep)
    BY <1>2, <2>2, <2>3 DEF Window
  <2>6. QED
    BY <1>2, <2>4, <2>5
<1>3. QED
  BY <1>1, <1>2

-------------------------------------------------------------------------------
(* Type correctness and the bound on the queue *)

(* TypeOK in two parts: what Redis holds, and where the requests stand. *)
StoreType ==
  /\ list \in Seq(Elements)
  /\ ttl \in Nat \cup {NoTtl}
  /\ next \in Nat
  /\ put \in [Reqs -> SUBSET Nat]
  /\ taken \in [Reqs -> SUBSET Nat]

ReqType ==
  /\ call \in [Reqs -> Calls \cup {NoCall}]
  /\ pc \in [Reqs -> InFlight \cup {"idle", "done"}]
  /\ rt \in [Reqs -> Commands \cup {"idle"}]
  /\ tries \in [Reqs -> 0..Retries]
  /\ result \in [Reqs -> Int]
  /\ meta \in [Reqs -> Nat \cup {NoTtl, Missing}]
  /\ status \in [Reqs -> {0, 200, 400, 403, 404, 500}]

LEMMA TypeParts == TypeOK <=> StoreType /\ ReqType
BY DEF TypeOK, StoreType, ReqType

(* The inductive invariant of this part. *)
BoundInv == StoreType /\ ReqType /\ QueueBounded

(* A round trip that goes on, a new one, a reply and a response keep the   *)
(* requests typed.                                                         *)
LEMMA StepType ==
  ASSUME ReqType, NEW r \in Reqs, NEW p \in InFlight, Step(r, p), UNCHANGED reply
  PROVE  ReqType'
BY DEF ReqType, Step, reply

LEMMA RoundTripType ==
  ASSUME ReqType, NEW r \in Reqs, NEW c \in Commands, RoundTrip(r, c),
         call' \in [Reqs -> Calls \cup {NoCall}], UNCHANGED reply
  PROVE  ReqType'
<1>1. 0 \in 0..Retries
  BY RetriesAssumption
<1>2. QED
  BY <1>1 DEF ReqType, RoundTrip, reply, InFlight

LEMMA RepliedType ==
  ASSUME ReqType, NEW r \in Reqs, NEW p \in InFlight, NEW v \in Int,
         Step(r, p), Replied(r, v)
  PROVE  ReqType'
BY DEF ReqType, Step, Replied

LEMMA RespondType ==
  ASSUME ReqType, NEW r \in Reqs, NEW code \in {200, 400, 403, 404, 500},
         NEW t \in Nat \cup {NoTtl, Missing}, Respond(r, code, t)
  PROVE  ReqType'
BY DEF ReqType, Respond

(* A list that is set is a list with a TTL. *)
LEMMA SetListType ==
  ASSUME NEW l \in Seq(Elements), NEW t \in Nat \cup {NoTtl}, SetList(l, t)
  PROVE  list' \in Seq(Elements) /\ ttl' \in Nat \cup {NoTtl} /\ list' = l
BY DEF SetList, NoTtl

(* Init establishes it: the queue starts empty. *)
LEMMA InitBound == Init => BoundInv
<1>. SUFFICES ASSUME Init PROVE BoundInv
  OBVIOUS
<1>1. MaxLen \in Nat /\ 0 \in 0..Retries
  BY QueueAssumption, RetriesAssumption
<1>2. StoreType /\ QueueBounded
  BY <1>1 DEF Init, InitRequests, StoreType, QueueBounded
<1>3. ReqType
  BY <1>1 DEF Init, InitRequests, ReqType
<1>4. QED
  BY <1>2, <1>3 DEF BoundInv

(* The check-and-push scripts are the only step that makes the list longer. *)
LEMMA ScriptBound ==
  ASSUME BoundInv, NEW r \in Reqs, Script(r)
  PROVE  BoundInv'
<1>. USE DEF BoundInv
<1>1. call[r] \in Calls \cup {NoCall}
  BY DEF ReqType
<1>2. /\ call[r].dir \in Dirs /\ call[r].n \in Nat /\ call[r].n >= 1
      /\ call[r].op = "push" => call[r].n = 1
  BY <1>1, CallType
<1>3. Step(r, "pushed") /\ "pushed" \in InFlight
  BY DEF Script, InFlight
<1>4. CASE UNCHANGED store /\ Replied(r, -1)
  <2>1. ReqType'
    BY <1>3, <1>4, RepliedType
  <2>2. QED
    BY <1>4, <2>1 DEF StoreType, QueueBounded, store
<1>5. CASE ~QueueFull(call[r]) /\ Accept(r) /\ Replied(r, Len(list) + call[r].n)
  <2>. DEFINE l == Pushed(call[r].dir, call[r].n)
  <2>1. l \in Seq(Elements) /\ Len(l) = Len(list) + call[r].n
    BY <1>2, PushedList DEF StoreType
  <2>2. SetList(l, ttl)
    BY <1>5 DEF Accept
  <2>. HIDE DEF l
  <2>3. list' \in Seq(Elements) /\ ttl' \in Nat \cup {NoTtl} /\ list' = l
    BY <2>1, <2>2, SetListType DEF StoreType
  <2>4. Len(list) + call[r].n <= MaxLen
    BY <1>2, <1>5, QueueAssumption DEF QueueFull, SingleFull, BatchFull, StoreType
  <2>5. QueueBounded'
    BY <2>1, <2>3, <2>4 DEF QueueBounded
  <2>6. next' \in Nat /\ put' \in [Reqs -> SUBSET Nat] /\ taken' \in [Reqs -> SUBSET Nat]
    BY <1>2, <1>5 DEF Accept, StoreType
  <2>7. ReqType'
    <3>1. Len(list) + call[r].n \in Int
      BY <1>2 DEF StoreType
    <3>2. QED
      BY <1>3, <1>5, <3>1, RepliedType
  <2>8. QED
    BY <2>3, <2>5, <2>6, <2>7 DEF StoreType
<1>6. QED
  BY <1>4, <1>5 DEF Script

(* A step that sets the list to a part of itself. *)
LEMMA WindowBound ==
  ASSUME StoreType, QueueBounded, NEW l, NEW d, Window(l, d), NEW t \in Nat \cup {NoTtl},
         SetList(l, t), next' = next, put' = put, taken' \in [Reqs -> SUBSET Nat]
  PROVE  StoreType' /\ QueueBounded'
<1>1. l \in Seq(Elements) /\ d \in Nat /\ Len(l) + d <= Len(list)
  BY DEF Window
<1>2. list' \in Seq(Elements) /\ ttl' \in Nat \cup {NoTtl} /\ list' = l
  BY <1>1, SetListType
<1>3. Len(l) <= MaxLen
  BY <1>1, QueueAssumption DEF QueueBounded, StoreType
<1>4. QED
  BY <1>2, <1>3 DEF StoreType, QueueBounded

(* The list itself and the empty list are parts of the list. *)
LEMMA TrivialWindows ==
  ASSUME list \in Seq(Elements)
  PROVE  Window(list, 0) /\ Window(<<>>, 0)
BY DEF Window
(* Every step preserves it. *)
LEMMA NextBound ==
  ASSUME BoundInv, [Next]_vars
  PROVE  BoundInv'
<1>. USE DEF BoundInv
<1>1. ASSUME NEW r \in Reqs, Arrive(r) PROVE BoundInv'
  <2>1. PICK c \in Calls : /\ call' = [call EXCEPT ![r] = c]
                           /\ RoundTrip(r, FirstCommand(c.op))
    BY <1>1 DEF Arrive
  <2>2. call' \in [Reqs -> Calls \cup {NoCall}] /\ UNCHANGED reply
    BY <1>1, <2>1 DEF Arrive, ReqType, reply
  <2>3. ReqType'
    BY <2>1, <2>2, FirstCommandType, RoundTripType
  <2>4. QED
    BY <1>1, <2>3 DEF Arrive, store, StoreType, QueueBounded
<1>2. ASSUME NEW r \in Reqs, Refuse(r) PROVE BoundInv'
  <2>1. Respond(r, 403, NoTtl)
    BY <1>2 DEF Refuse
  <2>2. ReqType'
    BY <2>1 DEF Respond, ReqType
  <2>3. QED
    BY <1>2, <2>2 DEF Refuse, store, StoreType, QueueBounded
<1>3. ASSUME NEW r \in Reqs, Script(r) PROVE BoundInv'
  BY <1>3, ScriptBound
<1>4. ASSUME NEW r \in Reqs, PushReply(r) PROVE BoundInv'
  <2>1. ReqType'
    <3>1. CASE Respond(r, 400, NoTtl)
      BY <3>1 DEF Respond, ReqType
    <3>2. CASE RoundTrip(r, "expire") /\ UNCHANGED <<reply, call>>
      BY <3>2, RoundTripType DEF ReqType, Commands
    <3>3. QED
      BY <1>4, <3>1, <3>2 DEF PushReply
  <2>2. QED
    BY <1>4, <2>1 DEF PushReply, store, StoreType, QueueBounded
<1>5. ASSUME NEW r \in Reqs, Expire(r) PROVE BoundInv'
  <2>1. ReqType'
    BY <1>5, StepType DEF Expire, InFlight, Commands
  <2>2. ExpireOrPersist(resolve_ttl(call[r].ttl)) \in Nat \cup {NoTtl}
    BY CallType DEF ExpireOrPersist, ReqType
  <2>3. StoreType' /\ QueueBounded'
    BY <1>5, <2>2, TrivialWindows, WindowBound DEF Expire, StoreType
  <2>4. QED
    BY <2>1, <2>3
<1>6. ASSUME NEW r \in Reqs, Ttl(r) PROVE BoundInv'
  <2>1. TtlReply(list # <<>>, ttl) \in Nat \cup {NoTtl, Missing}
    BY DEF TtlReply, StoreType
  <2>2. ReqType'
    BY <1>6, <2>1 DEF Ttl, TtlReplied, Step, ReqType, InFlight
  <2>3. QED
    BY <1>6, <2>2 DEF Ttl, TtlReplied, store, StoreType, QueueBounded
<1>7. ASSUME NEW r \in Reqs, Exists(r) PROVE BoundInv'
  <2>1. ReqType'
    BY <1>7, RepliedType DEF Exists, InFlight, Commands
  <2>2. QED
    BY <1>7, <2>1 DEF Exists, store, StoreType, QueueBounded
<1>8. ASSUME NEW r \in Reqs, Pop(r) PROVE BoundInv'
  <2>0. "answer" \in InFlight
    BY DEF InFlight
  <2>1. CASE UNCHANGED store /\ Replied(r, 0)
    <3>1. ReqType'
      BY <1>8, <2>0, <2>1, RepliedType DEF Pop
    <3>2. QED
      BY <2>1, <3>1 DEF store, StoreType, QueueBounded
  <2>2. CASE list # <<>> /\ ~(UNCHANGED store /\ Replied(r, 0))
    <3>. DEFINE v == Popped(call[r].dir)
    <3>1. call[r].dir \in Dirs
      BY CallType DEF ReqType
    <3>2. v \in Elements /\ \E d \in Nat : Window(Rest(call[r].dir), d)
      BY <2>2, <3>1, RestList DEF StoreType
    <3>3. v.id \in Nat
      BY <3>2 DEF Elements
    <3>4. /\ Replied(r, v.id) /\ SetList(Rest(call[r].dir), ttl) /\ UNCHANGED <<next, put>>
          /\ taken' = [taken EXCEPT ![r] = @ \cup {v.id}] /\ Step(r, "answer")
      BY <1>8, <2>2 DEF Pop
    <3>. HIDE DEF v
    <3>5. ReqType'
      BY <2>0, <3>3, <3>4, RepliedType
    <3>6. taken' \in [Reqs -> SUBSET Nat]
      BY <3>3, <3>4 DEF StoreType
    <3>7. StoreType' /\ QueueBounded'
      BY <3>2, <3>4, <3>6, WindowBound DEF StoreType
    <3>8. QED
      BY <3>5, <3>7
  <2>3. QED
    BY <1>8, <2>1, <2>2 DEF Pop
<1>9. ASSUME NEW r \in Reqs, Read(r) PROVE BoundInv'
  <2>1. Len(list) \in Int /\ "answer" \in InFlight
    BY DEF StoreType, InFlight
  <2>2. ReqType'
    BY <1>9, <2>1, RepliedType DEF Read
  <2>3. QED
    BY <1>9, <2>2 DEF Read, store, StoreType, QueueBounded
<1>10. ASSUME NEW r \in Reqs, Del(r) PROVE BoundInv'
  <2>1. ReqType'
    BY <1>10, RepliedType DEF Del, InFlight
  <2>2. StoreType' /\ QueueBounded'
    BY <1>10, TrivialWindows, WindowBound DEF Del, StoreType
  <2>3. QED
    BY <2>1, <2>2
<1>11. ASSUME NEW r \in Reqs, LTrim(r) PROVE BoundInv'
  <2>1. ReqType'
    BY <1>11, StepType DEF LTrim, InFlight
  <2>2. call[r].n \in Nat /\ call[r].n >= 1
    BY CallType DEF ReqType
  <2>3. \E d \in Nat : Window(Trimmed(call[r].n), d)
    BY <2>2, TrimmedTail DEF StoreType
  <2>4. StoreType' /\ QueueBounded'
    BY <1>11, <2>3, WindowBound DEF LTrim, StoreType
  <2>5. QED
    BY <2>1, <2>4
<1>12. ASSUME NEW r \in Reqs, TrimReply(r) PROVE BoundInv'
  <2>1. ReqType'
    BY <1>12, RoundTripType DEF TrimReply, ReqType, Commands
  <2>2. QED
    BY <1>12, <2>1 DEF TrimReply, store, StoreType, QueueBounded
<1>13. ASSUME NEW r \in Reqs, LLen(r) PROVE BoundInv'
  <2>1. Len(list) \in Int /\ "answer" \in InFlight
    BY DEF StoreType, InFlight
  <2>2. ReqType'
    BY <1>13, <2>1, RepliedType DEF LLen
  <2>3. QED
    BY <1>13, <2>2 DEF LLen, store, StoreType, QueueBounded
<1>14. ASSUME NEW r \in Reqs, Answer(r) PROVE BoundInv'
  <2>1. meta[r] \in Nat \cup {NoTtl, Missing} /\ MetaTtl(meta[r]) \in Nat \cup {NoTtl, Missing}
    BY DEF ReqType, MetaTtl
  <2>2. PICK code \in {200, 404}, t \in Nat \cup {NoTtl, Missing} : Respond(r, code, t)
    BY <1>14, <2>1 DEF Answer, TouchStatus, FoundStatus
  <2>3. ReqType'
    BY <2>2, RespondType
  <2>4. QED
    BY <1>14, <2>3 DEF Answer, store, StoreType, QueueBounded
<1>15. ASSUME NEW r \in Reqs, LoseRoundTrip(r) PROVE BoundInv'
  <2>1. ReqType'
    <3>1. CASE /\ tries[r] < Retries /\ pc' = [pc EXCEPT ![r] = rt[r]]
               /\ tries' = [tries EXCEPT ![r] = @ + 1] /\ UNCHANGED <<rt, call, reply>>
      <4>1. tries[r] + 1 \in 0..Retries
        BY <3>1, RetriesAssumption DEF ReqType
      <4>2. QED
        BY <3>1, <4>1 DEF ReqType, InFlight, reply
    <3>2. CASE Respond(r, 500, NoTtl)
      BY <3>2 DEF Respond, ReqType
    <3>3. QED
      BY <1>15, <3>1, <3>2 DEF LoseRoundTrip, Lost
  <2>2. QED
    BY <1>15, <2>1 DEF LoseRoundTrip, Lost, store, StoreType, QueueBounded
<1>16. ASSUME KeyExpires \/ KeyEvicted PROVE BoundInv'
  <2>1. SetList(<<>>, NoTtl) /\ UNCHANGED <<next, put, taken, control, reply>>
    BY <1>16 DEF KeyExpires, KeyEvicted
  <2>2. StoreType' /\ QueueBounded'
    BY <2>1, TrivialWindows, WindowBound DEF StoreType
  <2>3. ReqType'
    BY <2>1 DEF ReqType, control, reply
  <2>4. QED
    BY <2>2, <2>3
<1>17. ASSUME UNCHANGED vars PROVE BoundInv'
  BY <1>17 DEF vars, store, control, reply, StoreType, ReqType, QueueBounded
<1>18. QED
  BY <1>1, <1>2, <1>3, <1>4, <1>5, <1>6, <1>7, <1>8, <1>9, <1>10, <1>11, <1>12,
     <1>13, <1>14, <1>15, <1>16, <1>17 DEF Next, Handler

(* Type correctness of the queue handlers. *)
THEOREM TypeCorrect == Spec => []TypeOK
<1>1. Spec => []BoundInv
  BY InitBound, NextBound, PTL DEF Spec
<1>2. BoundInv => TypeOK
  BY TypeParts DEF BoundInv
<1>3. QED
  BY <1>1, <1>2, PTL

(* The list never passes max_list_length, however many workers push at     *)
(* once, whatever their batch sizes, and however often redis-py repeats a  *)
(* script whose reply was lost.                                            *)
THEOREM Bounded == Spec => []QueueBounded
<1>1. Spec => []BoundInv
  BY InitBound, NextBound, PTL DEF Spec
<1>2. BoundInv => QueueBounded
  BY DEF BoundInv
<1>3. QED
  BY <1>1, <1>2, PTL
-------------------------------------------------------------------------------
(* Order of the values, and delivery to one consumer *)

(* Values are named by their rank, so a name not yet given is in no list   *)
(* and with no consumer, and a list holds no name twice.                   *)
Ranked ==
  /\ \A i \in 1..Len(list) : list[i].id <= next
  /\ \A r \in Reqs : \A v \in taken[r] : v <= next

Distinct == \A i, j \in 1..Len(list) : i < j => list[i].id # list[j].id

OrderInv == Ranked /\ Distinct /\ DequeOrder /\ NoDoubleDelivery

(* The elements of the list after a push. *)
LEMMA PushedElements ==
  ASSUME StoreType, NEW dir \in Dirs, NEW n \in Nat, n >= 1
  PROVE  /\ dir = "right" =>
              /\ \A i \in 1..Len(list) : Pushed(dir, n)[i] = list[i]
              /\ \A i \in Len(list)+1..Len(list)+n :
                   /\ Pushed(dir, n)[i].dir = "right"
                   /\ Pushed(dir, n)[i].id = next + (i - Len(list))
         /\ dir = "left" =>
              /\ \A i \in 1..n : /\ Pushed(dir, n)[i].dir = "left"
                                 /\ Pushed(dir, n)[i].id = next + n + 1 - i
              /\ \A i \in n+1..Len(list)+n : Pushed(dir, n)[i] = list[i - n]
<1>. DEFINE f == Fresh(dir, n)
<1>0. list \in Seq(Elements) /\ next \in Nat
  BY DEF StoreType
<1>1. /\ f \in Seq(Elements) /\ Len(f) = n
      /\ list \in Seq(Elements) /\ next \in Nat
  BY <1>0, PushedList
<1>2. \A i \in 1..n : f[i].dir = dir
                      /\ f[i].id = IF dir = "right" THEN next + i ELSE next + n + 1 - i
  BY DEF Fresh
<1>. HIDE DEF f
<1>3. CASE dir = "right"
  <2>1. Pushed(dir, n) = list \o f
    BY <1>3 DEF Pushed, f
  <2>2. \A i \in 1..Len(list) : (list \o f)[i] = list[i]
    BY <1>1
  <2>3. \A i \in Len(list)+1..Len(list)+n : (list \o f)[i] = f[i - Len(list)]
    BY <1>1
  <2>4. \A i \in Len(list)+1..Len(list)+n : i - Len(list) \in 1..n
    BY <1>1
  <2>5. QED
    BY <1>2, <1>3, <2>1, <2>2, <2>3, <2>4
<1>4. CASE dir = "left"
  <2>1. Pushed(dir, n) = f \o list
    BY <1>4 DEF Pushed, f
  <2>2. \A i \in 1..n : (f \o list)[i] = f[i]
    BY <1>1
  <2>3. \A i \in n+1..Len(list)+n : (f \o list)[i] = list[i - n]
    BY <1>1
  <2>4. QED
    BY <1>2, <1>4, <2>1, <2>2, <2>3
<1>5. QED
  BY <1>3, <1>4 DEF Dirs

(* Init establishes it: nothing is in, nothing is out. *)
LEMMA InitOrder == Init => OrderInv
BY DEF Init, InitRequests, OrderInv, Ranked, Distinct, DequeOrder, NoDoubleDelivery, Ids

(* A push names its values above all others and puts them in order. *)
LEMMA AcceptOrder ==
  ASSUME StoreType, ReqType, OrderInv, NEW r \in Reqs, Accept(r)
  PROVE  OrderInv'
<1>. DEFINE n == call[r].n
            dir == call[r].dir
            l == Pushed(dir, n)
<1>1. dir \in Dirs /\ n \in Nat /\ n >= 1
  BY CallType DEF ReqType
<1>. HIDE DEF n, dir
<1>0. list \in Seq(Elements) /\ next \in Nat
  BY DEF StoreType
<1>2. l \in Seq(Elements) /\ Len(l) = Len(list) + n /\ l # <<>>
  BY <1>0, <1>1, PushedList
<1>3. list' = l /\ next' = next + n /\ taken' = taken
  BY DEF Accept, SetList, n, dir
<1>4. /\ dir = "right" =>
           /\ \A i \in 1..Len(list) : l[i] = list[i]
           /\ \A i \in Len(list)+1..Len(list)+n :
                l[i].dir = "right" /\ l[i].id = next + (i - Len(list))
      /\ dir = "left" =>
           /\ \A i \in 1..n : l[i].dir = "left" /\ l[i].id = next + n + 1 - i
           /\ \A i \in n+1..Len(list)+n : l[i] = list[i - n]
  BY <1>1, PushedElements
<1>. HIDE DEF l
<1>5. DOMAIN list = 1..Len(list) /\ DOMAIN l = 1..Len(list)+n /\ Len(list) \in Nat
  BY <1>0, <1>2
<1>6. \A i \in 1..Len(list) : list[i] \in Elements
  BY <1>0
<1>. DEFINE m == Len(list)
            Old(i, k) == k \in 1..m /\ l[i] = list[k] /\ k = IF dir = "right" THEN i ELSE i - n
            New(i) == IF dir = "right"
                        THEN i > m /\ l[i].dir = "right" /\ l[i].id = next + (i - m)
                        ELSE i <= n /\ l[i].dir = "left" /\ l[i].id = next + n + 1 - i
<1>m. m \in Nat
  BY <1>5
<1>7. \A i \in 1..m+n : New(i) \/ \E k \in 1..m : Old(i, k)
  <2>. HIDE DEF m
  <2>1. CASE dir = "right"
    <3>1. \A i \in 1..m+n : i \in 1..m \/ i \in m+1..m+n
      BY <1>m, <1>1
    <3>2. \A i \in 1..m : Old(i, i)
      BY <1>4, <2>1 DEF m
    <3>3. \A i \in m+1..m+n : New(i)
      BY <1>m, <1>1, <1>4, <2>1 DEF m
    <3>4. QED
      BY <3>1, <3>2, <3>3
  <2>2. CASE dir = "left"
    <3>1. \A i \in 1..m+n : i \in 1..n \/ (i \in n+1..m+n /\ i - n \in 1..m)
      BY <1>m, <1>1
    <3>2. \A i \in n+1..m+n : i - n \in 1..m => Old(i, i - n)
      BY <1>m, <1>1, <1>4, <2>2 DEF m
    <3>3. \A i \in 1..n : New(i)
      BY <1>m, <1>1, <1>4, <2>2 DEF m
    <3>4. QED
      BY <3>1, <3>2, <3>3
  <2>3. QED
    BY <1>1, <2>1, <2>2 DEF Dirs
<1>8. \A i, j \in 1..m+n : i < j =>
        /\ l[i].id # l[j].id
        /\ \/ l[i].dir = "left" /\ l[j].dir = "right"
           \/ l[i].dir = "right" /\ l[j].dir = "right" /\ l[i].id < l[j].id
           \/ l[i].dir = "left" /\ l[j].dir = "left" /\ l[i].id > l[j].id
  <2>. SUFFICES ASSUME NEW i \in 1..m+n, NEW j \in 1..m+n, i < j
                PROVE  /\ l[i].id # l[j].id
                       /\ \/ l[i].dir = "left" /\ l[j].dir = "right"
                          \/ l[i].dir = "right" /\ l[j].dir = "right" /\ l[i].id < l[j].id
                          \/ l[i].dir = "left" /\ l[j].dir = "left" /\ l[i].id > l[j].id
    OBVIOUS
  <2>1. \A k \in 1..m : list[k].id \in Nat /\ list[k].id <= next /\ list[k].dir \in {"left", "right"}
    <3>1. \A k \in 1..m : list[k].id \in Nat /\ list[k].dir \in {"left", "right"}
      BY <1>6 DEF Elements, Dirs
    <3>2. QED
      BY <3>1 DEF OrderInv, Ranked
  <2>. HIDE DEF m
  <2>2. CASE New(i) /\ New(j)
    BY <1>0, <1>1, <1>m, <2>2 DEF Dirs
  <2>3. CASE New(i) /\ ~New(j)
    <3>1. PICK k \in 1..m : Old(j, k)
      BY <1>7, <2>3
    <3>2. QED
      BY <1>0, <1>1, <1>m, <2>1, <2>3, <3>1 DEF Dirs
  <2>4. CASE ~New(i) /\ New(j)
    <3>1. PICK k \in 1..m : Old(i, k)
      BY <1>7, <2>4
    <3>2. QED
      BY <1>0, <1>1, <1>m, <2>1, <2>4, <3>1 DEF Dirs
  <2>5. CASE ~New(i) /\ ~New(j)
    <3>1. PICK k \in 1..m, h \in 1..m : Old(i, k) /\ Old(j, h)
      BY <1>7, <2>5
    <3>2. k < h
      BY <1>1, <1>m, <3>1
    <3>3. QED
      BY <1>5, <3>1, <3>2 DEF OrderInv, Distinct, DequeOrder, m
  <2>6. QED
    BY <2>2, <2>3, <2>4, <2>5
<1>9. \A i \in 1..m+n : l[i].id <= next + n
  <2>. SUFFICES ASSUME NEW i \in 1..m+n PROVE l[i].id <= next + n
    OBVIOUS
  <2>1. CASE New(i)
    <3>. HIDE DEF m
    <3>. QED  BY <1>0, <1>1, <1>m, <2>1
  <2>2. CASE \E k \in 1..m : Old(i, k)
    <3>1. PICK k \in 1..m : l[i] = list[k]
      BY <2>2
    <3>2. list[k].id \in Nat
      BY <1>6 DEF Elements
    <3>3. list[k].id <= next
      BY DEF OrderInv, Ranked
    <3>4. QED
      BY <1>0, <1>1, <3>1, <3>2, <3>3
  <2>3. QED
    BY <1>7, <2>1, <2>2
<1>10. \A i \in 1..m+n, s \in Reqs : l[i].id \notin taken[s]
  <2>. SUFFICES ASSUME NEW i \in 1..m+n, NEW s \in Reqs PROVE l[i].id \notin taken[s]
    OBVIOUS
  <2>2. CASE New(i)
    <3>1. \A v \in taken[s] : v \in Nat /\ v <= next
      BY DEF OrderInv, Ranked, StoreType
    <3>2. l[i].id > next
      <4>. HIDE DEF m
      <4>. QED  BY <1>0, <1>1, <1>m, <2>2
    <3>3. QED
      BY <1>0, <3>1, <3>2
  <2>3. CASE \E k \in 1..m : Old(i, k)
    BY <1>5, <2>3 DEF OrderInv, NoDoubleDelivery, Ids
  <2>4. QED
    BY <1>7, <2>2, <2>3
<1>11. Ranked'
  <2>1. \A s \in Reqs : \A v \in taken[s] : v \in Nat /\ v <= next
    BY DEF OrderInv, Ranked, StoreType
  <2>2. QED
    BY <1>0, <1>1, <1>2, <1>3, <1>9, <2>1 DEF Ranked
<1>12. Distinct' /\ DequeOrder'
  BY <1>2, <1>3, <1>5, <1>8 DEF Distinct, DequeOrder
<1>13. NoDoubleDelivery'
  BY <1>3, <1>5, <1>10 DEF OrderInv, NoDoubleDelivery, Ids
<1>14. QED
  BY <1>11, <1>12, <1>13 DEF OrderInv

(* What is left after a pop, a trim, a deletion, an expiry or an eviction  *)
(* keeps the order; what a pop has taken is not left.                      *)
LEMMA WindowOrder ==
  ASSUME StoreType, OrderInv, NEW l, NEW d, Window(l, d), list' = l, next' = next,
         NEW r \in Reqs, NEW S,
         taken' = [taken EXCEPT ![r] = @ \cup S],
         S \subseteq Ids(list), S \cap Ids(l) = {}
  PROVE  OrderInv'
<1>0. /\ l \in Seq(Elements) /\ d \in Nat /\ Len(l) + d <= Len(list)
      /\ list \in Seq(Elements) /\ next \in Nat
      /\ \A i \in 1..Len(l) : l[i] = list[i + d]
  BY DEF Window, StoreType
<1>1. /\ Len(list) \in Nat /\ Len(l) \in Nat /\ d \in Nat
      /\ \A i \in 1..Len(l) : l[i] = list[i + d] /\ i + d \in 1..Len(list)
      /\ DOMAIN l = 1..Len(l) /\ DOMAIN list = 1..Len(list)
  BY <1>0
<1>2. \A i, j \in 1..Len(list) : i # j => list[i].id # list[j].id
  BY <1>1 DEF OrderInv, Distinct
<1>3. Distinct'
  BY <1>1, <1>2 DEF Distinct
<1>4. DequeOrder'
  <2>1. \A i, j \in 1..Len(l) : i < j => i + d < j + d
    BY <1>1
  <2>2. \A i, j \in 1..Len(list) : i < j =>
          \/ list[i].dir = "left" /\ list[j].dir = "right"
          \/ list[i].dir = "right" /\ list[j].dir = "right" /\ list[i].id < list[j].id
          \/ list[i].dir = "left" /\ list[j].dir = "left" /\ list[i].id > list[j].id
    BY <1>1 DEF OrderInv, DequeOrder
  <2>3. \A i, j \in 1..Len(l) : i < j =>
          \/ l[i].dir = "left" /\ l[j].dir = "right"
          \/ l[i].dir = "right" /\ l[j].dir = "right" /\ l[i].id < l[j].id
          \/ l[i].dir = "left" /\ l[j].dir = "left" /\ l[i].id > l[j].id
    BY <1>1, <2>1, <2>2
  <2>4. QED
    BY <1>1, <2>3 DEF DequeOrder
<1>5. \A v \in S : (\A i \in 1..Len(l) : l[i].id # v) /\ \E k \in 1..Len(list) : v = list[k].id
  BY <1>1, Zenon DEF Ids
<1>6. \A s \in Reqs : taken'[s] = IF s = r THEN taken[s] \cup S ELSE taken[s]
  BY DEF StoreType
<1>7. Ranked'
  BY <1>1, <1>5, <1>6 DEF OrderInv, Ranked
<1>8. \A s \in Reqs, i \in 1..Len(list) : list[i].id \notin taken[s]
  <2>1. \A i \in 1..Len(list) : list[i].id \in Ids(list)
    BY <1>1, Zenon DEF Ids
  <2>2. QED
    BY <2>1, Zenon DEF OrderInv, NoDoubleDelivery
<1>9. \A s \in Reqs, i \in 1..Len(l) : l[i].id \notin taken'[s]
  BY <1>1, <1>5, <1>6, <1>8
<1>10. \A s, t \in Reqs : s # t => taken'[s] \cap taken'[t] = {}
  <2>1. \A s \in Reqs, v \in S : v \notin taken[s]
    BY <1>5, <1>8
  <2>2. QED
    BY <1>6, <2>1 DEF OrderInv, NoDoubleDelivery
<1>11. NoDoubleDelivery'
  BY <1>1, <1>9, <1>10 DEF NoDoubleDelivery, Ids
<1>12. QED
  BY <1>3, <1>4, <1>7, <1>11 DEF OrderInv
(* A step that leaves list, next and taken alone keeps the order. *)
LEMMA QuietOrder ==
  ASSUME OrderInv, list' = list, next' = next, taken' = taken
  PROVE  OrderInv'
BY DEF OrderInv, Ranked, Distinct, DequeOrder, NoDoubleDelivery, Ids

(* Every step preserves it. *)
LEMMA NextOrder ==
  ASSUME BoundInv, OrderInv, [Next]_vars
  PROVE  OrderInv'
<1>0. StoreType /\ ReqType /\ list \in Seq(Elements) /\ taken \in [Reqs -> SUBSET Nat]
  BY DEF BoundInv, StoreType
<1>1. ASSUME NEW r \in Reqs, Script(r) PROVE OrderInv'
  BY <1>0, <1>1, AcceptOrder, QuietOrder DEF Script, store
<1>2. ASSUME NEW r \in Reqs, Pop(r) PROVE OrderInv'
  <2>1. CASE UNCHANGED store
    BY <2>1, QuietOrder DEF store
  <2>2. CASE list # <<>> /\ ~(UNCHANGED store)
    <3>. DEFINE l == Rest(call[r].dir)
                v == Popped(call[r].dir)
    <3>1. call[r].dir \in Dirs
      BY <1>0, CallType DEF ReqType
    <3>2. PICK d \in Nat, k \in 1..Len(list) :
            /\ Window(l, d)
            /\ v = list[k]
            /\ \A i \in 1..Len(l) : i + d # k
      BY <1>0, <2>2, <3>1, RestList
    <3>3. list' = l /\ next' = next /\ taken' = [taken EXCEPT ![r] = @ \cup {v.id}]
      BY <1>2, <2>2 DEF Pop, SetList
    <3>. HIDE DEF l, v
    <3>. DEFINE S == {v.id}
    <3>4. Len(list) \in Nat /\ Len(l) \in Nat /\ d \in Nat /\ Len(l) + d <= Len(list)
          /\ DOMAIN l = 1..Len(l) /\ DOMAIN list = 1..Len(list)
          /\ \A i \in 1..Len(l) : l[i] = list[i + d]
      BY <1>0, <3>2 DEF Window
    <3>5. \A i \in 1..Len(l) : l[i].id # list[k].id
      <4>1. \A i \in 1..Len(l) : i + d \in 1..Len(list) /\ (i + d < k \/ k < i + d)
        BY <3>2, <3>4
      <4>2. \A i \in 1..Len(l) : list[i + d].id # list[k].id
        BY <3>2, <4>1 DEF OrderInv, Distinct
      <4>3. QED
        BY <3>4, <4>2
    <3>6. S \subseteq Ids(list) /\ S \cap Ids(l) = {}
      BY <3>2, <3>4, <3>5, Zenon DEF Ids
    <3>7. taken' = [taken EXCEPT ![r] = @ \cup S]
      BY <3>3
    <3>. HIDE DEF S
    <3>8. QED
      BY <1>0, <3>2, <3>3, <3>6, <3>7, WindowOrder
  <2>3. QED
    BY <1>2, <2>1, <2>2 DEF Pop
<1>3. ASSUME NEW r \in Reqs, NEW l, NEW d, Window(l, d), list' = l, next' = next, taken' = taken
      PROVE  OrderInv'
  <2>. DEFINE S == {}
  <2>1. taken' = [taken EXCEPT ![r] = @ \cup S]
    BY <1>0, <1>3
  <2>2. S \subseteq Ids(list) /\ S \cap Ids(l) = {}
    OBVIOUS
  <2>. HIDE DEF S
  <2>3. QED
    BY <1>0, <1>3, <2>1, <2>2, WindowOrder
<1>4. ASSUME NEW r \in Reqs, Del(r) PROVE OrderInv'
  BY <1>0, <1>3, <1>4, TrivialWindows DEF Del, SetList
<1>5. ASSUME NEW r \in Reqs, LTrim(r) PROVE OrderInv'
  <2>1. call[r].n \in Nat /\ call[r].n >= 1
    BY <1>0, CallType DEF ReqType
  <2>2. \E d \in Nat : Window(Trimmed(call[r].n), d)
    BY <1>0, <2>1, TrimmedTail
  <2>3. QED
    BY <1>3, <1>5, <2>2 DEF LTrim, SetList
<1>6. ASSUME KeyExpires \/ KeyEvicted PROVE OrderInv'
  <2>1. list' = <<>> /\ next' = next /\ taken' = taken
    BY <1>6 DEF KeyExpires, KeyEvicted, SetList
  <2>2. QED
    BY <2>1 DEF OrderInv, Ranked, Distinct, DequeOrder, NoDoubleDelivery, Ids
<1>7. ASSUME NEW r \in Reqs,
             \/ Arrive(r) \/ Refuse(r) \/ PushReply(r) \/ Expire(r) \/ Ttl(r) \/ Exists(r)
             \/ Read(r) \/ TrimReply(r) \/ LLen(r) \/ Answer(r) \/ LoseRoundTrip(r)
      PROVE  OrderInv'
  <2>1. list' = list /\ next' = next /\ taken' = taken
    BY <1>7 DEF Arrive, Refuse, PushReply, Expire, Ttl, Exists, Read, TrimReply, LLen,
                Answer, LoseRoundTrip, Lost, SetList, store
  <2>2. QED
    BY <2>1, QuietOrder
<1>8. ASSUME UNCHANGED vars PROVE OrderInv'
  BY <1>8, QuietOrder DEF vars, store, control
<1>9. QED
  BY <1>1, <1>2, <1>4, <1>5, <1>6, <1>7, <1>8 DEF Next, Handler

(* RPUSH/LPOP serves first in, first out, LPUSH/LPOP last in, first out,   *)
(* and no value goes to two consumers.                                     *)
THEOREM OrderedDelivery == Spec => [](DequeOrder /\ NoDoubleDelivery)
<1>1. Init => BoundInv /\ OrderInv
  BY InitBound, InitOrder
<1>2. BoundInv /\ OrderInv /\ [Next]_vars => (BoundInv /\ OrderInv)'
  BY NextBound, NextOrder
<1>3. OrderInv => DequeOrder /\ NoDoubleDelivery
  BY DEF OrderInv
<1>4. QED
  BY <1>1, <1>2, <1>3, PTL DEF Spec

-------------------------------------------------------------------------------
(* Keys without TTL are accounted for *)

(* Where a request can be, given what it asks for. *)
Control ==
  \A r \in Reqs :
    /\ pc[r] = "idle" => call[r] = NoCall /\ put[r] = {}
    /\ pc[r] \in InFlight => rt[r] # "idle"
    /\ pc[r] \in {"script", "pushed"} => rt[r] = "script"
    /\ pc[r] = "expire" => \/ call[r].op \in Pushes /\ rt[r] = "expire"
                           \/ call[r].op = "touch"
    /\ rt[r] \in {"script", "expire"} => call[r].op \in Pushes
    /\ rt[r] = "exists" => call[r].op = "touch"
    /\ pc[r] = "exists" => call[r].op = "touch"
    /\ status[r] # 0 => pc[r] = "done"

(* Why a key may have no TTL on account of r. *)
Excuse(r) ==
  \/ call[r].op \in Pushes \cup {"touch"} /\ resolve_ttl(call[r].ttl) = 0
  \/ /\ call[r].op \in Pushes /\ put[r] # {}
     /\ pc[r] \in {"script", "pushed", "expire"} \/ status[r] \in {400, 500}

LEMMA ImmortalByExcuse ==
  NoImmortalQueue <=> (list # <<>> /\ ttl = NoTtl => \E r \in Reqs : Excuse(r))
BY DEF NoImmortalQueue, Excuse

(* Control holds whatever happens to the queue. *)
LEMMA NextControl ==
  ASSUME BoundInv, Control, [Next]_vars
  PROVE  Control'
<1>. USE DEF BoundInv
<1>1. ASSUME NEW r \in Reqs, Arrive(r) PROVE Control'
  <2>1. PICK c \in Calls : /\ call' = [call EXCEPT ![r] = c]
                           /\ RoundTrip(r, FirstCommand(c.op))
    BY <1>1 DEF Arrive
  <2>2. /\ FirstCommand(c.op) \in Commands
        /\ FirstCommand(c.op) = "script" => c.op \in Pushes
        /\ FirstCommand(c.op) # "expire"
        /\ FirstCommand(c.op) = "exists" => c.op = "touch"
    BY FirstCommandType
  <2>3. put' = put /\ status' = status /\ pc[r] = "idle"
    BY <1>1 DEF Arrive, store, reply
  <2>4. QED
    BY <2>1, <2>2, <2>3 DEF RoundTrip, Control, ReqType, Commands
<1>2. ASSUME NEW r \in Reqs, Script(r) PROVE Control'
  BY <1>2 DEF Script, Accept, Step, Replied, Control, ReqType, StoreType, store
<1>3. ASSUME NEW r \in Reqs, PushReply(r) PROVE Control'
  BY <1>3 DEF PushReply, RoundTrip, Respond, Control, ReqType, store, reply, InFlight
<1>4. ASSUME NEW r \in Reqs,
             Expire(r) \/ Ttl(r) \/ Pop(r) \/ Read(r) \/ Del(r) \/ LTrim(r) \/ LLen(r)
      PROVE  Control'
  <2>1. PICK p \in {"ttl", "answer", "trimmed"} : Step(r, p)
    BY <1>4 DEF Expire, Ttl, Pop, Read, Del, LTrim, LLen
  <2>2. pc[r] \in InFlight /\ put' = put /\ status' = status
    BY <1>4 DEF Expire, Ttl, Pop, Read, Del, LTrim, LLen, InFlight, Commands, store, reply, Replied, TtlReplied
  <2>3. QED
    BY <2>1, <2>2 DEF Step, Control, ReqType, InFlight, Commands
<1>5. ASSUME NEW r \in Reqs, Exists(r) PROVE Control'
  BY <1>5 DEF Exists, Step, Replied, Control, ReqType, InFlight, Commands, store
<1>6. ASSUME NEW r \in Reqs, TrimReply(r) PROVE Control'
  BY <1>6 DEF TrimReply, RoundTrip, Control, ReqType, store, reply
<1>7. ASSUME NEW r \in Reqs, Refuse(r) \/ Answer(r) PROVE Control'
  <2>1. PICK code, t : Respond(r, code, t)
    BY <1>7 DEF Refuse, Answer
  <2>2. put' = put
    BY <1>7 DEF Refuse, Answer, store
  <2>3. QED
    BY <2>1, <2>2 DEF Respond, Control, ReqType, InFlight, Commands
<1>8. ASSUME NEW r \in Reqs, LoseRoundTrip(r) PROVE Control'
  <2>1. put' = put /\ rt' = rt /\ call' = call /\ pc[r] \in InFlight
    BY <1>8 DEF LoseRoundTrip, Lost, Respond, store, ReqType
  <2>2. pc' = [pc EXCEPT ![r] = rt[r]] \/ pc' = [pc EXCEPT ![r] = "done"]
    BY <1>8 DEF LoseRoundTrip, Lost, Respond
  <2>3. QED
    BY <1>8, <2>1, <2>2 DEF LoseRoundTrip, Lost, Respond, reply, Control, ReqType, Commands, InFlight
<1>9. ASSUME KeyExpires \/ KeyEvicted \/ UNCHANGED vars PROVE Control'
  BY <1>9 DEF KeyExpires, KeyEvicted, vars, store, control, reply, Control
<1>10. QED
  BY <1>1, <1>2, <1>3, <1>4, <1>5, <1>6, <1>7, <1>8, <1>9 DEF Next, Handler

(* Every step preserves NoImmortalQueue. *)
LEMMA NextImmortal ==
  ASSUME BoundInv, Control, NoImmortalQueue, [Next]_vars
  PROVE  NoImmortalQueue'
<1>. USE DEF BoundInv
<1>0. list # <<>> /\ ttl = NoTtl => \E r \in Reqs : Excuse(r)
  BY ImmortalByExcuse
<1>. SUFFICES ASSUME list' # <<>>, ttl' = NoTtl PROVE \E r \in Reqs : Excuse(r)'
  BY DEF NoImmortalQueue, Excuse
<1>1. ASSUME NEW r \in Reqs, Arrive(r) PROVE \E q \in Reqs : Excuse(q)'
  <2>1. /\ list' = list /\ ttl' = ttl /\ put' = put /\ status' = status
        /\ pc[r] = "idle"
        /\ \A q \in Reqs \ {r} : pc'[q] = pc[q] /\ call'[q] = call[q]
    BY <1>1 DEF Arrive, store, reply, RoundTrip, ReqType
  <2>2. PICK q \in Reqs : Excuse(q)
    BY <1>0, <2>1
  <2>3. q # r
    BY <2>1, <2>2 DEF Control, Excuse, NoCall, Pushes
  <2>4. QED
    BY <2>1, <2>2, <2>3 DEF Excuse
<1>2. ASSUME NEW r \in Reqs, Script(r) PROVE \E q \in Reqs : Excuse(q)'
  <2>1. /\ pc'[r] = "pushed" /\ call' = call /\ status' = status
        /\ \A q \in Reqs \ {r} : pc'[q] = pc[q]
    BY <1>2 DEF Script, Step, Replied, ReqType
  <2>2. CASE UNCHANGED store
    <3>1. PICK q \in Reqs : Excuse(q)
      BY <1>0, <2>2 DEF store
    <3>2. Excuse(q)'
      BY <1>2, <2>1, <2>2, <3>1 DEF Excuse, store, Script
    <3>3. QED
      BY <3>2
  <2>3. CASE Accept(r)
    <3>1. call[r].n \in Nat /\ call[r].n >= 1 /\ next \in Nat
      BY CallType DEF ReqType, StoreType
    <3>2. next + 1 \in put'[r]
      BY <2>3, <3>1 DEF Accept, StoreType
    <3>3. call[r].op \in Pushes
      BY <1>2 DEF Script, Control
    <3>4. Excuse(r)'
      BY <2>1, <3>2, <3>3 DEF Excuse
    <3>5. QED
      BY <3>4
  <2>4. QED
    BY <1>2, <2>2, <2>3 DEF Script
<1>3. ASSUME NEW r \in Reqs, PushReply(r) PROVE \E q \in Reqs : Excuse(q)'
  <2>1. UNCHANGED <<list, ttl, put, call>> /\ pc[r] = "pushed"
    BY <1>3 DEF PushReply, Respond, store
  <2>2. /\ \A q \in Reqs \ {r} : pc'[q] = pc[q] /\ status'[q] = status[q]
        /\ pc'[r] = "expire" \/ status'[r] = 400
    BY <1>3 DEF PushReply, Respond, RoundTrip, ReqType, reply
  <2>3. PICK q \in Reqs : Excuse(q)
    BY <1>0, <2>1
  <2>4. QED
    BY <2>1, <2>2, <2>3 DEF Excuse
<1>4. ASSUME NEW r \in Reqs, Expire(r) PROVE \E q \in Reqs : Excuse(q)'
  <2>1. ~(resolve_ttl(call[r].ttl) > 0)
    BY <1>4, CallType DEF Expire, SetList, ExpireOrPersist, NoTtl, ReqType
  <2>2. resolve_ttl(call[r].ttl) = 0
    BY <2>1, CallType DEF ReqType
  <2>3. call[r].op \in Pushes \cup {"touch"} /\ call' = call
    BY <1>4 DEF Control, Expire, Step
  <2>4. Excuse(r)'
    BY <2>2, <2>3 DEF Excuse
  <2>5. QED
    BY <2>4
<1>5. ASSUME NEW r \in Reqs,
             Ttl(r) \/ Exists(r) \/ Pop(r) \/ Read(r) \/ LTrim(r) \/ TrimReply(r) \/ LLen(r)
      PROVE  \E q \in Reqs : Excuse(q)'
  <2>1. /\ put' = put /\ call' = call /\ status' = status
        /\ pc[r] \notin {"script", "pushed", "expire"}
        /\ \A q \in Reqs \ {r} : pc'[q] = pc[q]
    BY <1>5 DEF Ttl, TtlReplied, Exists, Pop, Read, LTrim, TrimReply, LLen, Step, RoundTrip, Replied,
                store, reply, ReqType
  <2>2. list # <<>> /\ ttl' = ttl
    <3>1. CASE LTrim(r)
      <4>1. list = <<>> => Trimmed(call[r].n) = <<>>
        BY CallType DEF Trimmed, ReqType
      <4>2. QED
        BY <3>1, <4>1 DEF LTrim, SetList
    <3>2. CASE ~LTrim(r)
      BY <1>5, <3>2 DEF Ttl, TtlReplied, Exists, Pop, Read, TrimReply, LLen, SetList, store
    <3>3. QED
      BY <3>1, <3>2
  <2>3. PICK q \in Reqs : Excuse(q)
    BY <1>0, <2>2
  <2>4. QED
    BY <2>1, <2>3 DEF Excuse
<1>6. ASSUME NEW r \in Reqs, Del(r) PROVE FALSE
  BY <1>6 DEF Del, SetList
<1>7. ASSUME KeyExpires \/ KeyEvicted PROVE FALSE
  BY <1>7 DEF KeyExpires, KeyEvicted, SetList
<1>8. ASSUME NEW r \in Reqs, Refuse(r) \/ Answer(r) PROVE \E q \in Reqs : Excuse(q)'
  <2>1. PICK code, t : Respond(r, code, t)
    BY <1>8 DEF Refuse, Answer
  <2>2. /\ UNCHANGED <<list, ttl, put, call>> /\ pc[r] \in {"idle", "answer"}
    BY <1>8, <2>1 DEF Refuse, Answer, Respond, store
  <2>3. \A q \in Reqs \ {r} : pc'[q] = pc[q] /\ status'[q] = status[q]
    BY <2>1 DEF Respond, ReqType
  <2>4. PICK q \in Reqs : Excuse(q)
    BY <1>0, <2>2
  <2>5. status[r] = 0 \/ ~Excuse(r) \/ resolve_ttl(call[r].ttl) = 0
    BY <2>2 DEF Control, Excuse
  <2>6. QED
    BY <2>2, <2>3, <2>4, <2>5 DEF Excuse
<1>9. ASSUME NEW r \in Reqs, LoseRoundTrip(r) PROVE \E q \in Reqs : Excuse(q)'
  <2>1. UNCHANGED <<list, ttl, put, call>> /\ pc[r] \in InFlight
    BY <1>9 DEF LoseRoundTrip, Lost, Respond, store, ReqType
  <2>2. /\ \A q \in Reqs \ {r} : pc'[q] = pc[q] /\ status'[q] = status[q]
        /\ (pc'[r] = rt[r] /\ status'[r] = status[r]) \/ status'[r] = 500
    BY <1>9 DEF LoseRoundTrip, Lost, Respond, ReqType, reply
  <2>3. PICK q \in Reqs : Excuse(q)
    BY <1>0, <2>1
  <2>4. QED
    BY <2>1, <2>2, <2>3 DEF Excuse, Control, Pushes
<1>10. ASSUME UNCHANGED vars PROVE \E q \in Reqs : Excuse(q)'
  BY <1>0, <1>10 DEF vars, store, control, reply, Excuse
<1>11. QED
  BY <1>1, <1>2, <1>3, <1>4, <1>5, <1>6, <1>7, <1>8, <1>9, <1>10 DEF Next, Handler

(* No queue outlives its TTL by accident: while it has none, some request  *)
(* asked for that, or a push that put values in has yet to set the TTL or  *)
(* failed before it could.                                                 *)
THEOREM Mortal == Spec => []NoImmortalQueue
<1>1. Init => BoundInv /\ Control /\ NoImmortalQueue
  <2>1. Init => Control /\ NoImmortalQueue
    BY DEF Init, InitRequests, Control, NoImmortalQueue, InFlight, Commands
  <2>2. QED
    BY <2>1, InitBound
<1>2. BoundInv /\ Control /\ NoImmortalQueue /\ [Next]_vars
      => (BoundInv /\ Control /\ NoImmortalQueue)'
  BY NextBound, NextControl, NextImmortal
<1>3. QED
  BY <1>1, <1>2, PTL DEF Spec

-------------------------------------------------------------------------------
(* What the responses tell *)

(* No value has the name 0, the result of a pop that found nothing. *)
Positive == \A i \in 1..Len(list) : list[i].id >= 1

Numbered == \A r \in Reqs : \A v \in put[r] : v <= next

(* The commands of a push and of a pop. *)
Where(r) ==
  /\ pc[r] = "idle" => taken[r] = {}
  /\ call[r].op \in Pushes =>
       \/ rt[r] = "script" /\ pc[r] \in {"script", "pushed", "done"}
       \/ rt[r] = "expire" /\ pc[r] \in {"expire", "ttl", "answer", "done"}
  /\ call[r].op = "pop" => rt[r] = "pop" /\ pc[r] \in {"pop", "answer", "done"}

(* The script of a push ran as often as it was sent, at most. *)
Whole(r) ==
  call[r].op \in Pushes =>
    \E k \in 0..Retries + 1 :
      /\ IsFiniteSet(put[r]) /\ Cardinality(put[r]) = k * call[r].n
      /\ rt[r] = "script" => k <= (IF pc[r] = "script" THEN tries[r] ELSE tries[r] + 1)

(* The reply a push holds, and its answer, tell what its values did. *)
PushTold(r) ==
  call[r].op \in Pushes =>
    /\ pc[r] = "script" /\ tries[r] = 0 => put[r] = {}
    /\ pc[r] = "pushed" /\ result[r] # -1 => put[r] # {}
    /\ pc[r] = "pushed" /\ result[r] = -1 /\ tries[r] = 0 => put[r] = {}
    /\ rt[r] = "expire" \/ status[r] = 200 => put[r] # {}
    /\ status[r] = 400 /\ tries[r] = 0 => put[r] = {}

(* The same for a pop. *)
PopTold(r) ==
  call[r].op = "pop" =>
    /\ IsFiniteSet(taken[r])
    /\ Cardinality(taken[r]) <= (IF pc[r] = "pop" THEN tries[r] ELSE tries[r] + 1)
    /\ pc[r] = "pop" /\ tries[r] = 0 => taken[r] = {}
    /\ (pc[r] = "answer" /\ result[r] # 0) \/ status[r] = 200 => result[r] \in taken[r]
    /\ (pc[r] = "answer" /\ result[r] = 0) \/ status[r] = 404 => (tries[r] = 0 => taken[r] = {})

Told(r) == Where(r) /\ Whole(r) /\ PushTold(r) /\ PopTold(r)

OutcomeInv == Positive /\ Numbered /\ \A r \in Reqs : Told(r)

(* Only a push adds names to the list. *)
LEMMA NextPositive ==
  ASSUME BoundInv, Positive, [Next]_vars
  PROVE  Positive'
<1>. USE DEF BoundInv
<1>1. ASSUME NEW l, NEW d, Window(l, d), list' = l PROVE Positive'
  <2>1. \A i \in 1..Len(l) : i + d \in 1..Len(list) /\ l[i] = list[i + d]
    BY <1>1 DEF Window, StoreType
  <2>2. QED
    BY <1>1, <2>1 DEF Positive
<1>2. ASSUME NEW r \in Reqs, Accept(r) PROVE Positive'
  <2>. DEFINE n == call[r].n
              dir == call[r].dir
              l == Pushed(dir, n)
  <2>1. dir \in Dirs /\ n \in Nat /\ n >= 1 /\ next \in Nat
    BY CallType DEF ReqType, StoreType
  <2>2. list' = l
    BY <1>2 DEF Accept, SetList
  <2>. HIDE DEF n, dir
  <2>0. list \in Seq(Elements) /\ Len(list) \in Nat
    BY DEF StoreType
  <2>3. l \in Seq(Elements) /\ Len(l) = Len(list) + n /\ Len(list) \in Nat
    BY <2>0, <2>1, PushedList
  <2>4. /\ dir = "right" =>
             /\ \A i \in 1..Len(list) : l[i] = list[i]
             /\ \A i \in Len(list)+1..Len(list)+n : l[i].id = next + (i - Len(list))
        /\ dir = "left" =>
             /\ \A i \in 1..n : l[i].id = next + n + 1 - i
             /\ \A i \in n+1..Len(list)+n : l[i] = list[i - n]
    BY <2>1, PushedElements
  <2>. HIDE DEF l
  <2>5. ASSUME NEW i \in 1..Len(l) PROVE l[i].id >= 1
    <3>1. CASE dir = "right"
      <4>1. CASE i <= Len(list)
        BY <2>3, <2>4, <3>1, <4>1 DEF Positive
      <4>2. CASE i > Len(list)
        BY <2>1, <2>3, <2>4, <3>1, <4>2
      <4>3. QED
        BY <2>3, <4>1, <4>2
    <3>2. CASE dir = "left"
      <4>1. CASE i <= n
        BY <2>1, <2>3, <2>4, <3>2, <4>1
      <4>2. CASE i > n
        <5>1. i - n \in 1..Len(list) /\ l[i] = list[i - n]
          BY <2>1, <2>3, <2>4, <3>2, <4>2
        <5>2. QED
          BY <5>1 DEF Positive
      <4>3. QED
        BY <2>1, <2>3, <4>1, <4>2
    <3>3. QED
      BY <2>1, <3>1, <3>2 DEF Dirs
  <2>6. QED
    BY <2>2, <2>5 DEF Positive
<1>3. list' = list => Positive'
  BY DEF Positive
<1>4. list' = <<>> => Positive'
  BY <1>1, TrivialWindows DEF StoreType
<1>5. ASSUME NEW r \in Reqs, Handler(r) PROVE Positive'
  <2>1. CASE Pop(r) /\ list # <<>>
    <3>1. call[r].dir \in Dirs
      BY CallType DEF ReqType
    <3>2. \E d \in Nat : Window(Rest(call[r].dir), d)
      BY <2>1, <3>1, RestList DEF StoreType
    <3>3. QED
      BY <1>1, <2>1, <3>2 DEF Pop, SetList
  <2>2. CASE LTrim(r)
    <3>1. call[r].n \in Nat /\ call[r].n >= 1
      BY CallType DEF ReqType
    <3>2. \E d \in Nat : Window(Trimmed(call[r].n), d)
      BY <3>1, TrimmedTail DEF StoreType
    <3>3. QED
      BY <1>1, <2>2, <3>2 DEF LTrim, SetList
  <2>3. CASE Pop(r) /\ list = <<>>
    BY <1>3, <2>3 DEF Pop, store
  <2>4. CASE Script(r) \/ Del(r)
    BY <1>2, <1>3, <1>4, <2>4 DEF Script, Del, SetList, store
  <2>5. CASE PushReply(r) \/ Expire(r) \/ Ttl(r) \/ Exists(r) \/ Read(r) \/ TrimReply(r) \/ LLen(r) \/ Answer(r)
    BY <1>3, <2>5 DEF PushReply, Expire, Ttl, Exists, Read, TrimReply, LLen, Answer, SetList, store
  <2>6. QED
    BY <1>5, <2>1, <2>2, <2>3, <2>4, <2>5 DEF Handler
<1>6. ASSUME NEW r \in Reqs, Arrive(r) \/ Refuse(r) \/ LoseRoundTrip(r) PROVE Positive'
  BY <1>3, <1>6 DEF Arrive, Refuse, LoseRoundTrip, store
<1>7. CASE KeyExpires \/ KeyEvicted \/ UNCHANGED vars
  BY <1>3, <1>4, <1>7 DEF KeyExpires, KeyEvicted, SetList, vars, store
<1>8. QED
  BY <1>5, <1>6, <1>7 DEF Next

(* The others of a step of r. *)
LEMMA OthersTold ==
  ASSUME BoundInv, NEW r \in Reqs, Arrive(r) \/ Refuse(r) \/ Handler(r) \/ LoseRoundTrip(r),
         NEW s \in Reqs, s # r, Told(s)
  PROVE  Told(s)'
<1>1. ReqType /\ StoreType
  BY DEF BoundInv
<1>2. put'[s] = put[s] /\ taken'[s] = taken[s]
  BY <1>1 DEF Arrive, Refuse, Handler, LoseRoundTrip, Script, Accept, PushReply, Expire, Ttl, Exists,
              Pop, Read, Del, LTrim, TrimReply, LLen, Answer, store, StoreType
<1>3. pc'[s] = pc[s] /\ rt'[s] = rt[s] /\ call'[s] = call[s] /\ tries'[s] = tries[s]
  <2>1. CASE Arrive(r) \/ Refuse(r)
    BY <1>1, <2>1 DEF Arrive, Refuse, RoundTrip, Respond, ReqType
  <2>2. CASE LoseRoundTrip(r)
    BY <1>1, <2>2 DEF LoseRoundTrip, Lost, Respond, ReqType
  <2>3. CASE Handler(r)
    BY <1>1, <2>3 DEF Handler, Script, PushReply, Expire, Ttl, Exists, Pop, Read, Del, LTrim, TrimReply,
                      LLen, Answer, RoundTrip, Respond, Step, ReqType
  <2>4. QED
    BY <2>1, <2>2, <2>3
<1>4. result'[s] = result[s] /\ status'[s] = status[s]
  <2>1. CASE Arrive(r) \/ Refuse(r)
    BY <1>1, <2>1 DEF Arrive, Refuse, Respond, reply, ReqType
  <2>2. CASE LoseRoundTrip(r)
    BY <1>1, <2>2 DEF LoseRoundTrip, Lost, Respond, reply, ReqType
  <2>3. CASE Handler(r)
    BY <1>1, <2>3 DEF Handler, Script, PushReply, Expire, Ttl, Exists, Pop, Read, Del, LTrim, TrimReply,
                      LLen, Answer, Respond, Replied, TtlReplied, reply, ReqType
  <2>4. QED
    BY <2>1, <2>2, <2>3
<1>5. QED
  BY <1>2, <1>3, <1>4 DEF Told, Where, Whole, PushTold, PopTold

(* The values of one more execution of the script of a push. *)
LEMMA AcceptWhole ==
  ASSUME BoundInv, Numbered, NEW r \in Reqs, Accept(r), NEW k \in Nat,
         IsFiniteSet(put[r]), Cardinality(put[r]) = k * call[r].n
  PROVE  /\ IsFiniteSet(put'[r]) /\ Cardinality(put'[r]) = (k + 1) * call[r].n
         /\ put'[r] # {}
<1>. DEFINE n == call[r].n
            new == next + 1 .. next + n
<1>1. n \in Nat /\ n >= 1 /\ next \in Nat /\ put \in [Reqs -> SUBSET Nat]
  BY CallType DEF BoundInv, ReqType, StoreType
<1>2. put'[r] = put[r] \cup new
  BY <1>1 DEF Accept
<1>3. put[r] \cap new = {}
  <2>1. \A v \in put[r] : v \in Nat /\ v <= next
    BY <1>1 DEF Numbered
  <2>2. \A v \in new : v > next
    BY <1>1
  <2>3. QED
    BY <1>1, <2>1, <2>2
<1>4. IsFiniteSet(new) /\ Cardinality(new) = n
  <2>1. next + 1 \in Int /\ next + n \in Int /\ ~(next + 1 > next + n) /\ (next + n) - (next + 1) + 1 = n
    BY <1>1
  <2>2. QED
    BY <2>1, FS_Interval
<1>5. next + 1 \in new
  BY <1>1
<1>. HIDE DEF new, n
<1>6. /\ IsFiniteSet(put[r] \cup new)
      /\ Cardinality(put[r] \cup new) = Cardinality(put[r]) + n - Cardinality(put[r] \cap new)
  BY <1>4, FS_Union
<1>7. Cardinality(put[r] \cap new) = 0
  BY <1>3, FS_EmptySet
<1>8. Cardinality(put[r]) = k * n /\ k * n + n = (k + 1) * n /\ k * n \in Nat
  BY <1>1 DEF n
<1>9. Cardinality(put'[r]) = (k + 1) * n
  BY <1>1, <1>2, <1>6, <1>7, <1>8
<1>10. QED
  BY <1>2, <1>5, <1>6, <1>9 DEF n

(* The script of a push. *)
LEMMA ScriptTold ==
  ASSUME BoundInv, Control, OutcomeInv, NEW r \in Reqs, Script(r)
  PROVE  Told(r)' /\ Numbered'
<1>. USE DEF BoundInv
<1>1. call[r].op \in Pushes /\ rt[r] = "script" /\ pc[r] = "script" /\ call[r].op # "pop" /\ status[r] = 0
  BY DEF Script, Control, Pushes, ReqType, InFlight, Commands
<1>2. /\ pc'[r] = "pushed" /\ call' = call /\ rt' = rt /\ tries' = tries /\ status' = status /\ taken' = taken
  BY DEF Script, Step, Replied, Accept, store, ReqType
<1>3. Where(r)' /\ PopTold(r)'
  BY <1>1, <1>2 DEF Where, PopTold
<1>4. Retries \in Nat /\ tries[r] \in 0..Retries
  BY RetriesAssumption DEF ReqType
<1>5. PICK k \in 0..Retries + 1 : /\ IsFiniteSet(put[r]) /\ Cardinality(put[r]) = k * call[r].n
                                  /\ k <= tries[r]
  BY <1>1 DEF OutcomeInv, Told, Whole
<1>6. CASE UNCHANGED store /\ Replied(r, -1)
  <2>1. Whole(r)'
    BY <1>2, <1>4, <1>5, <1>6 DEF Whole, store
  <2>2. PushTold(r)'
    BY <1>1, <1>2, <1>6 DEF OutcomeInv, Told, PushTold, Replied, store, ReqType
  <2>3. QED
    BY <1>3, <1>6, <2>1, <2>2 DEF Told, OutcomeInv, Numbered, store
<1>7. CASE Accept(r) /\ Replied(r, Len(list) + call[r].n)
  <2>1. /\ IsFiniteSet(put'[r]) /\ Cardinality(put'[r]) = (k + 1) * call[r].n
        /\ put'[r] # {}
    BY <1>5, <1>7, AcceptWhole DEF OutcomeInv
  <2>2. k + 1 \in 0..Retries + 1 /\ k + 1 <= tries[r] + 1
    BY <1>4, <1>5
  <2>3. Whole(r)'
    BY <1>2, <2>1, <2>2 DEF Whole
  <2>4. result'[r] # -1
    <3>1. Len(list) \in Nat /\ call[r].n \in Nat
      BY CallType DEF StoreType, ReqType
    <3>2. QED
      BY <1>7, <3>1 DEF Replied, ReqType
  <2>5. PushTold(r)'
    BY <1>1, <1>2, <2>1, <2>4 DEF PushTold
  <2>6. Numbered'
    <3>1. call[r].n \in Nat /\ next \in Nat /\ put \in [Reqs -> SUBSET Nat]
      BY CallType DEF StoreType, ReqType
    <3>2. next' = next + call[r].n /\ put' = [put EXCEPT ![r] = @ \cup (next + 1 .. next + call[r].n)]
      BY <1>7 DEF Accept
    <3>3. QED
      BY <3>1, <3>2 DEF OutcomeInv, Numbered
  <2>7. QED
    BY <1>3, <2>3, <2>5, <2>6 DEF Told
<1>8. QED
  BY <1>6, <1>7 DEF Script

(* A pop takes at most one value each time it is sent. *)
LEMMA PopKeepsTold ==
  ASSUME BoundInv, Control, OutcomeInv, NEW r \in Reqs, Pop(r)
  PROVE  Told(r)'
<1>. USE DEF BoundInv
<1>1. /\ pc[r] = "pop" /\ pc'[r] = "answer" /\ call' = call /\ rt' = rt /\ tries' = tries
      /\ status' = status /\ status[r] = 0 /\ put' = put
  BY DEF Pop, Step, Replied, store, ReqType, Control
<1>2. Told(r) /\ tries[r] \in Nat
  BY RetriesAssumption DEF OutcomeInv, ReqType
<1>3. Where(r)' /\ Whole(r)' /\ PushTold(r)'
  BY <1>1, <1>2 DEF Told, Where, Whole, PushTold
<1>4. CASE call[r].op # "pop"
  BY <1>1, <1>3, <1>4 DEF Told, PopTold
<1>5. CASE call[r].op = "pop"
  <2>1. /\ IsFiniteSet(taken[r]) /\ Cardinality(taken[r]) <= tries[r]
        /\ tries[r] = 0 => taken[r] = {}
    BY <1>1, <1>2, <1>5 DEF Told, PopTold
  <2>2. Cardinality(taken[r]) \in Nat
    BY <2>1, FS_CardinalityType
  <2>3. CASE UNCHANGED store /\ Replied(r, 0)
    <3>1. result'[r] = 0 /\ taken' = taken
      BY <2>3 DEF Replied, ReqType, store
    <3>2. PopTold(r)'
      BY <1>1, <1>2, <2>1, <2>2, <3>1 DEF PopTold
    <3>3. QED
      BY <1>3, <3>2 DEF Told
  <2>4. CASE list # <<>> /\ ~(UNCHANGED store /\ Replied(r, 0))
    <3>. DEFINE v == Popped(call[r].dir)
    <3>1. Replied(r, v.id) /\ taken' = [taken EXCEPT ![r] = @ \cup {v.id}]
      BY <2>4 DEF Pop
    <3>2. call[r].dir \in Dirs
      BY CallType DEF ReqType
    <3>3. \E j \in 1..Len(list) : v = list[j]
      BY <2>4, <3>2, RestList DEF StoreType
    <3>4. v.id >= 1
      BY <3>3 DEF OutcomeInv, Positive
    <3>. HIDE DEF v
    <3>5. result'[r] = v.id /\ taken'[r] = taken[r] \cup {v.id}
      BY <3>1 DEF Replied, ReqType, StoreType
    <3>6. v.id # 0
      BY <3>4
    <3>7. IsFiniteSet(taken'[r]) /\ Cardinality(taken'[r]) <= Cardinality(taken[r]) + 1
      <4>. DEFINE S == taken[r]
                  x == v.id
      <4>1. IsFiniteSet(S) /\ Cardinality(S) \in Nat /\ taken'[r] = S \cup {x}
        BY <2>1, <2>2, <3>5
      <4>. HIDE DEF S, x
      <4>2. /\ IsFiniteSet(S \cup {x})
            /\ Cardinality(S \cup {x}) = IF x \in S THEN Cardinality(S) ELSE Cardinality(S) + 1
        BY <4>1, FS_AddElement
      <4>3. Cardinality(S \cup {x}) <= Cardinality(S) + 1
        BY <4>1, <4>2
      <4>4. QED
        BY <4>1, <4>2, <4>3 DEF S
    <3>8. Cardinality(taken'[r]) <= tries[r] + 1
      <4>1. Cardinality(taken'[r]) \in Nat
        BY <3>7, FS_CardinalityType
      <4>2. QED
        BY <1>2, <2>1, <2>2, <3>7, <4>1
    <3>9. PopTold(r)'
      BY <1>1, <3>5, <3>6, <3>7, <3>8 DEF PopTold
    <3>10. QED
      BY <1>3, <3>9 DEF Told
  <2>5. QED
    BY <2>3, <2>4 DEF Pop
<1>6. QED
  BY <1>4, <1>5

(* The other steps of r. *)
LEMMA QuietTold ==
  ASSUME BoundInv, Control, OutcomeInv, NEW r \in Reqs,
         \/ Arrive(r) \/ Refuse(r) \/ PushReply(r) \/ Expire(r) \/ Ttl(r) \/ Exists(r) \/ Read(r)
         \/ Del(r) \/ LTrim(r) \/ TrimReply(r) \/ LLen(r) \/ Answer(r) \/ LoseRoundTrip(r)
  PROVE  Told(r)' /\ Numbered'
<1>. USE DEF BoundInv
<1>1. put' = put /\ taken' = taken /\ next' = next
  BY DEF Arrive, Refuse, PushReply, Expire, Ttl, Exists, Read, Del, LTrim, TrimReply, LLen, Answer,
         LoseRoundTrip, store
<1>2. Numbered'
  BY <1>1 DEF OutcomeInv, Numbered
<1>3. Told(r) /\ Retries \in Nat /\ tries[r] \in 0..Retries
  BY RetriesAssumption DEF OutcomeInv, ReqType
<1>4. SUFFICES Told(r)'
  BY <1>2
<1>5. Where(r) /\ Whole(r) /\ PushTold(r) /\ PopTold(r)
  BY <1>3 DEF Told
<1>6. CASE Arrive(r)
  <2>1. PICK c \in Calls : call' = [call EXCEPT ![r] = c] /\ RoundTrip(r, FirstCommand(c.op))
    BY <1>6 DEF Arrive
  <2>2. /\ pc[r] = "idle" /\ status' = status /\ status[r] = 0 /\ put[r] = {} /\ taken[r] = {}
    BY <1>5, <1>6 DEF Arrive, reply, Control, Where
  <2>3. /\ call'[r] = c /\ pc'[r] = FirstCommand(c.op) /\ rt'[r] = FirstCommand(c.op) /\ tries'[r] = 0
        /\ put'[r] = {} /\ taken'[r] = {} /\ status'[r] = 0
    BY <1>1, <2>1, <2>2 DEF RoundTrip, ReqType
  <2>4. /\ c.op \in Pushes => FirstCommand(c.op) = "script"
        /\ c.op = "pop" => FirstCommand(c.op) = "pop"
        /\ FirstCommand(c.op) \in Commands
    BY FirstCommandType DEF FirstCommand, Pushes
  <2>5. IsFiniteSet({}) /\ Cardinality({}) = 0
    BY FS_EmptySet
  <2>6. c.n \in Nat
    BY CallType
  <2>7. Where(r)' /\ PushTold(r)' /\ PopTold(r)'
    BY <2>3, <2>4, <2>5 DEF Where, PushTold, PopTold, Commands
  <2>8. Whole(r)'
    <3>1. 0 \in 0..Retries + 1 /\ 0 = 0 * c.n /\ 0 <= 0
      BY <1>3, <2>6
    <3>2. QED
      BY <2>3, <2>4, <2>5, <3>1 DEF Whole
  <2>9. QED
    BY <2>7, <2>8 DEF Told
<1>7. CASE Refuse(r)
  <2>1. call[r].op = "none" /\ call' = call /\ pc'[r] = "done"
    BY <1>7 DEF Refuse, Respond, Control, NoCall, ReqType
  <2>2. QED
    BY <2>1 DEF Told, Where, Whole, PushTold, PopTold, Pushes
<1>8. CASE PushReply(r)
  <2>1. /\ pc[r] = "pushed" /\ rt[r] = "script" /\ call[r].op \in Pushes /\ call[r].op # "pop"
        /\ call' = call /\ status[r] = 0
    BY <1>8 DEF PushReply, Respond, Control, Pushes
  <2>2. CASE result[r] = -1 /\ Respond(r, 400, NoTtl)
    <3>1. /\ pc'[r] = "done" /\ status'[r] = 400 /\ rt' = rt /\ tries' = tries /\ result' = result
      BY <2>2 DEF Respond, ReqType
    <3>2. QED
      BY <1>1, <1>5, <2>1, <2>2, <3>1 DEF Told, Where, Whole, PushTold, PopTold
  <2>3. CASE result[r] # -1 /\ RoundTrip(r, "expire") /\ UNCHANGED <<reply, call>>
    <3>1. pc'[r] = "expire" /\ rt'[r] = "expire" /\ status' = status
      BY <2>3 DEF RoundTrip, reply, ReqType
    <3>2. QED
      BY <1>1, <1>5, <2>1, <2>3, <3>1 DEF Told, Where, Whole, PushTold, PopTold
  <2>4. QED
    BY <1>8, <2>2, <2>3 DEF PushReply
<1>9. CASE Expire(r) \/ Ttl(r)
  <2>1. PICK p \in {"ttl", "answer"} : pc'[r] = p
    BY <1>9 DEF Expire, Ttl, Step, ReqType
  <2>2. /\ pc[r] \in {"expire", "ttl"} /\ call' = call /\ rt' = rt /\ tries' = tries
        /\ result' = result /\ status' = status
    BY <1>9 DEF Expire, Ttl, Step, TtlReplied, reply
  <2>3. call[r].op # "pop"
    BY <1>5, <2>2 DEF Where
  <2>4. call[r].op \in Pushes => rt[r] = "expire"
    BY <1>5, <2>2 DEF Where
  <2>5. status[r] = 0
    BY <2>2 DEF Control
  <2>6. QED
    BY <1>1, <1>5, <2>1, <2>2, <2>3, <2>4, <2>5 DEF Told, Where, Whole, PushTold, PopTold
<1>10. CASE Exists(r) \/ Read(r) \/ Del(r) \/ LTrim(r) \/ TrimReply(r) \/ LLen(r)
  <2>1. pc[r] \in {"exists", "read", "del", "ltrim", "trimmed", "llen"} /\ call' = call /\ pc'[r] # "idle"
    BY <1>10 DEF Exists, Read, Del, LTrim, TrimReply, LLen, Step, RoundTrip, ReqType
  <2>2. call[r].op \notin Pushes /\ call[r].op # "pop"
    BY <1>5, <2>1 DEF Where
  <2>3. QED
    BY <2>1, <2>2 DEF Told, Where, Whole, PushTold, PopTold
<1>11. CASE Answer(r)
  <2>1. /\ pc[r] = "answer" /\ pc'[r] = "done" /\ call' = call /\ rt' = rt /\ tries' = tries /\ result' = result
    BY <1>11 DEF Answer, Respond, ReqType
  <2>2. call[r].op \in Pushes => rt[r] = "expire" /\ status'[r] = 200 /\ call[r].op # "pop"
    BY <1>5, <1>11 DEF Answer, Respond, Where, Pushes, ReqType
  <2>3. call[r].op = "pop" => status'[r] = IF result[r] = 0 THEN 404 ELSE 200
    BY <1>11 DEF Answer, Respond, FoundStatus, Pushes, ReqType
  <2>4. QED
    BY <1>1, <1>5, <2>1, <2>2, <2>3 DEF Told, Where, Whole, PushTold, PopTold
<1>12. CASE LoseRoundTrip(r)
  <2>1. pc[r] \in InFlight /\ rt' = rt /\ call' = call /\ status[r] = 0 /\ rt[r] # "idle"
    BY <1>12 DEF LoseRoundTrip, Lost, Respond, ReqType, Control
  <2>2. CASE Respond(r, 500, NoTtl)
    <3>1. pc'[r] = "done" /\ status'[r] = 500 /\ tries' = tries
      BY <2>2 DEF Respond, ReqType
    <3>2. Where(r)' /\ PushTold(r)'
      BY <1>1, <1>5, <2>1, <3>1 DEF Where, PushTold
    <3>3. Whole(r)'
      <4>1. tries[r] <= tries[r] + 1 /\ \A k \in 0..Retries + 1 : k <= tries[r] => k <= tries[r] + 1
        BY <1>3
      <4>2. QED
        BY <1>1, <1>5, <2>1, <3>1, <4>1 DEF Whole
    <3>4. PopTold(r)'
      <4>1. call[r].op = "pop" => Cardinality(taken[r]) \in Nat
        BY <1>5, FS_CardinalityType DEF PopTold
      <4>2. QED
        BY <1>1, <1>3, <1>5, <2>1, <3>1, <4>1 DEF PopTold
    <3>5. QED
      BY <3>2, <3>3, <3>4 DEF Told
  <2>3. CASE /\ tries[r] < Retries /\ pc' = [pc EXCEPT ![r] = rt[r]]
             /\ tries' = [tries EXCEPT ![r] = @ + 1] /\ UNCHANGED <<rt, call, reply>>
    <3>1. pc'[r] = rt[r] /\ tries'[r] = tries[r] + 1 /\ tries'[r] # 0 /\ status' = status /\ result' = result
      BY <1>3, <2>3 DEF reply, ReqType
    <3>2. Where(r)' /\ PushTold(r)'
      BY <1>1, <1>5, <2>1, <3>1 DEF Where, PushTold
    <3>3. Whole(r)'
      <4>1. \A k \in 0..Retries + 1 : k <= tries[r] => k <= tries[r] + 1
        BY <1>3
      <4>2. QED
        BY <1>1, <1>5, <2>1, <3>1, <4>1 DEF Whole
    <3>4. PopTold(r)'
      <4>1. call[r].op = "pop" => Cardinality(taken[r]) \in Nat
        BY <1>5, FS_CardinalityType DEF PopTold
      <4>2. call[r].op = "pop" => pc'[r] = "pop"
        BY <1>5, <3>1 DEF Where
      <4>3. QED
        BY <1>1, <1>3, <1>5, <2>1, <3>1, <4>1, <4>2 DEF PopTold
    <3>5. QED
      BY <3>2, <3>3, <3>4 DEF Told
  <2>4. QED
    BY <1>12, <2>2, <2>3 DEF LoseRoundTrip, Lost
<1>13. QED
  BY <1>6, <1>7, <1>8, <1>9, <1>10, <1>11, <1>12

LEMMA InitOutcome == Init => OutcomeInv
BY DEF Init, InitRequests, OutcomeInv, Positive, Numbered, Told, Where, Whole, PushTold, PopTold, NoCall,
       Pushes

LEMMA NextOutcome ==
  ASSUME BoundInv, Control, OutcomeInv, [Next]_vars
  PROVE  OutcomeInv'
<1>1. Positive'
  BY NextPositive DEF OutcomeInv
<1>2. ASSUME NEW r \in Reqs, Arrive(r) \/ Refuse(r) \/ Handler(r) \/ LoseRoundTrip(r)
      PROVE  OutcomeInv'
  <2>1. \A s \in Reqs \ {r} : Told(s)'
    BY <1>2, OthersTold DEF OutcomeInv
  <2>2. CASE Script(r)
    BY <1>1, <2>1, <2>2, ScriptTold DEF OutcomeInv
  <2>3. CASE Pop(r)
    <3>1. put' = put /\ next' = next
      BY <2>3 DEF Pop, store
    <3>2. Numbered'
      BY <3>1 DEF OutcomeInv, Numbered
    <3>3. QED
      BY <1>1, <2>1, <2>3, <3>2, PopKeepsTold DEF OutcomeInv
  <2>4. CASE ~Script(r) /\ ~Pop(r)
    <3>1. Told(r)' /\ Numbered'
      BY <1>2, <2>4, QuietTold DEF Handler
    <3>2. QED
      BY <1>1, <2>1, <3>1 DEF OutcomeInv
  <2>5. QED
    BY <2>2, <2>3, <2>4
<1>3. ASSUME KeyExpires \/ KeyEvicted \/ UNCHANGED vars PROVE OutcomeInv'
  <2>1. UNCHANGED <<next, put, taken, control, reply>>
    BY <1>3 DEF KeyExpires, KeyEvicted, vars, store
  <2>2. QED
    BY <1>1, <2>1 DEF control, reply, OutcomeInv, Numbered, Told, Where, Whole, PushTold, PopTold
<1>4. QED
  BY <1>2, <1>3 DEF Next

(* Responses tell what happened to the queue, however often redis-py sent  *)
(* the script or the pop: values go in whole batches, at most one per      *)
(* execution, and a value popped is in the answer unless a lost reply      *)
(* stands between.                                                         *)
THEOREM HonestOutcome == Spec => []OutcomeHonest
<1>1. Init => BoundInv /\ Control /\ OutcomeInv
  <2>1. Init => Control
    BY DEF Init, InitRequests, Control, InFlight, Commands
  <2>2. QED
    BY <2>1, InitBound, InitOutcome
<1>2. BoundInv /\ Control /\ OutcomeInv /\ [Next]_vars => (BoundInv /\ Control /\ OutcomeInv)'
  BY NextBound, NextControl, NextOutcome
<1>3. BoundInv /\ OutcomeInv => OutcomeHonest
  <2>. SUFFICES ASSUME BoundInv, OutcomeInv, NEW r \in Reqs, pc[r] = "done"
                PROVE  /\ call[r].op \in Pushes =>
                            /\ \E k \in 0..Retries + 1 : Cardinality(put[r]) = k * call[r].n
                            /\ status[r] = 200 => put[r] # {}
                            /\ status[r] = 400 /\ tries[r] = 0 => put[r] = {}
                       /\ call[r].op = "pop" =>
                            /\ status[r] = 200 => result[r] \in taken[r]
                            /\ Cardinality(taken[r]) <= 1 + tries[r]
                            /\ status[r] = 404 /\ tries[r] = 0 => taken[r] = {}
    BY DEF OutcomeHonest
  <2>1. Whole(r) /\ PushTold(r) /\ PopTold(r) /\ tries[r] \in Nat
    BY RetriesAssumption DEF OutcomeInv, Told, BoundInv, ReqType
  <2>2. tries[r] + 1 = 1 + tries[r]
    BY <2>1
  <2>3. QED
    BY <2>1, <2>2 DEF Whole, PushTold, PopTold
<1>4. QED
  BY <1>1, <1>2, <1>3, PTL DEF Spec

(* No value goes to two consumers: the name of a value taken for a pop is  *)
(* neither in the list any more nor with another request.                  *)
THEOREM NoJobTwice == Spec => []NoDoubleDelivery
<1>1. NoDoubleDelivery /\ DequeOrder => NoDoubleDelivery
  OBVIOUS
<1>2. QED
  BY <1>1, OrderedDelivery, PTL

(* No response of 200 reports the TTL of a key that is missing, wherever a *)
(* deletion or an expiry falls between the commands of its handler.        *)
THEOREM NoTtlOfMissing == Spec => []NoMissingTtl
<1>1. Init => BoundInv /\ Control /\ NoMissingTtl
  <2>1. Init => Control /\ NoMissingTtl
    BY DEF Init, InitRequests, Control, InFlight, Commands, NoMissingTtl
  <2>2. QED
    BY <2>1, InitBound
<1>2. ASSUME BoundInv, Control, NoMissingTtl, [Next]_vars PROVE NoMissingTtl'
  <2>1. status \in [Reqs -> {0, 200, 400, 403, 404, 500}] /\ meta \in [Reqs -> Nat \cup {NoTtl, Missing}]
    BY <1>2 DEF BoundInv, ReqType
  <2>2. ASSUME NEW r \in Reqs, Arrive(r) \/ Refuse(r) \/ Handler(r) \/ LoseRoundTrip(r) PROVE NoMissingTtl'
    <3>1. CASE UNCHANGED <<meta, status>>
      BY <1>2, <3>1 DEF NoMissingTtl
    <3>2. CASE Ttl(r)
      <4>1. status[r] = 0 /\ status' = status /\ \A s \in Reqs \ {r} : meta'[s] = meta[s]
        BY <1>2, <2>1, <3>2 DEF Ttl, TtlReplied, Control
      <4>2. QED
        BY <1>2, <4>1 DEF NoMissingTtl
    <3>3. ASSUME NEW code, NEW t, Respond(r, code, t), code = 200 => t # Missing PROVE NoMissingTtl'
      BY <1>2, <2>1, <3>3 DEF Respond, NoMissingTtl
    <3>4. CASE Answer(r)
      <4>1. MetaTtl(meta[r]) # Missing /\ NoTtl # Missing
        BY DEF MetaTtl, NoTtl, Missing
      <4>2. TouchStatus(r) = 200 => meta[r] # Missing
        BY DEF TouchStatus
      <4>3. QED
        BY <3>3, <3>4, <4>1, <4>2 DEF Answer
    <3>5. CASE Refuse(r)
      BY <3>3, <3>5 DEF Refuse
    <3>6. CASE LoseRoundTrip(r)
      BY <3>1, <3>3, <3>6 DEF LoseRoundTrip, Lost, reply
    <3>7. CASE PushReply(r)
      BY <3>1, <3>3, <3>7 DEF PushReply, reply
    <3>8. CASE \/ Arrive(r) \/ Script(r) \/ Expire(r) \/ Exists(r) \/ Pop(r) \/ Read(r) \/ Del(r)
               \/ LTrim(r) \/ TrimReply(r) \/ LLen(r)
      BY <3>1, <3>8 DEF Arrive, Script, Expire, Exists, Pop, Read, Del, LTrim, TrimReply, LLen, Replied, reply
    <3>9. QED
      BY <2>2, <3>2, <3>4, <3>5, <3>6, <3>7, <3>8 DEF Handler
  <2>3. CASE KeyExpires \/ KeyEvicted \/ UNCHANGED vars
    BY <1>2, <2>3 DEF KeyExpires, KeyEvicted, vars, reply, NoMissingTtl
  <2>4. QED
    BY <1>2, <2>2, <2>3 DEF Next
<1>3. QED
  BY <1>1, <1>2, NextBound, NextControl, PTL DEF Spec

-------------------------------------------------------------------------------
(* What a trim may do *)

(* Only LTRIM takes a request from "ltrim" to "trimmed". *)
LEMMA TrimIsLTrim ==
  ASSUME BoundInv, [Next]_vars, NEW r \in Reqs, pc[r] = "ltrim", pc'[r] = "trimmed"
  PROVE  LTrim(r)
<1>. USE DEF BoundInv
<1>1. ASSUME NEW s \in Reqs, Arrive(s) \/ Refuse(s) PROVE FALSE
  <2>1. pc[s] = "idle" /\ \A q \in Reqs \ {s} : pc'[q] = pc[q]
    BY <1>1 DEF Arrive, Refuse, RoundTrip, Respond, ReqType
  <2>2. QED
    BY <2>1
<1>2. ASSUME NEW s \in Reqs, LoseRoundTrip(s) PROVE FALSE
  <2>1. \/ pc' = [pc EXCEPT ![s] = rt[s]]
        \/ pc' = [pc EXCEPT ![s] = "done"]
    BY <1>2 DEF LoseRoundTrip, Lost, Respond
  <2>2. rt[s] # "trimmed"
    BY DEF ReqType, Commands
  <2>3. QED
    BY <2>1, <2>2 DEF ReqType
<1>3. ASSUME NEW s \in Reqs, Handler(s), s # r PROVE FALSE
  <2>1. pc'[r] = pc[r]
    BY <1>3 DEF Handler, Script, PushReply, Expire, Ttl, Exists, Pop, Read, Del, LTrim, TrimReply,
                LLen, Answer, RoundTrip, Respond, Step, ReqType
  <2>2. QED
    BY <2>1
<1>4. CASE KeyExpires \/ KeyEvicted \/ UNCHANGED vars
  BY <1>4 DEF KeyExpires, KeyEvicted, vars, control
<1>5. ASSUME Handler(r) PROVE LTrim(r)
  BY <1>5 DEF Handler, Script, PushReply, Expire, Ttl, Exists, Pop, Read, Del, TrimReply, LLen, Answer
<1>6. QED
  BY <1>1, <1>2, <1>3, <1>4, <1>5 DEF Next

LEMMA TrimKeeps ==
  ASSUME BoundInv, OrderInv, NEW r \in Reqs, LTrim(r)
  PROVE  TrimStep(r)
<1>. DEFINE keep == call[r].n
            l == Trimmed(keep)
<1>1. keep \in Nat /\ keep >= 1 /\ list \in Seq(Elements) /\ list' = l
  BY CallType DEF BoundInv, ReqType, StoreType, LTrim, SetList
<1>. HIDE DEF keep
<1>2. PICK d \in Nat : Window(l, d) /\ Len(l) + d = Len(list) /\ Len(l) <= keep
  BY <1>1, TrimmedTail
<1>. HIDE DEF l
<1>3. l \in Seq(Elements) /\ \A i \in 1..Len(l) : l[i] = list[i + d]
  BY <1>2 DEF Window
<1>4. ASSUME NEW i \in 1..Len(list), NEW j \in 1..Len(l), list[i].id \notin Ids(l),
             list[i].dir = "right", l[j].dir = "right"
      PROVE  list[i].id < l[j].id
  <2>1. i <= d
    <3>1. ASSUME ~(i <= d) PROVE FALSE
      <4>1. i - d \in 1..Len(l) /\ (i - d) + d = i
        BY <1>1, <1>2, <1>3, <3>1
      <4>2. l[i - d] = list[i]
        BY <1>3, <4>1
      <4>3. list[i].id \in Ids(l)
        BY <1>3, <4>1, <4>2 DEF Ids
      <4>4. QED
        BY <1>4, <4>3
    <3>2. QED
      BY <3>1
  <2>2. j + d \in 1..Len(list) /\ i < j + d /\ l[j] = list[j + d]
    BY <1>1, <1>2, <1>3, <2>1
  <2>3. list[i].id < list[j + d].id
    BY <1>1, <1>4, <2>2 DEF OrderInv, DequeOrder
  <2>4. QED
    BY <2>2, <2>3
<1>5. list' = l /\ DOMAIN l = 1..Len(l) /\ DOMAIN list = 1..Len(list)
  BY <1>1, <1>3
<1>6. Len(list') <= call[r].n
  BY <1>2, <1>5 DEF keep
<1>7. ASSUME NEW i \in DOMAIN list, NEW j \in DOMAIN list', list[i].id \notin Ids(list'),
             list[i].dir = "right", list'[j].dir = "right"
      PROVE  list[i].id < list'[j].id
  <2>1. list[i].id \notin Ids(l) /\ i \in 1..Len(list) /\ j \in 1..Len(l) /\ l[j].dir = "right"
    BY <1>5, <1>7 DEF Ids
  <2>2. list[i].id < l[j].id
    BY <1>4, <1>7, <2>1
  <2>3. QED
    BY <1>5, <2>2
<1>8. QED
  BY <1>6, <1>7 DEF TrimStep

(* A trim leaves at most keep values and drops no right-pushed value while *)
(* it keeps an older one.                                                  *)
THEOREM TrimsOldest == Spec => TrimKeepsNewest
<1>1. ASSUME BoundInv, OrderInv, [Next]_vars
      PROVE  [\A r \in Reqs : pc[r] = "ltrim" /\ pc'[r] = "trimmed" => TrimStep(r)]_vars
  BY <1>1, TrimIsLTrim, TrimKeeps
<1>2. QED
  BY <1>1, InitBound, NextBound, InitOrder, NextOrder, PTL DEF Spec, TrimKeepsNewest
===============================================================================
