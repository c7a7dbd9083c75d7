--------------------------- MODULE EventRoutesProofs ---------------------------
(***************************************************************************)
(* Proofs about EventRoutes for every set of requests, groups and          *)
(* consumers, every length of the stream and size of its nodes, and every  *)
(* number of events and retries.                                           *)
(***************************************************************************)
EXTENDS EventRoutes, FiniteSetTheorems, TLAPS

-------------------------------------------------------------------------------
(* Facts about the operators *)

(* Integer division rounds down. *)
LEMMA DivRounds ==
  ASSUME NEW a \in Nat, NEW d \in Nat \ {0}
  PROVE  /\ d * (a \div d) \in Nat
         /\ d * (a \div d) <= a
         /\ a < d * (a \div d) + d
<1>1. d \in Int /\ d > 0 /\ a \in Int /\ a \div d \in Int
  OBVIOUS
<1>2. PICK q \in Int : q = a \div d
  BY <1>1
<1>3. d * q <= a /\ a < d * q + d /\ q >= 0
  BY <1>1, <1>2
<1>4. d * q \in Int /\ d * q >= 0
  BY <1>1, <1>3
<1> QED
  BY <1>2, <1>3, <1>4

(* What XADD leaves: at least MaxLen entries when it trims, less than      *)
(* MaxLen + NodeMax always, and the newest in any case.                    *)
LEMMA TrimKeeps ==
  ASSUME NEW oldest \in Nat, NEW n \in Nat, oldest <= n
  PROVE  /\ FirstAfter(oldest, n) \in oldest..n
         /\ FirstAfter(oldest, n) = oldest \/ n - FirstAfter(oldest, n) + 1 >= MaxLen
         /\ n - oldest + 1 <= MaxLen => FirstAfter(oldest, n) = oldest
         /\ n - FirstAfter(oldest, n) + 1 < MaxLen + NodeMax
<1> DEFINE len == n - oldest + 1
           cut == NodeMax * ((len - MaxLen) \div NodeMax)
<1>1. MaxLen \in Nat /\ MaxLen >= 1 /\ NodeMax \in Nat \ {0} /\ NodeMax >= 1
  BY EventAssumption
<1>2. CASE len > MaxLen
  <2>1. len - MaxLen \in Nat
    BY <1>1, <1>2
  <2>2. cut \in Nat /\ cut <= len - MaxLen /\ len - MaxLen < cut + NodeMax
    BY <1>1, <2>1, DivRounds
  <2>3. FirstAfter(oldest, n) = oldest + cut
    BY <1>2 DEF FirstAfter
  <2> HIDE DEF cut
  <2> QED
    BY <1>1, <1>2, <2>2, <2>3
<1>3. CASE ~(len > MaxLen)
  BY <1>1, <1>3 DEF FirstAfter
<1> QED
  BY <1>2, <1>3

(* A finite set of integers that is not empty has a largest element: of    *)
(* the upper parts of the set one has no other below it.                   *)
LEMMA MaxExists ==
  ASSUME NEW S \in SUBSET Int, IsFiniteSet(S), S # {}
  PROVE  Max(S) \in S /\ \A y \in S : Max(S) >= y
<1> DEFINE Upper(i) == {j \in S : j >= i}
           T == {Upper(i) : i \in S}
<1>1. T # {} /\ T \subseteq FiniteSubsetsOf(S)
  <2>1. T \subseteq SUBSET S /\ T # {}
    OBVIOUS
  <2> QED
    BY <2>1, FS_FiniteSubsetsOfFinite
<1>2. PICK U \in T : \A V \in T : <<V, U>> \notin StrictSubsetOrdering(S)
  <2> HIDE DEF T
  <2> QED
    BY <1>1, FS_StrictSubsetOrderingWellFounded, WFMin
<1>3. PICK m \in S : U = Upper(m)
  BY <1>2
<1>4. \A i \in S : m >= i
  <2> SUFFICES ASSUME NEW i \in S, ~(m >= i) PROVE FALSE
    OBVIOUS
  <2>1. Upper(i) \subseteq U /\ m \in U /\ m \notin Upper(i)
    <3>1. m \in Int /\ i \in Int /\ i > m
      OBVIOUS
    <3>2. \A j \in S : j >= i => j >= m
      BY <3>1
    <3>3. m >= m /\ ~(m >= i)
      BY <3>1
    <3>4. Upper(i) \subseteq Upper(m) /\ m \in Upper(m) /\ m \notin Upper(i)
      BY <3>2, <3>3
    <3> QED
      BY <1>3, <3>4
  <2>2. <<Upper(i), U>> \in StrictSubsetOrdering(S)
    BY <1>3, <2>1 DEF StrictSubsetOrdering
  <2> QED
    BY <1>2, <2>2
<1> QED
  BY <1>4 DEF Max

-------------------------------------------------------------------------------
(* Types *)

Ops == {"publish", "batch_publish", "read", "create_group", "read_group", "ack", "delete", "touch",
        "info"}
Commands == Ops \cup {"xadd", "expire", "ttl", "xinfo_groups"}

(* The commands a request passes between its arrival and its response, and *)
(* the ones its round trips start with.                                    *)
Path(op) ==
  {op, "answer"} \cup (IF op = "batch_publish" THEN {"xadd"} ELSE {})
                 \cup (IF op = "touch" THEN {"expire", "ttl"} ELSE {})
                 \cup (IF op = "info" THEN {"xinfo_groups"} ELSE {})
Starts(op) == IF op = "info" THEN {"info", "xinfo_groups"} ELSE {op}

StreamType ==
  /\ exists \in BOOLEAN /\ clock \in 0..MaxEvents
  /\ born \in 0..clock /\ first \in (born + 1)..(clock + 1)
  /\ ttl \in Nat \cup {NoTtl} /\ (~exists => ttl = NoTtl)

GroupType ==
  /\ groups \in SUBSET Groups /\ (~exists => groups = {})
  /\ delivered \in [Groups -> 0..clock]
  /\ pel = [g \in Groups |-> pel[g]]
  /\ \A g \in Groups :
       /\ g \notin groups => delivered[g] = 0
       /\ pel[g] \in [DOMAIN pel[g] -> Consumers]
       /\ DOMAIN pel[g] \subseteq (born + 1)..delivered[g]

ControlType ==
  /\ call \in [Reqs -> Calls \cup {NoCall}]
  /\ tries \in [Reqs -> 0..Retries]
  /\ pc \in [Reqs -> {"idle", "done", "answer"} \cup Commands]
  /\ rt \in [Reqs -> {"idle"} \cup Commands]

ReplyType ==
  /\ result \in [Reqs -> SUBSET (0..MaxEvents)]
  /\ meta \in [Reqs -> Nat \cup {NoTtl, Missing}]
  /\ status \in [Reqs -> {0, 200, 400, 404, 409, 500}]

(* A request in flight is on the path of its call. *)
Control ==
  \A r \in Reqs :
    /\ pc[r] = "idle" => call[r] = NoCall
    /\ pc[r] \notin {"idle", "done"} =>
         call[r] \in Calls /\ rt[r] \in Starts(call[r].op) /\ pc[r] \in Path(call[r].op)
    /\ pc[r] # "done" => status[r] = 0

EvType == StreamType /\ GroupType /\ ControlType /\ ReplyType /\ Control

LEMMA EvTypeOK == EvType => TypeOK
BY DEF EvType, StreamType, GroupType, ControlType, ReplyType, TypeOK

(* What a call record holds, whatever the endpoint. *)
LEMMA CallType ==
  ASSUME NEW c \in Calls
  PROVE  /\ c.op \in Ops
         /\ c.op \in {"create_group", "read_group", "ack"} => c.group \in Groups
         /\ c.op = "read_group" => c.consumer \in Consumers
         /\ c.op = "touch" => c.ttl \in Nat
<1>1. /\ c.op \in Ops
      /\ c.op \in {"create_group", "read_group", "ack"} => c.group \in Groups
      /\ c.op = "read_group" => c.consumer \in Consumers
  BY DEF Calls, Plain, Call, Ops
<1>2. c.op = "touch" => c.ttl \in BodyTtls
  BY DEF Calls, Plain, Call
<1> QED
  BY <1>1, <1>2, EventAssumption

LEMMA NoCallOp == NoCall.op = "none"
BY DEF NoCall, Plain, Call

(* Where the handler of each endpoint may be. *)
LEMMA AtCommand ==
  ASSUME EvType, NEW r \in Reqs, pc[r] \notin {"idle", "done"}
  PROVE  /\ call[r] \in Calls /\ call[r].op \in Ops
         /\ rt[r] \in Starts(call[r].op)
         /\ "answer" \in Path(call[r].op)
         /\ pc[r] \in Ops => call[r].op = pc[r]
         /\ pc[r] = "xadd" => call[r].op = "batch_publish"
         /\ pc[r] \in {"expire", "ttl"} => call[r].op = "touch"
         /\ pc[r] = "xinfo_groups" => call[r].op = "info"
         /\ status[r] = 0
<1>1. call[r] \in Calls /\ rt[r] \in Starts(call[r].op) /\ pc[r] \in Path(call[r].op) /\ status[r] = 0
  BY DEF EvType, Control
<1>2. call[r].op \in Ops
  BY <1>1, CallType
<1> QED
  BY <1>1, <1>2 DEF Path, Ops

LEMMA EvTypeInit == Init => EvType
<1> SUFFICES ASSUME Init PROVE EvType
  OBVIOUS
<1>1. StreamType
  <2>1. exists = FALSE /\ clock = 0 /\ born = 0 /\ first = 1 /\ ttl = NoTtl
    BY DEF Init
  <2>2. clock \in 0..MaxEvents /\ born \in 0..clock /\ first \in (born + 1)..(clock + 1)
    BY <2>1, EventAssumption
  <2> QED
    BY <2>1, <2>2 DEF StreamType
<1>2. \A g \in Groups : pel[g] = NoPel
  BY DEF Init
<1>3. NoPel \in [{} -> Consumers] /\ DOMAIN NoPel = {}
  BY DEF NoPel
<1>4. GroupType
  BY <1>2, <1>3 DEF Init, GroupType
<1>5. ControlType /\ ReplyType /\ Control
  BY RetriesAssumption DEF Init, InitRequests, ControlType, ReplyType, Control
<1> QED
  BY <1>1, <1>4, <1>5 DEF EvType

(* The changes of the stream and its groups. *)
LEMMA XaddType ==
  ASSUME EvType, Xadd
  PROVE  StreamType' /\ GroupType' /\ clock + 1 \in 0..MaxEvents
<1> DEFINE oldest == IF exists THEN first ELSE clock + 1
<1>1. StreamType /\ GroupType /\ MaxEvents \in Nat
  BY EventAssumption DEF EvType
<1>2. /\ clock \in Nat /\ clock < MaxEvents /\ clock' = clock + 1 /\ exists' = TRUE
      /\ born' = (IF exists THEN born ELSE clock) /\ first' = FirstAfter(oldest, clock + 1)
      /\ UNCHANGED <<ttl, groups, delivered, pel>>
  BY <1>1 DEF Xadd, state, StreamType
<1>3. born \in Nat /\ born <= clock /\ oldest \in Nat /\ born' + 1 <= oldest /\ oldest <= clock + 1
  BY <1>1, <1>2 DEF StreamType
<1>4. FirstAfter(oldest, clock + 1) \in oldest..clock + 1
  <2> HIDE DEF oldest
  <2> QED
    BY <1>2, <1>3, TrimKeeps
<1>5. StreamType'
  <2> HIDE DEF oldest
  <2>1. exists' \in BOOLEAN /\ clock' \in 0..MaxEvents /\ born' \in 0..clock'
    BY <1>1, <1>2, <1>3
  <2>2. first' \in (born' + 1)..(clock' + 1)
    BY <1>2, <1>3, <1>4
  <2> QED
    BY <1>1, <1>2, <2>1, <2>2 DEF StreamType
<1>6. GroupType'
  <2>1. delivered' \in [Groups -> 0..clock']
    BY <1>1, <1>2 DEF GroupType
  <2>2. ASSUME NEW g \in Groups PROVE DOMAIN pel[g] \subseteq (born' + 1)..delivered[g]
    <3>1. DOMAIN pel[g] \subseteq (born + 1)..delivered[g] /\ (~exists => delivered[g] = 0)
      BY <1>1 DEF GroupType
    <3>2. ~exists => DOMAIN pel[g] = {}
      BY <1>3, <3>1
    <3> QED
      BY <1>2, <3>1, <3>2
  <2> QED
    BY <1>1, <1>2, <2>1, <2>2 DEF GroupType
<1> QED
  BY <1>1, <1>2, <1>5, <1>6

LEMMA GoneType ==
  ASSUME EvType, Gone
  PROVE  StreamType' /\ GroupType'
<1>1. StreamType'
  BY DEF Gone, EvType, StreamType
<1>2. NoPel \in [{} -> Consumers] /\ DOMAIN NoPel = {}
  BY DEF NoPel
<1>3. delivered' \in [Groups -> 0..clock'] /\ \A g \in Groups : pel'[g] = NoPel /\ delivered'[g] = 0
  BY DEF Gone, EvType, StreamType
<1> QED
  BY <1>1, <1>2, <1>3 DEF Gone, GroupType

(* XREADGROUP: the new entries are in the stream, behind those delivered,  *)
(* and the group moves to the last of them.                                *)
New(r, g) == FirstOf(call[r].count, {i \in Live : i > delivered[g]})

LEMMA NewEntries ==
  ASSUME EvType, NEW r \in Reqs, NEW g \in Groups
  PROVE  /\ New(r, g) \subseteq (born + 1)..clock
         /\ \A i \in New(r, g) : i > delivered[g] /\ i <= Max(New(r, g) \cup {delivered[g]})
         /\ Max(New(r, g) \cup {delivered[g]}) \in delivered[g]..clock
<1> DEFINE S == New(r, g) \cup {delivered[g]}
<1>1. clock \in Nat /\ born \in Nat /\ first \in Nat /\ first >= born + 1 /\ delivered[g] \in 0..clock
  BY EventAssumption DEF EvType, StreamType, GroupType
<1>2. New(r, g) \subseteq {i \in first..clock : i > delivered[g]}
  BY DEF New, FirstOf, Live
<1>3. S \subseteq 0..clock
  BY <1>1, <1>2
<1>4. IsFiniteSet(S) /\ S # {} /\ S \subseteq Int
  <2>1. IsFiniteSet(0..clock)
    BY <1>1, FS_Interval
  <2>2. IsFiniteSet(S)
    BY <1>3, <2>1, FS_Subset
  <2> QED
    BY <1>3, <2>2
<1>5. Max(S) \in S /\ \A y \in S : Max(S) >= y
  <2> HIDE DEF S
  <2> QED
    BY <1>4, MaxExists
<1>6. Max(S) \in 0..clock /\ \A y \in S : y <= Max(S)
  <2> HIDE DEF S
  <2> QED
    BY <1>1, <1>3, <1>5
<1>7. Max(S) >= delivered[g]
  BY <1>5
<1> QED
  BY <1>1, <1>2, <1>6, <1>7

(* A step inside a round trip, of a request that is on its path. *)
LEMMA StepControl ==
  ASSUME EvType, NEW r \in Reqs, NEW p, Step(r, p), UNCHANGED status,
         pc[r] \notin {"idle", "done"}, p \in Path(call[r].op)
  PROVE  ControlType' /\ Control'
<1>1. call[r].op \in Ops
  BY AtCommand
<1>2. p \in {"answer"} \cup Commands
  BY <1>1 DEF Path, Commands, Ops
<1>3. ControlType'
  BY <1>2 DEF Step, EvType, ControlType
<1>4. p # "idle" /\ p # "done"
  BY <1>2 DEF Commands, Ops
<1>5. Control'
  BY <1>4 DEF Step, EvType, ControlType, Control
<1> QED
  BY <1>3, <1>5

(* The response of a request. *)
Responded(r) ==
  /\ pc' = [pc EXCEPT ![r] = "done"]
  /\ status' = [status EXCEPT ![r] = status'[r]] /\ status'[r] \in {200, 400, 404, 409, 500}
  /\ meta' = [meta EXCEPT ![r] = meta'[r]] /\ meta'[r] \in Nat \cup {NoTtl, Missing}
  /\ UNCHANGED <<rt, tries, call, result>>

LEMMA RespondType ==
  ASSUME EvType, NEW r \in Reqs, Responded(r)
  PROVE  ReplyType' /\ ControlType' /\ Control'
<1>1. ReplyType /\ ControlType /\ Control
  BY DEF EvType
<1>2. ReplyType' /\ ControlType'
  BY <1>1 DEF Responded, ReplyType, ControlType
<1>3. Control'
  BY <1>1 DEF Responded, ReplyType, ControlType, Control
<1> QED
  BY <1>2, <1>3

(* A command whose reply is a set of entries. *)
LEMMA DataReplyType ==
  ASSUME EvType, NEW r \in Reqs, NEW v \in SUBSET (0..MaxEvents), Replied(r, v)
  PROVE  ReplyType' /\ UNCHANGED status
BY DEF Replied, EvType, ReplyType

(* Deleting, creating and publishing keep the types. *)
LEMMA HandlerType ==
  ASSUME EvType, NEW r \in Reqs, Handler(r)
  PROVE  EvType'
<1> DEFINE op == call[r].op
<1>1. StreamType /\ GroupType /\ ControlType /\ ReplyType
  BY DEF EvType
<1>2. SUFFICES StreamType' /\ GroupType' /\ ReplyType' /\ ControlType' /\ Control'
  BY DEF EvType
<1>3. UNCHANGED store => StreamType' /\ GroupType'
  BY <1>1 DEF store, stream, state, StreamType, GroupType
<1>4. UNCHANGED reply => ReplyType' /\ UNCHANGED status
  BY <1>1 DEF reply, ReplyType
<1>5. Live \subseteq 0..MaxEvents /\ clock \in Nat /\ born \in Nat /\ {} \in SUBSET (0..MaxEvents)
  BY <1>1, EventAssumption DEF StreamType, Live
<1>6. CASE Publish(r)
  <2>1. clock + 1 \in 0..MaxEvents /\ StreamType' /\ GroupType'
    BY <1>6, XaddType DEF Publish
  <2>2. ReplyType' /\ UNCHANGED status
    BY <1>6, <2>1, DataReplyType DEF Publish
  <2> QED
    BY <1>6, <2>1, <2>2, AtCommand, StepControl DEF Publish
<1>7. CASE BatchPublish(r)
  <2>1. Xadd /\ pc[r] \in {"batch_publish", "xadd"}
    BY <1>7 DEF BatchPublish
  <2>2. clock + 1 \in 0..MaxEvents /\ StreamType' /\ GroupType'
    BY <2>1, XaddType
  <2>3. op = "batch_publish" /\ "xadd" \in Path(op)
    BY <2>1, AtCommand DEF Path, Ops
  <2>4. result[r] \cup {clock + 1} \in SUBSET (0..MaxEvents) /\ {clock + 1} \in SUBSET (0..MaxEvents)
    BY <1>1, <2>2 DEF ReplyType
  <2>5. ReplyType' /\ UNCHANGED status
    BY <1>7, <2>4, DataReplyType DEF BatchPublish
  <2>6. Step(r, "xadd") \/ Step(r, "answer")
    BY <1>7 DEF BatchPublish
  <2> QED
    BY <2>1, <2>2, <2>3, <2>5, <2>6, AtCommand, StepControl
<1>8. CASE Read(r)
  <2>1. PICK id \in call[r].ids : Replied(r, FirstOf(call[r].count, {i \in Live : i > id}))
    BY <1>8 DEF Read
  <2>2. FirstOf(call[r].count, {i \in Live : i > id}) \in SUBSET (0..MaxEvents)
    BY <1>5 DEF FirstOf
  <2>3. ReplyType' /\ UNCHANGED status
    BY <2>1, <2>2, DataReplyType
  <2> QED
    BY <1>3, <1>8, <2>3, AtCommand, StepControl DEF Read
<1>9. CASE CreateGroup(r)
  <2> DEFINE g == call[r].group
  <2>1. op = "create_group" /\ g \in Groups /\ pc[r] = "create_group"
    BY <1>9, AtCommand, CallType DEF CreateGroup, Ops
  <2>2. CASE Respond(r, 409, NoTtl) /\ UNCHANGED store
    <3>1. Responded(r)
      BY <1>1, <2>2 DEF Respond, Responded, ReplyType
    <3> QED
      BY <1>3, <2>2, <3>1, RespondType
  <2>3. CASE ~(Respond(r, 409, NoTtl) /\ UNCHANGED store)
    <3>1. /\ g \notin groups /\ exists' = TRUE /\ born' = (IF exists THEN born ELSE clock)
          /\ first' = (IF exists THEN first ELSE clock + 1) /\ groups' = groups \cup {g}
          /\ delivered' = [delivered EXCEPT ![g] = 0] /\ pel' = [pel EXCEPT ![g] = NoPel]
          /\ Step(r, "answer") /\ UNCHANGED <<clock, ttl, reply>>
      BY <1>9, <2>3 DEF CreateGroup
    <3>2. StreamType'
      BY <1>1, <1>5, <3>1 DEF StreamType
    <3>3. NoPel \in [{} -> Consumers] /\ DOMAIN NoPel = {}
      BY DEF NoPel
    <3>4. \A h \in Groups : ~exists => delivered[h] = 0 /\ DOMAIN pel[h] = {}
      <4>1. \A h \in Groups : ~exists => delivered[h] = 0
        BY <1>1 DEF GroupType
      <4>2. (born + 1)..0 = {}
        BY <1>5
      <4> QED
        BY <1>1, <4>1, <4>2 DEF GroupType
    <3>5. GroupType'
      <4>1. /\ groups' \in SUBSET Groups /\ delivered' \in [Groups -> 0..clock']
            /\ pel' = [h \in Groups |-> pel'[h]]
        BY <1>1, <1>5, <2>1, <3>1 DEF GroupType
      <4>2. ASSUME NEW h \in Groups
            PROVE  /\ h \notin groups' => delivered'[h] = 0
                   /\ pel'[h] \in [DOMAIN pel'[h] -> Consumers]
                   /\ DOMAIN pel'[h] \subseteq (born' + 1)..delivered'[h]
        <5>1. CASE h = g
          <6>1. pel'[h] = NoPel
            BY <1>1, <2>1, <3>1, <5>1 DEF GroupType
          <6> QED
            BY <3>1, <3>3, <5>1, <6>1
        <5>2. CASE h # g
          <6>1. pel'[h] = pel[h] /\ delivered'[h] = delivered[h]
            BY <1>1, <2>1, <3>1, <5>2 DEF GroupType
          <6> QED
            BY <1>1, <3>1, <3>4, <5>2, <6>1 DEF GroupType
        <5> QED
          BY <5>1, <5>2
      <4> QED
        BY <3>1, <4>1, <4>2 DEF GroupType
    <3> QED
      BY <1>4, <2>1, <3>1, <3>2, <3>5, AtCommand, StepControl
  <2> QED
    BY <2>2, <2>3
<1>10. CASE ReadGroup(r)
  <2> DEFINE g == call[r].group
             new == New(r, g)
  <2>1. op = "read_group" /\ g \in Groups /\ pc[r] = "read_group" /\ call[r].consumer \in Consumers
    BY <1>10, AtCommand, CallType DEF ReadGroup, Ops
  <2>2. CASE Respond(r, 404, NoTtl) /\ UNCHANGED store
    <3>1. Responded(r)
      BY <1>1, <2>2 DEF Respond, Responded, ReplyType
    <3> QED
      BY <1>3, <2>2, <3>1, RespondType
  <2>3. CASE ~(Respond(r, 404, NoTtl) /\ UNCHANGED store)
    <3>1. /\ g \in groups /\ delivered' = [delivered EXCEPT ![g] = Max(new \cup {@})]
          /\ pel' = [pel EXCEPT ![g] = [i \in new \cup DOMAIN @ |->
                                          IF i \in new THEN call[r].consumer ELSE @[i]]]
          /\ Replied(r, new) /\ Step(r, "answer") /\ UNCHANGED <<stream, groups>>
      BY <1>10, <2>3 DEF ReadGroup, New
    <3>2. /\ new \subseteq (born + 1)..clock
          /\ \A i \in new : i > delivered[g] /\ i <= Max(new \cup {delivered[g]})
          /\ Max(new \cup {delivered[g]}) \in delivered[g]..clock
      BY <2>1, NewEntries
    <3> HIDE DEF new
    <3>3. StreamType' /\ UNCHANGED <<exists, clock, born>>
      BY <1>1, <3>1 DEF stream, StreamType
    <3>4. GroupType'
      <4> DEFINE d == Max(new \cup {delivered[g]})
                 p == [i \in new \cup DOMAIN pel[g] |-> IF i \in new THEN call[r].consumer ELSE pel[g][i]]
      <4>1. delivered' = [delivered EXCEPT ![g] = d] /\ pel' = [pel EXCEPT ![g] = p]
            /\ delivered[g] \in 0..clock
        BY <1>1, <2>1, <3>1 DEF GroupType
      <4>2. pel[g] \in [DOMAIN pel[g] -> Consumers] /\ DOMAIN pel[g] \subseteq (born + 1)..delivered[g]
        BY <1>1, <2>1 DEF GroupType
      <4>3. p \in [DOMAIN p -> Consumers] /\ DOMAIN p = new \cup DOMAIN pel[g]
        BY <2>1, <4>2
      <4> HIDE DEF p, d
      <4>4. d \in 0..clock /\ d >= delivered[g] /\ \A i \in new : i <= d
        BY <1>5, <3>2, <4>1 DEF d
      <4>5. new \subseteq (born + 1)..d
        BY <1>5, <3>2, <4>4
      <4>6. DOMAIN p \subseteq (born + 1)..d
        BY <1>5, <4>1, <4>2, <4>3, <4>4, <4>5
      <4>7. delivered' \in [Groups -> 0..clock'] /\ pel' = [h \in Groups |-> pel'[h]]
        BY <1>1, <2>1, <3>3, <4>1, <4>4 DEF GroupType
      <4>8. ASSUME NEW h \in Groups
            PROVE  /\ h \notin groups => delivered'[h] = 0
                   /\ pel'[h] \in [DOMAIN pel'[h] -> Consumers]
                   /\ DOMAIN pel'[h] \subseteq (born + 1)..delivered'[h]
        <5>1. CASE h = g
          <6>1. pel'[h] = p /\ delivered'[h] = d
            BY <1>1, <2>1, <4>1, <5>1 DEF GroupType
          <6> QED
            BY <3>1, <4>3, <4>6, <5>1, <6>1
        <5>2. CASE h # g
          <6>1. pel'[h] = pel[h] /\ delivered'[h] = delivered[h]
            BY <1>1, <2>1, <4>1, <5>2 DEF GroupType
          <6> QED
            BY <1>1, <6>1 DEF GroupType
        <5> QED
          BY <5>1, <5>2
      <4> QED
        BY <1>1, <3>1, <3>3, <4>7, <4>8 DEF GroupType
    <3>5. new \in SUBSET (0..MaxEvents)
      BY <1>1, <1>5, <3>2, EventAssumption DEF StreamType
    <3>6. ReplyType' /\ UNCHANGED status
      BY <3>1, <3>5, DataReplyType
    <3> QED
      BY <2>1, <3>1, <3>3, <3>4, <3>6, AtCommand, StepControl
  <2> QED
    BY <2>2, <2>3
<1>11. CASE Ack(r)
  <2> DEFINE g == call[r].group
             p == [i \in DOMAIN pel[g] \ call[r].ids |-> pel[g][i]]
  <2>1. op = "ack" /\ g \in Groups /\ pc[r] = "ack"
    BY <1>11, AtCommand, CallType DEF Ack, Ops
  <2>2. pel[g] \in [DOMAIN pel[g] -> Consumers] /\ DOMAIN pel[g] \subseteq (born + 1)..delivered[g]
        /\ delivered[g] \in 0..clock
    BY <1>1, <2>1 DEF GroupType
  <2>3. pel' = [pel EXCEPT ![g] = p] /\ UNCHANGED <<stream, groups, delivered>>
    BY <1>11 DEF Ack
  <2>4. StreamType'
    BY <1>1, <2>3 DEF stream, StreamType
  <2>5. p \in [DOMAIN p -> Consumers] /\ DOMAIN p \subseteq DOMAIN pel[g]
    BY <2>2
  <2>6. GroupType'
    <3> HIDE DEF p
    <3>1. pel' = [h \in Groups |-> pel'[h]]
      BY <1>1, <2>1, <2>3 DEF GroupType
    <3>2. \A h \in Groups : pel'[h] = IF h = g THEN p ELSE pel[h]
      BY <1>1, <2>1, <2>3 DEF GroupType
    <3> QED
      BY <1>1, <2>2, <2>3, <2>5, <3>1, <3>2 DEF GroupType, stream
  <2>7. call[r].ids \cap DOMAIN pel[g] \in SUBSET (0..MaxEvents)
    BY <1>1, <1>5, <2>2, EventAssumption DEF StreamType
  <2>8. ReplyType' /\ UNCHANGED status
    BY <1>11, <2>7, DataReplyType DEF Ack
  <2> QED
    BY <1>11, <2>1, <2>4, <2>6, <2>8, AtCommand, StepControl DEF Ack
<1>12. CASE Delete(r)
  <2>1. CASE exists /\ Gone /\ Step(r, "answer") /\ UNCHANGED reply
    BY <1>4, <1>12, <2>1, GoneType, AtCommand, StepControl DEF Delete
  <2>2. CASE ~exists /\ Respond(r, 404, NoTtl) /\ UNCHANGED store
    <3>1. Responded(r)
      BY <1>1, <2>2 DEF Respond, Responded, ReplyType
    <3> QED
      BY <1>3, <2>2, <3>1, RespondType
  <2> QED
    BY <1>12, <2>1, <2>2 DEF Delete
<1>13. CASE TouchExists(r)
  <2>1. op = "touch" /\ "expire" \in Path(op)
    BY <1>13, AtCommand DEF TouchExists, Path, Ops
  <2>2. (IF exists THEN {0} ELSE {}) \in SUBSET (0..MaxEvents)
    BY EventAssumption
  <2>3. ReplyType' /\ UNCHANGED status
    BY <1>13, <2>2, DataReplyType DEF TouchExists
  <2> QED
    BY <1>3, <1>13, <2>1, <2>3, StepControl DEF TouchExists
<1>14. CASE Expire(r)
  <2>1. op = "touch" /\ "ttl" \in Path(op) /\ call[r].ttl \in Nat
    BY <1>14, AtCommand, CallType DEF Expire, Path, Ops
  <2>2. StreamType' /\ GroupType'
    BY <1>1, <1>14, <2>1 DEF Expire, StreamType, GroupType, ExpireOrPersist, state
  <2> QED
    BY <1>4, <1>14, <2>1, <2>2, StepControl DEF Expire, reply
<1>15. CASE Ttl(r)
  <2>1. ReplyType' /\ UNCHANGED status
    BY <1>1, <1>15 DEF Ttl, TtlReplied, TtlReply, ReplyType, StreamType
  <2> QED
    BY <1>3, <1>15, <2>1, AtCommand, StepControl DEF Ttl
<1>16. CASE Info(r)
  <2>1. UNCHANGED store /\ pc[r] \in {"info", "xinfo_groups"} /\ op = "info"
    BY <1>16, AtCommand DEF Info, Ops
  <2>2. CASE Replied(r, Live) /\ RoundTrip(r, "xinfo_groups") /\ UNCHANGED call
    <3>1. ReplyType' /\ UNCHANGED status
      BY <1>5, <2>2, DataReplyType
    <3>2. ControlType'
      BY <1>1, <2>2, RetriesAssumption DEF RoundTrip, ControlType, Commands
    <3>3. "xinfo_groups" \in Path(op) /\ "xinfo_groups" \in Starts(op)
      BY <2>1 DEF Path, Starts
    <3>4. Control'
      BY <1>1, <2>1, <2>2, <3>1, <3>3 DEF RoundTrip, ControlType, EvType, Control
    <3> QED
      BY <1>3, <2>1, <3>1, <3>2, <3>4
  <2>3. CASE Respond(r, 404, NoTtl)
    <3>1. Responded(r)
      BY <1>1, <2>3 DEF Respond, Responded, ReplyType
    <3> QED
      BY <1>3, <2>1, <3>1, RespondType
  <2>4. CASE pc[r] = "xinfo_groups" /\ Step(r, "answer") /\ UNCHANGED reply
    BY <1>3, <1>4, <2>1, <2>4, AtCommand, StepControl
  <2> QED
    BY <1>16, <2>2, <2>3, <2>4 DEF Info
<1>17. CASE Answer(r)
  <2>1. meta[r] \in Nat \cup {NoTtl, Missing}
    BY <1>1 DEF ReplyType
  <2>2. Responded(r)
    BY <1>1, <1>17, <2>1 DEF Answer, Respond, Responded, ReplyType
  <2> QED
    BY <1>3, <1>17, <2>2, RespondType DEF Answer
<1> QED
  BY <1>6, <1>7, <1>8, <1>9, <1>10, <1>11, <1>12, <1>13, <1>14, <1>15, <1>16, <1>17 DEF Handler

LEMMA GoneKeeps ==
  ASSUME EvType, KeyExpires \/ KeyEvicted
  PROVE  EvType'
<1>1. Gone /\ UNCHANGED <<control, reply>>
  BY DEF KeyExpires, KeyEvicted
<1>2. StreamType' /\ GroupType'
  BY <1>1, GoneType
<1>3. ControlType' /\ ReplyType' /\ Control'
  BY <1>1 DEF control, reply, EvType, ControlType, ReplyType, Control
<1> QED
  BY <1>2, <1>3 DEF EvType

(* A lost round trip is sent again from its first command, or given up. *)
LEMMA LostType ==
  ASSUME EvType, NEW r \in Reqs, Lost(r)
  PROVE  ReplyType' /\ ControlType' /\ Control'
<1>1. ControlType /\ ReplyType
  BY DEF EvType
<1>2. CASE Respond(r, 500, NoTtl)
  <2>1. Responded(r)
    BY <1>1, <1>2 DEF Respond, Responded, ReplyType
  <2> QED
    BY <2>1, RespondType
<1>3. CASE ~Respond(r, 500, NoTtl)
  <2>1. /\ pc[r] \notin {"idle", "done"} /\ tries[r] < Retries
        /\ pc' = [pc EXCEPT ![r] = rt[r]] /\ tries' = [tries EXCEPT ![r] = @ + 1]
        /\ UNCHANGED <<rt, call, reply>>
    BY <1>3 DEF Lost
  <2>2. call[r] \in Calls /\ rt[r] \in Starts(call[r].op) /\ call[r].op \in Ops
    BY <2>1, AtCommand
  <2>3. rt[r] \in Path(call[r].op) /\ rt[r] \in Commands
    BY <2>2 DEF Starts, Path, Commands
  <2>4. tries[r] + 1 \in 0..Retries
    BY <1>1, <2>1, RetriesAssumption DEF ControlType
  <2>5. ReplyType' /\ ControlType'
    BY <1>1, <2>1, <2>3, <2>4 DEF reply, ReplyType, ControlType
  <2>6. rt[r] \notin {"idle", "done"}
    BY <2>3 DEF Commands, Ops
  <2>7. Control'
    BY <1>1, <2>1, <2>2, <2>3, <2>6 DEF reply, ControlType, EvType, Control
  <2> QED
    BY <2>5, <2>7
<1> QED
  BY <1>2, <1>3

LEMMA ArriveType ==
  ASSUME EvType, NEW r \in Reqs, Arrive(r)
  PROVE  EvType'
<1>1. PICK c \in Calls : call' = [call EXCEPT ![r] = c] /\ RoundTrip(r, c.op)
  BY DEF Arrive
<1>2. c.op \in Ops /\ c.op \in Commands /\ c.op \in Path(c.op) /\ c.op \in Starts(c.op)
  BY CallType DEF Commands, Path, Starts
<1>3. UNCHANGED <<store, reply>> /\ pc[r] = "idle"
  BY DEF Arrive
<1>4. StreamType' /\ GroupType' /\ ReplyType'
  BY <1>3 DEF store, stream, state, reply, EvType, StreamType, GroupType, ReplyType
<1>5. ControlType'
  BY <1>1, <1>2, RetriesAssumption DEF RoundTrip, EvType, ControlType
<1>6. c.op \notin {"idle", "done"}
  BY <1>2 DEF Ops
<1>7. Control'
  BY <1>1, <1>2, <1>3, <1>6 DEF RoundTrip, reply, EvType, ControlType, Control
<1> QED
  BY <1>4, <1>5, <1>7 DEF EvType

LEMMA RequestType ==
  ASSUME EvType, NEW r \in Reqs, Arrive(r) \/ Refuse(r) \/ Handler(r) \/ LoseRoundTrip(r)
  PROVE  EvType'
<1>1. UNCHANGED store => StreamType' /\ GroupType'
  BY DEF store, stream, state, EvType, StreamType, GroupType
<1>2. CASE Refuse(r)
  <2>1. Responded(r) /\ UNCHANGED store
    BY <1>2 DEF Refuse, Respond, Responded, EvType, ReplyType
  <2> QED
    BY <1>1, <2>1, RespondType DEF EvType
<1>3. CASE LoseRoundTrip(r)
  BY <1>1, <1>3, LostType DEF LoseRoundTrip, EvType
<1> QED
  BY <1>2, <1>3, ArriveType, HandlerType

LEMMA EvTypeStep == EvType /\ [Next]_vars => EvType'
<1>1. ASSUME EvType, UNCHANGED vars PROVE EvType'
  BY <1>1 DEF vars, store, stream, state, control, reply, EvType, StreamType, GroupType, ControlType,
              ReplyType, Control
<1> QED
  BY <1>1, RequestType, GoneKeeps DEF Next

(* Event routes: every variable stays in its type, and what a group has    *)
(* delivered and what is pending in it are events of the present life of   *)
(* the key, whatever is trimmed, deleted or lost.                          *)
THEOREM EventTypeCorrect == Spec => []TypeOK
BY EvTypeInit, EvTypeStep, EvTypeOK, PTL DEF Spec

-------------------------------------------------------------------------------
(* What a step does to the stream and to the requests *)

(* Request r moves, the others do not. *)
Moves(r) ==
  /\ \A s \in Reqs \ {r} : /\ pc'[s] = pc[s] /\ call'[s] = call[s]
                           /\ result'[s] = result[s] /\ status'[s] = status[s]
  /\ pc'[r] # "idle"
  /\ pc[r] # "idle" => call'[r] = call[r]

(* The changes of the stream and the groups. *)
Created(g) ==
  /\ g \in Groups /\ g \notin groups
  /\ exists' = TRUE
  /\ born' = IF exists THEN born ELSE clock
  /\ first' = IF exists THEN first ELSE clock + 1
  /\ groups' = groups \cup {g}
  /\ delivered' = [delivered EXCEPT ![g] = 0]
  /\ pel' = [pel EXCEPT ![g] = NoPel]
  /\ UNCHANGED clock

ReadNew(r) ==
  LET g == call[r].group IN
  /\ call[r].op = "read_group" /\ pc[r] = "read_group" /\ g \in groups
  /\ delivered' = [delivered EXCEPT ![g] = Max(New(r, g) \cup {@})]
  /\ pel' = [pel EXCEPT ![g] = [i \in New(r, g) \cup DOMAIN @ |->
                                  IF i \in New(r, g) THEN call[r].consumer ELSE @[i]]]
  /\ result' = [result EXCEPT ![r] = New(r, g)]
  /\ pc' = [pc EXCEPT ![r] = "answer"]
  /\ UNCHANGED <<call, status, stream, groups>>

Acked(r) ==
  LET g == call[r].group IN
  /\ call[r].op = "ack" /\ pc[r] = "ack" /\ g \in Groups
  /\ pel' = [pel EXCEPT ![g] = [i \in DOMAIN @ \ call[r].ids |-> @[i]]]
  /\ UNCHANGED <<stream, groups, delivered>>

Effect(r) ==
  \/ UNCHANGED <<exists, clock, born, first, groups, delivered, pel>>
  \/ Xadd \/ Gone \/ ReadNew(r) \/ Acked(r)
  \/ \E g \in Groups : Created(g)

(* The reader r has its events, or the answer with them. *)
Got(r, g) == call[r].op = "read_group" /\ call[r].group = g /\ (pc[r] = "answer" \/ status[r] = 200)

(* Nothing new is delivered to r. *)
Quiet(r) == \A g \in Groups : Got(r, g)' => Got(r, g) /\ result'[r] = result[r]

LEMMA HandlerEffect ==
  ASSUME EvType, NEW r \in Reqs, Handler(r)
  PROVE  Moves(r) /\ Effect(r) /\ (ReadNew(r) \/ Quiet(r))
<1> DEFINE op == call[r].op
<1>0. ControlType /\ ReplyType
  BY DEF EvType
<1>1. UNCHANGED store => Effect(r)
  BY DEF store, stream, state, Effect
<1>2. op # "read_group" /\ UNCHANGED call => Quiet(r)
  BY DEF Quiet, Got
<1>3. ASSUME Responded(r) PROVE Moves(r)
  BY <1>0, <1>3 DEF Responded, Moves, ControlType, ReplyType
<1>4. ASSUME NEW p \in {"answer"} \cup Commands, Step(r, p),
             UNCHANGED status, UNCHANGED result \/ \E v : result' = [result EXCEPT ![r] = v]
      PROVE  Moves(r) /\ UNCHANGED call
  <2>1. p # "idle"
    BY DEF Commands, Ops
  <2> QED
    BY <1>0, <1>4, <2>1 DEF Step, Moves, ControlType, ReplyType
<1>5. CASE Publish(r) \/ BatchPublish(r)
  <2>1. Xadd /\ pc[r] \in {"publish", "batch_publish", "xadd"}
    BY <1>5 DEF Publish, BatchPublish
  <2>2. op \in {"publish", "batch_publish"}
    BY <2>1, AtCommand DEF Ops
  <2>3. \E p \in {"answer", "xadd"} : Step(r, p)
    BY <1>5 DEF Publish, BatchPublish
  <2>4. UNCHANGED status /\ \E v : result' = [result EXCEPT ![r] = v]
    BY <1>5 DEF Publish, BatchPublish, Replied
  <2> QED
    BY <1>2, <1>4, <2>1, <2>2, <2>3, <2>4 DEF Effect, Commands
<1>6. CASE Read(r) \/ TouchExists(r)
  <2>1. UNCHANGED store /\ pc[r] \in {"read", "touch"}
    BY <1>6 DEF Read, TouchExists
  <2>2. op \in {"read", "touch"}
    BY <2>1, AtCommand DEF Ops
  <2>3. \E p \in {"answer", "expire"} : Step(r, p)
    BY <1>6 DEF Read, TouchExists
  <2>4. UNCHANGED status /\ \E v : result' = [result EXCEPT ![r] = v]
    BY <1>6 DEF Read, TouchExists, Replied
  <2> QED
    BY <1>1, <1>2, <1>4, <2>1, <2>2, <2>3, <2>4 DEF Commands
<1>7. CASE CreateGroup(r)
  <2>1. op = "create_group" /\ call[r].group \in Groups
    BY <1>7, AtCommand, CallType DEF CreateGroup, Ops
  <2>2. CASE Respond(r, 409, NoTtl) /\ UNCHANGED store
    BY <1>0, <1>1, <1>2, <1>3, <2>1, <2>2 DEF Respond, Responded, ReplyType
  <2>3. CASE Created(call[r].group) /\ Step(r, "answer") /\ UNCHANGED reply
    BY <1>2, <1>4, <2>1, <2>3 DEF reply, Effect
  <2> QED
    BY <1>7, <2>1, <2>2, <2>3 DEF CreateGroup, Created
<1>8. CASE ReadGroup(r)
  <2>1. op = "read_group" /\ call[r].group \in Groups /\ status[r] = 0
    BY <1>8, AtCommand, CallType DEF ReadGroup, Ops
  <2>2. CASE Respond(r, 404, NoTtl) /\ UNCHANGED store
    <3>1. Moves(r)
      BY <1>0, <1>3, <2>2 DEF Respond, Responded, ReplyType
    <3>2. Quiet(r)
      BY <1>0, <2>2 DEF Respond, ReplyType, ControlType, Quiet, Got
    <3> QED
      BY <1>1, <2>2, <3>1, <3>2
  <2>3. CASE ReadNew(r)
    <3>1. Moves(r)
      BY <1>0, <2>3 DEF ReadNew, Moves, ControlType, ReplyType
    <3> QED
      BY <2>3, <3>1 DEF Effect
  <2> QED
    BY <1>8, <2>1, <2>2, <2>3 DEF ReadGroup, ReadNew, New, Step, Replied
<1>9. CASE Ack(r)
  <2>1. op = "ack" /\ pc[r] = "ack" /\ call[r].group \in Groups
    BY <1>9, AtCommand, CallType DEF Ack, Ops
  <2>2. Acked(r)
    BY <1>9, <2>1 DEF Ack, Acked
  <2> QED
    BY <1>2, <1>4, <1>9, <2>1, <2>2 DEF Ack, Replied, Effect
<1>10. CASE Delete(r)
  <2>1. op = "delete"
    BY <1>10, AtCommand DEF Delete, Ops
  <2>2. CASE exists /\ Gone /\ Step(r, "answer") /\ UNCHANGED reply
    BY <1>2, <1>4, <2>1, <2>2 DEF reply, Effect
  <2>3. CASE Respond(r, 404, NoTtl) /\ UNCHANGED store
    BY <1>0, <1>1, <1>2, <1>3, <2>1, <2>3 DEF Respond, Responded, ReplyType
  <2> QED
    BY <1>10, <2>2, <2>3 DEF Delete
<1>11. CASE Expire(r)
  <2>1. op = "touch"
    BY <1>11, AtCommand DEF Expire
  <2>2. Effect(r) /\ Step(r, "ttl") /\ UNCHANGED reply
    BY <1>11 DEF Expire, Effect, state
  <2> QED
    BY <1>2, <1>4, <2>1, <2>2 DEF reply, Commands
<1>12. CASE Ttl(r)
  <2>1. op = "touch"
    BY <1>12, AtCommand DEF Ttl
  <2> QED
    BY <1>1, <1>2, <1>4, <1>12, <2>1 DEF Ttl, TtlReplied
<1>13. CASE Info(r)
  <2>1. op = "info" /\ UNCHANGED store
    BY <1>13, AtCommand DEF Info, Ops
  <2>2. CASE Replied(r, Live) /\ RoundTrip(r, "xinfo_groups") /\ UNCHANGED call
    BY <1>0, <1>1, <1>2, <2>1, <2>2 DEF Replied, RoundTrip, Moves, ControlType, ReplyType
  <2>3. CASE Respond(r, 404, NoTtl)
    BY <1>0, <1>1, <1>2, <1>3, <2>1, <2>3 DEF Respond, Responded, ReplyType
  <2>4. CASE Step(r, "answer") /\ UNCHANGED reply
    BY <1>1, <1>2, <1>4, <2>1, <2>4 DEF reply
  <2> QED
    BY <1>13, <2>2, <2>3, <2>4 DEF Info
<1>14. CASE Answer(r)
  <2>1. Responded(r) /\ UNCHANGED store /\ pc[r] = "answer"
    BY <1>0, <1>14 DEF Answer, Respond, Responded, ReplyType
  <2>2. Quiet(r)
    BY <2>1 DEF Responded, Quiet, Got
  <2> QED
    BY <1>1, <1>3, <2>1, <2>2
<1> QED
  BY <1>5, <1>6, <1>7, <1>8, <1>9, <1>10, <1>11, <1>12, <1>13, <1>14 DEF Handler

(* The other steps of a request change neither stream nor groups. *)
LEMMA RequestEffect ==
  ASSUME EvType, NEW r \in Reqs, Arrive(r) \/ Refuse(r) \/ Handler(r) \/ LoseRoundTrip(r)
  PROVE  Moves(r) /\ Effect(r) /\ (ReadNew(r) \/ Quiet(r))
<1>0. ControlType /\ ReplyType /\ EvType
  BY DEF EvType
<1>1. UNCHANGED store => Effect(r)
  BY DEF store, stream, state, Effect
<1>2. CASE Arrive(r)
  <2>1. PICK c \in Calls : call' = [call EXCEPT ![r] = c] /\ RoundTrip(r, c.op)
    BY <1>2 DEF Arrive
  <2>2. c.op # "idle" /\ c.op # "answer" /\ status[r] = 0 /\ pc[r] = "idle" /\ UNCHANGED <<store, reply>>
    BY <1>0, <1>2, CallType DEF Arrive, Ops, Control, EvType
  <2>3. Moves(r)
    BY <1>0, <2>1, <2>2 DEF RoundTrip, reply, Moves, ControlType, ReplyType
  <2>4. Quiet(r)
    BY <1>0, <2>1, <2>2 DEF RoundTrip, reply, Quiet, Got, ControlType, ReplyType
  <2> QED
    BY <1>1, <2>2, <2>3, <2>4
<1>3. ASSUME NEW code \in {400, 500}, Respond(r, code, NoTtl) PROVE Moves(r) /\ Quiet(r)
  <2>1. Moves(r)
    BY <1>0, <1>3 DEF Respond, Moves, ControlType, ReplyType
  <2>2. Quiet(r)
    BY <1>0, <1>3 DEF Respond, ControlType, ReplyType, Quiet, Got
  <2> QED
    BY <2>1, <2>2
<1>4. CASE Refuse(r)
  BY <1>1, <1>3, <1>4 DEF Refuse
<1>5. CASE LoseRoundTrip(r)
  <2>1. UNCHANGED store /\ Lost(r)
    BY <1>5 DEF LoseRoundTrip
  <2>2. CASE Respond(r, 500, NoTtl)
    BY <1>1, <1>3, <2>1, <2>2
  <2>3. CASE ~Respond(r, 500, NoTtl)
    <3>1. /\ pc[r] \notin {"idle", "done"} /\ pc' = [pc EXCEPT ![r] = rt[r]] /\ UNCHANGED <<rt, call, reply>>
      BY <2>1, <2>3 DEF Lost
    <3>2. rt[r] \in Starts(call[r].op) /\ call[r].op \in Ops /\ status[r] = 0
      BY <1>0, <3>1, AtCommand
    <3>3. rt[r] # "idle" /\ rt[r] # "answer"
      BY <3>2 DEF Starts, Ops
    <3>4. Moves(r)
      BY <1>0, <3>1, <3>3 DEF reply, Moves, ControlType, ReplyType
    <3>5. Quiet(r)
      BY <1>0, <3>1, <3>2, <3>3 DEF reply, Quiet, Got, ControlType, ReplyType
    <3> QED
      BY <1>1, <2>1, <3>4, <3>5
  <2> QED
    BY <2>2, <2>3
<1> QED
  BY <1>0, <1>2, <1>4, <1>5, HandlerEffect

-------------------------------------------------------------------------------
(* Retention *)

(* Nothing has been trimmed since the key exists, or what trimming left is *)
(* at least MaxLen entries; and it is less than one node more.             *)
Retained ==
  exists =>
    /\ first = born + 1 \/ clock - first + 1 >= MaxLen
    /\ clock - first + 1 < MaxLen + NodeMax

LEMMA RetainedInit == Init => Retained
BY DEF Init, Retained

LEMMA XaddRetains ==
  ASSUME EvType, Retained, Xadd
  PROVE  Retained'
<1> DEFINE oldest == IF exists THEN first ELSE clock + 1
<1>1. /\ clock \in Nat /\ born \in Nat /\ born <= clock /\ first \in Nat
      /\ born + 1 <= first /\ first <= clock + 1
      /\ MaxLen \in Nat /\ NodeMax \in Nat
  BY EventAssumption DEF EvType, StreamType
<1>2. /\ clock' = clock + 1 /\ born' = (IF exists THEN born ELSE clock)
      /\ first' = FirstAfter(oldest, clock + 1)
  BY DEF Xadd
<1>3. oldest \in Nat /\ oldest <= clock + 1 /\ clock + 1 \in Nat
  BY <1>1
<1>4. oldest = born' + 1 \/ clock + 1 - oldest + 1 >= MaxLen
  BY <1>1, <1>2 DEF Retained
<1>5. PICK o \in Nat, n \in Nat : o = oldest /\ n = clock + 1
  BY <1>3
<1> HIDE DEF oldest
<1>6. PICK f \in Int : f = FirstAfter(o, n) /\ f \in o..n
  BY <1>3, <1>5, TrimKeeps
<1>7. f = o \/ n - f + 1 >= MaxLen
  BY <1>3, <1>5, <1>6, TrimKeeps
<1>8. n - f + 1 < MaxLen + NodeMax
  BY <1>3, <1>5, <1>6, TrimKeeps
<1>9. clock' = n /\ first' = f
  BY <1>2, <1>5, <1>6
<1>10. f = born' + 1 \/ n - f + 1 >= MaxLen
  BY <1>4, <1>5, <1>7, <1>1
<1> QED
  BY <1>8, <1>9, <1>10 DEF Retained

LEMMA RetainedStep == EvType /\ Retained /\ [Next]_vars => Retained'
<1> SUFFICES ASSUME EvType, Retained, [Next]_vars PROVE Retained'
  OBVIOUS
<1>1. UNCHANGED <<exists, clock, born, first>> => Retained'
  BY DEF Retained
<1>2. Gone => Retained'
  BY DEF Gone, Retained
<1>3. ASSUME NEW r \in Reqs, Arrive(r) \/ Refuse(r) \/ Handler(r) \/ LoseRoundTrip(r) PROVE Retained'
  <2>1. Effect(r)
    BY <1>3, RequestEffect
  <2>2. CASE ReadNew(r) \/ Acked(r)
    BY <1>1, <2>2 DEF ReadNew, Acked, stream
  <2>3. ASSUME NEW g \in Groups, Created(g) PROVE Retained'
    <3>1. clock \in Nat /\ MaxLen \in Nat \ {0} /\ NodeMax \in Nat
      BY EventAssumption DEF EvType, StreamType
    <3> QED
      BY <2>3, <3>1 DEF Created, Retained
  <2> QED
    BY <1>1, <1>2, <2>1, <2>2, <2>3, XaddRetains DEF Effect
<1>4. CASE KeyExpires \/ KeyEvicted
  BY <1>2, <1>4 DEF KeyExpires, KeyEvicted
<1>5. CASE UNCHANGED vars
  BY <1>1, <1>5 DEF vars, store, stream
<1> QED
  BY <1>3, <1>4, <1>5 DEF Next

LEMMA RetainedNewest == EvType /\ Retained => NewestKept
<1> SUFFICES ASSUME EvType, Retained, exists
             PROVE  /\ \A i \in (born + 1)..clock : clock - i < MaxLen => i \in Live
                    /\ Cardinality(Live) < MaxLen + NodeMax
  BY DEF NewestKept
<1>1. /\ clock \in Nat /\ born \in Nat /\ first \in Nat /\ born + 1 <= first /\ first <= clock + 1
      /\ MaxLen \in Nat \ {0} /\ NodeMax \in Nat \ {0}
  BY EventAssumption DEF EvType, StreamType
<1>2. /\ first = born + 1 \/ clock - first + 1 >= MaxLen
      /\ clock - first + 1 < MaxLen + NodeMax
  BY DEF Retained
<1>3. Live = first..clock
  BY DEF Live
<1>4. \A i \in (born + 1)..clock : clock - i < MaxLen => i \in Live
  BY <1>1, <1>2, <1>3
<1>5. Cardinality(Live) = IF first > clock THEN 0 ELSE clock - first + 1
  <2>1. first \in Int /\ clock \in Int
    BY <1>1
  <2> QED
    BY <1>3, <2>1, FS_Interval
<1> QED
  BY <1>1, <1>2, <1>4, <1>5

(* Event routes: whatever publishers, trimming by whole nodes, deletions   *)
(* and evictions do, the stream holds the newest MaxLen events published   *)
(* since the key exists, and less than one node more.                      *)
THEOREM NewestEventsKept == Spec => []NewestKept
BY EvTypeInit, EvTypeStep, RetainedInit, RetainedStep, RetainedNewest, PTL DEF Spec

-------------------------------------------------------------------------------
(* Delivery to the consumers of a group *)

(* An event a consumer got, if the stream it was in lives: the group does  *)
(* too and has passed it, and it is pending for the consumer unless an XACK*)
(* of it has been sent.                                                    *)
OnRecord(g, i, c) ==
  exists /\ i > born =>
    /\ g \in groups /\ i <= delivered[g]
    /\ AckSent(g, i) \/ (i \in DOMAIN pel[g] /\ pel[g][i] = c)

Recorded ==
  \A g \in Groups, r \in Reqs : Got(r, g) =>
    \A i \in result[r] : i <= clock /\ OnRecord(g, i, call[r].consumer)

Disjoint ==
  \A g \in Groups, r, s \in Reqs : Got(r, g) /\ Got(s, g) /\ r # s => result[r] \cap result[s] = {}

GroupInv == Recorded /\ Disjoint

(* The call of a request does not change: an XACK once sent stays so. *)
LEMMA AckStays ==
  ASSUME NEW r \in Reqs, Moves(r), NEW g, NEW i, AckSent(g, i)
  PROVE  AckSent(g, i)'
<1>1. PICK a \in Reqs : call[a].op = "ack" /\ call[a].group = g /\ i \in call[a].ids /\ pc[a] # "idle"
  BY DEF AckSent
<1>2. call'[a] = call[a] /\ pc'[a] # "idle"
  BY <1>1 DEF Moves
<1> QED
  BY <1>1, <1>2 DEF AckSent

(* No step takes an event off the record. *)
LEMMA RecordStays ==
  ASSUME EvType, NEW r \in Reqs, Moves(r), Effect(r), NEW g \in Groups, NEW i \in Nat, NEW c,
         i <= clock, OnRecord(g, i, c)
  PROVE  i <= clock' /\ OnRecord(g, i, c)'
<1>0. /\ clock \in Nat /\ born \in Nat /\ GroupType
      /\ delivered[g] \in Nat /\ DOMAIN pel[g] \subseteq (born + 1)..delivered[g]
  BY DEF EvType, StreamType, GroupType
<1>1. AckSent(g, i) => AckSent(g, i)'
  BY AckStays
<1>2. CASE UNCHANGED <<exists, clock, born, first, groups, delivered, pel>>
  BY <1>1, <1>2 DEF OnRecord
<1>3. CASE Xadd
  <2>1. /\ clock' = clock + 1 /\ born' = (IF exists THEN born ELSE clock)
        /\ UNCHANGED <<groups, delivered, pel>>
    BY <1>3 DEF Xadd, state
  <2> QED
    BY <1>0, <1>1, <2>1 DEF OnRecord
<1>4. CASE Gone
  BY <1>4 DEF Gone, OnRecord
<1>5. CASE ReadNew(r)
  <2> DEFINE h == call[r].group
             new == New(r, h)
             d == Max(new \cup {delivered[h]})
             p == [j \in new \cup DOMAIN pel[h] |-> IF j \in new THEN call[r].consumer ELSE pel[h][j]]
  <2>1. /\ UNCHANGED <<exists, clock, born, groups>> /\ h \in Groups
        /\ delivered' = [delivered EXCEPT ![h] = d] /\ pel' = [pel EXCEPT ![h] = p]
    BY <1>0, <1>5 DEF ReadNew, stream, GroupType
  <2>2. CASE g # h
    <3>1. delivered'[g] = delivered[g] /\ pel'[g] = pel[g]
      BY <1>0, <2>1, <2>2 DEF GroupType
    <3> QED
      BY <1>1, <2>1, <3>1 DEF OnRecord
  <2>3. CASE g = h
    <3>1. /\ \A j \in new : j > delivered[g]
          /\ d \in delivered[g]..clock
      BY <2>1, <2>3, NewEntries
    <3>2. delivered'[g] = d /\ pel'[g] = p
      BY <1>0, <2>1, <2>3 DEF GroupType
    <3>3. i <= delivered[g] => i <= d /\ i \notin new
      BY <1>0, <3>1
    <3>4. i \in DOMAIN pel[g] /\ i \notin new => i \in DOMAIN p /\ p[i] = pel[g][i]
      BY <2>3
    <3> HIDE DEF new, d, p
    <3> QED
      BY <1>1, <2>1, <3>2, <3>3, <3>4 DEF OnRecord
  <2> QED
    BY <2>2, <2>3
<1>6. CASE Acked(r)
  <2> DEFINE h == call[r].group
             p == [j \in DOMAIN pel[h] \ call[r].ids |-> pel[h][j]]
  <2>1. /\ UNCHANGED <<exists, clock, born, groups, delivered>> /\ h \in Groups
        /\ pel' = [pel EXCEPT ![h] = p] /\ call[r].op = "ack" /\ pc[r] = "ack"
    BY <1>6 DEF Acked, stream
  <2>2. CASE g # h
    <3>1. pel'[g] = pel[g]
      BY <1>0, <2>1, <2>2 DEF GroupType
    <3> QED
      BY <1>1, <2>1, <3>1 DEF OnRecord
  <2>3. CASE g = h
    <3>1. pel'[g] = p
      BY <1>0, <2>1, <2>3 DEF GroupType
    <3>2. i \in call[r].ids => AckSent(g, i)
      BY <2>1, <2>3 DEF AckSent
    <3>3. i \in DOMAIN pel[g] /\ i \notin call[r].ids => i \in DOMAIN p /\ p[i] = pel[g][i]
      BY <2>3
    <3> HIDE DEF p
    <3> QED
      BY <1>1, <2>1, <3>1, <3>2, <3>3 DEF OnRecord
  <2> QED
    BY <2>2, <2>3
<1>7. ASSUME NEW h \in Groups, Created(h) PROVE i <= clock' /\ OnRecord(g, i, c)'
  <2>1. /\ h \notin groups /\ born' = (IF exists THEN born ELSE clock) /\ groups' = groups \cup {h}
        /\ delivered' = [delivered EXCEPT ![h] = 0] /\ pel' = [pel EXCEPT ![h] = NoPel] /\ clock' = clock
    BY <1>7 DEF Created
  <2>2. g \in groups => delivered'[g] = delivered[g] /\ pel'[g] = pel[g]
    BY <1>0, <2>1 DEF GroupType
  <2> QED
    BY <1>0, <1>1, <2>1, <2>2 DEF OnRecord
<1> QED
  BY <1>2, <1>3, <1>4, <1>5, <1>6, <1>7 DEF Effect

(* What XREADGROUP delivers goes on record, and nobody of the group got it *)
(* before: the record holds for all of them up to the last delivered.      *)
LEMMA ReadRecords ==
  ASSUME EvType, GroupInv, NEW r \in Reqs, Moves(r), ReadNew(r)
  PROVE  /\ \A i \in result'[r] : i <= clock' /\ OnRecord(call[r].group, i, call[r].consumer)'
         /\ \A s \in Reqs : s # r /\ Got(s, call[r].group) => result[s] \cap result'[r] = {}
<1> DEFINE g == call[r].group
           new == New(r, g)
           d == Max(new \cup {delivered[g]})
           p == [j \in new \cup DOMAIN pel[g] |-> IF j \in new THEN call[r].consumer ELSE pel[g][j]]
<1>1. /\ clock \in Nat /\ born \in Nat /\ GroupType /\ ReplyType
      /\ g \in groups /\ g \in Groups /\ exists
  BY DEF ReadNew, EvType, StreamType, GroupType
<1>2. /\ UNCHANGED <<exists, clock, born, groups>>
      /\ delivered' = [delivered EXCEPT ![g] = d] /\ pel' = [pel EXCEPT ![g] = p]
      /\ result' = [result EXCEPT ![r] = new]
  BY DEF ReadNew, stream
<1>3. /\ new \subseteq (born + 1)..clock
      /\ \A i \in new : i > delivered[g] /\ i <= d
  BY <1>1, NewEntries
<1>4. \A i \in new : i \in DOMAIN p /\ p[i] = call[r].consumer
  OBVIOUS
<1> HIDE DEF new, d, p
<1>5. delivered'[g] = d /\ pel'[g] = p /\ result'[r] = new
  <2>1. delivered'[g] = d /\ result'[r] = new
    BY <1>1, <1>2 DEF GroupType, ReplyType
  <2>2. pel'[g] = p
    BY <1>1, <1>2 DEF GroupType
  <2> QED
    BY <2>1, <2>2
<1>6. \A i \in new : i <= clock /\ i > born /\ i \in Nat
  BY <1>1, <1>3
<1>7. ASSUME NEW i \in result'[r] PROVE i <= clock' /\ OnRecord(g, i, call[r].consumer)'
  <2>1. call'[r] = call[r]
    BY DEF Moves, ReadNew
  <2> QED
    BY <1>1, <1>2, <1>3, <1>4, <1>5, <1>6, <2>1 DEF OnRecord
<1>8. ASSUME NEW s \in Reqs, s # r, Got(s, g), NEW i \in result[s], i \in result'[r] PROVE FALSE
  <2>1. OnRecord(g, i, call[s].consumer)
    BY <1>1, <1>8 DEF GroupInv, Recorded
  <2>2. i \in new /\ i > born
    BY <1>5, <1>6, <1>8
  <2>3. i <= delivered[g]
    BY <1>1, <2>1, <2>2 DEF OnRecord
  <2> QED
    BY <1>1, <1>3, <1>6, <2>2, <2>3 DEF GroupType
<1> QED
  BY <1>7, <1>8

LEMMA GroupStep == EvType /\ GroupInv /\ [Next]_vars => GroupInv'
<1> SUFFICES ASSUME EvType, GroupInv, [Next]_vars PROVE GroupInv'
  OBVIOUS
<1>0. result \in [Reqs -> SUBSET (0..MaxEvents)]
  BY DEF EvType, ReplyType
<1>1. ASSUME NEW r \in Reqs, Arrive(r) \/ Refuse(r) \/ Handler(r) \/ LoseRoundTrip(r) PROVE GroupInv'
  <2>1. Moves(r) /\ Effect(r) /\ (ReadNew(r) \/ Quiet(r))
    BY <1>1, RequestEffect
  <2>2. ASSUME NEW s \in Reqs, NEW g \in Groups, s # r
        PROVE  Got(s, g)' = Got(s, g) /\ result'[s] = result[s] /\ call'[s] = call[s]
    BY <2>1, <2>2 DEF Moves, Got
  <2>3. ASSUME NEW s \in Reqs, NEW g \in Groups, Got(s, g), call'[s] = call[s], NEW i \in result[s]
        PROVE  i <= clock' /\ OnRecord(g, i, call[s].consumer)'
    <3>1. i <= clock /\ OnRecord(g, i, call[s].consumer) /\ i \in Nat
      BY <1>0, <2>3 DEF GroupInv, Recorded
    <3>2. \A c : OnRecord(g, i, c) => i <= clock' /\ OnRecord(g, i, c)'
      BY <2>1, <3>1, RecordStays
    <3> QED
      BY <2>3, <3>1, <3>2 DEF OnRecord
  <2>4. CASE Quiet(r)
    <3>1. ASSUME NEW s \in Reqs, NEW g \in Groups, Got(s, g)'
          PROVE  Got(s, g) /\ result'[s] = result[s] /\ call'[s] = call[s]
      <4>1. CASE s = r
        <5>1. Got(r, g) /\ result'[r] = result[r]
          BY <2>4, <3>1, <4>1 DEF Quiet
        <5>2. pc[r] # "idle"
          BY <5>1 DEF Got, EvType, Control
        <5> QED
          BY <2>1, <4>1, <5>1, <5>2 DEF Moves
      <4>2. CASE s # r
        BY <2>2, <3>1, <4>2
      <4> QED
        BY <4>1, <4>2
    <3>2. Recorded'
      <4> SUFFICES ASSUME NEW s \in Reqs, NEW g \in Groups, Got(s, g)', NEW i \in result'[s]
                   PROVE  i <= clock' /\ OnRecord(g, i, call[s].consumer)'
        BY DEF Recorded
      <4> QED
        BY <2>3, <3>1
    <3>3. Disjoint'
      BY <3>1 DEF Disjoint, GroupInv
    <3> QED
      BY <3>2, <3>3 DEF GroupInv
  <2>5. CASE ReadNew(r)
    <3> DEFINE h == call[r].group
    <3>1. /\ \A i \in result'[r] : i <= clock' /\ OnRecord(h, i, call[r].consumer)'
          /\ \A s \in Reqs : s # r /\ Got(s, h) => result[s] \cap result'[r] = {}
          /\ call' = call
      BY <2>1, <2>5, ReadRecords DEF ReadNew
    <3>2. \A g : Got(r, g)' => g = h
      BY <3>1 DEF Got
    <3>3. Recorded'
      <4> SUFFICES ASSUME NEW s \in Reqs, NEW g \in Groups, Got(s, g)', NEW i \in result'[s]
                   PROVE  i <= clock' /\ OnRecord(g, i, call[s].consumer)'
        BY DEF Recorded
      <4>1. CASE s = r
        BY <3>1, <3>2, <4>1
      <4>2. CASE s # r
        BY <2>2, <2>3, <4>2
      <4> QED
        BY <4>1, <4>2
    <3>4. ASSUME NEW g \in Groups, NEW s \in Reqs, s # r, Got(s, g)', Got(r, g)'
          PROVE  result'[s] \cap result'[r] = {}
      BY <2>2, <3>1, <3>2, <3>4
    <3>5. Disjoint'
      <4> SUFFICES ASSUME NEW g \in Groups, NEW s \in Reqs, NEW q \in Reqs, Got(s, g)', Got(q, g)', s # q
                   PROVE  result'[s] \cap result'[q] = {}
        BY DEF Disjoint
      <4>1. CASE s = r \/ q = r
        BY <3>4, <4>1
      <4>2. CASE s # r /\ q # r
        BY <2>2, <4>2 DEF GroupInv, Disjoint
      <4> QED
        BY <4>1, <4>2
    <3> QED
      BY <3>3, <3>5 DEF GroupInv
  <2> QED
    BY <2>1, <2>4, <2>5
<1>2. CASE KeyExpires \/ KeyEvicted
  BY <1>2 DEF KeyExpires, KeyEvicted, Gone, control, reply, GroupInv, Recorded, Disjoint, OnRecord, Got
<1>3. CASE UNCHANGED vars
  BY <1>3 DEF vars, store, stream, state, control, reply, GroupInv, Recorded, Disjoint, OnRecord, Got,
              AckSent
<1> QED
  BY <1>1, <1>2, <1>3 DEF Next

LEMMA GroupInit == Init => GroupInv
BY NoCallOp DEF Init, InitRequests, GroupInv, Recorded, Disjoint, Got

(* Consumer groups: an event goes to one consumer of a group, once,        *)
(* whatever is created again, lost, retried, trimmed or deleted.           *)
THEOREM DeliveredOnce == Spec => []OncePerGroup
<1>1. GroupInv => OncePerGroup
  BY DEF GroupInv, Disjoint, OncePerGroup, AnsweredReads, Got
<1> QED
  BY EvTypeInit, EvTypeStep, GroupInit, GroupStep, <1>1, PTL DEF Spec

(* Consumer groups: an event a consumer was sent and nobody acknowledged   *)
(* is pending under its name while the stream it was in lives.             *)
THEOREM DeliveredStaysPending == Spec => []DeliveredIsPending
<1>1. GroupInv /\ EvType => DeliveredIsPending
  <2> SUFFICES ASSUME GroupInv, EvType, NEW g \in Groups, NEW r \in AnsweredReads(g), NEW i \in result[r],
                      exists, ~(i <= born), ~AckSent(g, i)
               PROVE  i \in DOMAIN pel[g] /\ pel[g][i] = call[r].consumer
    BY DEF DeliveredIsPending
  <2>1. r \in Reqs /\ Got(r, g)
    BY DEF AnsweredReads, Got
  <2>2. i \in Nat /\ born \in Nat
    BY <2>1 DEF EvType, ReplyType, StreamType
  <2>3. i > born
    BY <2>2
  <2> QED
    BY <2>1, <2>3 DEF GroupInv, Recorded, OnRecord
<1> QED
  BY EvTypeInit, EvTypeStep, GroupInit, GroupStep, <1>1, PTL DEF Spec
===============================================================================
