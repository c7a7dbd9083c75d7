--------------------------- MODULE WsAndLogProofs ---------------------------
(***************************************************************************)
(* Subscriptions, for any number of clients and any limit: the connection  *)
(* counter is exact and bounded, the endpoint implements the pool of       *)
(* slots, no Redis connection outlives its handler, and messages arrive in *)
(* order and once.  The log files of one process, for any limits: no line  *)
(* goes but by the retention policy, the size cap, the backup count or a   *)
(* crash.                                                                  *)
(***************************************************************************)
EXTENDS WsSubscribe, LogRotation, FiniteSetTheorems, SequenceTheorems, TLAPS

Holding == {"accept", "subscribe", "run", "leave"}

(* What the proofs need of the types. *)
StageType == pc \in [Clients -> Stages] /\ conn \subseteq Clients

SlotInv == StageType /\ SlotsExact

(* Holders is a finite set, so its cardinality is a number. *)
LEMMA HoldersFinite == IsFiniteSet(Holders) /\ Cardinality(Holders) \in Nat
<1>1. Holders \subseteq Clients
  BY DEF Holders
<1>2. IsFiniteSet(Holders)
  BY <1>1, FS_Subset, WsAssumption
<1> QED
  BY <1>2, FS_CardinalityType

(* A step that leaves c on its side of Holding leaves Holders as it is. *)
LEMMA HoldersSame ==
  ASSUME StageType, NEW c \in Clients, NEW l, GoTo(c, l), (pc[c] \in Holding) <=> (l \in Holding)
  PROVE  Holders' = Holders
BY DEF StageType, GoTo, Holding, Holders

LEMMA HoldersAdd ==
  ASSUME StageType, NEW c \in Clients, NEW l, GoTo(c, l), pc[c] \notin Holding, l \in Holding
  PROVE  c \notin Holders /\ Holders' = Holders \cup {c}
BY DEF StageType, GoTo, Holding, Holders

LEMMA HoldersRemove ==
  ASSUME StageType, NEW c \in Clients, NEW l, GoTo(c, l), pc[c] \in Holding, l \notin Holding
  PROVE  c \in Holders /\ Holders' = Holders \ {c}
BY DEF StageType, GoTo, Holding, Holders

(* The stages stay stages. *)
LEMMA StageStep ==
  ASSUME StageType, [Next]_vars
  PROVE  StageType'
<1>1. ASSUME UNCHANGED vars PROVE StageType'
  BY <1>1 DEF vars, StageType
<1>2. ASSUME Publish PROVE StageType'
  BY <1>2 DEF Publish, StageType
<1>3. ASSUME NEW c \in Clients,
             \/ Connect(c) \/ Disconnect(c) \/ Refuse(c) \/ Ask(c) \/ Admit(c) \/ Full(c)
             \/ Rejected(c) \/ Accept(c)
      PROVE  StageType'
  BY <1>3 DEF Connect, Disconnect, Refuse, Ask, Admit, Full, Rejected, Accept, GoTo, WaitForLock,
              StageType, Stages
<1>4. ASSUME NEW c \in Clients,
             \/ Subscribe(c) \/ Stop(c) \/ Leave(c) \/ Cleanup(c) \/ Close(c)
             \/ GetMessage(c) \/ SendJson(c) \/ RedisLost(c) \/ WatchDisconnect(c)
      PROVE  StageType'
  BY <1>4 DEF Subscribe, Stop, Leave, Cleanup, Close, GetMessage, SendJson, RedisLost,
              WatchDisconnect, GoTo, WaitForLock, StageType, Stages
<1> QED
  BY <1>1, <1>2, <1>3, <1>4 DEF Next, Handler

(* What a step does to the slots: it takes one, gives one back, or leaves  *)
(* counter and holders alone.                                              *)
Takes(c) ==
  /\ c \notin Holders /\ Holders' = Holders \cup {c}
  /\ count < MaxConnections /\ count' = count + 1
Gives(c) ==
  /\ c \in Holders /\ Holders' = Holders \ {c}
  /\ count' = count - 1

LEMMA SlotStep ==
  ASSUME StageType, [Next]_vars
  PROVE  \/ \E c \in Clients : Takes(c) \/ Gives(c)
         \/ UNCHANGED <<Holders, count>>
<1>1. ASSUME UNCHANGED vars \/ Publish PROVE UNCHANGED <<Holders, count>>
  BY <1>1 DEF vars, slots, Publish, Holders
<1>2. ASSUME NEW c \in Clients, Admit(c) PROVE Takes(c)
  <2>1. GoTo(c, "accept") /\ pc[c] \notin Holding /\ "accept" \in Holding
    BY <1>2 DEF Admit, Holding
  <2> QED
    BY <1>2, <2>1, HoldersAdd DEF Admit, Free, Takes
<1>3. ASSUME NEW c \in Clients, Leave(c) PROVE Gives(c)
  <2>1. GoTo(c, "cleanup") /\ pc[c] \in Holding /\ "cleanup" \notin Holding
    BY <1>3 DEF Leave, Holding
  <2> QED
    BY <1>3, <2>1, HoldersRemove DEF Leave, Gives
<1>4. ASSUME NEW c \in Clients,
             \/ Connect(c) \/ Refuse(c) \/ Ask(c) \/ Full(c) \/ Rejected(c) \/ Accept(c)
             \/ Subscribe(c) \/ Stop(c) \/ Cleanup(c) \/ Close(c)
      PROVE  UNCHANGED <<Holders, count>>
  <2>1. PICK l : GoTo(c, l) /\ ((pc[c] \in Holding) <=> (l \in Holding))
    BY <1>4 DEF Connect, Refuse, Ask, Full, Rejected, Accept, Subscribe, Stop, Cleanup, Close,
                WaitForLock, Holding
  <2>2. count' = count
    BY <1>4 DEF Connect, Refuse, Ask, Full, Rejected, Accept, Subscribe, Stop, Cleanup, Close, slots
  <2> QED
    BY <2>1, <2>2, HoldersSame
<1>5. ASSUME NEW c \in Clients,
             \/ Disconnect(c) \/ GetMessage(c) \/ SendJson(c) \/ RedisLost(c) \/ WatchDisconnect(c)
      PROVE  UNCHANGED <<Holders, count>>
  BY <1>5 DEF Disconnect, GetMessage, SendJson, RedisLost, WatchDisconnect, slots, Holders
<1> QED
  BY <1>1, <1>2, <1>3, <1>4, <1>5 DEF Next, Handler

LEMMA SlotInit == Init => SlotInv
<1> SUFFICES ASSUME Init PROVE SlotInv
  OBVIOUS
<1>1. StageType
  BY DEF Init, StageType, Stages
<1>2. Holders = {}
  BY DEF Init, Holders
<1> QED
  BY <1>1, <1>2, FS_EmptySet, WsAssumption DEF Init, SlotInv, SlotsExact

LEMMA SlotInductive == SlotInv /\ [Next]_vars => SlotInv'
<1> SUFFICES ASSUME SlotInv, [Next]_vars PROVE SlotInv'
  OBVIOUS
<1>1. StageType'
  BY StageStep DEF SlotInv
<1>2. count = Cardinality(Holders) /\ count <= MaxConnections /\ count \in Nat
  BY HoldersFinite DEF SlotInv, SlotsExact
<1>3. ASSUME NEW c \in Clients, Takes(c) PROVE SlotsExact'
  <2>1. Cardinality(Holders') = Cardinality(Holders) + 1
    BY <1>3, HoldersFinite, FS_AddElement DEF Takes
  <2> QED
    BY <1>2, <1>3, <2>1, WsAssumption DEF Takes, SlotsExact
<1>4. ASSUME NEW c \in Clients, Gives(c) PROVE SlotsExact'
  <2>1. Cardinality(Holders') = Cardinality(Holders) - 1
    BY <1>4, HoldersFinite, FS_RemoveElement DEF Gives
  <2> QED
    BY <1>2, <1>4, <2>1, WsAssumption DEF Gives, SlotsExact
<1>5. ASSUME UNCHANGED <<Holders, count>> PROVE SlotsExact'
  BY <1>2, <1>5 DEF SlotsExact
<1>6. SlotsExact'
  BY <1>3, <1>4, <1>5, SlotStep DEF SlotInv
<1> QED
  BY <1>1, <1>6 DEF SlotInv

(* _ws_connection_count is the number of handlers holding a slot and never *)
(* exceeds _MAX_WS_CONNECTIONS, however handlers interleave and fail.      *)
THEOREM SlotAccounting == Spec => []SlotsExact
<1>1. SlotInv => SlotsExact
  BY DEF SlotInv
<1> QED
  BY SlotInit, SlotInductive, <1>1, PTL DEF Spec

(* The endpoint implements the abstract pool of MaxConnections slots. *)
THEOREM ImplementsPool == Spec => PoolSpec
<1>1. Init => Pool!Init
  BY DEF Init, Holders, Pool!Init
<1>2. SlotInv /\ [Next]_vars => [Pool!Next]_Holders
  <2> SUFFICES ASSUME SlotInv, [Next]_vars PROVE [Pool!Next]_Holders
    OBVIOUS
  <2>1. ASSUME NEW c \in Clients, Takes(c) PROVE Pool!Acquire(c)
    <3>1. Pool!Cardinality(Holders) = Cardinality(Holders)
      BY DEF Cardinality, Pool!Cardinality
    <3> QED
      BY <2>1, <3>1 DEF Takes, SlotInv, SlotsExact, Pool!Acquire
  <2>2. ASSUME NEW c \in Clients, Gives(c) PROVE Pool!Release(c)
    BY <2>2 DEF Gives, Pool!Release
  <2> QED
    BY <2>1, <2>2, SlotStep DEF SlotInv, Pool!Next
<1> QED
  BY SlotInit, SlotInductive, <1>1, <1>2, PTL DEF Spec, PoolSpec, Pool!Spec

(* A Redis connection belongs to a handler past its admission that has not *)
(* ended: an error in unsubscribe or in the pump leaks none.               *)
THEOREM ConnectionsOwned == Spec => []NoLeak
<1> DEFINE Inv == StageType /\ NoLeak
<1>1. Init => Inv
  BY DEF Init, StageType, Stages, NoLeak
<1>2. Inv /\ [Next]_vars => Inv'
  <2> SUFFICES ASSUME StageType, NoLeak, [Next]_vars PROVE NoLeak'
    BY StageStep
  <2> USE DEF StageType, NoLeak, Holders
  <2>1. ASSUME UNCHANGED vars \/ Publish PROVE NoLeak'
    BY <2>1 DEF vars, Publish
  <2>2. ASSUME NEW c \in Clients,
               \/ Connect(c) \/ Disconnect(c) \/ Refuse(c) \/ Ask(c) \/ Admit(c) \/ Full(c)
               \/ Rejected(c) \/ Accept(c)
        PROVE  NoLeak'
    BY <2>2 DEF Connect, Disconnect, Refuse, Ask, Admit, Full, Rejected, Accept, GoTo, WaitForLock
  <2>3. ASSUME NEW c \in Clients, Subscribe(c) \/ Stop(c) \/ Leave(c) \/ Cleanup(c) \/ Close(c)
        PROVE  NoLeak'
    BY <2>3 DEF Subscribe, Stop, Leave, Cleanup, Close, GoTo, WaitForLock
  <2>4. ASSUME NEW c \in Clients,
               GetMessage(c) \/ SendJson(c) \/ RedisLost(c) \/ WatchDisconnect(c)
        PROVE  NoLeak'
    BY <2>4 DEF GetMessage, SendJson, RedisLost, WatchDisconnect
  <2> QED
    BY <2>1, <2>2, <2>3, <2>4 DEF Next, Handler
<1>3. Inv => NoLeak
  OBVIOUS
<1> QED
  BY <1>1, <1>2, <1>3, PTL DEF Spec

-------------------------------------------------------------------------------
(* Order of the messages *)

Ids == 1..MaxPublished

(* What a client was sent and what waits for it. *)
Feed(c) == sent[c] \o inbox[c]

FeedType ==
  /\ StageType
  /\ pump \in [Clients -> {"get", "send", "failed"}]
  /\ inbox \in [Clients -> Seq(Ids)] /\ sent \in [Clients -> Seq(Ids)]
  /\ gap \in [Clients -> BOOLEAN] /\ published \in 0..MaxPublished

(* The messages of c increase, by one each if its connection never broke,  *)
(* and the last published is among them if it is connected.                *)
Tracks(s, g, p, connected) ==
  /\ \A i \in 1..Len(s) - 1 : s[i] < s[i + 1] /\ (~g => s[i + 1] = s[i] + 1)
  /\ \A i \in 1..Len(s) : s[i] <= p
  /\ s # <<>> /\ connected /\ ~g => s[Len(s)] = p

(* Before its handler subscribes a client has neither connection nor       *)
(* messages, and the pump has a message in hand when it sends.             *)
FeedInv ==
  \A c \in Clients :
    /\ c \in conn => pc[c] \in {"run", "leave", "cleanup", "close"}
    /\ pc[c] \in {"new", "enter", "reject", "accept", "subscribe"} => sent[c] = <<>> /\ inbox[c] = <<>>
    /\ pump[c] = "send" => inbox[c] # <<>>
    /\ Tracks(Feed(c), gap[c], published, c \in conn)

(* Sending the message in hand leaves the feed as it is. *)
LEMMA SendingKeeps ==
  ASSUME NEW a \in Seq(Ids), NEW b \in Seq(Ids), b # <<>>
  PROVE  Append(a, Head(b)) \o Tail(b) = a \o b
<1>1. b = <<Head(b)>> \o Tail(b) /\ Head(b) \in Ids /\ Tail(b) \in Seq(Ids)
  OBVIOUS
<1>2. Append(a, Head(b)) = a \o <<Head(b)>>
  BY <1>1
<1>3. (a \o <<Head(b)>>) \o Tail(b) = a \o (<<Head(b)>> \o Tail(b))
  BY <1>1
<1> QED
  BY <1>1, <1>2, <1>3

(* A message published to a connection goes to the end of its feed. *)
LEMMA PublishedTracks ==
  ASSUME NEW a \in Seq(Ids), NEW b \in Seq(Ids), NEW p \in Nat, p + 1 \in Ids, NEW g \in BOOLEAN,
         Tracks(a \o b, g, p, TRUE)
  PROVE  Tracks(a \o Append(b, p + 1), g, p + 1, TRUE)
<1> DEFINE s == a \o b
           t == a \o Append(b, p + 1)
<1>1. s \in Seq(Ids) /\ t = Append(s, p + 1)
  <2>1. Append(b, p + 1) = b \o <<p + 1>> /\ Append(s, p + 1) = s \o <<p + 1>>
    OBVIOUS
  <2>2. a \o (b \o <<p + 1>>) = (a \o b) \o <<p + 1>>
    OBVIOUS
  <2> QED
    BY <2>1, <2>2
<1> HIDE DEF s, t
<1>2. /\ Len(t) = Len(s) + 1 /\ Len(s) \in Nat
      /\ \A i \in 1..Len(s) : t[i] = s[i] /\ s[i] \in Nat
      /\ t[Len(s) + 1] = p + 1
  <2>1. \A i \in Ids : i \in Nat
    BY WsAssumption DEF Ids
  <2>2. Len(t) = Len(s) + 1 /\ Len(s) \in Nat /\ t[Len(s) + 1] = p + 1
    BY <1>1
  <2>3. \A i \in 1..Len(s) : t[i] = s[i] /\ s[i] \in Ids
    BY <1>1
  <2> QED
    BY <2>1, <2>2, <2>3
<1>3. Tracks(s, g, p, TRUE)
  BY DEF s
<1>4. s # <<>> => Len(s) >= 1
  BY <1>1
<1>5. ASSUME NEW i \in 1..Len(t) - 1 PROVE t[i] < t[i + 1] /\ (~g => t[i + 1] = t[i] + 1)
  <2>1. CASE i = Len(s)
    <3>1. s[i] <= p /\ (~g => s[i] = p)
      BY <1>2, <1>3, <1>4, <1>5, <2>1 DEF Tracks
    <3> QED
      BY <1>2, <1>5, <2>1, <3>1
  <2>2. CASE i # Len(s)
    <3>1. i \in 1..Len(s) - 1 /\ i + 1 \in 1..Len(s)
      BY <1>2, <1>5, <2>2
    <3> QED
      BY <1>2, <1>3, <3>1 DEF Tracks
  <2> QED
    BY <2>1, <2>2
<1>6. ASSUME NEW i \in 1..Len(t) PROVE t[i] <= p + 1
  <2>1. CASE i = Len(s) + 1
    BY <1>2, <2>1
  <2>2. CASE i # Len(s) + 1
    <3>1. i \in 1..Len(s)
      BY <1>2, <1>6, <2>2
    <3>2. t[i] = s[i] /\ s[i] <= p /\ s[i] \in Nat
      BY <1>2, <1>3, <3>1 DEF Tracks
    <3> QED
      BY <3>2
  <2> QED
    BY <2>1, <2>2
<1>7. Tracks(t, g, p + 1, TRUE)
  BY <1>2, <1>5, <1>6 DEF Tracks
<1> QED
  BY <1>7 DEF t

(* What a broken connection loses, it loses from the end of the feed. *)
LEMMA BrokenTracks ==
  ASSUME NEW a \in Seq(Ids), NEW b \in Seq(Ids), NEW p \in Nat, NEW g, NEW connected,
         NEW connected2, Tracks(a \o b, g, p, connected)
  PROVE  Tracks(a \o <<>>, TRUE, p, connected2)
<1>1. a \o <<>> = a /\ Len(a) \in Nat /\ Len(b) \in Nat /\ Len(a \o b) = Len(a) + Len(b)
  OBVIOUS
<1>2. \A i \in 1..Len(a) : (a \o b)[i] = a[i]
  OBVIOUS
<1>3. \A i \in 1..Len(a) - 1 : a[i] < a[i + 1]
  <2> SUFFICES ASSUME NEW i \in 1..Len(a) - 1 PROVE a[i] < a[i + 1]
    OBVIOUS
  <2>1. i \in 1..Len(a) /\ i + 1 \in 1..Len(a) /\ i \in 1..Len(a \o b) - 1
    BY <1>1
  <2> QED
    BY <1>2, <2>1 DEF Tracks
<1>4. \A i \in 1..Len(a) : a[i] <= p
  BY <1>1, <1>2 DEF Tracks
<1> QED
  BY <1>1, <1>3, <1>4 DEF Tracks

LEMMA FeedTypeStep ==
  ASSUME FeedType, FeedInv, [Next]_vars
  PROVE  FeedType'
<1>1. StageType'
  BY StageStep DEF FeedType
<1>2. ASSUME Publish PROVE FeedType'
  <2>1. published \in Nat /\ published < MaxPublished /\ published' = published + 1
    BY <1>2, WsAssumption DEF Publish, FeedType
  <2>2. published' \in Ids /\ published' \in 0..MaxPublished
    BY <2>1, WsAssumption DEF Ids
  <2>3. inbox' \in [Clients -> Seq(Ids)]
    BY <1>2, <2>1, <2>2 DEF Publish, FeedType
  <2> QED
    BY <1>1, <1>2, <2>2, <2>3 DEF Publish, FeedType
<1>3. ASSUME NEW c \in Clients, Connect(c) PROVE FeedType'
  BY <1>1, <1>3 DEF Connect, FeedType
<1>4. ASSUME NEW c \in Clients, GetMessage(c) \/ RedisLost(c) \/ WatchDisconnect(c) PROVE FeedType'
  <2>1. <<>> \in Seq(Ids)
    OBVIOUS
  <2>2. inbox' \in [Clients -> Seq(Ids)]
    BY <1>4, <2>1 DEF GetMessage, RedisLost, WatchDisconnect, FeedType
  <2>3. /\ pump' \in [Clients -> {"get", "send", "failed"}] /\ gap' \in [Clients -> BOOLEAN]
        /\ UNCHANGED <<sent, published>>
    BY <1>4 DEF GetMessage, RedisLost, WatchDisconnect, FeedType
  <2> QED
    BY <1>1, <2>2, <2>3 DEF FeedType
<1>5. ASSUME NEW c \in Clients, SendJson(c) PROVE FeedType'
  <2>1. inbox[c] \in Seq(Ids) /\ inbox[c] # <<>>
    BY <1>5 DEF SendJson, FeedType, FeedInv
  <2>2. Head(inbox[c]) \in Ids /\ Tail(inbox[c]) \in Seq(Ids)
    BY <2>1
  <2>3. Append(sent[c], Head(inbox[c])) \in Seq(Ids)
    BY <2>2 DEF FeedType
  <2>4. inbox' \in [Clients -> Seq(Ids)] /\ sent' \in [Clients -> Seq(Ids)]
    BY <1>5, <2>2, <2>3 DEF SendJson, FeedType
  <2>5. pump' \in [Clients -> {"get", "send", "failed"}] /\ UNCHANGED <<gap, published>>
    BY <1>5 DEF SendJson, FeedType
  <2> QED
    BY <1>1, <2>4, <2>5 DEF FeedType
<1>6. UNCHANGED <<feed, published>> => FeedType'
  BY <1>1 DEF feed, FeedType
<1>7. ASSUME NEW c \in Clients, Disconnect(c) \/ Handler(c) PROVE FeedType'
  BY <1>6, <1>7 DEF Disconnect, Handler, Refuse, Ask, Admit, Full, Rejected, Accept, Subscribe, Stop, Leave,
                    Cleanup, Close
<1>8. CASE UNCHANGED vars
  BY <1>6, <1>8 DEF vars
<1> QED
  BY <1>2, <1>3, <1>4, <1>5, <1>7, <1>8 DEF Next

(* A handler takes up its connection before it has messages, and stages    *)
(* and connections keep apart what FeedInv says of them.                   *)
LEMMA HandlerFeed ==
  ASSUME FeedType, FeedInv, NEW c \in Clients, Handler(c)
  PROVE  FeedInv'
<1>1. UNCHANGED <<feed, published>>
  BY DEF Handler, Refuse, Ask, Admit, Full, Rejected, Accept, Subscribe, Stop, Leave, Cleanup, Close
<1>2. /\ pc \in [Clients -> Stages] /\ \E l : GoTo(c, l)
      /\ conn' \in {conn, conn \ {c}, conn \cup {c}}
  BY DEF FeedType, StageType, Handler, Refuse, Ask, Admit, Full, Rejected, Accept, Subscribe, Stop, Leave,
         Cleanup, Close, WaitForLock
<1>3. \A d \in Clients \ {c} : pc'[d] = pc[d] /\ (d \in conn' <=> d \in conn)
  BY <1>2 DEF GoTo
<1>4. \A d \in Clients : /\ pump'[d] = pump[d] /\ inbox'[d] = inbox[d] /\ sent'[d] = sent[d]
                         /\ Feed(d)' = Feed(d) /\ gap'[d] = gap[d] /\ published' = published
  BY <1>1 DEF feed, Feed
<1>5. /\ c \in conn' => pc'[c] \in {"run", "leave", "cleanup", "close"}
      /\ pc'[c] \in {"new", "enter", "reject", "accept", "subscribe"} =>
           pc[c] \in {"new", "enter", "reject", "accept", "subscribe"}
  <2>1. CASE Refuse(c) \/ Ask(c) \/ Admit(c) \/ Full(c) \/ Rejected(c) \/ Accept(c)
    BY <1>2, <2>1 DEF Refuse, Ask, Admit, Full, Rejected, Accept, GoTo, WaitForLock, FeedInv
  <2>2. CASE Subscribe(c) \/ Stop(c) \/ Leave(c) \/ Cleanup(c) \/ Close(c)
    BY <1>2, <2>2 DEF Subscribe, Stop, Leave, Cleanup, Close, GoTo, WaitForLock, FeedInv
  <2> QED
    BY <2>1, <2>2 DEF Handler
<1>6. Tracks(Feed(c), gap[c], published, c \in conn')
  <2>1. CASE Subscribe(c)
    <3>1. sent[c] = <<>> /\ inbox[c] = <<>>
      BY <2>1 DEF Subscribe, FeedInv
    <3>2. Feed(c) = <<>> /\ Len(Feed(c)) = 0
      BY <3>1 DEF Feed
    <3> QED
      BY <3>2 DEF Tracks
  <2>2. CASE ~Subscribe(c)
    <3>1. c \in conn' => c \in conn
      BY <2>2 DEF Handler, Refuse, Ask, Admit, Full, Rejected, Accept, Stop, Leave, Cleanup, Close
    <3> QED
      BY <3>1 DEF FeedInv, Tracks
  <2> QED
    BY <2>1, <2>2
<1> SUFFICES ASSUME NEW d \in Clients
             PROVE  /\ d \in conn' => pc'[d] \in {"run", "leave", "cleanup", "close"}
                    /\ pc'[d] \in {"new", "enter", "reject", "accept", "subscribe"} =>
                         sent'[d] = <<>> /\ inbox'[d] = <<>>
                    /\ pump'[d] = "send" => inbox'[d] # <<>>
                    /\ Tracks(Feed(d)', gap'[d], published', d \in conn')
  BY DEF FeedInv, Tracks
<1>7. CASE d = c
  BY <1>4, <1>5, <1>6, <1>7 DEF FeedInv
<1>8. CASE d # c
  <2>1. Tracks(Feed(d), gap[d], published, d \in conn')
    BY <1>3, <1>8 DEF FeedInv, Tracks
  <2> QED
    BY <1>3, <1>4, <1>8, <2>1 DEF FeedInv
<1> QED
  BY <1>7, <1>8

LEMMA FeedStep ==
  ASSUME FeedType, FeedInv, [Next]_vars
  PROVE  FeedInv'
<1> DEFINE Good(d) == /\ d \in conn => pc[d] \in {"run", "leave", "cleanup", "close"}
                      /\ pc[d] \in {"new", "enter", "reject", "accept", "subscribe"} =>
                           sent[d] = <<>> /\ inbox[d] = <<>>
                      /\ pump[d] = "send" => inbox[d] # <<>>
                      /\ Tracks(Feed(d), gap[d], published, d \in conn)
<1>1. (\A d \in Clients : Good(d)) /\ ((\A d \in Clients : Good(d)') => FeedInv')
  BY DEF FeedInv
<1>2. ASSUME NEW d \in Clients, UNCHANGED published, pc'[d] = pc[d], d \in conn' <=> d \in conn,
             pump'[d] = pump[d], inbox'[d] = inbox[d], sent'[d] = sent[d], gap'[d] = gap[d]
      PROVE  Good(d)'
  <2>1. Feed(d)' = Feed(d)
    BY <1>2 DEF Feed
  <2>2. Tracks(Feed(d)', gap'[d], published', d \in conn')
    BY <1>1, <1>2, <2>1 DEF Tracks
  <2> QED
    BY <1>1, <1>2, <2>2
<1>3. CASE Publish
  <2>1. /\ published \in Nat /\ published' = published + 1 /\ published + 1 \in Ids
        /\ UNCHANGED <<pc, conn, pump, sent, gap>>
        /\ \A d \in Clients : inbox'[d] = IF d \in conn THEN Append(inbox[d], published + 1) ELSE inbox[d]
    BY <1>3, WsAssumption DEF Publish, FeedType, Ids
  <2>2. ASSUME NEW d \in Clients PROVE Good(d)'
    <3>1. inbox[d] \in Seq(Ids) /\ sent[d] \in Seq(Ids) /\ gap[d] \in BOOLEAN
      BY DEF FeedType
    <3>2. CASE d \in conn
      <4>1. Tracks(sent[d] \o inbox[d], gap[d], published, TRUE)
        BY <1>1, <3>2 DEF Feed, Tracks
      <4>2. Tracks(sent[d] \o Append(inbox[d], published + 1), gap[d], published + 1, TRUE)
        BY <2>1, <3>1, <4>1, PublishedTracks
      <4>3. Tracks(Feed(d)', gap'[d], published', d \in conn')
        BY <2>1, <3>2, <4>2 DEF Feed, Tracks
      <4>4. Append(inbox[d], published + 1) # <<>>
        BY <2>1, <3>1
      <4> QED
        BY <1>1, <2>1, <3>2, <4>3, <4>4
    <3>3. CASE d \notin conn
      <4>1. Feed(d)' = Feed(d) /\ Feed(d) \in Seq(Ids)
        <5>1. inbox'[d] = inbox[d] /\ sent'[d] = sent[d]
          BY <2>1, <3>3
        <5>2. sent[d] \o inbox[d] \in Seq(Ids)
          BY <3>1
        <5> QED
          BY <5>1, <5>2 DEF Feed
      <4>2. \A i \in 1..Len(Feed(d)) : Feed(d)[i] <= published /\ Feed(d)[i] \in Nat
        <5>1. \A i \in 1..Len(Feed(d)) : Feed(d)[i] <= published
          BY <1>1 DEF Tracks
        <5>2. \A i \in 1..Len(Feed(d)) : Feed(d)[i] \in Ids
          BY <4>1
        <5>3. \A i \in Ids : i \in Nat
          BY WsAssumption DEF Ids
        <5> QED
          BY <5>1, <5>2, <5>3
      <4>3. \A i \in 1..Len(Feed(d)) : Feed(d)[i] <= published + 1
        BY <2>1, <4>2
      <4>4. Tracks(Feed(d)', gap'[d], published', d \in conn')
        BY <1>1, <2>1, <3>3, <4>1, <4>3 DEF Tracks
      <4> QED
        BY <1>1, <2>1, <3>3, <4>4
    <3> QED
      BY <3>2, <3>3
  <2> QED
    BY <1>1, <2>2
<1>4. ASSUME NEW c \in Clients, Connect(c) PROVE FeedInv'
  <2>1. c \notin conn /\ pc[c] = "end"
    BY <1>1, <1>4 DEF Connect
  <2>2. /\ pc'[c] = "new" /\ pump'[c] = "get" /\ inbox'[c] = <<>> /\ sent'[c] = <<>> /\ conn' = conn
        /\ UNCHANGED published
    BY <1>4 DEF Connect, GoTo, FeedType, StageType
  <2>3. Tracks(Feed(c)', gap'[c], published', c \in conn')
    BY <2>2 DEF Feed, Tracks
  <2>4. Good(c)'
    BY <2>1, <2>2, <2>3
  <2>5. ASSUME NEW d \in Clients, d # c PROVE Good(d)'
    <3>1. /\ UNCHANGED published /\ pc'[d] = pc[d] /\ conn' = conn
          /\ pump'[d] = pump[d] /\ inbox'[d] = inbox[d] /\ sent'[d] = sent[d] /\ gap'[d] = gap[d]
      BY <1>4, <2>5 DEF Connect, GoTo, FeedType, StageType
    <3> QED
      BY <1>2, <3>1
  <2> QED
    BY <1>1, <2>4, <2>5
<1>5. ASSUME NEW c \in Clients, SendJson(c) PROVE FeedInv'
  <2>1. inbox[c] \in Seq(Ids) /\ sent[c] \in Seq(Ids) /\ inbox[c] # <<>> /\ pc[c] = "run"
    BY <1>1, <1>5 DEF SendJson, FeedType
  <2>2. UNCHANGED <<pc, conn, gap, published>> /\ pump'[c] # "send"
    BY <1>5 DEF SendJson, FeedType
  <2>3. Feed(c)' = Feed(c)
    <3>1. CASE online[c]
      <4>1. sent'[c] = Append(sent[c], Head(inbox[c])) /\ inbox'[c] = Tail(inbox[c])
        BY <1>5, <3>1 DEF SendJson, FeedType
      <4> QED
        BY <2>1, <4>1, SendingKeeps DEF Feed
    <3>2. CASE ~online[c]
      BY <1>5, <3>2 DEF SendJson, Feed
    <3> QED
      BY <3>1, <3>2
  <2>4. Tracks(Feed(c)', gap'[c], published', c \in conn')
    BY <1>1, <2>2, <2>3
  <2>5. Good(c)'
    BY <1>1, <2>1, <2>2, <2>4
  <2>6. ASSUME NEW d \in Clients, d # c PROVE Good(d)'
    <3>1. pump'[d] = pump[d] /\ inbox'[d] = inbox[d] /\ sent'[d] = sent[d]
      BY <1>5, <2>6 DEF SendJson, FeedType
    <3> QED
      BY <1>2, <2>2, <3>1
  <2> QED
    BY <1>1, <2>5, <2>6
<1>6. ASSUME NEW c \in Clients, RedisLost(c) PROVE FeedInv'
  <2>1. inbox[c] \in Seq(Ids) /\ sent[c] \in Seq(Ids) /\ published \in Nat /\ pc[c] = "run"
    BY <1>6, WsAssumption DEF RedisLost, FeedType
  <2>2. /\ UNCHANGED <<pc, sent, published>> /\ pump'[c] # "send" /\ inbox'[c] = <<>> /\ gap'[c] = TRUE
        /\ conn' \in {conn, conn \ {c}}
    BY <1>6 DEF RedisLost, FeedType
  <2>3. Tracks(sent[c] \o <<>>, TRUE, published, c \in conn')
    <3>1. Tracks(sent[c] \o inbox[c], gap[c], published, c \in conn)
      BY <1>1 DEF Feed
    <3>2. \A x : Tracks(sent[c] \o <<>>, TRUE, published, x)
      BY <2>1, <3>1, BrokenTracks
    <3> QED
      BY <3>2
  <2>4. Tracks(Feed(c)', gap'[c], published', c \in conn')
    BY <2>2, <2>3 DEF Feed
  <2>5. Good(c)'
    BY <1>1, <2>1, <2>2, <2>4
  <2>6. ASSUME NEW d \in Clients, d # c PROVE Good(d)'
    <3>1. pump'[d] = pump[d] /\ inbox'[d] = inbox[d] /\ gap'[d] = gap[d] /\ (d \in conn' <=> d \in conn)
      BY <1>6, <2>6 DEF RedisLost, FeedType
    <3> QED
      BY <1>2, <2>2, <3>1
  <2> QED
    BY <1>1, <2>5, <2>6
<1>7. ASSUME NEW c \in Clients, GetMessage(c) PROVE FeedInv'
  <2>1. UNCHANGED <<pc, conn, inbox, sent, gap, published>> /\ inbox[c] # <<>>
    BY <1>7 DEF GetMessage
  <2>2. ASSUME NEW d \in Clients PROVE Good(d)'
    <3>1. pump'[d] = "send" => inbox[d] # <<>>
      BY <1>1, <1>7 DEF GetMessage, FeedType
    <3>2. Feed(d)' = Feed(d)
      BY <2>1 DEF Feed
    <3> QED
      BY <1>1, <2>1, <3>1, <3>2
  <2> QED
    BY <1>1, <2>2
<1>8. ASSUME NEW c \in Clients, Disconnect(c) \/ WatchDisconnect(c) PROVE FeedInv'
  BY <1>1, <1>2, <1>8 DEF Disconnect, WatchDisconnect, feed
<1>9. CASE UNCHANGED vars
  BY <1>1, <1>2, <1>9 DEF vars, feed
<1> QED
  BY <1>3, <1>4, <1>5, <1>6, <1>7, <1>8, <1>9, HandlerFeed DEF Next

(* A client gets what was published while it was subscribed in order and   *)
(* once, and without a hole unless its Redis connection was re-established.*)
THEOREM MessagesInOrder == Spec => []InOrder
<1>1. Init => FeedType /\ FeedInv
  <2> SUFFICES ASSUME Init PROVE FeedType /\ FeedInv
    OBVIOUS
  <2>1. StageType /\ published \in 0..MaxPublished /\ <<>> \in Seq(Ids)
    BY WsAssumption DEF Init, StageType, Stages
  <2>2. FeedType
    BY <2>1 DEF Init, FeedType
  <2>3. ASSUME NEW c \in Clients PROVE Tracks(Feed(c), gap[c], published, c \in conn)
    BY DEF Init, Feed, Tracks
  <2> QED
    BY <2>2, <2>3 DEF Init, FeedInv
<1>2. FeedType /\ FeedInv /\ [Next]_vars => (FeedType /\ FeedInv)'
  BY FeedTypeStep, FeedStep
<1>3. FeedInv => InOrder
  BY DEF FeedInv, Feed, Tracks, InOrder
<1> QED
  BY <1>1, <1>2, <1>3, PTL DEF Spec

-------------------------------------------------------------------------------
(* Names and files *)

Files == [no: Nat, gz: BOOLEAN]
Zipped(f) == [f EXCEPT !.gz = TRUE]

LEMMA NameFields ==
  /\ \A d \in Days : /\ Base(d) \in Names
                     /\ Base(d).day = d /\ Base(d).n = 0 /\ Base(d).gz = FALSE
  /\ \A d \in Days, k \in 0..BackupCount, z \in BOOLEAN :
       /\ Name(d, k, z) \in Names
       /\ Name(d, k, z).day = d /\ Name(d, k, z).n = k /\ Name(d, k, z).gz = z
  /\ \A n \in Names : /\ Gz(n) \in Names
                      /\ Gz(n).day = n.day /\ Gz(n).n = n.n /\ Gz(n).gz = TRUE
                      /\ n.day \in Days /\ n.n \in 0..BackupCount /\ n.gz \in BOOLEAN
  /\ \A m, n \in Names : m.day = n.day /\ m.n = n.n /\ m.gz = n.gz => m = n
<1> USE LogAssumption
<1>4. 0 \in 0..BackupCount /\ FALSE \in BOOLEAN
  OBVIOUS
<1>5. ASSUME NEW n \in Names
      PROVE  /\ Gz(n) \in Names
             /\ Gz(n).day = n.day /\ Gz(n).n = n.n /\ Gz(n).gz = TRUE
             /\ n.day \in Days /\ n.n \in 0..BackupCount /\ n.gz \in BOOLEAN
  BY DEF Gz, Names
<1>6. ASSUME NEW m \in Names, NEW n \in Names, m.day = n.day, m.n = n.n, m.gz = n.gz
      PROVE  m = n
  BY <1>6 DEF Names
<1>7. \A d \in Days : /\ Base(d) \in Names
                      /\ Base(d).day = d /\ Base(d).n = 0 /\ Base(d).gz = FALSE
  BY <1>4 DEF Base, Name, Names
<1>8. ASSUME NEW d \in Days, NEW k \in 0..BackupCount, NEW z \in BOOLEAN
      PROVE  /\ Name(d, k, z) \in Names
             /\ Name(d, k, z).day = d /\ Name(d, k, z).n = k /\ Name(d, k, z).gz = z
  BY DEF Name, Names
<1> QED
  BY <1>5, <1>6, <1>7, <1>8

LEMMA FileFields ==
  /\ \A f \in Files : /\ Zipped(f) \in Files /\ Zipped(f).no = f.no /\ Zipped(f).gz = TRUE
                      /\ f.no \in Nat /\ f.gz \in BOOLEAN
  /\ \A f, g \in Files : f.no = g.no /\ f.gz = g.gz => f = g
  /\ \A n \in Nat : File(n) \in Files /\ File(n).no = n /\ File(n).gz = FALSE
<1>1. ASSUME NEW f \in Files
      PROVE  /\ Zipped(f) \in Files /\ Zipped(f).no = f.no /\ Zipped(f).gz = TRUE
             /\ f.no \in Nat /\ f.gz \in BOOLEAN
  BY DEF Zipped, Files
<1>2. ASSUME NEW f \in Files, NEW g \in Files, f.no = g.no, f.gz = g.gz
      PROVE  f = g
  BY <1>2 DEF Files
<1>3. \A n \in Nat : File(n) \in Files /\ File(n).no = n /\ File(n).gz = FALSE
  BY DEF File, Files
<1> QED
  BY <1>1, <1>2, <1>3

(* A finite set of integers that is not empty has a largest element: of    *)
(* the upper parts of the set one has no other below it.                   *)
LEMMA MaxExists ==
  ASSUME NEW S \in SUBSET Int, IsFiniteSet(S), S # {}
  PROVE  Max(S) \in S /\ \A y \in S : Max(S) >= y
<1> DEFINE Upper(i) == {j \in S : j >= i}
           T == {Upper(i) : i \in S}
<1>1. T # {} /\ T \subseteq FiniteSubsetsOf(S)
  <2>1. T \subseteq SUBSET S /\ T # {}
    OBVIOUS
  <2> QED
    BY <2>1, FS_FiniteSubsetsOfFinite
<1>2. PICK U \in T : \A V \in T : <<V, U>> \notin StrictSubsetOrdering(S)
  <2> HIDE DEF T
  <2> QED
    BY <1>1, FS_StrictSubsetOrderingWellFounded, WFMin
<1>3. PICK m \in S : U = Upper(m)
  BY <1>2
<1>4. \A i \in S : m >= i
  <2> SUFFICES ASSUME NEW i \in S, ~(m >= i) PROVE FALSE
    OBVIOUS
  <2>1. Upper(i) \subseteq U /\ m \in U /\ m \notin Upper(i)
    <3>1. m \in Int /\ i \in Int /\ i > m
      OBVIOUS
    <3>2. \A j \in S : j >= i => j >= m
      BY <3>1
    <3>3. m >= m /\ ~(m >= i)
      BY <3>1
    <3>4. Upper(i) \subseteq Upper(m) /\ m \in Upper(m) /\ m \notin Upper(i)
      BY <3>2, <3>3
    <3> QED
      BY <1>3, <3>4
  <2>2. <<Upper(i), U>> \in StrictSubsetOrdering(S)
    BY <1>3, <2>1 DEF StrictSubsetOrdering
  <2> QED
    BY <1>2, <2>2
<1> QED
  BY <1>4 DEF Max

-------------------------------------------------------------------------------
(* The inductive invariant, for the one worker w *)

Entries == [name: Names, size: Nat, mtime: Nat]
Threads == [at: {"idle", "copy", "unlink"}, src: Files, dst: Files]

FilesTyped ==
  /\ log \in Seq(Days)
  /\ DOMAIN data # {} /\ \E k \in Nat : DOMAIN data \subseteq [no: 0..k, gz: BOOLEAN]
  /\ data \in [DOMAIN data -> [lines: SUBSET Nat, mtime: Nat]]
  /\ \A f \in DOMAIN data : data[f].lines \subseteq 1..Len(log) /\ data[f].mtime <= Len(log)
  /\ DOMAIN dir \subseteq Names /\ \A n \in DOMAIN dir : dir[n] \in DOMAIN data

WorkerTyped ==
  /\ today \in Days /\ cap \in Nat
  /\ step \in [Workers -> {"idle", "expire", "open", "list", "cap", "dead"}]
  /\ record \in [Workers -> BOOLEAN] /\ date \in [Workers -> Days]
  /\ stream \in [Workers -> Files] /\ doomed \in [Workers -> SUBSET Names]
  /\ found \in [Workers -> SUBSET Entries]
  /\ jobs \in [Workers -> Seq(Names)] /\ gzip \in [Workers -> Threads]

In(n) == data[dir[n]].lines

(* A file has one name, except that a plain file and its compression may   *)
(* be there together, as current file or first backup.  When a shift was   *)
(* cut after it had moved the compression, that one is ahead of the file.  *)
Ahead(m, n) == m.gz /\ m.day = n.day /\ m.n > n.n /\ n.n > 0

OneName ==
  /\ \A n \in DOMAIN dir : dir[n].gz = n.gz
  /\ \A m, n \in DOMAIN dir : dir[m] = dir[n] => m = n
  /\ \A m, n \in DOMAIN dir : ~n.gz /\ dir[m] = Zipped(dir[n]) => m = Gz(n) \/ Ahead(m, n)
  /\ \A n \in DOMAIN dir : ~n.gz /\ Gz(n) \in DOMAIN dir =>
                                n.n <= 1 /\ dir[Gz(n)] = Zipped(dir[n])

(* The lines of a file are of the day of its name, and older than those of *)
(* the files of that day with a lower number, unless it is the compression *)
(* of one of them, which has no line that the plain file does not have.    *)
Sorted ==
  /\ \A n \in DOMAIN dir : \A l \in In(n) : log[l] = n.day
  /\ \A m, n \in DOMAIN dir : m.day = n.day /\ m.n > n.n =>
       dir[m] = Zipped(dir[n]) \/ \A i \in In(m), j \in In(n) : i < j
  /\ \A m, n \in DOMAIN dir : ~n.gz /\ dir[m] = Zipped(dir[n]) => In(m) \subseteq In(n)

(* Nothing is newer than the day of the handler. *)
Dated(w) ==
  /\ date[w] <= today
  /\ \A n \in DOMAIN dir : n.day <= date[w] /\ (n.gz /\ n.n = 0 => n.day < date[w])
  /\ \A n \in doomed[w] : n.day < date[w] - Retention

(* Outside a rollover the stream is the file of the day. *)
Active(w) ==
  /\ step[w] \in {"idle", "list", "cap"} \/ (step[w] = "expire" /\ ~record[w]) =>
       Base(date[w]) \in DOMAIN dir /\ dir[Base(date[w])] = stream[w]
  /\ step[w] = "open" => record[w]
  /\ step[w] = "cap" => cap > 0
  /\ step[w] # "cap" => found[w] = {}

(* There is one compression at a time, of the file of a past day or of the *)
(* first backup, and its target is not there before it begins.             *)
Busy(w) == gzip[w].at # "idle"

OneJob(w) ==
  /\ jobs[w] = <<>> \/ \E n \in Names : jobs[w] = <<n>>
  /\ Busy(w) => jobs[w] # <<>>
  /\ \A n \in Names : jobs[w] = <<n>> =>
       /\ ~n.gz /\ n.day <= date[w] /\ (n.n = 1 \/ (n.n = 0 /\ n.day < date[w]))
       /\ ~Busy(w) => /\ Gz(n) \notin DOMAIN dir /\ \A e \in found[w] : e.name # Gz(n)
                      /\ n \in DOMAIN dir => \A m \in DOMAIN dir : dir[m] # Zipped(dir[n])

(* The compression of the file src under the name n to dst. *)
Compressing(n, at, src, dst) ==
  /\ ~src.gz /\ dst = Zipped(src) /\ src \in DOMAIN data /\ dst \in DOMAIN data
  /\ n \in DOMAIN dir => dir[n] = src
  /\ Gz(n) \in DOMAIN dir => dir[Gz(n)] = dst
  /\ \A m \in DOMAIN dir : (dir[m] = src => m = n) /\ (dir[m] = dst => m = Gz(n))
  /\ data[src].mtime <= data[dst].mtime
  /\ \A l \in data[src].lines : log[l] = n.day
  /\ \A m \in DOMAIN dir : m.day = n.day =>
       /\ m.n > n.n => \A i \in In(m), j \in data[src].lines : i < j
       /\ m.n < n.n => \A i \in data[src].lines, j \in In(m) : i < j
  /\ data[dst].lines = IF at = "copy" THEN {} ELSE data[src].lines

(* What was listed of the two, and who may have unlinked the target.       *)
Eviction(w, n, at, src) ==
  /\ at = "copy" /\ n \in DOMAIN dir => \A e \in found[w] : e.name = Gz(n) =>
       \E f \in found[w] : f.name = n /\ f.mtime <= e.mtime
  /\ n \in DOMAIN dir /\ Gz(n) \notin DOMAIN dir =>
       \/ n.day < date[w] - Retention
       \/ at = "unlink" /\ cap > 0 /\ data[src].lines \subseteq discarded

InGzip(w) ==
  Busy(w) => \A n \in Names : jobs[w] = <<n>> =>
    /\ Compressing(n, gzip[w].at, gzip[w].src, gzip[w].dst)
    /\ Eviction(w, n, gzip[w].at, gzip[w].src)

(* A plain file beside its compression has nothing that would be missed.   *)
Spare(n) == ~n.gz /\ Gz(n) \in DOMAIN dir => In(n) \subseteq In(Gz(n)) \cup torn
Pairs(w) == \A n \in DOMAIN dir : Spare(n) \/ (Busy(w) /\ jobs[w] = <<n>>)

(* Why a line is in no file.  Lines of a compression in progress may come  *)
(* back to the directory.                                                  *)
Alive(w) == Kept \cup (IF Busy(w) THEN data[gzip[w].src].lines ELSE {})
Excused(w, l) ==
  \/ log[l] < today - Retention
  \/ l \in torn
  \/ l \in discarded /\ (cap = 0 => \A k \in Alive(w) : log[k] = log[l] => l < k)
Accounted(w) == \A l \in 1..Len(log) : l \in Kept \/ Excused(w, l)

Tree == FilesTyped /\ OneName /\ Sorted
RotationInv(w) ==
  /\ WorkerTyped /\ Tree /\ Dated(w) /\ Active(w)
  /\ OneJob(w) /\ InGzip(w) /\ Pairs(w) /\ Accounted(w)

LEMMA InKept ==
  ASSUME DOMAIN dir \subseteq Names
  PROVE  \A l : l \in Kept <=> \E n \in DOMAIN dir : l \in In(n)
BY DEF Kept, LinesOf, In

LEMMA RotationInvInit ==
  ASSUME NEW w \in Workers, RotationInit
  PROVE  RotationInv(w)
<1> USE LogAssumption DEF RotationInit
<1>1. /\ 0 \in Days /\ Base(0) \in Names /\ Base(0).day = 0 /\ Base(0).n = 0 /\ Base(0).gz = FALSE
      /\ File(1) \in Files /\ File(1).no = 1 /\ File(1).gz = FALSE /\ Zipped(File(1)).gz = TRUE
      /\ Gz(Base(0)).gz = TRUE
  <2>1. 0 \in Days
    BY DEF Days
  <2> QED
    BY <2>1, NameFields, FileFields
<1>2. DOMAIN dir = {Base(0)} /\ dir[Base(0)] = File(1) /\ DOMAIN data = {File(1)}
  OBVIOUS
<1>3. data[File(1)].lines = {} /\ data[File(1)].mtime = 0 /\ Len(log) = 0 /\ log \in Seq(Days)
  OBVIOUS
<1>4. FilesTyped
  <2>1. File(1) \in [no: 0..1, gz: BOOLEAN]
    BY DEF File
  <2>2. data \in [DOMAIN data -> [lines: SUBSET Nat, mtime: Nat]]
    OBVIOUS
  <2> QED
    BY <1>1, <1>2, <1>3, <2>1, <2>2 DEF FilesTyped
<1>5. OneName /\ Sorted /\ Pairs(w)
  BY <1>1, <1>2, <1>3 DEF OneName, Sorted, Pairs, Spare, In
<1>6. /\ step[w] = "idle" /\ date[w] = 0 /\ stream[w] = File(1) /\ doomed[w] = {} /\ found[w] = {}
      /\ jobs[w] = <<>> /\ gzip[w] = Idle
  OBVIOUS
<1>7. Idle \in Threads /\ Idle.at = "idle"
  BY FileFields DEF Idle, Threads, NoFile
<1>8. Dated(w) /\ Active(w)
  BY <1>1, <1>2, <1>6 DEF Dated, Active
<1>9. OneJob(w) /\ InGzip(w) /\ Accounted(w)
  BY <1>3, <1>6, <1>7 DEF OneJob, InGzip, Busy, Accounted
<1>10. WorkerTyped
  <2>1. cap \in Nat /\ <<>> \in Seq(Names)
    OBVIOUS
  <2> QED
    BY <1>1, <1>7, <2>1 DEF WorkerTyped
<1> QED
  BY <1>4, <1>5, <1>8, <1>9, <1>10 DEF RotationInv, Tree

-------------------------------------------------------------------------------
(* Steps that write nothing and create no file *)

Restricts == DOMAIN dir' \subseteq DOMAIN dir /\ \A n \in DOMAIN dir' : dir'[n] = dir[n]

LEMMA RestrictTree ==
  ASSUME Tree, Restricts, UNCHANGED <<data, log>>
  PROVE  Tree' /\ (\A n \in DOMAIN dir' : In(n)' = In(n)) /\ Kept' \subseteq Kept
<1>1. FilesTyped'
  BY DEF Tree, FilesTyped, Restricts
<1>2. \A n \in DOMAIN dir' : In(n)' = In(n)
  BY DEF Restricts, In
<1>3. OneName'
  BY DEF Tree, OneName, Restricts
<1>4. Sorted'
  BY <1>2 DEF Tree, Sorted, Restricts
<1>5. Kept' \subseteq Kept
  <2>1. \A l : l \in Kept' => \E n \in DOMAIN dir' : l \in In(n)'
    BY <1>1, InKept DEF FilesTyped, Kept, LinesOf, In
  <2>2. \A l : l \in Kept <=> \E n \in DOMAIN dir : l \in In(n)
    BY InKept DEF Tree, FilesTyped
  <2> QED
    BY <1>2, <2>1, <2>2 DEF Restricts
<1> QED
  BY <1>1, <1>2, <1>3, <1>4, <1>5 DEF Tree

(* Who was excused stays so, and who is lost needs an excuse. *)
LEMMA RestrictAccounted ==
  ASSUME NEW w \in Workers, RotationInv(w), Restricts, UNCHANGED <<data, log, cap, torn>>,
         today' \in Days, today' >= today, discarded \subseteq discarded', Alive(w)' \subseteq Alive(w),
         \A n \in DOMAIN dir \ DOMAIN dir' : \A l \in In(n) : l \in Kept' \/ Excused(w, l)'
  PROVE  Accounted(w)'
<1> SUFFICES ASSUME NEW l \in 1..Len(log), l \notin Kept' PROVE Excused(w, l)'
  BY DEF Accounted
<1>1. Tree /\ DOMAIN dir \subseteq Names
  BY DEF RotationInv, Tree, FilesTyped
<1>2. \A n \in DOMAIN dir' : In(n)' = In(n)
  BY <1>1, RestrictTree
<1>3. \A k : k \in Kept <=> \E n \in DOMAIN dir : k \in In(n)
  BY <1>1, InKept
<1>4. \A n \in DOMAIN dir' : \A k \in In(n)' : k \in Kept'
  BY DEF Kept, LinesOf, In
<1>5. CASE l \in Kept
  <2>1. PICK n \in DOMAIN dir : l \in In(n)
    BY <1>3, <1>5
  <2>2. n \notin DOMAIN dir'
    BY <1>2, <1>4, <2>1
  <2> QED
    BY <2>1, <2>2
<1>6. CASE l \notin Kept
  <2>1. Excused(w, l)
    BY <1>6 DEF RotationInv, Accounted
  <2>2. log[l] \in Int /\ today \in Int /\ today' \in Int /\ Retention \in Int
    <3>1. log \in Seq(Days)
      BY <1>1 DEF Tree, FilesTyped
    <3>2. log[l] \in Days
      BY <3>1
    <3>3. today \in Days
      BY DEF RotationInv, WorkerTyped
    <3> QED
      BY LogAssumption, <3>2, <3>3 DEF Days
  <2>3. log[l] < today - Retention => log[l] < today' - Retention
    BY <2>2
  <2> QED
    BY <2>1, <2>3 DEF Excused
<1> QED
  BY <1>5, <1>6

LEMMA RestrictInv ==
  ASSUME NEW w \in Workers, RotationInv(w), Restricts, UNCHANGED <<data, log, cap, torn>>,
         UNCHANGED <<date, jobs, gzip>>, WorkerTyped', Active(w)', today' >= today,
         doomed'[w] \subseteq doomed[w], discarded \subseteq discarded',
         \A n \in Names : ~Busy(w) /\ jobs[w] = <<n>> => \A e \in found'[w] : e.name # Gz(n),
         \A n \in Names : Busy(w) /\ jobs[w] = <<n>> => Eviction(w, n, gzip[w].at, gzip[w].src)',
         \A n \in DOMAIN dir \ DOMAIN dir' : \A l \in In(n) : l \in Kept' \/ Excused(w, l)'
  PROVE  RotationInv(w)'
<1>1. Tree' /\ (\A n \in DOMAIN dir' : In(n)' = In(n)) /\ Kept' \subseteq Kept
  BY RestrictTree DEF RotationInv
<1>2. Busy(w)' = Busy(w)
  BY DEF Busy
<1>3. Dated(w)'
  BY DEF RotationInv, WorkerTyped, Dated, Restricts, Days
<1>4. OneJob(w)'
  BY <1>2 DEF RotationInv, OneJob, Restricts
<1>5. InGzip(w)'
  <2> SUFFICES ASSUME Busy(w), NEW n \in Names, jobs[w] = <<n>>
               PROVE  Compressing(n, gzip[w].at, gzip[w].src, gzip[w].dst)'
    BY <1>2 DEF InGzip
  <2>1. Compressing(n, gzip[w].at, gzip[w].src, gzip[w].dst)
    BY DEF RotationInv, InGzip
  <2> QED
    BY <1>1, <2>1 DEF Compressing, Restricts
<1>6. Pairs(w)'
  <2> SUFFICES ASSUME NEW n \in DOMAIN dir' PROVE Spare(n)' \/ (Busy(w) /\ jobs[w] = <<n>>)
    BY <1>2 DEF Pairs
  <2>1. n \in DOMAIN dir
    BY DEF Restricts
  <2>2. Spare(n) => Spare(n)'
    BY <1>1 DEF Spare, Restricts
  <2> QED
    BY <2>1, <2>2 DEF RotationInv, Pairs
<1>7. Alive(w)' \subseteq Alive(w)
  BY <1>1, <1>2 DEF Alive
<1>8. today' \in Days
  BY DEF WorkerTyped
<1>9. Accounted(w)'
  BY <1>7, <1>8, RestrictAccounted
<1> QED
  BY <1>1, <1>3, <1>4, <1>5, <1>6, <1>9 DEF RotationInv

LEMMA MidnightStep ==
  ASSUME NEW w \in Workers, RotationInv(w), Midnight \/ UNCHANGED rotationvars
  PROVE  RotationInv(w)'
<1>1. /\ today' \in Days /\ today' >= today
      /\ UNCHANGED <<cap, dir, data, log, step, record, date, stream, doomed, found, jobs, gzip>>
      /\ UNCHANGED <<discarded, torn>>
  <2>1. today \in 0..MaxDay /\ MaxDay \in Nat
    BY LogAssumption DEF RotationInv, WorkerTyped, Days
  <2>2. today' \in Days /\ today' >= today
    BY <2>1 DEF Midnight, rotationvars, Days
  <2> QED
    BY <2>2 DEF Midnight, rotationvars, files, handler, thread, ghosts
<1>2. Restricts
  BY <1>1 DEF Restricts
<1>3. WorkerTyped'
  BY <1>1 DEF RotationInv, WorkerTyped
<1>4. Active(w)'
  BY <1>1 DEF RotationInv, Active
<1>5. \A n \in Names : Busy(w) /\ jobs[w] = <<n>> => Eviction(w, n, gzip[w].at, gzip[w].src)'
  BY <1>1 DEF RotationInv, InGzip, Eviction
<1>6. \A n \in Names : ~Busy(w) /\ jobs[w] = <<n>> => \A e \in found'[w] : e.name # Gz(n)
  BY <1>1 DEF RotationInv, OneJob
<1> QED
  BY <1>1, <1>2, <1>3, <1>4, <1>5, <1>6, RestrictInv

(* cleanup_old_files takes nothing but what has passed the retention. *)
LEMMA ExpireStep ==
  ASSUME NEW w \in Workers, RotationInv(w), Expire(w)
  PROVE  RotationInv(w)'
<1>1. /\ step[w] = "expire" /\ found[w] = {}
      /\ UNCHANGED <<today, cap, data, log, record, date, stream, found, jobs, gzip, discarded, torn>>
  BY DEF RotationInv, Active, Expire, thread, ghosts
<1>2. /\ today \in Int /\ date[w] \in Int /\ Retention \in Nat /\ date[w] <= today
      /\ DOMAIN dir \subseteq Names /\ Base(date[w]).day = date[w]
  BY LogAssumption, NameFields
  DEF RotationInv, WorkerTyped, Days, Dated, Tree, FilesTyped
<1>3. \A n \in Names : ~Busy(w) /\ jobs[w] = <<n>> => \A e \in found'[w] : e.name # Gz(n)
  BY <1>1
<1>4. CASE \E n \in doomed[w] : /\ dir' = Unbind(dir, {n}) /\ UNCHANGED step
                                /\ doomed' = [doomed EXCEPT ![w] = doomed[w] \ {n}]
  <2>1. PICK n \in doomed[w] : /\ dir' = Unbind(dir, {n}) /\ UNCHANGED step
                               /\ doomed' = [doomed EXCEPT ![w] = doomed[w] \ {n}]
    BY <1>4
  <2>2. n.day < date[w] - Retention /\ n.day \in Int /\ n \in Names
    BY NameFields DEF RotationInv, Dated, WorkerTyped, Days
  <2>3. DOMAIN dir' = DOMAIN dir \ {n} /\ \A m \in DOMAIN dir' : dir'[m] = dir[m]
    BY <2>1 DEF Unbind
  <2>4. Base(date[w]) # n
    BY <1>2, <2>2
  <2>5. WorkerTyped' /\ doomed'[w] \subseteq doomed[w]
    BY <1>1, <2>1 DEF RotationInv, WorkerTyped
  <2>6. Active(w)'
    BY <1>1, <2>1, <2>3, <2>4 DEF RotationInv, Active
  <2>7. \A m \in Names : Busy(w) /\ jobs[w] = <<m>> => Eviction(w, m, gzip[w].at, gzip[w].src)'
    <3> SUFFICES ASSUME NEW m \in Names, Busy(w), jobs[w] = <<m>>
                 PROVE  Eviction(w, m, gzip[w].at, gzip[w].src)'
      OBVIOUS
    <3>1. Eviction(w, m, gzip[w].at, gzip[w].src) /\ Gz(m).day = m.day
      BY NameFields DEF RotationInv, InGzip
    <3> QED
      BY <1>1, <2>2, <2>3, <3>1 DEF Eviction
  <2>8. ASSUME NEW m \in DOMAIN dir \ DOMAIN dir', NEW l \in In(m) PROVE Excused(w, l)'
    <3>1. m = n /\ log[l] = n.day
      BY <2>3 DEF RotationInv, Tree, Sorted
    <3> QED
      BY <1>1, <1>2, <2>2, <3>1 DEF Excused
  <2>9. Restricts /\ today' >= today
    BY <1>1, <1>2, <2>3 DEF Restricts
  <2> QED
    BY <1>1, <1>3, <2>5, <2>6, <2>7, <2>8, <2>9, RestrictInv
<1>5. CASE /\ Enter(w, IF record[w] THEN "open" ELSE "list") /\ UNCHANGED <<dir, doomed>>
  <2>1. Restricts /\ today' >= today
    BY <1>1, <1>2, <1>5 DEF Restricts
  <2>2. step'[w] = (IF record[w] THEN "open" ELSE "list") /\ WorkerTyped'
    BY <1>1, <1>5 DEF RotationInv, WorkerTyped, Enter
  <2>3. Active(w)'
    BY <1>1, <1>5, <2>2 DEF RotationInv, Active
  <2>4. \A n \in Names : Busy(w) /\ jobs[w] = <<n>> => Eviction(w, n, gzip[w].at, gzip[w].src)'
    BY <1>1, <1>5 DEF RotationInv, InGzip, Eviction
  <2> QED
    BY <1>1, <1>3, <1>5, <2>1, <2>2, <2>3, <2>4, RestrictInv
<1> QED
  BY <1>4, <1>5 DEF Expire

(* The clean-up takes a file that was listed, and of two with the same     *)
(* mtime the plain one.                                                    *)
LEMMA OldestFound ==
  ASSUME NEW w \in Workers, found[w] \subseteq Entries, found[w] # {}
  PROVE  /\ Oldest(w) \in found[w]
         /\ \A f \in found[w] : /\ Oldest(w).mtime <= f.mtime
                                /\ Oldest(w).mtime = f.mtime /\ Oldest(w).name.gz => f.name.gz
<1> DEFINE key(e) == 2 * e.mtime + (IF e.name.gz THEN 1 ELSE 0)
<1>1. \A e \in found[w] : e.mtime \in Nat /\ e.name.gz \in BOOLEAN /\ key(e) \in Nat
  BY NameFields DEF Entries
<1>2. PICK e0 \in found[w] : TRUE
  OBVIOUS
<1> DEFINE S == {i \in -key(e0)..0 : \E e \in found[w] : i = -key(e)}
<1>3. -key(e0) \in S /\ S \subseteq Int /\ S \subseteq -key(e0)..0
  BY <1>1, <1>2
<1>4. IsFiniteSet(S)
  <2>1. -key(e0) \in Int
    BY <1>1, <1>2
  <2> HIDE DEF key, S
  <2>2. IsFiniteSet(-key(e0)..0)
    BY <2>1, FS_Interval
  <2> QED
    BY <1>3, <2>2, FS_Subset
<1>5. PICK m \in S : \A y \in S : m >= y
  <2> HIDE DEF S
  <2> QED
    BY <1>3, <1>4, MaxExists
<1>6. PICK e \in found[w] : m = -key(e)
  OBVIOUS
<1>7. \A f \in found[w] : key(e) <= key(f)
  <2> SUFFICES ASSUME NEW f \in found[w], ~(key(e) <= key(f)) PROVE FALSE
    OBVIOUS
  <2>1. key(e) \in Nat /\ key(f) \in Nat /\ key(e0) \in Nat
    BY <1>1
  <2>2. key(f) < key(e) /\ key(e) <= key(e0)
    <3>1. m \in -key(e0)..0
      OBVIOUS
    <3> HIDE DEF key, S
    <3> QED
      BY <1>6, <2>1, <3>1
  <2>3. -key(f) \in S
    BY <2>1, <2>2
  <2> HIDE DEF key, S
  <2> QED
    BY <1>5, <1>6, <2>1, <2>2, <2>3
<1>8. \A f \in found[w] : e.mtime < f.mtime \/ (e.mtime = f.mtime /\ (f.name.gz \/ ~e.name.gz))
  BY <1>1, <1>7
<1>9. /\ Oldest(w) \in found[w]
      /\ \A f \in found[w] : \/ Oldest(w).mtime < f.mtime
                             \/ Oldest(w).mtime = f.mtime /\ (f.name.gz \/ ~Oldest(w).name.gz)
  BY <1>6, <1>8 DEF Oldest
<1> QED
  BY <1>1, <1>9

LEMMA ListedEntries ==
  ASSUME Tree
  PROVE  /\ Listed \subseteq Entries
         /\ \A e \in Listed : e.name \in DOMAIN dir /\ e.mtime = data[dir[e.name]].mtime
         /\ \A n \in DOMAIN dir : \E e \in Listed : e.name = n
<1>1. \A n \in DOMAIN dir : /\ n \in Names /\ dir[n] \in DOMAIN data
                            /\ data[dir[n]].mtime \in Nat
                            /\ data[dir[n]].lines \subseteq 1..Len(log)
  BY DEF Tree, FilesTyped
<1>2. IsFiniteSet(1..Len(log))
  BY FS_Interval DEF Tree, FilesTyped
<1>3. \A n \in DOMAIN dir : SizeOf(dir[n]) \in Nat
  <2> TAKE n \in DOMAIN dir
  <2>1. Cardinality(data[dir[n]].lines) \in Nat
    BY <1>1, <1>2, FS_Subset, FS_CardinalityType
  <2> QED
    BY <2>1 DEF SizeOf
<1> DEFINE entry(n) == [name |-> n, size |-> SizeOf(dir[n]), mtime |-> data[dir[n]].mtime]
<1>4. \A n \in DOMAIN dir : entry(n) \in Entries /\ entry(n).name = n /\ entry(n).mtime = data[dir[n]].mtime
  <2> TAKE n \in DOMAIN dir
  <2>1. n \in Names /\ SizeOf(dir[n]) \in Nat /\ data[dir[n]].mtime \in Nat
    BY <1>1, <1>3
  <2> QED
    BY <2>1 DEF Entries
<1>5. Listed = {entry(n) : n \in DOMAIN dir}
  BY DEF Listed
<1> HIDE DEF entry
<1> QED
  BY <1>4, <1>5

LEMMA ListStep ==
  ASSUME NEW w \in Workers, RotationInv(w), List(w)
  PROVE  RotationInv(w)'
<1>1. /\ step[w] = "list" /\ cap > 0 /\ found' = [found EXCEPT ![w] = Listed]
      /\ step' = [step EXCEPT ![w] = "cap"]
      /\ UNCHANGED <<today, cap, dir, data, log, record, date, stream, doomed, jobs, gzip, discarded, torn>>
  BY DEF List, Enter, files, thread, ghosts
<1>2. /\ Listed \subseteq Entries /\ Tree
      /\ \A e \in Listed : e.name \in DOMAIN dir /\ e.mtime = data[dir[e.name]].mtime
      /\ \A n \in DOMAIN dir : \E e \in Listed : e.name = n
  BY ListedEntries DEF RotationInv
<1> HIDE DEF Listed
<1>3. WorkerTyped' /\ found'[w] = Listed /\ step'[w] = "cap"
  BY <1>1, <1>2 DEF RotationInv, WorkerTyped
<1>4. Active(w)'
  BY <1>1, <1>3 DEF RotationInv, Active
<1>5. \A n \in Names : ~Busy(w) /\ jobs[w] = <<n>> => \A e \in found'[w] : e.name # Gz(n)
  BY <1>2, <1>3 DEF RotationInv, OneJob
<1>6. \A n \in Names : Busy(w) /\ jobs[w] = <<n>> => Eviction(w, n, gzip[w].at, gzip[w].src)'
  <2> SUFFICES ASSUME NEW n \in Names, Busy(w), jobs[w] = <<n>>
               PROVE  Eviction(w, n, gzip[w].at, gzip[w].src)'
    OBVIOUS
  <2>1. /\ Eviction(w, n, gzip[w].at, gzip[w].src)
        /\ Compressing(n, gzip[w].at, gzip[w].src, gzip[w].dst)
    BY DEF RotationInv, InGzip
  <2>2. ASSUME n \in DOMAIN dir, NEW e \in Listed, e.name = Gz(n)
        PROVE  \E f \in Listed : f.name = n /\ f.mtime <= e.mtime
    <3>1. dir[n] = gzip[w].src /\ dir[Gz(n)] = gzip[w].dst
      BY <1>2, <2>1, <2>2 DEF Compressing
    <3>2. PICK f \in Listed : f.name = n
      BY <1>2, <2>2
    <3> QED
      BY <1>2, <2>1, <2>2, <3>1, <3>2 DEF Compressing
  <2> QED
    BY <1>1, <1>3, <2>1, <2>2 DEF Eviction
<1>7. Restricts /\ today' >= today
  BY <1>1 DEF Restricts, RotationInv, WorkerTyped, Days
<1> QED
  BY <1>1, <1>3, <1>4, <1>5, <1>6, <1>7, RestrictInv

(* The size clean-up never takes the empty target of a compression while   *)
(* the file it is to replace is there: that one is at least as old.        *)
LEMMA EvictStep ==
  ASSUME NEW w \in Workers, RotationInv(w), Evict(w)
  PROVE  RotationInv(w)'
<1> DEFINE e == Oldest(w)
<1>1. /\ step[w] = "cap" /\ found[w] # {} /\ found' = [found EXCEPT ![w] = found[w] \ {e}]
      /\ UNCHANGED <<today, cap, data, log, step, record, date, stream, doomed, jobs, gzip, torn>>
  BY DEF Evict, thread
<1>2. \/ /\ e.name # Base(date[w]) /\ e.name \in DOMAIN dir /\ dir' = Unbind(dir, {e.name})
         /\ discarded' = discarded \cup LinesOf({e.name})
      \/ /\ e.name = Base(date[w]) \/ e.name \notin DOMAIN dir
         /\ UNCHANGED <<dir, discarded>>
  BY DEF Evict
<1>3. /\ e \in found[w]
      /\ \A f \in found[w] : /\ e.mtime <= f.mtime
                             /\ e.mtime = f.mtime /\ e.name.gz => f.name.gz
  BY <1>1, OldestFound DEF RotationInv, WorkerTyped
<1>4. /\ \A f \in found[w] : f.mtime \in Nat /\ f.name \in Names
      /\ \A n \in Names : Gz(n) \in Names /\ Gz(n).gz = TRUE
      /\ cap > 0 /\ today >= today
  BY <1>1, NameFields DEF RotationInv, WorkerTyped, Entries, Active, Days
<1> HIDE DEF e
<1>5. /\ found'[w] = found[w] \ {e} /\ WorkerTyped' /\ discarded \subseteq discarded'
      /\ Restricts
  BY <1>1, <1>2 DEF RotationInv, WorkerTyped, Restricts, Unbind
<1>6. Active(w)'
  BY <1>1, <1>2, <1>5 DEF RotationInv, Active, Unbind
<1>7. \A n \in Names : ~Busy(w) /\ jobs[w] = <<n>> => \A f \in found'[w] : f.name # Gz(n)
  BY <1>5 DEF RotationInv, OneJob
<1>8. ASSUME NEW n \in Names, Busy(w), jobs[w] = <<n>>
      PROVE  Eviction(w, n, gzip[w].at, gzip[w].src)'
  <2>1. /\ Eviction(w, n, gzip[w].at, gzip[w].src)
        /\ Compressing(n, gzip[w].at, gzip[w].src, gzip[w].dst)
        /\ ~n.gz /\ n # Base(date[w]) /\ gzip[w].at \in {"copy", "unlink"}
    <3>1. Compressing(n, gzip[w].at, gzip[w].src, gzip[w].dst) /\ Eviction(w, n, gzip[w].at, gzip[w].src)
      BY <1>8 DEF RotationInv, InGzip
    <3>2. date[w] \in Days /\ gzip[w].at \in {"idle", "copy", "unlink"}
      BY DEF RotationInv, WorkerTyped, Threads
    <3>3. ~n.gz /\ (n.n = 1 \/ (n.n = 0 /\ n.day < date[w]))
      BY <1>8 DEF RotationInv, OneJob
    <3>4. n # Base(date[w])
      BY <3>2, <3>3, NameFields DEF Days
    <3> QED
      BY <1>8, <3>1, <3>2, <3>3, <3>4 DEF Busy
  <2>2. gzip[w].at = "copy" /\ n \in DOMAIN dir /\ Gz(n) \in DOMAIN dir => e.name # Gz(n)
    <3> SUFFICES ASSUME gzip[w].at = "copy", n \in DOMAIN dir, e.name = Gz(n) PROVE FALSE
      OBVIOUS
    <3>1. PICK f \in found[w] : f.name = n /\ f.mtime <= e.mtime
      BY <1>3, <2>1 DEF Eviction
    <3> QED
      BY <1>3, <1>4, <2>1, <3>1
  <2>3. gzip[w].at = "copy" /\ n \in DOMAIN dir' => \A g \in found'[w] : g.name = Gz(n) =>
          \E f \in found'[w] : f.name = n /\ f.mtime <= g.mtime
    <3> SUFFICES ASSUME gzip[w].at = "copy", n \in DOMAIN dir', NEW g \in found'[w], g.name = Gz(n)
                 PROVE  \E f \in found'[w] : f.name = n /\ f.mtime <= g.mtime
      OBVIOUS
    <3>1. n \in DOMAIN dir /\ g \in found[w]
      BY <1>5 DEF Restricts
    <3>2. PICK f \in found[w] : f.name = n /\ f.mtime <= g.mtime
      BY <2>1, <3>1 DEF Eviction
    <3>3. e.name # n
      BY <1>2, <2>1, <3>1 DEF Unbind
    <3> QED
      BY <1>5, <3>2, <3>3
  <2>4. ASSUME n \in DOMAIN dir', Gz(n) \notin DOMAIN dir', Gz(n) \in DOMAIN dir
        PROVE  gzip[w].at = "unlink" /\ data[gzip[w].src].lines \subseteq discarded'
    <3>1. e.name = Gz(n) /\ n \in DOMAIN dir
      BY <1>2, <2>4 DEF Unbind
    <3>2. gzip[w].at = "unlink"
      BY <2>1, <2>2, <2>4, <3>1
    <3>3. LinesOf({e.name}) = data[dir[Gz(n)]].lines /\ discarded' = discarded \cup LinesOf({e.name})
      BY <1>2, <2>4, <3>1 DEF LinesOf
    <3> QED
      BY <2>1, <2>4, <3>2, <3>3 DEF Compressing
  <2> QED
    BY <1>1, <1>4, <1>5, <2>1, <2>3, <2>4 DEF Eviction, Restricts
<1>9. ASSUME NEW n \in DOMAIN dir \ DOMAIN dir', NEW l \in In(n) PROVE Excused(w, l)'
  <2>1. n = e.name /\ discarded' = discarded \cup LinesOf({e.name})
    BY <1>2 DEF Unbind
  <2>2. l \in discarded'
    BY <2>1 DEF LinesOf, In
  <2> QED
    BY <1>1, <1>4, <2>2 DEF Excused
<1> QED
  BY <1>1, <1>4, <1>5, <1>6, <1>7, <1>8, <1>9, RestrictInv

(* The end of a rollover that had no line to write. *)
LEMMA ReturnStep ==
  ASSUME NEW w \in Workers, RotationInv(w), Return(w), ~record[w]
  PROVE  RotationInv(w)'
<1>1. /\ step[w] \in {"list", "cap"} /\ step' = [step EXCEPT ![w] = "idle"]
      /\ record' = [record EXCEPT ![w] = FALSE] /\ found' = [found EXCEPT ![w] = {}]
      /\ UNCHANGED <<today, cap, dir, data, log, date, stream, doomed, jobs, gzip, discarded, torn>>
  BY DEF Return, Enter, thread, ghosts
<1>2. WorkerTyped' /\ found'[w] = {} /\ step'[w] = "idle"
  BY <1>1 DEF RotationInv, WorkerTyped
<1>3. Active(w)'
  BY <1>1, <1>2 DEF RotationInv, Active
<1>4. \A n \in Names : Busy(w) /\ jobs[w] = <<n>> => Eviction(w, n, gzip[w].at, gzip[w].src)'
  BY <1>1, <1>2 DEF RotationInv, InGzip, Eviction
<1>5. Restricts /\ today' >= today
  BY <1>1 DEF Restricts, RotationInv, WorkerTyped, Days
<1> QED
  BY <1>1, <1>2, <1>3, <1>4, <1>5, RestrictInv

-------------------------------------------------------------------------------
(* The end of a compression *)

LEMMA JobOf ==
  ASSUME NEW w \in Workers, RotationInv(w), jobs[w] # <<>>
  PROVE  \E n \in Names : /\ jobs[w] = <<n>> /\ Head(jobs[w]) = n
                          /\ ~n.gz /\ n.day <= date[w] /\ n.day \in Days
                          /\ n.n = 1 \/ (n.n = 0 /\ n.day < date[w])
                          /\ n # Base(date[w]) /\ Gz(n) # Base(date[w]) /\ Gz(n) \in Names /\ n # Gz(n)
<1>1. PICK n \in Names : jobs[w] = <<n>>
  BY DEF RotationInv, OneJob
<1>2. /\ ~n.gz /\ n.day <= date[w] /\ n.day \in Days
      /\ n.n = 1 \/ (n.n = 0 /\ n.day < date[w])
  BY <1>1, NameFields DEF RotationInv, OneJob
<1>3. date[w] \in Days /\ n.day \in Int /\ date[w] \in Int
  BY <1>2 DEF RotationInv, WorkerTyped, Days
<1>4. n # Base(date[w]) /\ Gz(n) # Base(date[w]) /\ Gz(n) \in Names /\ n # Gz(n)
  BY <1>2, <1>3, NameFields
<1>5. Head(jobs[w]) = n
  BY <1>1
<1> QED
  BY <1>1, <1>2, <1>4, <1>5

LEMMA JobDoneInv ==
  ASSUME NEW w \in Workers, RotationInv(w), NEW n \in Names, jobs[w] = <<n>>, JobDone(w), Restricts,
         UNCHANGED <<today, cap, data, log, step, record, date, stream, doomed, found>>,
         UNCHANGED <<discarded, torn>>,
         DOMAIN dir \ {n, Gz(n)} \subseteq DOMAIN dir',
         n \in DOMAIN dir' => Spare(n)',
         \A m \in DOMAIN dir \ DOMAIN dir' : \A l \in In(m) : l \in Kept' \/ Excused(w, l)'
  PROVE  RotationInv(w)'
<1>1. jobs'[w] = <<>> /\ gzip'[w] = Idle /\ WorkerTyped'
  <2>1. Tail(jobs[w]) = <<>> /\ <<>> \in Seq(Names)
    OBVIOUS
  <2>2. Idle \in Threads
    BY FileFields DEF Idle, Threads, NoFile
  <2>3. jobs' = [jobs EXCEPT ![w] = <<>>] /\ gzip' = [gzip EXCEPT ![w] = Idle]
    BY <2>1 DEF JobDone
  <2> QED
    BY <2>1, <2>2, <2>3 DEF RotationInv, WorkerTyped
<1>2. ~Busy(w)'
  BY <1>1 DEF Busy, Idle
<1>3. Tree' /\ (\A m \in DOMAIN dir' : In(m)' = In(m)) /\ Kept' \subseteq Kept
  BY RestrictTree DEF RotationInv
<1>4. Dated(w)'
  BY DEF RotationInv, Dated, Restricts
<1>5. Active(w)'
  <2>1. n # Base(date[w]) /\ Gz(n) # Base(date[w])
    BY JobOf
  <2> QED
    BY <2>1 DEF RotationInv, Active, Restricts
<1>6. OneJob(w)' /\ InGzip(w)'
  BY <1>1, <1>2 DEF OneJob, InGzip
<1>7. Pairs(w)'
  <2> SUFFICES ASSUME NEW m \in DOMAIN dir', m # n PROVE Spare(m)'
    BY DEF Pairs
  <2>1. Spare(m)
    BY DEF RotationInv, Pairs, Restricts
  <2> QED
    BY <1>3, <2>1 DEF Spare, Restricts
<1>8. Alive(w)' \subseteq Alive(w)
  BY <1>2, <1>3 DEF Alive
<1>9. Accounted(w)'
  <2>1. today' \in Days /\ today' >= today /\ discarded \subseteq discarded'
    BY DEF RotationInv, WorkerTyped, Days
  <2> QED
    BY <1>8, <2>1, RestrictAccounted
<1> QED
  BY <1>1, <1>3, <1>4, <1>5, <1>6, <1>7, <1>9 DEF RotationInv

(* The file to compress has gone. *)
LEMMA GzipMissesStep ==
  ASSUME NEW w \in Workers, RotationInv(w), GzipOpen(w), Head(jobs[w]) \notin DOMAIN dir
  PROVE  RotationInv(w)'
<1>1. jobs[w] # <<>> /\ gzip[w].at = "idle" /\ dir' = Unbind(dir, {Gz(Head(jobs[w]))}) /\ JobDone(w)
  BY DEF GzipOpen
<1>2. /\ UNCHANGED <<today, cap, data, log, step, record, date, stream, doomed, found>>
      /\ UNCHANGED <<discarded, torn>>
  BY DEF GzipOpen, handler, ghosts
<1>3. PICK n \in Names : jobs[w] = <<n>> /\ Head(jobs[w]) = n
  BY <1>1, JobOf
<1>4. Gz(n) \notin DOMAIN dir /\ n \notin DOMAIN dir
  BY <1>1, <1>3 DEF RotationInv, OneJob, Busy
<1>5. DOMAIN dir' = DOMAIN dir /\ Restricts
  BY <1>1, <1>3, <1>4 DEF Unbind, Restricts
<1> QED
  BY <1>1, <1>2, <1>3, <1>4, <1>5, JobDoneInv

(* The copy fails: the target was empty. *)
LEMMA GzipFailsStep ==
  ASSUME NEW w \in Workers, RotationInv(w), gzip[w].at = "copy",
         dir' = Unbind(dir, {Gz(Head(jobs[w]))}), JobDone(w),
         UNCHANGED <<today, cap, data, log, handler, ghosts>>
  PROVE  RotationInv(w)'
<1>1. /\ UNCHANGED <<today, cap, data, log, step, record, date, stream, doomed, found>>
      /\ UNCHANGED <<discarded, torn>>
  BY DEF handler, ghosts
<1>2. PICK n \in Names : jobs[w] = <<n>> /\ Head(jobs[w]) = n
  BY JobOf DEF RotationInv, OneJob, Busy
<1>3. Compressing(n, gzip[w].at, gzip[w].src, gzip[w].dst)
  BY <1>2 DEF RotationInv, InGzip, Busy
<1>4. DOMAIN dir' = DOMAIN dir \ {Gz(n)} /\ Restricts
  BY <1>2 DEF Unbind, Restricts
<1>5. n \in DOMAIN dir' => Spare(n)'
  BY <1>4 DEF Spare
<1>6. \A m \in DOMAIN dir \ DOMAIN dir' : In(m) = {}
  BY <1>3, <1>4 DEF Compressing, In
<1> QED
  BY <1>1, <1>2, <1>4, <1>5, <1>6, JobDoneInv

(* The copy has been made; the plain file goes, or not. *)
LEMMA GzipUnlinkStep ==
  ASSUME NEW w \in Workers, RotationInv(w), GzipUnlink(w)
  PROVE  RotationInv(w)'
<1>1. /\ gzip[w].at = "unlink" /\ JobDone(w) /\ dir' \in {dir, Unbind(dir, {Head(jobs[w])})}
      /\ UNCHANGED <<today, cap, data, log, step, record, date, stream, doomed, found>>
      /\ UNCHANGED <<discarded, torn>>
  BY DEF GzipUnlink, handler, ghosts
<1>2. PICK n \in Names : jobs[w] = <<n>> /\ Head(jobs[w]) = n /\ n # Gz(n)
  BY <1>1, JobOf DEF RotationInv, OneJob, Busy
<1>3. /\ Compressing(n, "unlink", gzip[w].src, gzip[w].dst)
      /\ Eviction(w, n, "unlink", gzip[w].src)
  BY <1>1, <1>2 DEF RotationInv, InGzip, Busy
<1>4. Restricts /\ DOMAIN dir \ {n} \subseteq DOMAIN dir'
  BY <1>1, <1>2 DEF Unbind, Restricts
<1>5. n \in DOMAIN dir' => Spare(n)'
  BY <1>1, <1>3, <1>4 DEF Compressing, Spare, In, Restricts
<1>6. ASSUME NEW m \in DOMAIN dir \ DOMAIN dir', NEW l \in In(m) PROVE l \in Kept' \/ Excused(w, l)'
  <2>1. m = n /\ n \in DOMAIN dir /\ l \in data[gzip[w].src].lines
    BY <1>3, <1>4 DEF Compressing, In
  <2>2. CASE Gz(n) \in DOMAIN dir
    <3>1. Gz(n) \in DOMAIN dir' /\ dir'[Gz(n)] = gzip[w].dst /\ data'[gzip[w].dst].lines = data[gzip[w].src].lines
      BY <1>1, <1>2, <1>3, <1>4, <2>2 DEF Compressing, Restricts
    <3> QED
      BY <2>1, <3>1 DEF Kept, LinesOf
  <2>3. CASE Gz(n) \notin DOMAIN dir
    <3>1. /\ n.day < date[w] - Retention \/ (cap > 0 /\ l \in discarded)
          /\ log[l] = n.day
      BY <1>3, <2>1, <2>3 DEF Eviction, Compressing
    <3>2. n.day < date[w] - Retention => n.day < today - Retention
      BY LogAssumption, NameFields DEF RotationInv, WorkerTyped, Dated, Days
    <3>3. Excused(w, l)'
      BY <1>1, <3>1, <3>2 DEF Excused
    <3> QED
      BY <3>3
  <2> QED
    BY <2>2, <2>3
<1> QED
  BY <1>1, <1>2, <1>4, <1>5, <1>6, JobDoneInv

-------------------------------------------------------------------------------
(* The beginning of a compression, and the copy *)

LEMMA NewDayStep ==
  ASSUME NEW w \in Workers, RotationInv(w), NewDay(w)
  PROVE  RotationInv(w)'
<1> DEFINE b == Base(date[w])
<1>1. /\ step[w] = "idle" /\ jobs[w] = <<>> /\ today # date[w]
      /\ record' = [record EXCEPT ![w] = TRUE] /\ date' = [date EXCEPT ![w] = today]
      /\ doomed' = [doomed EXCEPT ![w] = Expired] /\ step' = [step EXCEPT ![w] = "expire"]
      /\ jobs' = [jobs EXCEPT ![w] = IF b \in DOMAIN dir THEN Append(jobs[w], b) ELSE jobs[w]]
      /\ UNCHANGED <<today, cap, dir, data, log, stream, found, gzip, discarded, torn>>
  BY DEF NewDay, Rollover, CompressionsDone, Enter, files, ghosts
<1>2. /\ b \in DOMAIN dir /\ b \in Names /\ found[w] = {} /\ ~Busy(w) /\ ~Busy(w)'
      /\ today \in Days /\ date[w] \in Days /\ date[w] < today
  <2>1. date[w] <= today /\ date[w] \in Days /\ today \in Days
    BY DEF RotationInv, Dated, WorkerTyped
  <2>2. date[w] < today
    BY <1>1, <2>1 DEF Days
  <2>3. ~Busy(w) /\ ~Busy(w)'
    BY <1>1 DEF RotationInv, OneJob, Busy
  <2> QED
    BY <1>1, <2>1, <2>2, <2>3, NameFields DEF RotationInv, Active
<1>3. b.day = date[w] /\ b.n = 0 /\ b.gz = FALSE /\ Gz(b) \notin DOMAIN dir
  <2>1. b.day = date[w] /\ b.n = 0 /\ b.gz = FALSE /\ Gz(b).day = date[w] /\ Gz(b).n = 0 /\ Gz(b).gz
    BY <1>2, NameFields
  <2> QED
    BY <1>2, <2>1 DEF RotationInv, Dated, Days
<1> HIDE DEF b
<1>4. jobs' = [jobs EXCEPT ![w] = <<b>>]
  BY <1>1, <1>2
<1>5. WorkerTyped'
  <2>1. <<b>> \in Seq(Names)
    BY <1>2
  <2>2. Expired \subseteq Names
    BY DEF Expired, RotationInv, Tree, FilesTyped
  <2> QED
    BY <1>1, <1>2, <1>4, <2>1, <2>2 DEF RotationInv, WorkerTyped
<1>6. /\ jobs'[w] = <<b>> /\ date'[w] = today /\ doomed'[w] = Expired /\ step'[w] = "expire" /\ record'[w]
  BY <1>1, <1>4 DEF RotationInv, WorkerTyped
<1>7. Restricts /\ today' >= today
  BY <1>1, <1>2 DEF Restricts, Days
<1>8. Tree' /\ Kept' = Kept /\ \A n \in DOMAIN dir : In(n)' = In(n)
  BY <1>1, <1>7, RestrictTree DEF RotationInv, Kept, LinesOf, In
<1>9. Dated(w)'
  <2>1. \A n \in DOMAIN dir : n.day \in Days /\ n.day <= today /\ (n.gz /\ n.n = 0 => n.day < today)
    BY <1>2, NameFields DEF RotationInv, Dated, Tree, FilesTyped, Days
  <2> QED
    BY <1>1, <1>2, <1>6, <2>1 DEF Dated, Expired, Days
<1>10. Active(w)'
  BY <1>1, <1>2, <1>6 DEF Active
<1>11. OneJob(w)'
  <2>1. b.day <= today /\ b.day < today
    BY <1>2, <1>3 DEF Days
  <2>2. \A m \in DOMAIN dir : dir[m] # Zipped(dir[b])
    BY <1>2, <1>3 DEF RotationInv, Tree, OneName, Ahead
  <2> QED
    BY <1>1, <1>2, <1>3, <1>6, <2>1, <2>2 DEF OneJob
<1>12. InGzip(w)'
  BY <1>2 DEF InGzip
<1>13. Pairs(w)'
  BY <1>1, <1>2, <1>8 DEF RotationInv, Pairs, Spare
<1>14. Accounted(w)'
  <2>1. Alive(w)' \subseteq Alive(w)
    BY <1>2, <1>8 DEF Alive
  <2> QED
    BY <1>1, <1>2, <1>7, <2>1, RestrictAccounted
<1> QED
  BY <1>5, <1>8, <1>9, <1>10, <1>11, <1>12, <1>13, <1>14 DEF RotationInv

LEMMA GzipOpenStep ==
  ASSUME NEW w \in Workers, RotationInv(w), GzipOpen(w), Head(jobs[w]) \in DOMAIN dir
  PROVE  RotationInv(w)'
<1>1. jobs[w] # <<>> /\ gzip[w].at = "idle"
  BY DEF GzipOpen
<1>2. PICK n \in Names : /\ jobs[w] = <<n>> /\ Head(jobs[w]) = n
                         /\ ~n.gz /\ n.day <= date[w] /\ n.day \in Days
                         /\ n.n = 1 \/ (n.n = 0 /\ n.day < date[w])
                         /\ Gz(n) \in Names /\ n # Gz(n)
  BY <1>1, JobOf
<1>pair. PICK src, dst, z : src = dir[n] /\ dst = Zipped(src) /\ z = Gz(n)
  OBVIOUS
<1>3. /\ n \in DOMAIN dir /\ z \notin DOMAIN dir /\ \A e \in found[w] : e.name # z
      /\ \A m \in DOMAIN dir : dir[m] # dst
  BY <1>1, <1>2, <1>pair DEF RotationInv, OneJob, Busy
<1>4. /\ dir' = Bind(dir, z, dst) /\ data' = Bind(data, dst, NewFile)
      /\ gzip' = [gzip EXCEPT ![w] = [at |-> "copy", src |-> src, dst |-> dst]]
      /\ UNCHANGED <<today, cap, log, step, record, date, stream, doomed, found, jobs, discarded, torn>>
  BY <1>2, <1>3, <1>pair DEF GzipOpen, Zipped, handler, ghosts
<1>5. /\ src \in DOMAIN data /\ src \in Files /\ ~src.gz /\ dst \in Files /\ dst.gz = TRUE /\ dst.no = src.no
      /\ z.day = n.day /\ z.n = n.n /\ z.gz = TRUE
      /\ DOMAIN data \subseteq Files /\ DOMAIN dir \subseteq Names
  <2>1. DOMAIN data \subseteq Files /\ DOMAIN dir \subseteq Names
    BY DEF RotationInv, Tree, FilesTyped, Files
  <2>2. src \in DOMAIN data /\ ~src.gz
    BY <1>2, <1>3, <1>pair DEF RotationInv, Tree, FilesTyped, OneName
  <2> QED
    BY <1>2, <1>pair, <2>1, <2>2, FileFields, NameFields
<1>6. ASSUME NEW m \in DOMAIN dir PROVE dir[m] # dst /\ m # z
  BY <1>3
<1>7. /\ DOMAIN dir' = DOMAIN dir \cup {z} /\ dir'[z] = dst
      /\ \A m \in DOMAIN dir : dir'[m] = dir[m]
  BY <1>4, <1>6 DEF Bind
<1>8. /\ DOMAIN data' = DOMAIN data \cup {dst} /\ data'[dst] = [lines |-> {}, mtime |-> Len(log)]
      /\ \A f \in DOMAIN data : f # dst => data'[f] = data[f]
  BY <1>4 DEF Bind, NewFile
<1>9. In(z)' = {} /\ \A m \in DOMAIN dir : In(m)' = In(m)
  BY <1>6, <1>7, <1>8 DEF RotationInv, Tree, FilesTyped, In
<1>10. Kept' = Kept
  <2>1. DOMAIN dir' \subseteq Names
    BY <1>2, <1>5, <1>7, <1>pair
  <2>2. \A l : l \in Kept <=> \E m \in DOMAIN dir : l \in In(m)
    BY <1>5, InKept
  <2>3. \A l : l \in Kept' <=> \E m \in DOMAIN dir' : l \in In(m)'
    BY <2>1 DEF Kept, LinesOf, In
  <2>4. ASSUME NEW l PROVE l \in Kept' <=> l \in Kept
    <3>1. l \in Kept => l \in Kept'
      BY <1>7, <1>9, <2>2, <2>3
    <3>2. l \in Kept' => l \in Kept
      <4> SUFFICES ASSUME l \in Kept' PROVE l \in Kept
        OBVIOUS
      <4>1. PICK m \in DOMAIN dir' : l \in In(m)'
        BY <2>3
      <4>2. m \in DOMAIN dir /\ l \in In(m)
        BY <1>7, <1>9, <4>1
      <4> QED
        BY <2>2, <4>2
    <3> QED
      BY <3>1, <3>2
  <2> QED
    BY <2>4
<1>11. FilesTyped'
  <2>1. PICK k \in Nat : DOMAIN data \subseteq [no: 0..k, gz: BOOLEAN]
    BY DEF RotationInv, Tree, FilesTyped
  <2>2. dst \in [no: 0..k, gz: BOOLEAN]
    <3>1. src.no \in 0..k /\ dst.gz \in BOOLEAN
      BY <1>5, <2>1, FileFields
    <3>2. dst = [no |-> dst.no, gz |-> dst.gz]
      BY <1>5 DEF Files
    <3> QED
      BY <1>5, <3>1, <3>2
  <2>3. log \in Seq(Days) /\ Len(log) \in Nat
    BY DEF RotationInv, Tree, FilesTyped
  <2>4. data' \in [DOMAIN data' -> [lines: SUBSET Nat, mtime: Nat]]
    <3>1. \A f \in DOMAIN data' : data'[f] \in [lines: SUBSET Nat, mtime: Nat]
      BY <1>8, <2>3 DEF RotationInv, Tree, FilesTyped
    <3> QED
      BY <1>4, <3>1 DEF Bind
  <2>5. DOMAIN data' \subseteq [no: 0..k, gz: BOOLEAN]
    BY <1>8, <2>1, <2>2
  <2>6. \A f \in DOMAIN data' : data'[f].lines \subseteq 1..Len(log) /\ data'[f].mtime <= Len(log)
    BY <1>8, <2>3 DEF RotationInv, Tree, FilesTyped
  <2>7. DOMAIN dir' \subseteq Names /\ \A m \in DOMAIN dir' : dir'[m] \in DOMAIN data'
    BY <1>2, <1>5, <1>7, <1>8, <1>pair DEF RotationInv, Tree, FilesTyped
  <2>8. log' = log
    BY <1>4
  <2> QED
    BY <1>8, <2>3, <2>4, <2>5, <2>6, <2>7, <2>8 DEF FilesTyped
<1>12. /\ jobs'[w] = <<n>> /\ gzip'[w] = [at |-> "copy", src |-> src, dst |-> dst] /\ Busy(w)' /\ ~Busy(w)
       /\ gzip'[w].at = "copy" /\ gzip'[w].src = src /\ gzip'[w].dst = dst
       /\ \A m \in Names : jobs'[w] = <<m>> => m = n
  <2>1. /\ jobs'[w] = <<n>> /\ \A m \in Names : jobs'[w] = <<m>> => m = n
    BY <1>2, <1>4
  <2>2. gzip'[w] = [at |-> "copy", src |-> src, dst |-> dst]
    BY <1>4 DEF RotationInv, WorkerTyped
  <2>3. /\ gzip'[w].at = "copy" /\ gzip'[w].src = src /\ gzip'[w].dst = dst
    BY <2>2
  <2> QED
    BY <1>1, <2>1, <2>2, <2>3 DEF Busy
<1>13. WorkerTyped'
  <2>1. [at |-> "copy", src |-> src, dst |-> dst] \in Threads
    BY <1>5 DEF Threads
  <2>2. gzip' \in [Workers -> Threads]
    BY <1>4, <2>1 DEF RotationInv, WorkerTyped
  <2> QED
    BY <1>4, <2>2 DEF RotationInv, WorkerTyped
<1>14. OneName'
  <2>1. \A m \in DOMAIN dir' : dir'[m].gz = m.gz
    BY <1>5, <1>7 DEF RotationInv, Tree, OneName
  <2>2. \A m, p \in DOMAIN dir' : dir'[m] = dir'[p] => m = p
    BY <1>6, <1>7 DEF RotationInv, Tree, OneName
  <2>3. ASSUME NEW m \in DOMAIN dir', NEW p \in DOMAIN dir', ~p.gz, dir'[m] = Zipped(dir'[p])
        PROVE  m = Gz(p) \/ Ahead(m, p)
    <3>1. p \in DOMAIN dir /\ dir'[p] = dir[p] /\ dir[p] \in Files /\ dir[p].gz = FALSE
      BY <1>5, <1>7, <2>3 DEF RotationInv, Tree, OneName, FilesTyped
    <3>2. CASE m \in DOMAIN dir
      BY <1>7, <2>3, <3>1, <3>2 DEF RotationInv, Tree, OneName
    <3>3. CASE m = z
      <4>1. dst = Zipped(dir[p])
        BY <1>7, <2>3, <3>1, <3>3
      <4>2. dir[p].no = src.no /\ src.gz = FALSE
        BY <1>5, <3>1, <4>1, FileFields
      <4>3. dir[p] = src
        BY <1>5, <3>1, <4>2, FileFields
      <4>4. p = n
        BY <1>3, <3>1, <4>3, <1>pair DEF RotationInv, Tree, OneName
      <4> QED
        BY <3>3, <4>4, <1>pair
    <3> QED
      BY <1>7, <3>2, <3>3
  <2>4. ASSUME NEW p \in DOMAIN dir', ~p.gz, Gz(p) \in DOMAIN dir'
        PROVE  p.n <= 1 /\ dir'[Gz(p)] = Zipped(dir'[p])
    <3>1. p \in DOMAIN dir /\ p \in Names
      BY <1>5, <1>7, <2>4
    <3>2. CASE Gz(p) \in DOMAIN dir
      BY <1>7, <2>4, <3>1, <3>2 DEF RotationInv, Tree, OneName
    <3>3. CASE Gz(p) = z
      <4>1. p = n
        BY <1>2, <1>5, <2>4, <3>1, <3>3, NameFields
      <4> QED
        BY <1>2, <1>3, <1>7, <3>3, <4>1, <1>pair
    <3> QED
      BY <1>7, <2>4, <3>2, <3>3
  <2> QED
    BY <2>1, <2>2, <2>3, <2>4 DEF OneName
<1>15. Sorted'
  <2>1. \A m \in DOMAIN dir' : \A l \in In(m)' : m \in DOMAIN dir /\ l \in In(m)
    BY <1>7, <1>9
  <2>2. ASSUME NEW m \in DOMAIN dir', NEW p \in DOMAIN dir', m.day = p.day, m.n > p.n,
               dir'[m] # Zipped(dir'[p]), NEW i \in In(m)', NEW j \in In(p)'
        PROVE  i < j
    <3>1. m \in DOMAIN dir /\ p \in DOMAIN dir /\ i \in In(m) /\ j \in In(p)
      BY <2>1, <2>2
    <3>2. dir[m] # Zipped(dir[p])
      BY <1>7, <2>2, <3>1
    <3> QED
      BY <2>2, <3>1, <3>2 DEF RotationInv, Tree, Sorted
  <2>3. ASSUME NEW m \in DOMAIN dir', NEW p \in DOMAIN dir', ~p.gz, dir'[m] = Zipped(dir'[p])
        PROVE  In(m)' \subseteq In(p)'
    <3>1. p \in DOMAIN dir
      BY <1>5, <1>7, <2>3
    <3>2. CASE m = z
      BY <1>9, <3>2
    <3>3. CASE m \in DOMAIN dir
      BY <1>7, <1>9, <2>3, <3>1, <3>3 DEF RotationInv, Tree, Sorted
    <3> QED
      BY <1>7, <3>2, <3>3
  <2>4. \A m \in DOMAIN dir' : \A l \in In(m)' : log'[l] = m.day
    BY <1>4, <2>1 DEF RotationInv, Tree, Sorted
  <2>5. \A m, p \in DOMAIN dir' : m.day = p.day /\ m.n > p.n =>
          dir'[m] = Zipped(dir'[p]) \/ \A i \in In(m)', j \in In(p)' : i < j
    BY <2>2
  <2> QED
    BY <2>3, <2>4, <2>5 DEF Sorted
<1>16. Dated(w)'
  <2>1. z.day <= date[w] /\ (z.n = 0 => z.day < date[w])
    BY <1>2, <1>5
  <2> QED
    BY <1>4, <1>7, <2>1 DEF RotationInv, Dated
<1>17. Active(w)'
  BY <1>4, <1>7 DEF RotationInv, Active
<1>18. OneJob(w)'
  <2>1. jobs[w] = <<n>> => n.day <= date[w] /\ (n.n = 1 \/ (n.n = 0 /\ n.day < date[w]))
    BY <1>2
  <2>2. jobs'[w] # <<>> /\ date' = date
    BY <1>4, <1>12
  <2>3. ASSUME NEW m \in Names, jobs'[w] = <<m>>
        PROVE  ~m.gz /\ m.day <= date'[w] /\ (m.n = 1 \/ (m.n = 0 /\ m.day < date'[w]))
    BY <1>2, <1>12, <2>2, <2>3
  <2> QED
    BY <1>12, <2>2, <2>3 DEF OneJob
<1>19. Compressing(n, "copy", src, dst)'
  <2>1. data'[src] = data[src] /\ src # dst
    BY <1>5, <1>8
  <2>2. \A m \in DOMAIN dir' : (dir'[m] = src => m = n) /\ (dir'[m] = dst => m = z)
    BY <1>3, <1>5, <1>6, <1>7, <1>pair DEF RotationInv, Tree, OneName
  <2>3. data'[src].mtime <= data'[dst].mtime
    BY <1>5, <1>8, <2>1 DEF RotationInv, Tree, FilesTyped
  <2>4. \A l \in data'[src].lines : log'[l] = n.day
    BY <1>3, <1>4, <2>1, <1>pair DEF RotationInv, Tree, Sorted, In
  <2>5. \A m \in DOMAIN dir' : m.day = n.day =>
         /\ m.n > n.n => \A i \in In(m)', j \in data'[src].lines : i < j
         /\ m.n < n.n => \A i \in data'[src].lines, j \in In(m)' : i < j
    <3> SUFFICES ASSUME NEW m \in DOMAIN dir', m.day = n.day
        PROVE  /\ m.n > n.n => \A i \in In(m)', j \in data'[src].lines : i < j
               /\ m.n < n.n => \A i \in data'[src].lines, j \in In(m)' : i < j
      OBVIOUS
    <3>1. CASE m = z
      BY <1>9, <3>1
    <3>2. CASE m \in DOMAIN dir
      <4>1. In(m)' = In(m) /\ data'[src].lines = In(n)
        BY <1>9, <2>1, <3>2, <1>pair DEF In
      <4>2. m.n \in Int /\ n.n \in Int /\ (m.n < n.n => n.n > m.n)
        BY <1>5, <3>2, NameFields
      <4>3. dir[m] # Zipped(dir[n]) /\ dir[n] # Zipped(dir[m])
        <5>1. dir[m] \in Files
          BY <1>5, <3>2 DEF RotationInv, Tree, FilesTyped
        <5> QED
          BY <1>3, <1>5, <3>2, <5>1, <1>pair, FileFields
      <4> QED
        BY <1>3, <3>2, <4>1, <4>2, <4>3 DEF RotationInv, Tree, Sorted
    <3> QED
      BY <1>7, <3>1, <3>2
  <2>6. n \in DOMAIN dir' /\ dir'[n] = src /\ dir'[z] = dst
    BY <1>3, <1>7, <1>pair
  <2>7. src \in DOMAIN data' /\ dst \in DOMAIN data' /\ data'[dst].lines = {} /\ dst = Zipped(src)
    BY <1>5, <1>8, <1>pair
  <2> QED
    BY <1>5, <2>2, <2>3, <2>4, <2>5, <2>6, <2>7, <1>pair DEF Compressing
<1>20. Eviction(w, n, "copy", src)'
  BY <1>3, <1>4, <1>7, <1>pair DEF Eviction
<1>21. InGzip(w)'
  BY <1>12, <1>19, <1>20 DEF InGzip
<1>22. Pairs(w)'
  <2> SUFFICES ASSUME NEW m \in DOMAIN dir', m # n PROVE Spare(m)'
    BY <1>12 DEF Pairs
  <2>1. CASE m = z
    BY <1>5, <2>1 DEF Spare
  <2>2. CASE m # z
    <3>1. m \in DOMAIN dir /\ m \in Names /\ Spare(m)
      BY <1>2, <1>5, <1>7, <1>12, <2>2 DEF RotationInv, Pairs
    <3>2. ~m.gz => Gz(m) # z
      BY <1>2, <1>5, <3>1, NameFields
    <3> QED
      BY <1>4, <1>7, <1>9, <3>1, <3>2 DEF Spare
  <2> QED
    BY <2>1, <2>2
<1>23. Accounted(w)'
  <2>1. Alive(w)' \subseteq Alive(w)
    <3>1. data'[src].lines = In(n) /\ In(n) \subseteq Kept
      BY <1>3, <1>5, <1>8, <1>pair DEF In, Kept, LinesOf
    <3> QED
      BY <1>10, <1>12, <3>1 DEF Alive
  <2>2. \A l : Excused(w, l) => Excused(w, l)'
    BY <1>4, <2>1 DEF Excused
  <2> QED
    BY <1>4, <1>10, <2>2 DEF RotationInv, Accounted
<1> QED
  BY <1>11, <1>13, <1>14, <1>15, <1>16, <1>17, <1>18, <1>21, <1>22, <1>23 DEF RotationInv, Tree

LEMMA GzipCopyStep ==
  ASSUME NEW w \in Workers, RotationInv(w), gzip[w].at = "copy",
         data' = Bind(data, gzip[w].dst, [lines |-> data[gzip[w].src].lines, mtime |-> Len(log)]),
         gzip' = [gzip EXCEPT ![w] = [gzip[w] EXCEPT !.at = "unlink"]],
         UNCHANGED <<dir, jobs>>, UNCHANGED <<today, cap, log, handler, ghosts>>
  PROVE  RotationInv(w)'
<1>1. PICK n \in Names : jobs[w] = <<n>> /\ ~n.gz /\ Gz(n) \in Names
  BY JobOf DEF RotationInv, OneJob, Busy
<1>pair. PICK src, dst, z : src = gzip[w].src /\ dst = gzip[w].dst /\ z = Gz(n)
  OBVIOUS
<1>2. Compressing(n, "copy", src, dst) /\ Eviction(w, n, "copy", src) /\ Busy(w)
  BY <1>1, <1>pair DEF RotationInv, InGzip, Busy
<1>3. /\ ~src.gz /\ dst = Zipped(src) /\ src \in DOMAIN data /\ dst \in DOMAIN data
      /\ n \in DOMAIN dir => dir[n] = src
      /\ z \in DOMAIN dir => dir[z] = dst
      /\ \A m \in DOMAIN dir : (dir[m] = src => m = n) /\ (dir[m] = dst => m = z)
      /\ \A l \in data[src].lines : log[l] = n.day
      /\ \A m \in DOMAIN dir : m.day = n.day =>
           /\ m.n > n.n => \A i \in In(m), j \in data[src].lines : i < j
           /\ m.n < n.n => \A i \in data[src].lines, j \in In(m) : i < j
      /\ data[dst].lines = {}
  BY <1>2, <1>pair DEF Compressing
<1>4. /\ z.day = n.day /\ z.n = n.n /\ z.gz = TRUE /\ z \in Names
      /\ src # dst /\ DOMAIN dir \subseteq Names /\ DOMAIN data \subseteq Files
      /\ src \in Files /\ dst \in Files
  <2>1. DOMAIN dir \subseteq Names /\ DOMAIN data \subseteq Files
    BY DEF RotationInv, Tree, FilesTyped, Files
  <2> QED
    BY <1>1, <1>3, <1>pair, <2>1, FileFields, NameFields
<1>5. /\ UNCHANGED <<today, cap, dir, log, step, record, date, stream, doomed, found, jobs>>
      /\ UNCHANGED <<discarded, torn>>
  BY DEF handler, ghosts
<1>6. /\ DOMAIN data' = DOMAIN data /\ data'[dst] = [lines |-> data[src].lines, mtime |-> Len(log)]
      /\ \A f \in DOMAIN data : f # dst => data'[f] = data[f]
  BY <1>3, <1>pair DEF Bind
<1>7. /\ z \in DOMAIN dir => In(z) = {} /\ In(z)' = data[src].lines
      /\ \A m \in DOMAIN dir : m # z => In(m)' = In(m)
  BY <1>3, <1>5, <1>6 DEF RotationInv, Tree, FilesTyped, In
<1>8. Kept \subseteq Kept' /\ Kept' \subseteq Kept \cup data[src].lines
  <2>1. \A l : l \in Kept <=> \E m \in DOMAIN dir : l \in In(m)
    BY <1>4, InKept
  <2>2. \A l : l \in Kept' <=> \E m \in DOMAIN dir : l \in In(m)'
    BY <1>4, <1>5 DEF Kept, LinesOf, In
  <2>3. ASSUME NEW l \in Kept PROVE l \in Kept'
    <3>1. PICK m \in DOMAIN dir : l \in In(m)
      BY <2>1
    <3>2. m # z
      BY <1>7, <3>1
    <3> QED
      BY <1>7, <2>2, <3>1, <3>2
  <2>4. ASSUME NEW l \in Kept' PROVE l \in Kept \cup data[src].lines
    <3>1. PICK m \in DOMAIN dir : l \in In(m)'
      BY <2>2
    <3>2. CASE m = z
      BY <1>7, <3>1, <3>2
    <3>3. CASE m # z
      BY <1>7, <2>1, <3>1, <3>3
    <3> QED
      BY <3>2, <3>3
  <2> QED
    BY <2>3, <2>4
<1>9. FilesTyped'
  <2>1. log \in Seq(Days) /\ Len(log) \in Nat /\ log' = log
    BY <1>5 DEF RotationInv, Tree, FilesTyped
  <2>2. \A f \in DOMAIN data' : /\ data'[f] \in [lines: SUBSET Nat, mtime: Nat]
                                /\ data'[f].lines \subseteq 1..Len(log) /\ data'[f].mtime <= Len(log)
    BY <1>3, <1>6, <2>1 DEF RotationInv, Tree, FilesTyped
  <2>3. data' \in [DOMAIN data' -> [lines: SUBSET Nat, mtime: Nat]]
    BY <2>2 DEF Bind
  <2>4. DOMAIN data' # {} /\ \E k \in Nat : DOMAIN data' \subseteq [no: 0..k, gz: BOOLEAN]
    BY <1>6 DEF RotationInv, Tree, FilesTyped
  <2>5. DOMAIN dir' \subseteq Names /\ \A m \in DOMAIN dir' : dir'[m] \in DOMAIN data'
    BY <1>5, <1>6 DEF RotationInv, Tree, FilesTyped
  <2> QED
    BY <2>1, <2>2, <2>3, <2>4, <2>5 DEF FilesTyped
<1>10. /\ gzip'[w].at = "unlink" /\ gzip'[w].src = src /\ gzip'[w].dst = dst /\ Busy(w)'
       /\ gzip' \in [Workers -> Threads] /\ data'[src] = data[src]
  <2>1. gzip[w] \in Threads /\ gzip \in [Workers -> Threads]
    BY DEF RotationInv, WorkerTyped
  <2>2. [gzip[w] EXCEPT !.at = "unlink"] \in Threads
    BY <2>1 DEF Threads
  <2>3. gzip'[w] = [gzip[w] EXCEPT !.at = "unlink"] /\ gzip' \in [Workers -> Threads]
    BY <2>1, <2>2
  <2>4. gzip'[w].at = "unlink" /\ gzip'[w].src = gzip[w].src /\ gzip'[w].dst = gzip[w].dst
    BY <2>1, <2>3 DEF Threads
  <2> QED
    BY <1>3, <1>4, <1>6, <1>pair, <2>3, <2>4 DEF Busy
<1>11. WorkerTyped'
  BY <1>5, <1>10 DEF RotationInv, WorkerTyped
<1>12. OneName' /\ Dated(w)' /\ Active(w)'
  BY <1>5 DEF RotationInv, Tree, OneName, Dated, Active
<1>13. Sorted'
  <2>1. ASSUME NEW m \in DOMAIN dir, NEW l \in In(m)' PROVE log[l] = m.day
    <3>1. CASE m = z
      BY <1>3, <1>4, <1>7, <2>1, <3>1
    <3>2. CASE m # z
      BY <1>7, <2>1, <3>2 DEF RotationInv, Tree, Sorted
    <3> QED
      BY <3>1, <3>2
  <2>2. ASSUME NEW m \in DOMAIN dir, NEW p \in DOMAIN dir, m.day = p.day, m.n > p.n,
               dir[m] # Zipped(dir[p]), NEW i \in In(m)', NEW j \in In(p)'
        PROVE  i < j
    <3>1. CASE m = z
      <4>1. p # z /\ p.n < n.n /\ p.day = n.day
        BY <1>1, <1>4, <2>2, <3>1, NameFields
      <4> QED
        BY <1>3, <1>7, <2>2, <3>1, <4>1
    <3>2. CASE p = z
      <4>1. m # z /\ m.n > n.n /\ m.day = n.day
        BY <1>1, <1>4, <2>2, <3>2, NameFields
      <4> QED
        BY <1>3, <1>7, <2>2, <3>2, <4>1
    <3>3. CASE m # z /\ p # z
      BY <1>7, <2>2, <3>3 DEF RotationInv, Tree, Sorted
    <3> QED
      BY <3>1, <3>2, <3>3
  <2>3. ASSUME NEW m \in DOMAIN dir, NEW p \in DOMAIN dir, ~p.gz, dir[m] = Zipped(dir[p])
        PROVE  In(m)' \subseteq In(p)'
    <3>1. p # z
      BY <1>4, <2>3
    <3>2. CASE m = z
      <4>1. dir[p] \in Files /\ dir[p].gz = FALSE /\ dst = Zipped(dir[p])
        BY <1>3, <1>4, <2>3, <3>2 DEF RotationInv, Tree, OneName, FilesTyped
      <4>2. dir[p] = src
        <5>1. Zipped(src).no = src.no /\ Zipped(dir[p]).no = dir[p].no /\ src.gz \in BOOLEAN
          BY <1>4, <4>1, FileFields
        <5>2. dir[p].no = src.no /\ src.gz = FALSE
          BY <1>3, <4>1, <5>1
        <5> QED
          BY <1>4, <4>1, <5>2, FileFields
      <4>3. In(p)' = data[src].lines
        BY <1>7, <3>1, <4>2 DEF In
      <4> QED
        BY <1>7, <3>2, <4>3
    <3>3. CASE m # z
      BY <1>7, <2>3, <3>1, <3>3 DEF RotationInv, Tree, Sorted
    <3> QED
      BY <3>2, <3>3
  <2>4. \A m, p \in DOMAIN dir : m.day = p.day /\ m.n > p.n =>
          dir[m] = Zipped(dir[p]) \/ \A i \in In(m)', j \in In(p)' : i < j
    BY <2>2
  <2> QED
    BY <1>5, <2>1, <2>3, <2>4 DEF Sorted
<1>14. OneJob(w)'
  <2>1. jobs'[w] = <<n>> /\ date' = date /\ jobs'[w] # <<>>
    BY <1>1, <1>5
  <2>2. ASSUME NEW m \in Names, jobs'[w] = <<m>>
        PROVE  ~m.gz /\ m.day <= date'[w] /\ (m.n = 1 \/ (m.n = 0 /\ m.day < date'[w]))
    BY <1>5, <2>2 DEF RotationInv, OneJob
  <2> QED
    BY <1>1, <1>10, <2>1, <2>2 DEF OneJob
<1>15. Compressing(n, "unlink", src, dst)'
  <2>1. data'[src].mtime <= data'[dst].mtime /\ data'[dst].lines = data'[src].lines
    BY <1>3, <1>6, <1>10 DEF RotationInv, Tree, FilesTyped
  <2>2. ASSUME NEW m \in DOMAIN dir, m.day = n.day
        PROVE  /\ m.n > n.n => \A i \in In(m)', j \in data'[src].lines : i < j
               /\ m.n < n.n => \A i \in data'[src].lines, j \in In(m)' : i < j
    <3>1. CASE m = z
      BY <1>1, <1>4, <3>1, NameFields
    <3>2. CASE m # z
      BY <1>3, <1>7, <1>10, <2>2, <3>2
    <3> QED
      BY <3>1, <3>2
  <2>3. \A l \in data'[src].lines : log'[l] = n.day
    BY <1>3, <1>5, <1>10
  <2> QED
    BY <1>3, <1>5, <1>6, <1>pair, <2>1, <2>2, <2>3 DEF Compressing
<1>16. Eviction(w, n, "unlink", src)'
  BY <1>2, <1>5 DEF Eviction
<1>17. InGzip(w)'
  <2>1. \A m \in Names : jobs'[w] = <<m>> => m = n
    BY <1>1, <1>5
  <2> QED
    BY <1>10, <1>15, <1>16, <2>1 DEF InGzip
<1>18. Pairs(w)'
  <2> SUFFICES ASSUME NEW m \in DOMAIN dir, m # n PROVE Spare(m)'
    BY <1>1, <1>5, <1>10 DEF Pairs
  <2>1. m \in Names /\ Spare(m)
    BY <1>1, <1>4 DEF RotationInv, Pairs
  <2>2. ~m.gz => Gz(m) # z /\ m # z
    BY <1>1, <1>4, <2>1, NameFields
  <2> QED
    BY <1>5, <1>7, <2>1, <2>2 DEF Spare
<1>19. Accounted(w)'
  <2>1. Alive(w)' \subseteq Alive(w)
    BY <1>2, <1>8, <1>10, <1>pair DEF Alive
  <2>2. \A l : Excused(w, l) => Excused(w, l)'
    BY <1>5, <2>1 DEF Excused
  <2> QED
    BY <1>5, <1>8, <2>2 DEF RotationInv, Accounted
<1> QED
  BY <1>9, <1>11, <1>12, <1>13, <1>14, <1>17, <1>18, <1>19 DEF RotationInv, Tree

-------------------------------------------------------------------------------
(* A line is written *)

LEMMA WriteStep ==
  ASSUME NEW w \in Workers, RotationInv(w), Write(w),
         Base(date[w]) \in DOMAIN dir, dir[Base(date[w])] = stream[w],
         UNCHANGED <<today, cap, dir, date, stream, doomed, jobs, gzip, discarded, torn>>,
         WorkerTyped', step'[w] = "idle", found'[w] = {}
  PROVE  RotationInv(w)'
<1>1. PICK b, s, l0 : b = Base(date[w]) /\ s = stream[w] /\ l0 = Len(log) + 1
  OBVIOUS
<1>2. /\ log \in Seq(Days) /\ Len(log) \in Nat /\ date[w] \in Days
      /\ DOMAIN dir \subseteq Names /\ DOMAIN data \subseteq Files
      /\ \A f \in DOMAIN data : /\ data[f] \in [lines: SUBSET Nat, mtime: Nat]
                                /\ data[f].lines \subseteq 1..Len(log) /\ data[f].mtime <= Len(log)
  BY DEF RotationInv, WorkerTyped, Tree, FilesTyped, Files
<1>3. /\ b \in DOMAIN dir /\ dir[b] = s /\ s \in DOMAIN data
      /\ b.day = date[w] /\ b.n = 0 /\ b.gz = FALSE
      /\ Gz(b).gz = TRUE /\ Gz(b).n = 0 /\ Gz(b).day = date[w]
  BY <1>1, <1>2, NameFields DEF RotationInv, Tree, FilesTyped
<1>4. /\ log' \in Seq(Days) /\ Len(log') = l0 /\ l0 \in Nat /\ log'[l0] = date[w]
      /\ \A l \in 1..Len(log) : log'[l] = log[l]
      /\ DOMAIN data' = DOMAIN data
      /\ data'[s] = [lines |-> data[s].lines \cup {l0}, mtime |-> l0]
      /\ \A f \in DOMAIN data : f # s => data'[f] = data[f]
  <2>1. log' = Append(log, date[w])
    BY DEF Write
  <2>2. data' = [data EXCEPT ![s] = [lines |-> data[s].lines \cup {l0}, mtime |-> l0]]
    BY <1>1 DEF Write
  <2>5. /\ log' \in Seq(Days) /\ Len(log') = l0 /\ l0 \in Nat /\ log'[l0] = date[w]
        /\ \A l \in 1..Len(log) : log'[l] = log[l]
    BY <1>1, <1>2, <2>1
  <2> QED
    BY <1>3, <2>2, <2>5
<1>5. /\ In(b)' = In(b) \cup {l0} /\ \A m \in DOMAIN dir : m # b => In(m)' = In(m)
      /\ \A m \in DOMAIN dir : In(m) \subseteq 1..Len(log)
  <2>1. dir' = dir
    OBVIOUS
  <2>2. \A m \in DOMAIN dir : dir[m] \in DOMAIN data /\ (m # b => dir[m] # s)
    BY <1>3 DEF RotationInv, Tree, FilesTyped, OneName
  <2> QED
    BY <1>2, <1>3, <1>4, <2>1, <2>2 DEF In
<1>6. FilesTyped'
  <2>1. \A f \in DOMAIN data' : /\ data'[f] \in [lines: SUBSET Nat, mtime: Nat]
                                /\ data'[f].lines \subseteq 1..l0 /\ data'[f].mtime <= l0
    <3> SUFFICES ASSUME NEW f \in DOMAIN data
        PROVE  /\ data'[f] \in [lines: SUBSET Nat, mtime: Nat]
               /\ data'[f].lines \subseteq 1..l0 /\ data'[f].mtime <= l0
      BY <1>4
    <3>1. CASE f = s
      BY <1>1, <1>2, <1>4, <3>1
    <3>2. CASE f # s
      BY <1>1, <1>2, <1>4, <3>2
    <3> QED
      BY <3>1, <3>2
  <2>2. data' \in [DOMAIN data' -> [lines: SUBSET Nat, mtime: Nat]]
    BY <2>1 DEF Write
  <2>3. DOMAIN data' # {} /\ \E k \in Nat : DOMAIN data' \subseteq [no: 0..k, gz: BOOLEAN]
    BY <1>4 DEF RotationInv, Tree, FilesTyped
  <2>4. DOMAIN dir' \subseteq Names /\ \A m \in DOMAIN dir' : dir'[m] \in DOMAIN data'
    BY <1>4 DEF RotationInv, Tree, FilesTyped
  <2> QED
    BY <1>4, <2>1, <2>2, <2>3, <2>4 DEF FilesTyped
<1>7. OneName' /\ Dated(w)'
  BY DEF RotationInv, Tree, OneName, Dated
<1>8. Active(w)'
  BY DEF Active
<1>9. Sorted'
  <2>1. ASSUME NEW m \in DOMAIN dir, NEW l \in In(m)' PROVE log'[l] = m.day
    <3>1. l \in In(m) => log[l] = m.day /\ l \in 1..Len(log)
      BY <1>5 DEF RotationInv, Tree, Sorted
    <3> QED
      BY <1>3, <1>4, <1>5, <2>1, <3>1
  <2>2. ASSUME NEW m \in DOMAIN dir, NEW p \in DOMAIN dir, m.day = p.day, m.n > p.n,
               dir[m] # Zipped(dir[p]), NEW i \in In(m)', NEW j \in In(p)'
        PROVE  i < j
    <3>1. m.n \in Nat /\ p.n \in Nat
      BY <1>2, NameFields
    <3>2. m # b /\ i \in In(m)
      BY <1>3, <1>5, <2>2, <3>1
    <3>3. CASE j \in In(p)
      BY <2>2, <3>2, <3>3 DEF RotationInv, Tree, Sorted
    <3>4. CASE j = l0
      BY <1>1, <1>2, <1>5, <3>2, <3>4
    <3> QED
      BY <1>5, <2>2, <3>3, <3>4
  <2>3. ASSUME NEW m \in DOMAIN dir, NEW p \in DOMAIN dir, ~p.gz, dir[m] = Zipped(dir[p])
        PROVE  In(m)' \subseteq In(p)'
    <3>1. m # b
      <4>1. dir[p] \in Files /\ Zipped(dir[p]).gz = TRUE
        BY <1>2, FileFields DEF RotationInv, Tree, FilesTyped
      <4> QED
        BY <1>3, <2>3, <4>1 DEF RotationInv, Tree, OneName
    <3>2. In(m) \subseteq In(p)
      BY <2>3 DEF RotationInv, Tree, Sorted
    <3> QED
      BY <1>5, <3>1, <3>2
  <2>4. \A m, p \in DOMAIN dir : m.day = p.day /\ m.n > p.n =>
          dir[m] = Zipped(dir[p]) \/ \A i \in In(m)', j \in In(p)' : i < j
    BY <2>2
  <2> QED
    BY <2>1, <2>3, <2>4 DEF Sorted
<1>10. OneJob(w)'
  BY DEF RotationInv, OneJob, Busy
<1>11. InGzip(w)'
  <2> SUFFICES ASSUME Busy(w), NEW n \in Names, jobs[w] = <<n>>
      PROVE  /\ Compressing(n, gzip[w].at, gzip[w].src, gzip[w].dst)'
             /\ Eviction(w, n, gzip[w].at, gzip[w].src)'
    BY DEF InGzip, Busy
  <2>1. PICK at, src, dst : at = gzip[w].at /\ src = gzip[w].src /\ dst = gzip[w].dst
    OBVIOUS
  <2>2. Compressing(n, at, src, dst) /\ Eviction(w, n, at, src)
    BY <2>1 DEF RotationInv, InGzip
  <2>3. b # n /\ b # Gz(n) /\ n.n \in Nat
    <3>1. Head(jobs[w]) = n
      OBVIOUS
    <3>2. n # Base(date[w]) /\ Gz(n) # Base(date[w])
      BY <3>1, JobOf
    <3> QED
      BY <1>1, <3>2, NameFields
  <2>4. /\ s # src /\ s # dst /\ data'[src] = data[src] /\ data'[dst] = data[dst]
        /\ src \in DOMAIN data /\ dst \in DOMAIN data
    BY <1>3, <1>4, <2>2, <2>3 DEF Compressing
  <2>5. data[src].lines \subseteq 1..Len(log)
    BY <1>2, <2>4
  <2>6. ASSUME NEW m \in DOMAIN dir, m.day = n.day
        PROVE  /\ m.n > n.n => \A i \in In(m)', j \in data'[src].lines : i < j
               /\ m.n < n.n => \A i \in data'[src].lines, j \in In(m)' : i < j
    <3>1. CASE m = b
      <4>1. ~(m.n > n.n)
        BY <1>3, <2>3, <3>1
      <4>2. ASSUME m.n < n.n, NEW i \in data[src].lines, NEW j \in In(b)' PROVE i < j
        <5>1. CASE j \in In(b)
          BY <2>2, <2>6, <3>1, <4>2, <5>1 DEF Compressing
        <5>2. CASE j = l0
          BY <1>1, <1>2, <2>5, <4>2, <5>2
        <5> QED
          BY <1>5, <4>2, <5>1, <5>2
      <4> QED
        BY <2>4, <3>1, <4>1, <4>2
    <3>2. CASE m # b
      BY <1>5, <2>2, <2>4, <2>6, <3>2 DEF Compressing
    <3> QED
      BY <3>1, <3>2
  <2>7. \A l \in data'[src].lines : log'[l] = n.day
    BY <1>4, <2>2, <2>4, <2>5 DEF Compressing
  <2>8. Compressing(n, at, src, dst)'
    BY <1>4, <2>2, <2>4, <2>6, <2>7 DEF Compressing
  <2>9. Eviction(w, n, at, src)'
    BY <2>2, <2>4 DEF Eviction
  <2>10. /\ at' = at /\ src' = src /\ dst' = dst /\ gzip' = gzip
    OBVIOUS
  <2> QED
    BY <2>1, <2>8, <2>9, <2>10 DEF Compressing, Eviction
<1>12. Pairs(w)'
  <2> SUFFICES ASSUME NEW m \in DOMAIN dir PROVE Spare(m)' \/ (Busy(w) /\ jobs[w] = <<m>>)
    BY DEF Pairs, Busy
  <2>1. Spare(m) => Spare(m)'
    <3>1. CASE m = b
      <4>1. Gz(b) \notin DOMAIN dir
        BY <1>2, <1>3 DEF RotationInv, Dated, Days
      <4> QED
        BY <3>1, <4>1 DEF Spare
    <3>2. CASE m # b
      <4>1. Gz(m) # b
        BY <1>2, <1>3, NameFields
      <4> QED
        BY <1>5, <3>2, <4>1 DEF Spare
    <3> QED
      BY <3>1, <3>2
  <2> QED
    BY <2>1 DEF RotationInv, Pairs
<1>13. Accounted(w)'
  <2>1. \A l : l \in Kept <=> \E m \in DOMAIN dir : l \in In(m)
    BY <1>2, InKept
  <2>2. \A l : l \in Kept' <=> \E m \in DOMAIN dir : l \in In(m)'
    BY <1>2 DEF Kept, LinesOf, In
  <2>3. \A l \in Kept : l \in Kept'
    BY <1>5, <2>1, <2>2
  <2>4. \A l \in Kept' : l \in Kept \/ l = l0
    BY <1>5, <2>1, <2>2
  <2>5. l0 \in Kept'
    BY <1>3, <1>5, <2>2
  <2>6. \A l \in Alive(w)' : l \in Alive(w) \/ l = l0
    <3>1. Busy(w) => data'[gzip[w].src] = data[gzip[w].src]
      <4> SUFFICES ASSUME Busy(w) PROVE data'[gzip[w].src] = data[gzip[w].src]
        OBVIOUS
      <4>1. PICK n \in Names : jobs[w] = <<n>> /\ n # Base(date[w])
        BY JobOf DEF RotationInv, OneJob
      <4>2. gzip[w].src \in DOMAIN data /\ gzip[w].src # s
        BY <1>1, <1>3, <4>1 DEF RotationInv, InGzip, Compressing
      <4> QED
        BY <1>4, <4>2
    <3> QED
      BY <2>4, <3>1 DEF Alive, Busy
  <2>7. Alive(w) \subseteq 1..Len(log)
    <3>1. Kept \subseteq 1..Len(log)
      BY <1>5, <2>1
    <3>2. Busy(w) => gzip[w].src \in DOMAIN data
      BY DEF RotationInv, OneJob, InGzip, Compressing
    <3> QED
      BY <1>2, <3>1, <3>2 DEF Alive
  <2>8. ASSUME NEW l \in 1..Len(log), Excused(w, l) PROVE Excused(w, l)'
    <3>1. log'[l] = log[l] /\ l < l0
      BY <1>1, <1>2, <1>4
    <3>2. \A k \in Alive(w)' : (k \in Alive(w) /\ log'[k] = log[k]) \/ k = l0
      BY <1>4, <2>6, <2>7
    <3> QED
      BY <2>8, <3>1, <3>2 DEF Excused
  <2> SUFFICES ASSUME NEW l \in 1..Len(log') PROVE l \in Kept' \/ Excused(w, l)'
    BY DEF Accounted
  <2>9. CASE l = l0
    BY <2>5, <2>9
  <2>10. CASE l \in 1..Len(log)
    BY <2>3, <2>8, <2>10 DEF RotationInv, Accounted
  <2>11. l = l0 \/ l \in 1..Len(log)
    BY <1>1, <1>2, <1>4
  <2> QED
    BY <2>9, <2>10, <2>11
<1> QED
  BY <1>6, <1>7, <1>8, <1>9, <1>10, <1>11, <1>12, <1>13 DEF RotationInv, Tree

LEMMA EmitStep ==
  ASSUME NEW w \in Workers, RotationInv(w), Emit(w)
  PROVE  RotationInv(w)'
<1>1. /\ step[w] = "idle" /\ Write(w)
      /\ UNCHANGED <<today, cap, dir, step, record, date, stream, doomed, found, jobs, gzip, discarded, torn>>
  BY DEF Emit, thread, ghosts
<1>2. Base(date[w]) \in DOMAIN dir /\ dir[Base(date[w])] = stream[w] /\ found[w] = {}
  BY <1>1 DEF RotationInv, Active
<1>3. WorkerTyped' /\ step'[w] = "idle" /\ found'[w] = {}
  BY <1>1, <1>2 DEF RotationInv, WorkerTyped
<1> QED
  BY <1>1, <1>2, <1>3, WriteStep

LEMMA ReturnWritesStep ==
  ASSUME NEW w \in Workers, RotationInv(w), Return(w), record[w]
  PROVE  RotationInv(w)'
<1>1. /\ step[w] \in {"list", "cap"} /\ step' = [step EXCEPT ![w] = "idle"] /\ Write(w)
      /\ record' = [record EXCEPT ![w] = FALSE] /\ found' = [found EXCEPT ![w] = {}]
      /\ UNCHANGED <<today, cap, dir, date, stream, doomed, jobs, gzip, discarded, torn>>
  BY DEF Return, Enter, thread, ghosts
<1>2. Base(date[w]) \in DOMAIN dir /\ dir[Base(date[w])] = stream[w]
  BY <1>1 DEF RotationInv, Active
<1>3. WorkerTyped' /\ step'[w] = "idle" /\ found'[w] = {}
  BY <1>1 DEF RotationInv, WorkerTyped
<1> QED
  BY <1>1, <1>2, <1>3, WriteStep

-------------------------------------------------------------------------------
(* The file of the day is opened *)

LEMMA OpenedTree ==
  ASSUME Tree, NEW d \in Days, NEW b, b = Base(d), Gz(b) \notin DOMAIN dir,
         NEW o, o = Opened(b), dir' = o[1], data' = o[2], UNCHANGED log
  PROVE  /\ Tree' /\ Kept' = Kept
         /\ DOMAIN dir' = DOMAIN dir \cup {b} /\ Gz(b) \notin DOMAIN dir'
         /\ \A m \in DOMAIN dir : dir'[m] = dir[m] /\ In(m)' = In(m)
         /\ dir'[b] = o[3] /\ o[3] \in Files
         /\ b \notin DOMAIN dir => In(b)' = {} /\ o[3] \notin DOMAIN data
         /\ \A g \in DOMAIN data : g \in DOMAIN data' /\ data'[g] = data[g]
<1>1. /\ DOMAIN dir \subseteq Names /\ DOMAIN data \subseteq Files /\ log \in Seq(Days) /\ Len(log) \in Nat
      /\ b \in Names /\ b.day = d /\ b.n = 0 /\ b.gz = FALSE /\ Gz(b).gz = TRUE
      /\ \A m \in DOMAIN dir : dir[m] \in DOMAIN data
  <2>1. DOMAIN dir \subseteq Names /\ DOMAIN data \subseteq Files /\ log \in Seq(Days) /\ Len(log) \in Nat
    BY DEF Tree, FilesTyped, Files
  <2>2. \A m \in DOMAIN dir : dir[m] \in DOMAIN data
    BY DEF Tree, FilesTyped
  <2> QED
    BY <2>1, <2>2, NameFields
<1>2. CASE b \in DOMAIN dir
  <2>1. dir' = dir /\ data' = data /\ o[3] = dir[b]
    BY <1>2 DEF Opened
  <2>2. Tree'
    BY <2>1 DEF Tree, FilesTyped, OneName, Sorted, In
  <2>3. Kept' = Kept /\ \A m \in DOMAIN dir : In(m)' = In(m)
    BY <2>1 DEF Kept, LinesOf, In
  <2> QED
    BY <1>1, <1>2, <2>1, <2>2, <2>3
<1>3. CASE b \notin DOMAIN dir
  <2>1. PICK k : k = Max({f.no : f \in DOMAIN data}) + 1
    OBVIOUS
  <2>2. k \in Nat /\ \A f \in DOMAIN data : f.no < k
    <3> DEFINE S == {f.no : f \in DOMAIN data}
    <3>1. PICK u \in Nat : DOMAIN data \subseteq [no: 0..u, gz: BOOLEAN]
      BY DEF Tree, FilesTyped
    <3>2. S \subseteq 0..u /\ S \subseteq Nat /\ S \subseteq Int /\ S # {}
      <4>1. DOMAIN data # {}
        BY DEF Tree, FilesTyped
      <4>2. \A f \in DOMAIN data : f.no \in 0..u
        BY <3>1
      <4> QED
        BY <4>1, <4>2
    <3>3. \A f \in DOMAIN data : f.no \in S
      OBVIOUS
    <3>4. k = Max(S) + 1
      BY <2>1
    <3> HIDE DEF S
    <3>5. IsFiniteSet(0..u)
      <4>1. 0 \in Int /\ u \in Int
        OBVIOUS
      <4> QED
        BY <4>1, FS_Interval
    <3>6. IsFiniteSet(S)
      BY <3>2, <3>5, FS_Subset
    <3>7. Max(S) \in S /\ \A y \in S : Max(S) >= y
      BY <3>2, <3>6, MaxExists
    <3>8. Max(S) \in Nat /\ \A f \in DOMAIN data : f.no \in Nat
      BY <3>2, <3>3, <3>7
    <3> QED
      BY <3>3, <3>4, <3>7, <3>8
  <2>3. PICK f : f = File(k)
    OBVIOUS
  <2>4. /\ f \in Files /\ f.no = k /\ f.gz = FALSE /\ f \notin DOMAIN data
        /\ \A g \in DOMAIN data : g.no # k
    BY <2>2, <2>3, FileFields
  <2>5. o = <<Bind(dir, b, f), Bind(data, f, NewFile), f>>
    BY <1>3, <2>1, <2>3 DEF Opened
  <2>6. /\ DOMAIN dir' = DOMAIN dir \cup {b} /\ dir'[b] = f /\ o[3] = f
        /\ \A m \in DOMAIN dir : dir'[m] = dir[m]
    BY <1>3, <2>5 DEF Bind
  <2>7. /\ DOMAIN data' = DOMAIN data \cup {f} /\ data'[f] = [lines |-> {}, mtime |-> Len(log)]
        /\ \A g \in DOMAIN data : data'[g] = data[g]
    BY <2>4, <2>5 DEF Bind, NewFile
  <2>8. In(b)' = {} /\ \A m \in DOMAIN dir : In(m)' = In(m)
    BY <1>1, <2>6, <2>7 DEF In
  <2>9. Kept' = Kept
    <3>1. DOMAIN dir' \subseteq Names
      BY <1>1, <2>6
    <3>2. \A l : l \in Kept <=> \E m \in DOMAIN dir : l \in In(m)
      BY <1>1, InKept
    <3>3. \A l : l \in Kept' <=> \E m \in DOMAIN dir' : l \in In(m)'
      BY <3>1 DEF Kept, LinesOf, In
    <3>4. ASSUME NEW l \in Kept PROVE l \in Kept'
      BY <2>6, <2>8, <3>2, <3>3
    <3>5. ASSUME NEW l \in Kept' PROVE l \in Kept
      <4>1. PICK m \in DOMAIN dir' : l \in In(m)'
        BY <3>3
      <4>2. m \in DOMAIN dir /\ l \in In(m)
        BY <2>6, <2>8, <4>1
      <4> QED
        BY <3>2, <4>2
    <3> QED
      BY <3>4, <3>5
  <2>10. FilesTyped'
    <3>1. PICK u \in Nat : DOMAIN data \subseteq [no: 0..u, gz: BOOLEAN]
      BY DEF Tree, FilesTyped
    <3>2. DOMAIN data' \subseteq [no: 0..u + k, gz: BOOLEAN]
      <4>1. [no: 0..u, gz: BOOLEAN] \subseteq [no: 0..u + k, gz: BOOLEAN]
        BY <2>2
      <4>2. File(k) \in [no: 0..u + k, gz: BOOLEAN]
        BY <2>2 DEF File
      <4> QED
        BY <2>3, <2>7, <3>1, <4>1, <4>2
    <3>3. u + k \in Nat
      BY <2>2
    <3>4. \A g \in DOMAIN data' : /\ data'[g] \in [lines: SUBSET Nat, mtime: Nat]
                                  /\ data'[g].lines \subseteq 1..Len(log) /\ data'[g].mtime <= Len(log)
      BY <1>1, <2>7 DEF Tree, FilesTyped
    <3>5. data' \in [DOMAIN data' -> [lines: SUBSET Nat, mtime: Nat]]
      <4>1. data' = Bind(data, f, NewFile)
        BY <2>5
      <4> QED
        BY <3>4, <4>1 DEF Bind
    <3>6. DOMAIN dir' \subseteq Names /\ \A m \in DOMAIN dir' : dir'[m] \in DOMAIN data'
      BY <1>1, <2>6, <2>7
    <3>7. DOMAIN data' # {}
      BY <2>7
    <3> QED
      BY <1>1, <3>2, <3>3, <3>4, <3>5, <3>6, <3>7 DEF FilesTyped
  <2>11. OneName'
    <3>1. \A m \in DOMAIN dir' : dir'[m].gz = m.gz
      <4>1. dir'[b].gz = b.gz
        BY <1>1, <2>4, <2>6
      <4>2. \A m \in DOMAIN dir : dir'[m].gz = m.gz
        BY <2>6 DEF Tree, OneName
      <4> QED
        BY <2>6, <4>1, <4>2
    <3>2. \A m, n \in DOMAIN dir' : dir'[m] = dir'[n] => m = n
      BY <1>1, <2>4, <2>6 DEF Tree, OneName
    <3>3. ASSUME NEW m \in DOMAIN dir', NEW n \in DOMAIN dir', ~n.gz, dir'[m] = Zipped(dir'[n])
          PROVE  m = Gz(n) \/ Ahead(m, n)
      <4>1. CASE m = b
        BY <1>1, <2>4, <2>6, <3>3, <4>1, FileFields
      <4>2. CASE m \in DOMAIN dir /\ n = b
        <5>1. dir[m] \in DOMAIN data /\ dir[m] = Zipped(f) /\ Zipped(f).no = k
          BY <1>1, <2>4, <2>6, <3>3, <4>2, FileFields
        <5> QED
          BY <2>4, <5>1
      <4>3. CASE m \in DOMAIN dir /\ n \in DOMAIN dir
        BY <2>6, <3>3, <4>3 DEF Tree, OneName
      <4> QED
        BY <2>6, <4>1, <4>2, <4>3
    <3>4. ASSUME NEW n \in DOMAIN dir', ~n.gz, Gz(n) \in DOMAIN dir'
          PROVE  n.n <= 1 /\ dir'[Gz(n)] = Zipped(dir'[n])
      <4>1. CASE n = b
        BY <1>1, <2>6, <3>4, <4>1
      <4>2. CASE n \in DOMAIN dir
        <5>1. Gz(n) # b
          BY <1>1, <4>2, NameFields
        <5> QED
          BY <2>6, <3>4, <4>2, <5>1 DEF Tree, OneName
      <4> QED
        BY <2>6, <4>1, <4>2
    <3> QED
      BY <3>1, <3>2, <3>3, <3>4 DEF OneName
  <2>12. Sorted'
    <3>1. \A m \in DOMAIN dir' : \A l \in In(m)' : m \in DOMAIN dir /\ l \in In(m)
      BY <2>6, <2>8
    <3>2. ASSUME NEW m \in DOMAIN dir', NEW n \in DOMAIN dir', m.day = n.day, m.n > n.n,
                 dir'[m] # Zipped(dir'[n]), NEW i \in In(m)', NEW j \in In(n)'
          PROVE  i < j
      <4>1. m \in DOMAIN dir /\ n \in DOMAIN dir /\ i \in In(m) /\ j \in In(n)
        BY <3>1, <3>2
      <4>2. dir[m] # Zipped(dir[n])
        BY <2>6, <3>2, <4>1
      <4> QED
        BY <3>2, <4>1, <4>2 DEF Tree, Sorted
    <3>3. ASSUME NEW m \in DOMAIN dir', NEW n \in DOMAIN dir', ~n.gz, dir'[m] = Zipped(dir'[n])
          PROVE  In(m)' \subseteq In(n)'
      <4>1. CASE m = b
        BY <2>8, <3>1, <4>1, <1>3
      <4>2. CASE m \in DOMAIN dir /\ n = b
        <5>1. dir[m] \in DOMAIN data /\ dir[m] = Zipped(f) /\ Zipped(f).no = k
          BY <1>1, <2>4, <2>6, <3>3, <4>2, FileFields
        <5> QED
          BY <2>4, <5>1
      <4>3. CASE m \in DOMAIN dir /\ n \in DOMAIN dir
        BY <2>6, <2>8, <3>3, <4>3 DEF Tree, Sorted
      <4> QED
        BY <2>6, <4>1, <4>2, <4>3
    <3>4. \A m \in DOMAIN dir' : \A l \in In(m)' : log'[l] = m.day
      BY <3>1 DEF Tree, Sorted
    <3>5. \A m, n \in DOMAIN dir' : m.day = n.day /\ m.n > n.n =>
            dir'[m] = Zipped(dir'[n]) \/ \A i \in In(m)', j \in In(n)' : i < j
      BY <3>2
    <3> QED
      BY <3>3, <3>4, <3>5 DEF Sorted
  <2>13. Gz(b) # b
    BY <1>1
  <2> QED
    BY <1>1, <2>4, <2>6, <2>7, <2>8, <2>9, <2>10, <2>11, <2>12, <2>13 DEF Tree
<1> QED
  BY <1>2, <1>3

LEMMA OpenStep ==
  ASSUME NEW w \in Workers, RotationInv(w), Open(w)
  PROVE  RotationInv(w)'
<1>1. PICK d, b, o : d = date[w] /\ b = Base(date[w]) /\ o = Opened(b)
  OBVIOUS
<1>2. /\ step[w] = "open" /\ dir' = o[1] /\ data' = o[2] /\ stream' = [stream EXCEPT ![w] = o[3]]
      /\ step' = [step EXCEPT ![w] = "list"]
      /\ UNCHANGED <<today, cap, log, record, date, doomed, found, jobs, gzip, discarded, torn>>
  BY <1>1 DEF Open, Enter, thread, ghosts
<1>3. /\ Tree /\ d \in Days /\ found[w] = {} /\ DOMAIN dir \subseteq Names /\ b \in Names
      /\ b.day = d /\ b.n = 0 /\ b.gz = FALSE /\ Gz(b).day = d /\ Gz(b).n = 0 /\ Gz(b).gz = TRUE
  BY <1>1, <1>2, NameFields DEF RotationInv, WorkerTyped, Active, Tree, FilesTyped
<1>4. Gz(b) \notin DOMAIN dir
  BY <1>1, <1>3 DEF RotationInv, Dated, Days
<1>5. /\ Tree' /\ Kept' = Kept
      /\ DOMAIN dir' = DOMAIN dir \cup {b} /\ Gz(b) \notin DOMAIN dir'
      /\ \A m \in DOMAIN dir : dir'[m] = dir[m] /\ In(m)' = In(m)
      /\ dir'[b] = o[3] /\ o[3] \in Files
      /\ b \notin DOMAIN dir => In(b)' = {} /\ o[3] \notin DOMAIN data
      /\ \A g \in DOMAIN data : g \in DOMAIN data' /\ data'[g] = data[g]
  <2>1. b = Base(d)
    BY <1>1
  <2> QED
    BY <1>1, <1>2, <1>3, <1>4, <2>1, OpenedTree
<1>6. /\ stream'[w] = o[3] /\ step'[w] = "list" /\ WorkerTyped'
  BY <1>2, <1>5 DEF RotationInv, WorkerTyped
<1>7. Dated(w)'
  <2>1. b.day <= date[w]
    BY <1>1, <1>3 DEF Days
  <2> QED
    BY <1>2, <1>3, <1>5, <2>1 DEF RotationInv, Dated
<1>8. Active(w)'
  BY <1>1, <1>2, <1>3, <1>5, <1>6 DEF Active
<1>9. \A n \in Names : jobs[w] = <<n>> => n # b /\ Gz(n) # b
  <2> SUFFICES ASSUME NEW n \in Names, jobs[w] = <<n>> PROVE n # b /\ Gz(n) # b
    OBVIOUS
  <2>1. Head(jobs[w]) = n /\ jobs[w] # <<>>
    OBVIOUS
  <2> QED
    BY <1>1, <2>1, JobOf
<1>10. OneJob(w)'
  <2>1. /\ jobs'[w] = <<>> \/ \E n \in Names : jobs'[w] = <<n>>
        /\ Busy(w)' => jobs'[w] # <<>>
    BY <1>2 DEF RotationInv, OneJob, Busy
  <2>2. ASSUME NEW n \in Names, jobs'[w] = <<n>>
        PROVE  /\ ~n.gz /\ n.day <= date'[w] /\ (n.n = 1 \/ (n.n = 0 /\ n.day < date'[w]))
               /\ ~Busy(w)' => /\ Gz(n) \notin DOMAIN dir' /\ \A e \in found'[w] : e.name # Gz(n)
                               /\ n \in DOMAIN dir' => \A m \in DOMAIN dir' : dir'[m] # Zipped(dir'[n])
    <3>1. jobs[w] = <<n>> /\ (~Busy(w)' => ~Busy(w))
      BY <1>2, <2>2 DEF Busy
    <3>2. n # b /\ Gz(n) # b
      BY <1>9, <3>1
    <3>3. ASSUME ~Busy(w)', n \in DOMAIN dir', NEW m \in DOMAIN dir' PROVE dir'[m] # Zipped(dir'[n])
      <4>1. n \in DOMAIN dir /\ dir'[n] = dir[n] /\ dir[n] \in Files
        BY <1>3, <1>5, <3>2, <3>3 DEF Tree, FilesTyped, Files
      <4>2. CASE m \in DOMAIN dir
        BY <1>5, <3>1, <3>3, <4>1, <4>2 DEF RotationInv, OneJob
      <4>3. CASE m = b
        <5>1. dir'[m].gz = FALSE
          BY <1>3, <1>5, <4>3 DEF Tree, OneName
        <5> QED
          BY <4>1, <5>1, FileFields
      <4> QED
        BY <1>5, <4>2, <4>3
    <3>4. /\ ~n.gz /\ n.day <= date[w] /\ (n.n = 1 \/ (n.n = 0 /\ n.day < date[w]))
          /\ ~Busy(w) => Gz(n) \notin DOMAIN dir /\ \A e \in found[w] : e.name # Gz(n)
      BY <3>1 DEF RotationInv, OneJob
    <3> QED
      BY <1>2, <1>5, <3>1, <3>2, <3>3, <3>4
  <2> QED
    BY <2>1, <2>2 DEF OneJob
<1>11. InGzip(w)'
  <2> SUFFICES ASSUME Busy(w), NEW n \in Names, jobs[w] = <<n>>
      PROVE  /\ Compressing(n, gzip[w].at, gzip[w].src, gzip[w].dst)'
             /\ Eviction(w, n, gzip[w].at, gzip[w].src)'
    BY <1>2 DEF InGzip, Busy
  <2>1. PICK at, src, dst : at = gzip[w].at /\ src = gzip[w].src /\ dst = gzip[w].dst
    OBVIOUS
  <2>2. Compressing(n, at, src, dst) /\ Eviction(w, n, at, src) /\ n # b /\ Gz(n) # b
    BY <1>9, <2>1 DEF RotationInv, InGzip
  <2>3. data'[src] = data[src] /\ data'[dst] = data[dst] /\ src \in DOMAIN data' /\ dst \in DOMAIN data'
    BY <1>5, <2>2 DEF Compressing
  <2>4. ASSUME NEW m \in DOMAIN dir', m.day = n.day
        PROVE  /\ m.n > n.n => \A i \in In(m)', j \in data'[src].lines : i < j
               /\ m.n < n.n => \A i \in data'[src].lines, j \in In(m)' : i < j
    <3>1. CASE m \in DOMAIN dir
      BY <1>5, <2>2, <2>3, <2>4, <3>1 DEF Compressing
    <3>2. CASE m \notin DOMAIN dir
      BY <1>5, <2>4, <3>2
    <3> QED
      BY <3>1, <3>2
  <2>5. \A m \in DOMAIN dir' : (dir'[m] = src => m = n) /\ (dir'[m] = dst => m = Gz(n))
    BY <1>5, <2>2 DEF Compressing
  <2>6. /\ n \in DOMAIN dir' => n \in DOMAIN dir /\ dir'[n] = dir[n]
        /\ Gz(n) \in DOMAIN dir' => Gz(n) \in DOMAIN dir /\ dir'[Gz(n)] = dir[Gz(n)]
    BY <1>5, <2>2
  <2>7. Compressing(n, at, src, dst)'
    BY <1>2, <2>2, <2>3, <2>4, <2>5, <2>6 DEF Compressing
  <2>8. Eviction(w, n, at, src)'
    BY <1>2, <1>3, <1>5, <2>2, <2>3, <2>6 DEF Eviction
  <2> QED
    BY <1>2, <2>1, <2>7, <2>8 DEF Compressing, Eviction
<1>12. Pairs(w)'
  <2> SUFFICES ASSUME NEW m \in DOMAIN dir' PROVE Spare(m)' \/ (Busy(w) /\ jobs[w] = <<m>>)
    BY <1>2 DEF Pairs, Busy
  <2>1. CASE m = b
    BY <1>5, <2>1 DEF Spare
  <2>2. CASE m \in DOMAIN dir
    <3>1. Gz(m) # b
      BY <1>3, <2>2, NameFields
    <3>2. Spare(m) => Spare(m)'
      BY <1>2, <1>5, <2>2, <3>1 DEF Spare
    <3> QED
      BY <2>2, <3>2 DEF RotationInv, Pairs
  <2> QED
    BY <1>5, <2>1, <2>2
<1>13. Accounted(w)'
  <2>1. Alive(w)' = Alive(w)
    <3>1. Busy(w) => gzip[w].src \in DOMAIN data
      BY DEF RotationInv, OneJob, InGzip, Compressing
    <3>2. Busy(w)' = Busy(w) /\ gzip' = gzip
      BY <1>2 DEF Busy
    <3> QED
      BY <1>5, <3>1, <3>2 DEF Alive
  <2>2. \A l : Excused(w, l) => Excused(w, l)'
    BY <1>2, <2>1 DEF Excused
  <2> QED
    BY <1>2, <1>5, <2>2 DEF RotationInv, Accounted
<1> QED
  BY <1>5, <1>6, <1>7, <1>8, <1>10, <1>11, <1>12, <1>13 DEF RotationInv

(* A restart forgets the compression; a copy that was cut leaves the lines *)
(* of its source torn.                                                     *)
LEMMA CrashStep ==
  ASSUME NEW w \in Workers, RotationInv(w), Crash(w)
  PROVE  RotationInv(w)'
<1>1. PICK b, o : b = Base(today) /\ o = Opened(b)
  OBVIOUS
<1>2. /\ dir' = o[1] /\ data' = o[2] /\ stream' = [stream EXCEPT ![w] = o[3]]
      /\ torn' = IF gzip[w].at = "copy" THEN torn \cup data[gzip[w].src].lines ELSE torn
      /\ date' = [date EXCEPT ![w] = today] /\ record' = [record EXCEPT ![w] = FALSE]
      /\ doomed' = [doomed EXCEPT ![w] = Expired] /\ found' = [found EXCEPT ![w] = {}]
      /\ jobs' = [jobs EXCEPT ![w] = <<>>] /\ gzip' = [gzip EXCEPT ![w] = Idle]
      /\ step' = [step EXCEPT ![w] = "expire"]
      /\ UNCHANGED <<today, cap, log, discarded>>
  BY <1>1 DEF Crash, Enter
<1>3. /\ Tree /\ today \in Days /\ date[w] \in Days /\ date[w] <= today
      /\ DOMAIN dir \subseteq Names /\ b \in Names
      /\ b.day = today /\ b.n = 0 /\ b.gz = FALSE
      /\ Gz(b).day = today /\ Gz(b).n = 0 /\ Gz(b).gz = TRUE
  <2>1. Tree /\ today \in Days /\ date[w] \in Days /\ date[w] <= today /\ DOMAIN dir \subseteq Names
    BY DEF RotationInv, WorkerTyped, Dated, Tree, FilesTyped
  <2> QED
    BY <1>1, <2>1, NameFields
<1>4. \A n \in DOMAIN dir : n.day \in Days /\ n.day <= today /\ (n.gz /\ n.n = 0 => n.day < today)
  BY <1>3, NameFields DEF RotationInv, Dated, Days
<1>5. /\ Tree' /\ Kept' = Kept
      /\ DOMAIN dir' = DOMAIN dir \cup {b} /\ Gz(b) \notin DOMAIN dir'
      /\ \A m \in DOMAIN dir : dir'[m] = dir[m] /\ In(m)' = In(m)
      /\ dir'[b] = o[3] /\ o[3] \in Files
  <2>1. Gz(b) \notin DOMAIN dir
    BY <1>3, <1>4 DEF Days
  <2>2. UNCHANGED log
    BY <1>2
  <2> QED
    BY <1>1, <1>2, <1>3, <2>1, <2>2, OpenedTree
<1>6. /\ stream'[w] = o[3] /\ step'[w] = "expire" /\ record'[w] = FALSE /\ date'[w] = today
      /\ doomed'[w] = Expired /\ found'[w] = {} /\ jobs'[w] = <<>> /\ gzip'[w] = Idle
  BY <1>2 DEF RotationInv, WorkerTyped
<1>7. WorkerTyped'
  <2>1. Expired \subseteq Names /\ <<>> \in Seq(Names)
    BY <1>3 DEF Expired
  <2>2. Idle \in Threads
    BY FileFields DEF Idle, Threads, NoFile
  <2>3. /\ today' \in Days /\ cap' \in Nat
        /\ step' \in [Workers -> {"idle", "expire", "open", "list", "cap", "dead"}]
        /\ record' \in [Workers -> BOOLEAN] /\ date' \in [Workers -> Days]
    BY <1>2, <1>3 DEF RotationInv, WorkerTyped
  <2>4. /\ stream' \in [Workers -> Files] /\ doomed' \in [Workers -> SUBSET Names]
        /\ found' \in [Workers -> SUBSET Entries]
    BY <1>2, <1>5, <2>1 DEF RotationInv, WorkerTyped
  <2>5. jobs' \in [Workers -> Seq(Names)] /\ gzip' \in [Workers -> Threads]
    BY <1>2, <2>1, <2>2 DEF RotationInv, WorkerTyped
  <2> QED
    BY <2>3, <2>4, <2>5 DEF WorkerTyped
<1>8. Dated(w)'
  <2>1. \A n \in Expired : n.day < today - Retention
    BY DEF Expired
  <2>2. today <= today /\ b.day <= today
    BY <1>3 DEF Days
  <2> QED
    BY <1>2, <1>3, <1>4, <1>5, <1>6, <2>1, <2>2 DEF Dated
<1>9. Active(w)'
  <2>1. Base(date'[w]) = b /\ b \in DOMAIN dir' /\ dir'[b] = stream'[w]
    BY <1>1, <1>5, <1>6
  <2> QED
    BY <1>6, <2>1 DEF Active
<1>10. ~Busy(w)'
  BY <1>6 DEF Busy, Idle
<1>11. OneJob(w)' /\ InGzip(w)'
  BY <1>6, <1>10 DEF OneJob, InGzip
<1>12. torn \subseteq torn' /\ (gzip[w].at = "copy" => data[gzip[w].src].lines \subseteq torn')
  BY <1>2
<1>13. Pairs(w)'
  <2> SUFFICES ASSUME NEW m \in DOMAIN dir' PROVE Spare(m)'
    BY DEF Pairs
  <2>1. CASE m = b
    BY <1>5, <2>1 DEF Spare
  <2>2. CASE m \in DOMAIN dir /\ Spare(m)
    <3>1. Gz(m) # b
      BY <1>3, <2>2, NameFields
    <3> QED
      BY <1>5, <1>12, <2>2, <3>1 DEF Spare
  <2>3. CASE m \in DOMAIN dir /\ Busy(w) /\ jobs[w] = <<m>>
    <3>1. m \in Names /\ Gz(m) # b
      BY <1>3, <2>3, NameFields
    <3>2. Compressing(m, gzip[w].at, gzip[w].src, gzip[w].dst)
      BY <2>3, <3>1 DEF RotationInv, InGzip
    <3>3. In(m)' = data[gzip[w].src].lines
      BY <1>5, <2>3, <3>2 DEF Compressing, In
    <3>4. gzip[w].at = "copy" \/ gzip[w].at = "unlink"
      BY <2>3 DEF RotationInv, WorkerTyped, Threads, Busy
    <3>5. CASE gzip[w].at = "copy"
      BY <1>12, <3>3, <3>5 DEF Spare
    <3>6. CASE gzip[w].at = "unlink"
      <4>1. Gz(m) \in DOMAIN dir' => In(Gz(m))' = data[gzip[w].src].lines
        BY <1>5, <3>1, <3>2, <3>6 DEF Compressing, In
      <4> QED
        BY <3>3, <4>1 DEF Spare
    <3> QED
      BY <3>4, <3>5, <3>6
  <2> QED
    BY <1>5, <2>1, <2>2, <2>3 DEF RotationInv, Pairs
<1>14. Accounted(w)'
  <2>1. Alive(w)' \subseteq Alive(w)
    BY <1>5, <1>10 DEF Alive
  <2>2. \A l : Excused(w, l) => Excused(w, l)'
    BY <1>2, <1>12, <2>1 DEF Excused
  <2> QED
    BY <1>2, <1>5, <2>2 DEF RotationInv, Accounted
<1> QED
  BY <1>5, <1>7, <1>8, <1>9, <1>11, <1>13, <1>14 DEF RotationInv

-------------------------------------------------------------------------------
(* The backups are shifted *)

Up(n) == [n EXCEPT !.n = @ + 1]
Down(n) == [n EXCEPT !.n = @ - 1]

LEMMA UpFields ==
  \A q \in Names : q.n < BackupCount =>
    /\ Up(q) \in Names /\ Down(Up(q)) = q
    /\ Up(q).day = q.day /\ Up(q).n = q.n + 1 /\ Up(q).gz = q.gz
<1> SUFFICES ASSUME NEW q \in Names, q.n < BackupCount
    PROVE  /\ Up(q) \in Names /\ Down(Up(q)) = q
           /\ Up(q).day = q.day /\ Up(q).n = q.n + 1 /\ Up(q).gz = q.gz
  OBVIOUS
<1>1. q = [day |-> q.day, n |-> q.n, gz |-> q.gz] /\ q.day \in Days /\ q.n \in Nat /\ q.gz \in BOOLEAN
  BY LogAssumption DEF Names
<1>2. Up(q) = [day |-> q.day, n |-> q.n + 1, gz |-> q.gz]
  BY <1>1 DEF Up
<1>3. q.n + 1 \in 0..BackupCount
  BY LogAssumption, <1>1
<1>4. Up(q) \in Names /\ Up(q).day = q.day /\ Up(q).n = q.n + 1 /\ Up(q).gz = q.gz
  BY <1>1, <1>2, <1>3 DEF Names
<1>5. ASSUME NEW r, r = Up(q) PROVE Down(r) = q
  <2>1. r = [day |-> q.day, n |-> q.n + 1, gz |-> q.gz]
    BY <1>2, <1>5
  <2>2. r = [day |-> r.day, n |-> r.n, gz |-> r.gz] /\ r.day = q.day /\ r.n - 1 = q.n /\ r.gz = q.gz
    BY <1>1, <2>1
  <2>3. Down(r) = [day |-> r.day, n |-> r.n - 1, gz |-> r.gz]
    BY <2>2 DEF Down
  <2> QED
    BY <1>1, <2>2, <2>3
<1>6. Down(Up(q)) = q
  BY <1>5
<1> QED
  BY <1>4, <1>6

LEMMA ShiftedNames ==
  ASSUME DOMAIN dir \subseteq Names, NEW d \in Days, NEW k \in 0..BackupCount
  PROVE  /\ \A m \in DOMAIN Shifted(d, k) :
              \/ \E q \in Movers(d, k) : m = Up(q) /\ Shifted(d, k)[m] = dir[q]
              \/ m \in DOMAIN dir \ (Last(d) \cup Movers(d, k)) /\ Shifted(d, k)[m] = dir[m]
         /\ \A q \in Movers(d, k) : Up(q) \in DOMAIN Shifted(d, k) /\ Shifted(d, k)[Up(q)] = dir[q]
         /\ \A m \in DOMAIN dir \ (Last(d) \cup Movers(d, k)) :
              /\ m \in DOMAIN Shifted(d, k)
              /\ (\A q \in Movers(d, k) : m # Up(q)) => Shifted(d, k)[m] = dir[m]
<1> DEFINE moved == {Up(n) : n \in Movers(d, k)}
           kept == DOMAIN dir \ (Last(d) \cup Movers(d, k))
<1>1. Shifted(d, k) = [n \in kept \cup moved |-> IF n \in moved THEN dir[Down(n)] ELSE dir[n]]
  BY DEF Shifted, Up, Down
<1>2. \A q \in Movers(d, k) : q \in Names /\ q.n < BackupCount /\ q \in DOMAIN dir
  BY LogAssumption, NameFields DEF Movers
<1>3. \A q \in Movers(d, k) : Up(q) \in moved /\ Down(Up(q)) = q
  BY <1>2, UpFields
<1>4. \A m \in moved : \E q \in Movers(d, k) : m = Up(q)
  OBVIOUS
<1> HIDE DEF moved, kept
<1>5. DOMAIN Shifted(d, k) = kept \cup moved
  BY <1>1
<1>6. \A m \in moved : Shifted(d, k)[m] = dir[Down(m)]
  BY <1>1, <1>5
<1>7. \A m \in kept : m \notin moved => Shifted(d, k)[m] = dir[m]
  BY <1>1, <1>5
<1>8. ASSUME NEW m \in DOMAIN Shifted(d, k), m \in moved
      PROVE  \E q \in Movers(d, k) : m = Up(q) /\ Shifted(d, k)[m] = dir[q]
  BY <1>3, <1>4, <1>6, <1>8
<1>9. \A q \in Movers(d, k) : Up(q) \in DOMAIN Shifted(d, k) /\ Shifted(d, k)[Up(q)] = dir[q]
  BY <1>3, <1>5, <1>6
<1>10. \A m \in kept : /\ m \in DOMAIN Shifted(d, k)
                       /\ (\A q \in Movers(d, k) : m # Up(q)) => Shifted(d, k)[m] = dir[m]
  BY <1>4, <1>5, <1>7
<1> QED
  BY <1>5, <1>7, <1>8, <1>9, <1>10 DEF kept

(* Where the file of name m comes from when the names of day d from number *)
(* k on have moved: from one below, or from m itself.  A plain first       *)
(* backup whose compression has moved stays until the current file         *)
(* replaces it.                                                            *)
ShiftOrigin(d, k, m, q) ==
  /\ q \in DOMAIN dir /\ dir'[m] = dir[q] /\ m.day = q.day /\ m.gz = q.gz
  /\ m.day # d => m = q
  /\ m.day = d =>
       \/ m.n = q.n + 1 /\ q.n >= k /\ q.n < BackupCount /\ (q.gz \/ Gz(q) \notin DOMAIN dir)
       \/ m = q /\ q.n < k /\ q.n < BackupCount
       \/ m = q /\ k = 1 /\ q.n = 1 /\ q.n < BackupCount /\ ~q.gz /\ Gz(q) \in DOMAIN dir

(* The files without number BackupCount keep a name. *)
Shiftable(d, q) == q.day = d => q.n < BackupCount /\ (q.gz \/ Gz(q) \notin DOMAIN dir)

ShiftMap(d, k) ==
  /\ \A m \in DOMAIN dir' : m \in Names /\ \E q \in DOMAIN dir : ShiftOrigin(d, k, m, q)
  /\ \A q \in DOMAIN dir : Shiftable(d, q) => \E m \in DOMAIN dir' : dir'[m] = dir[q]

Shifting(d, k) ==
  /\ Tree /\ d \in Days /\ Base(d) \in DOMAIN dir /\ Gz(Base(d)) \notin DOMAIN dir
  /\ k \in 0..BackupCount /\ dir' = Shifted(d, k)

LEMMA ShiftNames ==
  ASSUME NEW d, NEW k, Shifting(d, k)
  PROVE  ShiftMap(d, k)
<1> USE LogAssumption
<1>b. PICK b : b = Base(d)
  OBVIOUS
<1>1. /\ Tree /\ d \in Days /\ b = Base(d) /\ b \in DOMAIN dir /\ Gz(b) \notin DOMAIN dir
      /\ k \in 0..BackupCount /\ dir' = Shifted(d, k) /\ DOMAIN dir \subseteq Names
  BY <1>b DEF Shifting, Tree, FilesTyped
<1>2. /\ b \in Names /\ b.day = d /\ b.n = 0 /\ b.gz = FALSE
      /\ Gz(b) \in Names /\ Gz(b).day = d /\ Gz(b).n = 0 /\ Gz(b).gz = TRUE
  BY <1>1, NameFields
<1>zero. \A m \in DOMAIN dir : m.day = d /\ m.n = 0 => m = b
  <2> SUFFICES ASSUME NEW m \in DOMAIN dir, m.day = d, m.n = 0 PROVE m = b
    OBVIOUS
  <2>1. m \in Names /\ (m.gz = TRUE \/ m.gz = FALSE)
    BY <1>1, NameFields
  <2>2. m.gz = FALSE => m = b
    BY <1>2, <2>1, NameFields
  <2>3. m.gz = TRUE => m = Gz(b)
    BY <1>2, <2>1, NameFields
  <2> QED
    BY <1>1, <2>1, <2>2, <2>3
<1>last. \A m \in Names : m \in Last(d) <=> m.day = d /\ m.n = BackupCount
  <2> SUFFICES ASSUME NEW m \in Names PROVE m \in Last(d) <=> m.day = d /\ m.n = BackupCount
    OBVIOUS
  <2>1. BackupCount \in 0..BackupCount /\ TRUE \in BOOLEAN /\ FALSE \in BOOLEAN /\ m.gz \in BOOLEAN
    BY NameFields
  <2>2. \A z \in BOOLEAN : /\ Name(d, BackupCount, z) \in Names /\ Name(d, BackupCount, z).day = d
                           /\ Name(d, BackupCount, z).n = BackupCount /\ Name(d, BackupCount, z).gz = z
    BY <1>1, <2>1, NameFields
  <2>3. m.day = d /\ m.n = BackupCount => m = Name(d, BackupCount, m.gz)
    BY <2>1, <2>2, NameFields
  <2> QED
    BY <2>1, <2>2, <2>3 DEF Last
<1>3. \A q \in Movers(d, k) :
        /\ q \in DOMAIN dir /\ q \in Names /\ q.day = d /\ q.n \in 0..BackupCount - 1
        /\ q.n >= k /\ q.n < BackupCount /\ (q.gz \/ Gz(q) \notin DOMAIN dir)
        /\ Up(q) \in Names /\ Up(q).day = d /\ Up(q).n = q.n + 1 /\ Up(q).gz = q.gz
  <2> SUFFICES ASSUME NEW q \in Movers(d, k)
      PROVE  /\ q \in DOMAIN dir /\ q \in Names /\ q.day = d /\ q.n \in 0..BackupCount - 1
             /\ q.n >= k /\ q.n < BackupCount /\ (q.gz \/ Gz(q) \notin DOMAIN dir)
             /\ Up(q) \in Names /\ Up(q).day = d /\ Up(q).n = q.n + 1 /\ Up(q).gz = q.gz
    OBVIOUS
  <2>1. /\ q \in DOMAIN dir /\ q \in Names /\ q.day = d /\ q.n \in k..BackupCount - 1
        /\ q.gz \/ Gz(q) \notin DOMAIN dir
    BY <1>1 DEF Movers
  <2>2. q.n \in 0..BackupCount - 1 /\ q.n >= k /\ q.n < BackupCount
    BY <1>1, <2>1
  <2>3. Up(q) \in Names /\ Up(q).day = d /\ Up(q).n = q.n + 1 /\ Up(q).gz = q.gz
    BY <2>1, <2>2, UpFields
  <2> QED
    BY <2>1, <2>2, <2>3
<1>4. \A q \in DOMAIN dir :
        q \in Movers(d, k) <=> q.day = d /\ q.n >= k /\ q.n < BackupCount /\ (q.gz \/ Gz(q) \notin DOMAIN dir)
  <2> SUFFICES ASSUME NEW q \in DOMAIN dir, q.day = d, q.n >= k, q.n < BackupCount,
                      q.gz \/ Gz(q) \notin DOMAIN dir
               PROVE  q \in Movers(d, k)
    BY <1>3
  <2>1. q \in Names /\ q.n \in 0..BackupCount
    BY <1>1, NameFields
  <2>2. q.n \in k..BackupCount - 1 /\ (q.n = 0 \/ q.n > 0)
    BY <1>1, <2>1
  <2>3. q.n = 0 => q = Base(d)
    BY <1>1, <1>zero
  <2> QED
    BY <2>2, <2>3 DEF Movers
<1>6. /\ \A m \in DOMAIN dir' :
           \/ \E q \in Movers(d, k) : m = Up(q) /\ dir'[m] = dir[q]
           \/ m \in DOMAIN dir \ (Last(d) \cup Movers(d, k)) /\ dir'[m] = dir[m]
      /\ \A q \in Movers(d, k) : Up(q) \in DOMAIN dir' /\ dir'[Up(q)] = dir[q]
      /\ \A m \in DOMAIN dir \ (Last(d) \cup Movers(d, k)) :
           m \in DOMAIN dir' /\ ((\A q \in Movers(d, k) : m # Up(q)) => dir'[m] = dir[m])
  BY <1>1, ShiftedNames
<1>9. ASSUME NEW m \in DOMAIN dir \ (Last(d) \cup Movers(d, k)), m.day = d, dir'[m] = dir[m]
      PROVE  /\ m.n < BackupCount
             /\ m.n < k \/ (k = 1 /\ m.n = 1 /\ ~m.gz /\ Gz(m) \in DOMAIN dir)
  <2>1. m \in Names /\ m.n \in 0..BackupCount /\ m.gz \in BOOLEAN /\ m.n # BackupCount
    BY <1>1, <1>9, <1>last, NameFields
  <2>2. m.n < BackupCount
    BY <2>1
  <2> SUFFICES ASSUME ~(m.n < k) PROVE k = 1 /\ m.n = 1 /\ ~m.gz /\ Gz(m) \in DOMAIN dir
    BY <2>2
  <2>3. m.n >= k
    BY <1>1, <2>1
  <2>4. ~m.gz /\ Gz(m) \in DOMAIN dir
    BY <1>4, <1>9, <2>2, <2>3
  <2>5. m.n <= 1 /\ m.n # 0
    <3>1. m.n <= 1
      BY <1>1, <2>4 DEF Tree, OneName
    <3>2. m.n = 0 => m = b
      BY <1>9, <1>zero
    <3> QED
      BY <1>1, <2>4, <3>1, <3>2
  <2>6. m.n = 1 /\ k \in {0, 1}
    BY <1>1, <2>1, <2>3, <2>5
  <2>7. k # 0
    <3> SUFFICES ASSUME k = 0 PROVE FALSE
      OBVIOUS
    <3>1. b \in Movers(d, k)
      BY <1>1, <1>2, <1>4
    <3>2. Up(b) \in Names /\ Up(b).day = d /\ Up(b).n = 1 /\ Up(b).gz = FALSE /\ dir'[Up(b)] = dir[b]
      BY <1>2, <1>3, <1>6, <3>1
    <3>3. m = Up(b)
      BY <1>9, <2>1, <2>4, <2>6, <3>2, NameFields
    <3>4. m = b
      BY <1>1, <1>9, <3>2, <3>3 DEF Tree, OneName
    <3> QED
      BY <1>2, <2>6, <3>4
  <2> QED
    BY <2>4, <2>6, <2>7
<1>10. ASSUME NEW m \in DOMAIN dir'
       PROVE  m \in Names /\ \E q \in DOMAIN dir : ShiftOrigin(d, k, m, q)
  <2>2. CASE \E q \in Movers(d, k) : m = Up(q) /\ dir'[m] = dir[q]
    <3>1. PICK q \in Movers(d, k) : m = Up(q) /\ dir'[m] = dir[q]
      BY <2>2
    <3>2. ShiftOrigin(d, k, m, q)
      BY <1>3, <3>1 DEF ShiftOrigin
    <3> QED
      BY <1>3, <3>1, <3>2
  <2>3. CASE m \in DOMAIN dir \ (Last(d) \cup Movers(d, k)) /\ dir'[m] = dir[m]
    <3>1. ShiftOrigin(d, k, m, m)
      BY <1>9, <2>3 DEF ShiftOrigin
    <3> QED
      BY <1>1, <2>3, <3>1
  <2> QED
    BY <1>6, <2>2, <2>3
<1>11. ASSUME NEW q \in DOMAIN dir, Shiftable(d, q)
       PROVE  \E m \in DOMAIN dir' : dir'[m] = dir[q]
  <2>1. q \in Names /\ q.n \in 0..BackupCount
    BY <1>1, NameFields
  <2>2. CASE q \in Movers(d, k)
    BY <1>6, <2>2
  <2>3. CASE q \notin Movers(d, k)
    <3>1. q.day = d => q.n < k
      BY <1>1, <1>4, <1>11, <2>1, <2>3 DEF Shiftable
    <3>2. q \notin Last(d)
      BY <1>1, <1>last, <2>1, <3>1
    <3>3. \A p \in Movers(d, k) : q # Up(p)
      BY <1>1, <1>3, <2>1, <3>1
    <3> QED
      BY <1>6, <2>3, <3>2, <3>3
  <2> QED
    BY <2>2, <2>3
<1> QED
  BY <1>10, <1>11 DEF ShiftMap

(* A line of a backup is older than the lines of the day with a lower      *)
(* number, or is one of them, where that is the plain file it was made of. *)
LEMMA OlderOrKept ==
  ASSUME Tree, NEW q \in DOMAIN dir, NEW r \in DOMAIN dir, q.day = r.day,
         \/ q.n > r.n
         \/ q.n = r.n /\ q.gz /\ q # r,
         NEW l \in In(q), NEW k \in In(r)
  PROVE  l < k \/ l \in In(r)
<1>1. /\ q \in Names /\ r \in Names /\ dir[q] \in DOMAIN data /\ dir[r] \in DOMAIN data
      /\ dir[q] \in Files /\ dir[r] \in Files
  BY DEF Tree, FilesTyped, Files
<1>2. CASE dir[q] = Zipped(dir[r])
  <2>1. ~r.gz
    <3> SUFFICES ASSUME r.gz PROVE FALSE
      OBVIOUS
    <3>1. dir[r].gz = TRUE
      BY <1>1, FileFields DEF Tree, OneName
    <3>2. dir[q] = dir[r]
      BY <1>1, <1>2, <3>1, FileFields
    <3>3. q = r
      BY <3>2 DEF Tree, OneName
    <3> QED
      BY <1>1, <3>3, NameFields
  <2> QED
    BY <1>2, <2>1 DEF Tree, Sorted
<1>3. CASE dir[q] # Zipped(dir[r])
  <2>1. q.n > r.n
    <3> SUFFICES ASSUME q.n = r.n, q.gz, q # r PROVE FALSE
      OBVIOUS
    <3>1. q = Gz(r) /\ ~r.gz
      <4>1. r.gz => q = r
        BY <1>1, NameFields
      <4> QED
        BY <1>1, <4>1, NameFields
    <3> QED
      BY <1>3, <3>1 DEF Tree, OneName
  <2> QED
    BY <1>3, <2>1 DEF Tree, Sorted
<1> QED
  BY <1>2, <1>3

(* The backup count drops the oldest lines of the day: those of the        *)
(* highest number.  A plain file that its compression replaces is spare.   *)
Shifts(w, d, k) ==
  /\ d = date[w] /\ Shifting(d, k)
  /\ ~Busy(w) /\ ~Busy(w)'
  /\ discarded' = discarded \cup LinesOf(Last(d))
  /\ UNCHANGED <<today, cap, data, log, date, doomed, torn>>

LEMMA ShiftedInv ==
  ASSUME NEW w \in Workers, RotationInv(w), NEW d, NEW k, Shifts(w, d, k)
  PROVE  Tree' /\ Dated(w)' /\ Pairs(w)' /\ Accounted(w)'
<1> USE LogAssumption
<1>1. /\ Tree /\ d \in Days /\ k \in 0..BackupCount /\ DOMAIN dir \subseteq Names
      /\ ~Busy(w) /\ ~Busy(w)' /\ discarded' = discarded \cup LinesOf(Last(d))
      /\ UNCHANGED <<today, cap, data, log, date, doomed, torn>>
  BY DEF Shifts, Shifting, Tree, FilesTyped
<1>2. ShiftMap(d, k)
  BY ShiftNames DEF Shifts
<1>3. ASSUME NEW m \in DOMAIN dir'
      PROVE  m \in Names /\ \E q \in DOMAIN dir : ShiftOrigin(d, k, m, q)
  BY <1>2 DEF ShiftMap
<1>4. ASSUME NEW m \in DOMAIN dir', NEW q, ShiftOrigin(d, k, m, q)
      PROVE  /\ In(m)' = In(q) /\ q \in DOMAIN dir /\ q \in Names /\ m \in Names
             /\ m.n \in Nat /\ q.n \in Nat
  <2>1. q \in DOMAIN dir /\ dir'[m] = dir[q] /\ data' = data
    BY <1>1, <1>4 DEF ShiftOrigin
  <2> QED
    BY <1>1, <1>3, <2>1, NameFields DEF In
<1>5. FilesTyped'
  <2>1. DOMAIN dir' \subseteq Names /\ \A m \in DOMAIN dir' : dir'[m] \in DOMAIN data
    <3> SUFFICES ASSUME NEW m \in DOMAIN dir' PROVE m \in Names /\ dir'[m] \in DOMAIN data
      OBVIOUS
    <3>1. PICK q \in DOMAIN dir : ShiftOrigin(d, k, m, q)
      BY <1>3
    <3> QED
      BY <1>1, <1>3, <3>1 DEF ShiftOrigin, Tree, FilesTyped
  <2> QED
    BY <1>1, <2>1 DEF Tree, FilesTyped
<1>6. ASSUME NEW m \in DOMAIN dir', ~m.gz, Gz(m) \in DOMAIN dir'
      PROVE  ShiftOrigin(d, k, m, m) /\ ShiftOrigin(d, k, Gz(m), Gz(m))
  <2>1. m \in Names /\ Gz(m).day = m.day /\ Gz(m).n = m.n /\ Gz(m).gz = TRUE
    BY <1>3, NameFields
  <2>2. PICK p \in DOMAIN dir, q \in DOMAIN dir :
          ShiftOrigin(d, k, m, p) /\ ShiftOrigin(d, k, Gz(m), q)
    BY <1>3, <1>6
  <2>3. p \in Names /\ q \in Names /\ p.n \in Nat /\ q.n \in Nat /\ m.n \in Nat /\ k \in Nat
    BY <1>1, <1>4, <1>6, <2>2
  <2>4. p.gz = FALSE /\ q.gz = TRUE /\ p.day = q.day
    BY <1>6, <2>1, <2>2, <2>3, NameFields DEF ShiftOrigin
  <2>5. p = m /\ q = Gz(m)
    <3> SUFFICES ASSUME m.day = d PROVE p = m /\ q = Gz(m)
      BY <2>1, <2>2 DEF ShiftOrigin
    <3>1. p.n = q.n => q = Gz(p)
      BY <2>3, <2>4, NameFields
    <3>2. CASE p.n >= k /\ m.n = p.n + 1 /\ Gz(p) \notin DOMAIN dir
      BY <2>1, <2>2, <2>3, <2>4, <3>1, <3>2 DEF ShiftOrigin
    <3>3. CASE p = m /\ p.n < k
      BY <2>1, <2>2, <2>3, <2>4, <3>3 DEF ShiftOrigin
    <3>4. CASE p = m /\ k = 1 /\ p.n = 1
      BY <2>1, <2>2, <2>3, <2>4, <3>4 DEF ShiftOrigin
    <3> QED
      BY <2>2, <2>4, <3>2, <3>3, <3>4 DEF ShiftOrigin
  <2> QED
    BY <2>2, <2>5
<1>7. ASSUME NEW m \in DOMAIN dir', NEW p \in DOMAIN dir', m.day = p.day, m.n > p.n,
             NEW q \in DOMAIN dir, NEW r \in DOMAIN dir,
             ShiftOrigin(d, k, m, q), ShiftOrigin(d, k, p, r)
      PROVE  q.day = r.day /\ (q.n > r.n \/ (~r.gz /\ q = Gz(r)))
  <2>1. /\ q \in Names /\ r \in Names /\ q.n \in Nat /\ r.n \in Nat /\ m.n \in Nat /\ p.n \in Nat
        /\ k \in Nat
    BY <1>1, <1>4, <1>7
  <2>2. q.day = r.day
    BY <1>7 DEF ShiftOrigin
  <2>3. CASE m.day # d
    BY <1>7, <2>2, <2>3 DEF ShiftOrigin
  <2>4. CASE m.day = d
    <3>1. CASE p.n = r.n + 1 /\ r.n >= k
      BY <1>7, <2>1, <2>2, <2>4, <3>1 DEF ShiftOrigin
    <3>2. CASE p = r /\ r.n < k
      BY <1>7, <2>1, <2>2, <2>4, <3>2 DEF ShiftOrigin
    <3>3. CASE p = r /\ k = 1 /\ r.n = 1 /\ ~r.gz /\ Gz(r) \in DOMAIN dir
      <4>1. m.n = q.n + 1 /\ q.n >= 1 /\ (q.gz \/ Gz(q) \notin DOMAIN dir)
        BY <1>7, <2>1, <2>4, <3>3 DEF ShiftOrigin
      <4>2. CASE q.n = 1
        <5>1. q # r
          BY <3>3, <4>1
        <5>2. Gz(r) \in Names /\ Gz(r).day = r.day /\ Gz(r).n = r.n /\ Gz(r).gz = TRUE
          BY <2>1, NameFields
        <5>3. q.gz = TRUE
          <6>1. q.gz \in BOOLEAN /\ r.gz \in BOOLEAN
            BY <2>1, NameFields
          <6>2. q.gz = FALSE => q = r
            BY <2>1, <2>2, <3>3, <4>2, <6>1, NameFields
          <6> QED
            BY <5>1, <6>1, <6>2
        <5>4. q = Gz(r)
          BY <2>1, <2>2, <3>3, <4>2, <5>2, <5>3, NameFields
        <5> QED
          BY <2>2, <3>3, <5>4
      <4> QED
        BY <2>1, <2>2, <3>3, <4>1, <4>2
    <3> QED
      BY <1>7, <2>4, <3>1, <3>2, <3>3 DEF ShiftOrigin
  <2> QED
    BY <2>3, <2>4
<1>8. OneName'
  <2>1. ASSUME NEW m \in DOMAIN dir' PROVE dir'[m].gz = m.gz
    <3>1. PICK q \in DOMAIN dir : ShiftOrigin(d, k, m, q)
      BY <1>3
    <3> QED
      BY <1>1, <3>1 DEF ShiftOrigin, Tree, OneName
  <2>2. ASSUME NEW m \in DOMAIN dir', NEW p \in DOMAIN dir', dir'[m] = dir'[p]
        PROVE  m = p
    <3>1. PICK q \in DOMAIN dir, r \in DOMAIN dir : ShiftOrigin(d, k, m, q) /\ ShiftOrigin(d, k, p, r)
      BY <1>3
    <3>2. q = r
      BY <1>1, <2>2, <3>1 DEF ShiftOrigin, Tree, OneName
    <3>3. m \in Names /\ p \in Names /\ q.n \in Nat /\ k \in Nat
      BY <1>1, <1>3, <1>4, <3>1
    <3>4. m.day = p.day /\ m.gz = p.gz /\ (m.day = d => m.n = p.n) /\ (m.day # d => m = p)
      BY <3>1, <3>2, <3>3 DEF ShiftOrigin
    <3> QED
      BY <3>3, <3>4, NameFields
  <2>3. ASSUME NEW m \in DOMAIN dir', NEW p \in DOMAIN dir', ~p.gz, dir'[m] = Zipped(dir'[p])
        PROVE  m = Gz(p) \/ Ahead(m, p)
    <3>1. PICK q \in DOMAIN dir, r \in DOMAIN dir : ShiftOrigin(d, k, m, q) /\ ShiftOrigin(d, k, p, r)
      BY <1>3
    <3>2. ~r.gz /\ dir[q] = Zipped(dir[r]) /\ m.gz = q.gz
      BY <2>3, <3>1 DEF ShiftOrigin
    <3>3. q = Gz(r) \/ Ahead(q, r)
      BY <1>1, <3>2 DEF Tree, OneName
    <3>4. /\ q \in Names /\ r \in Names /\ m \in Names /\ p \in Names /\ k \in Nat
          /\ q.n \in Nat /\ r.n \in Nat /\ m.n \in Nat /\ p.n \in Nat
          /\ Gz(r).n = r.n /\ Gz(r).gz = TRUE /\ Gz(r).day = r.day
      BY <1>1, <1>4, <3>1, NameFields
    <3>5. q.gz = TRUE /\ q.day = r.day /\ m.day = p.day /\ m.gz = TRUE
      BY <3>1, <3>2, <3>3, <3>4, NameFields DEF ShiftOrigin, Ahead
    <3>6. CASE p.day # d
      BY <3>1, <3>3, <3>5, <3>6 DEF ShiftOrigin
    <3>7. CASE p.day = d /\ q = Gz(r)
      <4>1. CASE r.n >= k /\ Gz(r) \notin DOMAIN dir
        BY <3>7, <4>1
      <4>2. CASE p = r /\ r.n < k
        BY <3>1, <3>4, <3>5, <3>7, <4>2 DEF ShiftOrigin
      <4>3. CASE p = r /\ k = 1 /\ r.n = 1
        <5>1. m.n = 2
          BY <3>1, <3>4, <3>5, <3>7, <4>3 DEF ShiftOrigin
        <5> QED
          BY <3>5, <4>3, <5>1 DEF Ahead
      <4> QED
        BY <3>1, <3>2, <3>7, <4>1, <4>2, <4>3 DEF ShiftOrigin
    <3>8. CASE p.day = d /\ Ahead(q, r)
      <4>1. q.n > r.n /\ r.n > 0
        BY <3>8 DEF Ahead
      <4>2. m.n > p.n /\ p.n > 0
        <5>1. m.n = q.n + 1 \/ (m.n = q.n /\ q.n < k)
          BY <3>1, <3>5, <3>8 DEF ShiftOrigin
        <5>2. (p.n = r.n + 1 /\ r.n >= k) \/ p.n = r.n
          BY <3>1, <3>8 DEF ShiftOrigin
        <5> QED
          BY <3>4, <4>1, <5>1, <5>2
      <4> QED
        BY <3>5, <4>2 DEF Ahead
    <3> QED
      BY <3>3, <3>6, <3>7, <3>8
  <2>4. ASSUME NEW m \in DOMAIN dir', ~m.gz, Gz(m) \in DOMAIN dir'
        PROVE  m.n <= 1 /\ dir'[Gz(m)] = Zipped(dir'[m])
    <3>1. ShiftOrigin(d, k, m, m) /\ ShiftOrigin(d, k, Gz(m), Gz(m))
      BY <1>6, <2>4
    <3> QED
      BY <1>1, <2>4, <3>1 DEF ShiftOrigin, Tree, OneName
  <2> QED
    BY <2>1, <2>2, <2>3, <2>4 DEF OneName
<1>9. Sorted'
  <2>1. ASSUME NEW m \in DOMAIN dir', NEW l \in In(m)' PROVE log[l] = m.day
    <3>1. PICK q \in DOMAIN dir : ShiftOrigin(d, k, m, q)
      BY <1>3
    <3>2. l \in In(q) /\ m.day = q.day
      BY <1>4, <2>1, <3>1 DEF ShiftOrigin
    <3> QED
      BY <1>1, <3>2 DEF Tree, Sorted
  <2>2. ASSUME NEW m \in DOMAIN dir', NEW p \in DOMAIN dir', m.day = p.day, m.n > p.n,
               dir'[m] # Zipped(dir'[p]), NEW i \in In(m)', NEW j \in In(p)'
        PROVE  i < j
    <3>1. PICK q \in DOMAIN dir, r \in DOMAIN dir : ShiftOrigin(d, k, m, q) /\ ShiftOrigin(d, k, p, r)
      BY <1>3
    <3>2. i \in In(q) /\ j \in In(r) /\ dir[q] # Zipped(dir[r])
      BY <1>4, <2>2, <3>1 DEF ShiftOrigin
    <3>3. q.day = r.day /\ (q.n > r.n \/ (~r.gz /\ q = Gz(r)))
      BY <1>7, <2>2, <3>1
    <3>4. q.n > r.n
      BY <1>1, <3>2, <3>3 DEF Tree, OneName
    <3> QED
      BY <1>1, <3>2, <3>3, <3>4 DEF Tree, Sorted
  <2>3. ASSUME NEW m \in DOMAIN dir', NEW p \in DOMAIN dir', ~p.gz, dir'[m] = Zipped(dir'[p])
        PROVE  In(m)' \subseteq In(p)'
    <3>1. PICK q \in DOMAIN dir, r \in DOMAIN dir : ShiftOrigin(d, k, m, q) /\ ShiftOrigin(d, k, p, r)
      BY <1>3
    <3>2. ~r.gz /\ dir[q] = Zipped(dir[r]) /\ In(m)' = In(q) /\ In(p)' = In(r)
      BY <1>4, <2>3, <3>1 DEF ShiftOrigin
    <3> QED
      BY <1>1, <3>2 DEF Tree, Sorted
  <2>4. \A m, p \in DOMAIN dir' : m.day = p.day /\ m.n > p.n =>
          dir'[m] = Zipped(dir'[p]) \/ \A i \in In(m)', j \in In(p)' : i < j
    BY <2>2
  <2> QED
    BY <1>1, <2>1, <2>3, <2>4 DEF Sorted
<1>10. Dated(w)'
  <2>1. ASSUME NEW m \in DOMAIN dir'
        PROVE  m.day <= date[w] /\ (m.gz /\ m.n = 0 => m.day < date[w])
    <3>1. PICK q \in DOMAIN dir : ShiftOrigin(d, k, m, q)
      BY <1>3
    <3>2. q.day <= date[w] /\ (q.gz /\ q.n = 0 => q.day < date[w])
      BY DEF RotationInv, Dated
    <3>3. CASE m.n = q.n + 1 /\ m.day = q.day
      <4>1. m.n # 0
        BY <1>4, <3>1, <3>3
      <4> QED
        BY <3>2, <3>3, <4>1
    <3>4. CASE m = q
      BY <3>2, <3>4
    <3> QED
      BY <3>1, <3>3, <3>4 DEF ShiftOrigin
  <2> QED
    BY <1>1, <2>1 DEF RotationInv, Dated
<1>11. \A q \in DOMAIN dir : Spare(q)
  BY <1>1 DEF RotationInv, Pairs
<1>12. Pairs(w)'
  <2> SUFFICES ASSUME NEW m \in DOMAIN dir', ~m.gz, Gz(m) \in DOMAIN dir'
      PROVE  In(m)' \subseteq In(Gz(m))' \cup torn'
    BY DEF Pairs, Spare
  <2>1. ShiftOrigin(d, k, m, m) /\ ShiftOrigin(d, k, Gz(m), Gz(m))
    BY <1>6
  <2>2. In(m)' = In(m) /\ In(Gz(m))' = In(Gz(m)) /\ m \in DOMAIN dir /\ Gz(m) \in DOMAIN dir
    BY <1>4, <2>1
  <2> QED
    BY <1>1, <1>11, <2>2 DEF Spare
<1>13. /\ \A l : l \in Kept <=> \E q \in DOMAIN dir : l \in In(q)
       /\ \A l : l \in Kept' <=> \E m \in DOMAIN dir' : l \in In(m)'
  <2>1. \A l : l \in Kept <=> \E q \in DOMAIN dir : l \in In(q)
    BY <1>1, InKept
  <2>2. \A l : l \in Kept' <=> \E m \in DOMAIN dir' : l \in In(m)'
    BY <1>5 DEF FilesTyped, Kept, LinesOf, In
  <2> QED
    BY <2>1, <2>2
<1>14. Alive(w)' = Kept' /\ Kept' \subseteq Kept
  <2>1. ASSUME NEW l \in Kept' PROVE l \in Kept
    <3>1. PICK m \in DOMAIN dir' : l \in In(m)'
      BY <1>13
    <3>2. PICK q \in DOMAIN dir : ShiftOrigin(d, k, m, q)
      BY <1>3
    <3>3. l \in In(q)
      BY <1>4, <3>1, <3>2
    <3> QED
      BY <1>13, <3>3
  <2> QED
    BY <1>1, <2>1 DEF Alive
<1>15. ASSUME NEW q \in DOMAIN dir, NEW l \in In(q), Shiftable(d, q)
       PROVE  l \in Kept'
  <2>1. PICK m \in DOMAIN dir' : dir'[m] = dir[q]
    BY <1>2, <1>15 DEF ShiftMap
  <2>2. l \in In(m)'
    BY <1>1, <1>15, <2>1 DEF In
  <2> QED
    BY <1>13, <2>2
<1>16. ASSUME NEW q \in DOMAIN dir, NEW l \in In(q), q.day = d, q.n = BackupCount, l \notin Kept'
       PROVE  l \in discarded' /\ \A i \in Kept' : log[i] = log[l] => l < i
  <2>1. q \in Last(d)
    <3>1. q \in Names /\ q.gz \in BOOLEAN
      BY <1>1, NameFields
    <3>2. q = Name(d, BackupCount, TRUE) \/ q = Name(d, BackupCount, FALSE)
      BY <1>16, <3>1 DEF Name, Names
    <3> QED
      BY <3>2 DEF Last
  <2>2. l \in discarded'
    BY <1>1, <1>16, <2>1 DEF LinesOf, In
  <2>3. ASSUME NEW i \in Kept', log[i] = log[l] PROVE l < i
    <3>1. PICK m \in DOMAIN dir' : i \in In(m)'
      BY <1>13
    <3>2. PICK r \in DOMAIN dir : ShiftOrigin(d, k, m, r)
      BY <1>3
    <3>3. i \in In(r) /\ In(r) = In(m)' /\ log[i] = r.day /\ log[l] = d
      BY <1>1, <1>4, <1>16, <3>1, <3>2 DEF Tree, Sorted
    <3>4. r.day = d /\ r.n < BackupCount /\ r.n \in Nat
      BY <1>4, <2>3, <3>2, <3>3 DEF ShiftOrigin
    <3>5. q.n > r.n /\ l \notin In(r)
      BY <1>13, <1>16, <3>3, <3>4
    <3> QED
      BY <1>1, <1>16, <3>3, <3>4, <3>5, OlderOrKept
  <2> QED
    BY <2>2, <2>3
<1>17. Accounted(w)'
  <2> SUFFICES ASSUME NEW l \in 1..Len(log), l \notin Kept' PROVE Excused(w, l)'
    BY <1>1 DEF Accounted
  <2>1. CASE l \notin Kept
    <3>1. Excused(w, l)
      BY <2>1 DEF RotationInv, Accounted
    <3>2. Alive(w)' \subseteq Alive(w)
      BY <1>14 DEF Alive
    <3> QED
      BY <1>1, <3>1, <3>2 DEF Excused
  <2>2. CASE l \in Kept
    <3>1. PICK q \in DOMAIN dir : l \in In(q)
      BY <1>13, <2>2
    <3>2. q \in Names /\ q.n \in 0..BackupCount
      BY <1>1, NameFields
    <3>3. CASE Shiftable(d, q)
      BY <1>15, <3>1, <3>3
    <3>4. CASE q.day = d /\ q.n = BackupCount
      <4>1. l \in discarded' /\ \A i \in Alive(w)' : log'[i] = log'[l] => l < i
        BY <1>1, <1>14, <1>16, <3>1, <3>4
      <4> QED
        BY <4>1 DEF Excused
    <3>5. CASE q.day = d /\ q.n < BackupCount /\ ~q.gz /\ Gz(q) \in DOMAIN dir
      <4>1. l \in In(Gz(q)) \/ l \in torn
        BY <1>11, <3>1, <3>5 DEF Spare
      <4>2. l \in In(Gz(q)) => l \in Kept'
        <5>1. Gz(q).day = d /\ Gz(q).n = q.n /\ Gz(q).gz = TRUE
          BY <3>2, <3>5, NameFields
        <5>2. Shiftable(d, Gz(q))
          BY <3>5, <5>1 DEF Shiftable
        <5> QED
          BY <1>15, <3>5, <5>2
      <4>3. l \in torn => Excused(w, l)'
        BY <1>1 DEF Excused
      <4> QED
        BY <4>1, <4>2, <4>3
    <3> QED
      BY <3>2, <3>3, <3>4, <3>5 DEF Shiftable
  <2> QED
    BY <2>1, <2>2
<1> QED
  BY <1>5, <1>8, <1>9, <1>10, <1>12, <1>17 DEF Tree

(* When the shift begins there is nothing to compress, and the file of the *)
(* day has its name and no compression.                                    *)
LEMMA ShiftBegins ==
  ASSUME NEW w \in Workers, RotationInv(w), NEW d, d = date[w],
         step[w] = "idle", jobs[w] = <<>>
  PROVE  /\ Tree /\ d \in Days /\ ~Busy(w) /\ found[w] = {}
         /\ Base(d) \in DOMAIN dir /\ Gz(Base(d)) \notin DOMAIN dir
<1>1. Tree /\ date[w] \in Days /\ DOMAIN dir \subseteq Names
  BY DEF RotationInv, WorkerTyped, Tree, FilesTyped
<1>2. ~Busy(w) /\ found[w] = {} /\ Base(date[w]) \in DOMAIN dir
  BY DEF RotationInv, OneJob, Active
<1>3. Base(d) \in Names /\ Base(d).day = d /\ Base(d).n = 0
  BY <1>1, NameFields
<1>4. Gz(Base(d)).day = d /\ Gz(Base(d)).n = 0 /\ Gz(Base(d)).gz = TRUE
  BY <1>3, NameFields
<1>5. Gz(Base(d)) \notin DOMAIN dir
  BY <1>1, <1>4 DEF RotationInv, Dated, Days
<1> QED
  BY <1>1, <1>2, <1>5

LEMMA ShiftStep ==
  ASSUME NEW w \in Workers, RotationInv(w), Shift(w)
  PROVE  RotationInv(w)'
<1> USE LogAssumption
<1>1. PICK d, first : d = date[w] /\ first = Name(d, 1, FALSE)
  OBVIOUS
<1>2. step[w] = "idle" /\ jobs[w] = <<>> /\ today = date[w]
  BY DEF Shift, Rollover, CompressionsDone
<1>3. /\ Tree /\ d \in Days /\ ~Busy(w) /\ found[w] = {} /\ DOMAIN dir \subseteq Names
      /\ Base(d) \in DOMAIN dir /\ Gz(Base(d)) \notin DOMAIN dir
  <2>1. /\ Tree /\ d \in Days /\ ~Busy(w) /\ found[w] = {}
        /\ Base(d) \in DOMAIN dir /\ Gz(Base(d)) \notin DOMAIN dir
    BY <1>1, <1>2, ShiftBegins
  <2> QED
    BY <2>1 DEF Tree, FilesTyped
<1>4. first \in Names /\ first.day = d /\ first.n = 1 /\ first.gz = FALSE
  BY <1>1, <1>3 DEF Name, Names
<1>5. /\ dir' = Shifted(d, 0) /\ jobs' = [jobs EXCEPT ![w] = Append(jobs[w], first)]
      /\ discarded' = discarded \cup LinesOf(Last(d))
      /\ record' = [record EXCEPT ![w] = TRUE] /\ step' = [step EXCEPT ![w] = "open"]
      /\ UNCHANGED <<today, cap, data, log, date, stream, doomed, found, gzip, torn>>
  BY <1>1, <1>3 DEF Shift, Rollover, Enter
<1>6. /\ jobs'[w] = <<first>> /\ record'[w] = TRUE /\ step'[w] = "open" /\ ~Busy(w)' /\ WorkerTyped'
  <2>1. Append(jobs[w], first) = <<first>> /\ <<first>> \in Seq(Names)
    BY <1>2, <1>4
  <2>2. jobs' = [jobs EXCEPT ![w] = <<first>>]
    BY <1>5, <2>1
  <2> QED
    BY <1>3, <1>5, <2>1, <2>2 DEF RotationInv, WorkerTyped, Busy
<1>7. Shifting(d, 0)
  BY <1>3, <1>5 DEF Shifting
<1>8. Tree' /\ Dated(w)' /\ Pairs(w)' /\ Accounted(w)'
  <2>1. Shifts(w, d, 0)
    BY <1>1, <1>3, <1>5, <1>6, <1>7 DEF Shifts
  <2> QED
    BY <2>1, ShiftedInv
<1>9. Active(w)'
  BY <1>3, <1>5, <1>6 DEF Active
<1>10. ASSUME NEW m \in DOMAIN dir'
       PROVE  \E q \in DOMAIN dir : ShiftOrigin(d, 0, m, q)
  BY <1>7, ShiftNames DEF ShiftMap
<1>11. ASSUME NEW m \in DOMAIN dir', NEW q \in DOMAIN dir, ShiftOrigin(d, 0, m, q)
       PROVE  m.day = d => m.n = q.n + 1
  <2>1. q.n \in Nat
    BY <1>3, NameFields
  <2> QED
    BY <1>11, <2>1 DEF ShiftOrigin
<1>12. Base(d) \in Names /\ Base(d).day = d /\ Base(d).n = 0 /\ Base(d).gz = FALSE
  BY <1>3, NameFields
<1>13. first \in DOMAIN dir' /\ dir'[first] = dir[Base(d)]
  <2>1. Shiftable(d, Base(d))
    BY <1>3, <1>12 DEF Shiftable
  <2>2. PICK m \in DOMAIN dir' : dir'[m] = dir[Base(d)]
    BY <1>3, <1>7, <2>1, ShiftNames DEF ShiftMap
  <2>3. PICK q \in DOMAIN dir : ShiftOrigin(d, 0, m, q)
    BY <1>10
  <2>4. q = Base(d)
    BY <1>3, <2>2, <2>3 DEF ShiftOrigin, Tree, OneName
  <2>5. m \in Names /\ m.day = d /\ m.gz = FALSE
    BY <1>8, <1>12, <2>3, <2>4 DEF ShiftOrigin, Tree, FilesTyped
  <2>6. m.n = 1
    BY <1>11, <1>12, <2>3, <2>4, <2>5
  <2>7. m = first
    BY <1>4, <2>5, <2>6, NameFields
  <2> QED
    BY <2>2, <2>7
<1>14. ASSUME NEW m \in DOMAIN dir' PROVE dir'[m] # Zipped(dir'[first])
  <2>1. PICK q \in DOMAIN dir : ShiftOrigin(d, 0, m, q)
    BY <1>10
  <2>2. dir[q] = Zipped(dir[Base(d)]) => q = Gz(Base(d)) \/ Ahead(q, Base(d))
    BY <1>3, <1>12 DEF Tree, OneName
  <2>3. ~Ahead(q, Base(d))
    BY <1>12 DEF Ahead
  <2> QED
    BY <1>3, <1>13, <2>1, <2>2, <2>3 DEF ShiftOrigin
<1>15. Gz(first) \notin DOMAIN dir'
  <2> SUFFICES ASSUME Gz(first) \in DOMAIN dir' PROVE FALSE
    OBVIOUS
  <2>1. dir'[Gz(first)] = Zipped(dir'[first])
    BY <1>4, <1>8, <1>13 DEF Tree, OneName
  <2> QED
    BY <1>14, <2>1
<1>16. OneJob(w)' /\ InGzip(w)'
  <2>1. first.day <= date'[w] /\ found'[w] = {}
    <3>1. date'[w] = d /\ found'[w] = {} /\ d \in Int
      BY <1>1, <1>3, <1>5 DEF Days
    <3> QED
      BY <1>4, <3>1
  <2>2. \A n \in Names : jobs'[w] = <<n>> => n = first
    BY <1>6
  <2>3. jobs'[w] # <<>> /\ \E n \in Names : jobs'[w] = <<n>>
    BY <1>4, <1>6
  <2>4. OneJob(w)'
    BY <1>4, <1>6, <1>14, <1>15, <2>1, <2>2, <2>3 DEF OneJob
  <2>5. InGzip(w)'
    BY <1>6 DEF InGzip
  <2> QED
    BY <2>4, <2>5
<1> QED
  BY <1>6, <1>8, <1>9, <1>16 DEF RotationInv

(* Killed after the first unlink, or after the moves from number k on.     *)
LEMMA ShiftCutStep ==
  ASSUME NEW w \in Workers, RotationInv(w), ShiftCut(w)
  PROVE  RotationInv(w)'
<1> USE LogAssumption
<1>1. PICK d : d = date[w]
  OBVIOUS
<1>2. step[w] = "idle" /\ jobs[w] = <<>> /\ today = date[w]
  BY DEF ShiftCut, Rollover, CompressionsDone
<1>3. /\ Tree /\ d \in Days /\ ~Busy(w) /\ found[w] = {} /\ DOMAIN dir \subseteq Names
      /\ Base(d) \in DOMAIN dir /\ Gz(Base(d)) \notin DOMAIN dir
  <2>1. /\ Tree /\ d \in Days /\ ~Busy(w) /\ found[w] = {}
        /\ Base(d) \in DOMAIN dir /\ Gz(Base(d)) \notin DOMAIN dir
    BY <1>1, <1>2, ShiftBegins
  <2> QED
    BY <2>1 DEF Tree, FilesTyped
<1>4. /\ record' = [record EXCEPT ![w] = TRUE] /\ step' = [step EXCEPT ![w] = "dead"]
      /\ UNCHANGED <<today, cap, data, log, date, stream, doomed, found, jobs, gzip, torn>>
  BY DEF ShiftCut, Rollover, Enter, thread
<1>5. step'[w] = "dead" /\ ~Busy(w)' /\ WorkerTyped'
  BY <1>3, <1>4 DEF RotationInv, WorkerTyped, Busy
<1>6. Active(w)' /\ OneJob(w)' /\ InGzip(w)'
  <2>1. Active(w)'
    BY <1>3, <1>4, <1>5 DEF Active
  <2>2. jobs'[w] = <<>> /\ \A n : <<>> # <<n>>
    BY <1>2, <1>4
  <2> QED
    BY <1>5, <2>1, <2>2 DEF OneJob, InGzip
<1>7. ASSUME NEW k \in 1..BackupCount, dir' = Shifted(d, k),
             discarded' = discarded \cup LinesOf(Last(d))
      PROVE  RotationInv(w)'
  <2>1. Shifts(w, d, k)
    BY <1>1, <1>3, <1>4, <1>5, <1>7 DEF Shifts, Shifting
  <2>2. Tree' /\ Dated(w)' /\ Pairs(w)' /\ Accounted(w)'
    BY <2>1, ShiftedInv
  <2> QED
    BY <1>5, <1>6, <2>2 DEF RotationInv
<1>8. ASSUME NEW z, z = Name(d, BackupCount, TRUE), dir' = Unbind(dir, {z}),
             discarded' = discarded \cup LinesOf({z})
      PROVE  RotationInv(w)'
  <2>1. Restricts
    BY <1>8 DEF Restricts, Unbind
  <2>2. z \in Names /\ z.day = d /\ z.n = BackupCount /\ z.gz = TRUE
    BY <1>3, <1>8 DEF Name, Names
  <2>3. Tree' /\ (\A n \in DOMAIN dir' : In(n)' = In(n))
    BY <1>3, <1>4, <2>1, RestrictTree
  <2>4. Alive(w)' = Kept' /\ \A l : l \in Kept' <=> \E m \in DOMAIN dir' : l \in In(m)'
    BY <1>5, <2>3 DEF Alive, Tree, FilesTyped, Kept, LinesOf, In
  <2>5. ASSUME z \in DOMAIN dir, NEW l \in In(z), l \notin Kept' PROVE Excused(w, l)'
    <3>1. l \in discarded'
      BY <1>8, <2>5 DEF LinesOf, In
    <3>2. ASSUME NEW i \in Kept', log[i] = log[l] PROVE l < i
      <4>1. PICK r \in DOMAIN dir' : i \in In(r)'
        BY <2>4
      <4>2. r \in DOMAIN dir /\ i \in In(r) /\ In(r)' = In(r) /\ r # z
        BY <1>8, <2>1, <2>3, <4>1 DEF Restricts, Unbind
      <4>3. r.day = d /\ r.n \in 0..BackupCount
        <5>1. log[i] = r.day /\ log[l] = z.day
          BY <1>3, <2>5, <4>2 DEF Tree, Sorted
        <5> QED
          BY <1>3, <2>2, <3>2, <4>2, <5>1, NameFields
      <4>4. l \notin In(r)
        BY <2>4, <2>5, <4>1, <4>2
      <4>5. z.n > r.n \/ (z.n = r.n /\ z.gz /\ z # r)
        BY <2>2, <4>2, <4>3
      <4> QED
        BY <1>3, <2>2, <2>5, <4>2, <4>3, <4>4, <4>5, OlderOrKept
    <3> QED
      BY <1>4, <2>4, <3>1, <3>2 DEF Excused
  <2>6. \A n \in DOMAIN dir \ DOMAIN dir' : n = z
    BY <1>8 DEF Unbind
  <2>7. today' >= today /\ doomed'[w] \subseteq doomed[w] /\ discarded \subseteq discarded'
    BY <1>2, <1>3, <1>4, <1>1, <1>8 DEF Days
  <2>8. \A n \in Names : jobs[w] # <<n>>
    BY <1>2
  <2>9. \A n \in DOMAIN dir \ DOMAIN dir' : \A l \in In(n) : l \in Kept' \/ Excused(w, l)'
    BY <2>5, <2>6
  <2> QED
    BY <1>4, <1>5, <1>6, <2>1, <2>7, <2>8, <2>9, RestrictInv
<1> QED
  BY <1>1, <1>7, <1>8 DEF ShiftCut

-------------------------------------------------------------------------------
(* Every step *)

LEMMA RotationInvStep ==
  ASSUME NEW w, Workers = {w}, RotationInv(w), [RotationNext]_rotationvars
  PROVE  RotationInv(w)'
<1>1. w \in Workers /\ \A v \in Workers : v = w
  OBVIOUS
<1>2. CASE Emit(w)
  BY <1>1, <1>2, EmitStep
<1>3. CASE NewDay(w)
  BY <1>1, <1>3, NewDayStep
<1>4. CASE Shift(w)
  BY <1>1, <1>4, ShiftStep
<1>5. CASE Expire(w)
  BY <1>1, <1>5, ExpireStep
<1>6. CASE Open(w)
  BY <1>1, <1>6, OpenStep
<1>7. CASE List(w)
  BY <1>1, <1>7, ListStep
<1>8. CASE Evict(w)
  BY <1>1, <1>8, EvictStep
<1>9. CASE Return(w)
  BY <1>1, <1>9, ReturnStep, ReturnWritesStep
<1>10. CASE GzipOpen(w)
  BY <1>1, <1>10, GzipOpenStep, GzipMissesStep
<1>11. CASE GzipCopy(w)
  <2>1. CASE /\ data' = Bind(data, gzip[w].dst, [lines |-> data[gzip[w].src].lines, mtime |-> Len(log)])
             /\ gzip' = [gzip EXCEPT ![w] = [gzip[w] EXCEPT !.at = "unlink"]]
             /\ UNCHANGED <<dir, jobs>>
    BY <1>1, <1>11, <2>1, GzipCopyStep DEF GzipCopy
  <2>2. CASE dir' = Unbind(dir, {Gz(Head(jobs[w]))}) /\ JobDone(w) /\ UNCHANGED data
    BY <1>1, <1>11, <2>2, GzipFailsStep DEF GzipCopy
  <2> QED
    BY <1>11, <2>1, <2>2 DEF GzipCopy
<1>12. CASE GzipUnlink(w)
  BY <1>1, <1>12, GzipUnlinkStep
<1>13. CASE Crash(w)
  BY <1>1, <1>13, CrashStep
<1>14. CASE Midnight \/ UNCHANGED rotationvars
  BY <1>1, <1>14, MidnightStep
<1>15. CASE ShiftCut(w)
  BY <1>1, <1>15, ShiftCutStep
<1> QED
  BY <1>1, <1>2, <1>3, <1>4, <1>5, <1>6, <1>7, <1>8, <1>9, <1>10, <1>11, <1>12, <1>13, <1>14, <1>15
  DEF RotationNext

(* DailySizeRotatingHandler of a process that has the log directory for    *)
(* itself: whatever its gzip thread does while it rotates and cleans up,   *)
(* wherever a crash falls, and for any size limit, backup count, retention *)
(* and size cap, a line that is in no file any more has passed the         *)
(* retention, or went with the size cap, or was among the oldest of its    *)
(* day when the backup count dropped it, or a crash cut its compression.   *)
THEOREM LinesRetained ==
  ASSUME NEW w, Workers = {w}
  PROVE  RotationSpec => []RetainedOrExpired
<1>1. RotationInit => RotationInv(w)
  <2>1. w \in Workers
    OBVIOUS
  <2> QED
    BY <2>1, RotationInvInit
<1>2. RotationInv(w) /\ [RotationNext]_rotationvars => RotationInv(w)'
  BY RotationInvStep
<1>3. RotationInv(w) => RetainedOrExpired
  <2> SUFFICES ASSUME RotationInv(w), NEW l \in Lost
      PROVE  \/ log[l] < today - Retention
             \/ l \in torn
             \/ l \in discarded /\ (cap = 0 => OldestOfItsDay(l))
    BY DEF RetainedOrExpired
  <2>1. Excused(w, l)
    BY DEF RotationInv, Accounted, Lost
  <2>2. Kept \subseteq Alive(w)
    BY DEF Alive
  <2> QED
    BY <2>1, <2>2 DEF Excused, OldestOfItsDay
<1> QED
  BY <1>1, <1>2, <1>3, PTL DEF RotationSpec
===============================================================================
