----------------------------- MODULE WsSubscribe -----------------------------
(***************************************************************************)
(* app/routers/pubsub.py: the WebSocket subscription endpoint of one       *)
(* worker process, and the messages published to its channel.              *)
(*                                                                         *)
(* A step of a handler ends at an await; steps of different handlers       *)
(* interleave on the event loop.  _ws_lock is an asyncio.Lock: waiters are *)
(* served in order, and only a handler that rejects its client awaits      *)
(* while holding it.  The pump and the disconnect watcher are two tasks of *)
(* the handler.  A client whose handler has ended may come back.           *)
(***************************************************************************)
EXTENDS Naturals, Sequences, FiniteSets

CONSTANTS Clients,          \* WebSocket clients
          MaxConnections,   \* _MAX_WS_CONNECTIONS
          MaxPublished,     \* bound: messages published
          Nobody            \* holder of a free lock

ASSUME WsAssumption ==
  /\ IsFiniteSet(Clients) /\ Nobody \notin Clients
  /\ MaxConnections \in Nat /\ MaxConnections >= 1 /\ MaxPublished \in Nat

VARIABLES
  pc,        \* pc[c]: where the handler of c stands
  online,    \* online[c]: the client is still there
  count,     \* _ws_connection_count
  lock,      \* who holds _ws_lock
  waiters,   \* who waits for it, in order
  conn,      \* handlers with a subscribed Redis connection
  pump,      \* pump[c]: the pump task, "get", "send" or "failed"
  watch,     \* watch[c]: the watcher task, "wait" or "failed"
  inbox,     \* inbox[c]: messages on the Redis connection, the one in hand first
  sent,      \* sent[c]: messages sent to the client
  gap,       \* gap[c]: the Redis connection was re-established
  published  \* number of messages published so far

slots == <<count, lock, waiters>>
feed == <<pump, watch, inbox, sent, gap>>
vars == <<pc, online, slots, conn, feed, published>>

Init ==
  /\ pc = [c \in Clients |-> "end"] /\ online = [c \in Clients |-> FALSE]
  /\ count = 0 /\ lock = Nobody /\ waiters = <<>>
  /\ conn = {}
  /\ pump = [c \in Clients |-> "get"] /\ watch = [c \in Clients |-> "wait"]
  /\ inbox = [c \in Clients |-> <<>>] /\ sent = [c \in Clients |-> <<>>]
  /\ gap = [c \in Clients |-> FALSE]
  /\ published = 0

GoTo(c, l) == pc' = [pc EXCEPT ![c] = l]

(* async with _ws_lock: queue up, and go on when it is one's turn. *)
WaitForLock(c, l) == GoTo(c, l) /\ waiters' = Append(waiters, c)
Turn(c) == lock = Nobody /\ waiters # <<>> /\ Head(waiters) = c

-------------------------------------------------------------------------------
(* A client opens a WebSocket, or drops it, at any time. *)
Connect(c) ==
  /\ pc[c] = "end"
  /\ GoTo(c, "new")
  /\ online' = [online EXCEPT ![c] = TRUE]
  /\ pump' = [pump EXCEPT ![c] = "get"] /\ watch' = [watch EXCEPT ![c] = "wait"]
  /\ inbox' = [inbox EXCEPT ![c] = <<>>] /\ sent' = [sent EXCEPT ![c] = <<>>]
  /\ gap' = [gap EXCEPT ![c] = FALSE]
  /\ UNCHANGED <<slots, conn, published>>

Disconnect(c) ==
  /\ online[c]
  /\ online' = [online EXCEPT ![c] = FALSE]
  /\ UNCHANGED <<pc, slots, conn, feed, published>>

(* No valid key, no access to the namespace, an invalid name: closed. *)
Refuse(c) ==
  /\ pc[c] = "new"
  /\ GoTo(c, "end")
  /\ online' = [online EXCEPT ![c] = FALSE]
  /\ UNCHANGED <<slots, conn, feed, published>>

Ask(c) ==
  /\ pc[c] = "new"
  /\ WaitForLock(c, "enter")
  /\ UNCHANGED <<online, count, lock, conn, feed, published>>

(* Under the lock: a slot is free. *)
Free_OffByOne == count <= MaxConnections
Free == count < MaxConnections

Admit(c) ==
  /\ pc[c] = "enter" /\ Turn(c) /\ Free
  /\ count' = count + 1
  /\ waiters' = Tail(waiters)
  /\ GoTo(c, "accept")
  /\ UNCHANGED <<online, lock, conn, feed, published>>

(* None is: the lock is held across ws.close(4029) ... *)
Full(c) ==
  /\ pc[c] = "enter" /\ Turn(c) /\ ~Free
  /\ lock' = c
  /\ waiters' = Tail(waiters)
  /\ GoTo(c, "reject")
  /\ UNCHANGED <<online, count, conn, feed, published>>

(* ... and released when that returns or raises. *)
Rejected_KeepsLock(c) ==
  /\ pc[c] = "reject"
  /\ GoTo(c, "end")
  /\ online' = [online EXCEPT ![c] = FALSE]
  /\ UNCHANGED <<slots, conn, feed, published>>

Rejected(c) ==
  /\ pc[c] = "reject"
  /\ lock' = Nobody
  /\ GoTo(c, "end")
  /\ online' = [online EXCEPT ![c] = FALSE]
  /\ UNCHANGED <<count, waiters, conn, feed, published>>

(* ws.accept, which may raise: the finally block is next. *)
Accept(c) ==
  /\ pc[c] = "accept"
  /\ \/ GoTo(c, "subscribe") /\ UNCHANGED waiters
     \/ WaitForLock(c, "leave")
  /\ UNCHANGED <<online, count, lock, conn, feed, published>>

(* A Redis connection of its own and SUBSCRIBE, which may raise before or  *)
(* after the connection is open.                                           *)
Subscribe(c) ==
  /\ pc[c] = "subscribe"
  /\ \/ /\ conn' = conn \cup {c}
        /\ GoTo(c, "run") /\ UNCHANGED waiters
     \/ /\ conn' \in {conn, conn \cup {c}}
        /\ WaitForLock(c, "leave")
  /\ UNCHANGED <<online, count, lock, feed, published>>

(* publish_message: Redis hands the message to every subscribed connection.*)
Publish ==
  /\ published < MaxPublished
  /\ published' = published + 1
  /\ inbox' = [c \in Clients |-> IF c \in conn THEN Append(inbox[c], published + 1) ELSE inbox[c]]
  /\ UNCHANGED <<pc, online, slots, conn, pump, watch, sent, gap>>

(* _pump: get_message ... *)
GetMessage(c) ==
  /\ pc[c] = "run" /\ pump[c] = "get" /\ inbox[c] # <<>>
  /\ pump' = [pump EXCEPT ![c] = "send"]
  /\ UNCHANGED <<pc, online, slots, conn, watch, inbox, sent, gap, published>>

(* ... and send_json, which raises when the client is gone. *)
SendJson_Latest(c) ==
  /\ pc[c] = "run" /\ pump[c] = "send" /\ online[c]
  /\ sent' = [sent EXCEPT ![c] = Append(@, inbox[c][Len(inbox[c])])]
  /\ inbox' = [inbox EXCEPT ![c] = Tail(@)]
  /\ pump' = [pump EXCEPT ![c] = "get"]
  /\ UNCHANGED <<pc, online, slots, conn, watch, gap, published>>

SendJson(c) ==
  /\ pc[c] = "run" /\ pump[c] = "send"
  /\ \/ /\ online[c]
        /\ sent' = [sent EXCEPT ![c] = Append(@, Head(inbox[c]))]
        /\ inbox' = [inbox EXCEPT ![c] = Tail(@)]
        /\ pump' = [pump EXCEPT ![c] = "get"]
     \/ /\ ~online[c]
        /\ pump' = [pump EXCEPT ![c] = "failed"]
        /\ UNCHANGED <<sent, inbox>>
  /\ UNCHANGED <<pc, online, slots, conn, watch, gap, published>>

(* The Redis connection breaks under get_message: redis-py opens it again  *)
(* and subscribes again, without what was published meanwhile, or raises.  *)
RedisLost(c) ==
  /\ pc[c] = "run" /\ pump[c] = "get"
  /\ inbox' = [inbox EXCEPT ![c] = <<>>]
  /\ gap' = [gap EXCEPT ![c] = TRUE]
  /\ \/ UNCHANGED <<conn, pump>>
     \/ conn' = conn \ {c} /\ pump' = [pump EXCEPT ![c] = "failed"]
  /\ UNCHANGED <<pc, online, slots, watch, sent, published>>

(* _watch_disconnect: ws.receive returns websocket.disconnect. *)
WatchDisconnect_OnSend(c) ==
  /\ pc[c] = "run" /\ watch[c] = "wait" /\ ~online[c] /\ pump[c] = "send"
  /\ watch' = [watch EXCEPT ![c] = "failed"]
  /\ UNCHANGED <<pc, online, slots, conn, pump, inbox, sent, gap, published>>

WatchDisconnect(c) ==
  /\ pc[c] = "run" /\ watch[c] = "wait" /\ ~online[c]
  /\ watch' = [watch EXCEPT ![c] = "failed"]
  /\ UNCHANGED <<pc, online, slots, conn, pump, inbox, sent, gap, published>>

(* FIRST_COMPLETED: the other task is cancelled and gathered, the          *)
(* exception is raised again, and the finally block is next.               *)
Stop(c) ==
  /\ pc[c] = "run" /\ "failed" \in {pump[c], watch[c]}
  /\ WaitForLock(c, "leave")
  /\ UNCHANGED <<online, count, lock, conn, feed, published>>

(* finally: the slot is given back ... *)
Leave_Twice(c) ==
  /\ pc[c] = "leave" /\ Turn(c)
  /\ count' = IF online[c] THEN count - 1 ELSE count - 2
  /\ waiters' = Tail(waiters)
  /\ GoTo(c, "cleanup")
  /\ UNCHANGED <<online, lock, conn, feed, published>>

Leave(c) ==
  /\ pc[c] = "leave" /\ Turn(c)
  /\ count' = count - 1
  /\ waiters' = Tail(waiters)
  /\ GoTo(c, "cleanup")
  /\ UNCHANGED <<online, lock, conn, feed, published>>

(* ... then unsubscribe and pubsub.aclose, which may raise ... *)
Cleanup_NoFinally(c) ==
  /\ pc[c] = "cleanup"
  /\ \/ conn' = conn \ {c} /\ GoTo(c, "close") /\ UNCHANGED online
     \/ GoTo(c, "end") /\ online' = [online EXCEPT ![c] = FALSE] /\ UNCHANGED conn
  /\ UNCHANGED <<slots, feed, published>>

Cleanup(c) ==
  /\ pc[c] = "cleanup"
  /\ conn' \in {conn, conn \ {c}}
  /\ GoTo(c, "close")
  /\ UNCHANGED <<online, slots, feed, published>>

(* ... and sub_client.aclose in any case. *)
Close(c) ==
  /\ pc[c] = "close"
  /\ conn' = conn \ {c}
  /\ GoTo(c, "end")
  /\ online' = [online EXCEPT ![c] = FALSE]
  /\ UNCHANGED <<slots, feed, published>>

(* The steps of the handler outside its two tasks. *)
Handler(c) ==
  \/ Refuse(c) \/ Ask(c) \/ Admit(c) \/ Full(c) \/ Rejected(c) \/ Accept(c)
  \/ Subscribe(c) \/ Stop(c) \/ Leave(c) \/ Cleanup(c) \/ Close(c)

Next ==
  \/ \E c \in Clients :
       \/ Connect(c) \/ Disconnect(c) \/ Handler(c)
       \/ GetMessage(c) \/ SendJson(c) \/ RedisLost(c) \/ WatchDisconnect(c)
  \/ Publish

Spec == Init /\ [][Next]_vars

(* The event loop runs a handler and its watcher when they can go on.      *)
(* Nothing is assumed of clients, publishers and the pump, which a slow    *)
(* client may keep in send_json for ever.                                  *)
FairSpec == Spec /\ \A c \in Clients : WF_vars(Handler(c)) /\ WF_vars(WatchDisconnect(c))

-------------------------------------------------------------------------------
(* Properties *)

Stages == {"end", "new", "enter", "reject", "accept", "subscribe", "run", "leave", "cleanup", "close"}

(* Every variable stays in its type; the counter does not go below zero. *)
TypeOK ==
  /\ pc \in [Clients -> Stages] /\ online \in [Clients -> BOOLEAN]
  /\ count \in Nat /\ lock \in Clients \cup {Nobody} /\ waiters \in Seq(Clients)
  /\ conn \subseteq Clients
  /\ pump \in [Clients -> {"get", "send", "failed"}]
  /\ watch \in [Clients -> {"wait", "failed"}]
  /\ inbox \in [Clients -> Seq(1..MaxPublished)] /\ sent \in [Clients -> Seq(1..MaxPublished)]
  /\ gap \in [Clients -> BOOLEAN] /\ published \in 0..MaxPublished

(* The handlers that have taken a slot and not given it back. *)
Holders == {c \in Clients : pc[c] \in {"accept", "subscribe", "run", "leave"}}

(* _ws_connection_count is the number of handlers that hold a slot,        *)
(* whichever await of theirs raised, and never exceeds the limit.          *)
SlotsExact == count = Cardinality(Holders) /\ count <= MaxConnections

(* The counter under the lock implements the pool of slots. *)
Pool == INSTANCE SlotPool WITH holders <- Holders
PoolSpec == Pool!Spec

(* No Redis connection outlives its handler, and those without a slot are  *)
(* being closed.                                                           *)
NoLeak == \A c \in conn : c \in Holders \/ pc[c] \in {"cleanup", "close"}

(* A client gets what was published while it was subscribed in order and   *)
(* once, and all of it unless its Redis connection was re-established.     *)
InOrder ==
  \A c \in Clients :
    LET s == sent[c] \o inbox[c] IN
    \A i \in 1..Len(s) - 1 : s[i] < s[i + 1] /\ (~gap[c] => s[i + 1] = s[i] + 1)

(* A client that is gone is noticed on an idle channel too: its handler    *)
(* ends, and with it the slot and the Redis connection are free.           *)
NoZombie == \A c \in Clients : ~online[c] ~> (pc[c] \in {"end", "new"} /\ c \notin conn)

(* Whoever waits for _ws_lock gets it. *)
NoStarvation == \A c \in Clients : pc[c] = "enter" ~> pc[c] \in {"reject", "accept"}
===============================================================================
