------------------------------ MODULE AuditTrail ------------------------------
(***************************************************************************)
(* The audit log of one worker: app/audit/middleware.py decides and builds *)
(* a line, app/audit/logger.py queues it, a QueueListener thread writes it *)
(* and the shutdown of app/main.py stops that thread.                      *)
(*                                                                         *)
(* Requests interleave at the awaits of the application and of the origin  *)
(* write; the listener runs in its own thread.  A line is its request and  *)
(* its event; its position is the order of the log calls.                  *)
(***************************************************************************)
EXTENDS Naturals, Sequences, FiniteSets

CONSTANTS Reqs,       \* HTTP requests
          Keys,       \* data keys they write
          Ops,        \* what requests do, a subset of AllOps
          QueueMax,   \* _QUEUE_MAXSIZE
          Correlate,  \* settings.audit.correlation
          NoReq

(* put: PUT/POST/DELETE on a data key.  pop: GET .../pop, which removes.   *)
(* get: any other GET.  publish: POST .../publish/...  admin: a GET below  *)
(* /api/v1/admin/.  health: a path of exclude_paths.                       *)
AllOps == {"put", "pop", "get", "publish", "admin", "health"}
Denials == {"auth_fail", "namespace_denied", "admin_required"}
Outcomes == {"ok", "error", "crash"} \cup Denials

ASSUME AuditAssumption ==
  /\ Ops \subseteq AllOps /\ QueueMax \in Nat /\ QueueMax >= 1
  /\ Correlate \in BOOLEAN
  /\ NoReq \notin Reqs

VARIABLES
  level,      \* settings.audit.level
  active,     \* _audit_logger is not None
  server,     \* "up", "joining" the listener, "closing", "exited"
  pc,         \* pc[r]: "idle", "app", "finally", "origin" or "done"
  op, key,    \* op[r], key[r]: what r does, and to which key
  outcome,    \* outcome[r]: how the application ended
  logged,     \* logged[r]: the events logged for r, in order
  queue,      \* _audit_queue: lines, and at last the sentinel
  listener,   \* the listener thread: "get", "write" or "stopped"
  inhand,     \* the line it writes
  file,       \* lines in the audit file
  count,      \* _event_count
  dropped,    \* _dropped_queue_full
  failed,     \* lines whose write raised (logging's handleError)
  wasFull,    \* the queue was full when the listener was told to stop
  origin      \* origin[k]: the request named by __redgw:audit:origin:k

request == <<pc, op, key, outcome, logged>>
sink == <<listener, inhand, file, failed>>
vars == <<level, active, server, request, queue, sink, count, dropped, wasFull, origin>>

Sentinel == [req |-> NoReq, event |-> "stop", n |-> 0]
NoLine == Sentinel

Init ==
  /\ level \in 0..2
  /\ active \in (IF level = 0 THEN {FALSE} ELSE BOOLEAN)
  /\ server = "up"
  /\ pc = [r \in Reqs |-> "idle"] /\ op = [r \in Reqs |-> "get"]
  /\ key \in [Reqs -> Keys] /\ outcome = [r \in Reqs |-> "ok"]
  /\ logged = [r \in Reqs |-> <<>>]
  /\ queue = <<>> /\ listener = "get" /\ inhand = NoLine /\ file = <<>>
  /\ count = 0 /\ dropped = 0 /\ failed = 0 /\ wasFull = FALSE
  /\ origin = [k \in Keys |-> NoReq]

-------------------------------------------------------------------------------
IsWrite(o) == o \in {"put", "publish"}    \* method in PUT, POST, DELETE

(* _decide_capture. *)
DecideCapture(o) ==
  \/ level = 2
  \/ level = 1 /\ (o = "admin" \/ (IsWrite(o) /\ o # "publish"))

(* A request reaches the middleware. *)
Arrive(r) ==
  /\ pc[r] = "idle" /\ server = "up"
  /\ pc' = [pc EXCEPT ![r] = "app"]
  /\ op' \in {[op EXCEPT ![r] = o] : o \in Ops}
  /\ UNCHANGED <<level, active, server, key, outcome, logged, queue, sink, count, dropped,
                 wasFull, origin>>

(* The application: the hooks of auth/ leave a pending event, a router     *)
(* answers, or an exception passes through, before or after its effect.    *)
App(r) ==
  /\ pc[r] = "app"
  /\ \E o \in Outcomes : outcome' = [outcome EXCEPT ![r] = o]
  /\ pc' = [pc EXCEPT ![r] = "finally"]
  /\ UNCHANGED <<level, active, server, op, key, logged, queue, sink, count, dropped, wasFull, origin>>

(* logger.info: put_nowait, counted as dropped when the queue is full, and *)
(* increment_event_count.                                                  *)
Log_DropOldest(r, event) ==
  LET line == [req |-> r, event |-> event, n |-> count] IN
  /\ queue' = IF Len(queue) < QueueMax THEN Append(queue, line) ELSE Append(Tail(queue), line)
  /\ count' = count + 1
  /\ logged' = [logged EXCEPT ![r] = Append(@, event)]
  /\ UNCHANGED dropped

Log(r, event) ==
  LET line == [req |-> r, event |-> event, n |-> count] IN
  /\ \/ Len(queue) < QueueMax /\ queue' = Append(queue, line) /\ UNCHANGED dropped
     \/ Len(queue) = QueueMax /\ dropped' = dropped + 1 /\ UNCHANGED queue
  /\ count' = count + 1
  /\ logged' = [logged EXCEPT ![r] = Append(@, event)]

NoLog == UNCHANGED <<queue, dropped, count, logged>>

(* The status the middleware has seen is below 400: of a success, and of   *)
(* an exception, whose 500 is produced outside, after it (status_code = 0).*)
StatusBelow400(r) == outcome[r] \in {"ok", "crash"}

(* The correlation key is written for data keys, after a success. *)
WritesOrigin(r) == Correlate /\ op[r] = "put" /\ StatusBelow400(r)

(* The finally block of a captured request. *)
Captured(r) == active /\ op[r] # "health" /\ DecideCapture(op[r])

FinishCaptured(r) ==
  /\ pc[r] = "finally" /\ Captured(r)
  /\ Log(r, IF outcome[r] \in Denials THEN outcome[r] ELSE "api_call")
  /\ pc' = [pc EXCEPT ![r] = IF WritesOrigin(r) THEN "origin" ELSE "done"]
  /\ UNCHANGED <<level, active, server, op, key, outcome, sink, wasFull, origin>>

(* _pass_with_header: a request that is not captured is recorded when it   *)
(* was denied, except on the excluded paths; without a logger, never.      *)
RecordPending_Never(r) == FALSE
RecordPending(r) == active /\ op[r] # "health" /\ outcome[r] \in Denials

FinishPassed(r) ==
  /\ pc[r] = "finally" /\ ~Captured(r)
  /\ IF RecordPending(r) THEN Log(r, outcome[r]) ELSE NoLog
  /\ pc' = [pc EXCEPT ![r] = "done"]
  /\ UNCHANGED <<level, active, server, op, key, outcome, sink, wasFull, origin>>

(* SET of the origin, awaited after the line is logged; an error is        *)
(* swallowed.                                                              *)
WriteOrigin(r) ==
  /\ pc[r] = "origin"
  /\ \/ origin' = [origin EXCEPT ![key[r]] = r]
     \/ UNCHANGED origin
  /\ pc' = [pc EXCEPT ![r] = "done"]
  /\ UNCHANGED <<level, active, server, op, key, outcome, logged, queue, sink, count, dropped,
                 wasFull>>

-------------------------------------------------------------------------------
(* The listener thread: dequeue; the sentinel stops it. *)
Dequeue ==
  /\ listener = "get" /\ server # "exited" /\ queue # <<>>
  /\ inhand' = Head(queue)
  /\ queue' = Tail(queue)
  /\ listener' = IF Head(queue) = Sentinel THEN "stopped" ELSE "write"
  /\ UNCHANGED <<level, active, server, request, file, failed, count, dropped, wasFull, origin>>

(* The file handler writes the line, or fails and drops it. *)
WriteLine ==
  /\ listener = "write" /\ server # "exited"
  /\ \/ file' = Append(file, inhand) /\ UNCHANGED failed
     \/ failed' = failed + 1 /\ UNCHANGED file
  /\ inhand' = NoLine
  /\ listener' = "get"
  /\ UNCHANGED <<level, active, server, request, queue, count, dropped, wasFull, origin>>

(* Shutdown, once the server has no request left: shutdown_audit_logger    *)
(* puts the sentinel and joins the thread; when the queue is full the put  *)
(* raises, which is swallowed.                                             *)
Quiet == \A r \in Reqs : pc[r] \in {"idle", "done"}

StopListener ==
  \/ /\ active /\ Len(queue) < QueueMax
     /\ queue' = Append(queue, Sentinel)
     /\ server' = "joining"
     /\ UNCHANGED wasFull
  \/ /\ active /\ Len(queue) = QueueMax
     /\ server' = "closing" /\ wasFull' = TRUE
     /\ UNCHANGED queue
  \/ /\ ~active
     /\ server' = "closing"
     /\ UNCHANGED <<queue, wasFull>>

Shutdown ==
  /\ server = "up" /\ Quiet
  /\ StopListener
  /\ active' = FALSE
  /\ UNCHANGED <<level, request, sink, count, dropped, origin>>

Joined_NoWait ==
  /\ server = "joining"
  /\ server' = "closing"
  /\ UNCHANGED <<level, active, request, queue, sink, count, dropped, wasFull, origin>>

Joined ==
  /\ server = "joining" /\ listener = "stopped"
  /\ server' = "closing"
  /\ UNCHANGED <<level, active, request, queue, sink, count, dropped, wasFull, origin>>

(* The process ends, and a daemon thread with it. *)
Exit ==
  /\ server = "closing"
  /\ server' = "exited"
  /\ UNCHANGED <<level, active, request, queue, sink, count, dropped, wasFull, origin>>

Request(r) == Arrive(r) \/ App(r) \/ FinishCaptured(r) \/ FinishPassed(r) \/ WriteOrigin(r)
Listener == Dequeue \/ WriteLine
Server == Shutdown \/ Joined \/ Exit

Next == (\E r \in Reqs : Request(r)) \/ Listener \/ Server

Spec == Init /\ [][Next]_vars

-------------------------------------------------------------------------------
(* Properties *)

Lines == [req: Reqs \cup {NoReq}, event: {"api_call", "stop"} \cup Denials, n: Nat]

(* Every variable stays in its type; the queue never exceeds its size. *)
TypeOK ==
  /\ level \in 0..2 /\ active \in BOOLEAN
  /\ server \in {"up", "joining", "closing", "exited"}
  /\ pc \in [Reqs -> {"idle", "app", "finally", "origin", "done"}]
  /\ op \in [Reqs -> AllOps] /\ key \in [Reqs -> Keys] /\ outcome \in [Reqs -> Outcomes]
  /\ queue \in Seq(Lines) /\ Len(queue) <= QueueMax
  /\ listener \in {"get", "write", "stopped"} /\ inhand \in Lines /\ file \in Seq(Lines)
  /\ count \in Nat /\ dropped \in Nat /\ failed \in Nat /\ wasFull \in BOOLEAN
  /\ origin \in [Keys -> Reqs \cup {NoReq}]

(* Lines queued and not yet taken by the listener: the queue without the   *)
(* sentinel, which is the last thing put into it.                          *)
Pending ==
  IF queue # <<>> /\ queue[Len(queue)] = Sentinel THEN SubSeq(queue, 1, Len(queue) - 1)
                                                   ELSE queue

(* Every line counted by increment_event_count is in the file, on its way  *)
(* there, or counted as dropped or as a failed write: none is lost without *)
(* trace while the process lives, and the file has them in the order they  *)
(* were logged, each once.                                                 *)
LinesConserved ==
  /\ count = Len(file) + failed + dropped + Len(Pending) + (IF listener = "write" THEN 1 ELSE 0)
  /\ \A i, j \in 1..Len(file) : i < j => file[i].n < file[j].n

(* A request leaves one line at most, and a refused one on a path that is  *)
(* not excluded leaves a line that names the refusal, whatever its method. *)
DenialsRecorded ==
  \A r \in Reqs :
    /\ Len(logged[r]) <= 1
    /\ pc[r] = "done" /\ outcome[r] \in Denials /\ op[r] # "health" /\ (level > 0 /\ active) =>
         logged[r] = <<outcome[r]>>

(* A shutdown that found room for the sentinel leaves no line unwritten,   *)
(* and its join cannot hang: the sentinel is behind the last line in the   *)
(* queue, or has been read.                                                *)
DrainedUnlessFull ==
  /\ server = "exited" /\ ~wasFull => Pending = <<>> /\ listener # "write"
  /\ server = "joining" =>
       listener = "stopped" \/ (queue # <<>> /\ queue[Len(queue)] = Sentinel)

(* The admin endpoint traces a key to an API call: whatever its writers'   *)
(* order, the origin recorded for a key names a call that may have changed *)
(* that key, and the audit log got a line for that call before.  It need   *)
(* not be the last change: the SET is a round trip after the response.     *)
OriginLogged ==
  \A k \in Keys : origin[k] # NoReq =>
    LET r == origin[k] IN
    key[r] = k /\ op[r] = "put" /\ outcome[r] \in {"ok", "crash"} /\ logged[r] = <<"api_call">>
===============================================================================
