------------------------------ MODULE RoundTrips ------------------------------
(***************************************************************************)
(* How a request handler of the gateway talks to Redis.                    *)
(*                                                                         *)
(* A handler is a sequence of round trips; a round trip is one command, or *)
(* the commands of one pipeline.  Redis executes one command at a time and *)
(* everything between two commands, those of a pipeline(transaction=False) *)
(* included, is a point where other requests run.  pc[r] is the next       *)
(* command of request r.  A round trip can be lost at any point of it      *)
(* (socket_timeout, connection error); redis-py, which the gateway creates *)
(* with retry_on_timeout, then sends it again from its first command rt[r],*)
(* at most Retries times, and after that raises, which answers 500.        *)
(***************************************************************************)
EXTENDS RedisTtl

CONSTANTS Reqs,      \* the HTTP requests
          Retries    \* re-executions of a lost round trip by redis-py

ASSUME RetriesAssumption == Retries \in Nat

VARIABLES
  call,    \* call[r]: what r asks for
  pc,      \* pc[r]: the next Redis command of r, or where it stands
  rt,      \* rt[r]: first command of the round trip in flight
  tries,   \* tries[r]: re-executions of that round trip so far
  result,  \* result[r]: the last data reply r has got
  meta,    \* meta[r]: the last reply of TTL, meta.ttl of the response
  status   \* status[r]: the HTTP status; 0 before the response

reply == <<result, meta, status>>
control == <<call, pc, rt, tries>>

InitRequests(no_call, no_result) ==
  /\ call = [r \in Reqs |-> no_call]
  /\ pc = [r \in Reqs |-> "idle"]
  /\ rt = [r \in Reqs |-> "idle"]
  /\ tries = [r \in Reqs |-> 0]
  /\ result = [r \in Reqs |-> no_result]
  /\ meta = [r \in Reqs |-> NoTtl]
  /\ status = [r \in Reqs |-> 0]

(* r goes on inside its round trip. *)
Step(r, next_pc) ==
  /\ pc' = [pc EXCEPT ![r] = next_pc]
  /\ UNCHANGED <<rt, tries, call>>

(* r has its reply, if any, and starts a round trip with command c. *)
RoundTrip(r, c) ==
  /\ pc' = [pc EXCEPT ![r] = c]
  /\ rt' = [rt EXCEPT ![r] = c]
  /\ tries' = [tries EXCEPT ![r] = 0]

(* A data command has replied v. *)
Replied(r, v) ==
  /\ result' = [result EXCEPT ![r] = v]
  /\ UNCHANGED <<meta, status>>

(* The command TTL has replied t. *)
TtlReplied(r, t) ==
  /\ meta' = [meta EXCEPT ![r] = t]
  /\ UNCHANGED <<result, status>>

(* r is answered. *)
Respond(r, code, meta_ttl) ==
  /\ pc' = [pc EXCEPT ![r] = "done"]
  /\ status' = [status EXCEPT ![r] = code]
  /\ meta' = [meta EXCEPT ![r] = meta_ttl]
  /\ UNCHANGED <<rt, tries, call, result>>

(* An operator whose name ends in _Xxx is not part of a model: it is a     *)
(* mutation of the operator of that name, kept to show which property      *)
(* notices it.                                                             *)
Lost_Unbounded(r) ==
  /\ pc[r] \notin {"idle", "done"}
  /\ pc' = [pc EXCEPT ![r] = rt[r]]
  /\ UNCHANGED <<rt, tries, call, reply>>

Lost_OneMore(r) ==
  /\ pc[r] \notin {"idle", "done"} /\ tries[r] <= Retries
  /\ pc' = [pc EXCEPT ![r] = rt[r]]
  /\ tries' = [tries EXCEPT ![r] = @ + 1]
  /\ UNCHANGED <<rt, call, reply>>

(* The round trip of r is lost: sent again, or given up. *)
Lost(r) ==
  /\ pc[r] \notin {"idle", "done"}
  /\ \/ /\ tries[r] < Retries
        /\ pc' = [pc EXCEPT ![r] = rt[r]]
        /\ tries' = [tries EXCEPT ![r] = @ + 1]
        /\ UNCHANGED <<rt, call, reply>>
     \/ /\ tries[r] = Retries
        /\ Respond(r, 500, NoTtl)
===============================================================================
