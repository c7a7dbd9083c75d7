-------------------------------- MODULE Metrics --------------------------------
(***************************************************************************)
(* Request metrics: MetricsMiddleware of app/middleware.py starts a task   *)
(* per response, which counts the request in Redis (app/utils/metrics.py)  *)
(* for all workers.                                                        *)
(*                                                                         *)
(* The task is a pipeline of INCRs without a transaction; lost, it is sent *)
(* again from its first command, and given up it is forgotten.  "total"    *)
(* stands for redgw:metrics:total_requests and for the counters of status, *)
(* namespace and client that follow it in the pipeline; "low" and "inf"    *)
(* are the buckets of the latency histogram, "count" its latency_count.    *)
(***************************************************************************)
EXTENDS Integers, FiniteSets, Sequences

CONSTANTS Requests,     \* responses given by the workers
          Retries,      \* re-executions of a lost pipeline by redis-py
          MaxResets     \* bound on the times Redis loses the counters

ASSUME MetricsAssumption == Retries \in Nat /\ MaxResets \in Nat

VARIABLES
  counter,    \* redgw:metrics:* in Redis
  task,       \* task[r]: the next command of r's task
  latency,    \* latency[r]: "quick" is in bucket "low"; "none" is 0 ms
  tries,      \* tries[r]: re-executions so far
  lost,       \* pipelines lost so far
  epoch       \* how often Redis has lost the counters

metrics == <<counter, task, latency, tries, lost, epoch>>

Counters == {"total", "count", "low", "inf"}
Zero == [c \in Counters |-> 0]

MetricsInit ==
  /\ counter = Zero
  /\ task = [r \in Requests |-> "none"]
  /\ latency = [r \in Requests |-> "none"]
  /\ tries = [r \in Requests |-> 0]
  /\ lost = 0 /\ epoch = 0

(* MetricsMiddleware: the last part of the body is sent. *)
Response(r) ==
  /\ task[r] = "none"
  /\ task' = [task EXCEPT ![r] = "total"]
  /\ \E l \in {"none", "quick", "slow"} : latency' = [latency EXCEPT ![r] = l]
  /\ UNCHANGED <<counter, tries, lost, epoch>>

Buckets_FirstOnly(r) == IF latency[r] = "quick" THEN <<"low">> ELSE <<"inf">>
Buckets(r) == IF latency[r] = "quick" THEN <<"low", "inf">> ELSE <<"inf">>

(* record_request_async: the pipeline; a latency of 0 has no histogram. *)
Commands(r) == <<"total">> \o (IF latency[r] = "none" THEN <<>> ELSE <<"count">> \o Buckets(r))
NextCommand(r, c) ==
  LET i == CHOOSE i \in DOMAIN Commands(r) : Commands(r)[i] = c IN
  IF i < Len(Commands(r)) THEN Commands(r)[i + 1] ELSE "counted"

Incr(r) ==
  /\ task[r] \in Counters
  /\ counter' = [counter EXCEPT ![task[r]] = @ + 1]
  /\ task' = [task EXCEPT ![r] = NextCommand(r, @)]
  /\ UNCHANGED <<latency, tries, lost, epoch>>

(* Before or after any command; the last reply too, so "counted" is not    *)
(* the end until the task has seen it.                                     *)
PipelineLost(r) ==
  /\ task[r] \in Counters \cup {"counted"}
  /\ IF tries[r] < Retries
       THEN /\ task' = [task EXCEPT ![r] = "total"]
            /\ tries' = [tries EXCEPT ![r] = @ + 1]
       ELSE task' = [task EXCEPT ![r] = "given_up"] /\ UNCHANGED tries
  /\ lost' = lost + 1
  /\ UNCHANGED <<counter, latency, epoch>>

TaskDone(r) ==
  /\ task[r] = "counted"
  /\ task' = [task EXCEPT ![r] = "done"]
  /\ UNCHANGED <<counter, latency, tries, lost, epoch>>

(* Redis keeps nothing over a restart, and may evict the counters. *)
CountersLost ==
  /\ epoch < MaxResets
  /\ epoch' = epoch + 1
  /\ counter' = Zero
  /\ UNCHANGED <<task, latency, tries, lost>>

MetricsNext ==
  \/ \E r \in Requests : Response(r) \/ Incr(r) \/ PipelineLost(r) \/ TaskDone(r)
  \/ CountersLost
===============================================================================
