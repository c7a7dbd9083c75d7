----------------------------- MODULE StatusMonitor -----------------------------
(***************************************************************************)
(* The status monitor of app/main.py: every worker wakes up once per       *)
(* Interval and tries to SET the leader key with NX and a TTL; the one     *)
(* that sets it writes the STATUS line.                                    *)
(*                                                                         *)
(* Time advances in Ticks.  Timers count down.  A round trip to Redis,     *)
(* given up after seconds (socket_timeout), takes no time against an       *)
(* interval of minutes: no Tick falls into one.                            *)
(***************************************************************************)
EXTENDS WorkerProcesses

CONSTANTS
  Interval,    \* _STATUS_INTERVAL, in Ticks
  Ttl          \* _STATUS_LEADER_TTL

ASSUME MonitorAssumption ==
  Interval \in Nat /\ Ttl \in Nat /\ 0 < Ttl /\ Ttl < Interval

VARIABLES
  monitor,   \* monitor[w]: "off", at its "set", at its "emit", or in its "wait"
  timer,     \* timer[w]: Ticks until w wakes up
  leaderKey, \* Ticks until the leader key expires; 0 when it does not exist
  apart,     \* Ticks since the last election, up to Ttl; Ttl once its key is lost
  silence    \* Ticks since the last STATUS line or good reason for none

monvars == <<monitor, timer, leaderKey, apart, silence>>

Longest == Interval + Ttl

MonitorInit ==
  /\ monitor = [w \in Workers |-> "off"]
  /\ timer = [w \in Workers |-> 0]
  /\ leaderKey = 0
  /\ apart = Ttl
  /\ silence = 0

(* A good reason for a missing line: Redis failed, or the elected worker   *)
(* stopped, or no worker is monitoring.                                    *)
Excuse == silence' = 0

(* wait_for(_monitor_shutdown.wait(), timeout=_STATUS_INTERVAL) *)
Sleep(w) ==
  /\ monitor' = [monitor EXCEPT ![w] = "wait"]
  /\ timer' = [timer EXCEPT ![w] = Interval]

MonitorStart(w) ==
  /\ monitor' = [monitor EXCEPT ![w] = "set"]
  /\ UNCHANGED <<timer, leaderKey, apart, silence>>

(* SET key pid NX EX Ttl *)
Elected_Always == TRUE
Elected == leaderKey = 0

(* _STATUS_LEADER_TTL = int(_STATUS_INTERVAL * 0.8) *)
LeaderTtl_TwoIntervals == 2 * Interval + 1
LeaderTtl == Ttl

TakeKey == leaderKey' = LeaderTtl /\ apart' = 0

Elect(w) ==
  /\ monitor[w] = "set"
  /\ \/ /\ Elected
        /\ TakeKey
        /\ monitor' = [monitor EXCEPT ![w] = "emit"]
        /\ UNCHANGED timer
     \/ ~Elected /\ Sleep(w) /\ UNCHANGED <<leaderKey, apart>>
  /\ UNCHANGED silence

(* The reply of a SET is lost and redis-py sends it again: it finds the    *)
(* key of its first attempt.  Or Redis cannot be reached: the exception is *)
(* swallowed.                                                              *)
ElectLost(w) ==
  /\ monitor[w] = "set"
  /\ (Elected /\ TakeKey) \/ UNCHANGED <<leaderKey, apart>>
  /\ Sleep(w) /\ Excuse

(* _emit_status_line *)
Emit(w) ==
  /\ monitor[w] = "emit"
  /\ silence' = 0
  /\ Sleep(w)
  /\ UNCHANGED <<leaderKey, apart>>

EmitFails(w) ==
  /\ monitor[w] = "emit"
  /\ Sleep(w) /\ Excuse
  /\ UNCHANGED <<leaderKey, apart>>

Wake(w) ==
  /\ monitor[w] = "wait" /\ timer[w] = 0
  /\ monitor' = [monitor EXCEPT ![w] = "set"]
  /\ UNCHANGED <<timer, leaderKey, apart, silence>>

(* The task of w ends. *)
Off(w) ==
  /\ monitor' = [monitor EXCEPT ![w] = "off"]
  /\ timer' = [timer EXCEPT ![w] = 0]
  /\ IF monitor[w] = "emit" \/ \A v \in Workers \ {w} : monitor[v] = "off"
       THEN Excuse ELSE UNCHANGED silence
  /\ UNCHANGED <<leaderKey, apart>>

MonitorStep(w) == Elect(w) \/ ElectLost(w) \/ Emit(w) \/ EmitFails(w) \/ Wake(w)

(* Redis evicts the key (allkeys-lru), or restarts and has no key left. *)
LeaderKeyLost ==
  /\ leaderKey > 0
  /\ leaderKey' = 0 /\ apart' = Ttl
  /\ UNCHANGED <<monitor, timer, silence>>

Down(n) == IF n = 0 THEN 0 ELSE n - 1
Up(n, limit) == IF n = limit THEN n ELSE n + 1

Tick ==
  /\ \A w \in Workers : monitor[w] \in {"off", "wait"} /\ (monitor[w] = "wait" => timer[w] > 0)
  /\ timer' = [w \in Workers |-> Down(timer[w])]
  /\ leaderKey' = Down(leaderKey)
  /\ apart' = Up(apart, Ttl)
  /\ silence' = IF \A w \in Workers : monitor[w] = "off" THEN 0 ELSE Up(silence, Longest + 1)
  /\ UNCHANGED monitor
===============================================================================
