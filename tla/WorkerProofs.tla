----------------------------- MODULE WorkerProofs -----------------------------
(***************************************************************************)
(* Proofs about what a worker does beside the handlers of requests: its    *)
(* lifespan with the startup lock and the status monitor (Lifespan), its   *)
(* audit log (AuditTrail), and the metrics that it counts and exports      *)
(* (MetricsCache).  They hold for every finite set of workers, any number  *)
(* of starts, every interval longer than the life of the leader key; for   *)
(* every set of requests and keys, every size of the queue and every audit *)
(* level; for any number of requests counted and of requests for /metrics, *)
(* and every pair of TTLs, the first shorter than the pause of Prometheus. *)
(***************************************************************************)
EXTENDS Lifespan, AuditTrail, MetricsCache, FiniteSetTheorems, SequenceTheorems, TLAPS

USE DEF NoFile

-------------------------------------------------------------------------------
(* The startup lock *)

(* Some file is not in use when the name stands for none: there is one     *)
(* file more than workers.                                                 *)
LEMMA SomeFileUnused ==
  ASSUME lockfile = NoFile, fd \in [Workers -> Files \cup {NoFile}]
  PROVE  Unused # {} /\ Unused \subseteq Files
<1> DEFINE Opened == {fd[w] : w \in Workers}
<1>1. IsFiniteSet(Opened) /\ Cardinality(Opened) <= Cardinality(Workers)
  <2>1. fd \in Surjection(Workers, Opened)
    BY DEF Surjection
  <2> QED
    BY <2>1, FS_Surjection, WorkersAssumption
<1>2. Cardinality(Workers) \in Nat /\ Cardinality(Opened) \in Nat
  BY <1>1, FS_CardinalityType, WorkersAssumption
<1>3. IsFiniteSet(Files) /\ Cardinality(Files) = Cardinality(Workers) + 1
  <2> DEFINE n == Cardinality(Workers) + 1
  <2>1. 1 \in Int /\ n \in Int /\ ~(1 > n) /\ n - 1 + 1 = n
    BY <1>2
  <2> HIDE DEF n
  <2>2. IsFiniteSet(1..n) /\ Cardinality(1..n) = n
    BY <2>1, FS_Interval
  <2> QED
    BY <2>2 DEF n, Files
<1>4. ~(Files \subseteq Opened)
  BY <1>1, <1>2, <1>3, FS_Subset
<1>5. NoFile \notin Files
  BY DEF Files
<1> QED
  BY <1>4, <1>5 DEF Unused

LockType ==
  /\ stage \in [Workers -> Stages]
  /\ lockfile \in Files \cup {NoFile}
  /\ fd \in [Workers -> Files \cup {NoFile}]
  /\ flocked \in [Workers -> BOOLEAN]
  /\ overlap \in BOOLEAN

(* Who has the lock file open: a worker between open and flock, and one    *)
(* that holds the flock.                                                   *)
OpenFiles ==
  \A w \in Workers :
    /\ stage[w] \in {"down", "open", "unlink", "disconnect"} => fd[w] = NoFile
    /\ stage[w] = "flock" => fd[w] # NoFile /\ ~flocked[w]
    /\ stage[w] # "flock" => (fd[w] # NoFile <=> flocked[w])

(* Without overlap the flock is of the file under the name, one worker has *)
(* it, and none while another has unlocked and not yet unlinked.           *)
LockHeld ==
  ~overlap =>
    \A w \in Workers : flocked[w] =>
      /\ fd[w] = lockfile
      /\ \A v \in Workers : (flocked[v] => v = w) /\ stage[v] # "unlink"

LockInv == LockType /\ OpenFiles /\ LockHeld

LEMMA LockInvInit == LifespanInit => LockInv
BY DEF LifespanInit, ProcessInit, LockInit, LockInv, LockType, OpenFiles, LockHeld, Stages

LEMMA LockInvStep == LockInv /\ [LifespanNext]_lifespanvars => LockInv'
<1> SUFFICES ASSUME LockInv, [LifespanNext]_lifespanvars PROVE LockInv'
  OBVIOUS
<1> USE DEF LockInv, LockType, OpenFiles, LockHeld, Stages, Goto
<1>1. ASSUME UNCHANGED <<processes, lockvars>> PROVE LockInv'
  BY <1>1 DEF processes, lockvars
<1>2. ASSUME NEW w \in Workers, Start(w) PROVE LockInv'
  BY <1>2 DEF Start, StartProcess, lockvars
<1>3. ASSUME NEW w \in Workers, Open(w) PROVE LockInv'
  <2>1. CASE OpenLock(w) /\ Goto(w, "flock")
    <3>1. lockfile' \in Files /\ fd' = [fd EXCEPT ![w] = lockfile']
          /\ (lockfile # NoFile => lockfile' = lockfile)
          /\ UNCHANGED <<flocked, overlap>>
      <4>1. CASE lockfile # NoFile
        BY <2>1, <4>1 DEF OpenLock
      <4>2. CASE lockfile = NoFile
        <5>1. (CHOOSE f \in Unused : TRUE) \in Files
          BY <4>2, SomeFileUnused
        <5> QED
          BY <2>1, <4>2, <5>1 DEF OpenLock
      <4> QED
        BY <4>1, <4>2
    <3>2. NoFile \notin Files
      BY DEF Files
    <3>3. stage[w] = "open" /\ ~flocked[w]
      BY <1>3 DEF Open
    <3>4. LockType' /\ OpenFiles'
      BY <2>1, <3>1, <3>2, <3>3
    <3>5. LockHeld'
      BY <2>1, <3>1, <3>2, <3>3
    <3> QED
      BY <3>4, <3>5
  <2>2. CASE FlockFails(w) /\ Goto(w, "connect")
    BY <1>3, <2>2 DEF FlockFails, Open
  <2> QED
    BY <1>3, <2>1, <2>2 DEF Open
<1>4. ASSUME NEW w \in Workers, AcquireStartupLock(w) PROVE LockInv'
  <2>1. CASE Flock(w, {v \in Workers : stage[v] = "unlink"})
    BY <1>4, <2>1 DEF AcquireStartupLock, Flock, FlockOk
  <2>2. CASE FlockFails(w)
    BY <1>4, <2>2 DEF AcquireStartupLock, FlockFails
  <2> QED
    BY <1>4, <2>1, <2>2 DEF AcquireStartupLock
<1>5. ASSUME NEW w \in Workers, Connect(w) \/ Stop(w) \/ Disconnect(w) PROVE LockInv'
  BY <1>5 DEF Connect, Stop, Disconnect, lockvars
<1>6. ASSUME NEW w \in Workers, Unlocks(w) PROVE LockInv'
  BY <1>6 DEF Unlocks, Releases, Unlock, lockvars
<1>7. ASSUME NEW w \in Workers, Unlinks(w) PROVE LockInv'
  BY <1>7 DEF Unlinks, Unlink
<1>8. ASSUME NEW w \in Workers, Crash(w) PROVE LockInv'
  BY <1>8 DEF Crash, ProcessGone
<1>9. ASSUME NEW w \in Workers, EndMonitor(w) \/ Monitor(w) PROVE LockInv'
  BY <1>1, <1>9 DEF EndMonitor, Monitor
<1> QED
  BY <1>1, <1>2, <1>3, <1>4, <1>5, <1>6, <1>7, <1>8, <1>9
  DEF LifespanNext, Step, Environment, lifespanvars

(* acquire_startup_lock and release_startup_lock: two workers log the      *)
(* startup only after an open and flock that overlapped another worker's   *)
(* unlock and unlink, whatever the workers do and however often they crash.*)
THEOREM OneStartupLogger == LifespanSpec => []OneUnlessOverlap
<1>1. LockInv => OneUnlessOverlap
  <2> SUFFICES ASSUME LockInv, ~overlap PROVE Cardinality(Loggers) <= 1
    BY DEF OneUnlessOverlap
  <2>1. CASE Loggers = {}
    BY <2>1, FS_EmptySet
  <2>2. CASE Loggers # {}
    <3>1. PICK w \in Workers : Loggers = {w}
      BY <2>2 DEF Loggers, LockInv, LockHeld
    <3> QED
      BY <3>1, FS_Singleton
  <2> QED
    BY <2>1, <2>2
<1> QED
  BY LockInvInit, LockInvStep, <1>1, PTL DEF LifespanSpec

-------------------------------------------------------------------------------
(* The status monitor *)

MonitorType ==
  /\ monitor \in [Workers -> {"off", "set", "emit", "wait"}]
  /\ timer \in [Workers -> 0..Interval]
  /\ leaderKey \in 0..Ttl /\ apart \in 0..Ttl
  /\ silence \in 0..Longest

(* The leader key lives Ttl from its election, unless it is lost. *)
KeySinceElection == leaderKey + apart >= Ttl

Emitting == \E w \in Workers : monitor[w] = "emit"

(* While nobody is about to write the line of an election:                 *)
(* - silence is no longer than the leader key, if there is one, has lived; *)
(* - a worker that waits was elected, was excused, or found that key when  *)
(*   it went to sleep, so silence exceeds its sleep by Ttl at most.        *)
SilenceBounded ==
  ~Emitting =>
    /\ leaderKey > 0 => silence <= Ttl - leaderKey
    /\ \A w \in Workers : monitor[w] = "wait" => silence <= Interval - timer[w] + Ttl

MonitorInv == MonitorType /\ KeySinceElection /\ SilenceBounded

(* A worker monitors only between its connect and the end of its join. *)
Monitored ==
  /\ stage \in [Workers -> Stages]
  /\ monitor \in [Workers -> {"off", "set", "emit", "wait"}]
  /\ \A w \in Workers : stage[w] \notin {"serve", "join"} => monitor[w] = "off"

LEMMA MonitoredInit == LifespanInit => Monitored
BY DEF LifespanInit, ProcessInit, MonitorInit, Monitored, Stages

LEMMA MonitoredStep == Monitored /\ [LifespanNext]_lifespanvars => Monitored'
<1> SUFFICES ASSUME Monitored, [LifespanNext]_lifespanvars PROVE Monitored'
  OBVIOUS
<1> USE DEF Monitored, Stages, Goto, monvars
<1>1. ASSUME UNCHANGED lifespanvars \/ Environment PROVE Monitored'
  BY <1>1 DEF lifespanvars, processes, Environment, Tick, LeaderKeyLost
<1>2. ASSUME NEW w \in Workers, Start(w) \/ Open(w) \/ AcquireStartupLock(w) \/ Connect(w) \/ Stop(w)
      PROVE  Monitored'
  BY <1>2 DEF Start, StartProcess, Open, AcquireStartupLock, Connect, MonitorStart, Stop
<1>3. ASSUME NEW w \in Workers, EndMonitor(w) \/ Unlocks(w) \/ Unlinks(w) \/ Disconnect(w) \/ Crash(w)
      PROVE  Monitored'
  BY <1>3 DEF EndMonitor, Off, processes, Unlocks, Unlinks, Disconnect, Crash
<1>4. ASSUME NEW w \in Workers, Monitor(w) PROVE Monitored'
  BY <1>4 DEF Monitor, MonitorStep, Elect, ElectLost, Emit, EmitFails, Wake, Sleep, processes
<1> QED
  BY <1>1, <1>2, <1>3, <1>4 DEF LifespanNext, Step

LEMMA MonitorInvInit == LifespanInit => MonitorInv
BY MonitorAssumption
DEF LifespanInit, MonitorInit, MonitorInv, MonitorType, KeySinceElection, SilenceBounded, Longest

(* Steps that end in an excuse or a line leave no silence to bound. *)
LEMMA SilenceBroken ==
  ASSUME MonitorType', silence' = 0
  PROVE  SilenceBounded'
<1>1. leaderKey' > 0 => silence' <= Ttl - leaderKey'
  <2>1. leaderKey' \in Int /\ Ttl \in Int /\ leaderKey' <= Ttl
    BY MonitorAssumption DEF MonitorType
  <2>2. \A i, t \in Int : i <= t => 0 <= t - i
    OBVIOUS
  <2> QED
    BY <2>1, <2>2
<1>2. ASSUME NEW w \in Workers PROVE silence' <= Interval - timer'[w] + Ttl
  <2>1. timer'[w] \in 0..Interval
    BY DEF MonitorType
  <2> QED
    BY <2>1, MonitorAssumption
<1> QED
  BY <1>1, <1>2 DEF SilenceBounded

LEMMA MonitorStepInv ==
  ASSUME MonitorInv, NEW w \in Workers, MonitorStep(w)
  PROVE  MonitorInv'
<1> USE MonitorAssumption DEF MonitorInv, MonitorType, KeySinceElection, Longest
<1>1. ASSUME Elect(w) PROVE MonitorInv'
  <2>1. CASE Elected /\ TakeKey
    <3>1. /\ monitor' = [monitor EXCEPT ![w] = "emit"]
          /\ UNCHANGED <<timer, silence>>
          /\ leaderKey' = Ttl /\ apart' = 0
      BY <1>1, <2>1 DEF Elect, Elected, TakeKey, LeaderTtl
    <3>2. Emitting'
      BY <3>1 DEF Emitting
    <3> QED
      BY <3>1, <3>2 DEF SilenceBounded
  <2>2. CASE ~Elected
    <3>1. /\ monitor' = [monitor EXCEPT ![w] = "wait"]
          /\ timer' = [timer EXCEPT ![w] = Interval]
          /\ UNCHANGED <<leaderKey, apart, silence>> /\ leaderKey > 0
      BY <1>1, <2>2 DEF Elect, Elected, Sleep
    <3>2. Emitting' <=> Emitting
      BY <1>1, <3>1 DEF Elect, Emitting
    <3> QED
      BY <3>1, <3>2 DEF SilenceBounded
  <2> QED
    BY <1>1, <2>1, <2>2 DEF Elect
<1>2. ASSUME ElectLost(w) \/ Emit(w) \/ EmitFails(w) PROVE MonitorInv'
  <2>1. MonitorType' /\ KeySinceElection' /\ silence' = 0
    BY <1>2 DEF ElectLost, Emit, EmitFails, Elected, TakeKey, LeaderTtl, Sleep, Excuse
  <2> QED
    BY <2>1, SilenceBroken
<1>3. ASSUME Wake(w) PROVE MonitorInv'
  <2>1. Emitting' <=> Emitting
    BY <1>3 DEF Wake, Emitting
  <2> QED
    BY <1>3, <2>1 DEF Wake, SilenceBounded
<1> QED
  BY <1>1, <1>2, <1>3 DEF MonitorStep

LEMMA TickInv ==
  ASSUME MonitorInv, Tick
  PROVE  MonitorInv'
<1> USE MonitorAssumption DEF MonitorInv, MonitorType, Longest
<1>1. ~Emitting /\ ~Emitting'
  BY DEF Tick, Emitting
<1>2. /\ monitor' = monitor
      /\ \A v \in Workers : timer'[v] = (IF timer[v] = 0 THEN 0 ELSE timer[v] - 1)
      /\ leaderKey' = (IF leaderKey = 0 THEN 0 ELSE leaderKey - 1)
      /\ apart' = (IF apart = Ttl THEN apart ELSE apart + 1)
  BY DEF Tick, Down, Up
<1>3. /\ timer' \in [Workers -> 0..Interval]
      /\ leaderKey' \in 0..Ttl /\ apart' \in 0..Ttl /\ leaderKey' + apart' >= Ttl
  <2>1. timer' \in [Workers -> 0..Interval]
    BY DEF Tick, Down
  <2> QED
    BY <1>2, <2>1 DEF KeySinceElection
<1>4. CASE \A v \in Workers : monitor[v] = "off"
  <2>1. silence' = 0
    BY <1>4 DEF Tick
  <2> QED
    BY <1>2, <1>3, <2>1, SilenceBroken DEF KeySinceElection
<1>5. CASE ~(\A v \in Workers : monitor[v] = "off")
  <2>1. silence' = (IF silence = Interval + Ttl + 1 THEN silence ELSE silence + 1)
    BY <1>5 DEF Tick, Up
  <2>2. silence' = silence + 1
    BY <2>1
  <2>3. PICK v \in Workers : monitor[v] = "wait" /\ timer[v] > 0
    BY <1>5 DEF Tick
  <2>4. silence' <= Interval + Ttl
    BY <1>1, <2>2, <2>3 DEF SilenceBounded
  <2>5. SilenceBounded'
    <3>1. leaderKey' > 0 => silence' <= Ttl - leaderKey'
      BY <1>1, <1>2, <2>2 DEF SilenceBounded
    <3>2. ASSUME NEW u \in Workers, monitor'[u] = "wait"
          PROVE  silence' <= Interval - timer'[u] + Ttl
      <4>1. monitor[u] = "wait" /\ timer[u] > 0
        BY <1>2, <3>2 DEF Tick
      <4> QED
        BY <1>1, <1>2, <2>2, <4>1 DEF SilenceBounded
    <3> QED
      BY <3>1, <3>2 DEF SilenceBounded
  <2> QED
    BY <1>2, <1>3, <2>2, <2>4, <2>5 DEF KeySinceElection
<1> QED
  BY <1>4, <1>5

LEMMA OffInv ==
  ASSUME MonitorInv, NEW w \in Workers, Off(w)
  PROVE  MonitorInv'
<1> USE MonitorAssumption DEF MonitorInv, MonitorType, KeySinceElection, Longest
<1>1. MonitorType' /\ KeySinceElection'
  BY DEF Off, Excuse
<1>2. CASE silence' = 0
  BY <1>1, <1>2, SilenceBroken
<1>3. CASE silence' # 0
  <2>1. monitor[w] # "emit" /\ silence' = silence
    BY <1>3 DEF Off, Excuse
  <2>2. Emitting' <=> Emitting
    BY <2>1 DEF Off, Emitting
  <2> QED
    BY <1>1, <2>1, <2>2 DEF Off, SilenceBounded
<1> QED
  BY <1>2, <1>3

LEMMA MonitorInvStep == Monitored /\ MonitorInv /\ [LifespanNext]_lifespanvars => MonitorInv'
<1> SUFFICES ASSUME Monitored, MonitorInv, [LifespanNext]_lifespanvars PROVE MonitorInv'
  OBVIOUS
<1>1. ASSUME UNCHANGED monvars PROVE MonitorInv'
  BY <1>1 DEF monvars, MonitorInv, MonitorType, KeySinceElection, SilenceBounded, Emitting
<1>2. ASSUME NEW w \in Workers, Connect(w), MonitorStart(w) PROVE MonitorInv'
  <2>1. monitor[w] = "off"
    BY <1>2 DEF Connect, Monitored
  <2>2. Emitting' <=> Emitting
    BY <1>2, <2>1 DEF MonitorStart, Emitting, MonitorInv, MonitorType
  <2> QED
    BY <1>2, <2>2 DEF MonitorStart, MonitorInv, MonitorType, KeySinceElection, SilenceBounded
<1>3. ASSUME LeaderKeyLost PROVE MonitorInv'
  BY <1>3, MonitorAssumption
  DEF LeaderKeyLost, MonitorInv, MonitorType, KeySinceElection, SilenceBounded, Emitting
<1>4. ASSUME NEW w \in Workers, Start(w) \/ Open(w) \/ AcquireStartupLock(w) \/ Stop(w)
                                \/ Unlocks(w) \/ Unlinks(w) \/ Disconnect(w)
      PROVE  UNCHANGED monvars
  BY <1>4 DEF Start, Open, AcquireStartupLock, Stop, Unlocks, Unlinks, Disconnect, monvars
<1>5. ASSUME NEW w \in Workers, Connect(w), ~MonitorStart(w) PROVE UNCHANGED monvars
  BY <1>5 DEF Connect
<1>6. ASSUME NEW w \in Workers, EndMonitor(w) \/ Crash(w) PROVE MonitorInv'
  BY <1>6, OffInv DEF EndMonitor, Crash
<1>7. ASSUME NEW w \in Workers, Monitor(w) PROVE MonitorInv'
  BY <1>7, MonitorStepInv DEF Monitor
<1>8. ASSUME Tick PROVE MonitorInv'
  BY <1>8, TickInv
<1> QED
  BY <1>1, <1>2, <1>3, <1>4, <1>5, <1>6, <1>7, <1>8
  DEF LifespanNext, Step, Environment, lifespanvars

(* _status_monitor_loop: the leader key outlives every wait for it, so     *)
(* whichever workers are elected, two elections are Ttl apart.             *)
THEOREM ElectionsKeepApart == LifespanSpec => ElectionsApart
<1>1. MonitorInv =>
        [\A w \in Workers : Elect(w) /\ monitor'[w] = "emit" => apart = Ttl]_lifespanvars
  <2> SUFFICES ASSUME MonitorInv, NEW w \in Workers, Elect(w), monitor'[w] = "emit"
               PROVE  apart = Ttl
    OBVIOUS
  <2>1. leaderKey = 0
    BY DEF Elect, Elected, Sleep, MonitorInv, MonitorType
  <2> QED
    BY <2>1, MonitorAssumption DEF MonitorInv, MonitorType, KeySinceElection
<1> QED
  BY MonitoredInit, MonitoredStep, MonitorInvInit, MonitorInvStep, <1>1, PTL
  DEF LifespanSpec, ElectionsApart

(* No gap between two STATUS lines is longer than an interval and the life *)
(* of the leader key, while some worker monitors and Redis answers.        *)
THEOREM SilenceEnds == LifespanSpec => []NoSilence
<1>1. MonitorInv => NoSilence
  BY MonitorAssumption DEF MonitorInv, MonitorType, NoSilence, Longest
<1> QED
  BY MonitoredInit, MonitoredStep, MonitorInvInit, MonitorInvStep, <1>1, PTL DEF LifespanSpec

(* lifespan(): every variable stays in its type, an flock is held of an    *)
(* open file only, and a worker that is down has none.                     *)
THEOREM LifespanTypeCorrect == LifespanSpec => []LifespanTypeOK
<1> DEFINE Starts == starts \in 0..MaxStarts
<1>1. LifespanInit => Starts
  BY WorkersAssumption DEF LifespanInit, ProcessInit
<1>2. Starts /\ [LifespanNext]_lifespanvars => Starts'
  <2> SUFFICES ASSUME Starts, [LifespanNext]_lifespanvars PROVE Starts'
    OBVIOUS
  <2>1. ASSUME NEW w \in Workers, Start(w) PROVE Starts'
    BY <2>1, WorkersAssumption DEF Start, StartProcess
  <2>2. ASSUME NEW w \in Workers, Step(w) \/ Monitor(w) \/ Stop(w) \/ Crash(w) PROVE starts' = starts
    BY <2>2
    DEF Step, Open, AcquireStartupLock, Connect, EndMonitor, Unlocks, Unlinks, Disconnect, Monitor,
        Stop, Crash, Goto, processes
  <2>3. ASSUME Environment \/ UNCHANGED lifespanvars PROVE starts' = starts
    BY <2>3 DEF Environment, lifespanvars, processes
  <2> QED
    BY <2>1, <2>2, <2>3 DEF LifespanNext
<1>3. LockInv /\ Monitored /\ MonitorInv /\ Starts => LifespanTypeOK
  <2> SUFFICES ASSUME LockInv, Monitored, MonitorInv, Starts PROVE LifespanTypeOK
    OBVIOUS
  <2>1. silence \in 0..(Longest + 1)
    BY MonitorAssumption DEF MonitorInv, MonitorType, Longest
  <2> QED
    BY <2>1 DEF LockInv, LockType, OpenFiles, Monitored, MonitorInv, MonitorType, LifespanTypeOK
<1> QED
  BY LockInvInit, LockInvStep, MonitoredInit, MonitoredStep, MonitorInvInit, MonitorInvStep,
     <1>1, <1>2, <1>3, PTL DEF LifespanSpec

-------------------------------------------------------------------------------
(* The audit log *)

Shape ==
  /\ level \in 0..2 /\ active \in BOOLEAN
  /\ server \in {"up", "joining", "closing", "exited"}
  /\ pc \in [Reqs -> {"idle", "app", "finally", "origin", "done"}]
  /\ op \in [Reqs -> AllOps] /\ key \in [Reqs -> Keys] /\ outcome \in [Reqs -> Outcomes]
  /\ logged \in [Reqs -> Seq({"api_call"} \cup Denials)]
  /\ origin \in [Keys -> Reqs \cup {NoReq}]
  /\ wasFull \in BOOLEAN

LineCounts == count \in Nat /\ dropped \in Nat /\ failed \in Nat

SinkType ==
  /\ queue \in Seq(Lines) /\ Len(queue) <= QueueMax
  /\ listener \in {"get", "write", "stopped"} /\ inhand \in Lines /\ file \in Seq(Lines)
  /\ LineCounts

(* The line of a request is not the sentinel. *)
LEMMA LineType ==
  ASSUME NEW r \in Reqs, NEW e \in {"api_call"} \cup Denials, count \in Nat
  PROVE  /\ [req |-> r, event |-> e, n |-> count] \in Lines
         /\ [req |-> r, event |-> e, n |-> count] # Sentinel
         /\ Sentinel \in Lines
BY AuditAssumption DEF Lines, Sentinel

(* Lines pending are the lines queued, less the sentinel. *)
LEMMA PendingLength ==
  ASSUME queue \in Seq(Lines)
  PROVE  /\ Len(Pending) = IF queue # <<>> /\ queue[Len(queue)] = Sentinel THEN Len(queue) - 1
                                                                          ELSE Len(queue)
         /\ queue = <<>> => Pending = <<>>
<1>1. CASE queue # <<>> /\ queue[Len(queue)] = Sentinel
  <2> DEFINE m == Len(queue) - 1
  <2>1. m \in Nat /\ 1 \in Int /\ m + 1 = Len(queue)
    BY <1>1
  <2>2. \A i \in 1..m : queue[i] \in Lines
    BY <2>1
  <2>3. Pending = SubSeq(queue, 1, m)
    BY <1>1 DEF Pending
  <2> HIDE DEF m
  <2>4. Len(SubSeq(queue, 1, m)) = IF 1 <= m THEN m - 1 + 1 ELSE 0
    BY <2>1, <2>2, SubSeqProperties
  <2>5. Len(Pending) = m
    BY <2>1, <2>3, <2>4
  <2> QED
    BY <1>1, <2>1, <2>5
<1>2. CASE ~(queue # <<>> /\ queue[Len(queue)] = Sentinel)
  BY <1>2 DEF Pending
<1> QED
  BY <1>1, <1>2

-------------------------------------------------------------------------------
(* Requests *)

(* What each request has logged where it stands, and whom an origin names. *)
Recorded ==
  /\ \A r \in Reqs :
       /\ pc[r] \in {"idle", "app", "finally"} => logged[r] = <<>>
       /\ pc[r] = "origin" =>
            op[r] = "put" /\ outcome[r] \in {"ok", "crash"} /\ logged[r] = <<"api_call">>
       /\ pc[r] = "done" /\ outcome[r] \in Denials /\ op[r] # "health" /\ active =>
            logged[r] = <<outcome[r]>>
       /\ Len(logged[r]) <= 1
  /\ \A k \in Keys : origin[k] # NoReq =>
       /\ pc[origin[k]] = "done" /\ key[origin[k]] = k /\ op[origin[k]] = "put"
       /\ outcome[origin[k]] \in {"ok", "crash"} /\ logged[origin[k]] = <<"api_call">>

(* The shutdown starts when no request is left, and ends the logger. *)
Stopping == server # "up" => Quiet /\ ~active

RequestInv == Shape /\ Recorded /\ Stopping

LEMMA RequestInvInit == Init => RequestInv
<1> SUFFICES ASSUME Init PROVE RequestInv
  OBVIOUS
<1>1. Shape
  <2>1. logged \in [Reqs -> Seq({"api_call"} \cup Denials)]
    BY DEF Init
  <2>2. /\ level \in 0..2 /\ active \in BOOLEAN /\ wasFull \in BOOLEAN
        /\ server \in {"up", "joining", "closing", "exited"}
    BY DEF Init
  <2>3. /\ pc \in [Reqs -> {"idle", "app", "finally", "origin", "done"}]
        /\ op \in [Reqs -> AllOps] /\ key \in [Reqs -> Keys] /\ outcome \in [Reqs -> Outcomes]
        /\ origin \in [Keys -> Reqs \cup {NoReq}]
    BY DEF Init, AllOps, Outcomes
  <2> QED
    BY <2>1, <2>2, <2>3 DEF Shape
<1>2. Recorded /\ Stopping
  BY DEF Init, Recorded, Stopping
<1> QED
  BY <1>1, <1>2 DEF RequestInv

(* A step that only touches the queue and the sink. *)
LEMMA RequestInvFrame ==
  ASSUME RequestInv, UNCHANGED <<level, active, request, origin>>,
         server' \in {"up", "joining", "closing", "exited"}, wasFull' \in BOOLEAN,
         server # "up" \/ server' = "up"
  PROVE  RequestInv'
<1>1. UNCHANGED <<pc, op, key, outcome, logged>>
  BY DEF request
<1>2. Shape'
  BY <1>1 DEF RequestInv, Shape
<1>3. Recorded' /\ Stopping'
  BY <1>1 DEF RequestInv, Recorded, Stopping, Quiet
<1> QED
  BY <1>2, <1>3 DEF RequestInv

LEMMA RequestInvStep == RequestInv /\ [Next]_vars => RequestInv'
<1> SUFFICES ASSUME RequestInv, [Next]_vars PROVE RequestInv'
  OBVIOUS
<1>1. server \in {"up", "joining", "closing", "exited"} /\ wasFull \in BOOLEAN
  BY DEF RequestInv, Shape
<1>2. CASE UNCHANGED vars
  BY <1>1, <1>2, RequestInvFrame DEF vars
<1>3. CASE Dequeue \/ WriteLine \/ Joined \/ Exit
  BY <1>1, <1>3, RequestInvFrame DEF Dequeue, WriteLine, Joined, Exit
<1>4. CASE Shutdown
  <2>1. UNCHANGED <<level, pc, op, key, outcome, logged, origin>> /\ active' = FALSE /\ Quiet
        /\ server' \in {"up", "joining", "closing", "exited"} /\ wasFull' \in BOOLEAN
    BY <1>1, <1>4 DEF Shutdown, StopListener, request
  <2>2. Shape'
    BY <2>1 DEF RequestInv, Shape
  <2>3. Recorded' /\ Stopping'
    BY <2>1 DEF RequestInv, Recorded, Stopping, Quiet
  <2> QED
    BY <2>2, <2>3 DEF RequestInv
<1>5. ASSUME NEW r \in Reqs, Arrive(r) PROVE RequestInv'
  <2>1. /\ UNCHANGED <<level, active, server, key, outcome, logged, wasFull, origin>>
        /\ pc[r] = "idle" /\ server = "up" /\ pc' = [pc EXCEPT ![r] = "app"]
        /\ \E o \in Ops : op' = [op EXCEPT ![r] = o]
    BY <1>5 DEF Arrive
  <2>2. Shape'
    BY <2>1, AuditAssumption DEF RequestInv, Shape
  <2>3. Recorded' /\ Stopping'
    BY <2>1, AuditAssumption DEF RequestInv, Shape, Recorded, Stopping
  <2> QED
    BY <2>2, <2>3 DEF RequestInv
<1>6. ASSUME NEW r \in Reqs, App(r) PROVE RequestInv'
  <2>1. /\ UNCHANGED <<level, active, server, op, key, logged, wasFull, origin>>
        /\ pc[r] = "app" /\ pc' = [pc EXCEPT ![r] = "finally"]
        /\ \E o \in Outcomes : outcome' = [outcome EXCEPT ![r] = o]
    BY <1>6 DEF App
  <2>2. Shape'
    BY <2>1 DEF RequestInv, Shape
  <2>3. server = "up"
    BY <2>1 DEF RequestInv, Stopping, Quiet
  <2>4. Recorded' /\ Stopping'
    BY <2>1, <2>3, AuditAssumption DEF RequestInv, Shape, Recorded, Stopping
  <2> QED
    BY <2>2, <2>4 DEF RequestInv
<1>7. ASSUME NEW r \in Reqs, FinishCaptured(r) \/ FinishPassed(r) PROVE RequestInv'
  <2>1. pc[r] = "finally" /\ logged[r] = <<>> /\ server = "up"
    BY <1>7 DEF FinishCaptured, FinishPassed, RequestInv, Recorded, Stopping, Quiet
  <2>2. UNCHANGED <<level, active, server, op, key, outcome, wasFull, origin>>
    BY <1>7 DEF FinishCaptured, FinishPassed
  <2>3. PICK e \in {"api_call"} \cup Denials, p \in {"origin", "done"} :
          /\ pc' = [pc EXCEPT ![r] = p]
          /\ logged' \in {logged, [logged EXCEPT ![r] = <<e>>]}
          /\ p = "origin" => op[r] = "put" /\ outcome[r] \in {"ok", "crash"} /\ e = "api_call" /\ logged' # logged
          /\ outcome[r] \in Denials /\ op[r] # "health" /\ active => e = outcome[r] /\ logged' # logged
    <3>1. CASE FinishCaptured(r)
      <4> DEFINE e == IF outcome[r] \in Denials THEN outcome[r] ELSE "api_call"
                 p == IF WritesOrigin(r) THEN "origin" ELSE "done"
      <4>1. logged' = [logged EXCEPT ![r] = <<e>>] /\ pc' = [pc EXCEPT ![r] = p]
        BY <2>1, <3>1 DEF FinishCaptured, Log, RequestInv, Shape
      <4>2. logged' # logged
        BY <2>1, <4>1 DEF RequestInv, Shape
      <4>3. p = "origin" => op[r] = "put" /\ outcome[r] \in {"ok", "crash"} /\ e = "api_call"
        BY DEF WritesOrigin, StatusBelow400, Denials
      <4>4. e \in {"api_call"} \cup Denials /\ p \in {"origin", "done"}
        OBVIOUS
      <4> QED
        BY <4>1, <4>2, <4>3, <4>4
    <3>2. CASE FinishPassed(r) /\ RecordPending(r)
      <4>1. logged' = [logged EXCEPT ![r] = <<outcome[r]>>] /\ pc' = [pc EXCEPT ![r] = "done"]
            /\ outcome[r] \in Denials
        BY <2>1, <3>2 DEF FinishPassed, RecordPending, Log, RequestInv, Shape
      <4>2. logged' # logged
        BY <2>1, <4>1 DEF RequestInv, Shape
      <4> QED
        BY <4>1, <4>2
    <3>3. CASE FinishPassed(r) /\ ~RecordPending(r)
      BY <3>3 DEF FinishPassed, RecordPending, NoLog
    <3> QED
      BY <1>7, <3>1, <3>2, <3>3
  <2>4. Shape'
    <3> DEFINE E == {"api_call"} \cup Denials
    <3>1. logged \in [Reqs -> Seq(E)] /\ e \in E
      BY DEF RequestInv, Shape
    <3> HIDE DEF E
    <3>2. [logged EXCEPT ![r] = <<e>>] \in [Reqs -> Seq(E)]
      BY <3>1
    <3>3. logged' \in [Reqs -> Seq(E)]
      BY <2>3, <3>1, <3>2
    <3> QED
      BY <2>2, <2>3, <3>3 DEF E, RequestInv, Shape
  <2>5. /\ pc'[r] = p /\ (logged'[r] = <<>> \/ logged'[r] = <<e>>) /\ (logged' # logged => logged'[r] = <<e>>)
        /\ \A s \in Reqs \ {r} : pc'[s] = pc[s] /\ logged'[s] = logged[s]
    BY <2>1, <2>3 DEF RequestInv, Shape
  <2>6. \A k \in Keys : origin[k] # NoReq => origin[k] \in Reqs \ {r}
    BY <2>1 DEF RequestInv, Shape, Recorded
  <2>7. Recorded'
    <3>1. ASSUME NEW s \in Reqs
          PROVE  /\ pc'[s] \in {"idle", "app", "finally"} => logged'[s] = <<>>
                 /\ pc'[s] = "origin" =>
                      op[s] = "put" /\ outcome[s] \in {"ok", "crash"} /\ logged'[s] = <<"api_call">>
                 /\ pc'[s] = "done" /\ outcome[s] \in Denials /\ op[s] # "health" /\ active =>
                      logged'[s] = <<outcome[s]>>
                 /\ Len(logged'[s]) <= 1
      <4>1. CASE s = r
        <5>1. Len(logged'[r]) <= 1
          <6>1. Len(<<e>>) = 1 /\ Len(<<>>) = 0
            OBVIOUS
          <6>2. CASE logged'[r] = <<>>
            BY <6>1, <6>2
          <6>3. CASE logged'[r] = <<e>>
            BY <6>1, <6>3
          <6> QED
            BY <2>5, <6>2, <6>3
        <5> QED
          BY <2>3, <2>5, <4>1, <5>1
      <4>2. CASE s # r
        BY <2>5, <4>2 DEF RequestInv, Recorded
      <4> QED
        BY <4>1, <4>2
    <3>2. \A k \in Keys : origin[k] # NoReq =>
            /\ pc'[origin[k]] = "done" /\ key[origin[k]] = k /\ op[origin[k]] = "put"
            /\ outcome[origin[k]] \in {"ok", "crash"} /\ logged'[origin[k]] = <<"api_call">>
      BY <2>5, <2>6 DEF RequestInv, Recorded
    <3> QED
      BY <2>2, <3>1, <3>2 DEF Recorded
  <2>8. Stopping'
    BY <2>1, <2>2 DEF Stopping
  <2> QED
    BY <2>4, <2>7, <2>8 DEF RequestInv
<1>8. ASSUME NEW r \in Reqs, WriteOrigin(r) PROVE RequestInv'
  <2>1. /\ UNCHANGED <<level, active, server, op, key, outcome, logged, wasFull>>
        /\ pc[r] = "origin" /\ pc' = [pc EXCEPT ![r] = "done"]
        /\ origin' \in {origin, [origin EXCEPT ![key[r]] = r]}
    BY <1>8 DEF WriteOrigin
  <2>2. Shape'
    BY <2>1 DEF RequestInv, Shape
  <2>3. server = "up" /\ op[r] = "put" /\ outcome[r] \in {"ok", "crash"} /\ logged[r] = <<"api_call">>
        /\ outcome[r] \notin Denials
    BY <2>1 DEF RequestInv, Recorded, Stopping, Quiet, Denials
  <2>4. Recorded' /\ Stopping'
    BY <2>1, <2>3, AuditAssumption DEF RequestInv, Shape, Recorded, Stopping
  <2> QED
    BY <2>2, <2>4 DEF RequestInv
<1> QED
  BY <1>2, <1>3, <1>4, <1>5, <1>6, <1>7, <1>8 DEF Next, Request, Listener, Server

(* _pass_with_header and the finally block: while the logger is active a   *)
(* refused request leaves exactly the line that names its refusal.         *)
THEOREM DenialsLogged == Spec => []DenialsRecorded
<1>1. RequestInv => DenialsRecorded
  BY DEF RequestInv, Recorded, DenialsRecorded
<1> QED
  BY RequestInvInit, RequestInvStep, <1>1, PTL DEF Spec

(* The origin of a key names a finished write of that key that is in the   *)
(* audit trail, however the writes of the origins interleave.              *)
THEOREM OriginsLogged == Spec => []OriginLogged
<1>1. RequestInv => OriginLogged
  BY DEF RequestInv, Recorded, OriginLogged
<1> QED
  BY RequestInvInit, RequestInvStep, <1>1, PTL DEF Spec

-------------------------------------------------------------------------------
(* The queue, the listener and the file *)

Closed == queue # <<>> /\ queue[Len(queue)] = Sentinel
Writing == listener = "write"

(* The numbers of the lines grow from the file over the line in hand and   *)
(* the queue to the counter.                                               *)
Numbered ==
  /\ \A i, j \in 1..Len(file) : i < j => file[i].n < file[j].n
  /\ \A i \in 1..Len(file) : file[i].n < count
  /\ \A i \in 1..Len(queue) : queue[i] # Sentinel =>
       /\ queue[i].n < count
       /\ \A j \in 1..Len(queue) : j < i => queue[j].n < queue[i].n
       /\ \A j \in 1..Len(file) : file[j].n < queue[i].n
       /\ Writing => inhand.n < queue[i].n
  /\ Writing => inhand.n < count /\ \A j \in 1..Len(file) : file[j].n < inhand.n

(* Every line counted is somewhere. *)
Counted ==
  count = Len(file) + failed + dropped + (IF Closed THEN Len(queue) - 1 ELSE Len(queue))
          + (IF Writing THEN 1 ELSE 0)

(* The sentinel is the last thing put into the queue and taken out of it. *)
SentinelLast ==
  \A i \in 1..Len(queue) : queue[i] = Sentinel => i = Len(queue) /\ server # "up"

(* How far the shutdown has come, and what it has left behind. *)
Draining ==
  /\ listener = "stopped" => queue = <<>> /\ server # "up"
  /\ server = "up" /\ ~active => queue = <<>> /\ listener = "get"
  /\ server = "joining" => listener = "stopped" \/ Closed
  /\ server \in {"closing", "exited"} /\ ~wasFull => queue = <<>> /\ ~Writing

SinkInv == RequestInv /\ SinkType /\ Numbered /\ Counted /\ SentinelLast /\ Draining

LEMMA SinkInvInit == Init => SinkInv
<1> SUFFICES ASSUME Init PROVE SinkInv
  OBVIOUS
<1>1. /\ queue = <<>> /\ listener = "get" /\ inhand = Sentinel /\ file = <<>> /\ server = "up"
      /\ count = 0 /\ dropped = 0 /\ failed = 0
  BY DEF Init, NoLine
<1>2. Sentinel \in Lines
  BY DEF Lines, Sentinel
<1>3. SinkType
  BY <1>1, <1>2, AuditAssumption DEF SinkType, LineCounts
<1>4. Numbered /\ Counted /\ SentinelLast /\ Draining
  BY <1>1 DEF Numbered, Counted, SentinelLast, Draining, Closed, Writing
<1> QED
  BY <1>3, <1>4, RequestInvInit DEF SinkInv

(* Lines are numbered by natural numbers. *)
LEMMA NumberTypes ==
  ASSUME SinkType
  PROVE  /\ count \in Nat /\ dropped \in Nat /\ failed \in Nat
         /\ Len(queue) \in Nat /\ Len(file) \in Nat
         /\ inhand.n \in Nat
         /\ \A i \in 1..Len(queue) : queue[i] \in Lines /\ queue[i].n \in Nat
         /\ \A i \in 1..Len(file) : file[i].n \in Nat
<1>1. \A l \in Lines : l.n \in Nat
  BY DEF Lines
<1>2. \A i \in 1..Len(queue) : queue[i] \in Lines
  BY DEF SinkType
<1>3. \A i \in 1..Len(file) : file[i] \in Lines
  BY DEF SinkType
<1>4. inhand \in Lines /\ Len(queue) \in Nat /\ Len(file) \in Nat
  BY DEF SinkType
<1> QED
  BY <1>1, <1>2, <1>3, <1>4 DEF SinkType, LineCounts

(* A line logged goes to the end of the queue or is counted as dropped. *)
LEMMA LogSink ==
  ASSUME SinkInv, NEW r \in Reqs, NEW e \in {"api_call"} \cup Denials, Log(r, e), active, server = "up",
         UNCHANGED <<active, server, sink, wasFull>>
  PROVE  SinkType' /\ Numbered' /\ Counted' /\ SentinelLast' /\ Draining'
<1> DEFINE line == [req |-> r, event |-> e, n |-> count]
<1>1. SinkType /\ count \in Nat /\ UNCHANGED <<listener, inhand, file, failed, active, server, wasFull>>
  BY DEF SinkInv, SinkType, LineCounts, sink
<1>2. line \in Lines /\ line # Sentinel /\ line.n = count
  BY <1>1, LineType
<1>3. listener # "stopped" /\ ~Closed /\ \A i \in 1..Len(queue) : queue[i] # Sentinel
  BY <1>1 DEF SinkInv, Draining, SentinelLast, Closed, SinkType
<1>4. CASE Len(queue) = QueueMax /\ dropped' = dropped + 1 /\ UNCHANGED queue /\ count' = count + 1
  <2>1. SinkType'
    BY <1>1, <1>4 DEF SinkType, LineCounts
  <2>2. Closed' = Closed /\ Writing' = Writing
    BY <1>1, <1>4 DEF Closed, Writing, Sentinel
  <2>3. Counted'
    <3>1. count = Len(file) + failed + dropped + Len(queue) + (IF Writing THEN 1 ELSE 0)
      BY <1>3 DEF SinkInv, Counted
    <3>2. count' = Len(file) + failed + dropped' + Len(queue) + (IF Writing THEN 1 ELSE 0)
      BY <1>1, <1>4, <3>1, NumberTypes
    <3> QED
      BY <1>1, <1>3, <1>4, <2>2, <3>2 DEF Counted
  <2>4. Numbered'
    <3>1. /\ UNCHANGED <<file, queue, inhand>> /\ count \in Nat /\ count' = count + 1
          /\ \A i \in 1..Len(queue) : queue[i].n \in Nat
          /\ \A i \in 1..Len(file) : file[i].n \in Nat
          /\ inhand.n \in Nat
      BY <1>1, <1>4, NumberTypes
    <3>2. Sentinel' = Sentinel
      BY DEF Sentinel
    <3>3. Numbered
      BY DEF SinkInv
    <3> HIDE DEF line
    <3> QED
      BY <2>2, <3>1, <3>2, <3>3 DEF Numbered
  <2>5. SentinelLast' /\ Draining'
    BY <1>1, <1>3, <1>4, <2>2 DEF SinkInv, SentinelLast, Draining, Sentinel
  <2> QED
    BY <2>1, <2>3, <2>4, <2>5
<1>5. CASE Len(queue) < QueueMax /\ queue' = Append(queue, line) /\ UNCHANGED dropped /\ count' = count + 1
  <2> DEFINE len == Len(queue)
  <2>1. len \in Nat /\ queue \in Seq(Lines)
    BY <1>1 DEF SinkType
  <2> HIDE DEF line
  <2>2. /\ queue' \in Seq(Lines) /\ Len(queue') = len + 1
        /\ queue'[len + 1] = line /\ \A i \in 1..len : queue'[i] = queue[i]
    BY <1>2, <1>5, <2>1
  <2>3. SinkType'
    BY <1>1, <1>5, <2>1, <2>2, AuditAssumption DEF SinkType, LineCounts
  <2>4. ~Closed' /\ Writing' = Writing /\ \A i \in 1..len + 1 : queue'[i] # Sentinel
    BY <1>1, <1>2, <1>3, <2>1, <2>2 DEF Closed, Writing, Sentinel
  <2>5. Counted'
    BY <1>1, <1>3, <1>5, <2>1, <2>2, <2>4 DEF SinkInv, Counted, SinkType, LineCounts
  <2>6. Numbered'
    <3>1. \A i \in 1..Len(file) : file[i].n \in Nat
      BY <1>1, NumberTypes
    <3>2. inhand.n \in Nat /\ \A i \in 1..len : queue[i].n \in Nat
      BY <1>1, NumberTypes
    <3>3. \A i \in 1..len : queue[i].n < count /\ \A j \in 1..len : j < i => queue[j].n < queue[i].n
      BY <1>3 DEF SinkInv, Numbered
    <3>4. \A i, j \in 1..len + 1 : j < i => queue'[j].n < queue'[i].n
      <4> SUFFICES ASSUME NEW i \in 1..len + 1, NEW j \in 1..len + 1, j < i
                   PROVE  queue'[j].n < queue'[i].n
        OBVIOUS
      <4>1. j \in 1..len /\ (i \in 1..len \/ i = len + 1)
        BY <2>1
      <4>2. queue'[j] = queue[j]
        BY <2>2, <4>1
      <4>3. CASE i \in 1..len
        BY <2>2, <3>3, <4>1, <4>2, <4>3
      <4>4. CASE i = len + 1
        BY <1>2, <2>2, <3>3, <4>1, <4>2, <4>4
      <4> QED
        BY <4>1, <4>3, <4>4
    <3>5. \A i \in 1..len + 1 : queue'[i].n < count + 1 /\ \A j \in 1..Len(file) : file[j].n < queue'[i].n
      <4> SUFFICES ASSUME NEW i \in 1..len + 1
                   PROVE  queue'[i].n < count + 1 /\ \A j \in 1..Len(file) : file[j].n < queue'[i].n
        OBVIOUS
      <4>1. i \in 1..len \/ i = len + 1
        BY <2>1
      <4>2. CASE i \in 1..len
        <5>1. queue'[i] = queue[i] /\ queue[i].n \in Nat /\ queue[i].n < count
          BY <2>2, <3>2, <3>3, <4>2
        <5>2. \A j \in 1..Len(file) : file[j].n < queue[i].n
          BY <1>3, <4>2 DEF SinkInv, Numbered
        <5> QED
          BY <1>1, <5>1, <5>2
      <4>3. CASE i = len + 1
        <5>1. queue'[i].n = count
          BY <1>2, <2>2, <4>3
        <5>2. \A j \in 1..Len(file) : file[j].n < count
          BY DEF SinkInv, Numbered
        <5> QED
          BY <1>1, <5>1, <5>2
      <4> QED
        BY <4>1, <4>2, <4>3
    <3>6. Writing => inhand.n < count + 1 /\ \A i \in 1..len + 1 : inhand.n < queue'[i].n
      BY <1>1, <1>2, <1>3, <2>1, <2>2, <3>2 DEF SinkInv, Numbered
    <3>7. \A i \in 1..Len(file) : file[i].n < count + 1
      BY <1>1, <3>1 DEF SinkInv, Numbered
    <3> QED
      BY <1>1, <1>5, <2>2, <2>4, <3>4, <3>5, <3>6, <3>7 DEF SinkInv, Numbered
  <2>7. SentinelLast' /\ Draining'
    BY <1>1, <1>3, <2>2, <2>4 DEF SentinelLast, Draining
  <2> QED
    BY <2>3, <2>5, <2>6, <2>7
<1> QED
  BY <1>1, <1>4, <1>5 DEF Log, SinkType

(* The listener takes the first line, or the sentinel. *)
LEMMA DequeueSink ==
  ASSUME SinkInv, Dequeue
  PROVE  SinkType' /\ Numbered' /\ Counted' /\ SentinelLast' /\ Draining'
<1> DEFINE len == Len(queue)
<1>1. /\ SinkType /\ listener = "get" /\ queue # <<>> /\ inhand' = Head(queue) /\ queue' = Tail(queue)
      /\ listener' = (IF Head(queue) = Sentinel THEN "stopped" ELSE "write")
      /\ UNCHANGED <<file, failed, count, dropped, active, server, wasFull>>
  BY DEF SinkInv, Dequeue
<1>2. queue \in Seq(Lines)
  BY <1>1 DEF SinkType
<1>3. /\ len \in Nat /\ len >= 1 /\ Head(queue) = queue[1]
      /\ queue' \in Seq(Lines) /\ Len(queue') = len - 1
      /\ \A i \in 1..len - 1 : queue'[i] = queue[i + 1]
  BY <1>1, <1>2
<1>4. SinkType'
  <2>1. Head(queue) \in Lines /\ listener' \in {"get", "write", "stopped"}
    BY <1>1, <1>2
  <2> QED
    BY <1>1, <1>3, <2>1, AuditAssumption DEF SinkType, LineCounts
<1>5. CASE queue[1] = Sentinel
  <2>1. len = 1 /\ server # "up" /\ Closed /\ queue' = <<>> /\ listener' = "stopped"
    <3>1. 1 \in 1..len
      BY <1>3
    <3>2. len = 1 /\ server # "up"
      BY <1>5, <3>1 DEF SinkInv, SentinelLast
    <3>3. queue' = <<>>
      BY <1>3, <3>2
    <3> QED
      BY <1>1, <1>3, <1>5, <3>2, <3>3 DEF Closed
  <2>2. Numbered' /\ SentinelLast' /\ Draining'
    BY <1>1, <2>1 DEF SinkInv, Numbered, SentinelLast, Draining, Writing
  <2>3. Counted'
    <3>1. ~Writing /\ ~Writing' /\ ~Closed' /\ Len(queue') = 0
      BY <1>1, <2>1 DEF Writing, Closed
    <3>2. count = Len(file) + failed + dropped + 0 + 0
      BY <2>1, <3>1 DEF SinkInv, Counted
    <3> QED
      BY <1>1, <3>1, <3>2 DEF Counted
  <2> QED
    BY <1>4, <2>2, <2>3
<1>6. CASE queue[1] # Sentinel
  <2>1. listener' = "write" /\ Writing' /\ ~Writing /\ inhand' = queue[1]
    BY <1>1, <1>3, <1>6 DEF Writing
  <2>2. Closed' = Closed
    <3>1. len = 1 => ~Closed /\ ~Closed'
      BY <1>3, <1>6 DEF Closed
    <3>2. len # 1 => queue' # <<>> /\ queue'[len - 1] = queue[len]
      BY <1>3
    <3>3. len # 1 => (queue'[Len(queue')] = Sentinel <=> queue[len] = Sentinel)
      BY <1>3, <3>2
    <3> QED
      BY <1>1, <3>1, <3>2, <3>3 DEF Closed, Sentinel
  <2>3. Counted'
    <3>1. count = Len(file) + failed + dropped + (IF Closed THEN len - 1 ELSE len) + 0
      BY <2>1 DEF SinkInv, Counted
    <3>2. count = Len(file) + failed + dropped + (IF Closed THEN len - 1 - 1 ELSE len - 1) + 1
      BY <1>1, <1>3, <3>1, NumberTypes
    <3> QED
      BY <1>1, <1>3, <2>1, <2>2, <3>2 DEF Counted
  <2>4. Numbered'
    <3>1. /\ queue[1].n < count
          /\ \A j \in 1..Len(file) : file[j].n < queue[1].n
      BY <1>3, <1>6 DEF SinkInv, Numbered
    <3>2. \A i \in 1..len : queue[i] # Sentinel =>
            /\ queue[i].n < count
            /\ \A j \in 1..len : j < i => queue[j].n < queue[i].n
            /\ \A j \in 1..Len(file) : file[j].n < queue[i].n
      BY DEF SinkInv, Numbered
    <3>3. ASSUME NEW i \in 1..len - 1, queue'[i] # Sentinel
          PROVE  /\ queue'[i].n < count
                 /\ \A j \in 1..len - 1 : j < i => queue'[j].n < queue'[i].n
                 /\ \A j \in 1..Len(file) : file[j].n < queue'[i].n
                 /\ queue[1].n < queue'[i].n
      <4>1. i + 1 \in 1..len /\ 1 \in 1..len /\ 1 < i + 1 /\ queue'[i] = queue[i + 1]
        BY <1>3
      <4>2. \A j \in 1..len - 1 : j + 1 \in 1..len /\ queue'[j] = queue[j + 1] /\ (j < i => j + 1 < i + 1)
        BY <1>3
      <4> QED
        BY <3>2, <3>3, <4>1, <4>2
    <3>4. \A i, j \in 1..Len(file) : i < j => file[i].n < file[j].n
      BY DEF SinkInv, Numbered
    <3>5. \A i \in 1..Len(file) : file[i].n < count
      BY DEF SinkInv, Numbered
    <3> QED
      BY <1>1, <1>3, <2>1, <3>1, <3>3, <3>4, <3>5 DEF Numbered, Sentinel
  <2>5. SentinelLast'
    <3> SUFFICES ASSUME NEW i \in 1..len - 1, queue'[i] = Sentinel
                 PROVE  i = len - 1 /\ server # "up"
      BY <1>1, <1>3 DEF SentinelLast, Sentinel
    <3>1. i + 1 \in 1..len /\ queue[i + 1] = Sentinel
      BY <1>3
    <3> QED
      BY <3>1 DEF SinkInv, SentinelLast
  <2>6. Draining'
    <3>1. /\ ~(server = "up" /\ ~active) /\ ~(server \in {"closing", "exited"} /\ ~wasFull)
          /\ server = "joining" => Closed
      BY <1>1 DEF SinkInv, Draining
    <3> QED
      BY <1>1, <2>1, <2>2, <3>1 DEF Draining
  <2> QED
    BY <1>4, <2>3, <2>4, <2>5, <2>6
<1> QED
  BY <1>5, <1>6

(* The line in hand goes to the file or is counted as failed. *)
LEMMA WriteSink ==
  ASSUME SinkInv, WriteLine
  PROVE  SinkType' /\ Numbered' /\ Counted' /\ SentinelLast' /\ Draining'
<1>1. /\ SinkType /\ Writing /\ listener' = "get" /\ inhand' = Sentinel
      /\ UNCHANGED <<queue, count, dropped, active, server, wasFull>>
  BY DEF SinkInv, WriteLine, NoLine, Writing
<1>2. ~Writing' /\ Closed' = Closed /\ Sentinel \in Lines
  BY <1>1 DEF Writing, Closed, Sentinel, Lines
<1> DEFINE unsent == IF Closed THEN Len(queue) - 1 ELSE Len(queue)
<1>3. count = Len(file) + failed + dropped + unsent + 1
  BY <1>1 DEF SinkInv, Counted
<1>4. unsent \in Int
  BY <1>1, NumberTypes
<1>5. SentinelLast' /\ Draining'
  BY <1>1, <1>2 DEF SinkInv, SentinelLast, Draining, Writing, Sentinel
<1>6. CASE failed' = failed + 1 /\ UNCHANGED file
  <2>1. SinkType' /\ Numbered'
    BY <1>1, <1>2, <1>6 DEF SinkInv, SinkType, LineCounts, Numbered, Sentinel
  <2>2. count = Len(file) + (failed + 1) + dropped + unsent + 0
    <3> HIDE DEF unsent
    <3> QED
      BY <1>1, <1>3, <1>4, NumberTypes
  <2>3. Counted'
    BY <1>1, <1>2, <1>6, <2>2 DEF Counted
  <2> QED
    BY <1>5, <2>1, <2>3
<1>7. CASE file' = Append(file, inhand) /\ UNCHANGED failed
  <2> DEFINE len == Len(file)
  <2>1. len \in Nat /\ file \in Seq(Lines) /\ inhand \in Lines
    BY <1>1 DEF SinkType
  <2>2. /\ file' \in Seq(Lines) /\ Len(file') = len + 1
        /\ file'[len + 1] = inhand /\ \A i \in 1..len : file'[i] = file[i]
    BY <1>7, <2>1
  <2>3. SinkType'
    BY <1>1, <1>2, <1>7, <2>2 DEF SinkType, LineCounts
  <2>4. count = (len + 1) + failed + dropped + unsent + 0
    <3> HIDE DEF unsent
    <3> QED
      BY <1>1, <1>3, <1>4, NumberTypes
  <2>5. Counted'
    BY <1>1, <1>2, <1>7, <2>2, <2>4 DEF Counted
  <2>6. Numbered'
    <3>1. /\ inhand.n < count /\ \A j \in 1..len : file[j].n < inhand.n /\ file[j].n < count
          /\ \A i, j \in 1..len : i < j => file[i].n < file[j].n
          /\ \A i \in 1..Len(queue) : queue[i] # Sentinel =>
               /\ queue[i].n < count
               /\ \A j \in 1..Len(queue) : j < i => queue[j].n < queue[i].n
               /\ \A j \in 1..len : file[j].n < queue[i].n
               /\ inhand.n < queue[i].n
      BY <1>1 DEF SinkInv, Numbered
    <3>2. \A j \in 1..len + 1 : j \in 1..len \/ j = len + 1
      BY <2>1
    <3>3. \A j \in 1..len + 1 : file'[j].n < count
      BY <2>2, <3>1, <3>2
    <3>4. \A i, j \in 1..len + 1 : i < j => file'[i].n < file'[j].n
      <4> SUFFICES ASSUME NEW i \in 1..len + 1, NEW j \in 1..len + 1, i < j
                   PROVE  file'[i].n < file'[j].n
        OBVIOUS
      <4>1. i \in 1..len /\ file'[i] = file[i]
        BY <2>1, <2>2
      <4>2. CASE j \in 1..len
        BY <2>2, <3>1, <4>1, <4>2
      <4>3. CASE j = len + 1
        BY <2>2, <3>1, <4>1, <4>3
      <4> QED
        BY <3>2, <4>2, <4>3
    <3>5. \A i \in 1..Len(queue) : queue[i] # Sentinel => \A j \in 1..len + 1 : file'[j].n < queue[i].n
      BY <2>2, <3>1, <3>2
    <3> QED
      BY <1>1, <1>2, <2>2, <3>1, <3>3, <3>4, <3>5 DEF Numbered, Sentinel
  <2> QED
    BY <1>5, <2>3, <2>5, <2>6
<1> QED
  BY <1>6, <1>7 DEF WriteLine

(* The shutdown puts the sentinel behind the last line, or finds no room.  *)
LEMMA ShutdownSink ==
  ASSUME SinkInv, Shutdown
  PROVE  SinkType' /\ Numbered' /\ Counted' /\ SentinelLast' /\ Draining'
<1>1. /\ SinkType /\ server = "up" /\ active' = FALSE /\ UNCHANGED <<listener, inhand, file, failed>>
      /\ UNCHANGED <<count, dropped>>
  BY DEF SinkInv, Shutdown, sink
<1>2. listener # "stopped" /\ ~Closed /\ \A i \in 1..Len(queue) : queue[i] # Sentinel
  BY <1>1 DEF SinkInv, Draining, SentinelLast, Closed, SinkType
<1>3. Writing' = Writing /\ count = Len(file) + failed + dropped + Len(queue) + (IF Writing THEN 1 ELSE 0)
  BY <1>1, <1>2 DEF SinkInv, Counted, Writing
<1>4. CASE server' = "closing" /\ UNCHANGED queue /\ (wasFull' \/ ~active)
  <2>1. SinkType' /\ Numbered' /\ Closed' = Closed
    BY <1>1, <1>3, <1>4 DEF SinkInv, SinkType, LineCounts, Numbered, Sentinel, Closed
  <2>2. Counted'
    BY <1>1, <1>2, <1>3, <1>4, <2>1 DEF Counted
  <2>3. SentinelLast' /\ Draining'
    BY <1>1, <1>2, <1>3, <1>4 DEF SinkInv, SentinelLast, Draining, Sentinel, Writing
  <2> QED
    BY <2>1, <2>2, <2>3
<1>5. CASE Len(queue) < QueueMax /\ queue' = Append(queue, Sentinel) /\ server' = "joining"
  <2> DEFINE len == Len(queue)
  <2>1. len \in Nat /\ queue \in Seq(Lines) /\ Sentinel \in Lines
    BY <1>1 DEF SinkType, Sentinel, Lines
  <2>2. /\ queue' \in Seq(Lines) /\ Len(queue') = len + 1 /\ queue' # <<>>
        /\ queue'[len + 1] = Sentinel /\ \A i \in 1..len : queue'[i] = queue[i]
    BY <1>5, <2>1
  <2>3. SinkType'
    BY <1>1, <1>5, <2>1, <2>2, AuditAssumption DEF SinkType, LineCounts
  <2>4. Closed' /\ \A i \in 1..len + 1 : queue'[i] # Sentinel => i \in 1..len
    BY <2>1, <2>2 DEF Closed, Sentinel
  <2>5. Counted'
    <3>1. len = Len(queue') - 1
      BY <2>1, <2>2
    <3> QED
      BY <1>1, <1>3, <2>4, <3>1 DEF Counted
  <2>6. Numbered'
    <3>1. \A i \in 1..len + 1 : queue'[i] # Sentinel =>
            /\ queue'[i].n < count
            /\ \A j \in 1..len + 1 : j < i => queue'[j].n < queue'[i].n
            /\ \A j \in 1..Len(file) : file[j].n < queue'[i].n
            /\ Writing => inhand.n < queue'[i].n
      <4> SUFFICES ASSUME NEW i \in 1..len
                   PROVE  /\ queue'[i].n < count
                          /\ \A j \in 1..len + 1 : j < i => queue'[j].n < queue'[i].n
                          /\ \A j \in 1..Len(file) : file[j].n < queue'[i].n
                          /\ Writing => inhand.n < queue'[i].n
        BY <2>4
      <4>1. \A j \in 1..len + 1 : j < i => j \in 1..len
        BY <2>1
      <4> QED
        BY <1>2, <2>2, <4>1 DEF SinkInv, Numbered
    <3> QED
      BY <1>1, <1>3, <2>2, <3>1 DEF SinkInv, Numbered, Sentinel
  <2>7. SentinelLast'
    <3>1. \A i \in 1..len + 1 : queue'[i] = Sentinel => i = len + 1
      <4>1. \A i \in 1..len + 1 : i \in 1..len \/ i = len + 1
        BY <2>1
      <4> QED
        BY <1>2, <2>2, <4>1
    <3> QED
      BY <1>5, <2>2, <3>1 DEF SentinelLast, Sentinel
  <2>8. Draining'
    BY <1>1, <1>2, <1>5, <2>4 DEF Draining
  <2> QED
    BY <2>3, <2>5, <2>6, <2>7, <2>8
<1> QED
  BY <1>1, <1>4, <1>5 DEF Shutdown, StopListener

(* Every step keeps the invariant. *)
LEMMA SinkInvStep == SinkInv /\ [Next]_vars => SinkInv'
<1> SUFFICES ASSUME SinkInv, [Next]_vars PROVE SinkInv'
  OBVIOUS
<1>1. RequestInv /\ RequestInv'
  BY RequestInvStep DEF SinkInv
<1> DEFINE Goal == SinkType' /\ Numbered' /\ Counted' /\ SentinelLast' /\ Draining'
<1>2. SUFFICES Goal
  BY <1>1 DEF SinkInv
<1>3. ASSUME UNCHANGED <<queue, listener, inhand, file, failed, count, dropped, wasFull, active>>,
             server' = server \/ (server = "joining" /\ listener = "stopped" /\ server' = "closing")
               \/ (server = "closing" /\ server' = "exited")
      PROVE  Goal
  <2>1. SinkType' /\ Numbered' /\ Counted'
    BY <1>3 DEF SinkInv, SinkType, LineCounts, Numbered, Counted, Closed, Writing, Sentinel
  <2>2. SentinelLast' /\ Draining'
    BY <1>3 DEF SinkInv, SentinelLast, Draining, Closed, Writing, Sentinel
  <2> QED
    BY <2>1, <2>2
<1>4. CASE UNCHANGED vars
  BY <1>3, <1>4 DEF vars, sink
<1>5. CASE Joined \/ Exit
  BY <1>3, <1>5 DEF Joined, Exit, sink
<1>6. ASSUME NEW r \in Reqs, Arrive(r) \/ App(r) \/ WriteOrigin(r) PROVE Goal
  BY <1>3, <1>6 DEF Arrive, App, WriteOrigin, sink
<1>7. ASSUME NEW r \in Reqs, FinishCaptured(r) \/ FinishPassed(r) PROVE Goal
  <2>1. server = "up" /\ UNCHANGED <<active, server, sink, wasFull>>
    BY <1>1, <1>7 DEF FinishCaptured, FinishPassed, RequestInv, Stopping, Quiet
  <2>2. CASE active /\ \E e \in {"api_call"} \cup Denials : Log(r, e)
    <3>1. PICK e \in {"api_call"} \cup Denials : Log(r, e)
      BY <2>2
    <3> QED
      BY <2>1, <2>2, <3>1, LogSink
  <2>3. CASE UNCHANGED <<queue, dropped, count>>
    BY <1>3, <2>1, <2>3 DEF sink
  <2>4. FinishCaptured(r) => active /\ \E e \in {"api_call"} \cup Denials : Log(r, e)
    BY DEF FinishCaptured, Captured, Log
  <2>5. FinishPassed(r) /\ RecordPending(r) => active /\ \E e \in {"api_call"} \cup Denials : Log(r, e)
    BY DEF FinishPassed, RecordPending, Log
  <2>6. FinishPassed(r) /\ ~RecordPending(r) => UNCHANGED <<queue, dropped, count>>
    BY DEF FinishPassed, NoLog
  <2> QED
    BY <1>7, <2>2, <2>3, <2>4, <2>5, <2>6
<1> QED
  BY <1>4, <1>5, <1>6, <1>7, DequeueSink, WriteSink, ShutdownSink DEF Next, Request, Listener, Server

(* The queue and its listener: every line counted is in the file, on its   *)
(* way or counted as lost, and the file has the lines in the order of the  *)
(* log calls, whatever the requests, the thread and the shutdown do.       *)
THEOREM NoLineLost == Spec => []LinesConserved
<1>1. SinkInv => LinesConserved
  <2> SUFFICES ASSUME SinkInv PROVE LinesConserved
    OBVIOUS
  <2>1. Len(Pending) = IF Closed THEN Len(queue) - 1 ELSE Len(queue)
    BY PendingLength DEF SinkInv, SinkType, Closed
  <2> QED
    BY <2>1 DEF SinkInv, Counted, Numbered, LinesConserved, Writing
<1> QED
  BY SinkInvInit, SinkInvStep, <1>1, PTL DEF Spec

(* shutdown_audit_logger: a shutdown that found room for the sentinel has  *)
(* written every line before the process ends, and its join waits for a    *)
(* thread that stops.                                                      *)
THEOREM ShutdownDrains == Spec => []DrainedUnlessFull
<1>1. SinkInv => DrainedUnlessFull
  BY PendingLength DEF SinkInv, SinkType, Draining, Closed, Writing, DrainedUnlessFull
<1> QED
  BY SinkInvInit, SinkInvStep, <1>1, PTL DEF Spec

(* Every variable of the trail stays in its type, and the queue never      *)
(* passes its size.                                                        *)
THEOREM AuditTypeCorrect == Spec => []TypeOK
<1>1. SinkInv => TypeOK
  BY DEF SinkInv, RequestInv, Shape, SinkType, LineCounts, TypeOK
<1> QED
  BY SinkInvInit, SinkInvStep, <1>1, PTL DEF Spec

-------------------------------------------------------------------------------
(* The request counters *)

TaskStages == {"none", "counted", "done", "given_up"} \cup Counters

(* The INCRs that the pipeline of r has executed since it was sent last. *)
Executed(r, c) ==
  /\ c \in {"count", "inf"} => latency[r] # "none"
  /\ c = "low" => latency[r] = "quick"
  /\ \/ task[r] \in {"counted", "done"}
     \/ c = "total" /\ task[r] \in {"count", "low", "inf"}
     \/ c = "count" /\ task[r] \in {"low", "inf"}
     \/ c = "low" /\ task[r] = "inf"

Begun == {r \in Requests : task[r] # "none"}
Counting(c) == {r \in Requests : Executed(r, c)}

CountType ==
  /\ counter \in [Counters -> Nat]
  /\ task \in [Requests -> TaskStages]
  /\ latency \in [Requests -> {"none", "quick", "slow"}]
  /\ lost \in Nat /\ epoch \in Nat

(* A task without a latency has no histogram, a slow one no bucket "low". *)
OwnCommands ==
  \A r \in Requests :
    /\ task[r] \in {"count", "inf"} => latency[r] # "none"
    /\ task[r] = "low" => latency[r] = "quick"

(* A pipeline adds at most one to a counter before it is lost. *)
CountedOnce(c) ==
  /\ Cardinality(Counting(c)) <= counter[c]
  /\ counter[c] <= Cardinality(Counting(c)) + lost

CountInv ==
  /\ CountType /\ OwnCommands
  /\ IsFiniteSet(Begun)
  /\ epoch = 0 => \A c \in Counters : CountedOnce(c)

LEMMA TotalsCompare ==
  ASSUME NEW a \in Nat \X Nat, NEW b \in Nat \X Nat, NEW c \in Nat \X Nat,
         AtLeast(a, b), AtLeast(b, c)
  PROVE  AtLeast(a, c)
BY DEF AtLeast

(* The element before a sequence. *)
LEMMA Preceded ==
  ASSUME NEW S, NEW e \in S, NEW s \in Seq(S)
  PROVE  /\ <<e>> \o s \in Seq(S) /\ Len(<<e>> \o s) = Len(s) + 1
         /\ DOMAIN (<<e>> \o s) = 1..Len(s) + 1
         /\ (<<e>> \o s)[1] = e
         /\ \A i \in 1..Len(s) : (<<e>> \o s)[i + 1] = s[i]
<1>1. <<e>> \in Seq(S) /\ Len(<<e>>) = 1 /\ <<e>>[1] = e
  OBVIOUS
<1>2. Len(s) \in Nat
  OBVIOUS
<1> QED
  BY <1>1, <1>2, ConcatProperties

(* The pipelines of the three kinds of latency. *)
LEMMA CommandOrder ==
  ASSUME NEW r, NEW c \in Counters, latency[r] \in {"none", "quick", "slow"},
         c # "total" => latency[r] # "none",
         c = "low" => latency[r] = "quick"
  PROVE  /\ c = "total" => NextCommand(r, c) = (IF latency[r] = "none" THEN "counted" ELSE "count")
         /\ c = "count" => NextCommand(r, c) = (IF latency[r] = "quick" THEN "low" ELSE "inf")
         /\ c = "low" => NextCommand(r, c) = "inf"
         /\ c = "inf" => NextCommand(r, c) = "counted"
<1> DEFINE cs == Commands(r)
           i == CHOOSE i \in DOMAIN cs : cs[i] = c
           n == IF i < Len(cs) THEN cs[i + 1] ELSE "counted"
<1>1. NextCommand(r, c) = n
  BY DEF NextCommand
<1>2. <<"inf">> \in Seq(Counters) /\ Len(<<"inf">>) = 1 /\ <<"inf">>[1] = "inf"
  BY DEF Counters
<1>3. "low" \in Counters /\ "count" \in Counters /\ "total" \in Counters
  BY DEF Counters
<1>4. CASE latency[r] = "none"
  <2>1. cs = <<"total">>
    BY <1>4 DEF Commands
  <2>2. i = 1
    BY <1>4, <2>1 DEF Counters
  <2> QED
    BY <1>1, <1>4, <2>1, <2>2 DEF Counters
<1>5. CASE latency[r] = "quick"
  <2>1. cs = <<"total">> \o (<<"count">> \o <<"low", "inf">>)
    BY <1>5, Zenon DEF Commands, Buckets
  <2>2. /\ <<"low", "inf">> \in Seq(Counters) /\ Len(<<"low", "inf">>) = 2
        /\ <<"low", "inf">>[1] = "low" /\ <<"low", "inf">>[2] = "inf"
    BY DEF Counters
  <2>3. PICK s : s = <<"low", "inf">>
    OBVIOUS
  <2>4. PICK t : t = <<"count">> \o s
    OBVIOUS
  <2>5. /\ t \in Seq(Counters) /\ Len(t) = 3 /\ t[1] = "count"
        /\ t[2] = "low" /\ t[3] = "inf"
    BY <1>3, <2>2, <2>3, <2>4, Preceded
  <2>6. /\ Len(cs) = 4 /\ DOMAIN cs = 1..4 /\ cs[1] = "total"
        /\ cs[2] = "count" /\ cs[3] = "low" /\ cs[4] = "inf"
    <3>1. cs = <<"total">> \o t
      BY <2>1, <2>3, <2>4
    <3> QED
      BY <1>3, <2>5, <3>1, Preceded
  <2> HIDE DEF cs
  <2>7. i = IF c = "total" THEN 1 ELSE IF c = "count" THEN 2 ELSE IF c = "low" THEN 3 ELSE 4
    BY <2>6 DEF Counters
  <2> HIDE DEF i
  <2> QED
    BY <1>1, <1>5, <2>6, <2>7 DEF Counters
<1>6. CASE latency[r] = "slow"
  <2>1. cs = <<"total">> \o (<<"count">> \o <<"inf">>)
    <3>1. latency[r] # "none" /\ latency[r] # "quick"
      BY <1>6
    <3> QED
      BY <3>1, Zenon DEF Commands, Buckets
  <2>2. PICK s : s = <<"inf">>
    OBVIOUS
  <2>3. PICK t : t = <<"count">> \o s
    OBVIOUS
  <2>4. t \in Seq(Counters) /\ Len(t) = 2 /\ t[1] = "count" /\ t[2] = "inf"
    BY <1>2, <1>3, <2>2, <2>3, Preceded
  <2>5. /\ Len(cs) = 3 /\ DOMAIN cs = 1..3 /\ cs[1] = "total"
        /\ cs[2] = "count" /\ cs[3] = "inf"
    <3>1. cs = <<"total">> \o t
      BY <2>1, <2>2, <2>3
    <3> QED
      BY <1>3, <2>4, <3>1, Preceded
  <2> HIDE DEF cs
  <2>6. i = IF c = "total" THEN 1 ELSE IF c = "count" THEN 2 ELSE 3
    BY <1>6, <2>5 DEF Counters
  <2> HIDE DEF i
  <2> QED
    BY <1>1, <1>6, <2>5, <2>6 DEF Counters
<1> QED
  BY <1>4, <1>5, <1>6

(* What a pipeline executes next is new to it. *)
LEMMA IncrExecutes ==
  ASSUME CountType, OwnCommands, NEW r \in Requests, Incr(r)
  PROVE  /\ task[r] \in Counters /\ ~Executed(r, task[r])
         /\ task' = [task EXCEPT ![r] = task'[r]] /\ task'[r] \in {"count", "low", "inf", "counted"}
         /\ OwnCommands'
         /\ \A c \in Counters : Executed(r, c)' <=> Executed(r, c) \/ c = task[r]
<1>1. /\ latency[r] \in {"none", "quick", "slow"} /\ task[r] \in Counters
      /\ task[r] # "total" => latency[r] # "none"
      /\ task[r] = "low" => latency[r] = "quick"
  BY DEF CountType, OwnCommands, Incr, Counters
<1>2. task' = [task EXCEPT ![r] = NextCommand(r, task[r])] /\ latency' = latency
  BY DEF Incr
<1>3. /\ task[r] = "total" =>
           NextCommand(r, task[r]) = (IF latency[r] = "none" THEN "counted" ELSE "count")
      /\ task[r] = "count" => NextCommand(r, task[r]) = (IF latency[r] = "quick" THEN "low" ELSE "inf")
      /\ task[r] = "low" => NextCommand(r, task[r]) = "inf"
      /\ task[r] = "inf" => NextCommand(r, task[r]) = "counted"
  <2>1. PICK c \in Counters : c = task[r]
    BY <1>1
  <2>2. (c # "total" => latency[r] # "none") /\ (c = "low" => latency[r] = "quick")
    BY <1>1, <2>1
  <2>3. /\ c = "total" => NextCommand(r, c) = (IF latency[r] = "none" THEN "counted" ELSE "count")
        /\ c = "count" => NextCommand(r, c) = (IF latency[r] = "quick" THEN "low" ELSE "inf")
        /\ c = "low" => NextCommand(r, c) = "inf"
        /\ c = "inf" => NextCommand(r, c) = "counted"
    BY <1>1, <2>2, CommandOrder
  <2> QED
    BY <2>1, <2>3
<1>4. task'[r] = NextCommand(r, task[r])
  BY <1>2 DEF CountType
<1>5. task'[r] \in {"count", "low", "inf", "counted"}
  BY <1>1, <1>3, <1>4 DEF Counters
<1>6. OwnCommands'
  BY <1>1, <1>2, <1>3, <1>4 DEF OwnCommands, CountType, Counters
<1>7. ASSUME NEW c \in Counters PROVE Executed(r, c)' <=> Executed(r, c) \/ c = task[r]
  BY <1>1, <1>2, <1>3, <1>4 DEF Executed, Counters
<1>8. ~Executed(r, task[r])
  BY <1>1 DEF Executed, Counters
<1> QED
  BY <1>1, <1>2, <1>4, <1>5, <1>6, <1>7, <1>8

LEMMA CountingFinite ==
  ASSUME CountType, IsFiniteSet(Begun), NEW c
  PROVE  IsFiniteSet(Counting(c)) /\ Cardinality(Counting(c)) \in Nat
<1>1. Counting(c) \subseteq Begun
  BY DEF Counting, Begun, Executed
<1> QED
  BY <1>1, FS_Subset, FS_CardinalityType

LEMMA CountInvInit == ScrapeInit => CountInv
<1> SUFFICES ASSUME ScrapeInit PROVE CountInv
  OBVIOUS
<1>1. CountType /\ OwnCommands
  BY DEF ScrapeInit, MetricsInit, CountType, OwnCommands, Zero, TaskStages
<1>2. Begun = {} /\ \A c : Counting(c) = {}
  BY DEF ScrapeInit, MetricsInit, Begun, Counting, Executed
<1>3. \A c \in Counters : CountedOnce(c)
  BY <1>2, FS_EmptySet DEF CountedOnce, ScrapeInit, MetricsInit, Zero
<1> QED
  BY <1>1, <1>2, <1>3, FS_EmptySet DEF CountInv

(* A step that leaves the pipelines where they are. *)
LEMMA CountsKept ==
  ASSUME CountInv, CountType', OwnCommands', counter' = counter, lost' = lost,
         Begun' = Begun, \A r \in Requests, c \in Counters : Executed(r, c)' <=> Executed(r, c),
         epoch' = epoch
  PROVE  CountInv'
<1>1. \A c \in Counters : Counting(c)' = Counting(c)
  BY DEF Counting
<1> QED
  BY <1>1 DEF CountInv, CountedOnce

LEMMA BegunGrows ==
  ASSUME CountInv, NEW r \in Requests, Begun' \subseteq Begun \cup {r}
  PROVE  IsFiniteSet(Begun)'
<1>1. IsFiniteSet(Begun \cup {r})
  BY FS_AddElement DEF CountInv
<1> QED
  BY <1>1, FS_Subset

LEMMA IncrInv ==
  ASSUME CountInv, NEW r \in Requests, Incr(r)
  PROVE  CountInv'
<1> USE DEF CountInv
<1>1. /\ task[r] \in Counters /\ ~Executed(r, task[r])
      /\ task' = [task EXCEPT ![r] = task'[r]] /\ task'[r] \in {"count", "low", "inf", "counted"}
      /\ OwnCommands'
      /\ \A c \in Counters : Executed(r, c)' <=> Executed(r, c) \/ c = task[r]
  BY IncrExecutes
<1>2. /\ counter' = [counter EXCEPT ![task[r]] = counter[task[r]] + 1]
      /\ UNCHANGED <<latency, lost, epoch>>
  BY DEF Incr
<1>3. CountType'
  BY <1>1, <1>2 DEF CountType, TaskStages, Counters
<1>4. \A v \in Requests \ {r}, c \in Counters : Executed(v, c)' <=> Executed(v, c)
  BY <1>1, <1>2 DEF Executed, CountType
<1>5. IsFiniteSet(Begun)'
  <2>1. Begun' \subseteq Begun \cup {r}
    BY <1>1 DEF Begun, CountType
  <2> QED
    BY <2>1, BegunGrows
<1>6. ASSUME epoch' = 0, NEW c \in Counters PROVE CountedOnce(c)'
  <2>1. CountedOnce(c) /\ counter[c] \in Nat /\ lost \in Nat
    BY <1>2, <1>6 DEF CountType
  <2>2. IsFiniteSet(Counting(c)) /\ Cardinality(Counting(c)) \in Nat
    BY CountingFinite
  <2>3. CASE c = task[r]
    <3>1. Counting(c)' = Counting(c) \cup {r} /\ r \notin Counting(c)
      BY <1>1, <1>4, <2>3 DEF Counting
    <3>2. Cardinality(Counting(c)') = Cardinality(Counting(c)) + 1
      BY <2>2, <3>1, FS_AddElement
    <3>3. counter'[c] = counter[c] + 1
      BY <1>2, <2>3 DEF CountType
    <3> QED
      BY <1>2, <2>1, <2>2, <3>2, <3>3 DEF CountedOnce
  <2>4. CASE c # task[r]
    <3>1. Counting(c)' = Counting(c)
      BY <1>1, <1>4, <2>4 DEF Counting
    <3>2. counter'[c] = counter[c]
      BY <1>2, <2>4 DEF CountType
    <3> QED
      BY <1>2, <2>1, <3>1, <3>2 DEF CountedOnce
  <2> QED
    BY <2>3, <2>4
<1> QED
  BY <1>1, <1>3, <1>5, <1>6

(* A lost pipeline takes what it has executed out of the count, or leaves  *)
(* it there: lost makes up for either.                                     *)
LEMMA PipelineLostInv ==
  ASSUME CountInv, NEW r \in Requests, PipelineLost(r)
  PROVE  CountInv'
<1> USE DEF CountInv
<1>1. /\ task' = [task EXCEPT ![r] = task'[r]] /\ task'[r] \in {"total", "given_up"}
      /\ task[r] # "none" /\ lost' = lost + 1 /\ UNCHANGED <<counter, latency, epoch>>
  BY DEF PipelineLost, CountType, Counters
<1>2. CountType' /\ OwnCommands'
  BY <1>1 DEF CountType, OwnCommands, TaskStages, Counters
<1>3. \A c \in Counters : ~Executed(r, c)'
  BY <1>1 DEF Executed, Counters
<1>4. \A v \in Requests \ {r}, c \in Counters : Executed(v, c)' <=> Executed(v, c)
  BY <1>1 DEF Executed, CountType
<1>5. IsFiniteSet(Begun)'
  <2>1. Begun' \subseteq Begun \cup {r}
    BY <1>1 DEF Begun, CountType
  <2> QED
    BY <2>1, BegunGrows
<1>6. ASSUME epoch' = 0, NEW c \in Counters PROVE CountedOnce(c)'
  <2>1. CountedOnce(c) /\ counter[c] \in Nat /\ lost \in Nat
    BY <1>1, <1>6 DEF CountType
  <2>2. IsFiniteSet(Counting(c)) /\ Cardinality(Counting(c)) \in Nat
    BY CountingFinite
  <2>3. Counting(c)' = Counting(c) \ {r}
    BY <1>3, <1>4 DEF Counting
  <2>4. Cardinality(Counting(c)') = (IF r \in Counting(c) THEN Cardinality(Counting(c)) - 1
                                                        ELSE Cardinality(Counting(c)))
    BY <2>2, <2>3, FS_RemoveElement
  <2> QED
    BY <1>1, <2>1, <2>2, <2>4 DEF CountedOnce
<1> QED
  BY <1>2, <1>5, <1>6

LEMMA CountInvStep == CountInv /\ [ScrapeNext]_scrapevars => CountInv'
<1> SUFFICES ASSUME CountInv, [ScrapeNext]_scrapevars PROVE CountInv'
  OBVIOUS
<1>1. ASSUME UNCHANGED metrics PROVE CountInv'
  <2>1. UNCHANGED <<counter, task, latency, lost, epoch>>
    BY <1>1 DEF metrics
  <2>2. CountType' /\ OwnCommands'
    BY <2>1 DEF CountInv, CountType, OwnCommands
  <2>3. Begun' = Begun /\ \A r \in Requests, c \in Counters : Executed(r, c)' <=> Executed(r, c)
    BY <2>1 DEF Begun, Executed
  <2> QED
    BY <2>1, <2>2, <2>3, CountsKept
<1>2. ASSUME NEW r \in Requests, Response(r) PROVE CountInv'
  <2>1. /\ task' = [task EXCEPT ![r] = "total"] /\ task[r] = "none"
        /\ UNCHANGED <<counter, lost, epoch>>
    BY <1>2 DEF Response
  <2>2. PICK l \in {"none", "quick", "slow"} : latency' = [latency EXCEPT ![r] = l]
    BY <1>2 DEF Response
  <2>3. CountType' /\ OwnCommands'
    BY <2>1, <2>2 DEF CountInv, CountType, OwnCommands, TaskStages, Counters
  <2>4. IsFiniteSet(Begun)'
    <3>1. Begun' \subseteq Begun \cup {r}
      BY <2>1 DEF Begun, CountInv, CountType
    <3> QED
      BY <3>1, BegunGrows
  <2>5. \A c \in Counters : Counting(c)' = Counting(c)
    <3>1. ASSUME NEW v \in Requests, NEW c \in Counters
          PROVE  Executed(v, c)' <=> Executed(v, c)
      BY <2>1, <2>2 DEF Executed, CountInv, CountType, Counters
    <3> QED
      BY <3>1 DEF Counting
  <2> QED
    BY <2>1, <2>3, <2>4, <2>5 DEF CountInv, CountedOnce
<1>3. ASSUME NEW r \in Requests, TaskDone(r) PROVE CountInv'
  <2>1. /\ task' = [task EXCEPT ![r] = "done"] /\ task[r] = "counted"
        /\ UNCHANGED <<counter, latency, lost, epoch>>
    BY <1>3 DEF TaskDone
  <2>2. CountType' /\ OwnCommands'
    BY <2>1 DEF CountInv, CountType, OwnCommands, TaskStages, Counters
  <2>3. Begun' = Begun /\ \A v \in Requests, c \in Counters : Executed(v, c)' <=> Executed(v, c)
    BY <2>1 DEF Begun, Executed, CountInv, CountType
  <2> QED
    BY <2>1, <2>2, <2>3, CountsKept
<1>4. ASSUME CountersLost PROVE CountInv'
  <2>1. epoch' = epoch + 1 /\ epoch' # 0 /\ counter' = Zero /\ UNCHANGED <<task, latency, lost>>
    BY <1>4 DEF CountersLost, CountInv, CountType
  <2>2. CountType' /\ OwnCommands' /\ Begun' = Begun
    BY <2>1 DEF CountInv, CountType, OwnCommands, Zero, Begun
  <2> QED
    BY <2>1, <2>2 DEF CountInv
<1> QED
  BY <1>1, <1>2, <1>3, <1>4, IncrInv, PipelineLostInv
  DEF ScrapeNext, MetricsNext, scrapevars

(* A counter of the pipeline counts the tasks that executed its command:   *)
(* those that are done have, and of the others only those in between may.  *)
LEMMA DoneCounted ==
  ASSUME CountInv, NEW c \in Counters, CountedOnce(c),
         NEW L \in SUBSET {"none", "quick", "slow"},
         \A r \in Requests : task[r] = "done" => (latency[r] \in L <=> Executed(r, c))
  PROVE  LET done == Cardinality({r \in Requests : task[r] = "done" /\ latency[r] \in L})
             open == Cardinality({r \in Requests : task[r] \notin {"none", "done", "given_up"}}) + lost
         IN  counter[c] \in done..(done + open)
<1> DEFINE Done == {r \in Requests : task[r] = "done" /\ latency[r] \in L}
           UnderWay == {r \in Requests : task[r] \notin {"none", "done", "given_up"}}
<1>1. Done \subseteq Begun /\ UnderWay \subseteq Begun /\ Done \subseteq Counting(c)
  BY DEF Begun, Counting
<1>2. Counting(c) \subseteq Done \cup UnderWay
  BY DEF Counting, Executed
<1>3. /\ IsFiniteSet(Done) /\ IsFiniteSet(UnderWay) /\ IsFiniteSet(Counting(c))
      /\ Cardinality(Done) \in Nat /\ Cardinality(UnderWay) \in Nat /\ Cardinality(Counting(c)) \in Nat
  BY <1>1, CountingFinite, FS_Subset, FS_CardinalityType DEF CountInv
<1>4. Done \cap UnderWay = {}
  OBVIOUS
<1>5. /\ IsFiniteSet(Done \cup UnderWay)
      /\ Cardinality(Done \cup UnderWay) = Cardinality(Done) + Cardinality(UnderWay)
  <2> HIDE DEF Done, UnderWay
  <2>1. Cardinality(Done \cap UnderWay) = 0
    BY <1>4, FS_EmptySet
  <2>2. /\ IsFiniteSet(Done \cup UnderWay)
        /\ Cardinality(Done \cup UnderWay)
             = Cardinality(Done) + Cardinality(UnderWay) - Cardinality(Done \cap UnderWay)
    BY <1>3, FS_Union, Zenon
  <2> QED
    BY <1>3, <2>1, <2>2
<1>6. /\ Cardinality(Done) <= Cardinality(Counting(c))
      /\ Cardinality(Counting(c)) <= Cardinality(Done) + Cardinality(UnderWay)
  BY <1>1, <1>2, <1>3, <1>5, FS_Subset
<1>7. counter[c] \in Nat /\ lost \in Nat
  BY DEF CountInv, CountType
<1> HIDE DEF Done, UnderWay
<1>8. counter[c] \in Cardinality(Done)..(Cardinality(Done) + (Cardinality(UnderWay) + lost))
  BY <1>3, <1>6, <1>7 DEF CountedOnce
<1> QED
  BY <1>8 DEF Done, UnderWay

(* record_request_async: every counter of Redis is the number of requests  *)
(* counted in it, but for the tasks under way and the pipelines lost,      *)
(* however many requests there are and however often they are sent again.  *)
THEOREM RequestsCounted == ScrapeSpec => []CountersExact
<1>1. CountInv => CountersExact
  <2> SUFFICES ASSUME CountInv, epoch = 0 PROVE CountersExact
    BY DEF CountersExact
  <2>1. \A c \in Counters : CountedOnce(c)
    BY DEF CountInv
  <2>2. ASSUME NEW r \in Requests, task[r] = "done"
        PROVE  /\ latency[r] \in {"none", "quick", "slow"}
               /\ Executed(r, "total")
               /\ Executed(r, "count") <=> latency[r] \in {"quick", "slow"}
               /\ Executed(r, "inf") <=> latency[r] \in {"quick", "slow"}
               /\ Executed(r, "low") <=> latency[r] \in {"quick"}
    BY <2>2 DEF Executed, CountInv, CountType
  <2> QED
    BY <2>1, <2>2, DoneCounted DEF CountersExact, Counters
<1> QED
  BY CountInvInit, CountInvStep, <1>1, PTL DEF ScrapeSpec

-------------------------------------------------------------------------------
(* The text caches *)

Totals == {NoValue} \cup (Nat \X Nat)
Texts == [age : 0..TextTtl, total : Totals, ns : Nat]
Handlings == [at : {"idle", "counters", "ns", "scan", "store"}, worker : Exporters \cup {NoWorker},
              age : 0..TextTtl, total : Totals, ns : Nat]

CacheType ==
  /\ text \in [Exporters -> Texts]
  /\ nsAge \in [Exporters -> 0..NsTtl]
  /\ handler \in [Handlers -> Handlings]
  /\ \A h \in Handlers : handler[h].at # "idle" => handler[h].worker \in Exporters
  /\ scrape \in Handlers \cup {NoHandler} /\ elapsed \in 0..ScrapeInterval
  /\ seen \in Nat \X Nat

(* Prometheus waits for a handler that is at work, and gives up in time. *)
ScrapeServed ==
  /\ scrape # NoHandler => elapsed <= ScrapeTimeout
  /\ \A h \in Handlers : handler[h].at = "idle" => scrape # h

(* A total that was read is no more than Redis has, and it is no less than *)
(* what Prometheus has got ...                                             *)
Behind(t) == t # NoValue => AtLeast(Total, t)
Ahead(t) == t # NoValue => AtLeast(t, seen)

(* ... unless it was read before the end of the last scrape: a text of age *)
(* a was begun that long ago.                                              *)
AheadSince(t, a) == Ahead(t) \/ elapsed <= a + ScrapeTimeout

TotalsOrdered ==
  /\ AtLeast(Total, seen)
  /\ \A h \in Handlers :
       /\ handler[h].at \in {"idle", "counters"} => handler[h].total = NoValue
       /\ Behind(handler[h].total)
       /\ scrape = h => Ahead(handler[h].total)
       /\ handler[h].age < TextTtl => AheadSince(handler[h].total, handler[h].age)
  /\ \A w \in Exporters :
       /\ Behind(text[w].total)
       /\ Fresh(w) => AheadSince(text[w].total, text[w].age)

(* Key counts are of the time at which their text was begun, or were in    *)
(* their cache at that time.                                               *)
CountsAged ==
  /\ \A w \in Exporters : Fresh(w) => text[w].ns < NsTtl + text[w].age
  /\ \A h \in Handlers : handler[h].at \in {"scan", "store"} =>
       /\ handler[h].age < TextTtl => handler[h].ns < NsTtl + handler[h].age
       /\ scrape = h => handler[h].ns < NsTtl + elapsed

CacheInv == CacheType /\ ScrapeServed /\ TotalsOrdered /\ CountsAged

LEMMA CacheInvInit == ScrapeInit => CacheInv
<1> SUFFICES ASSUME ScrapeInit PROVE CacheInv
  OBVIOUS
<1> USE CacheAssumption
<1>1. Total = <<0, 0>> /\ seen = Total
  BY DEF ScrapeInit, MetricsInit, Zero, Counters, Total
<1>2. CacheType
  BY <1>1 DEF ScrapeInit, CacheType, Texts, Handlings, Totals, Expired, Idle
<1>3. ScrapeServed /\ CountsAged
  BY DEF ScrapeInit, ScrapeServed, CountsAged, Idle, Fresh, Expired
<1>4. TotalsOrdered
  BY <1>1 DEF ScrapeInit, TotalsOrdered, Behind, Ahead, AheadSince, AtLeast, Idle, Expired, Fresh
<1> QED
  BY <1>2, <1>3, <1>4 DEF CacheInv

(* Redis counts on: what was read stays behind it. *)
LEMMA CountingOn ==
  ASSUME CacheInv, CountType, CountType', AtLeast(Total', Total), UNCHANGED cache
  PROVE  CacheInv'
<1> USE DEF CacheInv, cache
<1>1. CacheType' /\ ScrapeServed' /\ CountsAged'
  BY DEF CacheType, ScrapeServed, CountsAged, Fresh
<1>2. Total \in Nat \X Nat /\ Total' \in Nat \X Nat
  BY DEF CountType, Total, Counters
<1>3. ASSUME NEW t \in Totals, t # NoValue, AtLeast(Total, t) PROVE AtLeast(Total', t)
  BY <1>2, <1>3, TotalsCompare DEF Totals
<1>4. \A h \in Handlers : Behind(handler[h].total)'
  BY <1>3 DEF TotalsOrdered, CacheType, Handlings, Behind
<1>5. \A w \in Exporters : Behind(text[w].total)'
  BY <1>3 DEF TotalsOrdered, CacheType, Texts, Behind
<1>6. AtLeast(Total', seen')
  BY <1>2, TotalsCompare DEF TotalsOrdered, CacheType
<1>7. TotalsOrdered'
  BY <1>4, <1>5, <1>6 DEF TotalsOrdered, Ahead, AheadSince, Fresh
<1> QED
  BY <1>1, <1>7

LEMMA HitInv ==
  ASSUME CacheInv, NEW w \in Exporters, Hit(w), Total' = Total
  PROVE  CacheInv' /\ AtLeast(seen', seen)
<1> USE CacheAssumption DEF CacheInv
<1>1. /\ Fresh(w) /\ elapsed = ScrapeInterval /\ elapsed' = 0 /\ seen' = Show(text[w])
      /\ UNCHANGED <<text, nsAge, handler, scrape>>
  BY DEF Hit
<1>2. scrape = NoHandler
  BY <1>1 DEF ScrapeServed
<1>3. /\ text[w].total \in Totals /\ text[w].age < TextTtl /\ text[w].age \in Nat
      /\ seen \in Nat \X Nat
  BY <1>1 DEF CacheType, Texts, Fresh
<1>4. Ahead(text[w].total)
  BY <1>1, <1>3 DEF TotalsOrdered, AheadSince
<1>5. AtLeast(seen', seen) /\ AtLeast(Total, seen') /\ seen' \in Nat \X Nat
  BY <1>1, <1>3, <1>4 DEF Show, Ahead, Totals, TotalsOrdered, Behind, AtLeast
<1>6. CacheType' /\ ScrapeServed'
  BY <1>1, <1>2, <1>5 DEF CacheType, ScrapeServed
<1>7. CountsAged'
  BY <1>1, <1>2 DEF CountsAged, Fresh, CacheType
<1>8. TotalsOrdered'
  BY <1>1, <1>2, <1>5 DEF TotalsOrdered, CacheType, Texts, Handlings, Behind, AheadSince, Fresh
<1> QED
  BY <1>5, <1>6, <1>7, <1>8

LEMMA MissInv ==
  ASSUME CacheInv, NEW h \in Handlers, NEW w \in Exporters, Miss(h, w), Total' = Total
  PROVE  CacheInv' /\ seen' = seen
<1> USE CacheAssumption DEF CacheInv
<1>1. /\ handler[h].at = "idle"
      /\ handler' = [handler EXCEPT ![h] = [Idle EXCEPT !.at = "counters", !.worker = w]]
      /\ UNCHANGED <<text, nsAge, seen>>
      /\ (scrape' = scrape /\ elapsed' = elapsed) \/ (scrape' = h /\ elapsed = ScrapeInterval /\ elapsed' = 0)
  BY DEF Miss
<1>2. CacheType'
  <2>1. [Idle EXCEPT !.at = "counters", !.worker = w].worker = w
    BY DEF Idle
  <2>2. [Idle EXCEPT !.at = "counters", !.worker = w] \in Handlings
    <3>1. Idle \in Handlings
      BY DEF Idle, Handlings, Totals
    <3> QED
      BY <3>1 DEF Handlings
  <2>3. handler' \in [Handlers -> Handlings]
    BY <1>1, <2>2 DEF CacheType
  <2>4. \A g \in Handlers : handler'[g].at # "idle" => handler'[g].worker \in Exporters
    BY <1>1, <2>1 DEF CacheType
  <2>5. 0 \in 0..ScrapeInterval
    OBVIOUS
  <2> QED
    BY <1>1, <2>3, <2>4, <2>5 DEF CacheType
<1>3. ScrapeServed'
  BY <1>1 DEF CacheType, ScrapeServed, Idle
<1>4. CountsAged'
  BY <1>1 DEF CacheType, CountsAged, Idle, Fresh
<1>5. TotalsOrdered'
  BY <1>1 DEF CacheType, Texts, Handlings, TotalsOrdered, Behind, Ahead, AheadSince, Idle, Fresh
<1> QED
  BY <1>1, <1>2, <1>3, <1>4, <1>5

(* A step of a handler that does not end it. *)
LEMMA HandlingInv ==
  ASSUME CacheInv, NEW h \in Handlers, GetMetrics(h) \/ GetNsCounts(h) \/ NsCounted(h),
         Total' = Total, Total \in Nat \X Nat
  PROVE  CacheInv' /\ seen' = seen
<1> USE CacheAssumption DEF CacheInv
<1>1. CASE GetMetrics(h)
  <2>1. /\ handler[h].at = "counters" /\ UNCHANGED <<text, nsAge, scrape, elapsed, seen>>
    BY <1>1 DEF GetMetrics
  <2>2. PICK v \in {Total, NoValue} : handler' = [handler EXCEPT ![h].at = "ns", ![h].total = v]
    BY <1>1 DEF GetMetrics
  <2>3. CacheType' /\ ScrapeServed' /\ CountsAged'
    <3>1. [handler[h] EXCEPT !.at = "ns", !.total = v] \in Handlings
      <4>1. handler[h] \in Handlings /\ v \in Totals
        BY DEF CacheType, Totals
      <4> QED
        BY <4>1 DEF Handlings
    <3>2. handler' = [handler EXCEPT ![h] = [handler[h] EXCEPT !.at = "ns", !.total = v]]
      BY <2>2
    <3>3. handler' \in [Handlers -> Handlings]
      BY <3>1, <3>2 DEF CacheType
    <3>4. handler[h] \in Handlings
      BY DEF CacheType
    <3>5. \A g \in Handlers : /\ handler'[g].at = IF g = h THEN "ns" ELSE handler[g].at
                              /\ handler'[g].worker = handler[g].worker
                              /\ handler'[g].ns = handler[g].ns /\ handler'[g].age = handler[g].age
      BY <3>2, <3>4 DEF CacheType, Handlings
    <3>6. CacheType'
      BY <2>1, <3>3, <3>5 DEF CacheType
    <3> QED
      BY <2>1, <3>5, <3>6 DEF ScrapeServed, CountsAged, Fresh
  <2>4. Behind(v) /\ Ahead(v)
    BY <2>2 DEF Behind, Ahead, AtLeast, TotalsOrdered
  <2>5. TotalsOrdered'
    BY <2>1, <2>2, <2>4 DEF CacheType, Texts, Handlings, TotalsOrdered, Behind, Ahead, AheadSince, Fresh
  <2> QED
    BY <2>1, <2>3, <2>5
<1>2. CASE GetNsCounts(h)
  <2>1. /\ handler[h].at = "ns" /\ UNCHANGED <<text, nsAge, scrape, elapsed, seen>>
        /\ handler[h].worker \in Exporters
    BY <1>2 DEF GetNsCounts, CacheType
  <2>2. PICK n \in Nat, s \in {"store", "scan"} :
          handler' = [handler EXCEPT ![h].at = s, ![h].ns = n] /\ n < NsTtl
    <3> DEFINE aged == nsAge[handler[h].worker]
               s == IF aged < NsTtl THEN "store" ELSE "scan"
               n == IF aged < NsTtl THEN aged ELSE 0
    <3>1. aged \in 0..NsTtl
      BY <2>1 DEF CacheType
    <3>2. n \in Nat /\ n < NsTtl /\ s \in {"store", "scan"}
      BY <3>1
    <3>3. handler' = [handler EXCEPT ![h].at = s, ![h].ns = n]
      BY <1>2 DEF GetNsCounts
    <3> QED
      BY <3>2, <3>3
  <2>3. CacheType' /\ ScrapeServed'
    <3>1. [handler[h] EXCEPT !.at = s, !.ns = n] \in Handlings
      <4>1. handler[h] \in Handlings /\ s \in {"idle", "counters", "ns", "scan", "store"}
        BY DEF CacheType
      <4> QED
        BY <4>1 DEF Handlings
    <3>2. handler' = [handler EXCEPT ![h] = [handler[h] EXCEPT !.at = s, !.ns = n]]
      BY <2>2
    <3>3. handler' \in [Handlers -> Handlings]
      BY <3>1, <3>2 DEF CacheType
    <3>4. \A g \in Handlers : handler'[g].at # "idle" => handler'[g].worker \in Exporters
      BY <2>1, <2>2 DEF CacheType, Handlings
    <3> QED
      BY <2>1, <2>2, <3>3, <3>4 DEF CacheType, Handlings, ScrapeServed
  <2>4. CountsAged'
    BY <2>1, <2>2 DEF CacheType, Handlings, CountsAged, Fresh
  <2>5. TotalsOrdered'
    BY <2>1, <2>2 DEF CacheType, Texts, Handlings, TotalsOrdered, Behind, Ahead, AheadSince, Fresh
  <2> QED
    BY <2>1, <2>3, <2>4, <2>5
<1>3. CASE NsCounted(h)
  <2>1. /\ handler[h].at = "scan" /\ UNCHANGED <<text, scrape, elapsed, seen>>
        /\ handler' = [handler EXCEPT ![h].at = "store"]
    BY <1>3 DEF NsCounted
  <2>2. nsAge' \in [Exporters -> 0..NsTtl]
    BY <1>3 DEF NsCounted, CacheType, Handlings
  <2>3. CacheType' /\ ScrapeServed'
    BY <2>1, <2>2 DEF CacheType, Handlings, ScrapeServed
  <2>4. CountsAged'
    BY <2>1 DEF CacheType, Handlings, CountsAged, Fresh
  <2>5. TotalsOrdered'
    BY <2>1 DEF CacheType, Texts, Handlings, TotalsOrdered, Behind, Ahead, AheadSince, Fresh
  <2> QED
    BY <2>1, <2>3, <2>4, <2>5
<1> QED
  BY <1>1, <1>2, <1>3

(* A handler ends; if it is Prometheus's, what it made has been seen. *)
LEMMA EndInv ==
  ASSUME CacheInv, NEW h \in Handlers, Store(h) \/ Fails(h), Total' = Total
  PROVE  CacheInv' /\ AtLeast(seen', seen)
<1> USE CacheAssumption DEF CacheInv
<1>1. /\ handler' = [handler EXCEPT ![h] = Idle] /\ UNCHANGED <<nsAge, elapsed>>
      /\ scrape' = (IF scrape = h THEN NoHandler ELSE scrape)
      /\ handler[h].worker \in Exporters
  BY DEF Store, Fails, End, CacheType
<1>2. /\ seen' = seen \/ (scrape = h /\ seen' = Show(handler[h]))
      /\ UNCHANGED text
           \/ (text' = [text EXCEPT ![handler[h].worker]
                          = Text(handler[h].age, handler[h].total, handler[h].ns)]
               /\ handler[h].at = "store")
  <2>1. (CHOOSE t \in {handler[h]} : TRUE) = handler[h]
    OBVIOUS
  <2> QED
    BY <2>1 DEF Store, Fails, End, StoredAge
<1>3. /\ handler[h] \in Handlings /\ seen \in Nat \X Nat
      /\ Behind(handler[h].total) /\ (scrape = h => Ahead(handler[h].total))
      /\ handler[h].age < TextTtl => AheadSince(handler[h].total, handler[h].age)
  BY DEF CacheType, TotalsOrdered
<1>4. AtLeast(seen', seen) /\ AtLeast(Total, seen') /\ seen' \in Nat \X Nat
  BY <1>2, <1>3 DEF Show, Ahead, Handlings, Totals, TotalsOrdered, Behind, AtLeast
<1>5. seen' = seen \/ elapsed <= ScrapeTimeout
  BY <1>1, <1>2 DEF ScrapeServed
<1>6. Text(handler[h].age, handler[h].total, handler[h].ns) \in Texts
  BY <1>3 DEF Text, Texts, Handlings, Expired, Totals
<1>7. CacheType' /\ ScrapeServed'
  <2>1. text' \in [Exporters -> Texts]
    BY <1>1, <1>2, <1>6 DEF CacheType
  <2> QED
    BY <1>1, <1>4, <2>1 DEF CacheType, Handlings, Idle, Totals, ScrapeServed
<1>8. CountsAged'
  <2>1. \A w \in Exporters : Fresh(w)' => text'[w].ns < NsTtl + text'[w].age
    BY <1>1, <1>2, <1>3 DEF CountsAged, Fresh, Text, Expired, CacheType, Handlings
  <2> QED
    BY <1>1, <2>1 DEF CountsAged, CacheType, Idle
<1>9. TotalsOrdered'
  <2>1. ASSUME NEW g \in Handlers
        PROVE  /\ handler'[g].at \in {"idle", "counters"} => handler'[g].total = NoValue
               /\ Behind(handler[g].total)'
               /\ scrape' = g => Ahead(handler[g].total)'
               /\ handler'[g].age < TextTtl => AheadSince(handler[g].total, handler[g].age)'
    BY <1>1, <1>2, <1>5 DEF CacheType, Handlings, TotalsOrdered, Behind, Ahead, AheadSince, Idle
  <2>2. ASSUME NEW w \in Exporters
        PROVE  Behind(text[w].total)' /\ (Fresh(w)' => AheadSince(text[w].total, text[w].age)')
    BY <1>1, <1>2, <1>3, <1>5
    DEF CacheType, Texts, Handlings, TotalsOrdered, Behind, Ahead, AheadSince, Fresh, Text, Expired
  <2> QED
    BY <1>4, <2>1, <2>2 DEF TotalsOrdered
<1> QED
  BY <1>4, <1>7, <1>8, <1>9

LEMMA TimeInv ==
  ASSUME CacheInv, TimePasses, Total' = Total
  PROVE  CacheInv' /\ seen' = seen
<1> USE CacheAssumption DEF CacheInv
<1>1. /\ elapsed' = Older(elapsed, ScrapeInterval)
      /\ scrape' = (IF elapsed = ScrapeTimeout THEN NoHandler ELSE scrape)
      /\ seen' = seen
  BY DEF TimePasses
<1>2. ASSUME NEW w \in Exporters
      PROVE  /\ text'[w] = Text(text[w].age + 1, text[w].total, Older(text[w].ns, MaxAge))
             /\ text'[w] \in Texts /\ nsAge'[w] \in 0..NsTtl
             /\ Fresh(w)' => /\ text[w].age + 1 < TextTtl /\ text'[w].age = text[w].age + 1
                             /\ text'[w].total = text[w].total
                             /\ text'[w].ns <= text[w].ns + 1
             /\ text'[w].total \in {text[w].total, NoValue}
  <2>1. text'[w] = Text(text[w].age + 1, text[w].total, Older(text[w].ns, MaxAge))
    BY DEF TimePasses
  <2>2. text[w].age \in 0..TextTtl /\ text[w].total \in Totals /\ text[w].ns \in Nat
    BY DEF CacheType, Texts
  <2>3. Older(text[w].ns, MaxAge) \in Nat /\ Older(text[w].ns, MaxAge) <= text[w].ns + 1
    BY <2>2 DEF Older
  <2>4. nsAge'[w] \in 0..NsTtl
    <3>1. nsAge'[w] = Older(nsAge[w], NsTtl) /\ nsAge[w] \in 0..NsTtl
      BY DEF TimePasses, CacheType
    <3> QED
      BY <3>1 DEF Older
  <2> QED
    BY <2>1, <2>2, <2>3, <2>4 DEF Text, Texts, Expired, Totals, Fresh
<1>3. ASSUME NEW h \in Handlers
      PROVE  /\ handler'[h] \in Handlings
             /\ handler'[h].at = handler[h].at /\ handler'[h].total = handler[h].total
             /\ handler'[h].worker = handler[h].worker
             /\ handler[h].at # "idle" => handler'[h].age = Older(handler[h].age, TextTtl)
             /\ handler[h].at = "idle" => handler'[h].age = handler[h].age
             /\ handler[h].at \in {"scan", "store"} => handler'[h].ns <= handler[h].ns + 1
  <2>1. handler[h] \in Handlings
    BY DEF CacheType
  <2>2. CASE handler[h].at = "idle"
    BY <2>1, <2>2 DEF TimePasses
  <2>3. CASE handler[h].at # "idle"
    <3> DEFINE n == IF handler[h].at \in {"scan", "store"} THEN Older(handler[h].ns, MaxAge) ELSE 0
    <3>1. handler'[h] = [handler[h] EXCEPT !.age = Older(handler[h].age, TextTtl), !.ns = n]
      BY <2>3 DEF TimePasses
    <3>2. Older(handler[h].age, TextTtl) \in 0..TextTtl
      BY <2>1 DEF Handlings, Older
    <3>3. n \in Nat /\ (handler[h].at \in {"scan", "store"} => n <= handler[h].ns + 1)
      BY <2>1 DEF Handlings, Older
    <3> HIDE DEF n
    <3> QED
      BY <2>1, <2>3, <3>1, <3>2, <3>3 DEF Handlings
  <2> QED
    BY <2>2, <2>3
<1>4. CacheType'
  <2>1. text' \in [Exporters -> Texts] /\ nsAge' \in [Exporters -> 0..NsTtl]
    BY <1>2 DEF TimePasses
  <2>2. handler' \in [Handlers -> Handlings]
    BY <1>3 DEF TimePasses
  <2>3. elapsed' \in 0..ScrapeInterval
    BY <1>1 DEF CacheType, Older
  <2> QED
    BY <1>1, <1>3, <2>1, <2>2, <2>3 DEF CacheType
<1>5. scrape' # NoHandler => scrape' = scrape /\ elapsed' = elapsed + 1 /\ elapsed' <= ScrapeTimeout
  BY <1>1 DEF ScrapeServed, Older, CacheType
<1>6. ScrapeServed'
  BY <1>1, <1>3, <1>5 DEF ScrapeServed, CacheType
<1>7. CountsAged'
  <2>1. ASSUME NEW w \in Exporters, Fresh(w)'
        PROVE  text'[w].ns < NsTtl + text'[w].age
    <3>1. Fresh(w) /\ text[w].age \in Nat /\ text[w].ns \in Nat
      BY <1>2, <2>1 DEF Fresh, CacheType, Texts
    <3>2. text'[w].age \in Nat /\ text'[w].ns \in Nat
      BY <1>2 DEF Texts
    <3> QED
      BY <1>2, <2>1, <3>1, <3>2 DEF CountsAged
  <2>2. ASSUME NEW h \in Handlers, handler'[h].at \in {"scan", "store"}
        PROVE  /\ handler'[h].age < TextTtl => handler'[h].ns < NsTtl + handler'[h].age
               /\ scrape' = h => handler'[h].ns < NsTtl + elapsed'
    <3>1. /\ handler[h].age \in 0..TextTtl /\ handler[h].ns \in Nat /\ handler'[h].ns \in Nat
          /\ elapsed \in Nat /\ handler[h].at \in {"scan", "store"}
      BY <1>3, <2>2 DEF CacheType, Handlings
    <3>2. handler'[h].age = Older(handler[h].age, TextTtl) /\ handler'[h].ns <= handler[h].ns + 1
      BY <1>3, <3>1
    <3> QED
      BY <1>5, <3>1, <3>2 DEF CountsAged, Older
  <2> QED
    BY <2>1, <2>2 DEF CountsAged
<1>8. TotalsOrdered'
  <2>1. elapsed \in Nat /\ elapsed' <= elapsed + 1 /\ elapsed' \in Nat
    BY <1>1 DEF Older, CacheType
  <2>2. ASSUME NEW h \in Handlers
        PROVE  /\ handler'[h].at \in {"idle", "counters"} => handler'[h].total = NoValue
               /\ Behind(handler[h].total)'
               /\ scrape' = h => Ahead(handler[h].total)'
               /\ handler'[h].age < TextTtl => AheadSince(handler[h].total, handler[h].age)'
    <3>1. handler[h].age \in 0..TextTtl
      BY DEF CacheType, Handlings
    <3> QED
      BY <1>1, <1>3, <1>5, <2>1, <3>1 DEF TotalsOrdered, Behind, Ahead, AheadSince, Older
  <2>3. ASSUME NEW w \in Exporters
        PROVE  Behind(text[w].total)' /\ (Fresh(w)' => AheadSince(text[w].total, text[w].age)')
    <3>1. text[w].age \in 0..TextTtl
      BY DEF CacheType, Texts
    <3>2. Behind(text[w].total)'
      BY <1>2 DEF TotalsOrdered, Behind
    <3>3. ASSUME Fresh(w)' PROVE AheadSince(text[w].total, text[w].age)'
      <4>1. AheadSince(text[w].total, text[w].age)
        BY <1>2, <3>1, <3>3 DEF TotalsOrdered, Fresh
      <4> QED
        BY <1>1, <1>2, <2>1, <3>1, <3>3, <4>1 DEF AheadSince, Ahead
    <3> QED
      BY <3>2, <3>3
  <2> QED
    BY <1>1, <2>2, <2>3 DEF TotalsOrdered
<1> QED
  BY <1>1, <1>4, <1>6, <1>7, <1>8

LEMMA TotalCounted == CountType => Total \in Nat \X Nat
BY DEF CountType, Total, Counters

LEMMA CacheStep ==
  CountInv /\ CountInv' /\ CacheInv /\ [ScrapeNext]_scrapevars => CacheInv' /\ AtLeast(seen', seen)
<1> SUFFICES ASSUME CountInv, CountInv', CacheInv, [ScrapeNext]_scrapevars
             PROVE  CacheInv' /\ AtLeast(seen', seen)
  OBVIOUS
<1>1. AtLeast(seen, seen) /\ CountType /\ CountType' /\ Total \in Nat \X Nat
  BY TotalCounted DEF CacheInv, CacheType, AtLeast, CountInv
<1>2. CASE MetricsNext /\ UNCHANGED cache
  <2>1. AtLeast(Total', Total)
    <3>1. epoch' \in Nat /\ epoch \in Nat /\ counter["total"] \in Nat /\ counter'["total"] \in Nat
      BY <1>1 DEF CountType, Counters
    <3>2. epoch' > epoch \/ (epoch' = epoch /\ counter'["total"] >= counter["total"])
      BY <1>1, <1>2, <3>1
      DEF MetricsNext, Response, Incr, PipelineLost, TaskDone, CountersLost, CountType, Counters
    <3> QED
      BY <3>1, <3>2 DEF AtLeast, Total
  <2>2. seen' = seen
    BY <1>2 DEF cache
  <2> QED
    BY <1>1, <1>2, <2>1, <2>2, CountingOn
<1>3. CASE CacheNext /\ UNCHANGED metrics
  <2>1. Total' = Total
    BY <1>3 DEF metrics, Total
  <2>2. ASSUME NEW w \in Exporters, Hit(w) PROVE CacheInv' /\ AtLeast(seen', seen)
    BY <2>1, <2>2, HitInv
  <2>3. ASSUME NEW h \in Handlers, NEW w \in Exporters, Miss(h, w)
        PROVE  CacheInv' /\ AtLeast(seen', seen)
    BY <1>1, <2>1, <2>3, MissInv
  <2>4. ASSUME NEW h \in Handlers, Handle(h) PROVE CacheInv' /\ AtLeast(seen', seen)
    BY <1>1, <2>1, <2>4, HandlingInv, EndInv DEF Handle
  <2>5. ASSUME TimePasses PROVE CacheInv' /\ AtLeast(seen', seen)
    BY <1>1, <2>1, <2>5, TimeInv
  <2> QED
    BY <1>3, <2>2, <2>3, <2>4, <2>5 DEF CacheNext
<1>4. CASE UNCHANGED scrapevars
  <2>1. Total' = Total /\ UNCHANGED cache
    BY <1>4 DEF scrapevars, metrics, Total
  <2>2. AtLeast(Total', Total) /\ seen' = seen
    BY <1>1, <2>1 DEF AtLeast, cache
  <2> QED
    BY <1>1, <2>1, <2>2, CountingOn
<1> QED
  BY <1>2, <1>3, <1>4 DEF ScrapeNext

(* prometheus_metrics: a scrape never shows a request counter below that   *)
(* of an earlier one, for all numbers of workers and of requests for       *)
(* /metrics at a time, and for all TTLs shorter than the time between two  *)
(* scrapes.                                                                *)
THEOREM ScrapesNeverGoBack == ScrapeSpec => ScrapesMonotone
<1>1. CountInv /\ CountInv' /\ CacheInv /\ [ScrapeNext]_scrapevars => [AtLeast(seen', seen)]_scrapevars
  BY CacheStep
<1>2. CountInv /\ CountInv' /\ CacheInv /\ [ScrapeNext]_scrapevars => CacheInv'
  BY CacheStep
<1> QED
  BY CountInvInit, CountInvStep, CacheInvInit, <1>1, <1>2, PTL DEF ScrapeSpec, ScrapesMonotone

(* _get_ns_counts_cached under the text cache: key counts that Prometheus  *)
(* can get are younger than both TTLs together, or than their own and the  *)
(* scrape.                                                                 *)
THEOREM NsCountsAge == ScrapeSpec => []NsCountsFresh
<1>1. CacheInv => NsCountsFresh
  <2> SUFFICES ASSUME CacheInv PROVE NsCountsFresh
    OBVIOUS
  <2> USE CacheAssumption DEF CacheInv
  <2>1. ASSUME NEW w \in Exporters, Fresh(w) PROVE text[w].ns < NsTtl + TextTtl
    BY <2>1 DEF CacheType, Texts, CountsAged, Fresh
  <2>2. ASSUME NEW h \in Handlers, handler[h].at = "store", scrape = h
        PROVE  handler[h].ns < NsTtl + ScrapeTimeout
    BY <2>2 DEF CacheType, Handlings, CountsAged, ScrapeServed
  <2> QED
    BY <2>1, <2>2 DEF NsCountsFresh
<1>2. CountInv /\ CountInv' /\ CacheInv /\ [ScrapeNext]_scrapevars => CacheInv'
  BY CacheStep
<1> QED
  BY CountInvInit, CountInvStep, CacheInvInit, <1>1, <1>2, PTL DEF ScrapeSpec
===============================================================================
