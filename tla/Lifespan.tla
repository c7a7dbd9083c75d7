------------------------------- MODULE Lifespan -------------------------------
(***************************************************************************)
(* lifespan() of app/main.py in every worker process of gunicorn: startup, *)
(* the status monitor beside the requests, and the orderly stop (SIGTERM   *)
(* or max_requests), with crashes and restarts.  The audit logger, which   *)
(* stops between the startup lock and Redis, is in AuditTrail.             *)
(***************************************************************************)
EXTENDS StartupLock, StatusMonitor

lifespanvars == <<processes, lockvars, monvars>>

LifespanInit ==
  ProcessInit /\ LockInit /\ MonitorInit

Start(w) == StartProcess(w) /\ UNCHANGED <<lockvars, monvars>>

(* acquire_startup_lock *)
Open(w) ==
  /\ stage[w] = "open"
  /\ \/ OpenLock(w) /\ Goto(w, "flock")
     \/ FlockFails(w) /\ Goto(w, "connect")
  /\ UNCHANGED monvars

AcquireStartupLock(w) ==
  /\ stage[w] = "flock"
  /\ Flock(w, {v \in Workers : stage[v] = "unlink"}) \/ FlockFails(w)
  /\ Goto(w, "connect")
  /\ UNCHANGED monvars

(* manager.connect: the monitor is started only if Redis has answered. *)
Connect(w) ==
  /\ stage[w] = "connect"
  /\ Goto(w, "serve")
  /\ MonitorStart(w) \/ UNCHANGED monvars
  /\ UNCHANGED lockvars

(* The stop: _monitor_shutdown is set. *)
Stop(w) ==
  /\ stage[w] = "serve"
  /\ Goto(w, "join")
  /\ UNCHANGED <<lockvars, monvars>>

(* The task sees the event where it waits, or is cancelled where it is     *)
(* after three seconds.                                                    *)
EndMonitor(w) ==
  /\ stage[w] = "join" /\ monitor[w] # "off"
  /\ Off(w)
  /\ UNCHANGED <<processes, lockvars>>

Unlocks(w) ==
  /\ stage[w] = "join" /\ monitor[w] = "off"
  /\ IF Releases(w) THEN Unlock(w) /\ Goto(w, "unlink")
                    ELSE Goto(w, "disconnect") /\ UNCHANGED lockvars
  /\ UNCHANGED monvars

Unlinks(w) ==
  /\ stage[w] = "unlink"
  /\ Unlink(w) /\ Goto(w, "disconnect")
  /\ UNCHANGED monvars

(* manager.disconnect, and the process ends. *)
Disconnect(w) ==
  /\ stage[w] = "disconnect"
  /\ Goto(w, "down")
  /\ UNCHANGED <<lockvars, monvars>>

(* A crash, or the SystemExit of a fatal configuration error. *)
Crash(w) ==
  /\ stage[w] # "down"
  /\ Goto(w, "down")
  /\ ProcessGone(w)
  /\ Off(w)

Monitor(w) == MonitorStep(w) /\ UNCHANGED <<processes, lockvars>>

Step(w) ==
  \/ Open(w) \/ AcquireStartupLock(w) \/ Connect(w) \/ EndMonitor(w)
  \/ Unlocks(w) \/ Unlinks(w) \/ Disconnect(w)

Environment ==
  /\ Tick \/ LeaderKeyLost
  /\ UNCHANGED <<processes, lockvars>>

LifespanNext ==
  \/ Environment
  \/ \E w \in Workers : Start(w) \/ Step(w) \/ Monitor(w) \/ Stop(w) \/ Crash(w)

LifespanSpec == LifespanInit /\ [][LifespanNext]_lifespanvars

-------------------------------------------------------------------------------
(* Properties *)

Stages == {"down", "open", "flock", "connect", "serve", "join", "unlink", "disconnect"}

(* Every variable stays in its type, a lock is held of an open file only,  *)
(* and a worker that is down has nothing.                                  *)
LifespanTypeOK ==
  /\ stage \in [Workers -> Stages] /\ starts \in 0..MaxStarts
  /\ lockfile \in Files \cup {NoFile} /\ fd \in [Workers -> Files \cup {NoFile}]
  /\ flocked \in [Workers -> BOOLEAN] /\ overlap \in BOOLEAN
  /\ \A w \in Workers : (flocked[w] => fd[w] # NoFile) /\ (stage[w] = "down" => fd[w] = NoFile)
  /\ monitor \in [Workers -> {"off", "set", "emit", "wait"}]
  /\ timer \in [Workers -> 0..Interval]
  /\ leaderKey \in 0..Ttl /\ apart \in 0..Ttl /\ silence \in 0..(Longest + 1)

Loggers == {w \in Workers : flocked[w]}

(* However workers start, crash and stop, one of them at most logs the    *)
(* startup ("first worker only"), unless a worker opened the lock file     *)
(* before, and locked it after, another gave it up: release_startup_lock   *)
(* unlocks first and unlinks last, and in between the file is anybody's.   *)
OneUnlessOverlap == ~overlap => Cardinality(Loggers) <= 1

(* Two elections, hence two STATUS lines, are at least Ttl apart, whichever*)
(* workers win them, unless Redis lost the leader key between them.        *)
ElectionsApart == [][\A w \in Workers : Elect(w) /\ monitor'[w] = "emit" => apart = Ttl]_lifespanvars

(* While at every moment some worker monitors and Redis answers, no gap    *)
(* between two STATUS lines is longer than Interval + Ttl: a leader that   *)
(* dies is replaced, whatever the phases of the others.                    *)
NoSilence == silence <= Longest
===============================================================================
