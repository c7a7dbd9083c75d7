------------------------------ MODULE StartupLock ------------------------------
(***************************************************************************)
(* The startup lock of app/utils/file_logger.py: of the worker processes   *)
(* that start, one logs the startup sequence.                              *)
(*                                                                         *)
(* The lock is an flock of the file .redgw_startup.lock.  flock locks the  *)
(* file that was opened, not its name: "lockfile" is the file the name     *)
(* stands for, fd[w] the file that w has open.  A file lives on without a  *)
(* name while a worker has it open.                                        *)
(***************************************************************************)
EXTENDS WorkerProcesses

NoFile == 0
Files == 1..(Cardinality(Workers) + 1)

VARIABLES
  lockfile,  \* the file under the lock's name, or NoFile
  fd,        \* _startup_lock_fd: the file w has open, or NoFile
  flocked,   \* flocked[w]: w holds the flock of fd[w]: it is the startup logger
  overlap    \* some worker's open and flock overlapped another's unlock and unlink

lockvars == <<lockfile, fd, flocked, overlap>>

LockInit ==
  /\ lockfile = NoFile
  /\ fd = [w \in Workers |-> NoFile]
  /\ flocked = [w \in Workers |-> FALSE]
  /\ overlap = FALSE

Unused == Files \ ({lockfile} \cup {fd[w] : w \in Workers})

(* open(lock_path, "w"): the file of that name, created if there is none. *)
OpenLock(w) ==
  LET f == IF lockfile # NoFile THEN lockfile ELSE CHOOSE f \in Unused : TRUE IN
  /\ lockfile' = f
  /\ fd' = [fd EXCEPT ![w] = f]
  /\ UNCHANGED <<flocked, overlap>>

(* flock(LOCK_EX | LOCK_NB) succeeds unless another worker locks the same  *)
(* file; "releasing" are the workers that have unlocked and not unlinked.  *)
FlockOk_Always(w) == TRUE
FlockOk(w) == \A v \in Workers : flocked[v] => fd[v] # fd[w]

Flock(w, releasing) ==
  /\ FlockOk(w)
  /\ flocked' = [flocked EXCEPT ![w] = TRUE]
  /\ overlap' = (overlap \/ releasing # {} \/ fd[w] # lockfile)
  /\ UNCHANGED <<lockfile, fd>>

(* OSError, from flock because the file is locked, or from the file system:*)
(* the worker starts without logging.                                      *)
FlockFails(w) ==
  /\ fd' = [fd EXCEPT ![w] = NoFile]
  /\ UNCHANGED <<lockfile, flocked, overlap>>

(* release_startup_lock: LOCK_UN and close, then unlink by name.  A worker *)
(* that is not the startup logger has nothing to release.                  *)
Releases_Anyone(w) == TRUE
Releases(w) == fd[w] # NoFile

Unlock(w) ==
  /\ fd' = [fd EXCEPT ![w] = NoFile]
  /\ flocked' = [flocked EXCEPT ![w] = FALSE]
  /\ UNCHANGED <<lockfile, overlap>>

Unlink(w) ==
  /\ lockfile' \in {NoFile, lockfile}
  /\ UNCHANGED <<fd, flocked, overlap>>

(* The process is gone: the kernel closes its files, which unlocks them. *)
ProcessGone(w) ==
  /\ fd' = [fd EXCEPT ![w] = NoFile]
  /\ flocked' = [flocked EXCEPT ![w] = FALSE]
  /\ UNCHANGED <<lockfile, overlap>>
===============================================================================
