------------------------------ MODULE LogRotation ------------------------------
(***************************************************************************)
(* app/utils/file_logger.py: DailySizeRotatingHandler, which writes the    *)
(* operational log and the audit log, and its background gzip thread.      *)
(*                                                                         *)
(* A directory maps names to files; a rename or an unlink changes the      *)
(* directory and not the file, so a stream or a compression keeps the file *)
(* it has opened.  Lines are numbered as they are written, all of size 1;  *)
(* a compressed file counts 1.  The handler runs under its lock, its       *)
(* thread beside it, and workers beside each other.                        *)
(***************************************************************************)
EXTENDS Integers, Sequences, FiniteSetsExt

CONSTANTS Workers,      \* processes that log to the same directory
          MaxBytes,     \* handler.maxBytes, in lines
          BackupCount,  \* handler.backupCount
          Retention,    \* handler.retention_days
          Caps,         \* values of max_total_bytes, 0 for no limit
          MaxLines, MaxDay, MaxCrashes   \* bounds

ASSUME LogAssumption ==
  /\ MaxBytes \in Nat \ {0} /\ BackupCount \in Nat \ {0} /\ Retention \in Nat
  /\ Caps \subseteq Nat /\ MaxLines \in Nat /\ MaxDay \in Nat /\ MaxCrashes \in Nat

VARIABLES
  today, cap,
  dir,        \* dir[n]: the file of name n
  data,       \* data[f]: the lines and the mtime of file f
  log,        \* log[l]: the date of the file that line l was written to
  step,       \* step[w]: where the handler of w stands
  record,     \* record[w]: it has a line to write
  date,       \* date[w]: _current_date
  size,       \* size[w]: _current_bytes
  stream,     \* stream[w]: the file it writes to
  doomed,     \* doomed[w]: names that cleanup_old_files is to unlink
  found,      \* found[w]: what _cleanup_by_total_size has listed
  total,      \* total[w]: the size it believes the directory has
  jobs,       \* jobs[w]: names to compress, the one in hand first
  gzip,       \* gzip[w]: the gzip thread: its step, source and target files
  discarded,  \* lines of files unlinked by the backup count or the size cap
  torn,       \* lines of a file whose compression a crash has cut
  crashes

files == <<dir, data>>
handler == <<step, record, date, size, stream, doomed, found, total>>
thread == <<jobs, gzip>>
ghosts == <<discarded, torn, crashes>>
rotationvars == <<today, cap, files, log, handler, thread, ghosts>>

Days == 0..MaxDay
Names == [day: Days, n: 0..BackupCount, gz: BOOLEAN]
Name(d, n, z) == [day |-> d, n |-> n, gz |-> z]
Base(d) == Name(d, 0, FALSE)
Gz(name) == [name EXCEPT !.gz = TRUE]

(* A file is the n-th that a handler has created, or the one gzip makes of *)
(* it: its identity, which a rename keeps.                                 *)
File(n) == [no |-> n, gz |-> FALSE]
NoFile == File(0)
Idle == [at |-> "idle", src |-> NoFile, dst |-> NoFile]
NewFile == [lines |-> {}, mtime |-> Len(log)]
SizeOf(f) == IF f.gz THEN 1 ELSE Cardinality(data[f].lines)
Bind(d, n, f) == [m \in DOMAIN d \cup {n} |-> IF m = n THEN f ELSE d[m]]
Unbind(d, N) == [m \in DOMAIN d \ N |-> d[m]]
LinesOf(N) == UNION {data[dir[n]].lines : n \in N \cap DOMAIN dir}

(* The file of name n is opened for appending: <<directory, files, file>>. *)
Opened(n) ==
  LET new == File(Max({f.no : f \in DOMAIN data}) + 1) IN
  IF n \in DOMAIN dir THEN <<dir, data, dir[n]>>
                      ELSE <<Bind(dir, n, new), Bind(data, new, NewFile), new>>

RotationInit ==
  /\ today = 0 /\ cap \in Caps
  /\ dir = [n \in {Base(0)} |-> File(1)]
  /\ data = [f \in {File(1)} |-> [lines |-> {}, mtime |-> 0]]
  /\ log = <<>>
  /\ step = [w \in Workers |-> "idle"] /\ record = [w \in Workers |-> FALSE]
  /\ date = [w \in Workers |-> 0] /\ size = [w \in Workers |-> 0]
  /\ stream = [w \in Workers |-> File(1)]
  /\ doomed = [w \in Workers |-> {}]
  /\ found = [w \in Workers |-> {}] /\ total = [w \in Workers |-> 0]
  /\ jobs = [w \in Workers |-> <<>>] /\ gzip = [w \in Workers |-> Idle]
  /\ discarded = {} /\ torn = {} /\ crashes = 0

-------------------------------------------------------------------------------
Enter(w, l) == step' = [step EXCEPT ![w] = l]

(* A line goes to the stream. *)
Write(w) ==
  LET l == Len(log) + 1 IN
  /\ data' = [data EXCEPT ![stream[w]] = [lines |-> @.lines \cup {l}, mtime |-> l]]
  /\ log' = Append(log, date[w])

ShouldRollover(w) == today # date[w] \/ size[w] + 1 >= MaxBytes

(* emit: shouldRollover says no, and counts the line ... *)
Emit(w) ==
  /\ step[w] = "idle" /\ Len(log) < MaxLines
  /\ ~ShouldRollover(w)
  /\ size' = [size EXCEPT ![w] = @ + 1]
  /\ Write(w)
  /\ UNCHANGED <<today, cap, dir, step, record, date, stream, doomed, found, total, thread, ghosts>>

(* ... or yes: doRollover waits for the compressions of this process, then *)
(* looks at the date (NewDay, Shift).                                      *)
CompressionsDone_Ignored(w) == TRUE
CompressionsDone(w) == jobs[w] = <<>>

Rollover(w) ==
  /\ step[w] = "idle" /\ Len(log) < MaxLines
  /\ ShouldRollover(w) /\ CompressionsDone(w)
  /\ record' = [record EXCEPT ![w] = TRUE]

(* Another day: the old file is compressed, and cleanup_old_files lists    *)
(* what has passed the retention.                                          *)
Expired == {n \in DOMAIN dir : n.day < today - Retention}

NewDay(w) ==
  /\ Rollover(w) /\ today # date[w]
  /\ jobs' = [jobs EXCEPT ![w] = IF Base(date[w]) \in DOMAIN dir THEN Append(@, Base(date[w])) ELSE @]
  /\ date' = [date EXCEPT ![w] = today]
  /\ doomed' = [doomed EXCEPT ![w] = Expired]
  /\ Enter(w, "expire")
  /\ UNCHANGED <<today, cap, files, log, size, stream, found, total, gzip, ghosts>>

(* _shift_backups: the last backup is unlinked, and from the highest down  *)
(* each of the others moves up by one, as .gz if there is one, else plain; *)
(* last of all the current file, to .1.  Those below k are still to move.  *)
Last(d) == {Name(d, BackupCount, TRUE), Name(d, BackupCount, FALSE)}

Movers(d, k) ==
  {n \in DOMAIN dir : /\ n.day = d /\ n.n \in k..BackupCount - 1
                      /\ n = Base(d) \/ (n.n > 0 /\ (n.gz \/ Gz(n) \notin DOMAIN dir))}

Shifted(d, k) ==
  LET Up(n) == [n EXCEPT !.n = @ + 1]
      Down(n) == [n EXCEPT !.n = @ - 1]
      moved == {Up(n) : n \in Movers(d, k)}
  IN [n \in (DOMAIN dir \ (Last(d) \cup Movers(d, k))) \cup moved |->
        IF n \in moved THEN dir[Down(n)] ELSE dir[n]]

(* The size is reached: shift, and compress what was the current file. *)
Shift(w) ==
  LET d == date[w] IN
  /\ Rollover(w) /\ today = d
  /\ dir' = Shifted(d, 0)
  /\ jobs' = [jobs EXCEPT ![w] = IF Base(d) \in DOMAIN dir THEN Append(@, Name(d, 1, FALSE)) ELSE @]
  /\ discarded' = discarded \cup LinesOf(Last(d))
  /\ Enter(w, "open")
  /\ UNCHANGED <<today, cap, data, log, date, size, stream, doomed, found, total, gzip, torn,
                 crashes>>

(* The process is killed between two unlinks or renames of the shift.      *)
(* Until it is started again (Crash), nothing more happens in it.          *)
ShiftCut(w) ==
  LET d == date[w] IN
  /\ Rollover(w) /\ today = d /\ crashes < MaxCrashes
  /\ \/ /\ dir' = Unbind(dir, {Name(d, BackupCount, TRUE)})
        /\ discarded' = discarded \cup LinesOf({Name(d, BackupCount, TRUE)})
     \/ /\ \E k \in 1..BackupCount : dir' = Shifted(d, k)
        /\ discarded' = discarded \cup LinesOf(Last(d))
  /\ Enter(w, "dead")
  /\ UNCHANGED <<today, cap, data, log, date, size, stream, doomed, found, total, thread, torn,
                 crashes>>

(* cleanup_old_files unlinks one name after the other; a name that has     *)
(* gone raises, which is logged.                                           *)
Expire(w) ==
  /\ step[w] = "expire"
  /\ \/ \E n \in doomed[w] :
          /\ dir' = Unbind(dir, {n})
          /\ doomed' = [doomed EXCEPT ![w] = @ \ {n}]
          /\ UNCHANGED step
     \/ /\ doomed[w] = {}
        /\ Enter(w, IF record[w] THEN "open" ELSE "list")
        /\ UNCHANGED <<dir, doomed>>
  /\ UNCHANGED <<today, cap, data, log, record, date, size, stream, found, total, thread, ghosts>>

(* The new file; the line that caused the rollover is not counted.         *)
Open(w) ==
  LET o == Opened(Base(date[w])) IN
  /\ step[w] = "open"
  /\ dir' = o[1] /\ data' = o[2]
  /\ stream' = [stream EXCEPT ![w] = o[3]]
  /\ size' = [size EXCEPT ![w] = 0]
  /\ Enter(w, "list")
  /\ UNCHANGED <<today, cap, log, record, date, doomed, found, total, thread, ghosts>>

(* _cleanup_by_total_size lists the directory with sizes and mtimes ...    *)
Listed == {[name |-> n, size |-> SizeOf(dir[n]), mtime |-> data[dir[n]].mtime] : n \in DOMAIN dir}

List(w) ==
  /\ step[w] = "list" /\ cap > 0
  /\ found' = [found EXCEPT ![w] = Listed]
  /\ total' = [total EXCEPT ![w] = MapThenSumSet(LAMBDA e : e.size, Listed)]
  /\ Enter(w, "cap")
  /\ UNCHANGED <<today, cap, files, log, record, date, size, stream, doomed, thread, ghosts>>

(* ... and unlinks the oldest first until the cap is kept, the active file *)
(* excepted; a name that has gone raises, and does not count.  A .gz is    *)
(* made after the last line written, so at one mtime it is the younger.    *)
Oldest(w) ==
  CHOOSE e \in found[w] : \A f \in found[w] :
    e.mtime < f.mtime \/ (e.mtime = f.mtime /\ (f.name.gz \/ ~e.name.gz))

Evict(w) ==
  LET e == Oldest(w) IN
  /\ step[w] = "cap" /\ found[w] # {} /\ total[w] > cap
  /\ found' = [found EXCEPT ![w] = @ \ {e}]
  /\ \/ /\ e.name # Base(date[w]) /\ e.name \in DOMAIN dir
        /\ dir' = Unbind(dir, {e.name})
        /\ total' = [total EXCEPT ![w] = @ - e.size]
        /\ discarded' = discarded \cup LinesOf({e.name})
     \/ /\ e.name = Base(date[w]) \/ e.name \notin DOMAIN dir
        /\ UNCHANGED <<dir, total, discarded>>
  /\ UNCHANGED <<today, cap, data, log, step, record, date, size, stream, doomed, thread, torn, crashes>>

(* doRollover returns, and emit writes its line. *)
Return(w) ==
  /\ \/ step[w] = "list" /\ cap = 0
     \/ step[w] = "cap" /\ (found[w] = {} \/ total[w] <= cap)
  /\ Enter(w, "idle")
  /\ record' = [record EXCEPT ![w] = FALSE]
  /\ found' = [found EXCEPT ![w] = {}] /\ total' = [total EXCEPT ![w] = 0]
  /\ IF record[w] THEN Write(w) ELSE UNCHANGED <<data, log>>
  /\ UNCHANGED <<today, cap, dir, date, size, stream, doomed, thread, ghosts>>

-------------------------------------------------------------------------------
(* _compress_file, in the gzip thread: open the file and its .gz ...       *)
JobDone(w) ==
  /\ jobs' = [jobs EXCEPT ![w] = Tail(@)]
  /\ gzip' = [gzip EXCEPT ![w] = Idle]

GzipOpen(w) ==
  LET name == Head(jobs[w])
      src == dir[name]
      dst == IF Gz(name) \in DOMAIN dir THEN dir[Gz(name)] ELSE [src EXCEPT !.gz = TRUE]
  IN
  /\ jobs[w] # <<>> /\ gzip[w].at = "idle"
  /\ \/ /\ name \in DOMAIN dir
        /\ dir' = Bind(dir, Gz(name), dst)
        /\ data' = Bind(data, dst, NewFile)
        /\ gzip' = [gzip EXCEPT ![w] = [at |-> "copy", src |-> src, dst |-> dst]]
        /\ UNCHANGED jobs
     \/ /\ name \notin DOMAIN dir
        /\ dir' = Unbind(dir, {Gz(name)})
        /\ JobDone(w)
        /\ UNCHANGED data
  /\ UNCHANGED <<today, cap, log, handler, ghosts>>

(* ... copy, or fail and unlink the .gz ...                                *)
GzipCopy(w) ==
  LET g == gzip[w] IN
  /\ g.at = "copy"
  /\ \/ /\ data' = Bind(data, g.dst, [lines |-> data[g.src].lines, mtime |-> Len(log)])
        /\ gzip' = [gzip EXCEPT ![w] = [@ EXCEPT !.at = "unlink"]]
        /\ UNCHANGED <<dir, jobs>>
     \/ /\ dir' = Unbind(dir, {Gz(Head(jobs[w]))})
        /\ JobDone(w)
        /\ UNCHANGED data
  /\ UNCHANGED <<today, cap, log, handler, ghosts>>

(* ... and unlink the original, which may fail.                            *)
GzipUnlink(w) ==
  /\ gzip[w].at = "unlink"
  /\ dir' \in {dir, Unbind(dir, {Head(jobs[w])})}
  /\ JobDone(w)
  /\ UNCHANGED <<today, cap, data, log, handler, ghosts>>

-------------------------------------------------------------------------------
Midnight ==
  /\ today < MaxDay
  /\ today' \in today + 1..MaxDay
  /\ UNCHANGED <<cap, files, log, handler, thread, ghosts>>

(* The process is killed and started again: __init__ opens the file of the *)
(* day, then runs both clean-ups.                                          *)
Crash(w) ==
  LET o == Opened(Base(today)) IN
  /\ crashes < MaxCrashes
  /\ crashes' = crashes + 1
  /\ torn' = IF gzip[w].at = "copy" THEN torn \cup data[gzip[w].src].lines ELSE torn
  /\ dir' = o[1] /\ data' = o[2]
  /\ stream' = [stream EXCEPT ![w] = o[3]]
  /\ size' = [size EXCEPT ![w] = Cardinality(data'[o[3]].lines)]
  /\ date' = [date EXCEPT ![w] = today]
  /\ record' = [record EXCEPT ![w] = FALSE]
  /\ doomed' = [doomed EXCEPT ![w] = Expired]
  /\ found' = [found EXCEPT ![w] = {}] /\ total' = [total EXCEPT ![w] = 0]
  /\ jobs' = [jobs EXCEPT ![w] = <<>>] /\ gzip' = [gzip EXCEPT ![w] = Idle]
  /\ Enter(w, "expire")
  /\ UNCHANGED <<today, cap, log, discarded>>

RotationNext ==
  \/ \E w \in Workers :
       \/ Emit(w) \/ NewDay(w) \/ Shift(w) \/ ShiftCut(w) \/ Expire(w) \/ Open(w)
       \/ List(w) \/ Evict(w) \/ Return(w)
       \/ GzipOpen(w) \/ GzipCopy(w) \/ GzipUnlink(w) \/ Crash(w)
  \/ Midnight

RotationSpec == RotationInit /\ [][RotationNext]_rotationvars

-------------------------------------------------------------------------------
(* Properties *)

(* Every variable stays in its type; no backup has a number over           *)
(* backup_count.                                                           *)
RotationTypeOK ==
  /\ today \in Days /\ cap \in Caps /\ crashes \in 0..MaxCrashes
  /\ DOMAIN data \subseteq [no: Nat, gz: BOOLEAN]
  /\ \A f \in DOMAIN data : data[f].lines \subseteq 1..Len(log) /\ data[f].mtime \in 0..Len(log)
  /\ DOMAIN dir \subseteq Names /\ \A n \in DOMAIN dir : dir[n] \in DOMAIN data
  /\ log \in Seq(Days) /\ Len(log) <= MaxLines
  /\ step \in [Workers -> {"idle", "expire", "open", "list", "cap", "dead"}]
  /\ record \in [Workers -> BOOLEAN] /\ date \in [Workers -> Days]
  /\ size \in [Workers -> Nat] /\ stream \in [Workers -> DOMAIN data]
  /\ doomed \in [Workers -> SUBSET Names] /\ total \in [Workers -> Int]
  /\ jobs \in [Workers -> Seq(Names)]
  /\ \A w \in Workers : gzip[w].at \in {"idle", "copy", "unlink"}
  /\ discarded \subseteq 1..Len(log) /\ torn \subseteq 1..Len(log)

Kept == LinesOf(DOMAIN dir)
Lost == (1..Len(log)) \ Kept
InHand == UNION {data[gzip[w].src].lines : w \in {v \in Workers : gzip[v].at = "copy"}}
OldestOfItsDay(l) == \A k \in Kept : log[k] = log[l] => l < k

(* The retention policy, and nothing else, removes log lines: whatever the *)
(* gzip thread does while the handler rotates and cleans up, a line that   *)
(* is in no file any more has passed the retention, or was in a file that  *)
(* the size cap unlinked, or went with the oldest lines of its day by the  *)
(* backup count, or was in a file whose compression was cut by a crash.    *)
RetainedOrExpired ==
  \A l \in Lost :
    \/ log[l] < today - Retention
    \/ l \in torn
    \/ l \in discarded /\ (cap = 0 => OldestOfItsDay(l))

(* _cleanup_by_total_size removes the oldest backups first: of the lines   *)
(* of a day, those it drops (and no compression has in hand) are older     *)
(* than those it keeps.                                                    *)
OldestFirst == \A l \in (Lost \cap discarded) \ InHand : OldestOfItsDay(l)
===============================================================================
