------------------------------ MODULE UsageLog ------------------------------
(***************************************************************************)
(* The usage statistics, from the client to the database.  Every test161   *)
(* run appends one statistic to the current usage file; the file is moved  *)
(* aside when it is full, old files are pruned, and test161 upload-usage   *)
(* sends them to the server and removes them (test161/usage.go).  The      *)
(* server reads the files line by line, a goroutine for each file storing  *)
(* the lines (test161-server/uploads.go, usage.go).                        *)
(*                                                                         *)
(* What lockFile does is not what its callers say: with block it fails     *)
(* instead of waiting, without block it waits, and unlockFile unlocks a    *)
(* descriptor of its own, which is not locked.  A lock lasts until its     *)
(* process exits, or a finalizer closes the forgotten file.                *)
(***************************************************************************)
EXTENDS Naturals, Sequences, FiniteSets

CONSTANTS
  Run,          \* the test161 run processes, each with its one statistic
  Before,       \* a run that ended before
  Left,         \* what the current file may hold since then
  Upload,       \* the test161 upload-usage processes
  FullSize,     \* MAX_FILE_SIZE, in statistics
  MaxFiles,     \* MAX_NUM_FILES
  ChunkSize,    \* MAX_UPLOAD_SIZE, in statistics
  MaxTime,      \* bound on the clock
  MaxTorn,      \* bound on the torn entries
  MaxUnsaved,   \* bound on what the server fails to keep: it fails only below it
  Torn,         \* what a process that dies while it writes leaves
  None

ASSUME ProcessAssumption ==
  /\ IsFiniteSet(Run \cup Upload) /\ Before \in Run
  /\ Run \cap Upload = {} /\ {Torn, None} \cap (Run \cup Upload) = {} /\ Torn # None
ASSUME SizeAssumption ==
  /\ {FullSize, MaxFiles, ChunkSize, MaxTime, MaxTorn, MaxUnsaved} \subseteq Nat
  /\ FullSize > 0 /\ MaxTime > 0
  /\ Left \subseteq Seq({Before, Torn})

Process == Run \cup Upload
Time == 1..MaxTime
Cur == 0                      \* the name of the current file; the others are times
Name == {Cur} \cup Time
Entry == Run \cup {Torn}

VARIABLES
  now,          \* the clock, in seconds
  pc,           \* where each process is
  usageLock, curLock,   \* the process whose lock is on the lock file
  dir,          \* USAGE_DIR: the file a name stands for, named by its creator
  data,         \* the contents of the files
  fd,           \* the file a run has open
  files,        \* the files an uploader has still to send, oldest first
  chunk,        \* the files it is sending
  body,         \* the request at the server: the files not yet done
  pos,          \* how many lines of the first one have been read
  line,         \* what the goroutine of the file at hand has, if anything
  late,         \* the lines goroutines of earlier files still have
  hasError,     \* UsageStatsFileHandler.hasError, one handler for each request
  db,           \* the statistics stored
  saved,        \* the failure directory: the statistics of the file copied at a time
  unsaved,      \* history: what it could neither store nor copy, and did not say so
  pruned, overwritten, lost, collected  \* history

locks == <<usageLock, curLock>>
disk == <<dir, data>>
client == <<fd, files, chunk>>
server == <<body, pos, line, late, hasError, db, saved, unsaved>>
history == <<pruned, overwritten, lost, collected>>
vars == <<now, pc, locks, disk, client, server, history>>

Init ==
  /\ now = 1
  /\ pc = [p \in Process |-> IF p = Before THEN "exit" ELSE "start"]
  /\ usageLock = None /\ curLock = None
  /\ dir = [n \in Name |-> IF n = Cur THEN Before ELSE None]
  /\ \E s \in Left : data = [r \in Run |-> IF r = Before THEN s ELSE <<>>]
  /\ fd = [r \in Run |-> None]
  /\ files = [u \in Upload |-> <<>>] /\ chunk = [u \in Upload |-> <<>>]
  /\ body = [u \in Upload |-> <<>>] /\ pos = [u \in Upload |-> 0]
  /\ line = [u \in Upload |-> None]
  /\ late = {} /\ hasError = [u \in Upload |-> FALSE]
  /\ db = {} /\ saved = [n \in Time |-> {}] /\ unsaved = {}
  /\ pruned = {} /\ overwritten = {} /\ lost = {} /\ collected = FALSE

Goto(p, l) == pc' = [pc EXCEPT ![p] = l]

\* A process that exits loses its locks.
Drop(lock, p) == IF lock = p THEN None ELSE lock
Exit(p) ==
  /\ Goto(p, "exit")
  /\ usageLock' = Drop(usageLock, p)
  /\ curLock' = Drop(curLock, p)

Stats(s) == {s[i] : i \in 1..Len(s)} \ {Torn}
StatsIn(n) == IF dir[n] = None THEN {} ELSE Stats(data[dir[n]])
Size(n) == Len(data[dir[n]])
Present == {n \in Time : dir[n] # None}        \* getAllUsageFiles

\* The names in ascending order: the timestamps are padded.
Sorted(S) ==
  [i \in 1..Cardinality(S) |-> CHOOSE n \in S : Cardinality({m \in S : m < n}) = i - 1]

\* Rename the current file; a file that is already there is replaced.
MoveCurrent ==
  /\ dir' = [dir EXCEPT ![Cur] = None, ![now] = dir[Cur]]
  /\ overwritten' = overwritten \cup StatsIn(now)
-----------------------------------------------------------------------------
(* logUsageStat. *)

\* lockFile(USAGE_LOCK_FILE, false): wait.
LockUsage(r) ==
  /\ pc[r] = "start"
  /\ usageLock = None
  /\ usageLock' = r
  /\ Goto(r, "move")
  /\ UNCHANGED <<now, curLock, disk, client, server, history>>

CheckMove(r) ==
  /\ pc[r] = "move"
  /\ IF dir[Cur] # None /\ Size(Cur) >= FullSize
     THEN MoveCurrent /\ Goto(r, "prune")
     ELSE Goto(r, "lockcur") /\ UNCHANGED <<dir, overwritten>>
  /\ UNCHANGED <<now, locks, data, client, server, pruned, lost, collected>>

Prune(r) ==
  /\ pc[r] = "prune"
  /\ LET old == {n \in Present : Cardinality({m \in Present : m >= n}) > MaxFiles}
     IN  /\ dir' = [n \in Name |-> IF n \in old THEN None ELSE dir[n]]
         /\ pruned' = pruned \cup UNION {StatsIn(n) : n \in old}
  /\ Goto(r, "lockcur")      \* unlockFile unlocks nothing
  /\ UNCHANGED <<now, locks, data, client, server, overwritten, lost, collected>>

\* lockFile(CUR_USAGE_LOCK_FILE, true): fail if it is locked.
LockCurrent(r) ==
  /\ pc[r] = "lockcur"
  /\ IF curLock \in {None, r}
     THEN curLock' = r /\ Goto(r, "open") /\ UNCHANGED usageLock
     ELSE Exit(r)
  /\ UNCHANGED <<now, disk, client, server, history>>

OpenFile(r) ==
  /\ pc[r] = "open"
  /\ dir' = IF dir[Cur] = None THEN [dir EXCEPT ![Cur] = r] ELSE dir
  /\ fd' = [fd EXCEPT ![r] = dir'[Cur]]
  /\ Goto(r, "write")
  /\ UNCHANGED <<now, locks, data, files, chunk, server, history>>

\* saveUsageStat, and the end of the process.
WriteStat(r) ==
  /\ pc[r] = "write"
  /\ data' = [data EXCEPT ![fd[r]] = Append(@, r)]
  /\ Exit(r)
  /\ UNCHANGED <<now, dir, client, server, history>>

TornEntries ==
  UNION {{<<r, i>> : i \in {j \in 1..Len(data[r]) : data[r][j] = Torn}} : r \in Run}

\* The process is killed while it writes.
DieWriting(r) ==
  /\ pc[r] = "write"
  /\ Cardinality(TornEntries) < MaxTorn
  /\ data' = [data EXCEPT ![fd[r]] = Append(@, Torn)]
  /\ Exit(r)
  /\ UNCHANGED <<now, dir, client, server, history>>

RunStep(r) ==
  LockUsage(r) \/ CheckMove(r) \/ Prune(r) \/ LockCurrent(r) \/ OpenFile(r) \/ WriteStat(r)
-----------------------------------------------------------------------------
(* doUploadUsage. *)

BeginUpload_AnyLock(u) ==
  /\ pc[u] = "start"
  /\ usageLock' = IF usageLock = None THEN u ELSE usageLock
  /\ Goto(u, IF dir[Cur] = None THEN "list" ELSE "lockcur")
  /\ UNCHANGED <<now, curLock, disk, client, server, history>>

\* lockFile(USAGE_LOCK_FILE, true), and moveCurrentUsage's look for the file.
BeginUpload(u) ==
  /\ pc[u] = "start"
  /\ IF usageLock = None
     THEN /\ usageLock' = u
          /\ Goto(u, IF dir[Cur] = None THEN "list" ELSE "lockcur")
          /\ UNCHANGED curLock
     ELSE Exit(u)
  /\ UNCHANGED <<now, disk, client, server, history>>

LockToMove(u) ==
  /\ pc[u] = "lockcur"
  /\ IF curLock \in {None, u}
     THEN curLock' = u /\ Goto(u, "move") /\ UNCHANGED usageLock
     ELSE Exit(u)
  /\ UNCHANGED <<now, disk, client, server, history>>

ForceMove(u) ==
  /\ pc[u] = "move"
  /\ IF dir[Cur] # None THEN MoveCurrent ELSE UNCHANGED <<dir, overwritten>>
  /\ Goto(u, "list")
  /\ UNCHANGED <<now, locks, data, client, server, pruned, lost, collected>>

\* getAllUsageFiles; without files, that is all.
ListFiles(u) ==
  /\ pc[u] = "list"
  /\ files' = [files EXCEPT ![u] = Sorted(Present)]
  /\ IF Present = {} THEN Exit(u) ELSE Goto(u, "sizes") /\ UNCHANGED locks
  /\ UNCHANGED <<now, disk, fd, chunk, server, history>>

\* getFileSizes: a file that is gone is an error.
Gone(ns) == \E i \in 1..Len(ns) : dir[ns[i]] = None
GetSizes(u) ==
  /\ pc[u] = "sizes"
  /\ IF Gone(files[u]) THEN Exit(u) ELSE Goto(u, "send") /\ UNCHANGED locks
  /\ UNCHANGED <<now, disk, client, server, history>>

\* nextUploadChunk: as many of the next files as fit, at least one if it fits.
SizeOf(ns) == LET total[i \in 0..Len(ns)] == IF i = 0 THEN 0 ELSE total[i - 1] + Size(ns[i])
              IN  total[Len(ns)]
Fits(ns, k) == SizeOf(SubSeq(ns, 1, k)) <= ChunkSize
ChunkLen(ns) == CHOOSE k \in 0..Len(ns) : Fits(ns, k) /\ (k = Len(ns) \/ ~Fits(ns, k + 1))

\* The next chunk is sent; a file too big for any is passed over.
SendChunk(u) ==
  /\ pc[u] = "send"
  /\ IF files[u] = <<>> \/ Gone(files[u])
     THEN Exit(u) /\ UNCHANGED <<files, chunk, body>>
     ELSE LET k == ChunkLen(files[u]) IN
          /\ files' = [files EXCEPT ![u] = SubSeq(@, (IF k = 0 THEN 1 ELSE k) + 1, Len(@))]
          /\ chunk' = [chunk EXCEPT ![u] = SubSeq(files[u], 1, k)]
          /\ body' = [body EXCEPT ![u] = [i \in 1..k |-> data[dir[files[u][i]]]]]
          /\ IF k = 0 THEN UNCHANGED pc ELSE Goto(u, "wait")
          /\ UNCHANGED locks
  /\ UNCHANGED <<now, disk, fd, pos, line, late, hasError, db, saved, unsaved, history>>

UploadFails_Retry(u) ==
  /\ pc[u] \in {"wait", "ok"}
  /\ files' = [files EXCEPT ![u] = chunk[u] \o @]
  /\ body' = [body EXCEPT ![u] = <<>>] /\ pos' = [pos EXCEPT ![u] = 0]
  /\ Goto(u, "send")
  /\ UNCHANGED <<now, locks, disk, fd, chunk, line, late, hasError, db, saved, unsaved, history>>

\* The request fails, or its answer is not 200: the files stay.  Nothing but that
\* ends the request, which has no timeout.
UploadFails(u) ==
  /\ pc[u] \in {"wait", "ok"}
  /\ Exit(u)
  /\ UNCHANGED <<now, disk, client, server, history>>

\* 200: the chunk is removed, by name.
RemoveFiles(u) ==
  /\ pc[u] = "ok"
  /\ dir' = [n \in Name |-> IF \E i \in 1..Len(chunk[u]) : chunk[u][i] = n THEN None ELSE dir[n]]
  /\ Goto(u, "send")
  /\ UNCHANGED <<now, locks, data, client, server, history>>

UploadStep(u) ==
  \/ BeginUpload(u) \/ LockToMove(u) \/ ForceMove(u) \/ ListFiles(u) \/ GetSizes(u)
  \/ SendChunk(u) \/ RemoveFiles(u)
-----------------------------------------------------------------------------
(* The server: uploadFiles, HandleFile and the goroutine of each file. *)

File(u) == Head(body[u])
AtTorn(u) == pos[u] > 0 /\ File(u)[pos[u]] = Torn       \* the reader has an error

\* The next line goes to the goroutine when it is done with the one before.
\* What a torn member yields is no JSON, and ends the reading.
ReadLine(u) ==
  /\ body[u] # <<>>
  /\ pos[u] < Len(File(u)) /\ ~AtTorn(u)
  /\ line[u] = None
  /\ pos' = [pos EXCEPT ![u] = @ + 1]
  /\ line' = [line EXCEPT ![u] = File(u)[pos'[u]]]
  /\ UNCHANGED <<now, pc, locks, disk, client, body, late, hasError, db, saved, unsaved, history>>

\* An upsert by the statistic's ID: storing it again changes nothing.  A database
\* that refuses is an entry in the log of the server, and no error of the upload.
Fail(E) == Cardinality(unsaved) < MaxUnsaved /\ unsaved' = unsaved \cup E
Persist(e) ==
  \/ db' = db \cup {e} /\ UNCHANGED unsaved
  \/ Fail({e}) /\ UNCHANGED db

Store(u, e) ==
  IF e = Torn
  THEN hasError' = [hasError EXCEPT ![u] = TRUE] /\ UNCHANGED <<db, unsaved>>
  ELSE Persist(e) /\ UNCHANGED hasError

StoreLine(u) ==
  /\ line[u] # None
  /\ Store(u, line[u])
  /\ line' = [line EXCEPT ![u] = None]
  /\ UNCHANGED <<now, pc, locks, disk, client, body, pos, late, saved, history>>

StoreLate(u, e) ==
  /\ <<u, e>> \in late
  /\ Store(u, e)
  /\ late' = late \ {<<u, e>>}
  /\ UNCHANGED <<now, pc, locks, disk, client, body, pos, line, saved, history>>

\* FileComplete copies a file with an error it knows of; a copy made in the same
\* second is replaced.  The copy may fail, which is logged.
Copies_IfInvalid(u) == hasError[u]
Copies(u) == AtTorn(u) \/ hasError[u]

\* FileComplete, and HandleFile's beginning of the next file, or the answer 200.
\* Nobody waits for the goroutine, or closes its channel.
FileComplete(u) ==
  /\ body[u] # <<>>
  /\ pos[u] = Len(File(u)) \/ AtTorn(u)
  /\ IF Copies(u)
     THEN \/ /\ saved' = [saved EXCEPT ![now] = Stats(File(u))]
             /\ overwritten' = overwritten \cup saved[now]
             /\ UNCHANGED unsaved
          \/ /\ Fail(Stats(File(u)))
             /\ UNCHANGED <<saved, overwritten>>
     ELSE UNCHANGED <<saved, overwritten, unsaved>>
  /\ late' = IF line[u] = None THEN late ELSE late \cup {<<u, line[u]>>}
  /\ line' = [line EXCEPT ![u] = None]
  /\ body' = [body EXCEPT ![u] = Tail(@)]
  /\ pos' = [pos EXCEPT ![u] = 0]
  /\ hasError' = [hasError EXCEPT ![u] = FALSE]
  /\ IF body'[u] = <<>> /\ pc[u] = "wait" THEN Goto(u, "ok") ELSE UNCHANGED pc
  /\ UNCHANGED <<now, locks, disk, client, db, pruned, lost, collected>>

\* The server stops, and starts again: what the goroutines had is gone, and so is
\* the answer to a request.  Bounded to once that something is lost.
ServerStops ==
  /\ lost = {}
  /\ body' = [u \in Upload |-> <<>>] /\ pos' = [u \in Upload |-> 0]
  /\ line' = [u \in Upload |-> None] /\ hasError' = [u \in Upload |-> FALSE]
  /\ late' = {}
  /\ lost' = {e \in Run : \E u \in Upload : <<u, e>> \in late}
  /\ UNCHANGED <<now, pc, locks, disk, client, db, saved, unsaved, pruned, overwritten, collected>>

ServerStep(u) ==
  ReadLine(u) \/ StoreLine(u) \/ FileComplete(u) \/ (\E e \in Entry : StoreLate(u, e))
-----------------------------------------------------------------------------
\* Seconds in which no file is made make no difference.
Tick ==
  /\ now < MaxTime
  /\ dir[now] # None \/ saved[now] # {}
  /\ now' = now + 1
  /\ UNCHANGED <<pc, locks, disk, client, server, history>>

\* The garbage collector closes the lock files that lockFile left open: at any
\* time, but here only while the last uploader waits for the server.
Collect(u) ==
  /\ pc[u] = "wait" /\ \A v \in Upload \ {u} : pc[v] = "exit"
  /\ u \in {usageLock, curLock}
  /\ usageLock' = Drop(usageLock, u)
  /\ curLock' = Drop(curLock, u)
  /\ collected' = TRUE
  /\ UNCHANGED <<now, pc, disk, client, server, pruned, overwritten, lost>>

Next ==
  \/ \E r \in Run : RunStep(r) \/ DieWriting(r)
  \/ \E u \in Upload : UploadStep(u) \/ UploadFails(u) \/ ServerStep(u) \/ Collect(u)
  \/ ServerStops
  \/ Tick

Spec == Init /\ [][Next]_vars

\* Every process that has begun goes on, and so does the server; but a client whose
\* server is silent may wait for ever (comm.go).
FairSpec ==
  /\ Spec
  /\ \A r \in Run : WF_vars(RunStep(r))
  /\ \A u \in Upload : WF_vars(pc[u] # "start" /\ UploadStep(u)) /\ WF_vars(ServerStep(u))
-----------------------------------------------------------------------------
Logged == UNION {Stats(data[r]) : r \in Run}
OnDisk == UNION {StatsIn(n) : n \in Name}
AtServer ==
  db \cup (UNION {saved[n] : n \in Time})
     \cup {e \in Run : \E u \in Upload : line[u] = e \/ <<u, e>> \in late}

\* A statistic that was written is in a file until the server has it, though
\* files are moved, pruned, sent, refused and sent again by processes that know
\* nothing of each other, and the server may stop.  It is dropped only
\*  - by pruning;
\*  - when two files are moved, or copied by the server, in the same second;
\*  - when the server stops with a goroutine that nobody waited for (uploads.go:131);
\*  - when the server cannot store or copy it: it logs that, and answers 200, and the
\*    client removes the file (test161-server/usage.go:58, :78).
\* All that as long as no lock is closed too early.
NoStatLost ==
  ~collected => Logged \subseteq OnDisk \cup AtServer \cup pruned \cup overwritten \cup lost \cup unsaved

\* "OK, we can upload now without competition from uploading or logging"
\* (test161/usage.go:271), as long as no lock is closed too early.
UploadsAlone ==
  ~collected =>
    \A u \in Upload : pc[u] \in {"list", "sizes", "send", "wait", "ok"} =>
      \A p \in Process \ {u} : pc[p] \in {"start", "exit"}

\* A run that logs a statistic ends, as long as no request is left without an
\* answer or an error for ever: "if the uploader is running, don't bother"
\* (test161/usage.go:35), but the run waits for its lock, and the request of an
\* uploader has no timeout (test161/comm.go:35).
RunsEnd ==
  (\A u \in Upload : []<>(pc[u] # "wait")) => \A r \in Run : <>(pc[r] = "exit")
=============================================================================
