--------------------------- MODULE UsageLogProofs ---------------------------
(***************************************************************************)
(* The usage lock excludes all others, though unlockFile does nothing, and *)
(* no statistic is lost without a known cause: for any runs, uploaders,    *)
(* sizes and clocks.                                                       *)
(***************************************************************************)
EXTENDS UsageLog, SumLemmas, SequenceTheorems
-----------------------------------------------------------------------------
(* The usage lock. *)

Busy(p) == pc[p] \notin {"start", "exit"}

\* Whoever has got past the usage lock holds it to its end.
BusyHolds == collected \/ \A p \in Process : Busy(p) => usageLock = p

PcInv == DOMAIN pc = Process /\ BusyHolds

LEMMA NoneIsNoProcess == None \notin Process
  BY ProcessAssumption DEF Process

\* A step that moves a process that is already past the lock.
LEMMA HolderMoves ==
  ASSUME PcInv, NEW p \in Process, Busy(p), NEW l, Goto(p, l),
         UNCHANGED <<usageLock, collected>>
  PROVE  PcInv'
  BY DEF PcInv, BusyHolds, Busy, Goto

\* When it exits, nobody is past the lock; nor is anybody when a process that
\* did not get there exits.
LEMMA HolderExits ==
  ASSUME PcInv, NEW p \in Process, Busy(p) \/ usageLock # p, Exit(p), UNCHANGED collected
  PROVE  PcInv'
  BY DEF PcInv, BusyHolds, Busy, Exit, Goto, Drop

\* A step that moves nobody and leaves the lock alone.
LEMMA NobodyMoves ==
  ASSUME PcInv, UNCHANGED <<pc, usageLock, collected>>
  PROVE  PcInv'
  BY DEF PcInv, BusyHolds, Busy

\* Getting the lock while it is free.
LEMMA FreeLockTaken ==
  ASSUME PcInv, NEW p \in Process, usageLock = None, usageLock' = p,
         NEW l, Goto(p, l), UNCHANGED collected
  PROVE  PcInv'
  <1>1. collected \/ \A q \in Process : ~Busy(q)
    BY NoneIsNoProcess DEF PcInv, BusyHolds
  <1> QED BY <1>1 DEF PcInv, BusyHolds, Busy, Goto

LEMMA RunKeepsPcInv ==
  ASSUME PcInv, NEW r \in Run, RunStep(r) \/ DieWriting(r)
  PROVE  PcInv'
  <1> r \in Process
    BY DEF Process
  <1>1. CASE LockUsage(r)
    BY <1>1, FreeLockTaken DEF LockUsage, history
  <1>2. CASE CheckMove(r)
    <2>1. Busy(r) /\ UNCHANGED <<usageLock, collected>>
      BY <1>2 DEF CheckMove, Busy, locks
    <2>2. Goto(r, "prune") \/ Goto(r, "lockcur")
      BY <1>2 DEF CheckMove
    <2> QED BY <2>1, <2>2, HolderMoves
  <1>3. CASE Prune(r)
    BY <1>3, HolderMoves DEF Prune, Busy, locks
  <1>4. CASE LockCurrent(r)
    <2>1. Busy(r) /\ UNCHANGED collected
      BY <1>4 DEF LockCurrent, Busy, history
    <2>2. Exit(r) \/ (Goto(r, "open") /\ UNCHANGED usageLock)
      BY <1>4 DEF LockCurrent
    <2> QED BY <2>1, <2>2, HolderMoves, HolderExits
  <1>5. CASE OpenFile(r)
    BY <1>5, HolderMoves DEF OpenFile, Busy, locks, history
  <1>6. CASE WriteStat(r) \/ DieWriting(r)
    BY <1>6, HolderExits DEF WriteStat, DieWriting, Busy, history
  <1> QED BY <1>1, <1>2, <1>3, <1>4, <1>5, <1>6 DEF RunStep

LEMMA UploadKeepsPcInv ==
  ASSUME PcInv, NEW u \in Upload, UploadStep(u) \/ UploadFails(u)
  PROVE  PcInv'
  <1> u \in Process
    BY DEF Process
  <1>1. CASE BeginUpload(u)
    <2>1. UNCHANGED collected /\ pc[u] = "start"
      BY <1>1 DEF BeginUpload, history
    <2>2. CASE usageLock = None
      BY <1>1, <2>1, <2>2, FreeLockTaken DEF BeginUpload
    <2>3. CASE usageLock # None /\ usageLock # u
      BY <1>1, <2>1, <2>3, HolderExits DEF BeginUpload
    <2>4. CASE usageLock = u
      \* It has exited: no other process is past the lock.
      BY <1>1, <2>1, <2>4, NoneIsNoProcess DEF BeginUpload, PcInv, BusyHolds, Busy, Exit, Goto, Drop
    <2> QED BY <2>2, <2>3, <2>4
  <1>2. CASE LockToMove(u)
    <2>1. Busy(u) /\ UNCHANGED collected
      BY <1>2 DEF LockToMove, Busy, history
    <2>2. Exit(u) \/ (Goto(u, "move") /\ UNCHANGED usageLock)
      BY <1>2 DEF LockToMove
    <2> QED BY <2>1, <2>2, HolderMoves, HolderExits
  <1>3. CASE ForceMove(u)
    BY <1>3, HolderMoves DEF ForceMove, Busy, locks
  <1>4. CASE ListFiles(u)
    <2>1. Busy(u) /\ UNCHANGED collected
      BY <1>4 DEF ListFiles, Busy, history
    <2>2. Exit(u) \/ (Goto(u, "sizes") /\ UNCHANGED usageLock)
      BY <1>4 DEF ListFiles, locks
    <2> QED BY <2>1, <2>2, HolderMoves, HolderExits
  <1>5. CASE GetSizes(u)
    <2>1. Busy(u) /\ UNCHANGED collected
      BY <1>5 DEF GetSizes, Busy, history
    <2>2. Exit(u) \/ (Goto(u, "send") /\ UNCHANGED usageLock)
      BY <1>5 DEF GetSizes, locks
    <2> QED BY <2>1, <2>2, HolderMoves, HolderExits
  <1>6. CASE SendChunk(u)
    <2>1. Busy(u) /\ UNCHANGED collected
      BY <1>6 DEF SendChunk, Busy, history
    <2>2. \/ Exit(u)
          \/ Goto(u, "wait") /\ UNCHANGED usageLock
          \/ UNCHANGED <<pc, usageLock>>
      BY <1>6 DEF SendChunk, locks
    <2> QED BY <2>1, <2>2, HolderMoves, HolderExits, NobodyMoves
  <1>7. CASE RemoveFiles(u)
    BY <1>7, HolderMoves DEF RemoveFiles, Busy, locks, history
  <1>8. CASE UploadFails(u)
    BY <1>8, HolderExits DEF UploadFails, Busy, history
  <1> QED BY <1>1, <1>2, <1>3, <1>4, <1>5, <1>6, <1>7, <1>8 DEF UploadStep

LEMMA ServerKeepsPcInv ==
  ASSUME PcInv, NEW u \in Upload, ServerStep(u)
  PROVE  PcInv'
  <1> u \in Process
    BY DEF Process
  <1>1. CASE ReadLine(u) \/ StoreLine(u) \/ \E e \in Entry : StoreLate(u, e)
    BY <1>1, NobodyMoves DEF ReadLine, StoreLine, StoreLate, locks, history
  <1>2. CASE FileComplete(u)
    <2>1. UNCHANGED <<usageLock, collected>>
      BY <1>2 DEF FileComplete, locks
    <2>2. UNCHANGED pc \/ (pc[u] = "wait" /\ Goto(u, "ok"))
      BY <1>2 DEF FileComplete
    <2>3. CASE UNCHANGED pc
      BY <2>1, <2>3, NobodyMoves
    <2>4. CASE pc[u] = "wait" /\ Goto(u, "ok")
      BY <2>1, <2>4, HolderMoves DEF Busy
    <2> QED BY <2>2, <2>3, <2>4
  <1> QED BY <1>1, <1>2 DEF ServerStep

LEMMA PcInvariant == Spec => []PcInv
  <1>1. Init => PcInv
    BY DEF Init, PcInv, BusyHolds, Busy
  <1>2. PcInv /\ [Next]_vars => PcInv'
    <2> SUFFICES ASSUME PcInv, [Next]_vars PROVE PcInv'
      OBVIOUS
    <2>1. CASE \E r \in Run : RunStep(r) \/ DieWriting(r)
      BY <2>1, RunKeepsPcInv
    <2>2. CASE \E u \in Upload : UploadStep(u) \/ UploadFails(u)
      BY <2>2, UploadKeepsPcInv
    <2>3. CASE \E u \in Upload : ServerStep(u)
      BY <2>3, ServerKeepsPcInv
    <2>4. CASE \E u \in Upload : Collect(u)
      BY <2>4 DEF Collect, PcInv, BusyHolds
    <2>5. CASE Tick
      BY <2>5, NobodyMoves DEF Tick, locks, history
    <2>6. CASE ServerStops
      BY <2>6, NobodyMoves DEF ServerStops, locks
    <2>7. CASE UNCHANGED vars
      BY <2>7, NobodyMoves DEF vars, locks, history
    <2> QED BY <2>1, <2>2, <2>3, <2>4, <2>5, <2>6, <2>7 DEF Next
  <1> QED BY <1>1, <1>2, PTL DEF Spec

\* An uploader that has got to its list of files (test161/usage.go:271) is alone:
\* no run appends or moves, and no other uploader sends or removes, as long as no
\* lock is closed by the garbage collector.
THEOREM UploadsAreAlone == Spec => []UploadsAlone
  <1>1. PcInv => UploadsAlone
    BY DEF PcInv, BusyHolds, Busy, UploadsAlone, Process
  <1> QED BY <1>1, PcInvariant, PTL
-----------------------------------------------------------------------------
(* Sequences whose elements are of no matter. *)

IsSeq(s) == Len(s) \in Nat /\ s = [i \in 1..Len(s) |-> s[i]]

LEMMA SeqIsSeq ==
  ASSUME NEW S, NEW s \in Seq(S)
  PROVE  IsSeq(s)
BY DEF IsSeq

LEMMA IsSeqOf ==
  ASSUME NEW s, IsSeq(s)
  PROVE  s \in Seq({s[i] : i \in 1..Len(s)})
<1> DEFINE S == {s[i] : i \in 1..Len(s)}
<1>1. Len(s) \in Nat /\ \A i \in 1..Len(s) : s[i] \in S
  BY DEF IsSeq
<1>2. s = [i \in 1..Len(s) |-> s[i]]
  BY DEF IsSeq
<1> HIDE DEF S
<1>3. [i \in 1..Len(s) |-> s[i]] \in [1..Len(s) -> S]
  BY <1>1
<1>4. s \in [1..Len(s) -> S]
  BY <1>2, <1>3
<1>5. s \in Seq(S)
  BY <1>1, <1>4, SeqDef
<1> QED BY <1>5 DEF S

LEMMA EmptyIsSeq == IsSeq(<<>>)
  BY EmptySeq, SeqIsSeq

\* A part of a sequence, and what is behind its head.
LEMMA PartIsSeq ==
  ASSUME NEW s, IsSeq(s), NEW m \in 1..(Len(s) + 1), NEW n \in 0..Len(s)
  PROVE  /\ IsSeq(SubSeq(s, m, n))
         /\ m = 1 => Len(SubSeq(s, m, n)) = n /\ \A i \in 1..n : SubSeq(s, m, n)[i] = s[i]
<1> DEFINE S == {s[i] : i \in 1..Len(s)}
<1>1. Len(s) \in Nat /\ m \in Int /\ n \in Int /\ m >= 1 /\ n >= 0 /\ n <= Len(s)
  BY DEF IsSeq
<1>2. \A i \in m..n : i \in 1..Len(s)
  BY <1>1
<1>3. \A i \in m..n : s[i] \in S
  BY <1>2
<1> HIDE DEF S
<1>4. /\ SubSeq(s, m, n) \in Seq(S)
      /\ Len(SubSeq(s, m, n)) = IF m <= n THEN n - m + 1 ELSE 0
      /\ \A i \in 1..n-m+1 : SubSeq(s, m, n)[i] = s[m + i - 1]
  BY <1>1, <1>3, SubSeqProperties
<1>5. ASSUME m = 1
      PROVE  Len(SubSeq(s, m, n)) = n /\ \A i \in 1..n : SubSeq(s, m, n)[i] = s[i]
  BY <1>1, <1>4, <1>5
<1> QED BY <1>4, <1>5, SeqIsSeq

LEMMA TailIsSeq ==
  ASSUME NEW s, IsSeq(s), s # <<>>
  PROVE  /\ IsSeq(Tail(s)) /\ Len(s) \in Nat /\ Len(s) >= 1 /\ Len(Tail(s)) = Len(s) - 1
         /\ Head(s) = s[1]
         /\ \A i \in 1..Len(Tail(s)) : Tail(s)[i] = s[i + 1]
<1> DEFINE S == {s[i] : i \in 1..Len(s)}
<1>1. s \in Seq(S)
  BY IsSeqOf
<1> HIDE DEF S
<1>2. /\ Tail(s) \in Seq(S) /\ Len(Tail(s)) = Len(s) - 1
      /\ \A i \in 1..Len(Tail(s)) : Tail(s)[i] = s[i + 1]
  BY <1>1, HeadTailProperties
<1>3. Len(s) \in Nat /\ Len(s) # 0
  BY <1>1, EmptySeq
<1>4. Head(s) = s[1]
  BY <1>1
<1>5. IsSeq(Tail(s))
  BY <1>2, SeqIsSeq
<1>6. Len(s) >= 1
  BY <1>3
<1> QED BY <1>2, <1>3, <1>4, <1>5, <1>6

\* A function on the first numbers.
LEMMA MadeIsSeq ==
  ASSUME NEW f, NEW n \in Nat, f = [i \in 1..n |-> f[i]]
  PROVE  IsSeq(f) /\ Len(f) = n
<1> DEFINE S == {f[i] : i \in 1..n}
<1>1. \A i \in 1..n : f[i] \in S  OBVIOUS
<1> HIDE DEF S
<1>2. [i \in 1..n |-> f[i]] \in [1..n -> S]
  BY <1>1
<1>3. f \in [1..n -> S]
  BY <1>2
<1>4. f \in Seq(S) /\ Len(f) = n
  BY <1>3, SeqDef, LenProperties
<1> QED BY <1>4, SeqIsSeq

\* There is a last number of those up to n in a set that 0 is in.
LEMMA LastNumber ==
  ASSUME NEW n \in Nat, NEW K, K \subseteq 0..n, 0 \in K
  PROVE  \E k \in K : \A j \in K : j <= k
<1> DEFINE Above(k) == k..n
           C == {Above(k) : k \in K}
<1>1. IsFiniteSet(0..n)
  BY FS_Interval
<1>2. C \subseteq SUBSET (0..n) /\ C # {}
  <2>1. \A k \in K : Above(k) \subseteq 0..n  OBVIOUS
  <2> QED BY <2>1, Zenon
<1>3. PICK T \in C : Least(T, C)
  <2> HIDE DEF C
  <2> QED BY <1>1, <1>2, LeastSet
<1>4. PICK k \in K : T = Above(k)
  BY Zenon
<1>5. ASSUME NEW j \in K, ~(j <= k)
      PROVE  FALSE
  <2>1. Above(j) \subseteq T /\ Above(j) # T
    <3>1. k \in Above(k) /\ k \notin Above(j)
      BY <1>5
    <3>2. Above(j) \subseteq Above(k)
      BY <1>5
    <3> QED BY <1>4, <3>1, <3>2, Zenon
  <2>2. Above(j) \in C
    OBVIOUS
  <2> QED BY <1>3, <2>1, <2>2, Zenon DEF Least
<1> QED BY <1>5

LEMMA SizeOfNothing == SizeOf(<<>>) = 0
<1> DEFINE total[i \in 0..0] == IF i = 0 THEN 0 ELSE total[i - 1] + Size(<<>>[i])
<1>1. SizeOf(<<>>) = total[0]
  BY EmptySeq DEF SizeOf
<1>2. \E f : f = [i \in 0..0 |-> IF i = 0 THEN 0 ELSE f[i - 1] + Size(<<>>[i])]
  <2>1. \A i \in 0..0 : i = 0  OBVIOUS
  <2>2. [i \in 0..0 |-> 0] =
          [i \in 0..0 |-> IF i = 0 THEN 0 ELSE [j \in 0..0 |-> 0][i - 1] + Size(<<>>[i])]
    BY <2>1, Zenon
  <2> QED BY <2>2, Zenon
<1>3. total = [i \in 0..0 |-> IF i = 0 THEN 0 ELSE total[i - 1] + Size(<<>>[i])]
  BY <1>2, Zenon
<1>4. total[0] = 0
  <2> HIDE DEF total
  <2>1. 0 \in 0..0  OBVIOUS
  <2> QED BY <1>3, <2>1, Zenon
<1> QED BY <1>1, <1>4

\* nextUploadChunk (test161/usage.go) takes some of the files it is given, or none.
LEMMA ChunkIsPart ==
  ASSUME NEW ns, IsSeq(ns)
  PROVE  ChunkLen(ns) \in 0..Len(ns)
<1> DEFINE K == {k \in 0..Len(ns) : Fits(ns, k)}
<1>1. Len(ns) \in Nat
  BY DEF IsSeq
<1>2. Fits(ns, 0)
  <2>1. SubSeq(ns, 1, 0) = <<>>
    BY SubSeqEmpty
  <2>2. SizeOf(SubSeq(ns, 1, 0)) = 0
    BY <2>1, SizeOfNothing
  <2> QED BY <2>2, SizeAssumption DEF Fits
<1>3. PICK k \in K : \A j \in K : j <= k
  <2>1. K \subseteq 0..Len(ns) /\ 0 \in K
    BY <1>1, <1>2
  <2> HIDE DEF K
  <2> QED BY <1>1, <2>1, LastNumber
<1>4. k = Len(ns) \/ ~Fits(ns, k + 1)
  <2> SUFFICES ASSUME k # Len(ns), Fits(ns, k + 1) PROVE FALSE
    OBVIOUS
  <2>1. k + 1 \in 0..Len(ns) /\ ~(k + 1 <= k)
    BY <1>1
  <2>2. k + 1 \in K
    BY <2>1
  <2> QED BY <1>3, <2>1, <2>2
<1>5. \E n \in 0..Len(ns) : Fits(ns, n) /\ (n = Len(ns) \/ ~Fits(ns, n + 1))
  BY <1>4
<1> QED BY <1>5, Zenon DEF ChunkLen
-----------------------------------------------------------------------------
(* What is kept. *)

LogTypeOK ==
  /\ now \in Time
  /\ dir \in [Name -> Run \cup {None}]
  /\ data \in [Run -> Seq(Entry)]
  /\ DOMAIN fd = Run /\ DOMAIN files = Upload /\ DOMAIN chunk = Upload
  /\ DOMAIN body = Upload /\ pos \in [Upload -> Nat] /\ DOMAIN line = Upload
  /\ DOMAIN saved = Time
  /\ \A u \in Upload : IsSeq(files[u]) /\ IsSeq(chunk[u]) /\ IsSeq(body[u])

\* The statistics that no step takes away any more.
Kept ==
  db \cup (UNION {saved[n] : n \in Time}) \cup {e \in Run : \E u \in Upload : <<u, e>> \in late}
     \cup pruned \cup overwritten \cup lost \cup unsaved

\* No statistic of a file is missing, if the file is not in the directory.
FilesKept ==
  \A f \in Run : \A e \in Stats(data[f]) : e \in OnDisk \/ e \in Kept

\* A run that is about to write has the current file open.
WritesCurrent == \A r \in Run : pc[r] = "write" => fd[r] \in Run /\ fd[r] = dir[Cur]

\* Between its requests an uploader has nothing at the server.
RequestState ==
  \A u \in Upload : /\ pc[u] \notin {"wait", "exit"} => body[u] = <<>>
                    /\ body[u] = <<>> => pos[u] = 0

\* The lines read of the file at hand are stored, but for the last.
LinesKept ==
  \A u \in Upload : body[u] # <<>> =>
    \A j \in 1..pos[u] : File(u)[j] \in Run => File(u)[j] \in Kept \/ File(u)[j] = line[u]

InBody(u, e) == \E j \in 1..Len(body[u]) : e \in Stats(body[u][j])

\* What an uploader has sent is kept, or still in the request.
ChunkKept ==
  \A u \in Upload : pc[u] = "ok" \/ (pc[u] = "wait" /\ body[u] # <<>>) =>
    \A i \in 1..Len(chunk[u]) : \A e \in Run :
      e \in Stats(data[dir[chunk[u][i]]]) => e \in Kept \/ InBody(u, e)

\* As long as no lock is closed too early, the files themselves are in order.
LogInv ==
  /\ LogTypeOK /\ RequestState /\ LinesKept
  /\ ~collected => FilesKept /\ WritesCurrent /\ ChunkKept

LEMMA NamesAndEntries ==
  /\ Cur \in Name /\ Cur \notin Time /\ Name = {Cur} \cup Time
  /\ Torn \notin Run /\ None \notin Run
  /\ \A s \in Seq(Entry) : \A e \in Stats(s) : e \in Run
<1>1. Cur \notin Time /\ Torn \notin Run /\ None \notin Run
  BY ProcessAssumption, SizeAssumption DEF Cur, Time
<1>2. ASSUME NEW s \in Seq(Entry), NEW e \in Stats(s)
      PROVE  e \in Run
  <2>1. PICK i \in 1..Len(s) : e = s[i] /\ e # Torn
    BY DEF Stats
  <2> QED BY <2>1, ElementOfSeq DEF Entry
<1> QED BY <1>1, <1>2 DEF Name

\* A statistic is on disk in a file that is in the directory.
LEMMA OnDiskMeans ==
  \A e : /\ e \in OnDisk <=> \E n \in Name : dir[n] # None /\ e \in Stats(data[dir[n]])
         /\ e \in OnDisk' <=> \E n \in Name : dir'[n] # None /\ e \in Stats(data'[dir'[n]])
BY Zenon DEF OnDisk, StatsIn

LEMMA KeptMeans ==
  \A e :
    /\ e \in Kept <=>
         \/ e \in db \/ e \in pruned \/ e \in overwritten \/ e \in lost \/ e \in unsaved
         \/ \E n \in Time : e \in saved[n]
         \/ e \in Run /\ \E u \in Upload : <<u, e>> \in late
    /\ e \in Kept' <=>
         \/ e \in db' \/ e \in pruned' \/ e \in overwritten' \/ e \in lost' \/ e \in unsaved'
         \/ \E n \in Time : e \in saved'[n]
         \/ e \in Run /\ \E u \in Upload : <<u, e>> \in late'
<1> SUFFICES ASSUME NEW e
             PROVE  /\ e \in Kept <=>
                         \/ e \in db \/ e \in pruned \/ e \in overwritten \/ e \in lost \/ e \in unsaved
                         \/ \E n \in Time : e \in saved[n]
                         \/ e \in Run /\ \E u \in Upload : <<u, e>> \in late
                    /\ e \in Kept' <=>
                         \/ e \in db' \/ e \in pruned' \/ e \in overwritten' \/ e \in lost' \/ e \in unsaved'
                         \/ \E n \in Time : e \in saved'[n]
                         \/ e \in Run /\ \E u \in Upload : <<u, e>> \in late'
  OBVIOUS
<1>1. /\ e \in UNION {saved[n] : n \in Time} <=> \E n \in Time : e \in saved[n]
      /\ e \in UNION {saved'[n] : n \in Time} <=> \E n \in Time : e \in saved'[n]
  BY Zenon
<1>2. /\ e \in {d \in Run : \E u \in Upload : <<u, d>> \in late}
           <=> e \in Run /\ \E u \in Upload : <<u, e>> \in late
      /\ e \in {d \in Run : \E u \in Upload : <<u, d>> \in late'}
           <=> e \in Run /\ \E u \in Upload : <<u, e>> \in late'
  BY Zenon
<1> QED BY <1>1, <1>2, Zenon DEF Kept

LEMMA StatsOfAppend ==
  ASSUME NEW s \in Seq(Entry), NEW x \in Entry
  PROVE  Append(s, x) \in Seq(Entry) /\ Stats(Append(s, x)) = Stats(s) \cup ({x} \ {Torn})
<1>1. /\ Append(s, x) \in Seq(Entry) /\ Len(Append(s, x)) = Len(s) + 1 /\ Len(s) \in Nat
      /\ \A i \in 1..Len(s) : Append(s, x)[i] = s[i]
      /\ Append(s, x)[Len(s) + 1] = x
  BY AppendProperties, LenProperties
<1>2. /\ \A i \in 1..Len(s) : i \in 1..(Len(s) + 1)
      /\ Len(s) + 1 \in 1..(Len(s) + 1)
      /\ \A i \in 1..(Len(s) + 1) : i \in 1..Len(s) \/ i = Len(s) + 1
  BY <1>1
<1>3. \A e : e \in Stats(Append(s, x)) <=> e \in Stats(s) \/ (e = x /\ e # Torn)
  <2> SUFFICES ASSUME NEW e
               PROVE  e \in Stats(Append(s, x)) <=> e \in Stats(s) \/ (e = x /\ e # Torn)
    OBVIOUS
  <2>1. e \in Stats(s) => e \in Stats(Append(s, x))
    BY <1>1, <1>2 DEF Stats
  <2>2. e = x /\ e # Torn => e \in Stats(Append(s, x))
    BY <1>1, <1>2 DEF Stats
  <2>3. e \in Stats(Append(s, x)) => e \in Stats(s) \/ (e = x /\ e # Torn)
    BY <1>1, <1>2 DEF Stats
  <2> QED BY <2>1, <2>2, <2>3
<1> QED BY <1>1, <1>3
-----------------------------------------------------------------------------
(* Steps that leave the files, the requests and what is kept alone. *)

\* While one process is past the usage lock, no other is.
LEMMA OthersIdle ==
  ASSUME PcInv, ~collected, NEW p \in Process, Busy(p), NEW q \in Process, q # p
  PROVE  ~Busy(q)
BY DEF PcInv, BusyHolds

LEMMA QuietStep ==
  ASSUME LogInv, UNCHANGED <<disk, fd, chunk, server, pruned, overwritten, lost>>,
         collected => collected', now' \in Time,
         DOMAIN files' = Upload, \A u \in Upload : IsSeq(files'[u]),
         \A p \in Process : /\ pc'[p] \in {"write", "wait", "ok"} => pc'[p] = pc[p]
                            /\ pc'[p] \notin {"wait", "exit"} => pc[p] \notin {"wait", "exit"}
  PROVE  LogInv'
<1> USE DEF disk, server
<1>1. Kept' = Kept /\ OnDisk' = OnDisk
  BY DEF Kept, OnDisk, StatsIn
<1>2. Run \subseteq Process /\ Upload \subseteq Process
  BY DEF Process
<1>3. LogTypeOK'
  BY DEF LogInv, LogTypeOK
<1>4. RequestState'
  BY <1>2 DEF LogInv, RequestState
<1>5. LinesKept'
  BY <1>1 DEF LogInv, LinesKept, File
<1>6. ASSUME ~collected'
      PROVE  FilesKept' /\ WritesCurrent' /\ ChunkKept'
  <2>1. FilesKept /\ WritesCurrent /\ ChunkKept
    BY <1>6 DEF LogInv
  <2>2. FilesKept'
    BY <1>1, <2>1 DEF FilesKept
  <2>3. WritesCurrent'
    BY <1>2, <2>1 DEF WritesCurrent
  <2>4. ChunkKept'
    BY <1>1, <1>2, <2>1 DEF ChunkKept, InBody
  <2> QED BY <2>2, <2>3, <2>4
<1> QED BY <1>3, <1>4, <1>5, <1>6 DEF LogInv

\* A process that goes somewhere else quietly.
LEMMA QuietMove ==
  ASSUME LogInv, PcInv, NEW p \in Process, NEW l, Goto(p, l),
         l \notin {"write", "wait", "ok"}, pc[p] = "exit" => l = "exit",
         pc[p] = "wait" => l = "exit",
         UNCHANGED <<disk, fd, chunk, server, pruned, overwritten, lost, collected, now, files>>
  PROVE  LogInv'
<1>1. /\ pc'[p] = l /\ \A q \in Process \ {p} : pc'[q] = pc[q]
  BY DEF PcInv, Goto
<1>2. now' \in Time /\ DOMAIN files' = Upload /\ \A u \in Upload : IsSeq(files'[u])
  BY DEF LogInv, LogTypeOK
<1> QED BY <1>1, <1>2, QuietStep

LEMMA QuietRun ==
  ASSUME LogInv, PcInv, NEW r \in Run, LockUsage(r) \/ LockCurrent(r)
  PROVE  LogInv'
<1>1. r \in Process
  BY DEF Process
<1>2. \E l \in {"move", "open", "exit"} : Goto(r, l)
  BY DEF LockUsage, LockCurrent, Exit
<1>3. /\ pc[r] \in {"start", "lockcur"}
      /\ UNCHANGED <<disk, fd, chunk, server, pruned, overwritten, lost, collected, now, files>>
  BY DEF LockUsage, LockCurrent, client, history
<1> QED BY <1>1, <1>2, <1>3, QuietMove

LEMMA QuietUpload ==
  ASSUME LogInv, PcInv, NEW u \in Upload,
         BeginUpload(u) \/ LockToMove(u) \/ GetSizes(u) \/ UploadFails(u)
  PROVE  LogInv'
<1>1. u \in Process
  BY DEF Process
<1>2. \E l \in {"list", "lockcur", "move", "send", "exit"} :
        Goto(u, l) /\ (pc[u] = "wait" => l = "exit")
  BY DEF BeginUpload, LockToMove, GetSizes, UploadFails, Exit
<1>3. /\ pc[u] # "exit"
      /\ UNCHANGED <<disk, fd, chunk, server, pruned, overwritten, lost, collected, now, files>>
  BY DEF BeginUpload, LockToMove, GetSizes, UploadFails, client, history
<1> QED BY <1>1, <1>2, <1>3, QuietMove

LEMMA QuietList ==
  ASSUME LogInv, PcInv, NEW u \in Upload, ListFiles(u)
  PROVE  LogInv'
<1>1. /\ u \in Process /\ pc[u] = "list"
      /\ UNCHANGED <<now, disk, fd, chunk, server, pruned, overwritten, lost, collected>>
      /\ files' = [files EXCEPT ![u] = Sorted(Present)]
  BY DEF ListFiles, Process, history
<1>2. PICK l \in {"exit", "sizes"} : Goto(u, l)
  BY DEF ListFiles, Exit
<1>3. pc'[u] = l /\ \A q \in Process \ {u} : pc'[q] = pc[q]
  BY <1>1, <1>2 DEF PcInv, Goto
<1>4. IsSeq(Sorted(Present))
  <2>1. Cardinality(Present) \in Nat
    <3>1. Present \subseteq 1..MaxTime /\ IsFiniteSet(1..MaxTime)
      BY FS_Interval, SizeAssumption DEF Present, Time
    <3> QED BY <3>1, FS_Subset, FS_CardinalityType
  <2> DEFINE f == Sorted(Present)
  <2>2. f = [i \in 1..Cardinality(Present) |-> f[i]]
    BY DEF Sorted
  <2> HIDE DEF f
  <2>3. IsSeq(f)
    BY <2>1, <2>2, MadeIsSeq
  <2> QED BY <2>3 DEF f
<1>5. now' \in Time /\ DOMAIN files' = Upload /\ \A v \in Upload : IsSeq(files'[v])
  BY <1>1, <1>4 DEF LogInv, LogTypeOK
<1> QED BY <1>1, <1>3, <1>5, QuietStep

LEMMA QuietRest ==
  ASSUME LogInv, PcInv, Tick \/ (\E u \in Upload : Collect(u)) \/ UNCHANGED vars
  PROVE  LogInv'
<1>1. /\ UNCHANGED <<pc, disk, fd, chunk, server, pruned, overwritten, lost, files>>
      /\ collected => collected'
  BY DEF Tick, Collect, vars, client, history
<1>2. now' \in Time
  BY SizeAssumption DEF Tick, Collect, vars, LogInv, LogTypeOK, Time
<1> QED BY <1>1, <1>2, QuietStep DEF LogInv, LogTypeOK
-----------------------------------------------------------------------------
(* Steps that change the files, by a process that is past the lock. *)

\* Nobody else is past it: what is open and what has been sent is its own affair.
LEMMA DiskStep ==
  ASSUME LogInv, PcInv, NEW p \in Process, Busy(p), NEW l, Goto(p, l),
         l \notin {"wait", "ok"}, pc[p] # "wait",
         UNCHANGED <<now, files, chunk, server, collected>>,
         dir' \in [Name -> Run \cup {None}], data' \in [Run -> Seq(Entry)],
         DOMAIN fd' = Run, Kept \subseteq Kept',
         l = "write" => p \in Run /\ fd'[p] \in Run /\ fd'[p] = dir'[Cur],
         ~collected /\ FilesKept /\ WritesCurrent /\ ChunkKept => FilesKept'
  PROVE  LogInv'
<1> USE DEF server
<1>0. /\ pc'[p] = l /\ \A q \in Process \ {p} : pc'[q] = pc[q]
      /\ Run \subseteq Process /\ Upload \subseteq Process
  BY DEF PcInv, Goto, Process
<1>1. LogTypeOK'
  BY DEF LogInv, LogTypeOK
<1>2. RequestState'
  BY <1>0 DEF LogInv, RequestState, Busy
<1>3. LinesKept'
  BY DEF LogInv, LinesKept, File
<1>4. ASSUME ~collected'
      PROVE  FilesKept' /\ WritesCurrent' /\ ChunkKept'
  <2>1. ~collected /\ FilesKept /\ WritesCurrent /\ ChunkKept
    BY <1>4 DEF LogInv
  <2>2. \A q \in Process \ {p} : pc'[q] \in {"start", "exit"}
    BY <1>0, <2>1, OthersIdle DEF Busy
  <2>3. \A q \in Process : pc'[q] \notin {"wait", "ok"} /\ (pc'[q] = "write" => q = p /\ l = "write")
    BY <1>0, <2>2
  <2>4. WritesCurrent'
    BY <1>0, <2>3 DEF WritesCurrent
  <2>5. ChunkKept'
    BY <1>0, <2>3 DEF ChunkKept
  <2> QED BY <2>1, <2>4, <2>5
<1> QED BY <1>1, <1>2, <1>3, <1>4 DEF LogInv

\* Moving the current file away loses at most the one it replaces.
LEMMA MoveKeeps ==
  ASSUME LogInv, MoveCurrent, UNCHANGED <<data, server, pruned, lost>>
  PROVE  /\ dir' \in [Name -> Run \cup {None}] /\ Kept \subseteq Kept'
         /\ FilesKept => FilesKept'
<1>1. /\ now \in Name /\ now # Cur /\ Cur \in Name
      /\ dir \in [Name -> Run \cup {None}] /\ data \in [Run -> Seq(Entry)]
  BY NamesAndEntries DEF LogInv, LogTypeOK
<1>2. dir' = [dir EXCEPT ![Cur] = None, ![now] = dir[Cur]]
  BY DEF MoveCurrent
<1>3. dir' \in [Name -> Run \cup {None}] /\ dir'[now] = dir[Cur]
      /\ \A n \in Name : n # Cur /\ n # now => dir'[n] = dir[n]
  BY <1>1, <1>2
<1>4. Kept \subseteq Kept'
  BY DEF Kept, MoveCurrent, server
<1>5. ASSUME FilesKept
      PROVE  FilesKept'
  <2> SUFFICES ASSUME NEW f \in Run, NEW e \in Stats(data[f]), e \in OnDisk
               PROVE  e \in OnDisk' \/ e \in Kept'
    BY <1>4, <1>5 DEF FilesKept
  <2>1. PICK n \in Name : dir[n] # None /\ e \in Stats(data[dir[n]])
    BY OnDiskMeans
  <2>2. CASE n = now
    <3>1. e \in overwritten'
      BY <2>1, <2>2 DEF MoveCurrent, StatsIn
    <3> QED BY <3>1, KeptMeans
  <2>3. CASE n # now
    <3>1. \E m \in Name : dir'[m] # None /\ e \in Stats(data'[dir'[m]])
      BY <1>1, <1>3, <2>1, <2>3
    <3> QED BY <3>1, OnDiskMeans
  <2> QED BY <2>2, <2>3
<1> QED BY <1>3, <1>4, <1>5

LEMMA MoveStep ==
  ASSUME LogInv, PcInv, NEW p \in Process,
         (p \in Run /\ CheckMove(p)) \/ (p \in Upload /\ ForceMove(p))
  PROVE  LogInv'
<1>1. /\ pc[p] = "move" /\ Busy(p)
      /\ UNCHANGED <<now, files, chunk, server, collected, data, fd, pruned, lost>>
      /\ MoveCurrent \/ UNCHANGED <<dir, overwritten>>
      /\ \E l \in {"prune", "lockcur", "list"} : Goto(p, l)
  BY DEF CheckMove, ForceMove, Busy, client
<1>2. CASE MoveCurrent
  <2>1. data' \in [Run -> Seq(Entry)] /\ DOMAIN fd' = Run
    BY <1>1 DEF LogInv, LogTypeOK
  <2> QED BY <1>1, <1>2, <2>1, MoveKeeps, DiskStep
<1>3. CASE UNCHANGED <<dir, overwritten>>
  BY <1>1, <1>3, QuietMove DEF disk
<1> QED BY <1>1, <1>2, <1>3

\* Pruning takes away what it counts as pruned.
LEMMA PruneStep ==
  ASSUME LogInv, PcInv, NEW r \in Run, Prune(r)
  PROVE  LogInv'
<1> DEFINE old == {n \in Present : Cardinality({m \in Present : m >= n}) > MaxFiles}
<1>1. /\ r \in Process /\ pc[r] = "prune" /\ Busy(r) /\ Goto(r, "lockcur")
      /\ UNCHANGED <<now, files, chunk, server, collected, data, fd, overwritten, lost>>
      /\ dir' = [n \in Name |-> IF n \in old THEN None ELSE dir[n]]
      /\ pruned' = pruned \cup UNION {StatsIn(n) : n \in old}
  BY DEF Prune, Busy, Process, client
<1> HIDE DEF old
<1>2. /\ dir \in [Name -> Run \cup {None}]
      /\ data' \in [Run -> Seq(Entry)] /\ DOMAIN fd' = Run
  BY <1>1 DEF LogInv, LogTypeOK
<1>3. dir' \in [Name -> Run \cup {None}]
  BY <1>1, <1>2
<1>4. Kept \subseteq Kept'
  BY <1>1 DEF Kept, server
<1>5. ASSUME FilesKept
      PROVE  FilesKept'
  <2> SUFFICES ASSUME NEW f \in Run, NEW e \in Stats(data[f]), e \in OnDisk
               PROVE  e \in OnDisk' \/ e \in Kept'
    BY <1>1, <1>4, <1>5 DEF FilesKept
  <2>1. PICK n \in Name : dir[n] # None /\ e \in Stats(data[dir[n]])
    BY OnDiskMeans
  <2>2. CASE n \in old
    <3>1. e \in StatsIn(n)
      BY <2>1 DEF StatsIn
    <3>2. e \in pruned'
      BY <1>1, <2>2, <3>1
    <3> QED BY <3>2, KeptMeans
  <2>3. CASE n \notin old
    <3>1. dir'[n] # None /\ e \in Stats(data'[dir'[n]])
      BY <1>1, <2>1, <2>3
    <3> QED BY <3>1, OnDiskMeans
  <2> QED BY <2>2, <2>3
<1> QED BY <1>1, <1>2, <1>3, <1>4, <1>5, DiskStep

LEMMA OpenStep ==
  ASSUME LogInv, PcInv, NEW r \in Run, OpenFile(r)
  PROVE  LogInv'
<1>1. /\ r \in Process /\ pc[r] = "open" /\ Busy(r) /\ Goto(r, "write")
      /\ UNCHANGED <<now, files, chunk, server, collected, data, pruned, overwritten, lost>>
      /\ dir' = IF dir[Cur] = None THEN [dir EXCEPT ![Cur] = r] ELSE dir
      /\ fd' = [fd EXCEPT ![r] = dir'[Cur]]
  BY DEF OpenFile, Busy, Process, history
<1>2. /\ dir \in [Name -> Run \cup {None}] /\ Cur \in Name /\ None \notin Run
      /\ data' \in [Run -> Seq(Entry)] /\ DOMAIN fd = Run
  BY <1>1, NamesAndEntries DEF LogInv, LogTypeOK
<1>3. /\ dir' \in [Name -> Run \cup {None}] /\ dir'[Cur] \in Run
      /\ \A n \in Name : dir[n] # None => dir'[n] = dir[n]
  BY <1>1, <1>2
<1>4. DOMAIN fd' = Run /\ fd'[r] = dir'[Cur]
  BY <1>1, <1>2
<1>5. Kept' = Kept
  BY <1>1 DEF Kept, server
<1>6. ASSUME FilesKept
      PROVE  FilesKept'
  <2> SUFFICES ASSUME NEW f \in Run, NEW e \in Stats(data[f]), e \in OnDisk
               PROVE  e \in OnDisk'
    BY <1>1, <1>5, <1>6 DEF FilesKept
  <2>1. PICK n \in Name : dir[n] # None /\ e \in Stats(data[dir[n]])
    BY OnDiskMeans
  <2>2. dir'[n] # None /\ e \in Stats(data'[dir'[n]])
    BY <1>1, <1>3, <2>1
  <2> QED BY <2>2, OnDiskMeans
<1> QED BY <1>1, <1>2, <1>3, <1>4, <1>5, <1>6, DiskStep

\* What is written goes to the current file.
LEMMA WriteStep ==
  ASSUME LogInv, PcInv, NEW r \in Run, WriteStat(r) \/ DieWriting(r)
  PROVE  LogInv'
<1>1. /\ r \in Process /\ pc[r] = "write" /\ Busy(r) /\ Goto(r, "exit")
      /\ UNCHANGED <<now, dir, files, chunk, server, collected, fd, pruned, overwritten, lost>>
      /\ \E x \in {r, Torn} : data' = [data EXCEPT ![fd[r]] = Append(@, x)]
  BY DEF WriteStat, DieWriting, Exit, Busy, Process, client, history
<1>2. PICK x \in {r, Torn} : data' = [data EXCEPT ![fd[r]] = Append(@, x)]
  BY <1>1
<1>3. /\ dir \in [Name -> Run \cup {None}] /\ Cur \in Name /\ None \notin Run /\ x \in Entry
      /\ data \in [Run -> Seq(Entry)] /\ DOMAIN fd' = Run
  BY <1>1, NamesAndEntries DEF LogInv, LogTypeOK, Entry
<1>4. data' \in [Run -> Seq(Entry)]
  <2>1. fd[r] \in Run => Append(data[fd[r]], x) \in Seq(Entry)
    BY <1>3, StatsOfAppend
  <2> QED BY <1>2, <1>3, <2>1
<1>5. Kept' = Kept
  BY <1>1 DEF Kept, server
<1>6. ASSUME FilesKept, WritesCurrent
      PROVE  FilesKept'
  <2>1. fd[r] \in Run /\ fd[r] = dir[Cur]
    BY <1>1, <1>6 DEF WritesCurrent
  <2>2. /\ data'[fd[r]] = Append(data[fd[r]], x)
        /\ \A f \in Run \ {fd[r]} : data'[f] = data[f]
    BY <1>2, <1>3, <2>1
  <2>3. Stats(data[fd[r]]) \subseteq Stats(data'[fd[r]])
    BY <1>3, <2>1, <2>2, StatsOfAppend
  <2> SUFFICES ASSUME NEW f \in Run, NEW e \in Stats(data'[f])
               PROVE  e \in OnDisk' \/ e \in Kept'
    BY DEF FilesKept
  <2>4. CASE f = fd[r]
    <3>1. dir'[Cur] # None /\ e \in Stats(data'[dir'[Cur]])
      BY <1>1, <1>3, <2>1, <2>4
    <3> QED BY <1>3, <3>1, OnDiskMeans
  <2>5. CASE f # fd[r] /\ e \in OnDisk
    <3>1. PICK n \in Name : dir[n] # None /\ e \in Stats(data[dir[n]])
      BY <2>5, OnDiskMeans
    <3>2. dir'[n] # None /\ e \in Stats(data'[dir'[n]])
      BY <1>1, <1>3, <2>2, <2>3, <3>1
    <3> QED BY <3>2, OnDiskMeans
  <2>6. f # fd[r] => e \in OnDisk \/ e \in Kept
    BY <1>6, <2>2 DEF FilesKept
  <2> QED BY <1>5, <2>4, <2>5, <2>6
<1> QED BY <1>1, <1>3, <1>4, <1>5, <1>6, DiskStep

\* What an uploader removes is kept.
LEMMA RemoveStep ==
  ASSUME LogInv, PcInv, NEW u \in Upload, RemoveFiles(u)
  PROVE  LogInv'
<1>1. /\ u \in Process /\ pc[u] = "ok" /\ Busy(u) /\ Goto(u, "send")
      /\ UNCHANGED <<now, files, chunk, server, collected, data, fd, pruned, overwritten, lost>>
      /\ dir' = [n \in Name |-> IF \E i \in 1..Len(chunk[u]) : chunk[u][i] = n
                                THEN None ELSE dir[n]]
  BY DEF RemoveFiles, Busy, Process, client, history
<1>2. /\ dir \in [Name -> Run \cup {None}] /\ None \notin Run /\ data \in [Run -> Seq(Entry)]
      /\ data' \in [Run -> Seq(Entry)] /\ DOMAIN fd' = Run
  BY <1>1, NamesAndEntries DEF LogInv, LogTypeOK
<1>3. dir' \in [Name -> Run \cup {None}]
  BY <1>1, <1>2
<1>4. Kept' = Kept
  BY <1>1 DEF Kept, server
<1>5. ASSUME FilesKept, ChunkKept
      PROVE  FilesKept'
  <2> SUFFICES ASSUME NEW f \in Run, NEW e \in Stats(data[f]), e \in OnDisk
               PROVE  e \in OnDisk' \/ e \in Kept
    BY <1>1, <1>4, <1>5 DEF FilesKept
  <2>1. PICK n \in Name : dir[n] # None /\ e \in Stats(data[dir[n]])
    BY OnDiskMeans
  <2>2. ASSUME NEW i \in 1..Len(chunk[u]), chunk[u][i] = n
        PROVE  e \in Kept
    <3>1. body[u] = <<>>
      BY <1>1 DEF LogInv, RequestState
    <3>2. ~InBody(u, e)
      BY <3>1, EmptySeq DEF InBody
    <3>3. e \in Run
      BY <1>2, NamesAndEntries
    <3> QED BY <1>1, <1>5, <2>1, <2>2, <3>2, <3>3 DEF ChunkKept
  <2>3. CASE ~ \E i \in 1..Len(chunk[u]) : chunk[u][i] = n
    <3>1. dir'[n] # None /\ e \in Stats(data'[dir'[n]])
      BY <1>1, <2>1, <2>3
    <3> QED BY <3>1, OnDiskMeans
  <2> QED BY <2>2, <2>3
<1> QED BY <1>1, <1>2, <1>3, <1>4, <1>5, DiskStep
-----------------------------------------------------------------------------
(* A request is made. *)

\* The contents of the files of a chunk are sent, and none of them has been read.
LEMMA SendStep ==
  ASSUME LogInv, PcInv, NEW u \in Upload, SendChunk(u)
  PROVE  LogInv'
<1> USE DEF disk
<1>1. /\ u \in Process /\ pc[u] = "send" /\ Busy(u)
      /\ UNCHANGED <<now, disk, fd, pos, line, late, hasError, db, saved, unsaved>>
      /\ UNCHANGED <<pruned, overwritten, lost, collected>>
  BY DEF SendChunk, Busy, Process, history
<1>2. CASE files[u] = <<>> \/ Gone(files[u])
  <2>1. Goto(u, "exit") /\ UNCHANGED <<files, chunk, body>>
    BY <1>2 DEF SendChunk, Exit
  <2> QED BY <1>1, <2>1, QuietMove DEF server
<1>3. CASE ~(files[u] = <<>> \/ Gone(files[u]))
  <2> DEFINE k == ChunkLen(files[u])
             request == [i \in 1..k |-> data[dir[files[u][i]]]]
             m == (IF k = 0 THEN 1 ELSE k) + 1
  <2>1. /\ files' = [files EXCEPT ![u] = SubSeq(@, m, Len(@))]
        /\ chunk' = [chunk EXCEPT ![u] = SubSeq(files[u], 1, k)]
        /\ body' = [body EXCEPT ![u] = request]
        /\ IF k = 0 THEN UNCHANGED pc ELSE Goto(u, "wait")
    BY <1>3 DEF SendChunk
  <2>2. /\ IsSeq(files[u]) /\ k \in 0..Len(files[u]) /\ Len(files[u]) \in Nat /\ k \in Nat
    BY ChunkIsPart DEF LogInv, LogTypeOK, IsSeq
  <2>3. Len(files[u]) # 0
    <3>1. files[u] = [i \in 1..Len(files[u]) |-> files[u][i]]
      BY <2>2 DEF IsSeq
    <3> QED BY <1>3, <2>2, <3>1, IsSeqOf, EmptySeq
  <2>4. m \in 1..(Len(files[u]) + 1) /\ Len(files[u]) \in 0..Len(files[u])
    BY <2>2, <2>3
  <2>5. IsSeq(SubSeq(files[u], m, Len(files[u])))
    <3> HIDE DEF m
    <3> QED BY <2>2, <2>4, PartIsSeq
  <2>6. 1 \in 1..(Len(files[u]) + 1)
    BY <2>2
  <2>7. /\ IsSeq(SubSeq(files[u], 1, k)) /\ Len(SubSeq(files[u], 1, k)) = k
        /\ \A i \in 1..k : SubSeq(files[u], 1, k)[i] = files[u][i]
    <3> HIDE DEF k
    <3> QED BY <2>2, <2>6, PartIsSeq
  <2>8. IsSeq(request) /\ Len(request) = k /\ (k = 0 => request = <<>>)
    <3>1. request = [i \in 1..k |-> request[i]]
      OBVIOUS
    <3>2. k = 0 => request = <<>>
      <4>1. k = 0 => 1..k = {}
        BY <2>2
      <4> QED BY <4>1
    <3> HIDE DEF request, k
    <3>3. IsSeq(request) /\ Len(request) = k
      BY <2>2, <3>1, MadeIsSeq
    <3> QED BY <3>2, <3>3
  <2>9. \A i \in 1..k : request[i] = data[dir[files[u][i]]]
    OBVIOUS
  <2> HIDE DEF k, m, request
  <2>10. /\ files'[u] = SubSeq(files[u], m, Len(files[u])) /\ chunk'[u] = SubSeq(files[u], 1, k)
         /\ body'[u] = request
         /\ DOMAIN files' = Upload /\ DOMAIN chunk' = Upload /\ DOMAIN body' = Upload
         /\ \A v \in Upload \ {u} :
              files'[v] = files[v] /\ chunk'[v] = chunk[v] /\ body'[v] = body[v]
    BY <2>1 DEF LogInv, LogTypeOK
  <2>11. LogTypeOK'
    BY <1>1, <2>5, <2>7, <2>8, <2>10 DEF LogInv, LogTypeOK
  <2>12. /\ pc'[u] = IF k = 0 THEN "send" ELSE "wait"
         /\ \A q \in Process \ {u} : pc'[q] = pc[q]
         /\ Run \subseteq Process /\ Upload \subseteq Process
    BY <1>1, <2>1 DEF PcInv, Goto, Process
  <2>13. pos[u] = 0
    BY <1>1 DEF LogInv, RequestState
  <2>14. RequestState'
    BY <1>1, <2>8, <2>10, <2>12, <2>13 DEF LogInv, RequestState
  <2>15. Kept' = Kept /\ OnDisk' = OnDisk
    BY <1>1 DEF Kept, OnDisk, StatsIn
  <2>16. LinesKept'
    <3>1. \A j : j \notin 1..pos[u]
      BY <2>13
    <3> QED BY <1>1, <2>10, <2>15, <3>1 DEF LogInv, LinesKept, File
  <2>17. ASSUME ~collected'
         PROVE  FilesKept' /\ WritesCurrent' /\ ChunkKept'
    <3>1. ~collected /\ FilesKept /\ WritesCurrent
      BY <1>1, <2>17 DEF LogInv
    <3>2. FilesKept'
      BY <1>1, <2>15, <3>1 DEF FilesKept
    <3>3. \A q \in Process \ {u} : pc'[q] \in {"start", "exit"}
      BY <1>1, <2>12, <3>1, OthersIdle DEF Busy
    <3>4. WritesCurrent'
      BY <2>12, <3>3 DEF WritesCurrent
    <3>5. ASSUME NEW i \in 1..Len(chunk'[u]), NEW e \in Run, e \in Stats(data'[dir'[chunk'[u][i]]])
          PROVE  InBody(u, e)'
      <4>1. i \in 1..k /\ chunk'[u][i] = files[u][i]
        BY <2>7, <2>10
      <4>2. body'[u][i] = data'[dir'[chunk'[u][i]]] /\ i \in 1..Len(body'[u])
        BY <1>1, <2>8, <2>9, <2>10, <4>1
      <4> QED BY <3>5, <4>2 DEF InBody
    <3>6. ChunkKept'
      BY <2>12, <3>3, <3>5 DEF ChunkKept
    <3> QED BY <3>2, <3>4, <3>6
  <2> QED BY <2>11, <2>14, <2>16, <2>17 DEF LogInv
<1> QED BY <1>2, <1>3
-----------------------------------------------------------------------------
(* The server's steps. *)

\* A step of the server that leaves the requests alone.
LEMMA ServerFrame ==
  ASSUME LogInv, UNCHANGED <<now, pc, disk, client, body, collected>>, Kept \subseteq Kept',
         DOMAIN line' = Upload, pos' \in [Upload -> Nat], DOMAIN saved' = Time,
         \A u \in Upload : body[u] = <<>> => pos'[u] = pos[u],
         LinesKept'
  PROVE  LogInv'
<1> USE DEF disk, client
<1>1. LogTypeOK' /\ RequestState'
  BY DEF LogInv, LogTypeOK, RequestState
<1>2. OnDisk' = OnDisk
  BY DEF OnDisk, StatsIn
<1>3. ~collected' => FilesKept' /\ WritesCurrent' /\ ChunkKept'
  <2> SUFFICES ASSUME ~collected' PROVE FilesKept' /\ WritesCurrent' /\ ChunkKept'
    OBVIOUS
  <2>1. FilesKept /\ WritesCurrent /\ ChunkKept
    BY DEF LogInv
  <2>2. FilesKept'
    BY <1>2, <2>1 DEF FilesKept
  <2>3. WritesCurrent'
    BY <2>1 DEF WritesCurrent
  <2>4. ChunkKept'
    BY <2>1 DEF ChunkKept, InBody
  <2> QED BY <2>2, <2>3, <2>4
<1> QED BY <1>1, <1>3 DEF LogInv

\* A line is read when the one before is stored.
LEMMA ReadStep ==
  ASSUME LogInv, NEW u \in Upload, ReadLine(u)
  PROVE  LogInv'
<1>1. /\ body[u] # <<>> /\ line[u] = None
      /\ UNCHANGED <<now, pc, disk, client, body, late, hasError, db, saved, unsaved, history>>
      /\ pos' = [pos EXCEPT ![u] = @ + 1]
      /\ line' = [line EXCEPT ![u] = File(u)[pos'[u]]]
  BY DEF ReadLine
<1>2. pos \in [Upload -> Nat] /\ DOMAIN line = Upload /\ DOMAIN saved = Time /\ None \notin Run
  BY NamesAndEntries DEF LogInv, LogTypeOK
<1>3. /\ pos' \in [Upload -> Nat] /\ DOMAIN line' = Upload
      /\ pos'[u] = pos[u] + 1 /\ pos[u] \in Nat /\ line'[u] = File(u)[pos'[u]]
      /\ \A v \in Upload \ {u} : pos'[v] = pos[v] /\ line'[v] = line[v]
  BY <1>1, <1>2
<1>4. Kept' = Kept /\ File(u)' = File(u)
  BY <1>1 DEF Kept, history, File
<1>5. LinesKept'
  <2>1. ASSUME NEW j \in 1..pos'[u], File(u)[j] \in Run
        PROVE  File(u)[j] \in Kept \/ File(u)[j] = line'[u]
    <3>1. j \in 1..pos[u] \/ j = pos'[u]
      BY <1>3
    <3> QED BY <1>1, <1>2, <1>3, <2>1, <3>1 DEF LogInv, LinesKept
  <2> QED BY <1>1, <1>3, <1>4, <2>1 DEF LogInv, LinesKept, File
<1> QED BY <1>1, <1>2, <1>3, <1>4, <1>5, ServerFrame DEF history

\* A goroutine stores what it has.
LEMMA StoreStep ==
  ASSUME LogInv, NEW u \in Upload, StoreLine(u) \/ \E e \in Entry : StoreLate(u, e)
  PROVE  LogInv'
<1>1. /\ UNCHANGED <<now, pc, disk, client, body, pos, saved, history>>
      /\ db \subseteq db' /\ unsaved \subseteq unsaved'
      /\ \/ /\ line' = [line EXCEPT ![u] = None] /\ late' = late
            /\ line[u] # Torn => line[u] \in db' \cup unsaved'
         \/ \E e : /\ line' = line /\ late' = late \ {<<u, e>>}
                   /\ e # Torn => e \in db' \cup unsaved'
  BY DEF StoreLine, StoreLate, Store, Persist, Fail
<1>2. /\ pos \in [Upload -> Nat] /\ DOMAIN line = Upload /\ DOMAIN saved = Time
      /\ Torn \notin Run
  BY NamesAndEntries DEF LogInv, LogTypeOK
<1>3. DOMAIN line' = Upload /\ \A v \in Upload : line'[v] = line[v] \/ line[v] = Torn \/ line[v] \in db' \cup unsaved'
  BY <1>1, <1>2
<1>4. Kept \subseteq Kept'
  <2> SUFFICES ASSUME NEW d \in Kept PROVE d \in Kept'
    OBVIOUS
  <2>1. ASSUME d \in Run, NEW v \in Upload, <<v, d>> \in late
        PROVE  d \in db' \cup unsaved' \/ <<v, d>> \in late'
    BY <1>1, <1>2, <2>1
  <2> QED BY <1>1, <2>1, KeptMeans DEF history
<1>5. db' \cup unsaved' \subseteq Kept'
  BY KeptMeans
<1>6. LinesKept'
  BY <1>1, <1>2, <1>3, <1>4, <1>5 DEF LogInv, LinesKept, File
<1> QED BY <1>1, <1>2, <1>3, <1>4, <1>6, ServerFrame DEF history

\* Without a copy the lines of the file are stored or with the goroutine, with one
\* they are in the copy.
LEMMA FileIsKept ==
  ASSUME LogInv, NEW u \in Upload, FileComplete(u)
  PROVE  /\ Kept \subseteq Kept'
         /\ \A e \in Run : e \in Stats(File(u)) => e \in Kept'
<1>1. /\ body[u] # <<>>
      /\ pos[u] = Len(File(u)) \/ AtTorn(u)
      /\ UNCHANGED <<db, pruned, lost>> /\ unsaved \subseteq unsaved'
  BY DEF FileComplete, Fail
<1>2. /\ late \subseteq late'
      /\ line[u] # None => <<u, line[u]>> \in late'
  BY DEF FileComplete
<1>3. /\ now \in Time /\ DOMAIN saved = Time /\ None \notin Run
  BY NamesAndEntries DEF LogInv, LogTypeOK
<1>4. \/ UNCHANGED <<saved, overwritten>> /\ ~Copies(u)
      \/ /\ saved' = [saved EXCEPT ![now] = Stats(File(u))]
         /\ overwritten' = overwritten \cup saved[now]
      \/ UNCHANGED <<saved, overwritten>> /\ unsaved' = unsaved \cup Stats(File(u))
  BY DEF FileComplete, Fail
<1>5. Kept \subseteq Kept'
  <2> SUFFICES ASSUME NEW e \in Kept PROVE e \in Kept'
    OBVIOUS
  <2>1. ASSUME NEW n \in Time, e \in saved[n]
        PROVE  e \in saved'[n] \/ e \in overwritten'
    BY <1>3, <1>4, <2>1
  <2>2. e \in overwritten => e \in overwritten'
    BY <1>4
  <2> QED BY <1>1, <1>2, <2>1, <2>2, KeptMeans
<1>6. ASSUME NEW e \in Run, e \in Stats(File(u))
      PROVE  e \in Kept'
  <2>1. CASE saved' = [saved EXCEPT ![now] = Stats(File(u))]
    <3>1. e \in saved'[now]
      BY <1>3, <1>6, <2>1
    <3> QED BY <1>3, <3>1, KeptMeans
  <2>2. CASE ~Copies(u)
    <3>1. pos[u] = Len(File(u))
      BY <1>1, <2>2 DEF Copies
    <3>2. PICK j \in 1..pos[u] : e = File(u)[j]
      BY <1>6, <3>1 DEF Stats
    <3>3. e \in Kept \/ e = line[u]
      BY <1>1, <1>6, <3>2 DEF LogInv, LinesKept
    <3>4. CASE e = line[u]
      <4>1. <<u, e>> \in late'
        BY <1>2, <1>3, <1>6, <3>4
      <4> QED BY <1>6, <4>1, KeptMeans
    <3> QED BY <1>5, <3>3, <3>4
  <2>3. CASE unsaved' = unsaved \cup Stats(File(u))
    BY <1>6, <2>3, KeptMeans
  <2> QED BY <1>4, <2>1, <2>2, <2>3
<1> QED BY <1>5, <1>6

LEMMA CompleteStep ==
  ASSUME LogInv, PcInv, NEW u \in Upload, FileComplete(u)
  PROVE  LogInv'
<1> USE DEF disk, client
<1>1. /\ body[u] # <<>> /\ u \in Process
      /\ UNCHANGED <<now, disk, client, collected>>
      /\ line' = [line EXCEPT ![u] = None]
      /\ body' = [body EXCEPT ![u] = Tail(@)]
      /\ pos' = [pos EXCEPT ![u] = 0]
      /\ IF body'[u] = <<>> /\ pc[u] = "wait" THEN Goto(u, "ok") ELSE UNCHANGED pc
      /\ DOMAIN saved' = Time
  BY DEF FileComplete, Process, LogInv, LogTypeOK
<1>2. Kept \subseteq Kept' /\ \A e \in Run : e \in Stats(File(u)) => e \in Kept'
  BY FileIsKept
<1>3. /\ IsSeq(Tail(body[u])) /\ Len(body[u]) \in Nat /\ Len(body[u]) >= 1
      /\ Len(Tail(body[u])) = Len(body[u]) - 1 /\ File(u) = body[u][1]
      /\ \A i \in 1..Len(Tail(body[u])) : Tail(body[u])[i] = body[u][i + 1]
  BY <1>1, TailIsSeq DEF LogInv, LogTypeOK, File
<1>4. /\ body'[u] = Tail(body[u]) /\ pos'[u] = 0
      /\ DOMAIN body' = Upload /\ pos' \in [Upload -> Nat] /\ DOMAIN line' = Upload
      /\ \A v \in Upload \ {u} : body'[v] = body[v] /\ pos'[v] = pos[v] /\ line'[v] = line[v]
  BY <1>1 DEF LogInv, LogTypeOK
<1>5. /\ \A q \in Process \ {u} : pc'[q] = pc[q]
      /\ pc'[u] = IF body'[u] = <<>> /\ pc[u] = "wait" THEN "ok" ELSE pc[u]
      /\ pc[u] \in {"wait", "exit"}
      /\ Run \subseteq Process /\ Upload \subseteq Process /\ u \notin Run
  <2>1. pc[u] \in {"wait", "exit"}
    BY <1>1 DEF LogInv, RequestState
  <2>2. u \notin Run
    BY ProcessAssumption
  <2> QED BY <1>1, <2>1, <2>2 DEF PcInv, Goto, Process
<1>6. LogTypeOK'
  BY <1>1, <1>3, <1>4 DEF LogInv, LogTypeOK
<1>7. RequestState'
  BY <1>4, <1>5 DEF LogInv, RequestState
<1>8. LinesKept'
  <2>1. \A j : j \notin 1..pos'[u]
    BY <1>4
  <2> QED BY <1>2, <1>4, <2>1 DEF LogInv, LinesKept, File
<1>9. ASSUME ~collected'
      PROVE  FilesKept' /\ WritesCurrent' /\ ChunkKept'
  <2>1. FilesKept /\ WritesCurrent /\ ChunkKept
    BY <1>1, <1>9 DEF LogInv
  <2>2. OnDisk' = OnDisk
    BY <1>1 DEF OnDisk, StatsIn
  <2>3. FilesKept'
    BY <1>1, <1>2, <2>1, <2>2 DEF FilesKept
  <2>4. WritesCurrent'
    BY <1>1, <1>5, <2>1 DEF WritesCurrent
  <2>5. ASSUME NEW e \in Run, InBody(u, e)
        PROVE  e \in Kept' \/ InBody(u, e)'
    <3>1. PICK j \in 1..Len(body[u]) : e \in Stats(body[u][j])
      BY <2>5 DEF InBody
    <3>2. CASE j = 1
      BY <1>2, <1>3, <3>1, <3>2
    <3>3. CASE j # 1
      <4>1. j - 1 \in 1..Len(Tail(body[u])) /\ (j - 1) + 1 = j
        BY <1>3, <3>3
      <4>2. body'[u][j - 1] = body[u][j]
        BY <1>3, <1>4, <4>1
      <4> QED BY <1>4, <3>1, <4>1, <4>2 DEF InBody
    <3> QED BY <3>2, <3>3
  <2>6. ASSUME NEW v \in Upload, pc'[v] = "ok" \/ (pc'[v] = "wait" /\ body'[v] # <<>>),
               NEW i \in 1..Len(chunk'[v]), NEW e \in Run,
               e \in Stats(data'[dir'[chunk'[v][i]]])
        PROVE  e \in Kept' \/ InBody(v, e)'
    <3>1. e \in Kept \/ InBody(v, e)
      BY <1>1, <1>4, <1>5, <2>1, <2>6 DEF ChunkKept
    <3>2. v # u => (InBody(v, e)' <=> InBody(v, e))
      BY <1>4 DEF InBody
    <3> QED BY <1>2, <2>5, <3>1, <3>2
  <2>7. ChunkKept'
    BY <2>6 DEF ChunkKept
  <2> QED BY <2>3, <2>4, <2>7
<1> QED BY <1>6, <1>7, <1>8, <1>9 DEF LogInv

\* What goroutines of completed files had is counted as lost; nothing else is.
LEMMA StopStep ==
  ASSUME LogInv, ServerStops
  PROVE  LogInv'
<1> USE DEF disk, client
<1>1. /\ UNCHANGED <<now, pc, disk, client, db, saved, unsaved, pruned, overwritten, collected>>
      /\ body' = [u \in Upload |-> <<>>] /\ pos' = [u \in Upload |-> 0]
      /\ line' = [u \in Upload |-> None]
      /\ lost = {} /\ lost' = {e \in Run : \E u \in Upload : <<u, e>> \in late}
  BY DEF ServerStops
<1>2. Kept \subseteq Kept'
  <2> SUFFICES ASSUME NEW e \in Kept PROVE e \in Kept'
    OBVIOUS
  <2>1. e \in Run /\ (\E u \in Upload : <<u, e>> \in late) => e \in lost'
    BY <1>1
  <2> QED BY <1>1, <2>1, KeptMeans
<1>3. LogTypeOK'
  BY <1>1, EmptyIsSeq DEF LogInv, LogTypeOK
<1>4. RequestState' /\ LinesKept'
  BY <1>1 DEF RequestState, LinesKept
<1>5. ASSUME ~collected'
      PROVE  FilesKept' /\ WritesCurrent' /\ ChunkKept'
  <2>1. FilesKept /\ WritesCurrent /\ ChunkKept
    BY <1>1, <1>5 DEF LogInv
  <2>2. OnDisk' = OnDisk
    BY <1>1 DEF OnDisk, StatsIn
  <2>3. FilesKept' /\ WritesCurrent'
    BY <1>1, <1>2, <2>1, <2>2 DEF FilesKept, WritesCurrent
  <2>4. \A u \in Upload : pc'[u] = "ok" => \A e : ~InBody(u, e)
    BY <1>1, EmptySeq DEF LogInv, RequestState, InBody
  <2>5. ChunkKept'
    BY <1>1, <1>2, <2>1, <2>4 DEF ChunkKept
  <2> QED BY <2>3, <2>5
<1> QED BY <1>2, <1>3, <1>4, <1>5 DEF LogInv
-----------------------------------------------------------------------------
LEMMA LogStep ==
  ASSUME LogInv, PcInv, [Next]_vars
  PROVE  LogInv'
<1>1. ASSUME NEW r \in Run, RunStep(r) \/ DieWriting(r)
      PROVE  LogInv'
  <2>1. r \in Process
    BY DEF Process
  <2> QED BY <1>1, <2>1, QuietRun, MoveStep, PruneStep, OpenStep, WriteStep DEF RunStep
<1>2. ASSUME NEW u \in Upload, UploadStep(u) \/ UploadFails(u)
      PROVE  LogInv'
  <2>1. u \in Process
    BY DEF Process
  <2> QED BY <1>2, <2>1, QuietUpload, QuietList, MoveStep, SendStep, RemoveStep DEF UploadStep
<1>3. ASSUME NEW u \in Upload, ServerStep(u)
      PROVE  LogInv'
  BY <1>3, ReadStep, StoreStep, CompleteStep DEF ServerStep
<1>4. CASE (\E u \in Upload : Collect(u)) \/ Tick \/ UNCHANGED vars
  BY <1>4, QuietRest
<1>5. CASE ServerStops
  BY <1>5, StopStep
<1> QED BY <1>1, <1>2, <1>3, <1>4, <1>5 DEF Next

LEMMA LogInit == Init => LogInv
<1> SUFFICES ASSUME Init PROVE LogInv  OBVIOUS
<1>1. PICK s \in Left : data = [r \in Run |-> IF r = Before THEN s ELSE <<>>]
  BY DEF Init
<1>2. /\ s \in Seq(Entry) /\ Before \in Run /\ Torn \notin Run
  <2>1. {Before, Torn} \subseteq Entry /\ s \in Seq({Before, Torn}) /\ Before \in Run
    BY ProcessAssumption, SizeAssumption DEF Entry
  <2> QED BY <2>1, NamesAndEntries
<1>3. data \in [Run -> Seq(Entry)]
  <2>1. <<>> \in Seq(Entry)
    BY EmptySeq
  <2> QED BY <1>1, <1>2, <2>1
<1>4. now \in Time
  BY SizeAssumption DEF Init, Time
<1>5. LogTypeOK
  BY <1>2, <1>3, <1>4, EmptyIsSeq DEF Init, LogTypeOK
<1>6. RequestState /\ LinesKept
  BY DEF Init, RequestState, LinesKept
<1>7. Upload \cap Run = {} /\ \A p \in Process : pc[p] \in {"start", "exit"}
  BY ProcessAssumption DEF Init
<1>8. WritesCurrent /\ ChunkKept
  BY <1>7 DEF WritesCurrent, ChunkKept, Process
<1>9. FilesKept
  <2> SUFFICES ASSUME NEW f \in Run, NEW e \in Stats(data[f])
               PROVE  e \in OnDisk
    BY DEF FilesKept
  <2>1. \A x : x \notin Stats(<<>>)
    BY EmptySeq DEF Stats
  <2>2. f = Before
    BY <1>1, <2>1
  <2>3. Cur \in Name /\ dir[Cur] = Before /\ dir[Cur] # None
    BY <1>2, NamesAndEntries DEF Init
  <2> QED BY <2>2, <2>3, OnDiskMeans
<1> QED BY <1>5, <1>6, <1>8, <1>9 DEF LogInv

\* A logged statistic is in a file until the server has it (test161/usage.go,
\* test161-server/usage.go), or else was pruned, replaced by a file of the same
\* second, with a goroutine that nobody waited for when the server stopped, or given
\* up by a server that could neither store nor copy it and answered 200: as long as the usage lock lasts to the end of the process that took it.
THEOREM StatsAreNotLost == Spec => []NoStatLost
<1>1. PcInv /\ LogInv /\ [Next]_vars => LogInv'
  BY LogStep
<1>2. LogInv => NoStatLost
  <2> SUFFICES ASSUME LogInv, ~collected, NEW e \in Logged
               PROVE  e \in OnDisk \cup AtServer \cup pruned \cup overwritten \cup lost \cup unsaved
    BY DEF NoStatLost
  <2>1. PICK f \in Run : e \in Stats(data[f])
    BY DEF Logged
  <2>2. e \in OnDisk \/ e \in Kept
    BY <2>1 DEF LogInv, FilesKept
  <2>3. Kept \subseteq AtServer \cup pruned \cup overwritten \cup lost \cup unsaved
    BY DEF Kept, AtServer
  <2> QED BY <2>2, <2>3
<1> QED BY <1>1, <1>2, LogInit, PcInvariant, PTL DEF Spec
=============================================================================
