----------------------------- MODULE LockProofs -----------------------------
(***************************************************************************)
(* Proofs about the lock on the students, pendingSubmissions, and about    *)
(* what it protects: in SubmissionLifecycle the lock itself, for any       *)
(* requests, teams and restarts, and in BuildCache the cached directory of *)
(* the builds, for any submissions, commands and secure files.             *)
(***************************************************************************)
EXTENDS SubmissionLifecycle, BuildCache, FiniteSetTheorems, SequenceTheorems, TLAPS

\* The three properties of pendingSubmissions support each other: a new live
\* submission shares no student with an old one because the old one's are
\* pending, and unlocking takes no lock of another because they share none.
LockInv ==
  /\ DOMAIN req = Request
  /\ OneSubmissionPerStudent
  /\ LockedWhileLive
  /\ PendingHasReason

\* A request moves without a lock being taken or given back: it is neither live
\* before nor after, live before and after, or aborted with its lock.
LEMMA RequestMoves ==
  ASSUME LockInv, NEW r \in Request, NEW st, req' = [req EXCEPT ![r] = st], UNCHANGED pending,
         \/ ~Live(r) /\ req[r] # "aborted" /\ st \in {"checked", "validated", "refused"}
         \/ Live(r) /\ st \in {"running", "updating", "unlocking", "aborted"}
  PROVE  LockInv'
  <1>1. \A q \in Request : q # r => req'[q] = req[q]
    BY DEF LockInv
  <1>2. req'[r] = st /\ DOMAIN req' = Request
    BY DEF LockInv
  <1>3. \A q \in Request : Live(q)' => Live(q)
    BY <1>1, <1>2 DEF Live
  <1>4. OneSubmissionPerStudent' /\ LockedWhileLive'
    BY <1>3 DEF LockInv, OneSubmissionPerStudent, LockedWhileLive
  <1>5. \A q \in Request : Live(q) \/ req[q] = "aborted" => Live(q)' \/ req'[q] = "aborted"
    BY <1>1, <1>2 DEF Live
  <1>6. PendingHasReason'
    BY <1>5 DEF LockInv, PendingHasReason
  <1> QED BY <1>2, <1>4, <1>6 DEF LockInv

LEMMA RegisterKeepsLockInv ==
  ASSUME LockInv, NEW r \in Request, Register(r)
  PROVE  LockInv'
  <1>1. ~Live(r) /\ req[r] = "validated"
    BY DEF Register, Live
  <1>2. CASE req' = [req EXCEPT ![r] = "refused"] /\ UNCHANGED pending
    BY <1>1, <1>2, RequestMoves
  <1>3. CASE /\ ~SomePending(r)
             /\ pending' = pending \cup Team[r]
             /\ req' = [req EXCEPT ![r] = "registered"]
    <2>1. DOMAIN req' = Request /\ Live(r)'
          /\ \A q \in Request : q # r => (Live(q)' <=> Live(q)) /\ req'[q] = req[q]
      BY <1>3 DEF LockInv, Live
    <2>2. \A q \in Request : Live(q) => Team[q] \cap Team[r] = {}
      BY <1>3 DEF LockInv, LockedWhileLive, SomePending
    <2>3. OneSubmissionPerStudent'
      BY <2>1, <2>2 DEF LockInv, OneSubmissionPerStudent
    <2>4. LockedWhileLive'
      BY <1>3, <2>1 DEF LockInv, LockedWhileLive
    <2>5. PendingHasReason'
      BY <1>1, <1>3, <2>1 DEF LockInv, PendingHasReason
    <2> QED BY <2>1, <2>3, <2>4, <2>5 DEF LockInv
  <1> QED BY <1>2, <1>3 DEF Register

LEMMA UnlockKeepsLockInv ==
  ASSUME LockInv, NEW r \in Request, UnlockStudents(r)
  PROVE  LockInv'
  <1>1. DOMAIN req' = Request /\ Live(r) /\ ~Live(r)'
        /\ \A q \in Request : q # r => (Live(q)' <=> Live(q)) /\ req'[q] = req[q]
    BY DEF UnlockStudents, LockInv, Live
  <1>2. OneSubmissionPerStudent'
    BY <1>1 DEF LockInv, OneSubmissionPerStudent
  <1>3. LockedWhileLive'
    BY <1>1 DEF UnlockStudents, LockInv, OneSubmissionPerStudent, LockedWhileLive
  <1>4. PendingHasReason'
    \* Whoever locked a student that is still locked is not r.
    BY <1>1 DEF UnlockStudents, LockInv, PendingHasReason
  <1> QED BY <1>1, <1>2, <1>3, <1>4 DEF LockInv

LEMMA StepKeepsLockInv ==
  ASSUME LockInv, NEW r \in Request, ServerStep(r)
  PROVE  LockInv'
  <1>1. CASE CheckRequest(r)
    <2>1. PICK st \in {"checked", "refused"} : req' = [req EXCEPT ![r] = st]
      BY <1>1 DEF CheckRequest
    <2> QED BY <1>1, <2>1, RequestMoves DEF CheckRequest, Live
  <1>2. CASE ReadStudents(r)
    BY <1>2, RequestMoves DEF ReadStudents, Live
  <1>3. CASE Register(r)
    BY <1>3, RegisterKeepsLockInv
  <1>4. CASE AbortClosed(r)
    BY <1>4, RequestMoves DEF AbortClosed, Live
  <1>5. CASE BeginRun(r)
    BY <1>5, RequestMoves DEF BeginRun, Live
  <1>6. CASE EndRun(r)
    BY <1>6, RequestMoves DEF EndRun, Live
  <1>7. ASSUME NEW s \in Student, UpdateStudent(r, s) PROVE LockInv'
    <2>1. PICK st \in {"updating", "unlocking"} : req' = [req EXCEPT ![r] = st]
      BY <1>7 DEF UpdateStudent
    <2> QED BY <1>7, <2>1, RequestMoves DEF UpdateStudent, Live
  <1>8. CASE UnlockStudents(r)
    BY <1>8, UnlockKeepsLockInv
  <1> QED BY <1>1, <1>2, <1>3, <1>4, <1>5, <1>6, <1>7, <1>8 DEF ServerStep

LEMMA LockInvariant == Spec => []LockInv
  <1>1. Init => LockInv
    BY DEF Init, LockInv, OneSubmissionPerStudent, LockedWhileLive, PendingHasReason, Live
  <1>2. LockInv /\ [Next]_vars => LockInv'
    <2> SUFFICES ASSUME LockInv, [Next]_vars PROVE LockInv'
      OBVIOUS
    <2>1. CASE \E r \in Request : ServerStep(r)
      BY <2>1, StepKeepsLockInv
    <2>2. CASE UNCHANGED <<req, pending>>
      BY <2>2 DEF LockInv, OneSubmissionPerStudent, LockedWhileLive, PendingHasReason, Live
    <2>3. CASE Restart
      <3>1. DOMAIN req' = Request /\ pending' = {} /\ \A r \in Request : ~Live(r)'
        BY <2>3 DEF Restart, Live, InServer, LockInv
      <3> QED BY <3>1 DEF LockInv, OneSubmissionPerStudent, LockedWhileLive, PendingHasReason
    <2> QED BY <2>1, <2>2, <2>3 DEF Next, KeyRead, KeyMake, KeyWrite, SetStatus, vars
  <1> QED BY <1>1, <1>2, PTL DEF Spec

\* NewSubmission (submission.go:383-422) lets no two live submissions share a
\* student, whatever teams ask, and however often the server restarts.
THEOREM SubmissionsAreDisjoint == Spec => []OneSubmissionPerStudent
  BY LockInvariant, PTL DEF LockInv

\* No other submission's unlockStudents (submission.go:588) unlocks the students
\* of a live one.
THEOREM LiveStudentsAreLocked == Spec => []LockedWhileLive
  BY LockInvariant, PTL DEF LockInv

\* The only submissions that leave their students locked are those that
\* SubmissionManager.Run aborts (manager.go:305).
THEOREM LocksHaveAReason == Spec => []PendingHasReason
  BY LockInvariant, PTL DEF LockInv
-----------------------------------------------------------------------------
(***************************************************************************)
(* BuildCache: one directory for all submissions of a repository.  Nothing *)
(* but the lock keeps two builds apart, and only those with a student in   *)
(* common: the others are mixed.  The number of commands that are left     *)
(* says what the directory holds for a submission that is not              *)
(* (DirectoryOf), as long as no goroutine outlives its command             *)
(* (WorkersOf).                                                            *)
(***************************************************************************)

OneBuilds ==
  /\ \A r \in Submission : Active(r) => Students[r] \subseteq locked
  /\ \A r \in Submission : \A q \in Submission \ {r} :
       Active(r) /\ Active(q) => r \in mixed /\ Students[r] \cap Students[q] = {}

LEMMA LockKeepsOneBuilds ==
  ASSUME CacheTypeOK, OneBuilds, NEW r \in Submission, Lock(r)
  PROVE  OneBuilds'
<1>1. stage[r] = "planned" /\ ~Active(r)
  BY DEF Lock, Active
<1>2. CASE Students[r] \cap locked = {}
  <2>1. /\ stage'[r] = "locked" /\ \A q \in Submission \ {r} : stage'[q] = stage[q]
        /\ locked' = locked \cup Students[r]
        /\ mixed' = IF Others(r) = {} THEN mixed ELSE mixed \cup Others(r) \cup {r}
    BY <1>2 DEF Lock, CacheTypeOK
  <2>2. \A q \in Submission : Active(q) => Students[q] \cap Students[r] = {}
    BY <1>2 DEF OneBuilds
  <2>3. Others(r) = {q \in Submission : Active(q)}
    BY <2>2 DEF Others
  <2>4. mixed \subseteq mixed' /\ \A q \in Submission : Active(q) => {q, r} \subseteq mixed'
    BY <2>1, <2>3
  <2>5. \A q \in Submission \ {r} : Active(q)' <=> Active(q)
    BY <2>1 DEF Active
  <2>6. \A q \in Submission : Active(q)' => Students[q] \subseteq locked'
    BY <2>1, <2>5 DEF OneBuilds
  <2>7. ASSUME NEW p \in Submission, NEW q \in Submission \ {p}, Active(p)', Active(q)'
        PROVE  p \in mixed' /\ Students[p] \cap Students[q] = {}
    <3>1. CASE p = r
      BY <2>2, <2>4, <2>5, <2>7, <3>1
    <3>2. CASE q = r
      BY <2>2, <2>4, <2>5, <2>7, <3>2
    <3>3. CASE p # r /\ q # r
      BY <2>4, <2>5, <2>7, <3>3 DEF OneBuilds
    <3> QED BY <3>1, <3>2, <3>3
  <2> QED BY <2>6, <2>7 DEF OneBuilds
<1>3. CASE Students[r] \cap locked # {}
  <2>1. /\ stage'[r] = "closed" /\ \A q \in Submission \ {r} : stage'[q] = stage[q]
        /\ locked' = locked /\ mixed' = mixed
    BY <1>3 DEF Lock, CacheTypeOK
  <2>2. \A q \in Submission : Active(q)' => Active(q)
    BY <2>1 DEF Active
  <2> QED BY <2>1, <2>2 DEF OneBuilds
<1> QED BY <1>2, <1>3

LEMMA OneBuildsHolds ==
  ASSUME CacheTypeOK, OneBuilds, [CacheNext]_cacheVars
  PROVE  OneBuilds'
<1>1. CASE UNCHANGED <<stage, locked, mixed>>
  BY <1>1 DEF OneBuilds, Active
<1>2. ASSUME NEW r \in Submission, Lock(r) PROVE OneBuilds'
  BY <1>2, LockKeepsOneBuilds
<1>3. ASSUME NEW r \in Submission, UNCHANGED <<locked, mixed>>, NEW st,
             stage' = [stage EXCEPT ![r] = st],
             Active(r) \/ st \notin {"locked", "running", "built"}
      PROVE OneBuilds'
  <2>1. stage'[r] = st /\ \A q \in Submission \ {r} : stage'[q] = stage[q]
    BY <1>3 DEF CacheTypeOK
  <2>2. \A q \in Submission : Active(q)' => Active(q)
    BY <1>3, <2>1 DEF Active
  <2> QED BY <1>3, <2>2 DEF OneBuilds
<1>4. ASSUME NEW r \in Submission, Active(r), UNCHANGED mixed,
             locked' = locked \ Students[r], stage' = [stage EXCEPT ![r] = "closed"]
      PROVE OneBuilds'
  <2>1. stage'[r] = "closed" /\ \A q \in Submission \ {r} : stage'[q] = stage[q]
    BY <1>4 DEF CacheTypeOK
  <2>2. \A q \in Submission : Active(q)' => q # r /\ Active(q)
    BY <2>1 DEF Active
  <2>3. \A q \in Submission : Active(q)' => Students[q] \cap Students[r] = {}
    BY <1>4, <2>2 DEF OneBuilds
  <2> QED BY <1>4, <2>2, <2>3 DEF OneBuilds
<1>5. ASSUME NEW r \in Submission, Plan(r) PROVE OneBuilds'
  BY <1>3, <1>5 DEF Plan, history
<1>6. ASSUME NEW r \in Submission, Begin(r) PROVE OneBuilds'
  BY <1>3, <1>6 DEF Begin, Active, history
<1>7. ASSUME NEW r \in Submission, Close(r) PROVE OneBuilds'
  BY <1>4, <1>7 DEF Close, Active, history
<1>8. ASSUME NEW r \in Submission, stage[r] = "running", Fail(r), UNCHANGED mixed PROVE OneBuilds'
  BY <1>4, <1>8 DEF Fail, Active
<1>9. ASSUME NEW r \in Submission, stage[r] = "running", Succeed(r), UNCHANGED mixed PROVE OneBuilds'
  BY <1>3, <1>9, Zenon DEF Succeed, Active
<1>10. ASSUME NEW r \in Submission, NEW c \in Command, Execute(r, c) \/ ExecuteFails(r, c)
       PROVE OneBuilds'
  BY <1>8, <1>9, <1>10 DEF Execute, ExecuteFails, AtCommand, history
<1>11. ASSUME NEW r \in Submission, EndOverlay(r) PROVE OneBuilds'
  BY <1>8, <1>9, <1>11 DEF EndOverlay, AtCommand
<1>12. ASSUME NEW r \in Submission, StartOverlay(r) PROVE OneBuilds'
  BY <1>1, <1>12 DEF StartOverlay, history
<1>13. ASSUME NEW r \in Submission, NEW f \in SecretFile, Receive(r, f) \/ Worker(r, f)
       PROVE OneBuilds'
  BY <1>1, <1>13 DEF Receive, Worker, Open, Replace, ScanEnds, RenameFile, history
<1> QED BY <1>1, <1>2, <1>5, <1>6, <1>7, <1>10, <1>11, <1>12, <1>13
        DEF CacheNext, RunStep, cacheVars, history
-----------------------------------------------------------------------------
(* Where a build is. *)

\* The commands before Build only make the directory a clone of the repository.
Prefix == {"clone", "reset", "gitclean", "fetch"}

\* What has k commands left is at this one.
CommandAt(k, c) == IF k <= 11 THEN c = Build[12 - k] ELSE c \in Prefix

CommandsOf(r) ==
  /\ \A i \in 1..Len(cmds[r]) : CommandAt(Len(cmds[r]) - i + 1, cmds[r][i])
  /\ stage[r] \in {"planned", "locked"} => Len(cmds[r]) > 11

\* It is running, with k commands left; it has fewer than k left, or none.
Left(r) == Len(cmds[r])
Ahead(r, k) == stage[r] = "running" /\ Left(r) = k
Past(r, k) == stage[r] = "built" \/ (stage[r] = "running" /\ Left(r) < k)

Word == {"clone", "reset", "gitclean", "fetch", "checkout", "log", "rsync", "secrets",
         "commit", "configure", "config", "clean", "depend", "compile", "install"}

LEMMA PartsOfPlan ==
  /\ Clone \in Seq(Word) /\ Len(Clone) = 1 /\ \A i \in 1..1 : Clone[i] \in Prefix
  /\ Update \in Seq(Word) /\ Len(Update) = 3 /\ \A i \in 1..3 : Update[i] \in Prefix
  /\ Build \in Seq(Word) /\ Len(Build) = 11
<1>1. Clone \in Seq(Word) /\ Len(Clone) = 1 /\ \A i \in 1..1 : Clone[i] \in Prefix
  BY DEF Clone, Prefix, Word
<1>2. Update \in Seq(Word)
  BY DEF Update, Word
<1>3. Len(Update) = 3 /\ Update[1] \in Prefix /\ Update[2] \in Prefix /\ Update[3] \in Prefix
  BY DEF Update, Prefix
<1>4. Build \in Seq(Word)
  BY DEF Build, Word
<1>5. Len(Build) = 11
  BY DEF Build
<1> QED BY <1>1, <1>2, <1>3, <1>4, <1>5

\* In what order a plan is built.
LEMMA Joined ==
  ASSUME NEW s \in Seq(Word), NEW t \in Seq(Word)
  PROVE  \E p \in Seq(Word) :
           /\ p = s \o t /\ Len(p) = Len(s) + Len(t)
           /\ \A i \in 1..(Len(s) + Len(t)) : p[i] = IF i <= Len(s) THEN s[i] ELSE t[i - Len(s)]
<1>1. s \o t \in Seq(Word) /\ Len(s \o t) = Len(s) + Len(t)
      /\ \A i \in 1..(Len(s) + Len(t)) :
           (s \o t)[i] = IF i <= Len(s) THEN s[i] ELSE t[i - Len(s)]
  BY ConcatProperties
<1> QED BY <1>1, Zenon

LEMMA AllAreCommands ==
  /\ \A i \in 1..1 : Clone[i] \in Command
  /\ \A i \in 1..3 : Update[i] \in Command
  /\ \A i \in 1..11 : Build[i] \in Command
<1>0. Clone \in Seq(Word) /\ Update \in Seq(Word) /\ Build \in Seq(Word)
  BY PartsOfPlan
<1>1. PICK git \in Seq(Word) :
        /\ git = Clone \o Update /\ Len(git) = Len(Clone) + Len(Update)
        /\ \A i \in 1..(Len(Clone) + Len(Update)) :
             git[i] = IF i <= Len(Clone) THEN Clone[i] ELSE Update[i - Len(Clone)]
  BY <1>0, Joined
<1>2. PICK all \in Seq(Word) :
        /\ all = git \o Build
        /\ \A i \in 1..(Len(git) + Len(Build)) :
             all[i] = IF i <= Len(git) THEN git[i] ELSE Build[i - Len(git)]
  BY <1>0, Joined
<1>3. Command = {all[i] : i \in 1..15}
  BY <1>1, <1>2 DEF Command
<1>4. \A i \in 1..15 : all[i] \in Command
  BY <1>3
<1>5. Len(Clone) = 1 /\ Len(Update) = 3 /\ Len(Build) = 11 /\ Len(git) = 4
  BY <1>1, PartsOfPlan
<1>6. ASSUME NEW i \in 1..1 PROVE Clone[i] \in Command
  <2>1. PICK j \in 1..15 : j = i
    OBVIOUS
  <2>2. j \in 1..(Len(git) + Len(Build)) /\ j <= Len(git)
    BY <1>5, <2>1
  <2>3. j \in 1..(Len(Clone) + Len(Update)) /\ j <= Len(Clone)
    BY <1>5, <2>1
  <2>4. all[j] = git[j]
    <3>1. all[j] = IF j <= Len(git) THEN git[j] ELSE Build[j - Len(git)]
      BY <1>2, <2>2, Zenon
    <3> QED BY <2>2, <3>1, Zenon
  <2>5. git[j] = Clone[j]
    <3>1. git[j] = IF j <= Len(Clone) THEN Clone[j] ELSE Update[j - Len(Clone)]
      BY <1>1, <2>3, Zenon
    <3> QED BY <2>3, <3>1, Zenon
  <2> QED BY <1>4, <2>1, <2>4, <2>5
<1>7. ASSUME NEW i \in 1..3 PROVE Update[i] \in Command
  <2>1. PICK j \in 1..15 : j = i + 1
    OBVIOUS
  <2>2. j \in 1..(Len(git) + Len(Build)) /\ j <= Len(git)
    BY <1>5, <2>1
  <2>3. j \in 1..(Len(Clone) + Len(Update)) /\ ~ (j <= Len(Clone)) /\ j - Len(Clone) = i
    BY <1>5, <2>1
  <2>4. all[j] = git[j]
    <3>1. all[j] = IF j <= Len(git) THEN git[j] ELSE Build[j - Len(git)]
      BY <1>2, <2>2, Zenon
    <3> QED BY <2>2, <3>1, Zenon
  <2>5. git[j] = Update[i]
    <3>1. git[j] = IF j <= Len(Clone) THEN Clone[j] ELSE Update[j - Len(Clone)]
      BY <1>1, <2>3, Zenon
    <3> QED BY <2>3, <3>1, Zenon
  <2> QED BY <1>4, <2>1, <2>4, <2>5
<1>8. ASSUME NEW i \in 1..11 PROVE Build[i] \in Command
  <2>1. PICK j \in 1..15 : j = i + 4
    OBVIOUS
  <2>2. j \in 1..(Len(git) + Len(Build)) /\ ~ (j <= Len(git)) /\ j - Len(git) = i
    BY <1>5, <2>1
  <2>3. all[j] = IF j <= Len(git) THEN git[j] ELSE Build[j - Len(git)]
    BY <1>2, <2>2, Zenon
  <2>4. all[j] = Build[i]
    BY <2>2, <2>3, Zenon
  <2> QED BY <1>4, <2>1, <2>4
<1> QED BY <1>6, <1>7, <1>8

\* What ToBuildTest decides on.
LEMMA PlanIs ==
  ASSUME NEW git \in {Clone, Update}
  PROVE  \E plan \in Seq(Command) :
           /\ plan = git \o Build
           /\ Len(plan) > 11
           /\ \A i \in 1..Len(plan) : CommandAt(Len(plan) - i + 1, plan[i])
<1>1. /\ git \in Seq(Word) /\ Build \in Seq(Word)
      /\ Len(git) \in {1, 3}
      /\ \A i \in 1..Len(git) : git[i] \in Prefix /\ git[i] \in Command
  BY PartsOfPlan, AllAreCommands
<1>2. PICK plan \in Seq(Word) :
        /\ plan = git \o Build /\ Len(plan) = Len(git) + Len(Build)
        /\ \A i \in 1..(Len(git) + Len(Build)) :
             plan[i] = IF i <= Len(git) THEN git[i] ELSE Build[i - Len(git)]
  BY <1>1, Joined
<1>3. Len(Build) = 11
  BY PartsOfPlan
<1> DEFINE m == Len(git)
           n == Len(plan)
<1>6. m \in {1, 3} /\ n = m + 11
  BY <1>1, <1>2, <1>3
<1>7. \A i \in 1..n : plan[i] = IF i <= m THEN git[i] ELSE Build[i - m]
  BY <1>2, <1>3
<1>8. n = Len(plan) /\ \A i \in 1..m : git[i] \in Prefix /\ git[i] \in Command
  BY <1>1
<1> HIDE DEF m, n
<1>4. ASSUME NEW i \in 1..n
      PROVE  plan[i] \in Command /\ CommandAt(n - i + 1, plan[i])
  <2>1. CASE i <= m
    <3>1. i \in 1..m /\ ~ (n - i + 1 <= 11) /\ plan[i] = git[i]
      BY <1>6, <1>7, <2>1
    <3> QED BY <1>8, <3>1 DEF CommandAt
  <2>2. CASE i > m
    <3>1. i - m \in 1..11 /\ n - i + 1 <= 11 /\ 12 - (n - i + 1) = i - m
      BY <1>6, <2>2
    <3>2. plan[i] = Build[i - m]
      BY <1>6, <1>7, <2>2
    <3> QED BY <3>1, <3>2, AllAreCommands DEF CommandAt
  <2> QED BY <1>6, <2>1, <2>2
<1>5. plan \in Seq(Command)
  <2>1. \A i \in 1..Len(plan) : plan[i] \in Command
    BY <1>4, <1>8
  <2> QED BY <2>1
<1>9. n > 11
  BY <1>6
<1> QED BY <1>2, <1>4, <1>5, <1>8, <1>9

\* The command at hand, by the number of those that are left.
LEMMA CommandAtHand ==
  ASSUME NEW k \in Nat \ {0}, NEW c, CommandAt(k, c)
  PROVE  /\ c = "checkout" <=> k = 11
         /\ c = "rsync" <=> k = 9
         /\ c = "secrets" <=> k = 8
         /\ c = "compile" <=> k = 2
         /\ c = "install" <=> k = 1
         /\ k \in {10, 7, 6, 5, 4, 3} =>
              c \in {"log", "commit", "configure", "config", "clean", "depend"}
         /\ k > 11 => c \in Prefix
<1>1. CASE k > 11
  BY <1>1 DEF CommandAt, Prefix
<1>2. CASE k <= 11
  <2>1. k \in {1, 2, 3, 4, 5, 6, 7, 8, 9, 10, 11} /\ c = Build[12 - k]
    BY <1>2 DEF CommandAt
  <2> QED BY <2>1 DEF Build, Prefix
<1> QED BY <1>1, <1>2

\* A command is taken off.
LEMMA NextCommand ==
  ASSUME CacheTypeOK, NEW r \in Submission, CommandsOf(r), cmds[r] # <<>>
  PROVE  /\ Len(cmds[r]) \in Nat \ {0}
         /\ CommandAt(Len(cmds[r]), Head(cmds[r]))
         /\ Tail(cmds[r]) \in Seq(Command)
         /\ Len(Tail(cmds[r])) = Len(cmds[r]) - 1
         /\ \A i \in 1..(Len(cmds[r]) - 1) : Tail(cmds[r])[i] = cmds[r][i + 1]
         /\ Tail(cmds[r]) = <<>> <=> Len(cmds[r]) = 1
<1>1. cmds[r] \in Seq(Command)
  BY DEF CacheTypeOK
<1>2. Len(cmds[r]) \in Nat \ {0} /\ Head(cmds[r]) = cmds[r][1]
  BY <1>1, EmptySeq, HeadTailProperties
<1>3. CommandAt(Len(cmds[r]), Head(cmds[r]))
  <2>1. CommandAt(Len(cmds[r]) - 1 + 1, cmds[r][1])
    BY <1>2 DEF CommandsOf
  <2> QED BY <1>2, <2>1
<1>4. /\ Tail(cmds[r]) \in Seq(Command)
      /\ Len(Tail(cmds[r])) = Len(cmds[r]) - 1
      /\ \A i \in 1..(Len(cmds[r]) - 1) : Tail(cmds[r])[i] = cmds[r][i + 1]
  BY <1>1, <1>2, HeadTailProperties
<1>5. Tail(cmds[r]) = <<>> <=> Len(cmds[r]) = 1
  <2> DEFINE rest == Tail(cmds[r])
  <2>1. rest \in Seq(Command) /\ Len(rest) = Len(cmds[r]) - 1 /\ Len(rest) \in Nat
    BY <1>2, <1>4
  <2> HIDE DEF rest
  <2>2. rest = <<>> <=> Len(rest) = 0
    BY <2>1, EmptySeq
  <2>3. rest = <<>> <=> Len(cmds[r]) = 1
    BY <1>2, <2>1, <2>2
  <2> QED BY <2>3 DEF rest
<1> QED BY <1>2, <1>3, <1>4, <1>5

\* Every step leaves the commands alone, plans them, or takes one off.
LEMMA CommandsHold ==
  ASSUME CacheTypeOK, \A r \in Submission : CommandsOf(r), [CacheNext]_cacheVars
  PROVE  \A r \in Submission : CommandsOf(r)'
<1>1. ASSUME NEW r \in Submission, cmds'[r] = cmds[r],
             stage'[r] \in {"planned", "locked"} => stage[r] \in {"planned", "locked"}
      PROVE  CommandsOf(r)'
  <2>1. CommandsOf(r)  OBVIOUS
  <2> QED BY <1>1, <2>1 DEF CommandsOf
<1>2. ASSUME NEW r \in Submission, Plan(r) PROVE \A q \in Submission : CommandsOf(q)'
  <2>1. PICK git \in {Clone, Update} : cmds' = [cmds EXCEPT ![r] = git \o Build]
    BY <1>2 DEF Plan
  <2>2. cmds'[r] = git \o Build /\ \A q \in Submission \ {r} : cmds'[q] = cmds[q]
    BY <2>1 DEF CacheTypeOK
  <2>3. \A q \in Submission \ {r} : stage'[q] = stage[q]
    BY <1>2 DEF Plan, CacheTypeOK
  <2>4. CommandsOf(r)'
    BY <2>2, PlanIs DEF CommandsOf
  <2> QED BY <1>1, <2>2, <2>3, <2>4
<1>3. ASSUME NEW r \in Submission, stage[r] = "running", cmds[r] # <<>>, Succeed(r)
      PROVE  \A q \in Submission : CommandsOf(q)'
  <2>1. cmds'[r] = Tail(cmds[r]) /\ stage'[r] \in {"running", "built"}
    BY <1>3 DEF Succeed, CacheTypeOK
  <2>2. \A q \in Submission \ {r} : cmds'[q] = cmds[q] /\ stage'[q] = stage[q]
    BY <1>3 DEF Succeed, CacheTypeOK
  <2>3. CommandsOf(r)'
    <3> DEFINE rest == Tail(cmds[r])
               k == Len(cmds[r])
    <3>1. /\ k \in Nat \ {0} /\ Len(rest) = k - 1
          /\ \A i \in 1..(k - 1) : rest[i] = cmds[r][i + 1]
      BY <1>3, NextCommand
    <3>2. \A i \in 1..k : CommandAt(k - i + 1, cmds[r][i])
      BY DEF CommandsOf
    <3> HIDE DEF rest, k
    <3>3. ASSUME NEW i \in 1..Len(rest) PROVE CommandAt(Len(rest) - i + 1, rest[i])
      <4>1. i + 1 \in 1..k /\ k - (i + 1) + 1 = Len(rest) - i + 1 /\ rest[i] = cmds[r][i + 1]
        BY <3>1
      <4> QED BY <3>2, <4>1
    <3> QED BY <2>1, <3>3 DEF CommandsOf, rest
  <2> QED BY <1>1, <2>2, <2>3
<1>4. ASSUME NEW r \in Submission, UNCHANGED cmds,
             \/ stage[r] = "planned" /\ stage' = [stage EXCEPT ![r] = "locked"]
             \/ \E st \in {"running", "closed"} : stage' = [stage EXCEPT ![r] = st]
      PROVE  \A q \in Submission : CommandsOf(q)'
  BY <1>1, <1>4 DEF CacheTypeOK
<1>5. CASE UNCHANGED <<stage, cmds>>
  BY <1>1, <1>5
<1>6. ASSUME NEW r \in Submission, Lock(r) \/ Begin(r) \/ Close(r)
      PROVE  \A q \in Submission : CommandsOf(q)'
  BY <1>4, <1>6 DEF Lock, Begin, Close, build
<1>7. ASSUME NEW r \in Submission, NEW c \in Command, Execute(r, c) \/ ExecuteFails(r, c)
      PROVE  \A q \in Submission : CommandsOf(q)'
  BY <1>3, <1>4, <1>7 DEF Execute, ExecuteFails, AtCommand, Fail
<1>8. ASSUME NEW r \in Submission, EndOverlay(r) PROVE \A q \in Submission : CommandsOf(q)'
  BY <1>3, <1>4, <1>8 DEF EndOverlay, AtCommand, Fail
<1>9. ASSUME NEW r \in Submission, NEW f \in SecretFile,
             Receive(r, f) \/ Worker(r, f)
      PROVE  \A q \in Submission : CommandsOf(q)'
  BY <1>5, <1>9 DEF Receive, Worker, Open, Replace, ScanEnds, RenameFile, build
<1>10. CASE UNCHANGED cacheVars
  BY <1>5, <1>10 DEF cacheVars, build
<1>11. ASSUME NEW r \in Submission, StartOverlay(r) PROVE UNCHANGED <<stage, cmds>>
  BY <1>11 DEF StartOverlay, build
<1>12. CASE CacheNext
  <2>1. PICK r \in Submission : Plan(r) \/ RunStep(r) \/ \E f \in SecretFile : Worker(r, f)
    BY <1>12 DEF CacheNext
  <2>2. CASE Plan(r)
    BY <1>2, <2>2
  <2>3. CASE RunStep(r)
    <3>1. CASE Lock(r) \/ Begin(r) \/ Close(r)
      BY <1>6, <3>1
    <3>2. CASE \E c \in Command : Execute(r, c) \/ ExecuteFails(r, c)
      BY <1>7, <3>2
    <3>3. CASE StartOverlay(r)
      BY <1>5, <1>11, <3>3
    <3>4. CASE \E f \in SecretFile : Receive(r, f)
      BY <1>9, <3>4
    <3>5. CASE EndOverlay(r)
      BY <1>8, <3>5
    <3> QED BY <2>3, <3>1, <3>2, <3>3, <3>4, <3>5 DEF RunStep
  <2>4. CASE \E f \in SecretFile : Worker(r, f)
    BY <1>9, <2>4
  <2> QED BY <2>1, <2>2, <2>3, <2>4
<1> QED BY <1>10, <1>12
-----------------------------------------------------------------------------
WorkerState == {"idle", "start", "reading", "scanerr", "rename", "error", "ok", "done"}

LEMMA BecomeType ==
  ASSUME CacheTypeOK, NEW r \in Submission, NEW f \in SecretFile, NEW w \in WorkerState,
         Become(r, f, w)
  PROVE  worker' \in [Submission -> [SecretFile -> WorkerState]]
BY DEF CacheTypeOK, Become, WorkerState

LEMMA CacheTypeHolds ==
  ASSUME CacheTypeOK, \A r \in Submission : CommandsOf(r), [CacheNext]_cacheVars
  PROVE  CacheTypeOK'
<1> USE DEF CacheTypeOK
<1>1. ASSUME NEW r \in Submission, Plan(r) PROVE CacheTypeOK'
  <2>1. PICK git \in {Clone, Update} : cmds' = [cmds EXCEPT ![r] = git \o Build]
    BY <1>1 DEF Plan
  <2>2. git \o Build \in Seq(Command)
    BY PlanIs
  <2>3. cmds' \in [Submission -> Seq(Command)]
    BY <2>1, <2>2
  <2> QED BY <1>1, <2>3 DEF Plan, overlay, history
<1>2. ASSUME NEW r \in Submission, Lock(r) PROVE CacheTypeOK'
  <2>0. mixed' \subseteq Submission
    BY <1>2 DEF Lock, Others
  <2>1. /\ stage' \in [Submission -> {"new", "planned", "locked", "running", "built", "closed"}]
        /\ locked' \subseteq UNION {Students[q] : q \in Submission}
    <3>1. CASE Students[r] \cap locked = {}
      <4>1. locked' = locked \cup Students[r]
            /\ stage' = [stage EXCEPT ![r] = "locked"]
        BY <1>2, <3>1 DEF Lock
      <4>2. Students[r] \subseteq UNION {Students[q] : q \in Submission}
        OBVIOUS
      <4> HIDE DEF CacheTypeOK
      <4>3. stage' \in [Submission -> {"new", "planned", "locked", "running", "built", "closed"}]
        BY <4>1 DEF CacheTypeOK
      <4> QED BY <4>1, <4>2, <4>3, Zenon DEF CacheTypeOK
    <3>2. CASE Students[r] \cap locked # {}
      BY <1>2, <3>2 DEF Lock
    <3> QED BY <3>1, <3>2
  <2> QED BY <1>2, <2>0, <2>1 DEF Lock, build, overlay, cache
<1>3. ASSUME NEW r \in Submission, Begin(r) PROVE CacheTypeOK'
  <2>1. keyMap' \in [Submission -> [Cmd -> Key \cup {None}]]
    BY <1>3 DEF Begin, NoKeys
  <2> QED BY <1>3, <2>1 DEF Begin, overlay, cache, history
<1>4. ASSUME NEW r \in Submission, Close(r) PROVE CacheTypeOK'
  BY <1>4 DEF Close, build, overlay, cache, history
<1>5. ASSUME NEW r \in Submission, cmds[r] # <<>>, Succeed(r)
      PROVE  /\ cmds' \in [Submission -> Seq(Command)]
             /\ stage' \in [Submission ->
                            {"new", "planned", "locked", "running", "built", "closed"}]
             /\ locked' \subseteq UNION {Students[q] : q \in Submission}
  <2>1. Tail(cmds[r]) \in Seq(Command)
    BY <1>5, NextCommand
  <2> QED BY <1>5, <2>1 DEF Succeed
<1>6. ASSUME NEW r \in Submission, Fail(r)
      PROVE  /\ cmds' \in [Submission -> Seq(Command)]
             /\ stage' \in [Submission ->
                            {"new", "planned", "locked", "running", "built", "closed"}]
             /\ locked' \subseteq UNION {Students[q] : q \in Submission}
  BY <1>6 DEF Fail
<1>7. ASSUME NEW r \in Submission, NEW c \in Command, Execute(r, c) PROVE CacheTypeOK'
  <2>1. CurrentKernel \in Kernel
    BY DEF CurrentKernel, Kernel
  <2>2. /\ src' \in Source /\ file' \in Contents
        /\ comp' \in {None, Empty} \cup Kernel /\ root' \in {None} \cup Kernel
    BY <1>7, <2>1 DEF Execute, Effect, Overlaid, cache, Source, Contents, NoKeys
  <2> QED BY <1>5, <1>7, <2>2 DEF Execute, AtCommand, overlay, history
<1>8. ASSUME NEW r \in Submission, NEW c \in Command, ExecuteFails(r, c) PROVE CacheTypeOK'
  BY <1>6, <1>8 DEF ExecuteFails, overlay, cache, history
<1>9. ASSUME NEW r \in Submission, StartOverlay(r) PROVE CacheTypeOK'
  BY <1>9 DEF StartOverlay, build, cache, history
<1>10. ASSUME NEW r \in Submission, NEW f \in SecretFile, Receive(r, f) PROVE CacheTypeOK'
  <2>1. Cardinality(SecretFile) \in Nat
    BY CacheAssumption, FS_CardinalityType
  <2>2. received' \in [Submission -> 0..Cardinality(SecretFile)]
    BY <1>10, <2>1 DEF Receive, Waiting
  <2>3. worker' \in [Submission -> [SecretFile ->
          {"idle", "start", "reading", "scanerr", "rename", "error", "ok", "done"}]]
    BY <1>10 DEF Receive, Become, AfterSend
  <2>4. failed' \in [Submission -> BOOLEAN]
    BY <1>10 DEF Receive
  <2> QED BY <1>10, <2>2, <2>3, <2>4 DEF Receive, build, cache, history
<1>11. ASSUME NEW r \in Submission, EndOverlay(r) PROVE CacheTypeOK'
  BY <1>5, <1>6, <1>11 DEF EndOverlay, AtCommand, overlay, cache
<1>12. ASSUME NEW r \in Submission, NEW f \in SecretFile, Open(r, f) PROVE CacheTypeOK'
  <2>1. CASE Become(r, f, "reading")
    <3>1. buf' = [buf EXCEPT ![r][f] = file[f]] \/ UNCHANGED buf
      BY <1>12 DEF Open
    <3>2. buf' \in [Submission -> Contents]
      <4>1. CASE buf' = [buf EXCEPT ![r][f] = file[f]]
        <5>1. file[f] \in [Cmd -> Key \cup {None}]
          BY DEF Contents
        <5> QED BY <4>1, <5>1 DEF Contents
      <4>2. CASE UNCHANGED buf
        BY <4>2
      <4> QED BY <3>1, <4>1, <4>2
    <3>3. todo' = [todo EXCEPT ![r][f] = {c \in Mentions[f] : file[f][c] = None}] \/ UNCHANGED todo
      BY <1>12 DEF Open
    <3>4. todo' \in [Submission -> [SecretFile -> SUBSET Cmd]]
      <4>1. {c \in Mentions[f] : file[f][c] = None} \in SUBSET Cmd
        BY CacheAssumption
      <4>2. CASE todo' = [todo EXCEPT ![r][f] = {c \in Mentions[f] : file[f][c] = None}]
        BY <4>1, <4>2
      <4>3. CASE UNCHANGED todo
        BY <4>3
      <4> QED BY <3>3, <4>2, <4>3
    <3>5. worker' \in [Submission -> [SecretFile -> WorkerState]]
      BY <2>1, BecomeType DEF WorkerState
    <3> QED BY <1>12, <3>2, <3>4, <3>5 DEF Open, build, cache, WorkerState, history
  <2>2. CASE Become(r, f, OpenFails) /\ UNCHANGED <<buf, todo>>
    <3>1. worker' \in [Submission -> [SecretFile -> WorkerState]]
      BY <2>2, BecomeType DEF WorkerState, OpenFails
    <3> QED BY <1>12, <2>2, <3>1 DEF Open, build, cache, WorkerState, history
  <2> QED BY <1>12, <2>1, <2>2 DEF Open
<1>13. ASSUME NEW r \in Submission, NEW f \in SecretFile, NEW c \in Cmd, Replace(r, f, c)
       PROVE CacheTypeOK'
  <2>1. KeyFor(r, f, c) \in Key \cup {None}
    BY DEF KeyFor, Key
  <2>2. keyMap' \in [Submission -> [Cmd -> Key \cup {None}]] /\ keyMap'[r][c] \in Key \cup {None}
    BY <1>13, <2>1 DEF Replace
  <2>3. buf' \in [Submission -> Contents]
    BY <1>13, <2>2 DEF Replace, Contents
  <2>4. todo' \in [Submission -> [SecretFile -> SUBSET Cmd]]
    BY <1>13 DEF Replace
  <2> QED BY <1>13, <2>2, <2>3, <2>4 DEF Replace, cache, history
<1>14. ASSUME NEW r \in Submission, NEW f \in SecretFile, ScanEnds(r, f) PROVE CacheTypeOK'
  <2>1. worker' \in [Submission -> [SecretFile -> WorkerState]]
    BY <1>14, BecomeType DEF ScanEnds, WorkerState
  <2> QED BY <1>14, <2>1 DEF ScanEnds, build, cache, WorkerState, history
<1>15. ASSUME NEW r \in Submission, NEW f \in SecretFile, RenameFile(r, f) PROVE CacheTypeOK'
  BY <1>15 DEF RenameFile, Become, build, Contents, history
<1>16. CASE UNCHANGED cacheVars
  BY <1>16 DEF cacheVars, build, overlay, cache, history
<1> HIDE DEF CacheTypeOK
<1>17. CASE CacheNext
  <2>1. PICK r \in Submission : Plan(r) \/ RunStep(r) \/ \E f \in SecretFile : Worker(r, f)
    BY <1>17 DEF CacheNext
  <2>2. CASE Plan(r)
    BY <1>1, <2>2
  <2>3. CASE RunStep(r)
    BY <1>2, <1>3, <1>4, <1>7, <1>8, <1>9, <1>10, <1>11, <2>3, Zenon DEF RunStep
  <2>4. CASE \E f \in SecretFile : Worker(r, f)
    BY <1>12, <1>13, <1>14, <1>15, <2>4, Zenon DEF Worker
  <2> QED BY <2>1, <2>2, <2>3, <2>4
<1> QED BY <1>16, <1>17
-----------------------------------------------------------------------------
(* What the directory holds. *)

\* Every key that the file asks for is the one that the build has recorded.
KeyedIn(r, f, contents) ==
  \A c \in Mentions[f] : contents[c] = keyMap[r][c] /\ keyMap[r][c] # None

\* A goroutine exists only while overlayHandler waits for it.
WorkersOf(r) ==
  /\ ~Ahead(r, 8) => \A f \in SecretFile : worker[r][f] \in {"idle", "done"}
  /\ stage[r] \in {"new", "planned", "locked"} \/ (stage[r] = "running" /\ Left(r) > 8)
       => ~failed[r] /\ \A f \in SecretFile : worker[r][f] = "idle"

\* One file of the overlay, as long as no error was received.
SecretOf(r, f) ==
  /\ worker[r][f] \in {"idle", "start", "reading"} => file[f] = NoKeys
  /\ worker[r][f] = "reading" =>
       \A c \in Mentions[f] \ todo[r][f] : buf[r][f][c] = keyMap[r][c] /\ keyMap[r][c] # None
  /\ worker[r][f] = "rename" => KeyedIn(r, f, buf[r][f])
  /\ worker[r][f] \in {"ok", "done"} => KeyedIn(r, f, file[f])

\* The commands are at checkout (11), secrets (8), compile (2) and install (1).
OwnDirectory(r) ==
  /\ Past(r, 11) => src = r
  /\ Ahead(r, 8) /\ ~failed[r] => \A f \in SecretFile : SecretOf(r, f)
  /\ Past(r, 8) => \A f \in SecretFile : KeyedIn(r, f, file[f])
  /\ Past(r, 2) => comp \in {None, CurrentKernel}
  /\ stage[r] = "built" => root = CurrentKernel
DirectoryOf(r) == r \notin mixed => OwnDirectory(r)

Ordered ==
  CacheTypeOK /\ OneBuilds /\ \A r \in Submission : CommandsOf(r)
Held == \A r \in Submission : WorkersOf(r) /\ DirectoryOf(r)

LEMMA LeftSame ==
  ASSUME NEW r \in Submission, cmds'[r] = cmds[r]
  PROVE  Left(r)' = Left(r)
BY DEF Left

LEMMA LeftType ==
  ASSUME CacheTypeOK, NEW r \in Submission
  PROVE  Left(r) \in Nat
<1>1. cmds[r] \in Seq(Command)
  BY DEF CacheTypeOK
<1> QED BY <1>1, LenProperties DEF Left

\* While one submission builds, the others have nothing in the directory, or
\* are mixed.
LEMMA OthersHold ==
  ASSUME Ordered, Held, NEW r \in Submission, Active(r), UNCHANGED mixed,
         \A q \in Submission \ {r} :
           /\ stage'[q] = stage[q] /\ cmds'[q] = cmds[q]
           /\ worker'[q] = worker[q] /\ failed'[q] = failed[q]
  PROVE  \A q \in Submission \ {r} : WorkersOf(q)' /\ DirectoryOf(q)'
<1> SUFFICES ASSUME NEW q \in Submission \ {r} PROVE WorkersOf(q)' /\ DirectoryOf(q)'
  OBVIOUS
<1>1. WorkersOf(q)'
  <2>1. WorkersOf(q)
    BY DEF Held
  <2>2. Left(q)' = Left(q)
    BY LeftSame
  <2> QED BY <2>1, <2>2 DEF WorkersOf, Ahead
<1>2. q \notin mixed => stage'[q] \notin {"running", "built"}
  BY DEF Ordered, OneBuilds, Active
<1> QED BY <1>1, <1>2 DEF DirectoryOf, OwnDirectory, Ahead, Past

LEMMA PlanHolds ==
  ASSUME Ordered, Held, NEW r \in Submission, Plan(r)
  PROVE  Held'
<1> SUFFICES ASSUME NEW q \in Submission PROVE WorkersOf(q)' /\ DirectoryOf(q)'
  BY DEF Held
<1>1. WorkersOf(q) /\ DirectoryOf(q)
  BY DEF Held
<1>2. CASE q = r
  <2>1. stage[q] = "new" /\ stage'[q] = "planned" /\ UNCHANGED <<worker, failed>>
    BY <1>2 DEF Plan, overlay, Ordered, CacheTypeOK
  <2> QED BY <1>1, <2>1 DEF WorkersOf, DirectoryOf, OwnDirectory, Ahead, Past
<1>3. CASE q # r
  <2>1. stage'[q] = stage[q] /\ cmds'[q] = cmds[q] /\ comp' = None
        /\ UNCHANGED <<worker, failed, src, file, todo, buf, keyMap, root, mixed>>
    BY <1>3 DEF Plan, overlay, history, Ordered, CacheTypeOK
  <2>4. Left(q)' = Left(q)
    BY <2>1, LeftSame
  <2>2. WorkersOf(q)'
    BY <1>1, <2>1, <2>4 DEF WorkersOf, Ahead
  <2>3. DirectoryOf(q)'
    BY <1>1, <2>1, <2>4
       DEF DirectoryOf, OwnDirectory, Ahead, Past, SecretOf, KeyedIn, CurrentKernel
  <2> QED BY <2>2, <2>3
<1> QED BY <1>2, <1>3

LEMMA LockHolds ==
  ASSUME Ordered, Held, NEW r \in Submission, Lock(r)
  PROVE  Held'
<1> SUFFICES ASSUME NEW q \in Submission PROVE WorkersOf(q)' /\ DirectoryOf(q)'
  BY DEF Held
<1>1. WorkersOf(q) /\ DirectoryOf(q)
  BY DEF Held
<1>2. CASE q = r
  <2>1. stage[q] = "planned" /\ stage'[q] \in {"locked", "closed"} /\ UNCHANGED <<worker, failed>>
    BY <1>2 DEF Lock, overlay, Ordered, CacheTypeOK
  <2> QED BY <1>1, <2>1 DEF WorkersOf, DirectoryOf, OwnDirectory, Ahead, Past
<1>3. CASE q # r
  <2>1. /\ stage'[q] = stage[q]
        /\ UNCHANGED <<cmds, comp, worker, failed, src, file, todo, buf, keyMap, root>>
    BY <1>3 DEF Lock, build, overlay, cache, Ordered, CacheTypeOK
  <2>2. Left(q)' = Left(q)
    BY <2>1, LeftSame
  <2>3. mixed \subseteq mixed'
    BY DEF Lock
  <2>4. WorkersOf(q)'
    BY <1>1, <2>1, <2>2 DEF WorkersOf, Ahead
  <2>5. OwnDirectory(q) => OwnDirectory(q)'
    BY <2>1, <2>2 DEF OwnDirectory, Ahead, Past, SecretOf, KeyedIn, CurrentKernel
  <2> QED BY <1>1, <2>3, <2>4, <2>5 DEF DirectoryOf
<1> QED BY <1>2, <1>3

LEMMA BeginHolds ==
  ASSUME Ordered, Held, NEW r \in Submission, Begin(r)
  PROVE  Held'
<1>1. stage[r] = "locked" /\ stage'[r] = "running" /\ UNCHANGED <<cmds, worker, failed>>
      /\ \A q \in Submission \ {r} : stage'[q] = stage[q]
      /\ UNCHANGED mixed
  BY DEF Begin, overlay, history, Ordered, CacheTypeOK
<1>2. Active(r) /\ WorkersOf(r) /\ Left(r)' \in Nat /\ Left(r)' > 11
  BY <1>1, LeftSame, LeftType DEF Active, Held, Ordered, CommandsOf, Left
<1>3. ~failed'[r] /\ \A f \in SecretFile : worker'[r][f] = "idle"
  BY <1>1, <1>2 DEF WorkersOf
<1>4. ~Ahead(r, 8)' /\ ~Past(r, 11)' /\ ~Past(r, 8)' /\ ~Past(r, 2)' /\ stage'[r] # "built"
  BY <1>1, <1>2 DEF Ahead, Past
<1>5. WorkersOf(r)' /\ DirectoryOf(r)'
  BY <1>3, <1>4 DEF WorkersOf, DirectoryOf, OwnDirectory
<1> QED BY <1>1, <1>2, <1>5, OthersHold DEF Held

\* A build that is over leaves the directory to the next one.
LEMMA OverHolds ==
  ASSUME Ordered, Held, NEW r \in Submission, Active(r), UNCHANGED <<cmds, overlay, mixed>>,
         stage' = [stage EXCEPT ![r] = "closed"],
         \A f \in SecretFile : worker[r][f] \in {"idle", "done"}
  PROVE  Held'
<1>1. stage'[r] = "closed" /\ UNCHANGED <<worker, failed>>
      /\ \A q \in Submission \ {r} : stage'[q] = stage[q]
  BY DEF overlay, Ordered, CacheTypeOK
<1>2. WorkersOf(r)' /\ DirectoryOf(r)'
  BY <1>1 DEF WorkersOf, DirectoryOf, OwnDirectory, Ahead, Past
<1> QED BY <1>1, <1>2, OthersHold DEF Held

\* A command succeeds: what is left of a build that is taken on.
LEMMA SucceedIs ==
  ASSUME Ordered, NEW r \in Submission, NEW c, AtCommand(r, c), Succeed(r)
  PROVE  /\ Left(r) \in Nat \ {0} /\ CommandAt(Left(r), c)
         /\ Left(r)' = Left(r) - 1
         /\ stage[r] = "running" /\ Active(r)
         /\ stage'[r] = IF Left(r) = 1 THEN "built" ELSE "running"
         /\ \A q \in Submission \ {r} : stage'[q] = stage[q] /\ cmds'[q] = cmds[q]
<1>1. stage[r] = "running" /\ cmds[r] # <<>> /\ Head(cmds[r]) = c /\ CommandsOf(r) /\ CacheTypeOK
  BY DEF AtCommand, Ordered
<1>2. /\ Left(r) \in Nat \ {0} /\ CommandAt(Left(r), c)
      /\ Len(Tail(cmds[r])) = Left(r) - 1
      /\ Tail(cmds[r]) = <<>> <=> Left(r) = 1
  BY <1>1, NextCommand DEF Left
<1>3. cmds'[r] = Tail(cmds[r])
      /\ stage'[r] = IF Tail(cmds[r]) = <<>> THEN "built" ELSE "running"
  BY <1>1 DEF Succeed, CacheTypeOK
<1>4. Left(r)' = Left(r) - 1
  BY <1>2, <1>3 DEF Left
<1>5. \A q \in Submission \ {r} : stage'[q] = stage[q] /\ cmds'[q] = cmds[q]
  BY <1>1 DEF Succeed, CacheTypeOK
<1> QED BY <1>1, <1>2, <1>3, <1>4, <1>5 DEF Active

\* What a command leaves in the directory is what the next one expects there.
LEMMA ExecuteKeepsDirectory ==
  ASSUME Ordered, NEW r \in Submission, WorkersOf(r), OwnDirectory(r),
         NEW c \in Command, Execute(r, c)
  PROVE  OwnDirectory(r)'
<1> DEFINE k == Left(r)
<1>1. /\ k \in Nat \ {0} /\ CommandAt(k, c) /\ Left(r)' = k - 1
      /\ stage[r] = "running" /\ Active(r)
      /\ stage'[r] = IF k = 1 THEN "built" ELSE "running"
      /\ \A q \in Submission \ {r} : stage'[q] = stage[q] /\ cmds'[q] = cmds[q]
  BY SucceedIs DEF Execute
<1> HIDE DEF k
<1>2. Effect(r, c) /\ UNCHANGED <<keyMap, worker, todo, buf, failed>>
  BY DEF Execute, overlay
<1>3. WorkersOf(r) /\ OwnDirectory(r)
  OBVIOUS
<1>4. k # 8
  <2>1. c # "secrets"
    BY <1>2 DEF Effect
  <2> QED BY <1>1, <2>1, CommandAtHand
<1>6. Past(r, 11)' => src' = r
  <2>1. CASE k = 11
    BY <1>1, <1>2, <2>1, CommandAtHand DEF Effect
  <2>2. CASE k < 11
    <3>1. src = r
      BY <1>1, <1>3, <2>2 DEF OwnDirectory, Past, k
    <3>2. c # "checkout" /\ c # "clone"
      BY <1>1, <2>2, CommandAtHand DEF CommandAt, Prefix, Build
    <3> QED BY <1>2, <3>1, <3>2 DEF Effect, cache
  <2>3. CASE k > 11
    BY <1>1, <2>3 DEF Past
  <2> QED BY <1>1, <2>1, <2>2, <2>3
<1>7. Ahead(r, 8)' => \A f \in SecretFile : SecretOf(r, f)'
  <2> SUFFICES ASSUME Ahead(r, 8)', NEW f \in SecretFile PROVE SecretOf(r, f)'
    OBVIOUS
  <2>1. k = 9
    BY <1>1 DEF Ahead
  <2>2. file'[f] = NoKeys
    BY <1>1, <1>2, <2>1, CommandAtHand DEF Effect, Overlaid
  <2>3. worker'[r][f] = "idle"
    BY <1>1, <1>2, <1>3, <2>1 DEF WorkersOf, k
  <2> QED BY <2>2, <2>3 DEF SecretOf
<1>8. Past(r, 8)' => \A f \in SecretFile : KeyedIn(r, f, file[f])'
  <2> SUFFICES ASSUME Past(r, 8)', NEW f \in SecretFile PROVE KeyedIn(r, f, file[f])'
    OBVIOUS
  <2>1. k < 8
    BY <1>1, <1>4 DEF Past
  <2>2. KeyedIn(r, f, file[f])
    BY <1>1, <1>3, <2>1 DEF OwnDirectory, Past, k
  <2>3. c \notin {"checkout", "clone", "reset", "rsync"}
    BY <1>1, <2>1, CommandAtHand DEF CommandAt, Prefix, Build
  <2>4. UNCHANGED <<src, file>>
    BY <1>2, <2>3 DEF Effect, cache
  <2> QED BY <1>2, <2>2, <2>4 DEF KeyedIn
<1>9. Past(r, 2)' => comp' \in {None, CurrentKernel'}
  <2> SUFFICES ASSUME Past(r, 2)' PROVE comp' \in {None, CurrentKernel'}
    OBVIOUS
  <2>1. k \in {1, 2}
    BY <1>1 DEF Past
  <2>2. CASE k = 2
    BY <1>1, <1>2, <2>2, CommandAtHand DEF Effect, CurrentKernel
  <2>3. CASE k = 1
    <3>1. comp \in {None, CurrentKernel}
      BY <1>1, <1>3, <2>3 DEF OwnDirectory, Past, k
    <3>2. c = "install"
      BY <1>1, <2>3, CommandAtHand
    <3> QED BY <1>2, <3>1, <3>2 DEF Effect, CurrentKernel
  <2> QED BY <2>1, <2>2, <2>3
<1>10. stage'[r] = "built" => root' = CurrentKernel'
  <2> SUFFICES ASSUME stage'[r] = "built" PROVE root' = CurrentKernel'
    OBVIOUS
  <2>1. k = 1
    BY <1>1
  <2>2. comp \in {None, CurrentKernel}
    BY <1>1, <1>3, <2>1 DEF OwnDirectory, Past, k
  <2>3. c = "install"
    BY <1>1, <2>1, CommandAtHand
  <2> QED BY <1>2, <2>2, <2>3 DEF Effect, CurrentKernel
<1> QED BY <1>6, <1>7, <1>8, <1>9, <1>10 DEF OwnDirectory

LEMMA ExecuteHolds ==
  ASSUME Ordered, Held, NEW r \in Submission, NEW c \in Command, Execute(r, c)
  PROVE  Held'
<1> DEFINE k == Left(r)
<1>1. /\ k \in Nat \ {0} /\ CommandAt(k, c) /\ Left(r)' = k - 1
      /\ stage[r] = "running" /\ Active(r)
      /\ stage'[r] = IF k = 1 THEN "built" ELSE "running"
      /\ \A q \in Submission \ {r} : stage'[q] = stage[q] /\ cmds'[q] = cmds[q]
  BY SucceedIs DEF Execute
<1> HIDE DEF k
<1>2. Effect(r, c) /\ UNCHANGED <<worker, failed, mixed>>
  BY DEF Execute, overlay, history
<1>3. WorkersOf(r) /\ DirectoryOf(r)
  BY DEF Held
<1>4. k # 8
  <2>1. c # "secrets"
    BY <1>2 DEF Effect
  <2> QED BY <1>1, <2>1, CommandAtHand
<1>5. WorkersOf(r)'
  <2>1. ~Ahead(r, 8) /\ (k - 1 > 8 => k > 8)
    BY <1>1, <1>4 DEF Ahead, k
  <2> QED BY <1>1, <1>2, <1>3, <2>1 DEF WorkersOf, k
<1>6. DirectoryOf(r)'
  BY <1>2, <1>3, ExecuteKeepsDirectory DEF DirectoryOf
<1> QED BY <1>1, <1>2, <1>5, <1>6, OthersHold DEF Held

\* While sync waits for its goroutines, the stages stay as they are.
LEMMA WorkerHolds ==
  ASSUME Ordered, Held, NEW r \in Submission, Ahead(r, 8), UNCHANGED <<stage, cmds, src, mixed>>,
         \A q \in Submission \ {r} : worker'[q] = worker[q] /\ failed'[q] = failed[q],
         ~failed'[r] => ~failed[r],
         ~failed'[r] /\ (\A f \in SecretFile : SecretOf(r, f))
           => \A f \in SecretFile : SecretOf(r, f)'
  PROVE  Held'
<1>1. Active(r) /\ WorkersOf(r) /\ DirectoryOf(r) /\ Left(r)' = Left(r)
  BY DEF Ahead, Active, Held, Left
<1>2. Ahead(r, 8)' /\ ~Past(r, 8)' /\ ~Past(r, 2)' /\ stage'[r] = "running"
  BY <1>1 DEF Ahead, Past
<1>3. WorkersOf(r)'
  BY <1>1, <1>2 DEF WorkersOf, Ahead
<1>4. OwnDirectory(r) => OwnDirectory(r)'
  <2>1. Past(r, 11)
    BY DEF Ahead, Past
  <2> QED BY <1>1, <1>2, <2>1 DEF OwnDirectory
<1> QED BY <1>1, <1>3, <1>4, OthersHold DEF Held, DirectoryOf

\* Who is at secrets has 8 commands left.
LEMMA AtSecrets ==
  ASSUME Ordered, NEW r \in Submission, AtCommand(r, "secrets")
  PROVE  Ahead(r, 8) /\ Active(r)
<1>1. stage[r] = "running" /\ cmds[r] # <<>> /\ Head(cmds[r]) = "secrets"
      /\ CommandsOf(r) /\ CacheTypeOK
  BY DEF AtCommand, Ordered
<1>2. Left(r) \in Nat \ {0} /\ CommandAt(Left(r), "secrets")
  BY <1>1, NextCommand DEF Left
<1>3. Left(r) = 8
  BY <1>2, CommandAtHand
<1> QED BY <1>1, <1>3 DEF Ahead, Active

LEMMA StartOverlayHolds ==
  ASSUME Ordered, Held, NEW r \in Submission, StartOverlay(r)
  PROVE  Held'
<1>1. Ahead(r, 8)
  BY AtSecrets DEF StartOverlay
<1>2. /\ \A f \in SecretFile : worker[r][f] = "idle" /\ worker'[r][f] = "start"
      /\ \A q \in Submission \ {r} : worker'[q] = worker[q]
      /\ UNCHANGED <<stage, cmds, keyMap, todo, buf, failed, src, file, mixed>>
  BY DEF StartOverlay, build, cache, history, Ordered, CacheTypeOK
<1>3. ASSUME NEW f \in SecretFile, SecretOf(r, f) PROVE SecretOf(r, f)'
  BY <1>2, <1>3 DEF SecretOf
<1> QED BY <1>1, <1>2, <1>3, WorkerHolds

\* One goroutine moves on, without touching a file or a key.
LEMMA BecomeIs ==
  ASSUME Ordered, NEW r \in Submission, NEW f \in SecretFile, NEW w, Become(r, f, w)
  PROVE  /\ worker'[r][f] = w
         /\ \A g \in SecretFile \ {f} : worker'[r][g] = worker[r][g]
         /\ \A q \in Submission \ {r} : worker'[q] = worker[q]
BY DEF Become, Ordered, CacheTypeOK

LEMMA ReceiveHolds ==
  ASSUME Ordered, Held, NEW r \in Submission, NEW f \in SecretFile, Receive(r, f)
  PROVE  Held'
<1>1. Ahead(r, 8)
  BY AtSecrets DEF Receive, Waiting
<1>2. PICK w \in AfterSend(worker[r][f]) : Become(r, f, w)
  BY DEF Receive
<1>3. /\ UNCHANGED <<stage, cmds, keyMap, todo, buf, src, file, mixed>>
      /\ \A q \in Submission \ {r} : failed'[q] = failed[q]
      /\ ~failed'[r] => ~failed[r] /\ worker[r][f] = "ok"
  BY DEF Receive, build, cache, history, Ordered, CacheTypeOK
<1>4. /\ worker'[r][f] = w
      /\ \A g \in SecretFile \ {f} : worker'[r][g] = worker[r][g]
      /\ \A q \in Submission \ {r} : worker'[q] = worker[q]
  BY <1>2, BecomeIs
<1>5. ASSUME ~failed'[r], NEW g \in SecretFile, SecretOf(r, g) PROVE SecretOf(r, g)'
  <2>1. CASE g = f
    <3>1. worker[r][f] = "ok" /\ w = "done"
      BY <1>2, <1>3, <1>5 DEF AfterSend
    <3> QED BY <1>3, <1>4, <1>5, <2>1, <3>1 DEF SecretOf, KeyedIn
  <2>2. CASE g # f
    BY <1>3, <1>4, <1>5, <2>2 DEF SecretOf, KeyedIn
  <2> QED BY <2>1, <2>2
<1> QED BY <1>1, <1>3, <1>4, <1>5, WorkerHolds

\* What a goroutine does it does while sync waits for it.
LEMMA WorkerIsAwaited ==
  ASSUME Held, NEW r \in Submission, NEW f \in SecretFile,
         worker[r][f] \in {"start", "reading", "rename"}
  PROVE  Ahead(r, 8)
BY DEF Held, WorkersOf

LEMMA OpenHolds ==
  ASSUME Ordered, Held, NEW r \in Submission, NEW f \in SecretFile, Open(r, f)
  PROVE  Held'
<1>1. Ahead(r, 8) /\ worker[r][f] = "start"
  BY WorkerIsAwaited DEF Open
<1>2. UNCHANGED <<stage, cmds, keyMap, failed, src, file, mixed>>
  BY DEF Open, build, cache, history
<1>3. CASE /\ Become(r, f, "reading")
           /\ buf' = [buf EXCEPT ![r][f] = file[f]]
           /\ todo' = [todo EXCEPT ![r][f] = {c \in Mentions[f] : file[f][c] = None}]
  <2>1. /\ worker'[r][f] = "reading"
        /\ \A g \in SecretFile \ {f} : worker'[r][g] = worker[r][g]
        /\ \A q \in Submission \ {r} : worker'[q] = worker[q]
    BY <1>3, BecomeIs
  <2>2. /\ todo'[r][f] = {c \in Mentions[f] : file[f][c] = None}
        /\ \A g \in SecretFile \ {f} : todo'[r][g] = todo[r][g] /\ buf'[r][g] = buf[r][g]
    BY <1>3 DEF Ordered, CacheTypeOK, Contents
  <2>3. ASSUME NEW g \in SecretFile, SecretOf(r, g) PROVE SecretOf(r, g)'
    <3>1. CASE g = f
      <4>1. file[f] = NoKeys
        BY <1>1, <2>3, <3>1 DEF SecretOf
      <4>2. Mentions[f] \subseteq Cmd
        BY CacheAssumption
      <4>3. Mentions[f] \ todo'[r][f] = {}
        BY <2>2, <4>1, <4>2 DEF NoKeys
      <4> QED BY <1>2, <2>1, <3>1, <4>1, <4>3 DEF SecretOf
    <3>2. CASE g # f
      BY <1>2, <2>1, <2>2, <2>3, <3>2 DEF SecretOf, KeyedIn
    <3> QED BY <3>1, <3>2
  <2> QED BY <1>1, <1>2, <2>1, <2>3, WorkerHolds
<1>4. CASE Become(r, f, "error") /\ UNCHANGED <<buf, todo>>
  <2>1. /\ worker'[r][f] = "error"
        /\ \A g \in SecretFile \ {f} : worker'[r][g] = worker[r][g]
        /\ \A q \in Submission \ {r} : worker'[q] = worker[q]
    BY <1>4, BecomeIs
  <2>2. ASSUME NEW g \in SecretFile, SecretOf(r, g) PROVE SecretOf(r, g)'
    BY <1>2, <1>4, <2>1, <2>2 DEF SecretOf, KeyedIn
  <2> QED BY <1>1, <1>2, <2>1, <2>2, WorkerHolds
<1> QED BY <1>3, <1>4 DEF Open, OpenFails

\* getKey gives a key, and no key is ever replaced by another.
LEMMA ReplaceHolds ==
  ASSUME Ordered, Held, NEW r \in Submission, NEW f \in SecretFile, NEW c \in Cmd, Replace(r, f, c)
  PROVE  Held'
<1>1. Ahead(r, 8) /\ worker[r][f] = "reading"
  BY WorkerIsAwaited DEF Replace
<1>2. UNCHANGED <<stage, cmds, worker, failed, src, file, mixed>>
  BY DEF Replace, cache, history
<1>3. keyMap'[r][c] = KeyFor(r, f, c) /\ \A d \in Cmd \ {c} : keyMap'[r][d] = keyMap[r][d]
  BY DEF Replace, Ordered, CacheTypeOK
<1>4. keyMap'[r][c] # None /\ (keyMap[r][c] # None => keyMap'[r][c] = keyMap[r][c])
  <2>1. <<r, f>> # None
    BY CacheAssumption
  <2> QED BY <1>3, <2>1 DEF KeyFor
<1>5. /\ buf'[r][f][c] = keyMap'[r][c]
      /\ \A d \in Cmd \ {c} : buf'[r][f][d] = buf[r][f][d]
      /\ \A g \in SecretFile \ {f} : buf'[r][g] = buf[r][g] /\ todo'[r][g] = todo[r][g]
      /\ todo'[r][f] = todo[r][f] \ {c}
  BY DEF Replace, Ordered, CacheTypeOK, Contents
<1>6. \A d \in Cmd : keyMap[r][d] # None => keyMap'[r][d] = keyMap[r][d]
  BY <1>3, <1>4
<1>7. \A g \in SecretFile : Mentions[g] \subseteq Cmd
  BY CacheAssumption
<1>8. ASSUME NEW g \in SecretFile, NEW contents, KeyedIn(r, g, contents)
      PROVE  \A d \in Mentions[g] : contents[d] = keyMap'[r][d] /\ keyMap'[r][d] # None
  BY <1>6, <1>7, <1>8 DEF KeyedIn
<1>9. ASSUME NEW g \in SecretFile, SecretOf(r, g) PROVE SecretOf(r, g)'
  <2>1. worker'[r][g] \in {"ok", "done"} => KeyedIn(r, g, file[g])'
    BY <1>2, <1>8, <1>9 DEF SecretOf, KeyedIn
  <2>2. worker'[r][g] = "rename" => KeyedIn(r, g, buf[r][g])'
    <3> SUFFICES ASSUME worker'[r][g] = "rename" PROVE KeyedIn(r, g, buf[r][g])'
      OBVIOUS
    <3>1. g # f /\ KeyedIn(r, g, buf[r][g])
      BY <1>1, <1>2, <1>9 DEF SecretOf
    <3> QED BY <1>5, <1>8, <3>1 DEF KeyedIn
  <2>3. worker'[r][g] = "reading" =>
          \A d \in Mentions[g] \ todo'[r][g] :
            buf'[r][g][d] = keyMap'[r][d] /\ keyMap'[r][d] # None
    <3> SUFFICES ASSUME worker'[r][g] = "reading", NEW d \in Mentions[g] \ todo'[r][g]
                 PROVE  buf'[r][g][d] = keyMap'[r][d] /\ keyMap'[r][d] # None
      OBVIOUS
    <3>1. d \notin todo[r][g] => buf[r][g][d] = keyMap[r][d] /\ keyMap[r][d] # None
      BY <1>2, <1>9 DEF SecretOf
    <3>2. CASE g = f /\ d = c
      BY <1>4, <1>5, <3>2
    <3>3. CASE g = f /\ d # c
      BY <1>5, <1>6, <1>7, <3>1, <3>3
    <3>4. CASE g # f
      BY <1>5, <1>6, <1>7, <3>1, <3>4
    <3> QED BY <3>2, <3>3, <3>4
  <2> QED BY <1>2, <1>9, <2>1, <2>2, <2>3 DEF SecretOf
<1> QED BY <1>1, <1>2, <1>9, WorkerHolds

LEMMA ScanEndsHolds ==
  ASSUME Ordered, Held, NEW r \in Submission, NEW f \in SecretFile, ScanEnds(r, f)
  PROVE  Held'
<1>1. Ahead(r, 8) /\ worker[r][f] = "reading"
  BY WorkerIsAwaited DEF ScanEnds
<1>2. UNCHANGED <<stage, cmds, keyMap, todo, buf, failed, src, file, mixed>>
  BY DEF ScanEnds, build, cache, history
<1>3. PICK w \in {"scanerr", "rename"} :
        Become(r, f, w) /\ (w = "rename" => todo[r][f] = {})
  BY DEF ScanEnds
<1>4. /\ worker'[r][f] = w
      /\ \A g \in SecretFile \ {f} : worker'[r][g] = worker[r][g]
      /\ \A q \in Submission \ {r} : worker'[q] = worker[q]
  BY <1>3, BecomeIs
<1>5. ASSUME NEW g \in SecretFile, SecretOf(r, g) PROVE SecretOf(r, g)'
  <2>1. CASE g = f
    BY <1>1, <1>2, <1>3, <1>4, <1>5, <2>1 DEF SecretOf, KeyedIn
  <2>2. CASE g # f
    BY <1>2, <1>4, <1>5, <2>2 DEF SecretOf, KeyedIn
  <2> QED BY <2>1, <2>2
<1> QED BY <1>1, <1>2, <1>4, <1>5, WorkerHolds

LEMMA RenameHolds ==
  ASSUME Ordered, Held, NEW r \in Submission, NEW f \in SecretFile, RenameFile(r, f)
  PROVE  Held'
<1>1. Ahead(r, 8) /\ worker[r][f] = "rename"
  BY WorkerIsAwaited DEF RenameFile
<1>2. UNCHANGED <<stage, cmds, keyMap, todo, buf, failed, src, mixed>>
  BY DEF RenameFile, build, history
<1>3. /\ worker'[r][f] = "ok"
      /\ \A g \in SecretFile \ {f} : worker'[r][g] = worker[r][g]
      /\ \A q \in Submission \ {r} : worker'[q] = worker[q]
  BY BecomeIs DEF RenameFile
<1>4. file'[f] = buf[r][f] /\ \A g \in SecretFile \ {f} : file'[g] = file[g]
  BY DEF RenameFile, Ordered, CacheTypeOK, Contents
<1>5. ASSUME NEW g \in SecretFile, SecretOf(r, g) PROVE SecretOf(r, g)'
  <2>1. CASE g = f
    BY <1>1, <1>2, <1>3, <1>4, <1>5, <2>1 DEF SecretOf, KeyedIn
  <2>2. CASE g # f
    BY <1>2, <1>3, <1>4, <1>5, <2>2 DEF SecretOf, KeyedIn
  <2> QED BY <2>1, <2>2
<1> QED BY <1>1, <1>2, <1>3, <1>5, WorkerHolds

\* overlayHandler has its results: all files have their keys, or it is over.
LEMMA EndOverlayHolds ==
  ASSUME Ordered, Held, NEW r \in Submission, EndOverlay(r), ~outlived'
  PROVE  Held'
<1>1. Ahead(r, 8) /\ Active(r) /\ AtCommand(r, "secrets")
  BY AtSecrets DEF EndOverlay
<1>2. \A f \in SecretFile : worker[r][f] = "done"
  BY DEF EndOverlay
<1>3. UNCHANGED <<keyMap, overlay, worker, todo, buf, failed, src, file, comp, root, mixed>>
  BY DEF EndOverlay, overlay, cache
<1>4. CASE Fail(r)
  BY <1>1, <1>2, <1>3, <1>4, OverHolds DEF Fail
<1>5. CASE ~failed[r] /\ Succeed(r)
  <2>1. /\ Left(r) = 8 /\ Left(r)' = 8 - 1 /\ stage'[r] = "running"
        /\ \A q \in Submission \ {r} : stage'[q] = stage[q] /\ cmds'[q] = cmds[q]
    BY <1>1, <1>5, SucceedIs DEF Ahead
  <2>2. ASSUME r \notin mixed PROVE src = r /\ \A f \in SecretFile : KeyedIn(r, f, file[f])
    <3>1. OwnDirectory(r)
      BY <2>2 DEF Held, DirectoryOf
    <3>2. src = r
      BY <1>1, <2>1, <3>1 DEF OwnDirectory, Past, Ahead
    <3>3. \A f \in SecretFile : SecretOf(r, f)
      BY <1>1, <1>5, <3>1 DEF OwnDirectory
    <3> QED BY <1>2, <3>2, <3>3 DEF SecretOf
  <2>3. ~Ahead(r, 8)' /\ ~Past(r, 2)' /\ ~(Left(r)' > 8)
    BY <2>1 DEF Ahead, Past
  <2>4. WorkersOf(r)'
    BY <1>2, <1>3, <2>1, <2>3 DEF WorkersOf
  <2>5. DirectoryOf(r)'
    BY <1>3, <2>1, <2>2, <2>3 DEF DirectoryOf, OwnDirectory, KeyedIn
  <2> QED BY <1>1, <1>3, <2>1, <2>4, <2>5, OthersHold DEF Held
<1> QED BY <1>4, <1>5 DEF EndOverlay

LEMMA ExecuteFailsHolds ==
  ASSUME Ordered, Held, NEW r \in Submission, NEW c \in Command, ExecuteFails(r, c)
  PROVE  Held'
<1>1. stage[r] = "running" /\ Active(r) /\ UNCHANGED <<cmds, overlay, mixed>>
      /\ stage' = [stage EXCEPT ![r] = "closed"]
  BY DEF ExecuteFails, AtCommand, Fail, Active, history
<1>2. \A f \in SecretFile : worker[r][f] \in {"idle", "done"}
  <2>1. CASE c = "secrets"
    BY <2>1 DEF ExecuteFails
  <2>2. CASE c # "secrets"
    <3>1. cmds[r] # <<>> /\ Head(cmds[r]) = c /\ CommandsOf(r) /\ CacheTypeOK
      BY DEF ExecuteFails, AtCommand, Ordered
    <3>2. Left(r) \in Nat \ {0} /\ CommandAt(Left(r), c)
      BY <3>1, NextCommand DEF Left
    <3>3. ~Ahead(r, 8)
      BY <2>2, <3>2, CommandAtHand DEF Ahead
    <3> QED BY <3>3 DEF Held, WorkersOf
  <2> QED BY <2>1, <2>2
<1> QED BY <1>1, <1>2, OverHolds

LEMMA CloseHolds ==
  ASSUME Ordered, Held, NEW r \in Submission, Close(r)
  PROVE  Held'
<1>1. stage[r] = "built" /\ Active(r) /\ UNCHANGED <<cmds, overlay, mixed>>
      /\ stage' = [stage EXCEPT ![r] = "closed"]
  BY DEF Close, Active, build, history
<1>2. \A f \in SecretFile : worker[r][f] \in {"idle", "done"}
  BY <1>1 DEF Held, WorkersOf, Ahead
<1> QED BY <1>1, <1>2, OverHolds
-----------------------------------------------------------------------------
CacheInv ==
  Ordered /\ (~outlived => Held)

LEMMA CacheInvHolds ==
  ASSUME CacheInv, [CacheNext]_cacheVars
  PROVE  CacheInv'
<1>1. Ordered /\ Ordered'
  BY OneBuildsHolds, CommandsHold, CacheTypeHolds DEF CacheInv, Ordered
<1>2. ASSUME ~outlived' PROVE Held'
  <2>1. CASE UNCHANGED cacheVars
    <3>1. Held
      BY <1>2, <2>1 DEF CacheInv, cacheVars, history
    <3>2. /\ UNCHANGED <<stage, cmds, keyMap, worker, todo, buf, failed>>
          /\ UNCHANGED <<src, file, comp, root, mixed>>
      BY <2>1 DEF cacheVars, build, overlay, cache, history
    <3> QED BY <3>1, <3>2
            DEF Held, WorkersOf, DirectoryOf, OwnDirectory, Ahead, Past, Left, SecretOf, KeyedIn,
                CurrentKernel
  <2>2. CASE CacheNext
    <3>1. PICK r \in Submission : Plan(r) \/ RunStep(r) \/ \E f \in SecretFile : Worker(r, f)
      BY <2>2 DEF CacheNext
    <3>2. ~outlived
      BY <1>2, <3>1 DEF Plan, RunStep, Worker, Lock, Begin, Close, Execute, ExecuteFails, history,
                        StartOverlay, Receive, EndOverlay, Open, Replace, ScanEnds, RenameFile
    <3>3. Held
      BY <3>2 DEF CacheInv
    <3>4. CASE Plan(r)
      BY <1>1, <3>3, <3>4, PlanHolds
    <3>5. CASE RunStep(r)
      <4>1. CASE Lock(r) \/ Begin(r) \/ Close(r)
        BY <1>1, <3>3, <4>1, LockHolds, BeginHolds, CloseHolds
      <4>2. CASE \E c \in Command : Execute(r, c) \/ ExecuteFails(r, c)
        BY <1>1, <3>3, <4>2, ExecuteHolds, ExecuteFailsHolds
      <4>3. CASE StartOverlay(r)
        BY <1>1, <3>3, <4>3, StartOverlayHolds
      <4>4. CASE \E f \in SecretFile : Receive(r, f)
        BY <1>1, <3>3, <4>4, ReceiveHolds
      <4>5. CASE EndOverlay(r)
        BY <1>1, <1>2, <3>3, <4>5, EndOverlayHolds
      <4> QED BY <3>5, <4>1, <4>2, <4>3, <4>4, <4>5 DEF RunStep
    <3>6. CASE \E f \in SecretFile : Worker(r, f)
      BY <1>1, <3>3, <3>6, OpenHolds, ReplaceHolds, ScanEndsHolds, RenameHolds DEF Worker
    <3> QED BY <3>1, <3>4, <3>5, <3>6
  <2> QED BY <2>1, <2>2
<1> QED BY <1>1, <1>2 DEF CacheInv

\* No goroutine and no other submission puts a tree or a key into the directory
\* between the commands of a build (build.go:276-323): what is installed is the
\* submission's own commit, with the keys that the build has recorded.  That is
\* what the lock on the students does for the cached directory, whatever the
\* teams; it does nothing for a submission that is at work together with one it
\* has no student in common with, and those (mixed) are excepted.
THEOREM KernelIsTheSubmissions == CacheSpec => []KernelIsOwn
<1>1. CacheInit => CacheInv
  <2> SUFFICES ASSUME CacheInit PROVE CacheInv
    OBVIOUS
  <2>1. CacheTypeOK
    <3>1. Cardinality(SecretFile) \in Nat /\ <<>> \in Seq(Command)
      BY CacheAssumption, FS_CardinalityType
    <3>2. received \in [Submission -> 0..Cardinality(SecretFile)]
          /\ cmds \in [Submission -> Seq(Command)]
      BY <3>1 DEF CacheInit
    <3>3. NoKeys \in [Cmd -> Key \cup {None}]
      BY DEF NoKeys
    <3>4. keyMap \in [Submission -> [Cmd -> Key \cup {None}]] /\ file \in Contents
          /\ buf \in [Submission -> Contents]
      BY <3>3 DEF CacheInit, Contents
    <3> QED BY <3>2, <3>4 DEF CacheInit, CacheTypeOK, Source
  <2>2. OneBuilds
    BY DEF CacheInit, OneBuilds, Active
  <2>3. \A r \in Submission : CommandsOf(r)
    BY DEF CacheInit, CommandsOf
  <2>4. Held
    BY DEF CacheInit, Held, WorkersOf, DirectoryOf, OwnDirectory, Ahead, Past
  <2> QED BY <2>1, <2>2, <2>3, <2>4 DEF CacheInv, Ordered
<1>2. CacheInv => KernelIsOwn
  <2> SUFFICES ASSUME CacheInv, ~outlived, NEW r \in Submission \ mixed, stage[r] = "built"
               PROVE  /\ root.src = r
                      /\ \A f \in SecretFile : \A c \in Mentions[f] :
                           root.file[f][c] = keyMap[r][c] /\ keyMap[r][c] # None
    BY DEF KernelIsOwn
  <2>1. OwnDirectory(r)
    BY DEF CacheInv, Held, DirectoryOf
  <2>2. src = r /\ root = CurrentKernel /\ \A f \in SecretFile : KeyedIn(r, f, file[f])
    BY <2>1 DEF OwnDirectory, Past
  <2> QED BY <2>2 DEF CurrentKernel, KeyedIn
<1> QED BY <1>1, <1>2, CacheInvHolds, PTL DEF CacheSpec
=============================================================================
