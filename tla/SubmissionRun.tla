---------------------------- MODULE SubmissionRun ----------------------------
(***************************************************************************)
(* Submission.Run (submission.go): build the kernel, create the tests in   *)
(* the database, run them, split the submission into one for each target   *)
(* it covers, add up the scores as the results arrive, and in the deferred *)
(* calls save every submission, update the students and unlock them.       *)
(*                                                                         *)
(* The tests run concurrently (TestSchedule says how their results         *)
(* arrive): here any of them may be the next to be reported.  The students *)
(* make one submission after another (SubmissionLifecycle says why never   *)
(* two at a time), for one target or another and perhaps for a new version *)
(* of the targets; all of them have the same record.  A write to the       *)
(* database that only logs its error is taken to succeed.                  *)
(***************************************************************************)
EXTENDS StudentStats, Sequences, FiniteSets, FiniteSetsExt, Functions

CONSTANTS
  Test,         \* the tests of the targets, the build excepted
  Meta,         \* the submission itself, and the metatarget
  SubTarget,    \* the targets it may be split into
  Plain,        \* a target that is not split
  SplitLists,   \* what split() may return: the targets, in order
  TestsOf,      \* the tests Target.Instance puts in the submission
  TargetOf,     \* Test.TargetName
  Points,       \* Test.PointsAvailable in each version: 0 if no target grades it
  TypeOf,       \* Target.Type of the plain target and of the metatarget
  MaxPast       \* bound on the earlier submissions

Sub == {Meta} \cup SubTarget
Version == DOMAIN Points

ASSUME RunAssumption ==
  /\ IsFiniteSet(Test) /\ IsFiniteSet(SubTarget)
  /\ Meta \notin SubTarget /\ {Plain, "unlockStudents"} \cap Sub = {}
  /\ \A l \in SplitLists : l \in Seq(SubTarget) /\ IsInjective(l)
  /\ TestsOf \in [SplitLists -> SUBSET Test]
  /\ Version \subseteq Nat /\ \A v \in Version : Points[v] \in [Test -> Nat]
  /\ DOMAIN TargetOf = Test
  /\ TypeOf \in [{Plain, Meta} -> {"asst", "perf"}]

\* Target.Instance gives points only to the tests of the targets it puts together,
\* which are those that split() returns; a dependency from elsewhere has none.
ASSUME GradedAssumption ==
  \A l \in SplitLists \ {<<>>} : \A t \in TestsOf[l] :
    TargetOf[t] \in Range(l) \/ \A v \in Version : Points[v][t] = 0

VARIABLES
  pc,           \* where Run is
  splits,       \* the sub-submissions split() returns
  status,       \* Submission.Status
  score,        \* Submission.Score
  toCreate,     \* the tests that are not yet in the database
  unreported,   \* the tests the runner has not reported
  deferred,     \* the deferred calls, the last one runs first
  saved,        \* the submissions in the database
  version,      \* Submission.TargetVersion
  past,         \* the earlier submissions in the database
  student,      \* the students' record: submission count and statistics
  locked        \* are the students in pendingSubmissions?

vars == <<pc, splits, status, score, toCreate, unreported, deferred, saved,
          version, past, student, locked>>
record == <<version, past, student>>

Terminal == {"aborted", "completed"}
Unsaved == [status |-> "absent", score |-> 0]
Current(s) == [status |-> status[s], score |-> score[s]]

\* The sub-submissions that exist: their finish is deferred when they are made.
Made == {s \in Sub : saved[s] # Unsaved}

\* NewSubmission, its targets' tests instantiated, has locked the students and
\* Run begins: the deferred calls come before everything else.
Submitted(l, v, defers) ==
  /\ pc' = "entry"
  /\ splits' = l
  /\ version' = v
  /\ status' = [s \in Sub |-> "submitted"]
  /\ score' = [s \in Sub |-> 0]
  /\ toCreate' = TestsOf[l]
  /\ unreported' = TestsOf[l]
  /\ deferred' = defers
  /\ saved' = [s \in Sub |-> IF s = Meta THEN [status |-> "submitted", score |-> 0] ELSE Unsaved]
  /\ locked' = TRUE

Init ==
  /\ pc = "returned"
  /\ splits = <<>>
  /\ version = Min(Version)
  /\ status = [s \in Sub |-> "submitted"]
  /\ score = [s \in Sub |-> 0]
  /\ toCreate = {}
  /\ unreported = {}
  /\ deferred = <<>>
  /\ saved = [s \in Sub |-> Unsaved]
  /\ past = <<>>
  /\ student = [total |-> 0, stats |-> <<>>]
  /\ locked = FALSE

\* The submission in the database as Submission.updateStats takes it.
Target(l, s) == IF s = Meta /\ l = <<>> THEN Plain ELSE s
PointsAvailable(l, v, s) ==
  SumFunctionOnSet(Points[v],
    IF s = Meta THEN (IF l = <<>> THEN TestsOf[l] ELSE {t \in Test : TargetOf[t] \in SubTarget})
    ELSE {t \in Test : TargetOf[t] = s})
Described(id, l, v, s, result) ==
  [id |-> id, target |-> Target(l, s), original |-> s = Meta, version |-> v,
   type |-> TypeOf[IF l = <<>> THEN Plain ELSE Meta], points |-> PointsAvailable(l, v, s),
   status |-> result.status, score |-> result.score, perf |-> 0]

Submission == [splits |-> splits, version |-> version, saved |-> saved]

NewSubmission_UnlockFirst ==
  /\ pc = "returned"
  /\ Len(past) < MaxPast
  /\ \E l \in SplitLists, v \in Version :
       v >= version /\ Submitted(l, v, <<Meta, "unlockStudents">>)
  /\ past' = IF Made = {} THEN past ELSE Append(past, Submission)
  /\ UNCHANGED student

\* The next submission; the server may have been restarted with new targets.
NewSubmission ==
  /\ pc = "returned"
  /\ Len(past) < MaxPast
  /\ \E l \in SplitLists, v \in Version :
       v >= version /\ Submitted(l, v, <<"unlockStudents", Meta>>)
  /\ past' = IF Made = {} THEN past ELSE Append(past, Submission)
  /\ UNCHANGED student
-----------------------------------------------------------------------------
(* The build. *)

StartBuild ==
  /\ pc = "entry"
  /\ pc' = "building"
  /\ status' = [status EXCEPT ![Meta] = "building"]
  /\ saved' = [saved EXCEPT ![Meta].status = "building"]
  /\ UNCHANGED <<splits, score, toCreate, unreported, deferred, record, locked>>

BuildFails_BeforeDefer ==
  /\ pc = "building"
  /\ pc' = "returning"
  /\ status' = [status EXCEPT ![Meta] = "aborted"]
  /\ saved' = [saved EXCEPT ![Meta].status = "aborted"]
  /\ deferred' = <<>>
  /\ UNCHANGED <<splits, score, toCreate, unreported, record, locked>>

BuildFails ==
  /\ pc = "building"
  /\ pc' = "returning"
  /\ status' = [status EXCEPT ![Meta] = "aborted"]
  /\ saved' = [saved EXCEPT ![Meta] = [status |-> "aborted", score |-> score[Meta]]]
  /\ UNCHANGED <<splits, score, toCreate, unreported, deferred, record, locked>>

BuildSucceeds ==
  /\ pc = "building"
  /\ pc' = "creating"
  /\ UNCHANGED <<splits, status, score, toCreate, unreported, deferred, saved,
                 record, locked>>
-----------------------------------------------------------------------------
(* The tests are created and started, and the submission is split. *)

CreateTest(t) ==
  /\ pc = "creating"
  /\ t \in toCreate
  /\ toCreate' = toCreate \ {t}
  /\ UNCHANGED <<pc, splits, status, score, unreported, deferred, saved, record, locked>>

\* The database did not take the test: its result could not be verified.
CreateFails ==
  /\ pc = "creating"
  /\ toCreate # {}
  /\ pc' = "returning"
  /\ status' = [status EXCEPT ![Meta] = "aborted"]
  /\ UNCHANGED <<splits, score, toCreate, unreported, deferred, saved, record, locked>>

StartTests ==
  /\ pc = "creating"
  /\ toCreate = {}
  /\ pc' = "splitting"
  /\ status' = [status EXCEPT ![Meta] = "running"]
  /\ saved' = [saved EXCEPT ![Meta].status = "running"]
  /\ UNCHANGED <<splits, score, toCreate, unreported, deferred, record, locked>>

\* cloneAndUpdate copies the status, and starts from score 0.
Split ==
  /\ pc = "splitting"
  /\ LET made == Len(deferred) - 2 IN
     IF made = Len(splits)
     THEN pc' = "running" /\ UNCHANGED <<status, deferred, saved>>
     ELSE LET s == splits[made + 1] IN
       /\ status' = [status EXCEPT ![s] = status[Meta]]
       /\ saved' = [saved EXCEPT ![s] = [status |-> status[Meta], score |-> 0]]
       /\ deferred' = Append(deferred, s)
       /\ UNCHANGED pc
  /\ UNCHANGED <<splits, score, toCreate, unreported, record, locked>>
-----------------------------------------------------------------------------
(* The results. *)

Abort_MetaOnly ==
  /\ status' = [status EXCEPT ![Meta] = "aborted"]
  /\ score' = [score EXCEPT ![Meta] = 0]
  /\ UNCHANGED saved

\* One aborted test aborts the submission and all its splits; that is saved
\* only when they finish.
Abort ==
  /\ status' = [s \in Sub |-> IF s = Meta \/ s \in Range(splits) THEN "aborted" ELSE status[s]]
  /\ score' = [s \in Sub |-> IF s = Meta \/ s \in Range(splits) THEN 0 ELSE score[s]]
  /\ UNCHANGED saved

Graded(t) == {Meta} \cup (Range(splits) \cap {TargetOf[t]})

AddScore(t, earned) ==
  /\ score' = [s \in Sub |-> IF s \in Graded(t) THEN score[s] + earned ELSE score[s]]
  /\ saved' = [s \in Sub |-> IF s \in Graded(t) THEN [saved[s] EXCEPT !.score = score'[s]]
                                                ELSE saved[s]]
  /\ UNCHANGED status

Receive_AfterAbort(t) ==
  /\ pc = "running"
  /\ t \in unreported
  /\ unreported' = unreported \ {t}
  /\ \/ Abort
     \/ \E earned \in 0..Points[version][t] : AddScore(t, earned)
  /\ UNCHANGED <<pc, splits, toCreate, deferred, record, locked>>

\* Once aborted, the other results are received but do not count.
Receive(t) ==
  /\ pc = "running"
  /\ t \in unreported
  /\ unreported' = unreported \ {t}
  /\ \/ status[Meta] = "running" /\ Abort
     \/ status[Meta] = "running" /\ \E earned \in 0..Points[version][t] : AddScore(t, earned)
     \/ status[Meta] # "running" /\ UNCHANGED <<status, score, saved>>
  /\ UNCHANGED <<pc, splits, toCreate, deferred, record, locked>>

ResultsClosed ==
  /\ pc = "running"
  /\ unreported = {}
  /\ pc' = "returning"
  /\ UNCHANGED <<splits, status, score, toCreate, unreported, deferred, saved,
                 record, locked>>
-----------------------------------------------------------------------------
(* The deferred calls. *)

Front(q) == SubSeq(q, 1, Len(q) - 1)

\* Save the submission, and count it in the documents of its students.
Finish(s) ==
  /\ pc = "returning"
  /\ deferred # <<>>
  /\ s = deferred[Len(deferred)]
  /\ s \in Sub
  /\ deferred' = Front(deferred)
  /\ status' = [status EXCEPT ![s] = IF @ = "running" THEN "completed" ELSE @]
  /\ saved' = [saved EXCEPT ![s] = [status |-> status'[s], score |-> score[s]]]
  /\ student' = UpdateStats(student, Described(Len(past) + 1, splits, version, s, saved'[s]))
  /\ UNCHANGED <<pc, splits, score, toCreate, unreported, version, past, locked>>

UnlockStudents ==
  /\ pc = "returning"
  /\ deferred # <<>>
  /\ deferred[Len(deferred)] = "unlockStudents"
  /\ deferred' = Front(deferred)
  /\ locked' = FALSE
  /\ UNCHANGED <<pc, splits, status, score, toCreate, unreported, saved, record>>

Return ==
  /\ pc = "returning"
  /\ deferred = <<>>
  /\ pc' = "returned"
  /\ UNCHANGED <<splits, status, score, toCreate, unreported, deferred, saved,
                 record, locked>>

Step ==
  \/ StartBuild \/ BuildFails \/ BuildSucceeds
  \/ CreateFails \/ StartTests \/ Split
  \/ \E t \in Test : CreateTest(t) \/ Receive(t)
  \/ ResultsClosed
  \/ \E s \in Sub : Finish(s)
  \/ UnlockStudents
  \/ Return

Next == Step \/ NewSubmission

Spec == Init /\ [][Next]_vars

\* The build ends, and the runner reports every test (TestSchedule).
FairSpec == Spec /\ WF_vars(Step)
-----------------------------------------------------------------------------
\* The score of a submission that was split is the sum of the scores of its
\* parts, at any time: an abort takes all of them to 0 (submission.go:774).
ScoresAddUp ==
  splits # <<>> => score[Meta] = SumFunctionOnSet(score, Range(splits))

\* A split submission finishes as a whole: no part is completed when another
\* is aborted, and nothing that was aborted keeps points.
AbortIsTotal ==
  \A s \in Made : saved[s].status \in Terminal /\ saved[Meta].status \in Terminal =>
    /\ saved[s].status = saved[Meta].status
    /\ saved[s].status = "aborted" => saved[s].score = 0

\* When the students can submit again, everything about this submission is
\* final in the database: the next one cannot be confused with it.
UnlockedWhenSaved ==
  ~locked => \A s \in Made : saved[s].status \in Terminal /\ saved[s] = Current(s)

\* What submissions q, numbered as they were made, are in the database for a target.
Recorded(q, tg) ==
  UNION {{Described(n, q[n].splits, q[n].version, s, q[n].saved[s]) :
            s \in {x \in Sub : q[n].saved[x] # Unsaved /\ Target(q[n].splits, x) = tg}}
          : n \in DOMAIN q}

InDatabase(tg) == Recorded(Append(past, Submission), tg)

\* "Only update the student submission count for the original submission"
\* (submission.go:463), "always increment submission count, but everything else
\* depends on the submission result" (submission.go:477): whenever the students
\* are unlocked, their record has the counts, the sum behind the average and the
\* newest points that the submissions in the database give.
StatsMatchDatabase ==
  ~locked =>
    /\ student.total = Len(past) + (IF Made = {} THEN 0 ELSE 1)
    /\ DOMAIN student.stats = {tg \in Sub \cup {Plain} : InDatabase(tg) # {}}
    /\ \A tg \in DOMAIN student.stats :
         LET subs == InDatabase(tg)  valid == {d \in subs : ValidResult(d)}
             stat == student.stats[tg]  newest == Max({d.version : d \in subs})
         IN /\ stat.total = Cardinality(subs)
            /\ stat.complete = Cardinality(valid)
            /\ stat.sum = SumFunction([d \in valid |-> IF d.type = "asst" THEN d.score ELSE d.perf])
            /\ stat.version = newest
            /\ \E d \in subs : d.version = newest /\ stat.max = d.points

\* The best submission is the first with the high score, and none if nobody got a
\* point; the low score is the lowest of the completed submissions since the last
\* that scored 0, and not "Low score" (submission.go:499) of all of them.  A perf
\* target, as no submission has a performance, names the last perfect one.
BestAndLow ==
  ~locked => \A tg \in DOMAIN student.stats :
    LET valid == {d \in InDatabase(tg) : ValidResult(d)}
        stat == student.stats[tg]
        high == Max({0} \cup {d.score : d \in valid})
        zeros == {d.id : d \in {e \in valid : e.score = 0}}
        since == {d \in valid : \A z \in zeros : d.id > z}
    IN IF stat.type = "asst"
       THEN /\ stat.high = high
            /\ stat.best = IF high = 0 THEN NoSubmission
                           ELSE Min({d.id : d \in {e \in valid : e.score = high}})
            /\ stat.low = IF since = {} THEN 0 ELSE Min({d.score : d \in since})
       ELSE stat.best = IF valid = {} THEN NoSubmission ELSE Max({d.id : d \in valid})

\* However Run ends, the students are unlocked.
StudentsUnlocked == locked ~> ~locked
=============================================================================
