------------------------------ MODULE StudentStats ------------------------------
(***************************************************************************)
(* The statistics a student record keeps of each target (Student.updateStats *)
(* and TargetStats, submission.go): counted from the submissions one by one, *)
(* as they finish, and never recomputed.                                   *)
(*                                                                         *)
(* A submission is a record [id, target, original, type, version, points,  *)
(* status, score, perf].  Averages are kept as sums: AvgScore is           *)
(* sum / complete.                                                         *)
(***************************************************************************)
EXTENDS Naturals

NoSubmission == 0           \* BestSubmission of a student without one

\* Submission.TargetStats: the entry of a target the student is new to.
NewStat(sub) ==
  [type |-> sub.type, version |-> sub.version, max |-> sub.points,
   total |-> 0, complete |-> 0, sum |-> 0, best |-> NoSubmission,
   high |-> 0, low |-> 0, bestPerf |-> 0, worstPerf |-> 0]

\* A submission counts when it completed; a perf target also wants it perfect.
ValidResult(sub) ==
  sub.status = "completed" /\ (sub.type = "asst" \/ sub.score = sub.points)

CountScore_LastBest(stat, sub) ==
  [stat EXCEPT
     !.high = IF @ <= sub.score THEN sub.score ELSE @,
     !.best = IF stat.high <= sub.score THEN sub.id ELSE @,
     !.low  = IF @ = 0 \/ @ > sub.score THEN sub.score ELSE @,
     !.sum  = @ + sub.score,
     !.complete = @ + 1]

\* A low score of 0 is taken to be no low score yet.
CountScore(stat, sub) ==
  [stat EXCEPT
     !.high = IF @ < sub.score THEN sub.score ELSE @,
     !.best = IF stat.high < sub.score THEN sub.id ELSE @,
     !.low  = IF @ = 0 \/ @ > sub.score THEN sub.score ELSE @,
     !.sum  = @ + sub.score,
     !.complete = @ + 1]

CountPerf(stat, sub) ==
  [stat EXCEPT
     !.bestPerf  = IF sub.perf < @ \/ @ = 0 THEN sub.perf ELSE @,
     !.best      = IF sub.perf < stat.bestPerf \/ stat.bestPerf = 0 THEN sub.id ELSE @,
     !.worstPerf = IF @ < sub.perf THEN sub.perf ELSE @,
     !.sum       = @ + sub.perf,
     !.complete  = @ + 1]

\* The entry counts the submission, and follows a new version of the target.
Noticed(stat, sub) ==
  LET newer == stat.version < sub.version IN
  [stat EXCEPT
     !.total   = @ + 1,
     !.max     = IF newer THEN sub.points ELSE @,
     !.version = IF newer THEN sub.version ELSE @]

UpdateStat(stat, sub) ==
  IF ~ValidResult(sub) THEN Noticed(stat, sub)
  ELSE IF stat.type = "asst" THEN CountScore(Noticed(stat, sub), sub)
  ELSE CountPerf(Noticed(stat, sub), sub)

UpdateStats_TotalEach(student, sub) ==
  LET stat == IF sub.target \in DOMAIN student.stats THEN student.stats[sub.target]
              ELSE NewStat(sub)
  IN [total |-> student.total + 1,
      stats |-> [tg \in DOMAIN student.stats \cup {sub.target} |->
                   IF tg = sub.target THEN UpdateStat(stat, sub) ELSE student.stats[tg]]]

\* updateStats: only the original submission counts in the total, "this way, we
\* won't increase it 4 times when they submit ASST3".
UpdateStats(student, sub) ==
  LET stat == IF sub.target \in DOMAIN student.stats THEN student.stats[sub.target]
              ELSE NewStat(sub)
  IN [total |-> student.total + (IF sub.original THEN 1 ELSE 0),
      stats |-> [tg \in DOMAIN student.stats \cup {sub.target} |->
                   IF tg = sub.target THEN UpdateStat(stat, sub) ELSE student.stats[tg]]]
=============================================================================
