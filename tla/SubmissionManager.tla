------------------------- MODULE SubmissionManager -------------------------
(***************************************************************************)
(* The submission manager (manager.go, type SubmissionManager) on top of   *)
(* the test manager it shares the environment with.  Its Run admits one    *)
(* submission at a time (runlock), and only when the test manager has no   *)
(* queue; the submission then builds and sends its tests to SubmitChan.    *)
(*                                                                         *)
(* The clients of queueCond in TestManager are the submissions.  What a    *)
(* submission does between its admission and its end is SubmissionRun; here*)
(* it sends some of its jobs and ends when all that it sent are reported.  *)
(***************************************************************************)
EXTENDS TestManager

CONSTANTS
  Owner,        \* the submission a job belongs to
  Staff,        \* the submissions of which every student is staff
  NoOne         \* the owner of a free lock

ASSUME OwnerAssumption == Owner \in [Job -> Client]
\* Like the counters of the tests, the submissions' are uints.
ASSUME ClientAssumption == IsFiniteSet(Client) /\ Cardinality(Client) <= UintMax
ASSUME NoOneAssumption == NoOne \notin Client

VARIABLES
  status,       \* SubmissionManager.status
  smStats,      \* SubmissionManager.stats, without the times
  runlock,      \* who holds runlock
  sub           \* where Run is for each submission

smVars == <<status, smStats, runlock, sub>>
allVars == <<vars, smVars>>

Status == {"accepting", "not_accepting", "staff_only"}
SubState == {"new", "rejected", "queued", "ondeck", "admitted", "counted",
             "running", "finished"}

SMTypeOK ==
  /\ TypeOK
  /\ status \in Status
  /\ smStats \in [StatsField -> 0..UintMax]
  /\ runlock \in Client \cup {NoOne}
  /\ sub \in [Client -> SubState]

SMInit ==
  /\ Init
  /\ status = "accepting"
  /\ smStats = [f \in StatsField |-> 0]
  /\ runlock = NoOne
  /\ sub = [s \in Client |-> "new"]
-----------------------------------------------------------------------------
\* Pause, Resume and SetStaffOnly.
SetStatus(st) ==
  /\ status' = st
  /\ UNCHANGED <<vars, smStats, runlock, sub>>

Closed(s) == status = "not_accepting" \/ (status = "staff_only" /\ s \notin Staff)

\* The first critical section of Run: turned away, or queued.
Reject(s) ==
  /\ sub[s] = "new"
  /\ Closed(s)
  /\ sub' = [sub EXCEPT ![s] = "rejected"]
  /\ UNCHANGED <<vars, status, smStats, runlock>>

Accept(s) ==
  /\ sub[s] = "new"
  /\ ~Closed(s)
  /\ smStats' = CountQueued(smStats)
  /\ sub' = [sub EXCEPT ![s] = "queued"]
  /\ UNCHANGED <<vars, status, runlock>>

RunlockFree_Ignored == TRUE
RunlockFree == runlock = NoOne

TakeRunlock(s) ==
  /\ sub[s] = "queued"
  /\ RunlockFree
  /\ runlock' = s
  /\ sub' = [sub EXCEPT ![s] = "ondeck"]
  /\ UNCHANGED <<vars, status, smStats>>

\* On deck: wait until the test manager has no queue.
AwaitQueue(s) ==
  /\ sub[s] = "ondeck"
  /\ \/ QueueLock(s) \/ QueueNotEmpty(s) \/ QueueWait(s)
  /\ UNCHANGED smVars

LeaveDeck(s) ==
  /\ sub[s] = "ondeck"
  /\ QueueProceed(s)
  /\ sub' = [sub EXCEPT ![s] = "admitted"]
  /\ UNCHANGED <<status, smStats, runlock>>

CountRun_StillQueued(s) ==
  /\ sub[s] = "admitted"
  /\ smStats' = CountRunning(smStats)
  /\ sub' = [sub EXCEPT ![s] = "counted"]
  /\ UNCHANGED <<vars, status, runlock>>

CountRun(s) ==
  /\ sub[s] = "admitted"
  /\ smStats' = CountRunning([smStats EXCEPT !.Queued = Dec(@)])
  /\ sub' = [sub EXCEPT ![s] = "counted"]
  /\ UNCHANGED <<vars, status, runlock>>

BeginRun_KeepRunlock(s) ==
  /\ sub[s] = "counted"
  /\ sub' = [sub EXCEPT ![s] = "running"]
  /\ UNCHANGED <<vars, status, smStats, runlock>>

BeginRun(s) ==
  /\ sub[s] = "counted"
  /\ runlock' = NoOne
  /\ sub' = [sub EXCEPT ![s] = "running"]
  /\ UNCHANGED <<vars, status, smStats>>

\* Submission.Run gives its runner's jobs to the test manager ...
SubmitJob(j) ==
  /\ sub[Owner[j]] = "running"
  /\ Submit(j)
  /\ UNCHANGED smVars

\* ... and returns when they are reported, or before it sends any.  A job
\* whose dependency failed is never sent.
EndRun(s) ==
  /\ sub[s] = "running"
  /\ \A j \in Job : Owner[j] = s => job[j] \in {"new", "delivered"}
  /\ smStats' = [smStats EXCEPT !.Running = Dec(@), !.Finished = Inc(@)]
  /\ sub' = [sub EXCEPT ![s] = "finished"]
  /\ UNCHANGED <<vars, status, runlock>>

RunStep(s) ==
  \/ Reject(s) \/ Accept(s) \/ TakeRunlock(s) \/ AwaitQueue(s) \/ LeaveDeck(s)
  \/ CountRun(s) \/ BeginRun(s) \/ EndRun(s)

TestStep(j) == JobStep(j) /\ UNCHANGED smVars

ManagerStep ==
  /\ Start \/ Stop \/ \E n \in Capacities : SetManagerCapacity(n)
  /\ UNCHANGED smVars

SMNext ==
  /\ ~Panicked
  /\ \/ ManagerStep
     \/ \E st \in Status : SetStatus(st)
     \/ \E j \in Job : SubmitJob(j) \/ TestStep(j)
     \/ \E s \in Client : RunStep(s)

SMSpec == SMInit /\ [][SMNext]_allVars

\* Goroutines are scheduled fairly, tests terminate (Run kills them after a
\* timeout) and the runner receives from DoneChan.  Nothing is assumed of the
\* calls of Run.
SMFairness ==
  /\ \A j \in Job : WF_allVars(~Panicked /\ TestStep(j))
  /\ \A s \in Client : WF_allVars(~Panicked /\ sub[s] # "new" /\ RunStep(s))

SMFairSpec == SMSpec /\ SMFairness
-----------------------------------------------------------------------------
\* The submission manager uses the test manager as TestManager assumes: one
\* submission at a time comes to queueCond, though any number of them runs.
UsesTestManager == DynamicSpec

\* The statistics count the submissions in Run; no decrement wraps around.
SMCountsExact ==
  /\ smStats.Queued = Cardinality({s \in Client : sub[s] \in {"queued", "ondeck", "admitted"}})
  /\ smStats.Running = Cardinality({s \in Client : sub[s] \in {"counted", "running"}})
  /\ smStats.Finished = Cardinality({s \in Client : sub[s] = "finished"})

\* Every submission that is queued is run to its end: it gets the runlock, and
\* is not left on queueCond by the tests of the submissions before it.
QueuedIsRun ==
  \A s \in Client : (sub[s] = "queued") ~> (sub[s] = "finished" \/ Panicked)
=============================================================================
