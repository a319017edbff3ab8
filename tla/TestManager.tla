---------------------------- MODULE TestManager ----------------------------
(***************************************************************************)
(* The test manager of test161 (manager.go, type manager): it limits how   *)
(* many tests run at once, and tells the submission manager, through       *)
(* queueCond, when its own queue gets shorter.                             *)
(*                                                                         *)
(* Every job (test161Job) has a goroutine, runOrQueueJob.  The code holds  *)
(* statsCond.L from one blocking point to the next, so one critical        *)
(* section is one action.  A goroutine in sync.Cond.Wait is "asleep" until *)
(* a Signal makes it "woken"; it then competes for the lock with the jobs  *)
(* that have just arrived, and tests its condition again.                  *)
(*                                                                         *)
(* queueCond is waited on by one client only, the submission that is on    *)
(* deck (SubmissionManager.Run).  Its lock is a separate one, so the       *)
(* client's test of Queued and its Wait are separate actions.              *)
(***************************************************************************)
EXTENDS Naturals, FiniteSets

CONSTANTS
  Job,          \* the jobs sent to SubmitChan, each sent once
  Client,       \* the goroutines that may wait on queueCond
  Capacities,   \* the capacities that SetManagerCapacity may be given; 0: no limit
  UintMax       \* the largest value of the statistics' type, uint

ASSUME JobAssumption == IsFiniteSet(Job)
ASSUME CapacityAssumption == Capacities \subseteq Nat
ASSUME UintAssumption == UintMax \in Nat /\ Cardinality(Job) <= UintMax

VARIABLES
  chan,         \* SubmitChan: nil before start, open, closed by stop
  capacity,     \* manager.Capacity
  stats,        \* manager.stats, without the times
  job,          \* where the goroutine of each job is
  client        \* where each client of queueCond is

vars == <<chan, capacity, stats, job, client>>

JobState == {"new", "arrived", "asleep", "woken", "running", "done",
             "delivered", "panicked"}
ClientState == {"idle", "checking", "deciding", "asleep", "woken"}
StatsField == {"Running", "HighRunning", "Queued", "HighQueued", "Finished"}

TypeOK ==
  /\ chan \in {"nil", "open", "closed"}
  /\ capacity \in Capacities \cup {0}
  /\ stats \in [StatsField -> 0..UintMax]
  /\ job \in [Job -> JobState]
  /\ client \in [Client -> ClientState]

InState(S) == {j \in Job : job[j] \in S}

\* A send on a closed channel panics, and an unrecovered panic ends the process.
Panicked == \E j \in Job : job[j] = "panicked"

\* uint arithmetic wraps around.
Inc(n) == IF n = UintMax THEN 0 ELSE n + 1
Dec(n) == IF n = 0 THEN UintMax ELSE n - 1
Higher(m, n) == IF m > n THEN m ELSE n

Init ==
  /\ chan = "nil"
  /\ capacity = 0
  /\ stats = [f \in StatsField |-> 0]
  /\ job = [j \in Job |-> "new"]
  /\ client = [c \in Client |-> "idle"]
-----------------------------------------------------------------------------
(* Starting, stopping and configuring the manager. *)

\* start: a program starts its manager once.
Start ==
  /\ chan = "nil"
  /\ chan' = "open"
  /\ stats' = [f \in StatsField |-> 0]
  /\ UNCHANGED <<capacity, job, client>>

Stop ==
  /\ chan = "open"
  /\ chan' = "closed"
  /\ UNCHANGED <<capacity, stats, job, client>>

\* The new capacity is stored without a lock and nobody is told.
SetManagerCapacity(n) ==
  /\ capacity' = n
  /\ UNCHANGED <<chan, stats, job, client>>
-----------------------------------------------------------------------------
(* The goroutines of the jobs. *)

\* A runner sends the job; the listener receives it and spawns its goroutine.
Submit(j) ==
  /\ job[j] = "new"
  /\ \/ chan = "open" /\ job' = [job EXCEPT ![j] = "arrived"]
     \/ chan = "closed" /\ job' = [job EXCEPT ![j] = "panicked"]
  /\ UNCHANGED <<chan, capacity, stats, client>>

AtCapacity_OffByOne == capacity > 0 /\ stats.Running > capacity
AtCapacity == capacity > 0 /\ stats.Running >= capacity

CountRunning(s) ==
  [s EXCEPT !.Running = Inc(@), !.HighRunning = Higher(@, Inc(s.Running))]

CountQueued(s) ==
  [s EXCEPT !.Queued = Inc(@), !.HighQueued = Higher(@, Inc(s.Queued))]

\* The loop's condition is false the first time: the test runs at once.
RunNow(j) ==
  /\ job[j] = "arrived"
  /\ ~AtCapacity
  /\ stats' = CountRunning(stats)
  /\ job' = [job EXCEPT ![j] = "running"]
  /\ UNCHANGED <<chan, capacity, client>>

Enqueue(j) ==
  /\ job[j] = "arrived"
  /\ AtCapacity
  /\ stats' = CountQueued(stats)
  /\ job' = [job EXCEPT ![j] = "asleep"]
  /\ UNCHANGED <<chan, capacity, client>>

\* A woken job finds that another one took the slot, and waits again.
WaitAgain(j) ==
  /\ job[j] = "woken"
  /\ AtCapacity
  /\ job' = [job EXCEPT ![j] = "asleep"]
  /\ UNCHANGED <<chan, capacity, stats, client>>

\* sync.Cond.Signal wakes one waiter, if there is one.
Signalled(state, who) ==
  IF \E x \in who : state[x] = "asleep"
  THEN {[state EXCEPT ![x] = "woken"] : x \in {y \in who : state[y] = "asleep"}}
  ELSE {state}

\* queueCond.L is held by a client from its lock to its Wait or Unlock.
QueueLockFree_Ignored == TRUE
QueueLockFree == \A c \in Client : client[c] \notin {"checking", "deciding"}

RunQueued_StillCounted(j) ==
  /\ job[j] = "woken"
  /\ ~AtCapacity
  /\ QueueLockFree
  /\ stats' = CountRunning(stats)
  /\ client' \in Signalled(client, Client)
  /\ job' = [job EXCEPT ![j] = "running"]
  /\ UNCHANGED <<chan, capacity>>

\* A woken job gets its slot: it leaves the queue and signals queueCond.
RunQueued(j) ==
  /\ job[j] = "woken"
  /\ ~AtCapacity
  /\ QueueLockFree
  /\ stats' = CountRunning([stats EXCEPT !.Queued = Dec(@)])
  /\ client' \in Signalled(client, Client)
  /\ job' = [job EXCEPT ![j] = "running"]
  /\ UNCHANGED <<chan, capacity>>

Finish_SignalIfFull(j) ==
  /\ job[j] = "running"
  /\ stats' = [stats EXCEPT !.Running = Dec(@), !.Finished = Inc(@)]
  /\ LET ended == [job EXCEPT ![j] = "done"] IN
     IF AtCapacity THEN job' \in Signalled(ended, Job) ELSE job' = ended
  /\ UNCHANGED <<chan, capacity, client>>

Finish_NoSignal(j) ==
  /\ job[j] = "running"
  /\ stats' = [stats EXCEPT !.Running = Dec(@), !.Finished = Inc(@)]
  /\ job' = [job EXCEPT ![j] = "done"]
  /\ UNCHANGED <<chan, capacity, client>>

\* Test.Run has returned: give the slot back and wake one queued job.
Finish(j) ==
  /\ job[j] = "running"
  /\ stats' = [stats EXCEPT !.Running = Dec(@), !.Finished = Inc(@)]
  /\ job' \in Signalled([job EXCEPT ![j] = "done"], Job)
  /\ UNCHANGED <<chan, capacity, client>>

\* The blocking send of the result on the job's DoneChan.
Deliver(j) ==
  /\ job[j] = "done"
  /\ job' = [job EXCEPT ![j] = "delivered"]
  /\ UNCHANGED <<chan, capacity, stats, client>>

JobStep(j) ==
  \/ RunNow(j) \/ Enqueue(j) \/ WaitAgain(j) \/ RunQueued(j)
  \/ Finish(j) \/ Deliver(j)
-----------------------------------------------------------------------------
(* The client of queueCond, manager.go:328-332. *)

QueueLock(c) ==
  /\ client[c] \in {"idle", "woken"}
  /\ QueueLockFree
  /\ client' = [client EXCEPT ![c] = "checking"]
  /\ UNCHANGED <<chan, capacity, stats, job>>

QueueProceed(c) ==
  /\ client[c] = "checking"
  /\ stats.Queued = 0
  /\ client' = [client EXCEPT ![c] = "idle"]
  /\ UNCHANGED <<chan, capacity, stats, job>>

QueueNotEmpty(c) ==
  /\ client[c] = "checking"
  /\ stats.Queued > 0
  /\ client' = [client EXCEPT ![c] = "deciding"]
  /\ UNCHANGED <<chan, capacity, stats, job>>

QueueWait(c) ==
  /\ client[c] = "deciding"
  /\ client' = [client EXCEPT ![c] = "asleep"]
  /\ UNCHANGED <<chan, capacity, stats, job>>

\* The assumption on the clients: the runlock of the submission manager lets
\* one of them at a time come to queueCond.
OnDeck(c) == \A d \in Client \ {c} : client[d] = "idle"

ClientStep(c) ==
  \/ OnDeck(c) /\ QueueLock(c)
  \/ QueueProceed(c)
  \/ QueueNotEmpty(c)
  \/ QueueWait(c)
-----------------------------------------------------------------------------
Work ==
  \/ Start
  \/ Stop
  \/ \E j \in Job : Submit(j) \/ JobStep(j)
  \/ \E c \in Client : ClientStep(c)

\* The command line sets the capacity before it starts the manager ...
Next ==
  /\ ~Panicked
  /\ \/ Work
     \/ \E n \in Capacities : chan = "nil" /\ SetManagerCapacity(n)

\* ... and the server also while tests run (test161-server/control.go:57).
NextDynamic ==
  /\ ~Panicked
  /\ \/ Work
     \/ \E n \in Capacities : SetManagerCapacity(n)

Spec == Init /\ [][Next]_vars
DynamicSpec == Init /\ [][NextDynamic]_vars
-----------------------------------------------------------------------------
(* Properties. *)

\* The statistics count the goroutines, so that no decrement of a uint in
\* runOrQueueJob ever wraps around.
CountsExact ==
  /\ stats.Running = Cardinality(InState({"running"}))
  /\ stats.Queued = Cardinality(InState({"asleep", "woken"}))
  /\ stats.Finished = Cardinality(InState({"done", "delivered"}))

\* "Limiting that number to a configurable capacity" (manager.go:10): at no
\* time did more tests run than the capacity allows, as runners_test.go:94
\* asserts of one schedule.
CapacityRespected == capacity > 0 => stats.HighRunning <= capacity

\* No slot is lost: as long as a job sleeps in runOrQueueJob, every slot has a
\* running test or a woken job that is about to take it.
NoIdleSlot ==
  InState({"asleep"}) # {} =>
    /\ capacity > 0
    /\ stats.Running + Cardinality(InState({"woken"})) >= capacity

\* Whatever is done to the capacity, a sleeping job always has somebody who
\* will signal it: a running test, or a woken job that will become one.
NoStrandedJob ==
  InState({"asleep"}) # {} => InState({"running", "woken"}) # {}

\* The submission on deck never sleeps on queueCond with an empty queue: no
\* decrement of Queued slips between its test and its Wait.
OnDeckNotStranded ==
  \A c \in Client : client[c] = "asleep" => stats.Queued > 0

\* Every job the manager accepts is run and reported to its runner.
EveryJobReported ==
  \A j \in Job : (job[j] = "arrived") ~> (job[j] = "delivered" \/ Panicked)
=============================================================================
