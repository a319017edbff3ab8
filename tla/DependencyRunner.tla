-------------------------- MODULE DependencyRunner --------------------------
(***************************************************************************)
(* DependencyRunner.Run (runners.go): every test has a goroutine that      *)
(* waits for its dependencies (waitForDeps) and a buffered channel of its  *)
(* own; a goroutine directs the traffic between them, the test manager and *)
(* the client.  The test manager is an environment that runs a job it has  *)
(* received and offers its result (TestManager shows that it does).        *)
(***************************************************************************)
EXTENDS Naturals, Sequences, FiniteSets

CONSTANTS
  Test,         \* the tests of the group
  Deps,         \* Test.ExpandedDeps, all of them tests of the group
  NoTest        \* the director is in its select

ASSUME TestAssumption == IsFiniteSet(Test) /\ NoTest \notin Test
ASSUME DepsAssumption == Deps \in [Test -> SUBSET Test]

VARIABLES
  holder,       \* where the goroutine waitForDeps of each test is
  deps,         \* its copy of the dependencies not yet met
  inbox,        \* its channel, waiting[id]
  waiting,      \* the keys of the map waiting
  submitting,   \* the test the director is sending to SubmitChan
  exec,         \* where the job of each test is
  result,       \* Test.Result
  results,      \* how many results the director has counted
  callback,     \* the client's channel, callbackChan
  closed        \* is callbackChan closed?

holding == <<holder, deps>>
vars == <<holder, deps, inbox, waiting, submitting, exec, result, results,
          callback, closed>>

TypeOK ==
  /\ holder \in [Test -> {"waiting", "ready", "aborting", "gone"}]
  /\ deps \in [Test -> SUBSET Test]
  /\ inbox \in [Test -> Seq(Test)]
  /\ waiting \in SUBSET Test
  /\ submitting \in Test \cup {NoTest}
  /\ exec \in [Test -> {"none", "running", "done", "received"}]
  /\ result \in [Test -> {"none", "correct", "failed", "skip"}]
  /\ results \in Nat
  /\ callback \in Seq(Test)
  /\ closed \in BOOLEAN

Elements(s) == {s[i] : i \in 1..Len(s)}

Init ==
  /\ holder = [t \in Test |-> "waiting"]
  /\ deps = Deps
  /\ inbox = [t \in Test |-> <<>>]
  /\ waiting = Test
  /\ submitting = NoTest
  /\ exec = [t \in Test |-> "none"]
  /\ result = [t \in Test |-> "none"]
  /\ results = 0
  /\ callback = <<>>
  /\ closed = FALSE
-----------------------------------------------------------------------------
(* waitForDeps. *)

Received_SkipIsNoFailure(t, d) ==
  IF d \notin deps[t] THEN UNCHANGED <<holder, deps, result>>
  ELSE IF result[d] \in {"correct", "skip"}
       THEN /\ deps' = [deps EXCEPT ![t] = @ \ {d}]
            /\ UNCHANGED <<holder, result>>
       ELSE /\ result' = [result EXCEPT ![t] = "skip"]
            /\ holder' = [holder EXCEPT ![t] = "aborting"]
            /\ UNCHANGED deps

\* What waitForDeps does with the result of test d.
Received(t, d) ==
  IF d \notin deps[t] THEN UNCHANGED <<holder, deps, result>>
  ELSE IF result[d] = "correct"
       THEN /\ deps' = [deps EXCEPT ![t] = @ \ {d}]
            /\ UNCHANGED <<holder, result>>
       ELSE /\ result' = [result EXCEPT ![t] = "skip"]
            /\ holder' = [holder EXCEPT ![t] = "aborting"]
            /\ UNCHANGED deps

ReceiveDep(t) ==
  /\ holder[t] = "waiting"
  /\ deps[t] # {}
  /\ inbox[t] # <<>>
  /\ inbox' = [inbox EXCEPT ![t] = Tail(@)]
  /\ Received(t, Head(inbox[t]))
  /\ UNCHANGED <<waiting, submitting, exec, results, callback, closed>>

DepsMet(t) ==
  /\ holder[t] = "waiting"
  /\ deps[t] = {}
  /\ holder' = [holder EXCEPT ![t] = "ready"]
  /\ UNCHANGED <<deps, inbox, waiting, submitting, exec, result, results,
                 callback, closed>>
-----------------------------------------------------------------------------
(* The goroutine that directs the traffic. *)

\* A channel made with room for every test, and a send that does not block.
BufSize == Cardinality(Test)
Offer(ch, t) == IF Len(ch) < BufSize THEN Append(ch, t) ELSE ch

Broadcast(t, to) ==
  inbox' = [u \in Test |-> IF u \in to THEN Offer(inbox[u], t) ELSE inbox[u]]

InSelect ==
  /\ submitting = NoTest
  /\ results < Cardinality(Test)

RecvResult_CorrectOnly(t) ==
  /\ InSelect
  /\ exec[t] = "done"
  /\ exec' = [exec EXCEPT ![t] = "received"]
  /\ Broadcast(t, waiting)
  /\ callback' = Offer(callback, t)
  /\ results' = IF result[t] = "correct" THEN results + 1 ELSE results
  /\ UNCHANGED <<holder, deps, waiting, submitting, result, closed>>

RecvResult(t) ==
  /\ InSelect
  /\ exec[t] = "done"
  /\ exec' = [exec EXCEPT ![t] = "received"]
  /\ Broadcast(t, waiting)
  /\ callback' = Offer(callback, t)
  /\ results' = results + 1
  /\ UNCHANGED <<holder, deps, waiting, submitting, result, closed>>

RecvAbort(t) ==
  /\ InSelect
  /\ holder[t] = "aborting"
  /\ holder' = [holder EXCEPT ![t] = "gone"]
  /\ waiting' = waiting \ {t}
  /\ Broadcast(t, waiting')
  /\ callback' = Offer(callback, t)
  /\ results' = results + 1
  /\ UNCHANGED <<deps, submitting, exec, result, closed>>

RecvReady(t) ==
  /\ InSelect
  /\ holder[t] = "ready"
  /\ holder' = [holder EXCEPT ![t] = "gone"]
  /\ waiting' = waiting \ {t}
  /\ submitting' = t
  /\ UNCHANGED <<deps, inbox, exec, result, results, callback, closed>>

\* The listener of the test manager receives the job.
SendJob ==
  /\ submitting # NoTest
  /\ exec' = [exec EXCEPT ![submitting] = "running"]
  /\ submitting' = NoTest
  /\ UNCHANGED <<holder, deps, inbox, waiting, result, results, callback, closed>>

CloseCallback ==
  /\ submitting = NoTest
  /\ results >= Cardinality(Test)
  /\ ~closed
  /\ closed' = TRUE
  /\ UNCHANGED <<holder, deps, inbox, waiting, submitting, exec, result, results,
                 callback>>
-----------------------------------------------------------------------------
\* The manager ran the test: incorrect and aborted tests are all "failed".
TestEnds(t) ==
  /\ exec[t] = "running"
  /\ exec' = [exec EXCEPT ![t] = "done"]
  /\ \E r \in {"correct", "failed"} : result' = [result EXCEPT ![t] = r]
  /\ UNCHANGED <<holder, deps, inbox, waiting, submitting, results, callback, closed>>

Director ==
  \/ \E t \in Test : RecvResult(t) \/ RecvAbort(t) \/ RecvReady(t)
  \/ SendJob
  \/ CloseCallback

Next ==
  \/ \E t \in Test : ReceiveDep(t) \/ DepsMet(t) \/ TestEnds(t)
  \/ Director

Spec == Init /\ [][Next]_vars
-----------------------------------------------------------------------------
\* What the client sees of a test, in the terms of TestSchedule.
VerdictOf(t) ==
  CASE result[t] = "skip"                     -> "skipped"
    [] result[t] \in {"correct", "failed"}    -> result[t]
    [] result[t] = "none" /\ exec[t] = "none" -> "waiting"
    [] OTHER                                  -> "started"

Schedule == INSTANCE TestSchedule WITH
  verdict <- [t \in Test |-> VerdictOf(t)],
  reported <- Elements(callback)

\* The runner keeps the promise of a test runner.
KeepsSchedule == Schedule!Spec

\* Every test has been reported exactly once, and the channel is closed.
AllReported == closed /\ Elements(callback) = Test /\ Len(callback) = Cardinality(Test)
=============================================================================
