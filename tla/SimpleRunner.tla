---------------------------- MODULE SimpleRunner ----------------------------
(***************************************************************************)
(* SimpleRunner.Run (runners.go): the caller's goroutine sends every test  *)
(* to the test manager, and only then starts the goroutine that collects   *)
(* the results.  A test that ends earlier blocks in the send of its result.*)
(***************************************************************************)
EXTENDS Naturals, Sequences, FiniteSets

CONSTANT Test       \* the tests of the group, a finite set

VARIABLES
  unsent,       \* the tests the loop has not sent yet
  exec,         \* where the job of each test is
  result,       \* Test.Result
  collector,    \* the collecting goroutine: none, running, done
  count,        \* how many results it has received
  callback      \* the client's channel, callbackChan

vars == <<unsent, exec, result, collector, count, callback>>

TypeOK ==
  /\ unsent \subseteq Test
  /\ exec \in [Test -> {"none", "running", "done", "received"}]
  /\ result \in [Test -> {"none", "correct", "failed"}]
  /\ collector \in {"none", "running", "done"}
  /\ count \in 0..Cardinality(Test)
  /\ callback \in Seq(Test)

Elements(s) == {s[i] : i \in 1..Len(s)}

Init ==
  /\ unsent = Test
  /\ exec = [t \in Test |-> "none"]
  /\ result = [t \in Test |-> "none"]
  /\ collector = "none"
  /\ count = 0
  /\ callback = <<>>

Send(t) ==
  /\ t \in unsent
  /\ unsent' = unsent \ {t}
  /\ exec' = [exec EXCEPT ![t] = "running"]
  /\ UNCHANGED <<result, collector, count, callback>>

StartCollector ==
  /\ unsent = {}
  /\ collector = "none"
  /\ collector' = "running"
  /\ UNCHANGED <<unsent, exec, result, count, callback>>

TestEnds(t) ==
  /\ exec[t] = "running"
  /\ exec' = [exec EXCEPT ![t] = "done"]
  /\ \E r \in {"correct", "failed"} : result' = [result EXCEPT ![t] = r]
  /\ UNCHANGED <<unsent, collector, count, callback>>

\* callbackChan is made with room for every result.
BufSize == Cardinality(Test)

Collect(t) ==
  /\ collector = "running"
  /\ count < Cardinality(Test)
  /\ exec[t] = "done"
  /\ exec' = [exec EXCEPT ![t] = "received"]
  /\ callback' = IF Len(callback) < BufSize THEN Append(callback, t) ELSE callback
  /\ count' = count + 1
  /\ UNCHANGED <<unsent, result, collector>>

CloseCallback_Early ==
  /\ collector = "running"
  /\ \A t \in Test : exec[t] \in {"done", "received"}
  /\ collector' = "done"
  /\ UNCHANGED <<unsent, exec, result, count, callback>>

CloseCallback ==
  /\ collector = "running"
  /\ count = Cardinality(Test)
  /\ collector' = "done"
  /\ UNCHANGED <<unsent, exec, result, count, callback>>

Next ==
  \/ \E t \in Test : Send(t) \/ TestEnds(t) \/ Collect(t)
  \/ StartCollector
  \/ CloseCallback

Spec == Init /\ [][Next]_vars
-----------------------------------------------------------------------------
\* What the client sees of a test, in the terms of TestSchedule.
VerdictOf(t) ==
  CASE exec[t] = "none"    -> "waiting"
    [] exec[t] = "running" -> "started"
    [] OTHER               -> result[t]

Schedule == INSTANCE TestSchedule WITH
  Deps <- [t \in Test |-> {}],
  verdict <- [t \in Test |-> VerdictOf(t)],
  reported <- Elements(callback),
  closed <- collector = "done"

\* The runner keeps the promise of a test runner, for tests without
\* dependencies.
KeepsSchedule == Schedule!Spec

\* Every result has reached the client, and its channel is closed.
AllReported == collector = "done" /\ Elements(callback) = Test
=============================================================================
