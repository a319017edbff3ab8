---------------------------- MODULE TestSchedule ----------------------------
(***************************************************************************)
(* What a test runner (runners.go) promises its client about a group of    *)
(* tests: a test runs only after all its dependencies have been found      *)
(* correct, it is skipped only because one of them was not, every test is  *)
(* reported to the client once and when its result is final, and the       *)
(* channel of the results is closed after the last report.                 *)
(***************************************************************************)
EXTENDS FiniteSets

CONSTANTS
  Test,         \* the tests of the group
  Deps          \* the dependencies of each test

VARIABLES
  verdict,      \* what became of each test
  reported,     \* the tests whose results the client was sent
  closed        \* is the channel of the results closed?

schedVars == <<verdict, reported, closed>>

Verdict == {"waiting", "started", "correct", "failed", "skipped"}

Init ==
  /\ verdict = [t \in Test |-> "waiting"]
  /\ reported = {}
  /\ closed = FALSE

Start(t) ==
  /\ verdict[t] = "waiting"
  /\ \A d \in Deps[t] : verdict[d] = "correct"
  /\ verdict' = [verdict EXCEPT ![t] = "started"]
  /\ UNCHANGED <<reported, closed>>

End(t) ==
  /\ verdict[t] = "started"
  /\ \E v \in {"correct", "failed"} : verdict' = [verdict EXCEPT ![t] = v]
  /\ UNCHANGED <<reported, closed>>

Skip(t) ==
  /\ verdict[t] = "waiting"
  /\ \E d \in Deps[t] : verdict[d] \in {"failed", "skipped"}
  /\ verdict' = [verdict EXCEPT ![t] = "skipped"]
  /\ UNCHANGED <<reported, closed>>

Report(t) ==
  /\ verdict[t] \in {"correct", "failed", "skipped"}
  /\ t \notin reported
  /\ reported' = reported \cup {t}
  /\ UNCHANGED <<verdict, closed>>

Close ==
  /\ ~closed
  /\ reported = Test
  /\ closed' = TRUE
  /\ UNCHANGED <<verdict, reported>>

Next ==
  \/ \E t \in Test : Start(t) \/ End(t) \/ Skip(t) \/ Report(t)
  \/ Close

Spec == Init /\ [][Next]_schedVars
=============================================================================
