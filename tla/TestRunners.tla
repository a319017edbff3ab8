----------------------------- MODULE TestRunners -----------------------------
(***************************************************************************)
(* TestRunnerFromConfig (runners.go) and runTestGroup (test161/runcmd.go): *)
(* a group is made from its configuration, and run by the runner with      *)
(* dependencies or by the simple one.                                      *)
(***************************************************************************)
EXTENDS DependencyRunner, DependencyGraph

VARIABLES
  unsent, sExec, sResult, collector, count, sCallback   \* of the simple runner

simpleVars == <<unsent, sExec, sResult, collector, count, sCallback>>
allVars == <<graphVars, vars, simpleVars>>

Simple == INSTANCE SimpleRunner WITH
  exec <- sExec, result <- sResult, callback <- sCallback

\* The runner that is not made does nothing.
RunnersInit ==
  /\ GraphInit
  /\ Init
  /\ Simple!Init

\* The group is made without an error.  Of the groups that may be made one is
\* run, that of Test and Deps.
Made ==
  /\ pc = "done"
  /\ group = Test
  /\ withDeps => \A t \in Test : expanded[t] = Deps[t]

Make(A) == A /\ UNCHANGED <<vars, simpleVars>>
With(A) == Made /\ withDeps /\ A /\ UNCHANGED <<graphVars, simpleVars>>
Without(A) == Made /\ ~withDeps /\ A /\ UNCHANGED <<graphVars, vars>>

RunnersNext ==
  \/ Make(GraphNext)
  \/ With(Next)
  \/ Without(Simple!Next)

\* Every goroutine of GroupFromConfig and of the runner is scheduled, and the
\* manager runs and reports every job (TestManager!EveryJobReported).
RunnersSpec ==
  /\ RunnersInit /\ [][RunnersNext]_allVars
  /\ WF_allVars(Make(GraphNext))
  /\ \A t \in Test :
       /\ WF_allVars(With(ReceiveDep(t) \/ DepsMet(t)))
       /\ WF_allVars(With(TestEnds(t)))
       /\ WF_allVars(Without(Simple!Send(t)))
       /\ WF_allVars(Without(Simple!TestEnds(t)))
       /\ WF_allVars(Without(Simple!Collect(t)))
  /\ WF_allVars(With(Director))
  /\ WF_allVars(Without(Simple!StartCollector))
  /\ WF_allVars(Without(Simple!CloseCallback))
-----------------------------------------------------------------------------
\* The simple runner keeps the promise of a test runner too.
SimpleKeepsSchedule == Simple!KeepsSchedule

\* Whichever runner it is, every test of the group is reported in the end and the channel of
\* the results closed: also when tests end before anybody collects results, and
\* when a test is skipped while its dependencies are still reported.
EveryTestReported ==
  Made ~> IF withDeps THEN AllReported ELSE Simple!AllReported
=============================================================================
