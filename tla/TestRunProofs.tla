--------------------------- MODULE TestRunProofs ---------------------------
(***************************************************************************)
(* Proofs about TestRun, for every list of commands that the configuration *)
(* allows and every penalty for a leak.                                    *)
(*                                                                         *)
(* getStats touches little that Run decides with (GetStatsFrame): it may   *)
(* wake Run, and set the timedOut flag of a command.  So what the result   *)
(* and the points mean is an argument about Run's loop (Loop): the         *)
(* commands before the current one have been judged, those after it have   *)
(* not been typed.                                                         *)
(***************************************************************************)
EXTENDS TestRun, SumLemmas

CommandStatus == {"none", "running", "correct", "incorrect"}
CommandState == [status : CommandStatus, timedOut : BOOLEAN, earned : Nat]
Index == 1..Len(prog)

TestTypeOK ==
  /\ prog \in Programs
  /\ scoring \in {"entire", "partial"}
  /\ pc \in {"setup", "expect", "disable", "decide", "finish", "top", "enable",
             "waiting", "woken", "evaluate", "stop", "close", "done"}
  /\ counter \in Index
  /\ cmd \in [Index -> CommandState]
  /\ seen \in [match : {"none", "prompt", "eof", "timeout"}, active : BOOLEAN,
               err : {"none", "other", "monitor"}]
  /\ eof \in BOOLEAN /\ failed \in BOOLEAN /\ allCorrect \in BOOLEAN
  /\ earned \in Nat
  /\ result \in {"none", "running", "correct", "incorrect", "abort"}
  /\ statActive \in BOOLEAN
  /\ statErr \in {"none", "other", "monitor"}

\* What is assumed of the commands, and of the current one.
LEMMA ProgramProps ==
  ASSUME TestTypeOK
  PROVE  /\ Len(prog) \in Nat /\ Len(prog) > 1
         /\ \A i \in Index : prog[i] \in CommandSpec
         /\ \A i \in Index : prog[i].quit <=> i = Len(prog)
         /\ counter \in Nat /\ counter <= Len(prog)
  BY ProgramsAssumption DEF TestTypeOK, Index

PointsOf == [i \in Index |-> prog[i].points]

\* The points of a test are a natural number, and so are those of some commands.
LEMMA PointsAreNat ==
  ASSUME TestTypeOK
  PROVE  /\ IsFiniteSet(Index) /\ PointsAvailable \in Nat
         /\ \A i \in Index : PointsOf[i] \in Nat
<1>1. Len(prog) \in Nat /\ \A i \in Index : PointsOf[i] \in Nat
  BY ProgramProps DEF CommandSpec, PointsOf
<1>2. IsFiniteSet(Index)
  BY <1>1, FS_Interval DEF Index
<1>3. PointsAvailable = SumFunctionOnSet(PointsOf, Index)
  BY DEF PointsAvailable, SumFunction, PointsOf, Index
<1> QED BY <1>1, <1>2, <1>3, SumIsNat

\* SetCommand judges the current command and no other.
LEMMA CommandSet ==
  ASSUME TestTypeOK, NEW s \in CommandStatus, NEW p \in Nat, SetCommand(s, p)
  PROVE  /\ cmd' \in [Index -> CommandState]
         /\ \A i \in Index : /\ cmd'[i].status = IF i = counter THEN s ELSE cmd[i].status
                             /\ cmd'[i].earned = IF i = counter THEN p ELSE cmd[i].earned
<1>1. counter \in Index /\ cmd \in [Index -> CommandState]
  BY DEF TestTypeOK
<1>2. cmd' = [cmd EXCEPT ![counter] = [cmd[counter] EXCEPT !.status = s, !.earned = p]]
  BY <1>1 DEF SetCommand, CommandState
<1>3. /\ [cmd[counter] EXCEPT !.status = s, !.earned = p] \in CommandState
      /\ [cmd[counter] EXCEPT !.status = s, !.earned = p].status = s
      /\ [cmd[counter] EXCEPT !.status = s, !.earned = p].earned = p
  BY <1>1 DEF CommandState
<1> QED BY <1>1, <1>2, <1>3

\* A verdict is a status and the points that go with it.
LEMMA VerdictProps ==
  ASSUME TestTypeOK, NEW atEof \in BOOLEAN, NEW v \in Verdicts(atEof)
  PROVE  /\ v[1] \in {"correct", "incorrect"} /\ v[2] \in Nat
         /\ v[1] = "correct" => v[2] = Command.points
<1>1. Command.points \in Nat
  BY ProgramProps DEF TestTypeOK, Command, CommandSpec
<1> QED BY <1>1 DEF Verdicts

\* What getStats, its start and the end of sys161 do to Run.
LEMMA GetStatsFrame ==
  ASSUME TestTypeOK, GetStats \/ FirstOutput \/ Sys161Exits
  PROVE  /\ UNCHANGED <<prog, scoring, counter, seen, eof, failed, allCorrect, earned, result>>
         /\ pc' = pc \/ (pc = "waiting" /\ pc' = "woken")
         /\ cmd' \in [Index -> CommandState]
         /\ \A i \in Index : cmd'[i].status = cmd[i].status /\ cmd'[i].earned = cmd[i].earned
<1> USE DEF mainButPc, main
<1>1. CASE Overtime
  <2>1. UNCHANGED <<prog, scoring, pc, counter, seen, eof, failed, allCorrect, earned, result>>
    BY <1>1 DEF Overtime
  <2>2. cmd' = cmd \/ cmd' = [cmd EXCEPT ![counter].timedOut = TRUE]
    BY <1>1 DEF Overtime
  <2>3. ASSUME cmd' = [cmd EXCEPT ![counter].timedOut = TRUE]
        PROVE  /\ cmd' \in [Index -> CommandState]
               /\ \A i \in Index : cmd'[i].status = cmd[i].status /\ cmd'[i].earned = cmd[i].earned
    <3>1. counter \in Index /\ cmd \in [Index -> CommandState]
      BY DEF TestTypeOK
    <3>2. /\ [cmd[counter] EXCEPT !.timedOut = TRUE] \in CommandState
          /\ [cmd[counter] EXCEPT !.timedOut = TRUE].status = cmd[counter].status
          /\ [cmd[counter] EXCEPT !.timedOut = TRUE].earned = cmd[counter].earned
      BY <3>1 DEF CommandState
    <3> QED BY <2>3, <3>1, <3>2
  <2> QED BY <2>1, <2>2, <2>3 DEF TestTypeOK
<1>2. CASE SocketEof \/ StatsBroken \/ MonitorError \/ Message
  BY <1>2 DEF SocketEof, StatsBroken, MonitorError, Message, StopStats, Signal, TestTypeOK
<1>3. CASE Connect \/ Measure \/ CheckRecord \/ CheckCounter \/ StopSys161 \/ CloseSys161
  BY <1>3 DEF Connect, Measure, CheckRecord, CheckCounter, StopSys161, CloseSys161, TestTypeOK
<1>4. CASE FirstOutput \/ Sys161Exits
  BY <1>4 DEF FirstOutput, Sys161Exits, TestTypeOK
<1> QED BY <1>1, <1>2, <1>3, <1>4 DEF GetStats
-----------------------------------------------------------------------------
(* Types. *)

LEMMA TestTypeStep ==
  ASSUME TestTypeOK, [Next]_vars
  PROVE  TestTypeOK'
<1> USE DEF main, stat, proc, CommandStatus
<1>0. Len(prog) \in Nat /\ counter \in Nat /\ Index = 1..Len(prog)
  BY ProgramProps DEF Index
<1>1. CASE SetupFails
  BY <1>1 DEF SetupFails, TestTypeOK, Index
<1>2. CASE StartTest
  BY <1>2, CommandSet DEF StartTest, TestTypeOK, Index
<1>3. CASE SendCommand
  <2>1. cmd[counter].earned \in Nat
    BY DEF TestTypeOK, CommandState
  <2>2. PICK s \in CommandStatus, n \in Nat : SetCommand(s, n)
    BY <1>3, <2>1 DEF SendCommand
  <2>3. cmd' \in [Index -> CommandState]
    BY <2>2, CommandSet
  <2>4. allCorrect' \in BOOLEAN
    BY <1>3, Zenon DEF SendCommand, TestTypeOK
  <2>5. /\ pc' \in {"enable", "evaluate"}
        /\ UNCHANGED <<prog, scoring, counter, seen, eof, failed, earned, result, stat>>
    BY <1>3 DEF SendCommand
  <2> QED BY <2>3, <2>4, <2>5 DEF TestTypeOK, Index
<1>4. CASE EnableStats
  <2>1. failed' \in BOOLEAN
    BY <1>4, Zenon DEF EnableStats, TestTypeOK
  <2>2. /\ pc' \in {"waiting", "evaluate", "expect"}
        /\ UNCHANGED <<prog, scoring, counter, cmd, seen, eof, allCorrect, earned, result,
                       statActive, statErr>>
    BY <1>4, Zenon DEF EnableStats
  <2> QED BY <2>1, <2>2 DEF TestTypeOK, Index
<1>5. CASE StatsEnabled \/ Expect \/ DisableStats
  <2>1. seen' \in [match : {"none", "prompt", "eof", "timeout"}, active : BOOLEAN,
                   err : {"none", "other", "monitor"}]
    BY <1>5 DEF StatsEnabled, Expect, DisableStats, TestTypeOK
  <2>2. /\ pc' \in {"expect", "disable", "decide"}
        /\ UNCHANGED <<prog, scoring, counter, cmd, eof, failed, allCorrect, earned, result,
                       statActive, statErr>>
    BY <1>5 DEF StatsEnabled, Expect, DisableStats
  <2> QED BY <2>1, <2>2 DEF TestTypeOK, Index
<1>6. CASE Decide
  <2>1. /\ UNCHANGED <<prog, scoring, counter, seen, earned, result, stat>>
        /\ Fails \/ GivesUp \/ Continues(TRUE) \/ Continues(FALSE)
    BY <1>6, Zenon DEF Decide
  <2>2. CASE Fails
    <3>1. cmd' \in [Index -> CommandState]
      BY <2>2, CommandSet DEF Fails
    <3>2. /\ allCorrect' = FALSE /\ pc' = "evaluate"
          /\ UNCHANGED <<eof, failed>>
      BY <2>2, Zenon DEF Fails
    <3>3. /\ prog' = prog /\ scoring' = scoring /\ counter' = counter /\ seen' = seen
          /\ earned' = earned /\ result' = result /\ statActive' = statActive /\ statErr' = statErr
      BY <2>1
    <3>4. Index' = Index
      BY <3>3 DEF Index
    <3>5. counter' \in Index' /\ cmd' \in [Index' -> CommandState]
      BY <3>1, <3>3, <3>4 DEF TestTypeOK
    <3>6. /\ seen' \in [match : {"none", "prompt", "eof", "timeout"}, active : BOOLEAN,
                        err : {"none", "other", "monitor"}]
          /\ prog' \in Programs /\ scoring' \in {"entire", "partial"} /\ earned' \in Nat
      BY <3>3 DEF TestTypeOK
    <3>7. /\ eof' \in BOOLEAN /\ failed' \in BOOLEAN /\ allCorrect' \in BOOLEAN
          /\ result' \in {"none", "running", "correct", "incorrect", "abort"}
          /\ statActive' \in BOOLEAN /\ statErr' \in {"none", "other", "monitor"}
      BY <3>2, <3>3 DEF TestTypeOK
    <3> QED BY <3>2, <3>5, <3>6, <3>7 DEF TestTypeOK
  <2>3. CASE GivesUp
    <3>1. failed' \in BOOLEAN
      BY <2>3, Zenon DEF GivesUp
    <3> QED BY <2>1, <2>3, <3>1 DEF GivesUp, TestTypeOK, Index
  <2>4. CASE Continues(TRUE) \/ Continues(FALSE)
    <3>1. eof' \in BOOLEAN /\ pc' = "finish" /\ UNCHANGED <<cmd, failed, allCorrect>>
      BY <2>4, Zenon DEF Continues
    <3> QED BY <2>1, <3>1 DEF TestTypeOK, Index
  <2> QED BY <2>1, <2>2, <2>3, <2>4
<1>7. CASE FinishCommand
  <2>1. PICK v \in Verdicts(eof) :
          /\ SetCommand(v[1], v[2])
          /\ allCorrect' = (allCorrect /\ v[1] = "correct")
          /\ pc' \in {"evaluate", "top"}
          /\ earned' = earned + v[2] \/ earned' = earned
    BY <1>7 DEF FinishCommand
  <2>2. v[1] \in CommandStatus /\ v[2] \in Nat
    BY <2>1, VerdictProps DEF TestTypeOK
  <2>3. counter' \in 1..Len(prog)
    BY <1>0, <1>7 DEF FinishCommand, NextCommand, TestTypeOK
  <2>4. earned' \in Nat
    BY <2>1, <2>2 DEF TestTypeOK
  <2>5. cmd' \in [Index -> CommandState]
    BY <2>1, <2>2, CommandSet
  <2> QED BY <1>7, <2>1, <2>3, <2>4, <2>5 DEF FinishCommand, TestTypeOK, Index
<1>8. CASE Quit
  <2>1. PICK v \in Verdicts(FALSE) : SetCommand(v[1], v[2])
    BY <1>8 DEF Quit
  <2>2. v[1] \in CommandStatus /\ v[2] \in Nat
    BY <2>1, VerdictProps
  <2>3. cmd' \in [Index -> CommandState]
    BY <2>1, <2>2, CommandSet
  <2> QED BY <1>8, <2>3 DEF Quit, TestTypeOK, Index
<1>9. CASE Evaluate
  <2>1. earned' \in Nat
    <3>1. PointsAvailable \in Nat
      BY PointsAreNat
    <3> QED BY <1>9, <3>1, LeakAssumption DEF Evaluate, Deducted, TestTypeOK
  <2>2. result' \in {"abort", "correct", "incorrect"}
    BY <1>9 DEF Evaluate
  <2> QED BY <1>9, <2>1, <2>2 DEF Evaluate, TestTypeOK, Index
<1>10. CASE StopTest \/ CloseTest
  <2>1. /\ pc' \in {"close", "done"}
        /\ UNCHANGED <<prog, scoring, counter, cmd, seen, eof, failed, allCorrect, earned, result, stat>>
    BY <1>10 DEF StopTest, CloseTest
  <2> QED BY <2>1 DEF TestTypeOK, Index
<1>11. CASE GetStats \/ FirstOutput \/ Sys161Exits
  <2>1. statActive' \in BOOLEAN /\ statErr' \in {"none", "other", "monitor"}
    BY <1>11 DEF GetStats, FirstOutput, Sys161Exits, Connect, SocketEof, StatsBroken, Message,
                 Measure, Overtime, CheckRecord, CheckCounter, MonitorError, StopSys161,
                 CloseSys161, StopStats, TestTypeOK
  <2> QED BY <1>11, <2>1, GetStatsFrame DEF TestTypeOK, Index
<1>12. CASE UNCHANGED vars
  BY <1>12 DEF vars, TestTypeOK, Index
<1> QED BY <1>1, <1>2, <1>3, <1>4, <1>5, <1>6, <1>7, <1>8, <1>9, <1>10, <1>11, <1>12
        DEF Next, Run

\* The variables of a run of a test have their types.
LEMMA TestTypes == Spec => []TestTypeOK
<1>1. Init => TestTypeOK
  <2> SUFFICES ASSUME Init PROVE TestTypeOK  OBVIOUS
  <2>1. prog \in Seq(CommandSpec) /\ Len(prog) > 1
    BY ProgramsAssumption DEF Init
  <2>2. 1 \in 1..Len(prog)
    BY <2>1
  <2> QED BY <2>2 DEF Init, TestTypeOK, Index, CommandState, CommandStatus
<1>2. TestTypeOK /\ [Next]_vars => TestTypeOK'
  BY TestTypeStep
<1> QED BY <1>1, <1>2, PTL DEF Spec
-----------------------------------------------------------------------------
(* The terminal. *)

\* Run or getStats, but not both, has cleared the mark and is about to close the
\* terminal.
Closing == pc = "close" \/ mon = "killing"

\* The terminal is closed by whoever finds the simulator marked as running.
CloseState ==
  /\ pc = "setup" => ~running /\ closes = 0 /\ sys161 = "down" /\ mon = "none"
  /\ closes \in {0, 1}
  /\ running => closes = 0 /\ ~Closing
  /\ Closing => closes = 0
  /\ ~(pc = "close" /\ mon = "killing")
  /\ sys161 = "up" => running \/ Closing
  /\ pc \in {"close", "done"} => ~running

LEMMA CloseStep ==
  ASSUME TestTypeOK, CloseState, [Next]_vars
  PROVE  CloseState'
<1> USE DEF proc, main
<1>1. CASE SetupFails
  BY <1>1 DEF SetupFails, CloseState, Closing
<1>2. CASE StartTest
  BY <1>2 DEF StartTest, CloseState, Closing
<1>3. CASE SendCommand \/ EnableStats \/ StatsEnabled \/ Expect \/ DisableStats
           \/ Decide \/ FinishCommand \/ Quit \/ Evaluate
  <2>1. UNCHANGED proc /\ mon' = mon /\ pc \notin {"setup", "close", "done"}
    BY <1>3, Zenon DEF SendCommand, EnableStats, StatsEnabled, Expect, DisableStats, Decide,
                       FinishCommand, Quit, Evaluate
  <2>2. pc' \notin {"setup", "close", "done"}
    BY <1>3 DEF SendCommand, EnableStats, StatsEnabled, Expect, DisableStats, Decide,
                Fails, GivesUp, Continues, FinishCommand, Quit, Evaluate
  <2> QED BY <2>1, <2>2 DEF CloseState, Closing
<1>4. CASE StopTest
  BY <1>4 DEF StopTest, Stop161, CloseState, Closing
<1>5. CASE CloseTest
  BY <1>5 DEF CloseTest, CloseTerminal, CloseState, Closing
<1>6. CASE Connect \/ SocketEof \/ StatsBroken \/ Message \/ Measure \/ Overtime
           \/ CheckRecord \/ CheckCounter \/ MonitorError \/ FirstOutput
  <2>1. UNCHANGED proc /\ (pc' = pc \/ (pc = "waiting" /\ pc' = "woken"))
    BY <1>6, Zenon DEF Connect, SocketEof, StatsBroken, Message, Measure, Overtime, CheckRecord,
                       CheckCounter, MonitorError, FirstOutput, StopStats, Signal
  <2>2. mon # "killing" /\ mon' # "killing" /\ pc # "setup"
    BY <1>6 DEF Connect, SocketEof, StatsBroken, Message, Measure, Overtime, CheckRecord,
                CheckCounter, MonitorError, FirstOutput, StopStats, CloseState
  <2> QED BY <2>1, <2>2 DEF CloseState, Closing
<1>7. CASE StopSys161
  BY <1>7 DEF StopSys161, Stop161, CloseState, Closing, TestTypeOK
<1>8. CASE CloseSys161
  BY <1>8 DEF CloseSys161, CloseTerminal, CloseState, Closing
<1>9. CASE Sys161Exits
  BY <1>9 DEF Sys161Exits, CloseState, Closing
<1>10. CASE UNCHANGED vars
  BY <1>10 DEF vars, CloseState, Closing
<1> QED BY <1>1, <1>2, <1>3, <1>4, <1>5, <1>6, <1>7, <1>8, <1>9, <1>10 DEF Next, Run, GetStats

\* Whether Run or getStats comes first to stop161 (run.go), sys161.Close is called
\* at most once; and a test that is over has left its simulator running only if
\* getStats, which has cleared the mark, is between the lock and Close.
THEOREM TerminalIsClosedOnce == Spec => []ClosedOnce
<1>1. Init => CloseState
  BY DEF Init, CloseState, Closing
<1>2. TestTypeOK /\ CloseState /\ [Next]_vars => CloseState'
  BY CloseStep
<1>3. CloseState => ClosedOnce
  BY DEF CloseState, ClosedOnce, Closing
<1> QED BY <1>1, <1>2, <1>3, TestTypes, PTL DEF Spec
-----------------------------------------------------------------------------
(* The monitor. *)

\* What becomes of Run once disableStats has returned the monitor's error, in a
\* test none of whose commands may time out.
MonitorStopped ==
  seen.err = "monitor" /\ (\A i \in Index : prog[i].timesout = "no") =>
    \/ pc = "decide"
    \/ pc = "evaluate" /\ ~allCorrect
    \/ pc \in {"stop", "close", "done"} /\ result \notin {"correct", "running"}

LEMMA MonitorStep ==
  ASSUME TestTypeOK, MonitorStopped, [Next]_vars
  PROVE  MonitorStopped'
<1> DEFINE NoTimeouts == \A i \in Index : prog[i].timesout = "no"
<1> SUFFICES ASSUME seen'.err = "monitor", NoTimeouts'
             PROVE  \/ pc' = "decide"
                    \/ pc' = "evaluate" /\ ~allCorrect'
                    \/ pc' \in {"stop", "close", "done"} /\ result' \notin {"correct", "running"}
  BY DEF MonitorStopped
<1> USE DEF main
<1>0. prog' = prog
  BY Zenon DEF Next, Run, GetStats, vars, SetupFails, StartTest, SendCommand, EnableStats,
     StatsEnabled, Expect, DisableStats, Decide, FinishCommand, Quit, Evaluate, StopTest, CloseTest,
     Connect, SocketEof, StatsBroken, Message, Measure, Overtime, CheckRecord, CheckCounter, MonitorError,
     StopSys161, CloseSys161, FirstOutput, Sys161Exits, StopStats
<1>00. NoTimeouts
  BY <1>0 DEF Index
<1>1. CASE DisableStats
  BY <1>1 DEF DisableStats
<1>2. CASE Decide
  <2>1. seen.err = "monitor" /\ pc = "decide"
    BY <1>2 DEF Decide
  <2>2. Command.timesout = "no"
    BY <1>00 DEF TestTypeOK, Command
  <2>3. Stopped /\ ~ExpectedStop
    BY <2>1, <2>2 DEF Stopped, ExpectedStop
  <2>4. Fails
    BY <1>2, <2>3 DEF Decide
  <2> QED BY <2>4 DEF Fails
<1>3. CASE Evaluate
  <2>1. seen.err = "monitor" /\ pc = "evaluate"
    BY <1>3 DEF Evaluate
  <2>2. ~allCorrect
    BY <1>00, <2>1 DEF MonitorStopped
  <2> QED BY <1>3, <2>2 DEF Evaluate
<1>4. CASE StopTest \/ CloseTest
  BY <1>00, <1>4 DEF StopTest, CloseTest, MonitorStopped
<1>5. CASE GetStats \/ FirstOutput \/ Sys161Exits
  BY <1>00, <1>5, GetStatsFrame DEF MonitorStopped
<1>6. CASE SetupFails \/ StartTest \/ SendCommand \/ EnableStats \/ StatsEnabled \/ Expect
           \/ FinishCommand \/ Quit
  <2>1. seen'.err = seen.err
    BY <1>6, Zenon DEF SetupFails, StartTest, SendCommand, EnableStats, StatsEnabled, FinishCommand,
                Quit, Expect, TestTypeOK
  <2>2. pc \in {"setup", "top", "enable", "woken", "expect", "finish"}
    BY <1>6 DEF SetupFails, StartTest, SendCommand, EnableStats, StatsEnabled, FinishCommand,
                Quit, Expect
  <2> QED BY <1>00, <2>1, <2>2 DEF MonitorStopped
<1>7. CASE UNCHANGED vars
  BY <1>00, <1>7 DEF vars, MonitorStopped
<1> QED BY <1>1, <1>2, <1>3, <1>4, <1>5, <1>6, <1>7 DEF Next, Run

\* A test whose commands may not time out is never correct once disableStats
\* (stats.go) has returned the monitor's error to Run's loop.
THEOREM MonitoredTestFails == Spec => []MonitorErrorFails
<1>1. Init => MonitorStopped
  BY DEF Init, MonitorStopped
<1>2. TestTypeOK /\ MonitorStopped /\ [Next]_vars => MonitorStopped'
  BY MonitorStep
<1>3. MonitorStopped => MonitorErrorFails
  BY DEF MonitorStopped, MonitorErrorFails, Over, Index
<1> QED BY <1>1, <1>2, <1>3, TestTypes, PTL DEF Spec
-----------------------------------------------------------------------------
(* The loop over the commands. *)

Prompting == {"expect", "disable", "decide", "finish", "enable", "waiting", "woken"}
Judging == {"disable", "decide", "finish"}

\* Where the loop has got to.
LoopState ==
  /\ \A i \in Index : i < counter /\ allCorrect => cmd[i].status = "correct"
  /\ \A i \in Index : i > counter => cmd[i].status = "none"
  /\ pc \in {"setup", "top"} => cmd[counter].status = "none"
  /\ pc \in Prompting => cmd[counter].status = "running"
  /\ pc \in Judging => ~Command.quit
  /\ pc = "finish" /\ eof => EndsTest(Command)

\* The loop is left with every command correct behind a command that ends the
\* test, in front of a prompt with the statistics gone, or after the last.
Ended ==
  \/ Command.quit
  \/ counter > 1 /\ EndsTest(prog[counter - 1]) /\ cmd[counter].status = "none"
  \/ cmd[counter].status = "running" /\ seen.match = "prompt" /\ ~seen.active

EndState ==
  /\ pc = "evaluate" /\ allCorrect /\ ~failed => Ended
  /\ result = "correct" => pc \in {"stop", "close", "done"} /\ allCorrect /\ Ended

\* The loop's own steps, and what judges the current command in each.
LEMMA LoopStep ==
  ASSUME TestTypeOK, LoopState, [Next]_vars
  PROVE  LoopState'
<1> USE DEF main, CommandStatus, Prompting, Judging
<1>0. /\ counter \in Index /\ counter \in Nat /\ Len(prog) \in Nat /\ counter <= Len(prog)
      /\ \A i \in Index : i \in Nat /\ i <= Len(prog)
      /\ \A n \in Nat : n < counter + 1 => n = counter \/ n < counter
  BY ProgramProps DEF TestTypeOK, Index
<1>1. CASE SetupFails \/ StatsEnabled \/ EnableStats \/ Expect \/ DisableStats \/ Evaluate
             \/ StopTest \/ CloseTest
  <2>1. UNCHANGED <<prog, counter, cmd, eof, allCorrect>>
    BY <1>1, Zenon DEF SetupFails, StatsEnabled, EnableStats, Expect, DisableStats, Evaluate,
                       StopTest, CloseTest
  <2>2. /\ pc' \in Prompting => pc \in Prompting
        /\ pc' \notin {"setup", "top", "finish"}
        /\ pc' \in Judging => pc \in Judging \/ ~Command.quit
    BY <1>1 DEF SetupFails, StatsEnabled, EnableStats, Expect, DisableStats, Evaluate,
                StopTest, CloseTest
  <2> QED BY <2>1, <2>2 DEF LoopState, Index, Command
<1>2. CASE StartTest
  <2>1. SetCommand("running", 0) /\ pc' = "expect" /\ UNCHANGED <<prog, counter, eof, allCorrect>>
    BY <1>2 DEF StartTest
  <2>2. \A i \in Index : cmd'[i].status = IF i = counter THEN "running" ELSE cmd[i].status
    BY <2>1, CommandSet
  <2> QED BY <1>0, <2>1, <2>2 DEF LoopState, Index
<1>3. CASE SendCommand
  <2>1. pc = "top" /\ UNCHANGED <<prog, counter, eof>>
    BY <1>3 DEF SendCommand
  <2>2. PICK s \in CommandStatus, n \in Nat :
          /\ SetCommand(s, n)
          /\ \/ s = "running" /\ pc' = "enable" /\ allCorrect' = allCorrect
             \/ s = "incorrect" /\ pc' = "evaluate" /\ allCorrect' = FALSE
    BY <1>0, <1>3 DEF SendCommand, TestTypeOK, CommandState
  <2>3. \A i \in Index : cmd'[i].status = IF i = counter THEN s ELSE cmd[i].status
    BY <2>2, CommandSet
  <2> QED BY <1>0, <2>1, <2>2, <2>3 DEF LoopState, Index
<1>4. CASE Decide
  <2>1. /\ UNCHANGED <<prog, counter>> /\ pc = "decide"
        /\ Fails \/ GivesUp \/ Continues(FALSE) \/ (Continues(TRUE) /\ ExpectedStop)
    BY <1>4, Zenon DEF Decide
  <2>2. CASE Fails
    <3>1. \A i \in Index : cmd'[i].status = IF i = counter THEN "incorrect" ELSE cmd[i].status
      BY <2>2, CommandSet DEF Fails
    <3> QED BY <1>0, <2>1, <2>2, <3>1 DEF LoopState, Fails, Index
  <2>3. CASE GivesUp
    BY <2>1, <2>3 DEF GivesUp, LoopState, Index
  <2>4. CASE Continues(FALSE)
    BY <2>1, <2>4 DEF Continues, LoopState, Index, Command
  <2>5. CASE Continues(TRUE) /\ ExpectedStop
    <3>1. EndsTest(Command) /\ Command' = Command
      BY <2>1, <2>5 DEF ExpectedStop, EndsTest, Command
    <3>2. EndsTest(Command)'
      BY <3>1 DEF EndsTest
    <3> QED BY <2>1, <2>5, <3>1, <3>2 DEF Continues, LoopState, Index
  <2> QED BY <2>1, <2>2, <2>3, <2>4, <2>5
<1>5. CASE FinishCommand
  <2>1. PICK v \in Verdicts(eof) :
          /\ SetCommand(v[1], v[2])
          /\ allCorrect' = (allCorrect /\ v[1] = "correct")
          /\ pc' \in {"evaluate", "top"}
    BY <1>5 DEF FinishCommand
  <2>2. v[1] \in CommandStatus /\ v[2] \in Nat
    BY <2>1, VerdictProps DEF TestTypeOK
  <2>3. \A i \in Index : cmd'[i].status = IF i = counter THEN v[1] ELSE cmd[i].status
    BY <2>1, <2>2, CommandSet
  <2>4. counter < Len(prog)
    BY <1>0, <1>5, ProgramProps DEF FinishCommand, LoopState, Command
  <2>5. counter' = counter + 1 /\ prog' = prog
    BY <1>5, <2>4 DEF FinishCommand, NextCommand
  <2>6. counter' \in Index
    BY <1>0, <2>4, <2>5 DEF Index
  <2>7. \A i \in Index : i < counter' /\ allCorrect' => cmd'[i].status = "correct"
    BY <1>0, <2>1, <2>3, <2>5 DEF LoopState
  <2>8. \A i \in Index : i >= counter' => cmd'[i].status = "none"
    BY <1>0, <2>3, <2>5 DEF LoopState
  <2> QED BY <1>0, <2>1, <2>5, <2>6, <2>7, <2>8 DEF LoopState, Index
<1>6. CASE Quit
  <2>1. PICK v \in Verdicts(FALSE) : SetCommand(v[1], v[2])
    BY <1>6 DEF Quit
  <2>2. v[1] \in CommandStatus /\ v[2] \in Nat
    BY <2>1, VerdictProps
  <2>3. \A i \in Index : cmd'[i].status = IF i = counter THEN v[1] ELSE cmd[i].status
    BY <2>1, <2>2, CommandSet
  <2> QED BY <1>0, <1>6, <2>3 DEF Quit, LoopState, Index
<1>7. CASE GetStats \/ FirstOutput \/ Sys161Exits
  BY <1>0, <1>7, GetStatsFrame DEF LoopState, Command, Index
<1>8. CASE UNCHANGED vars
  BY <1>8 DEF vars, LoopState, Command, Index
<1> QED BY <1>1, <1>2, <1>3, <1>4, <1>5, <1>6, <1>7, <1>8 DEF Next, Run

LEMMA EndStep ==
  ASSUME TestTypeOK, LoopState, EndState, [Next]_vars
  PROVE  EndState'
<1> USE DEF main, CommandStatus
<1>0. /\ counter \in Index /\ counter \in Nat /\ Len(prog) \in Nat /\ counter <= Len(prog)
      /\ counter >= 1
  BY ProgramProps DEF TestTypeOK, Index
<1>1. CASE SetupFails \/ StartTest \/ StatsEnabled \/ Expect \/ DisableStats
  <2>1. pc' # "evaluate" /\ result' # "correct"
    <3>1. pc \in {"setup", "woken", "expect", "disable"}
      BY <1>1 DEF SetupFails, StartTest, StatsEnabled, Expect, DisableStats
    <3>2. result # "correct"
      BY <3>1 DEF EndState
    <3> QED BY <1>1, <3>2 DEF SetupFails, StartTest, StatsEnabled, Expect, DisableStats
  <2> QED BY <2>1 DEF EndState
<1>2. CASE SendCommand \/ EnableStats
  <2>1. pc' = "evaluate" => ~allCorrect' \/ failed'
    BY <1>2 DEF SendCommand, EnableStats
  <2>2. result' # "correct"
    BY <1>2 DEF SendCommand, EnableStats, EndState
  <2> QED BY <2>1, <2>2 DEF EndState
<1>3. CASE Decide
  <2>1. result' # "correct"
    BY <1>3 DEF Decide, EndState
  <2>2. CASE Fails \/ Continues(TRUE) \/ Continues(FALSE)
    BY <2>1, <2>2 DEF Fails, Continues, EndState
  <2>3. CASE GivesUp /\ seen.match = "prompt" /\ ~Stopped /\ ~seen.active
    <3>1. cmd[counter].status = "running"
      BY <1>3 DEF Decide, LoopState, Prompting
    <3>2. Ended'
      BY <1>3, <2>3, <3>1 DEF Decide, GivesUp, Ended
    <3> QED BY <2>1, <3>2 DEF EndState
  <2> QED BY <1>3, <2>2, <2>3, Zenon DEF Decide
<1>4. CASE FinishCommand
  <2>1. result' # "correct"
    BY <1>4 DEF FinishCommand, EndState
  <2>2. PICK v \in Verdicts(eof) :
          /\ SetCommand(v[1], v[2])
          /\ allCorrect' = (allCorrect /\ v[1] = "correct")
          /\ pc' = "evaluate" => eof \/ EndsTest(Command) \/ v[1] = "incorrect"
    BY <1>4 DEF FinishCommand
  <2>3. ASSUME pc' = "evaluate", allCorrect'
        PROVE  Ended'
    <3>1. EndsTest(Command)
      BY <1>4, <2>2, <2>3 DEF FinishCommand, LoopState
    <3>2. counter < Len(prog)
      BY <1>0, <1>4, ProgramProps DEF FinishCommand, LoopState, Command, Judging
    <3>3. counter' = counter + 1 /\ prog' = prog
      BY <1>4, <3>2 DEF FinishCommand, NextCommand
    <3>4. counter' \in Index /\ counter' > counter /\ counter' > 1 /\ counter' - 1 = counter
      BY <1>0, <3>2, <3>3 DEF Index
    <3>5. v[1] \in CommandStatus /\ v[2] \in Nat
      BY <2>2, VerdictProps DEF TestTypeOK
    <3>6. cmd'[counter'].status = cmd[counter'].status
      BY <1>0, <2>2, <3>4, <3>5, CommandSet
    <3>7. cmd'[counter'].status = "none"
      BY <3>4, <3>6 DEF LoopState
    <3>8. EndsTest(prog'[counter' - 1])
      BY <3>1, <3>3, <3>4 DEF Command
    <3> QED BY <3>4, <3>7, <3>8 DEF Ended, EndsTest
  <2> QED BY <2>1, <2>3 DEF EndState
<1>5. CASE Quit
  <2>1. result' # "correct"
    BY <1>5 DEF Quit, EndState
  <2>2. Command'.quit
    BY <1>5 DEF Quit, Command
  <2> QED BY <2>1, <2>2 DEF EndState, Ended
<1>6. CASE Evaluate
  <2>1. pc = "evaluate" /\ pc' = "stop" /\ UNCHANGED <<prog, counter, cmd, seen, allCorrect>>
    BY <1>6 DEF Evaluate
  <2>2. result' = "correct" => ~failed /\ allCorrect
    BY <1>6 DEF Evaluate
  <2>3. result' = "correct" => Ended'
    BY <2>1, <2>2 DEF EndState, Ended, Command, EndsTest
  <2> QED BY <2>1, <2>2, <2>3 DEF EndState
<1>7. CASE StopTest \/ CloseTest \/ UNCHANGED vars
  <2>1. /\ UNCHANGED <<prog, counter, cmd, seen, allCorrect, failed, result>>
        /\ pc' = pc \/ (pc \in {"stop", "close"} /\ pc' \in {"close", "done"})
    BY <1>7 DEF StopTest, CloseTest, vars
  <2> QED BY <2>1 DEF EndState, Ended, Command, EndsTest
<1>8. CASE GetStats \/ FirstOutput \/ Sys161Exits
  BY <1>0, <1>8, GetStatsFrame DEF EndState, Ended, Command, EndsTest
<1> QED BY <1>1, <1>2, <1>3, <1>4, <1>5, <1>6, <1>7, <1>8 DEF Next, Run

\* Where the loop may end, and what it has judged by then.
LEMMA LoopAndEnd == Spec => [](LoopState /\ EndState)
<1>1. Init => LoopState /\ EndState
  <2> SUFFICES ASSUME Init PROVE LoopState /\ EndState  OBVIOUS
  <2>1. Len(prog) \in Nat /\ Len(prog) > 1 /\ prog \in Seq(CommandSpec)
    BY ProgramsAssumption DEF Init
  <2>2. 1 \in Index /\ \A i \in Index : i \in Nat /\ i >= 1
    BY <2>1 DEF Index
  <2>3. \A i \in Index : cmd[i].status = "none"
    BY DEF Init, Index
  <2>4. pc = "setup" /\ counter = 1 /\ result = "none"
    BY DEF Init
  <2>5. \A i \in Index : ~(i < counter)
    BY <2>2, <2>4
  <2> QED BY <2>2, <2>3, <2>4, <2>5 DEF LoopState, EndState, Prompting, Judging
<1>2. TestTypeOK /\ LoopState /\ EndState /\ [Next]_vars => LoopState' /\ EndState'
  BY LoopStep, EndStep
<1> QED BY <1>1, <1>2, TestTypes, PTL DEF Spec

\* Run (run.go) calls a test correct when it has judged every command correct, up
\* to one that ends the test or one whose prompt came without statistics.
THEOREM CorrectTestsAreJudged == Spec => []CorrectIsJudged
<1>1. TestTypeOK /\ LoopState /\ EndState => CorrectIsJudged
  <2> SUFFICES ASSUME TestTypeOK, LoopState, EndState, result = "correct",
                      NEW i \in {n \in 1..Len(prog) : ~prog[n].quit}
               PROVE  \/ cmd[i].status = "correct"
                      \/ \E j \in 1..i :
                           \/ cmd[i].status = "none" /\ cmd[j].status = "correct" /\ EndsTest(prog[j])
                           \/ cmd[j].status = "running" /\ j = counter /\ seen.match = "prompt" /\ ~seen.active
    BY DEF CorrectIsJudged
  <2>1. /\ i \in Index /\ i \in Nat /\ i < Len(prog) /\ i >= 1
        /\ counter \in Index /\ counter \in Nat /\ counter <= Len(prog) /\ counter >= 1
        /\ Command.quit => counter = Len(prog)
    BY ProgramProps DEF Index, TestTypeOK, Command
  <2>2. allCorrect /\ Ended
    BY DEF EndState
  <2>3. CASE i < counter
    BY <2>1, <2>2, <2>3 DEF LoopState
  <2>4. CASE ~(i < counter)
    <3>1. counter \in 1..i /\ ~Command.quit
      BY <2>1, <2>4
    <3>2. CASE counter > 1 /\ EndsTest(prog[counter - 1]) /\ cmd[counter].status = "none"
      <4>1. counter - 1 \in 1..i /\ counter - 1 \in Index /\ counter - 1 < counter
        BY <2>1, <3>1, <3>2 DEF Index
      <4>2. cmd[counter - 1].status = "correct"
        BY <2>2, <4>1 DEF LoopState
      <4>3. cmd[i].status = "none"
        BY <2>1, <2>4, <3>2 DEF LoopState
      <4> QED BY <3>2, <4>1, <4>2, <4>3
    <3>3. CASE cmd[counter].status = "running" /\ seen.match = "prompt" /\ ~seen.active
      BY <3>1, <3>3
    <3> QED BY <2>2, <3>1, <3>2, <3>3 DEF Ended
  <2> QED BY <2>3, <2>4
<1> QED BY <1>1, TestTypes, LoopAndEnd, PTL
-----------------------------------------------------------------------------
(* The points. *)

Passed == {i \in Index : cmd[i].status = "correct" /\ ~EndsTest(prog[i]) /\ ~prog[i].quit}
Gross == IF scoring = "partial" THEN SumFunctionOnSet(PointsOf, Passed) ELSE 0

\* What passed does not depend on command i, before and after a step.
Moot(i) ==
  \/ cmd'[i].status = cmd[i].status
  \/ cmd'[i].status # "correct" /\ cmd[i].status # "correct"
  \/ EndsTest(prog[i])
  \/ prog[i].quit

\* The points follow from which commands passed.
LEMMA GrossSame ==
  ASSUME TestTypeOK, prog' = prog, scoring' = scoring, \A i \in Index : Moot(i)
  PROVE  Gross' = Gross
<1>1. Index' = Index /\ PointsOf' = PointsOf
  BY DEF Index, PointsOf
<1>2. Passed' = Passed
  BY <1>1 DEF Passed, EndsTest, Moot
<1> QED BY <1>1, <1>2 DEF Gross

\* What the test is worth before a leak is charged.
Owed == IF scoring = "partial" THEN SumFunctionOnSet(PointsOf, Passed)
        ELSE IF result = "correct" THEN PointsAvailable ELSE 0
Paid == Over /\ result \in {"correct", "incorrect"} => earned \in Deducted(Owed)

\* Until the test is evaluated, its points are those of the commands that passed.
PointState ==
  /\ ~Over => earned = Gross
  /\ Paid

\* Run's steps up to Evaluate either leave what passed alone, or judge a command.
LEMMA GrossStep ==
  ASSUME TestTypeOK, LoopState, EndState, PointState,
         SetupFails \/ StartTest \/ SendCommand \/ EnableStats \/ StatsEnabled
           \/ Expect \/ DisableStats \/ Decide \/ Quit
  PROVE  /\ Gross' = Gross /\ earned' = earned /\ pc \notin {"stop", "close", "done"}
         /\ pc' \in {"stop", "close", "done"} => result' # "correct" /\ result' # "incorrect"
<1> USE DEF CommandStatus
<1>1. CASE SetupFails \/ StartTest \/ SendCommand \/ EnableStats \/ StatsEnabled
             \/ Expect \/ DisableStats \/ Decide
  <2>1. prog' = prog /\ scoring' = scoring /\ earned' = earned /\ pc \notin {"stop", "close", "done"}
    BY <1>1, Zenon DEF SetupFails, StartTest, SendCommand, EnableStats, StatsEnabled, Expect,
                       DisableStats, Decide
  <2>2. \/ pc' \notin {"stop", "close", "done"}
        \/ result' = "abort"
    BY <1>1 DEF SetupFails, StartTest, SendCommand, EnableStats, StatsEnabled, Expect,
                DisableStats, Decide, Fails, GivesUp, Continues
  <2>3. \/ cmd' = cmd
        \/ /\ pc \in {"setup", "top", "decide"}
           /\ \E s \in {"running", "incorrect"}, n \in Nat : SetCommand(s, n)
    <3>1. cmd[counter].earned \in Nat
      BY DEF TestTypeOK, CommandState
    <3>2. CASE Decide
      BY <3>2 DEF Decide, Fails, GivesUp, Continues
    <3>3. CASE StartTest \/ SendCommand
      BY <3>1, <3>3 DEF StartTest, SendCommand
    <3> QED BY <1>1, <3>2, <3>3, Zenon DEF SetupFails, EnableStats, StatsEnabled, Expect, DisableStats
  <2>4. CASE cmd' = cmd
    <3>1. \A i \in Index : Moot(i)
      BY <2>4 DEF Moot
    <3> QED BY <2>1, <2>2, <3>1, GrossSame
  <2>5. ASSUME pc \in {"setup", "top", "decide"},
               NEW s \in {"running", "incorrect"}, NEW n \in Nat, SetCommand(s, n)
        PROVE  Gross' = Gross
    <3>1. \A i \in Index : cmd'[i].status = IF i = counter THEN s ELSE cmd[i].status
      BY <2>5, CommandSet
    <3>2. cmd[counter].status # "correct"
      BY <2>5 DEF LoopState, Prompting
    <3>3. \A i \in Index : Moot(i)
      BY <3>1, <3>2 DEF Moot
    <3> QED BY <2>1, <3>3, GrossSame
  <2> QED BY <2>1, <2>2, <2>3, <2>4, <2>5
<1>2. CASE Quit
  <2>1. PICK v \in Verdicts(FALSE) : SetCommand(v[1], v[2])
    BY <1>2 DEF Quit
  <2>2. v[1] \in CommandStatus /\ v[2] \in Nat
    BY <2>1, VerdictProps
  <2>3. \A i \in Index : cmd'[i].status = IF i = counter THEN v[1] ELSE cmd[i].status
    BY <2>1, <2>2, CommandSet
  <2>4. /\ prog[counter].quit /\ prog' = prog /\ scoring' = scoring /\ earned' = earned
        /\ pc = "expect" /\ pc' = "evaluate"
    BY <1>2 DEF Quit, Command
  <2>5. Gross' = Gross
    <3>1. \A i \in Index : Moot(i)
      BY <2>3, <2>4 DEF Moot
    <3> QED BY <2>4, <3>1, GrossSame
  <2> QED BY <2>4, <2>5
<1> QED BY <1>1, <1>2

\* A command judged correct with the loop going on adds its points, under partial
\* scoring; one that ends the test does not.
LEMMA FinishPoints ==
  ASSUME TestTypeOK, LoopState, PointState, FinishCommand
  PROVE  pc' \notin {"stop", "close", "done"} /\ earned' = Gross'
<1> USE DEF CommandStatus
<1>1. PICK v \in Verdicts(eof) :
        /\ SetCommand(v[1], v[2])
        /\ pc' \in {"evaluate", "top"}
        /\ pc' = "top" => ~EndsTest(Command)
        /\ pc' = "evaluate" => EndsTest(Command) \/ v[1] = "incorrect"
        /\ earned' = IF pc' = "top" /\ v[1] = "correct" /\ scoring = "partial"
                     THEN earned + v[2] ELSE earned
  BY DEF FinishCommand, LoopState
<1>2. /\ v[1] \in {"correct", "incorrect"} /\ v[2] \in Nat
      /\ v[1] = "correct" => v[2] = Command.points
  BY <1>1, VerdictProps DEF TestTypeOK
<1>3. \A i \in Index : cmd'[i].status = IF i = counter THEN v[1] ELSE cmd[i].status
  BY <1>1, <1>2, CommandSet
<1>4. /\ cmd[counter].status = "running" /\ ~prog[counter].quit /\ counter \in Index
      /\ earned = Gross /\ prog' = prog /\ scoring' = scoring
  BY DEF FinishCommand, LoopState, Prompting, Judging, Command, PointState, Over, TestTypeOK
<1>5. CASE v[1] = "correct" /\ pc' = "top"
  <2>1. Index' = Index /\ PointsOf' = PointsOf
    BY <1>4 DEF Index, PointsOf
  <2>2. Passed' = Passed \cup {counter} /\ counter \notin Passed
    BY <1>1, <1>3, <1>4, <1>5, <2>1 DEF Passed, EndsTest, Command
  <2>3. /\ Passed' \subseteq Index /\ IsFiniteSet(Passed')
        /\ \A i \in Passed' : PointsOf[i] \in Nat
    BY <1>4, <2>2, PointsAreNat, FS_Subset DEF Passed
  <2>4. IntOn(PointsOf, Passed')
    BY <2>3 DEF IntOn
  <2>5. counter \in Passed' /\ Passed' \ {counter} = Passed
    BY <2>2
  <2>6. SumFunctionOnSet(PointsOf, Passed') = PointsOf[counter] + SumFunctionOnSet(PointsOf, Passed)
    BY <2>3, <2>4, <2>5, SumTakeOut
  <2>7. PointsOf[counter] = v[2] /\ v[2] \in Nat
    BY <1>2, <1>4, <1>5 DEF PointsOf, Command
  <2>8. SumFunctionOnSet(PointsOf, Passed) \in Nat
    BY <2>3, <2>5, FS_Subset, SumIsNat
  <2>9. CASE scoring = "partial"
    <3>1. earned' = earned + v[2]
      BY <1>1, <1>5, <2>9
    <3>2. Gross = SumFunctionOnSet(PointsOf, Passed) /\ Gross' = SumFunctionOnSet(PointsOf, Passed')
      BY <1>4, <2>1, <2>9 DEF Gross
    <3> QED BY <1>1, <1>4, <2>6, <2>7, <2>8, <3>1, <3>2
  <2>10. CASE scoring # "partial"
    BY <1>1, <1>4, <2>10 DEF Gross
  <2> QED BY <2>9, <2>10
<1>6. CASE ~(v[1] = "correct" /\ pc' = "top")
  <2>1. v[1] = "correct" => EndsTest(prog[counter])
    BY <1>1, <1>4, <1>6 DEF Command
  <2>2. Gross' = Gross
    <3>1. \A i \in Index : Moot(i)
      BY <1>2, <1>3, <1>4, <2>1 DEF Moot
    <3> QED BY <1>4, <3>1, GrossSame
  <2> QED BY <1>1, <1>4, <1>6, <2>2
<1> QED BY <1>5, <1>6

LEMMA PointStep ==
  ASSUME TestTypeOK, LoopState, EndState, PointState, [Next]_vars
  PROVE  PointState'
<1> USE DEF main
<1>1. CASE SetupFails \/ StartTest \/ SendCommand \/ EnableStats \/ StatsEnabled
             \/ Expect \/ DisableStats \/ Decide \/ Quit
  <2>1. Paid'
    BY <1>1, GrossStep DEF Paid, Over
  <2> QED BY <1>1, <2>1, GrossStep DEF PointState, Over
<1>2. CASE FinishCommand
  <2>1. Paid'
    BY <1>2, FinishPoints DEF Paid, Over
  <2> QED BY <1>2, <2>1, FinishPoints DEF PointState, Over
<1>3. CASE Evaluate
  <2>1. /\ pc' = "stop" /\ UNCHANGED <<prog, scoring, cmd>> /\ earned = Gross
        /\ result' \in {"correct", "incorrect"} =>
             /\ result' = IF allCorrect THEN "correct" ELSE "incorrect"
             /\ earned' \in Deducted(IF allCorrect /\ scoring = "entire"
                                     THEN PointsAvailable ELSE earned)
    BY <1>3 DEF Evaluate, PointState, Over
  <2>2. /\ Passed' = Passed /\ PointsOf' = PointsOf /\ PointsAvailable' = PointsAvailable
    BY <2>1 DEF Passed, PointsOf, PointsAvailable, Index, EndsTest
  <2>3. result' \in {"correct", "incorrect"} =>
          Owed' = IF allCorrect /\ scoring = "entire" THEN PointsAvailable ELSE earned
    BY <2>1, <2>2 DEF Owed, Gross, TestTypeOK
  <2>4. Paid'
    BY <2>1, <2>3 DEF Paid, Over, Deducted
  <2> QED BY <2>1, <2>4 DEF PointState, Over
<1>4. CASE StopTest \/ CloseTest \/ UNCHANGED vars
  <2>1. /\ UNCHANGED <<prog, scoring, cmd, earned, result>>
        /\ pc' = pc \/ (pc \in {"stop", "close"} /\ pc' \in {"close", "done"})
    BY <1>4 DEF StopTest, CloseTest, vars
  <2>2. Passed' = Passed /\ PointsOf' = PointsOf /\ PointsAvailable' = PointsAvailable
    BY <2>1 DEF Passed, PointsOf, PointsAvailable, Index, EndsTest
  <2>3. Paid
    BY DEF PointState
  <2>4. Paid' /\ Gross' = Gross
    BY <2>1, <2>2, <2>3 DEF Paid, Over, Owed, Deducted, Gross
  <2> QED BY <2>1, <2>4 DEF PointState, Over
<1>5. CASE GetStats \/ FirstOutput \/ Sys161Exits
  <2>1. /\ UNCHANGED <<prog, scoring, earned, result>>
        /\ pc' = pc \/ (pc = "waiting" /\ pc' = "woken")
        /\ \A i \in Index : cmd'[i].status = cmd[i].status
    BY <1>5, GetStatsFrame
  <2>2. Passed' = Passed /\ PointsOf' = PointsOf /\ PointsAvailable' = PointsAvailable
    BY <2>1 DEF Passed, PointsOf, PointsAvailable, Index, EndsTest
  <2>3. Paid
    BY DEF PointState
  <2>4. Paid' /\ Gross' = Gross
    BY <2>1, <2>2, <2>3 DEF Paid, Over, Owed, Deducted, Gross
  <2> QED BY <2>1, <2>4 DEF PointState, Over
<1> QED BY <1>1, <1>2, <1>3, <1>4, <1>5 DEF Next, Run

\* A correct command has all of its points, whatever the others have.
EarnedState == \A i \in Index : cmd[i].status = "correct" => cmd[i].earned = PointsOf[i]

LEMMA EarnedStep ==
  ASSUME TestTypeOK, EarnedState, [Next]_vars
  PROVE  EarnedState'
<1> USE DEF main, CommandStatus
<1>1. ASSUME prog' = prog, NEW s \in CommandStatus, NEW n \in Nat, SetCommand(s, n),
             s = "correct" => n = Command.points
      PROVE  EarnedState'
  <2>1. \A i \in Index : /\ cmd'[i].status = IF i = counter THEN s ELSE cmd[i].status
                         /\ cmd'[i].earned = IF i = counter THEN n ELSE cmd[i].earned
    BY <1>1, CommandSet
  <2>2. counter \in Index /\ Index' = Index /\ PointsOf' = PointsOf
    BY <1>1 DEF TestTypeOK, Index, PointsOf
  <2>3. s = "correct" => n = PointsOf[counter]
    BY <1>1, <2>2 DEF PointsOf, Command
  <2> QED BY <2>1, <2>2, <2>3 DEF EarnedState
<1>2. CASE StartTest \/ SendCommand \/ Decide
  <2>1. prog' = prog
    BY <1>2, Zenon DEF StartTest, SendCommand, Decide
  <2>2. cmd' = cmd \/ \E s \in {"running", "incorrect"}, n \in Nat : SetCommand(s, n)
    <3>1. cmd[counter].earned \in Nat
      BY DEF TestTypeOK, CommandState
    <3> QED BY <1>2, <3>1 DEF StartTest, SendCommand, Decide, Fails, GivesUp, Continues
  <2>3. CASE cmd' = cmd
    BY <2>1, <2>3 DEF EarnedState, Index, PointsOf
  <2> QED BY <1>1, <2>1, <2>2, <2>3
<1>3. CASE FinishCommand \/ Quit
  <2>1. prog' = prog
    BY <1>3, Zenon DEF FinishCommand, Quit
  <2>2. PICK atEof \in BOOLEAN : \E v \in Verdicts(atEof) : SetCommand(v[1], v[2])
    BY <1>3 DEF FinishCommand, Quit, TestTypeOK
  <2>3. PICK v \in Verdicts(atEof) : SetCommand(v[1], v[2])
    BY <2>2
  <2>4. /\ v[1] \in CommandStatus /\ v[2] \in Nat
        /\ v[1] = "correct" => v[2] = Command.points
    BY VerdictProps
  <2> QED BY <1>1, <2>1, <2>3, <2>4
<1>4. CASE SetupFails \/ EnableStats \/ StatsEnabled \/ Expect \/ DisableStats \/ Evaluate
             \/ StopTest \/ CloseTest \/ UNCHANGED vars
  <2>1. prog' = prog /\ cmd' = cmd
    BY <1>4, Zenon DEF SetupFails, EnableStats, StatsEnabled, Expect, DisableStats, Evaluate,
                       StopTest, CloseTest, vars
  <2> QED BY <2>1 DEF EarnedState, Index, PointsOf
<1>5. CASE GetStats \/ FirstOutput \/ Sys161Exits
  BY <1>5, GetStatsFrame DEF EarnedState, Index, PointsOf
<1> QED BY <1>1, <1>2, <1>3, <1>4, <1>5 DEF Next, Run

\* What the commands that passed are worth is between the bounds that
\* PointsAreEarned sets.
LEMMA OwedIsInBounds ==
  ASSUME TestTypeOK, EarnedState, PointState
  PROVE  PointsAreEarned
<1> DEFINE earnings == [i \in Index |-> cmd[i].earned]
           judged == {i \in Index : cmd[i].status \in {"correct", "incorrect"} /\ ~prog[i].quit}
           least == SumFunctionOnSet(PointsOf, Passed)
           most == SumFunctionOnSet(earnings, judged)
<1>1. /\ IsFiniteSet(Index) /\ judged \subseteq Index /\ Passed \subseteq judged
      /\ \A i \in Index : PointsOf[i] \in Nat /\ earnings[i] \in Nat
  BY PointsAreNat DEF Passed, TestTypeOK, CommandState
<1>2. IsFiniteSet(judged) /\ IsFiniteSet(Passed)
  BY <1>1, FS_Subset
<1>3. \A i \in Passed : PointsOf[i] = earnings[i]
  BY DEF EarnedState, Passed
<1> HIDE DEF earnings, judged
<1>4. least = SumFunctionOnSet(earnings, Passed)
  BY <1>2, <1>3, SumSame
<1>5. SumFunctionOnSet(earnings, Passed) <= most
  <2>1. \A i \in judged : earnings[i] \in Nat
    BY <1>1
  <2> QED BY <1>1, <1>2, <2>1, SumOfFewer
<1>6. least \in Nat /\ most \in Nat
  <2>1. /\ \A i \in judged : earnings[i] \in Nat
        /\ \A i \in Passed : PointsOf[i] \in Nat
    BY <1>1
  <2> QED BY <1>2, <2>1, SumIsNat
<1>7. least \in least..most
  <2> HIDE DEF least, most
  <2> QED BY <1>4, <1>5, <1>6
<1>8. EarnedBy({"correct", "incorrect"}) = most
  BY Zenon DEF EarnedBy, earnings, judged, Index
<1>9. Owed \in IF scoring = "partial" THEN least..EarnedBy({"correct", "incorrect"})
               ELSE {IF result = "correct" THEN PointsAvailable ELSE 0}
  <2>1. scoring = "partial" => Owed = least
    BY DEF Owed
  <2>2. scoring # "partial" => Owed = IF result = "correct" THEN PointsAvailable ELSE 0
    BY DEF Owed
  <2> HIDE DEF least, most
  <2> QED BY <1>7, <1>8, <2>1, <2>2
<1>10. Over /\ result \in {"correct", "incorrect"} =>
         \E gross \in IF scoring = "partial" THEN least..EarnedBy({"correct", "incorrect"})
                      ELSE {IF result = "correct" THEN PointsAvailable ELSE 0} :
           earned \in Deducted(gross)
  <2> HIDE DEF least, most
  <2> QED BY <1>9 DEF PointState, Paid
<1> QED BY <1>10, Zenon DEF PointsAreEarned, Passed, PointsOf, Index, Deducted

\* Run (run.go) gives a test all its points or none, or, under partial scoring, at
\* least the points of the commands that passed and no more than the commands have
\* earned, whatever the monitor does meanwhile; a leak takes its points away once,
\* and never more than there are.
THEOREM TestPointsAreEarned == Spec => []PointsAreEarned
<1>1. Init => PointState /\ EarnedState
  <2> SUFFICES ASSUME Init PROVE PointState /\ EarnedState  OBVIOUS
  <2>1. Passed = {} /\ EarnedState
    BY DEF Init, Passed, Index, EarnedState
  <2>2. Gross = 0
    BY <2>1, SumOfNone DEF Gross
  <2>3. Paid
    BY DEF Init, Paid, Over
  <2> QED BY <2>1, <2>2, <2>3 DEF Init, PointState
<1>2. /\ TestTypeOK /\ LoopState /\ EndState /\ PointState /\ [Next]_vars => PointState'
      /\ TestTypeOK /\ EarnedState /\ [Next]_vars => EarnedState'
  BY PointStep, EarnedStep
<1>3. TestTypeOK /\ PointState /\ EarnedState => PointsAreEarned
  BY OwedIsInBounds
<1> QED BY <1>1, <1>2, <1>3, TestTypes, LoopAndEnd, PTL DEF Spec
=============================================================================
