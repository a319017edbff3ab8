------------------------------- MODULE TestRun -------------------------------
(***************************************************************************)
(* One run of a test (Test.Run in run.go) with the goroutine that reads    *)
(* sys161's statistics and monitors the kernel (getStats in stats.go).     *)
(* The two share statCond (statActive, statRecord, statErr) and the        *)
(* current command; a critical section is one action, and so is a piece of *)
(* code between two of them.                                               *)
(*                                                                         *)
(* sys161 and the terminal it runs in are an environment: the kernel may   *)
(* print a prompt, say nothing, or stop at any time, and its statistics    *)
(* socket has a message while it runs and an end of file after it stopped. *)
(***************************************************************************)
EXTENDS Naturals, Sequences, Functions

CONSTANTS
  Programs,     \* the command lists a test may have
  LeakPoints    \* MemLeakPoints of the test

Option == {"no", "maybe", "yes"}
CommandSpec == [panic : Option, timesout : Option, points : Nat, quit : BOOLEAN]

\* The first command is the boot, and only the last one ("q") has no prompt
\* to wait for (conf.go).
ASSUME ProgramsAssumption ==
  \A p \in Programs :
    /\ p \in Seq(CommandSpec) /\ Len(p) > 1
    /\ p[1].panic = "no" /\ p[1].timesout = "no"
    /\ \A i \in 1..Len(p) : p[i].quit <=> i = Len(p)
ASSUME LeakAssumption == LeakPoints \in Nat

VARIABLES
  prog,         \* the commands of the test
  scoring,      \* ScoringMethod
  pc,           \* where Run is
  counter,      \* commandCounter, from 1
  cmd,          \* Status, TimedOut and PointsEarned of each command
  seen,         \* what ExpectRegexp and disableStats returned
  eof,          \* Run's local eof
  failed,       \* Run's local err is not nil
  allCorrect, earned, result,   \* fields of the test
  statActive, statRecord, statErr,
  mon,          \* where getStats is
  sample,       \* statRecord and commandCounter as getStats last read them
  sys161,       \* is the simulator up?
  running,      \* Test.running
  closes        \* how many times sys161.Close was called

main == <<pc, counter, cmd, seen, eof, failed, allCorrect, earned, result>>
stat == <<statActive, statRecord, statErr>>
proc == <<sys161, running, closes>>
vars == <<prog, scoring, main, stat, mon, sample, proc>>

Command == prog[counter]

\* Under partial scoring the commands' points add up to the test's (target.go).
PointsAvailable == SumFunction([i \in 1..Len(prog) |-> prog[i].points])

SetCommand(status, points) ==
  cmd' = [cmd EXCEPT ![counter].status = status, ![counter].earned = points]

Init ==
  /\ prog \in Programs
  /\ scoring \in {"entire", "partial"}
  /\ pc = "setup"
  /\ counter = 1
  /\ cmd = [i \in 1..Len(prog) |-> [status |-> "none", timedOut |-> FALSE, earned |-> 0]]
  /\ seen = [match |-> "none", active |-> FALSE, err |-> "none"]
  /\ eof = FALSE /\ failed = FALSE /\ allCorrect = TRUE
  /\ earned = 0
  /\ result = "none"
  /\ statActive = FALSE /\ statRecord = FALSE /\ statErr = "none"
  /\ mon = "none"
  /\ sample = [record |-> FALSE, counter |-> 0]
  /\ sys161 = "down" /\ running = FALSE /\ closes = 0
-----------------------------------------------------------------------------
(* Run: setting up. *)

\* Any of the steps up to start161 fails: nothing was started.
SetupFails ==
  /\ pc = "setup"
  /\ result' = "abort"
  /\ pc' = "done"
  /\ UNCHANGED <<prog, scoring, counter, cmd, seen, eof, failed, allCorrect, earned,
                 stat, mon, sample, proc>>

StartTest ==
  /\ pc = "setup"
  /\ SetCommand("running", 0)
  /\ statRecord' = TRUE /\ statActive' = TRUE
  /\ sys161' = "up" /\ running' = TRUE
  /\ result' = "running"
  /\ pc' = "expect"
  /\ UNCHANGED <<prog, scoring, counter, seen, eof, failed, allCorrect, earned,
                 statErr, mon, sample, closes>>
-----------------------------------------------------------------------------
(* Run: the loop over the commands. *)

\* The command is sent, and a kernel that does not echo it is broken.
SendCommand ==
  /\ pc = "top"
  /\ \/ SetCommand("running", cmd[counter].earned) /\ pc' = "enable" /\ UNCHANGED allCorrect
     \/ SetCommand("incorrect", 0) /\ pc' = "evaluate" /\ allCorrect' = FALSE
  /\ UNCHANGED <<prog, scoring, counter, seen, eof, failed, earned, result, stat,
                 mon, sample, proc>>

EnableStats_Blind ==
  /\ pc = "enable"
  /\ statRecord' = TRUE
  /\ pc' = "waiting"
  /\ UNCHANGED <<prog, scoring, counter, cmd, seen, eof, failed, allCorrect, earned,
                 result, statActive, statErr, mon, sample, proc>>

\* enableStats: wait for the next message, unless getStats has gone; if it
\* went with an error, give up.
EnableStats ==
  /\ pc = "enable"
  /\ \/ statActive /\ statRecord' = TRUE /\ pc' = "waiting" /\ UNCHANGED failed
     \/ /\ ~statActive
        /\ failed' = (statErr # "none")
        /\ pc' = IF statErr # "none" THEN "evaluate" ELSE "expect"
        /\ UNCHANGED statRecord
  /\ UNCHANGED <<prog, scoring, counter, cmd, seen, eof, allCorrect, earned,
                 result, statActive, statErr, mon, sample, proc>>

StatsEnabled ==
  /\ pc = "woken"
  /\ pc' = "expect"
  /\ UNCHANGED <<prog, scoring, counter, cmd, seen, eof, failed, allCorrect, earned,
                 result, stat, mon, sample, proc>>

\* ExpectRegexp.  Once the kernel has printed something getStats is spawned,
\* and a prompt may still be in the buffer when the kernel is gone.  Every
\* error but a timeout comes with an empty match, and is handled as an EOF.
Expect ==
  /\ pc = "expect"
  /\ ~Command.quit
  /\ \E m \in {"prompt", "eof", "timeout"} :
       /\ m = "prompt" => mon # "none"
       /\ m = "eof" => sys161 = "down"
       /\ seen' = [seen EXCEPT !.match = m]
  /\ pc' = "disable"
  /\ UNCHANGED <<prog, scoring, counter, cmd, eof, failed, allCorrect, earned,
                 result, stat, mon, sample, proc>>

DisableStats ==
  /\ pc = "disable"
  /\ seen' = [seen EXCEPT !.active = statActive, !.err = IF statActive THEN "none" ELSE statErr]
  /\ statRecord' = IF statActive THEN FALSE ELSE statRecord
  /\ pc' = "decide"
  /\ UNCHANGED <<prog, scoring, counter, cmd, eof, failed, allCorrect, earned,
                 result, statActive, statErr, mon, sample, proc>>

Fails_CommandOnly ==
  /\ SetCommand("incorrect", 0)
  /\ pc' = "evaluate"
  /\ UNCHANGED <<eof, failed, allCorrect>>

\* Three ways on from the prompt, or from its absence.
Fails ==
  /\ SetCommand("incorrect", 0)
  /\ allCorrect' = FALSE
  /\ pc' = "evaluate"
  /\ UNCHANGED <<eof, failed>>

\* The command is evaluated for what it did.
Continues(atEof) ==
  /\ eof' = atEof
  /\ pc' = "finish"
  /\ UNCHANGED <<cmd, failed, allCorrect>>

GivesUp ==
  /\ failed' = (seen.err # "none")
  /\ pc' = "evaluate"
  /\ UNCHANGED <<cmd, eof, allCorrect>>

Stopped == seen.match = "eof" \/ seen.err = "monitor"

\* A stop is expected of a command that may panic, unless the monitor made it,
\* and of a command that may time out and did.
ExpectedStop_AnyMonitor ==
  \/ Command.panic # "no"
  \/ Command.timesout # "no" /\ cmd[counter].timedOut
ExpectedStop ==
  \/ seen.err # "monitor" /\ Command.panic # "no"
  \/ Command.timesout # "no" /\ cmd[counter].timedOut

Decide ==
  /\ pc = "decide"
  /\ \/ seen.match = "timeout" /\ Fails
     \/ seen.match # "timeout" /\ Stopped /\ IF ExpectedStop THEN Continues(TRUE) ELSE Fails
     \/ seen.match = "prompt" /\ ~Stopped /\ IF seen.active THEN Continues(FALSE) ELSE GivesUp
  /\ UNCHANGED <<prog, scoring, counter, seen, earned, result, stat, mon, sample, proc>>

\* Command.evaluate: what the command did wrong, before its output is looked at.
Misbehaved(atEof) ==
  LET timedOut == cmd[counter].timedOut IN
  \/ Command.timesout = "no" /\ timedOut
  \/ Command.panic = "no" /\ atEof /\ ~(Command.timesout # "no" /\ timedOut)
  \/ Command.panic = "yes" /\ ~atEof
  \/ Command.timesout = "yes" /\ ~timedOut

\* The verdicts the output may lead to: all of it, a fraction for partial
\* credit, or nothing.
Verdicts(atEof) ==
  IF Misbehaved(atEof) THEN {<<"incorrect", 0>>}
  ELSE {<<"correct", Command.points>>}
         \cup {<<"incorrect", p>> : p \in {0} \cup 0..(Command.points - 1)}

NextCommand == counter' = IF counter < Len(prog) THEN counter + 1 ELSE counter

\* A command that may panic or time out is the last one that is typed.
EndsTest(command) == command.panic # "no" \/ command.timesout # "no"

\* finishCurCommand and what the loop makes of its verdict.
FinishCommand_KeepGoing ==
  /\ pc = "finish"
  /\ \E v \in Verdicts(eof) :
       /\ SetCommand(v[1], v[2])
       /\ allCorrect' = (allCorrect /\ v[1] = "correct")
       /\ pc' = IF eof \/ EndsTest(Command) THEN "evaluate" ELSE "top"
       /\ earned' = IF pc' = "top" /\ v[1] = "correct" THEN earned + v[2] ELSE earned
  /\ NextCommand
  /\ UNCHANGED <<prog, scoring, seen, eof, failed, result, stat, mon, sample, proc>>

FinishCommand ==
  /\ pc = "finish"
  /\ \E v \in Verdicts(eof) :
       /\ SetCommand(v[1], v[2])
       /\ allCorrect' = (allCorrect /\ v[1] = "correct")
       /\ pc' = IF \/ eof \/ EndsTest(Command)
                   \/ v[1] = "incorrect" /\ scoring = "entire"
                THEN "evaluate" ELSE "top"
       /\ earned' = IF pc' = "top" /\ v[1] = "correct" /\ scoring = "partial"
                    THEN earned + v[2] ELSE earned
  /\ NextCommand
  /\ UNCHANGED <<prog, scoring, seen, eof, failed, result, stat, mon, sample, proc>>

\* The last command: whatever happens on the way down, the test is over, and
\* its verdict does not count for the test.
Quit ==
  /\ pc = "expect"
  /\ Command.quit
  /\ \E v \in Verdicts(FALSE) : SetCommand(v[1], v[2])
  /\ pc' = "evaluate"
  /\ UNCHANGED <<prog, scoring, counter, seen, eof, failed, allCorrect, earned,
                 result, stat, mon, sample, proc>>
-----------------------------------------------------------------------------
(* Run: the result.  The memory check may take points away. *)

Deducted(points) == {points, IF points < LeakPoints THEN 0 ELSE points - LeakPoints}

Evaluate ==
  /\ pc = "evaluate"
  /\ IF failed THEN result' = "abort" /\ UNCHANGED earned
     ELSE /\ result' = IF allCorrect THEN "correct" ELSE "incorrect"
          /\ earned' \in Deducted(IF allCorrect /\ scoring = "entire"
                                  THEN PointsAvailable ELSE earned)
  /\ pc' = "stop"
  /\ UNCHANGED <<prog, scoring, counter, cmd, seen, eof, failed, allCorrect, stat,
                 mon, sample, proc>>

\* stop161, under the lock: who finds the simulator marked as running clears the
\* mark ...
Stop161 ==
  /\ running' = FALSE
  /\ UNCHANGED <<sys161, closes>>

\* ... and when it has let go of the lock it closes the terminal, which kills
\* sys161.
CloseTerminal ==
  /\ sys161' = "down"
  /\ closes' = closes + 1
  /\ UNCHANGED running

StopTest_Always ==
  /\ pc = "stop"
  /\ Stop161
  /\ pc' = "close"
  /\ UNCHANGED <<prog, scoring, counter, cmd, seen, eof, failed, allCorrect, earned,
                 result, stat, mon, sample>>

StopTest ==
  /\ pc = "stop"
  /\ Stop161
  /\ pc' = IF running THEN "close" ELSE "done"
  /\ UNCHANGED <<prog, scoring, counter, cmd, seen, eof, failed, allCorrect, earned,
                 result, stat, mon, sample>>

CloseTest ==
  /\ pc = "close"
  /\ CloseTerminal
  /\ pc' = "done"
  /\ UNCHANGED <<prog, scoring, counter, cmd, seen, eof, failed, allCorrect, earned,
                 result, stat, mon, sample>>
-----------------------------------------------------------------------------
(* getStats. *)

\* sync.Cond.Signal, for the one goroutine that may wait.
Signal == pc' = IF pc = "waiting" THEN "woken" ELSE pc

mainButPc == <<counter, cmd, seen, eof, failed, allCorrect, earned, result>>

\* Recv: the first output of sys161 spawns getStats ...
FirstOutput ==
  /\ mon = "none"
  /\ sys161 = "up" /\ pc # "setup"
  /\ mon' = "spawned"
  /\ UNCHANGED <<prog, scoring, main, stat, sample, proc>>

\* ... which connects to the statistics socket, or cannot.
Connect ==
  /\ mon = "spawned"
  /\ statActive' = TRUE
  /\ mon' \in {"reading", "broken"}
  /\ UNCHANGED <<prog, scoring, main, statRecord, statErr, sample, proc>>

\* stopStats: the goroutine is about to end.
StopStats(err, next) ==
  /\ statErr' = err
  /\ statActive' = FALSE
  /\ Signal
  /\ mon' = next
  /\ UNCHANGED <<prog, scoring, mainButPc, statRecord, sample, proc>>

\* The socket was closed: sys161 has stopped.
SocketEof ==
  /\ mon = "reading"
  /\ sys161 = "down"
  /\ StopStats("none", "exited")

\* A message that cannot be read or parsed, or no connection.
StatsBroken ==
  /\ \/ mon = "broken"
     \/ mon = "reading"
  /\ StopStats("other", "closing")

Message ==
  /\ mon = "reading"
  /\ sys161 = "up"
  /\ Signal
  /\ sample' = [sample EXCEPT !.record = statRecord]
  /\ mon' = "sampling"
  /\ UNCHANGED <<prog, scoring, mainButPc, stat, proc>>

\* Monitor the sample: it is fine, the kernel misbehaves, or the command has
\* taken too long.
Measure ==
  /\ mon = "sampling"
  /\ sample' = [sample EXCEPT !.counter = counter]
  /\ mon' \in IF sample.record THEN {"reading", "alarm", "overtime"} ELSE {"reading"}
  /\ UNCHANGED <<prog, scoring, main, stat, proc>>

\* The flag is set without a lock, in the command that is then current; the
\* boot has no timeout, and is only checked for what the kernel does.
Overtime ==
  /\ mon = "overtime"
  /\ IF counter = 1 THEN mon' \in {"reading", "alarm"} /\ UNCHANGED cmd
     ELSE mon' = "alarm" /\ cmd' = [cmd EXCEPT ![counter].timedOut = TRUE]
  /\ UNCHANGED <<prog, scoring, pc, counter, seen, eof, failed, allCorrect, earned,
                 result, stat, sample, proc>>

CheckRecord ==
  /\ mon = "alarm"
  /\ mon' = IF statRecord THEN "checking" ELSE "reading"
  /\ UNCHANGED <<prog, scoring, main, stat, sample, proc>>

CheckCounter ==
  /\ mon = "checking"
  /\ mon' = IF sample.counter = counter THEN "stopping" ELSE "reading"
  /\ UNCHANGED <<prog, scoring, main, stat, sample, proc>>

MonitorError ==
  /\ mon = "stopping"
  /\ StopStats("monitor", "closing")

StopSys161_Forgets ==
  /\ mon = "closing"
  /\ Stop161
  /\ mon' = "exited"
  /\ UNCHANGED <<prog, scoring, main, stat, sample>>

\* stop161 again, by getStats: Run may return between these two.
StopSys161 ==
  /\ mon = "closing"
  /\ Stop161
  /\ mon' = IF running THEN "killing" ELSE "exited"
  /\ UNCHANGED <<prog, scoring, main, stat, sample>>

CloseSys161 ==
  /\ mon = "killing"
  /\ CloseTerminal
  /\ mon' = "exited"
  /\ UNCHANGED <<prog, scoring, main, stat, sample>>
-----------------------------------------------------------------------------
\* The kernel panics, or shuts down.
Sys161Exits ==
  /\ sys161 = "up"
  /\ sys161' = "down"
  /\ UNCHANGED <<prog, scoring, main, stat, mon, sample, running, closes>>

Run ==
  \/ SetupFails \/ StartTest \/ SendCommand \/ EnableStats \/ StatsEnabled
  \/ Expect \/ DisableStats \/ Decide \/ FinishCommand \/ Quit
  \/ Evaluate \/ StopTest \/ CloseTest

GetStats ==
  \/ Connect \/ SocketEof \/ StatsBroken \/ Message \/ Measure \/ Overtime
  \/ CheckRecord \/ CheckCounter \/ MonitorError \/ StopSys161 \/ CloseSys161

Next == Run \/ GetStats \/ FirstOutput \/ Sys161Exits

Spec == Init /\ [][Next]_vars

\* The goroutines are scheduled.  ExpectRegexp returns after its timeout, and
\* sys161 sends statistics as long as it runs.
FairSpec == Spec /\ WF_vars(Run) /\ WF_vars(GetStats)
-----------------------------------------------------------------------------
(* Properties. *)

\* Run has its result, and is on its way out.
Over == pc \in {"stop", "close", "done"}

\* A test that the monitor stopped while Run waited for its prompt cannot be
\* correct, unless its command was to time out and did.
MonitorErrorFails ==
  (/\ Over
   /\ seen.err = "monitor"
   /\ \A i \in 1..Len(prog) : prog[i].timesout = "no")
    => result \notin {"correct", "running"}

\* "All commands in the test must pass" (README.adoc:678): a correct test judged
\* every command correct, up to one that ends the test.  The exception is run.go:464:
\* a command whose prompt came when the statistics had ended is not judged, and
\* the test is correct without it and those behind it.
CorrectIsJudged ==
  result = "correct" =>
    \A i \in {n \in 1..Len(prog) : ~prog[n].quit} :
      \/ cmd[i].status = "correct"
      \/ \E j \in 1..i :
           \/ cmd[i].status = "none" /\ cmd[j].status = "correct" /\ EndsTest(prog[j])
           \/ cmd[j].status = "running" /\ j = counter /\ seen.match = "prompt" /\ ~seen.active

\* What the commands that match have earned, with the partial credit of each.
EarnedBy(status) ==
  LET judged == {i \in 1..Len(prog) : cmd[i].status \in status /\ ~prog[i].quit}
  IN SumFunctionOnSet([i \in 1..Len(prog) |-> cmd[i].earned], judged)

\* The points of a test are all or nothing, or, under partial scoring, at least
\* those of the commands that passed and let the test go on, and no more than the
\* commands have earned (run.go:487).  A leak costs its points once, and never more
\* than there are.
PointsAreEarned ==
  Over /\ result \in {"correct", "incorrect"} =>
    LET passed == {i \in 1..Len(prog) : cmd[i].status = "correct" /\ ~EndsTest(prog[i]) /\ ~prog[i].quit}
        least == SumFunctionOnSet([i \in 1..Len(prog) |-> prog[i].points], passed)
    IN \E gross \in IF scoring = "partial" THEN least..EarnedBy({"correct", "incorrect"})
                    ELSE {IF result = "correct" THEN PointsAvailable ELSE 0} :
         earned \in {gross, IF gross < LeakPoints THEN 0 ELSE gross - LeakPoints}

\* "A fraction of the points (X/N) are awarded and the test is marked as incorrect"
\* (README.adoc:835): the credit of a command that passed in part reaches the test,
\* where commands earn points one by one.  It does not: run.go:487 adds the points
\* of correct commands only.
PartialCreditIsAwarded ==
  Over /\ scoring = "partial" /\ result = "incorrect" =>
    earned + LeakPoints >= EarnedBy({"incorrect"})

\* The terminal is closed once, by Run or by getStats.  A Run that is over leaves
\* no simulator marked as running; and it leaves one that runs only to a getStats
\* that has cleared the mark and is about to close the terminal.
ClosedOnce ==
  /\ closes <= 1
  /\ pc = "done" => ~running /\ (sys161 = "up" => mon = "killing")

\* Run ends: in particular it is never left waiting for the next statistics
\* after getStats has gone.  No simulator outlives its test for ever.
TestEnds == <>(pc = "done" /\ sys161 = "down")
=============================================================================
