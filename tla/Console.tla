-------------------------------- MODULE Console --------------------------------
(***************************************************************************)
(* A test at the console of sys161: Test.Run types the commands of         *)
(* CommandList through expect.Expect, whose two goroutines read the        *)
(* terminal, and Recv (logger.go) cuts what arrives into the output lines  *)
(* by which a command is judged.                                           *)
(*                                                                         *)
(* The machine is an environment: a kernel that follows the test's         *)
(* configuration from one prompt to the next, prints one of Replies for a  *)
(* command, and may lose a character it is sent, hang, or stop.  What it   *)
(* does not echo or print at once it never does: the timeouts are long.    *)
(* What is printed is a sequence of tokens, of which one read may return   *)
(* any number.  Commands that may panic or time out, the monitor and the   *)
(* keys of the lines are left out here (see TestRun).                      *)
(***************************************************************************)
EXTENDS CommandList

CONSTANTS
  Selected,     \* the tests that are run; [confs, content, scoring, retry, expected]
  Replies,      \* what a command may print: a set of sequences of lines
  OneCharacter, \* the texts that are one character long
  Credit,       \* the text of a partial credit line, and its two numbers
  CommandRetries,
  ReadSize,     \* READ_SIZE, in tokens
  MaxDrops      \* bound on the characters the machine loses

Newline == "\n"
PromptEnd == ": "
NeverPrinted == "$EOF"

\* No command prints what ends a prompt: Run would take it for the prompt.
ASSUME ConsoleAssumption ==
  /\ Selected \subseteq Tests
  /\ \A t \in Selected : t.scoring \in {"entire", "partial"} /\ t.retry \in BOOLEAN
                            /\ \A n \in DOMAIN t.expected : t.expected[n] \in Seq(Word)
  /\ CommandRetries \in Nat \ {0} /\ ReadSize \in Nat \ {0} /\ MaxDrops \in Nat
  /\ DOMAIN Credit \cap OneCharacter = {}
  /\ "banner" \in Word /\ {Newline, PromptEnd, NeverPrinted} \cap Word = {}
  /\ \A n \in DOMAIN Replies : Replies[n] \subseteq Seq(Word)

VARIABLES
  pc,           \* where Run is
  counter,      \* commandCounter, from 1
  rest, tries,  \* sendCommand: the characters to send, and its retryCount
  answer,       \* what ExpectRegexp returned
  output,       \* Output of each command
  partial,      \* currentOutput.Buffer
  verdict,      \* Status of each command
  allCorrect,
  buffer, readStatus,   \* fields of Expect
  queue,        \* the buffer shim: read events, an empty one is the end of file
  reader,       \* the reader goroutine
  tty,          \* printed and not yet read
  input,        \* sent and not yet taken by the machine
  machine,      \* its state, the environments it is in, and the line it has so far
  dropped,      \* the characters it lost
  faulty,       \* did it hang, or stop without being told to?
  executed,     \* the lines it was given
  spoken        \* what it printed from one prompt to the next

run == <<pc, counter, rest, tries, answer, verdict, allCorrect>>
record == <<output, partial>>
expect == <<buffer, readStatus>>
world == <<input, machine, dropped, faulty, executed, spoken>>
vars == <<listVars, run, record, expect, queue, reader, tty, world>>

Eof == <<>>
NoVerdict == "none"

\* A prompt may be cut in two by a read.
Prompt(p) == <<p, PromptEnd>>
Text(reply) == [i \in 1..(2 * Len(reply)) |-> IF i % 2 = 0 THEN Newline ELSE reply[(i + 1) \div 2]]

Command == commands[counter]

Init ==
  /\ ListInit
  /\ pc = "init"
  /\ counter = 1
  /\ rest = <<>> /\ tries = 0 /\ answer = "none"
  /\ output = <<>> /\ partial = <<>> /\ verdict = <<>>
  /\ allCorrect = TRUE
  /\ buffer = <<>> /\ readStatus = "none" /\ queue = <<>> /\ reader = "none"
  /\ tty = <<>> /\ input = <<>>
  /\ machine = [state |-> "off", envs |-> <<>>, typed |-> <<>>]
  /\ dropped = 0 /\ faulty = FALSE
  /\ executed = <<>> /\ spoken = <<>>
-----------------------------------------------------------------------------
(* The machine. *)

\* From a line to the next prompt, or to a fault somewhere before it.
Prints(echo, replies, envs) ==
  \E r \in replies :
    \/ LET text == echo \o Text(r) \o (IF envs = <<>> THEN <<>> ELSE Prompt(Head(envs).prompt)) IN
       /\ tty' = tty \o text
       /\ spoken' = [spoken EXCEPT ![Len(spoken)] = @ \o text]
                      \o (IF envs = <<>> THEN <<>> ELSE <<<<>>>>)
       /\ machine' = [state |-> IF envs = <<>> THEN "down" ELSE "ready", envs |-> envs, typed |-> <<>>]
       /\ UNCHANGED faulty
    \/ \E k \in 0..Len(Text(r)), state \in {"hung", "down"} :
       LET text == echo \o SubSeq(Text(r), 1, k) IN
       /\ tty' = tty \o text
       /\ spoken' = [spoken EXCEPT ![Len(spoken)] = @ \o text]
       /\ machine' = [machine EXCEPT !.state = state]
       /\ faulty' = TRUE

Boots ==
  /\ machine.state = "booting"
  /\ Prints(<<>>, {<<"banner">>}, <<KernelConf>>)
  /\ UNCHANGED <<listVars, run, record, expect, queue, reader, input, dropped, executed>>

Taken == machine.state = "ready" /\ input # <<>> /\ input' = Tail(input)

LosesCharacter ==
  /\ Taken
  /\ dropped < MaxDrops
  /\ dropped' = dropped + 1
  /\ UNCHANGED <<listVars, run, record, expect, queue, reader, tty, machine, faulty,
                 executed, spoken>>

Echoes ==
  /\ Taken
  /\ Head(input) # Newline
  /\ tty' = Append(tty, Head(input))
  /\ spoken' = [spoken EXCEPT ![Len(spoken)] = Append(@, Head(input))]
  /\ machine' = [machine EXCEPT !.typed = Append(@, Head(input))]
  /\ UNCHANGED <<listVars, run, record, expect, queue, reader, dropped, faulty, executed>>

\* The line leaves the environment, enters another one, or is a command of it.
Executes ==
  /\ Taken
  /\ Head(input) = Newline
  /\ LET env == Head(machine.envs)
         line == Line(env.prefix, Head(machine.typed))
         entered == StartedBy(line)
     IN IF machine.typed = <<>> THEN Prints(<<Newline>>, {<<>>}, machine.envs) /\ UNCHANGED executed
        ELSE /\ executed' = Append(executed, line)
             /\ IF line.name = env.end.name THEN Prints(<<Newline>>, {<<>>}, Tail(machine.envs))
                ELSE IF entered # NoConf THEN Prints(<<Newline>>, {<<>>}, <<entered>> \o machine.envs)
                ELSE Prints(<<Newline>>, IF line.name \in DOMAIN Replies THEN Replies[line.name] ELSE {<<>>},
                            machine.envs)
  /\ UNCHANGED <<listVars, run, record, expect, queue, reader, dropped>>

Machine == Boots \/ LosesCharacter \/ Echoes \/ Executes
-----------------------------------------------------------------------------
(* Expect: the reader goroutine, and the shim that never lets it wait. *)

Read(n) ==
  /\ reader = "reading"
  /\ n <= Len(tty)
  /\ queue' = Append(queue, SubSeq(tty, 1, n))
  /\ tty' = SubSeq(tty, n + 1, Len(tty))
  /\ UNCHANGED <<listVars, run, record, expect, reader, world>>

ReadEof ==
  /\ reader = "reading"
  /\ machine.state = "down" /\ tty = <<>>
  /\ queue' = Append(queue, Eof)
  /\ reader' = "ended"
  /\ UNCHANGED <<listVars, run, record, expect, tty, world>>

Reader == ReadEof \/ \E n \in 1..ReadSize : Read(n)

\* outputLineComplete: the newline is stripped; a line of one character, whose
\* last position is 0, goes with it.
OutputLine(text) == IF Len(text) = 1 /\ Head(text) \in OneCharacter THEN <<>> ELSE text

TakeCharacter(at, c) ==
  IF c = Newline THEN [lines |-> Append(at.lines, OutputLine(at.text)), text |-> <<>>]
                 ELSE [at EXCEPT !.text = Append(@, c)]

TakeRead(at, read) ==
  LET after[n \in 0..Len(read)] == IF n = 0 THEN at ELSE TakeCharacter(after[n - 1], read[n])
  IN after[Len(read)]

\* Recv: character by character, into the lines of the current command.
Recv(read) ==
  LET after == TakeRead([lines |-> output[counter], text |-> partial], read)
  IN output' = [output EXCEPT ![counter] = after.lines] /\ partial' = after.text

MatchesAt(pattern, text, i) ==
  i + Len(pattern) - 1 <= Len(text) /\ SubSeq(text, i, i + Len(pattern) - 1) = pattern
Matches(pattern, text) == \E i \in DOMAIN text : MatchesAt(pattern, text, i)

AfterMatch_Nothing(pattern, text) == text

\* checkForMatch: the buffer goes on behind the first match.
AfterMatch(pattern, text) ==
  LET first == CHOOSE i \in DOMAIN text : MatchesAt(pattern, text, i)
                 /\ \A j \in 1..(i - 1) : ~MatchesAt(pattern, text, j)
  IN SubSeq(text, first + Len(pattern), Len(text))

\* What Run is waiting for: the character it sent, the prompt, or, after the
\* last command, the end of the file; no text matches "$EOF".
Pattern ==
  IF rest # <<>> THEN <<Head(rest)>>
  ELSE IF Command.prompt = None THEN <<NeverPrinted>>
  ELSE Prompt(Command.prompt)

\* One turn of the loop of ExpectRegexp.
Look(text, status) ==
  /\ readStatus' = status
  /\ IF Matches(Pattern, text) THEN answer' = "match" /\ buffer' = AfterMatch(Pattern, text)
     ELSE answer' = status /\ buffer' = text
  /\ pc' = IF answer' = "none" THEN "waiting" ELSE "answered"

\* ExpectRegexp: what is in the buffer may do; after an end of file nothing does.
Expect ==
  /\ pc = "expect"
  /\ IF readStatus = "none" THEN Look(buffer, readStatus)
     ELSE answer' = readStatus /\ pc' = "answered" /\ UNCHANGED expect
  /\ UNCHANGED <<listVars, counter, rest, tries, verdict, allCorrect, record, queue, reader, tty, world>>

ReadData ==
  /\ pc = "waiting"
  /\ queue # <<>>
  /\ queue' = Tail(queue)
  /\ Recv(Head(queue))
  /\ Look(buffer \o Head(queue), IF Head(queue) = Eof THEN "eof" ELSE "none")
  /\ UNCHANGED <<listVars, counter, rest, tries, verdict, allCorrect, reader, tty, world>>

\* The timeout, as long as nothing more is to come.
Silent ==
  /\ queue = <<>> /\ tty = <<>>
  /\ \/ machine.state = "hung"
     \/ machine.state = "ready" /\ input = <<>>

TimeOut ==
  /\ pc = "waiting"
  /\ Silent
  /\ answer' = "timeout" /\ pc' = "answered"
  /\ UNCHANGED <<listVars, counter, rest, tries, verdict, allCorrect, record, expect, queue, reader, tty, world>>
-----------------------------------------------------------------------------
(* Run. *)

Start ==
  /\ pc = "init"
  /\ step = "done" /\ test \in Selected
  /\ output' = [i \in DOMAIN commands |-> <<>>]
  /\ verdict' = [i \in DOMAIN commands |-> NoVerdict]
  /\ machine' = [machine EXCEPT !.state = "booting"]
  /\ spoken' = <<<<>>>>
  /\ reader' = "reading"
  /\ pc' = "expect"
  /\ UNCHANGED <<listVars, counter, rest, tries, answer, allCorrect, partial, expect, queue, tty,
                 input, dropped, faulty, executed>>

\* The next command; its newline is typed too.
Type ==
  /\ pc = "top"
  /\ LET typed == <<Command.line.name, Newline>> IN
     IF test.retry THEN rest' = typed /\ pc' = "send" /\ UNCHANGED input
                   ELSE input' = input \o typed /\ pc' = "expect" /\ UNCHANGED rest
  /\ tries' = 0
  /\ UNCHANGED <<listVars, counter, answer, verdict, allCorrect, record, expect, queue, reader, tty,
                 machine, dropped, faulty, executed, spoken>>

\* sendCommand: a character, and its echo.  A terminal whose machine is gone
\* takes it too.
SendCharacter ==
  /\ pc = "send"
  /\ input' = Append(input, Head(rest))
  /\ pc' = "expect"
  /\ UNCHANGED <<listVars, counter, rest, tries, answer, verdict, allCorrect, record, expect, queue,
                 reader, tty, machine, dropped, faulty, executed, spoken>>

Answered(sending) == pc = "answered" /\ (rest # <<>>) = sending

Fails ==
  /\ verdict' = [verdict EXCEPT ![counter] = "incorrect"]
  /\ allCorrect' = FALSE
  /\ pc' = "close"

Echoed ==
  /\ Answered(TRUE)
  /\ answer = "match"
  /\ rest' = Tail(rest) /\ tries' = 0
  /\ pc' = IF rest' = <<>> THEN "expect" ELSE "send"
  /\ UNCHANGED <<listVars, counter, answer, verdict, allCorrect, record, expect, queue, reader, tty, world>>

\* The character is sent again, up to a limit.
NotEchoed ==
  /\ Answered(TRUE)
  /\ answer # "match"
  /\ tries' = tries + 1
  /\ IF answer = "timeout" /\ tries' < CommandRetries
     THEN pc' = "send" /\ UNCHANGED <<verdict, allCorrect>>
     ELSE Fails
  /\ UNCHANGED <<listVars, counter, rest, answer, record, expect, queue, reader, tty, world>>

\* evaluate: how many of the expected lines come one after the other.
MeetLine(expected, n, text) ==
  IF n < Len(expected) /\ text = <<expected[n + 1]>> THEN n + 1 ELSE n

Met(expected, out) ==
  LET met[n \in 0..Len(out)] == IF n = 0 THEN 0 ELSE MeetLine(expected, met[n - 1], out[n])
  IN met[Len(out)]

Judge_AnyCredit(expected, out) ==
  IF \/ Met(expected, out) = Len(expected)
     \/ \E i \in DOMAIN out : \E c \in DOMAIN Credit : out[i] = <<c>> /\ Credit[c][1] = Credit[c][2]
  THEN "correct" ELSE "incorrect"

\* If they do not all come, the first line of partial credit may still give it all.
Judge(expected, out) ==
  LET credits == {i \in DOMAIN out : \E c \in DOMAIN Credit : out[i] = <<c>>} IN
  IF \/ Met(expected, out) = Len(expected)
     \/ credits # {} /\ Credit[out[Min(credits)][1]][1] = Credit[out[Min(credits)][1]][2]
  THEN "correct" ELSE "incorrect"

Expected(command) ==
  IF command.line.name \in DOMAIN test.expected THEN test.expected[command.line.name] ELSE <<>>

\* finishCurCommand: what there is of a last line is a line.
FinishCommand ==
  LET out == output[counter] \o (IF partial = <<>> THEN <<>> ELSE <<OutputLine(partial)>>) IN
  /\ output' = [output EXCEPT ![counter] = out]
  /\ verdict' = [verdict EXCEPT ![counter] = Judge(Expected(Command), out)]
  /\ IF counter < Len(commands) THEN counter' = counter + 1 /\ partial' = <<>>
                                ELSE UNCHANGED <<counter, partial>>

Prompted ==
  /\ Answered(FALSE)
  /\ Command.prompt # None
  /\ IF answer # "match" THEN Fails /\ UNCHANGED <<counter, record>>
     ELSE /\ FinishCommand
          /\ allCorrect' = (allCorrect /\ verdict'[counter] = "correct")
          /\ pc' = IF verdict'[counter] = "incorrect" /\ test.scoring = "entire" THEN "close" ELSE "top"
  /\ UNCHANGED <<listVars, rest, tries, answer, expect, queue, reader, tty, world>>

\* The last command: however the machine goes down is fine.
ShutDown ==
  /\ Answered(FALSE)
  /\ Command.prompt = None
  /\ FinishCommand
  /\ pc' = "close"
  /\ UNCHANGED <<listVars, rest, tries, answer, allCorrect, expect, queue, reader, tty, world>>

Close_AtOnce ==
  /\ pc = "close"
  /\ machine' = [machine EXCEPT !.state = "down"]
  /\ pc' = "done"
  /\ UNCHANGED <<listVars, counter, rest, tries, answer, verdict, allCorrect, record, expect, queue,
                 reader, tty, input, dropped, faulty, executed, spoken>>

\* Close: sys161 is killed, and what was read is received to the end.
Close ==
  /\ pc = "close"
  /\ machine' = [machine EXCEPT !.state = "down"]
  /\ pc' = "draining"
  /\ UNCHANGED <<listVars, counter, rest, tries, answer, verdict, allCorrect, record, expect, queue,
                 reader, tty, input, dropped, faulty, executed, spoken>>

Drain ==
  /\ pc = "draining"
  /\ queue # <<>>
  /\ queue' = Tail(queue)
  /\ Recv(Head(queue))
  /\ buffer' = buffer \o Head(queue)
  /\ readStatus' = IF Head(queue) = Eof THEN "eof" ELSE "none"
  /\ UNCHANGED <<listVars, run, reader, tty, world>>

Drained ==
  /\ pc = "draining"
  /\ queue = <<>> /\ reader = "ended"
  /\ pc' = "done"
  /\ UNCHANGED <<listVars, counter, rest, tries, answer, verdict, allCorrect, record, expect, queue,
                 reader, tty, world>>

Run ==
  \/ Start \/ Type \/ SendCharacter \/ Expect \/ ReadData \/ TimeOut
  \/ Echoed \/ NotEchoed \/ Prompted \/ ShutDown \/ Close \/ Drain \/ Drained

MakeList == ListNext /\ UNCHANGED <<run, record, expect, queue, reader, tty, world>>

Next == MakeList \/ Run \/ Reader \/ Machine

Spec == Init /\ [][Next]_vars

\* The goroutines are scheduled, and the machine takes what it can.
FairSpec == Spec /\ WF_vars(MakeList) /\ WF_vars(Run) /\ WF_vars(Reader) /\ WF_vars(Machine)
-----------------------------------------------------------------------------
(* Properties. *)

\* The lines of a text by the newlines that end them, and what comes after the
\* last one; the reference for Recv.
LineEnds(text) == {i \in DOMAIN text : text[i] = Newline}
Number(text, i) == Cardinality({j \in LineEnds(text) : j <= i})
Before(text, i) == SubSeq(text, Max({0} \cup {j \in LineEnds(text) : j < i}) + 1, i - 1)
Unfinished(text) == Before(text, Len(text) + 1)

LinesOf(text) ==
  [n \in 1..Cardinality(LineEnds(text)) |->
     OutputLine(Before(text, CHOOSE i \in LineEnds(text) : Number(text, i) = n))]
AllLines(text) ==
  LinesOf(text) \o (IF Unfinished(text) = <<>> THEN <<>> ELSE <<OutputLine(Unfinished(text))>>)

\* Run went on behind the command, or came to the end of the last one.
Finished(i) == i < counter \/ (i = Len(commands) /\ rest = <<>>)

\* The output of a command is what the machine printed from one prompt to the
\* next, line by line (logger.go:10), however the reads cut it, whatever was sent
\* again, and also when the machine died; only the part of a line before a failure
\* is missing.
OutputIsWhole ==
  pc = "done" => \A i \in DOMAIN spoken :
    spoken[i] # <<>> \/ i <= counter =>
      output[i] = IF Finished(i) THEN AllLines(spoken[i]) ELSE LinesOf(spoken[i])

\* Some of the lines are the expected ones, in their order.
InOrder(out, expected) ==
  \E f \in [DOMAIN expected -> DOMAIN out] :
    /\ \A i \in DOMAIN expected : out[f[i]] = <<expected[i]>>
    /\ \A i, j \in DOMAIN expected : i < j => f[i] < f[j]

FirstCredit(out) ==
  {out[i][1] : i \in {j \in DOMAIN out :
     /\ \E c \in DOMAIN Credit : out[j] = <<c>>
     /\ \A k \in 1..(j - 1) : \A c \in DOMAIN Credit : out[k] # <<c>>}}

Deserved(i) ==
  \/ InOrder(AllLines(spoken[i]), Expected(commands[i]))
  \/ \E c \in FirstCredit(AllLines(spoken[i])) : Credit[c][1] = Credit[c][2]

Healthy ==
  /\ ~faulty
  /\ IF test.retry THEN dropped < CommandRetries ELSE dropped = 0

\* Nothing but what enters and leaves an environment was put between the lines
\* of the test, each of which was typed where it belongs.
RanAsWritten ==
  \E f \in [DOMAIN Asked -> DOMAIN executed] :
    /\ \A i \in DOMAIN Asked : executed[f[i]] = Asked[i]
    /\ \A i, j \in DOMAIN Asked : i < j => f[i] < f[j]
    /\ \A n \in DOMAIN executed \ Range(f) :
         \/ StartedBy(executed[n]) # NoConf
         \/ \E c \in Range(AllConfs) : executed[n] = EndLine(c)

\* A correct test typed all of its lines into the right environments and got the
\* expected lines for each, unless characters are not sent again and some were
\* lost (run.go:573); and a machine that does all of that gets it right.
CorrectIsDeserved ==
  pc = "done" =>
    /\ allCorrect /\ (test.retry \/ dropped = 0) =>
         RanAsWritten /\ \A i \in 1..(Len(commands) - 1) : Deserved(i)
    /\ Healthy /\ (\A i \in DOMAIN spoken : i < Len(commands) => Deserved(i)) => allCorrect

\* A list of commands is made or refused, and the limit on the loop (conf.go:416)
\* stops only a list that would not end, as it enters an environment from itself, or
\* one that is long for the limit; a test that was started ends, with both goroutines
\* of Expect, and nothing is left for them to send.
ConsoleEnds ==
  /\ <>(step \in {"done", "failed"} \/ (step = "exceeded" /\ ~ShortEnough))
  /\ machine.state = "booting" ~> (pc = "done" /\ reader = "ended" /\ queue = <<>>)
=============================================================================
