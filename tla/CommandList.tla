------------------------------ MODULE CommandList ------------------------------
(***************************************************************************)
(* initCommands (conf.go): from the lines of a test file to the list of    *)
(* commands that is typed at the kernel.  A line is for the kernel's menu, *)
(* the shell or a program with an environment of its own, told by its      *)
(* prefix; the commands that enter and leave the environments are put in   *)
(* by rewriting the list of lines until it is used up.  One iteration of   *)
(* the loop is one action.                                                 *)
(*                                                                         *)
(* A command line is a record [prefix, name].  The environments are        *)
(* records [prefix, prompt, start, end]: the command line that enters one  *)
(* from another, and the one that leaves it.                               *)
(***************************************************************************)
EXTENDS Naturals, SequencesExt

CONSTANTS
  Tests,        \* the tests: [confs, content], Test.CommandConf and Test.Content
  Prefix,       \* the prefixes of the environments
  Word,         \* the texts that commands and prompts are made of
  KernelPrompt, ShellPrompt,
  UserNames,    \* the names of commands that begin with "p ", user programs
  MaxExpansionLoops,  \* MAX_EXPANSION_LOOPS
  Pipe,         \* the modifier |, which puts a khu before and after a line
  NoConf        \* the environment of a prefix that is not defined

None == "none"      \* no prefix, or no prompt to wait for

Line(prefix, name) == [prefix |-> prefix, name |-> name]

KernelConf == [prefix |-> None, prompt |-> KernelPrompt, start |-> Line(None, None), end |-> Line(None, "q")]
ShellConf == [prefix |-> "$", prompt |-> ShellPrompt, start |-> Line(None, "s"), end |-> Line(None, "exit")]

CommandLine == [prefix : Prefix \cup {None}, name : Word \cup {None}]
Environment == [prefix : Prefix \cup {None}, prompt : Word, start : CommandLine, end : CommandLine]

\* Content is a sequence of [mods, line]; a modifier is a multiplier, or Pipe.
ASSUME TestsAssumption ==
  /\ MaxExpansionLoops \in Nat
  /\ "$" \in Prefix /\ None \notin Prefix \cup Word /\ NoConf \notin Environment
  /\ {KernelPrompt, ShellPrompt, "boot", "khu", "modified", "s", "q", "exit"} \subseteq Word
  /\ \A t \in Tests :
       /\ t.confs \in Seq(Environment)
       /\ t.content \in Seq([mods : Seq(Nat \cup {Pipe}), line : CommandLine])

VARIABLES
  test,         \* the test that is read
  step,         \* where initCommands is
  lines,        \* commandLines: what is still to be expanded
  stack,        \* commandConfStack: the environments, the innermost first
  commands,     \* Test.Commands
  loops

listVars == <<test, step, lines, stack, commands, loops>>

Confs == test.confs
-----------------------------------------------------------------------------
(* Before the loop. *)

\* checkCommandConf: each environment has a prefix of its own, and is entered
\* from another one and left without a prefix, and none of this is empty.
ConfsValid(confs) ==
  \A i \in DOMAIN confs :
    /\ confs[i].prefix \notin {None, "$"}
    /\ confs[i].start.name # None /\ confs[i].end.name # None
    /\ \A j \in 1..(i - 1) : confs[j].prefix # confs[i].prefix
    /\ confs[i].start.prefix # confs[i].prefix
    /\ confs[i].end.prefix = None
    /\ confs[i].start.prefix \in {None, "$"} \cup {confs[j].prefix : j \in DOMAIN confs}

\* A line that still has a modifier is not one of the commands of the menu.
Khu == [mods |-> <<>>, line |-> Line(None, "khu")]

Simplified(l) ==
  IF l.mods = <<>> THEN <<l>>
  ELSE LET inner == [l EXCEPT !.mods = Tail(@)] IN
       IF Head(l.mods) = Pipe THEN <<Khu, inner, Khu>>
       ELSE [i \in 1..Head(l.mods) |-> inner]

DoSimplePrefixes(content) == FlattenSeq([i \in DOMAIN content |-> Simplified(content[i])])

\* simplePrefixes: a modifier may have one more inside, and no third.
SimplePrefixes(content) ==
  LET simple == DoSimplePrefixes(DoSimplePrefixes(content)) IN
  [i \in DOMAIN simple |->
     IF simple[i].mods = <<>> THEN simple[i].line ELSE Line(None, "modified")]

Boot == [line |-> Line(None, "boot"), type |-> "kernel", prompt |-> KernelPrompt]

ListInit ==
  /\ test \in Tests
  /\ step = "check"
  /\ lines = <<>> /\ stack = <<>> /\ commands = <<>> /\ loops = 0

Check ==
  /\ step = "check"
  /\ IF ConfsValid(Confs)
     THEN /\ step' = "loop"
          /\ stack' = <<KernelConf>>
          /\ commands' = <<Boot>>
          /\ lines' = SimplePrefixes(test.content)
     ELSE step' = "failed" /\ UNCHANGED <<stack, commands, lines>>
  /\ UNCHANGED <<test, loops>>
-----------------------------------------------------------------------------
(* The loop. *)

\* The first of some of the environments.
FirstOf(confs, some) == IF some = {} THEN NoConf ELSE confs[Min(some)]

\* commandConfFromLine: the environment that a line is for, by its prefix.
ConfOf(l) ==
  CASE l.prefix = None -> KernelConf
    [] l.prefix = "$"  -> ShellConf
    [] OTHER           -> FirstOf(Confs, {i \in DOMAIN Confs : Confs[i].prefix = l.prefix})

AllConfs == Confs \o <<ShellConf, KernelConf>>
StartedBy(l) == FirstOf(AllConfs, {i \in DOMAIN AllConfs : AllConfs[i].start = l})

EndLine(conf) == Line(conf.prefix, conf.end.name)

Loop ==
  /\ step = "loop"
  /\ loops < MaxExpansionLoops
  /\ loops' = loops + 1
  /\ UNCHANGED test

LoopsExceeded ==
  /\ step = "loop"
  /\ loops = MaxExpansionLoops
  /\ step' = "exceeded"
  /\ UNCHANGED <<test, lines, stack, commands, loops>>

\* The kernel was left: nothing may come after that.
KernelLeft ==
  /\ Loop
  /\ stack = <<>>
  /\ step' = IF lines = <<>> THEN "done" ELSE "failed"
  /\ UNCHANGED <<lines, stack, commands>>

\* No more lines: leave the environments that are still there.
CleanUp ==
  /\ Loop
  /\ stack # <<>> /\ lines = <<>>
  /\ lines' = <<EndLine(Head(stack))>>
  /\ UNCHANGED <<step, stack, commands>>

BadLine ==
  /\ Loop
  /\ stack # <<>> /\ lines # <<>>
  /\ Head(lines).name = None \/ ConfOf(Head(lines)) = NoConf
  /\ step' = "failed"
  /\ UNCHANGED <<lines, stack, commands>>

Current == Head(stack)
AtLine(l) == stack # <<>> /\ lines # <<>> /\ l = Head(lines) /\ l.name # None /\ ConfOf(l) # NoConf

ChangeEnvironment_Restart(l) ==
  /\ Loop
  /\ AtLine(l)
  /\ ConfOf(l) # Current
  /\ lines' = (IF ConfOf(l) = KernelConf THEN <<EndLine(Current)>> ELSE <<ConfOf(l).start, l>>)
                \o Tail(lines)
  /\ UNCHANGED <<step, stack, commands>>

\* The line is for another environment: leave this one, if that one is found on
\* the stack, or else enter it.  The search compares pointers, and finds the
\* kernel's environment only.
ChangeEnvironment(l) ==
  /\ Loop
  /\ AtLine(l)
  /\ ConfOf(l) # Current
  /\ lines' = <<IF ConfOf(l) = KernelConf THEN EndLine(Current) ELSE ConfOf(l).start>> \o lines
  /\ UNCHANGED <<step, stack, commands>>

AddCommand(l, in, next) ==
  commands' = Append(commands,
    [line |-> l,
     type |-> IF in.prefix # None \/ l.name \in UserNames THEN "user" ELSE "kernel",
     prompt |-> IF next = <<>> THEN None ELSE Head(next).prompt])

\* The line is a command of this environment; it may leave it or enter another.
TakeLine(l) ==
  /\ Loop
  /\ AtLine(l)
  /\ ConfOf(l) = Current
  /\ LET entered == StartedBy(l) IN
     stack' = IF l.name = Current.end.name THEN Tail(stack)
              ELSE IF entered # NoConf THEN <<entered>> \o stack
              ELSE stack
  /\ AddCommand(l, IF Len(stack') > Len(stack) THEN Head(stack') ELSE Current, stack')
  /\ lines' = Tail(lines)
  /\ UNCHANGED step

ListNext ==
  \/ Check \/ LoopsExceeded \/ KernelLeft \/ CleanUp \/ BadLine
  \/ \E l \in Range(lines) : ChangeEnvironment(l) \/ TakeLine(l)
-----------------------------------------------------------------------------
(* What the test asks for: the reference for the loop. *)

Asked == SimplePrefixes(test.content)

\* An environment is entered by a command of another one that does not leave
\* that one, and enters no other.
Entered(conf) ==
  LET from == ConfOf(conf.start) IN
  StartedBy(conf.start) = conf /\ from # NoConf /\ conf.start.name # from.end.name

\* There is a way into it from the kernel.
Enterable(conf) ==
  \A some \in SUBSET Range(AllConfs) :
    /\ KernelConf \in some
    /\ \A c \in Range(AllConfs) : Entered(c) /\ ConfOf(c.start) \in some => c \in some
    => conf \in some

Expandable ==
  /\ ConfsValid(Confs)
  /\ \A i \in DOMAIN Asked :
       /\ Asked[i].name # None
       /\ ConfOf(Asked[i]) # NoConf
       /\ Enterable(ConfOf(Asked[i]))
       /\ Asked[i] = EndLine(KernelConf) => i = Len(Asked)

\* How long the loop may take for such a list: a line makes it leave each of the
\* environments and enter each, with two iterations for one, and takes one more;
\* in the end it leaves them all.
MostLoops ==
  Len(Asked) * (4 * (Len(AllConfs) - 1) + 1) + 2 * Len(AllConfs) + 1
ShortEnough == Expandable /\ MostLoops <= MaxExpansionLoops

\* A test is refused, other than by the limit on the loop, exactly when its
\* environments or its lines cannot be made into a session: a "q" with lines left
\* is a "premature exit in command list" (conf.go:422).
RefusedForReason ==
  /\ step = "failed" => ~Expandable
  /\ step = "done" => Expandable
=============================================================================
