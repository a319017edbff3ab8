----------------------------- MODULE BuildCache -----------------------------
(***************************************************************************)
(* Builds in a cached directory (build.go): the submissions of one         *)
(* repository share CacheDir/hash(repo).  ToBuildTest looks at the         *)
(* directory, and removes a part of it, when the request is made;          *)
(* BuildTest.Run executes the commands later, when the students of the     *)
(* submission are locked.  The overlay brings files in which every SECRET  *)
(* is replaced by a key of the build, by a goroutine for each file.        *)
(*                                                                         *)
(* Nothing but the lock on the students keeps two builds out of the        *)
(* directory ("TODO: Lock the build directory", build.go:271), and it only *)
(* does that to submissions with a student in common: two partners that    *)
(* submit their repository each for himself get in each other's way.       *)
(***************************************************************************)
EXTENDS Naturals, Sequences, FiniteSets

CONSTANTS
  Submission,   \* submissions of the repository
  Students,     \* the students of each
  SecretFile,   \* the files named in the overlay's SECRET file
  Cmd,          \* the test commands
  Mentions,     \* the commands whose key a file asks for
  None,
  Empty         \* a directory without a kernel

ASSUME CacheAssumption ==
  /\ IsFiniteSet(SecretFile) /\ IsFiniteSet(Cmd)
  /\ Mentions \in [SecretFile -> SUBSET Cmd]
  /\ {None, Empty} \cap (Submission \cup SecretFile) = {} /\ None # Empty
  /\ None \notin Submission \X SecretFile

VARIABLES
  stage,        \* where each submission is
  locked,       \* the students that are locked
  cmds,         \* BuildTest.Commands, those still to execute
  keyMap,       \* the key of each command: a key is named by the file it was made for
  worker,       \* doSecureOverlayFile of each file
  todo,         \* the commands whose SECRET it still has to replace
  buf,          \* the keys in what it has read and replaced
  received,     \* the results overlayHandler has received
  failed,       \* has one of them been an error?
  src,          \* the source tree: absent, as cloned, or the submission checked out
  file,         \* the keys in the secure files; None is the word SECRET
  comp,         \* the compile directory: None, Empty, or with a kernel
  root,         \* the installed kernel, or None
  outlived,     \* has a goroutine outlived its command?
  mixed         \* the submissions that were at work together with another team's

build == <<cmds, keyMap>>
overlay == <<worker, todo, buf, received, failed>>
cache == <<src, file, comp, root>>
history == <<outlived, mixed>>
cacheVars == <<stage, locked, build, overlay, cache, history>>

Key == Submission \X SecretFile
NoKeys == [c \in Cmd |-> None]
Source == Submission \cup {"absent", "head"}
Contents == [SecretFile -> [Cmd -> Key \cup {None}]]
Kernel == [src : Source, file : Contents]
CurrentKernel == [src |-> src, file |-> file]

\* The commands: "secrets" is sync with overlayHandler, userland is left out.
Clone == <<"clone">>
Update == <<"reset", "gitclean", "fetch">>
Build == <<"checkout", "log", "rsync", "secrets", "commit", "configure", "config",
           "clean", "depend", "compile", "install">>
Command == {(Clone \o Update \o Build)[i] : i \in 1..15}

\* The values the variables take.
CacheTypeOK ==
  /\ stage \in [Submission -> {"new", "planned", "locked", "running", "built", "closed"}]
  /\ locked \subseteq UNION {Students[r] : r \in Submission}
  /\ cmds \in [Submission -> Seq(Command)]
  /\ keyMap \in [Submission -> [Cmd -> Key \cup {None}]]
  /\ worker \in [Submission -> [SecretFile -> {"idle", "start", "reading", "scanerr",
                                               "rename", "error", "ok", "done"}]]
  /\ todo \in [Submission -> [SecretFile -> SUBSET Cmd]]
  /\ buf \in [Submission -> Contents]
  /\ received \in [Submission -> 0..Cardinality(SecretFile)]
  /\ failed \in [Submission -> BOOLEAN]
  /\ src \in Source
  /\ file \in Contents
  /\ comp \in {None, Empty} \cup Kernel
  /\ root \in {None} \cup Kernel
  /\ outlived \in BOOLEAN
  /\ mixed \subseteq Submission

CacheInit ==
  /\ stage = [r \in Submission |-> "new"]
  /\ locked = {}
  /\ cmds = [r \in Submission |-> <<>>]
  /\ keyMap = [r \in Submission |-> NoKeys]
  /\ worker = [r \in Submission |-> [f \in SecretFile |-> "idle"]]
  /\ todo = [r \in Submission |-> [f \in SecretFile |-> {}]]
  /\ buf = [r \in Submission |-> [f \in SecretFile |-> NoKeys]]
  /\ received = [r \in Submission |-> 0]
  /\ failed = [r \in Submission |-> FALSE]
  /\ src = "absent"
  /\ file = [f \in SecretFile |-> NoKeys]
  /\ comp = None /\ root = None
  /\ outlived = FALSE /\ mixed = {}
-----------------------------------------------------------------------------
(* NewSubmission. *)

\* ToBuildTest decides on the commands and removes the compile directory, even
\* for a request that will be refused.
Plan(r) ==
  /\ stage[r] = "new"
  /\ stage' = [stage EXCEPT ![r] = "planned"]
  /\ cmds' = [cmds EXCEPT ![r] = (IF src = "absent" THEN Clone ELSE Update) \o Build]
  /\ comp' = None
  /\ UNCHANGED <<locked, keyMap, overlay, src, file, root, history>>

\* It holds the lock on its students, and works in the directory.
Active(r) == stage[r] \in {"locked", "running", "built"}

\* Those that the lock on the students of r does not keep out.
Others(r) == {q \in Submission : Active(q) /\ Students[q] \cap Students[r] = {}}

Lock(r) ==
  /\ stage[r] = "planned"
  /\ IF Students[r] \cap locked = {}
     THEN /\ stage' = [stage EXCEPT ![r] = "locked"] /\ locked' = locked \cup Students[r]
          /\ mixed' = IF Others(r) = {} THEN mixed ELSE mixed \cup Others(r) \cup {r}
     ELSE stage' = [stage EXCEPT ![r] = "closed"] /\ UNCHANGED <<locked, mixed>>
  /\ UNCHANGED <<build, overlay, cache, outlived>>
-----------------------------------------------------------------------------
(* BuildTest.Run. *)

Begin(r) ==
  /\ stage[r] = "locked"
  /\ stage' = [stage EXCEPT ![r] = "running"]
  /\ keyMap' = [keyMap EXCEPT ![r] = NoKeys]
  /\ UNCHANGED <<locked, cmds, overlay, cache, history>>

AtCommand(r, c) == stage[r] = "running" /\ cmds[r] # <<>> /\ Head(cmds[r]) = c

\* The command succeeds: the next one, or the tests.
Succeed(r) ==
  /\ cmds' = [cmds EXCEPT ![r] = Tail(@)]
  /\ stage' = [stage EXCEPT ![r] = IF cmds'[r] = <<>> THEN "built" ELSE @]
  /\ UNCHANGED locked

\* It fails: the submission is over, and the cached directory stays as it is.
Fail(r) ==
  /\ stage' = [stage EXCEPT ![r] = "closed"]
  /\ locked' = locked \ Students[r]
  /\ UNCHANGED cmds

\* The secure files as the overlay (and the commit of an earlier build) has them.
Overlaid == [f \in SecretFile |-> NoKeys]

\* What a command does to the directory, and whether it can.
Effect(r, c) ==
  \/ c = "clone" /\ src = "absent" /\ src' = "head" /\ UNCHANGED <<file, comp, root>>
  \/ c \in {"gitclean", "fetch", "log", "commit", "configure"} /\ UNCHANGED cache
  \/ c = "checkout" /\ src' = r /\ UNCHANGED <<file, comp, root>>
  \/ c \in {"reset", "rsync"} /\ file' = Overlaid /\ UNCHANGED <<src, comp, root>>
  \/ /\ c = "config"
     /\ comp' = IF comp = None THEN Empty ELSE comp
     /\ UNCHANGED <<src, file, root>>
  \/ c = "clean" /\ comp # None /\ comp' = Empty /\ UNCHANGED <<src, file, root>>
  \/ c = "depend" /\ comp # None /\ UNCHANGED cache
  \/ c = "compile" /\ comp # None /\ comp' = CurrentKernel /\ UNCHANGED <<src, file, root>>
  \/ /\ c = "install" /\ comp # None
     /\ root' = IF comp = Empty THEN CurrentKernel ELSE comp
     /\ UNCHANGED <<src, file, comp>>

Execute(r, c) ==
  /\ AtCommand(r, c)
  /\ Effect(r, c)
  /\ Succeed(r)
  /\ UNCHANGED <<keyMap, overlay, history>>

\* Any command may fail, for a reason of its own or because of the directory.
ExecuteFails(r, c) ==
  /\ AtCommand(r, c)
  /\ c = "secrets" => \A f \in SecretFile : worker[r][f] = "idle"
  /\ Fail(r)
  /\ UNCHANGED <<keyMap, overlay, cache, history>>

\* The tests of a built submission are done.
Close(r) ==
  /\ stage[r] = "built"
  /\ stage' = [stage EXCEPT ![r] = "closed"]
  /\ locked' = locked \ Students[r]
  /\ UNCHANGED <<build, overlay, cache, history>>
-----------------------------------------------------------------------------
(* overlayHandler and its goroutines, doSecureOverlayFile. *)

StartOverlay(r) ==
  /\ AtCommand(r, "secrets")
  /\ \A f \in SecretFile : worker[r][f] = "idle"
  /\ worker' = [worker EXCEPT ![r] = [f \in SecretFile |-> "start"]]
  /\ UNCHANGED <<stage, locked, build, todo, buf, received, failed, cache, history>>

Become(r, f, w) == worker' = [worker EXCEPT ![r][f] = w]

\* What it does then is send the error.
OpenFails_Silently == "done"
OpenFails == "error"

\* It reads the file as it is; or it cannot, or cannot make the temporary file.
Open(r, f) ==
  /\ worker[r][f] = "start"
  /\ \/ /\ Become(r, f, "reading")
        /\ buf' = [buf EXCEPT ![r][f] = file[f]]
        /\ todo' = [todo EXCEPT ![r][f] = {c \in Mentions[f] : file[f][c] = None}]
     \/ Become(r, f, OpenFails) /\ UNCHANGED <<buf, todo>>
  /\ UNCHANGED <<stage, locked, build, received, failed, cache, history>>

KeyFor_AlwaysNew(r, f, c) == <<r, f>>

\* getKey, under keyLock: the first file that needs the key makes it.
KeyFor(r, f, c) == IF keyMap[r][c] = None THEN <<r, f>> ELSE keyMap[r][c]

Replace(r, f, c) ==
  /\ worker[r][f] = "reading"
  /\ c \in todo[r][f]
  /\ keyMap' = [keyMap EXCEPT ![r][c] = KeyFor(r, f, c)]
  /\ buf' = [buf EXCEPT ![r][f][c] = keyMap'[r][c]]
  /\ todo' = [todo EXCEPT ![r][f] = @ \ {c}]
  /\ UNCHANGED <<stage, locked, cmds, worker, received, failed, cache, history>>

\* The file is read; or a line is too long or cannot be written, and that error
\* is sent at once, but the goroutine goes on.
ScanEnds(r, f) ==
  /\ worker[r][f] = "reading"
  /\ \/ Become(r, f, "scanerr")
     \/ todo[r][f] = {} /\ Become(r, f, "rename")
  /\ UNCHANGED <<stage, locked, build, todo, buf, received, failed, cache, history>>

RenameFile(r, f) ==
  /\ worker[r][f] = "rename"
  /\ file' = [file EXCEPT ![f] = buf[r][f]]
  /\ Become(r, f, "ok")
  /\ UNCHANGED <<stage, locked, build, todo, buf, received, failed, src, comp, root, history>>

\* The handler receives as many results as there are files.
Waiting(r) == AtCommand(r, "secrets") /\ received[r] < Cardinality(SecretFile)

\* It may have another error for the next line; in the end it renames the file.
AfterSend(w) == IF w = "scanerr" THEN {"scanerr", "rename"} ELSE {"done"}

Receive(r, f) ==
  /\ Waiting(r)
  /\ worker[r][f] \in {"scanerr", "error", "ok"}
  /\ \E w \in AfterSend(worker[r][f]) : Become(r, f, w)
  /\ received' = [received EXCEPT ![r] = @ + 1]
  /\ failed' = [failed EXCEPT ![r] = @ \/ worker[r][f] # "ok"]
  /\ UNCHANGED <<stage, locked, build, todo, buf, cache, history>>

\* All received: fail if one was an error; else remove the REMOVED files, which
\* may fail too.
EndOverlay(r) ==
  /\ AtCommand(r, "secrets")
  /\ received[r] = Cardinality(SecretFile)
  /\ Fail(r) \/ (~failed[r] /\ Succeed(r))
  /\ outlived' = (outlived \/ \E f \in SecretFile : worker[r][f] # "done")
  /\ UNCHANGED <<keyMap, overlay, cache, mixed>>

Worker(r, f) ==
  Open(r, f) \/ (\E c \in Cmd : Replace(r, f, c)) \/ ScanEnds(r, f) \/ RenameFile(r, f)

RunStep(r) ==
  \/ Lock(r) \/ Begin(r) \/ Close(r)
  \/ \E c \in Command : Execute(r, c) \/ ExecuteFails(r, c)
  \/ StartOverlay(r) \/ (\E f \in SecretFile : Receive(r, f)) \/ EndOverlay(r)

CacheNext == \E r \in Submission : Plan(r) \/ RunStep(r) \/ \E f \in SecretFile : Worker(r, f)

CacheSpec == CacheInit /\ [][CacheNext]_cacheVars

\* The server's goroutines run, and every command ends.
CacheFairSpec ==
  /\ CacheSpec
  /\ \A r \in Submission :
       /\ WF_cacheVars(RunStep(r))
       /\ \A f \in SecretFile : WF_cacheVars(Worker(r, f))
-----------------------------------------------------------------------------
\* The tests of a submission run on the kernel of its own commit, and every key
\* in it is the one that the build has recorded for the command, with which the
\* output is checked: though others plan, are refused and build in the same
\* directory, and leave it in any state.  Excepted are those that were at work at
\* the same time as a submission without a student in common (build.go:271); and
\* no goroutine must outlive its build.
KernelIsOwn ==
  ~outlived =>
    \A r \in Submission \ mixed : stage[r] = "built" =>
      /\ root.src = r
      /\ \A f \in SecretFile : \A c \in Mentions[f] :
           root.file[f][c] = keyMap[r][c] /\ keyMap[r][c] # None

\* overlayHandler gets as many results as it waits for, though a file may send
\* several results after an error, and every submission that locks its students
\* unlocks them.
BuildsEnd == \A r \in Submission : (stage[r] = "locked") ~> (stage[r] = "closed")
=============================================================================
