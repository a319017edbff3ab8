------------------------------ MODULE Targets ------------------------------
(***************************************************************************)
(* The targets of the server (target.go, environment.go, mongopersist.go): *)
(* the staff edits the files; when the server starts it reads them one by  *)
(* one, tracks the newest active version of each target, and stores every  *)
(* version in the database, where one that submissions refer to may no     *)
(* longer change what is graded.  Then it links metatargets with their     *)
(* subtargets, and submissions are graded by what Instance makes of them.  *)
(*                                                                         *)
(* A submission is one step here: SubmissionRun has its life.  Files are   *)
(* not edited while they are read.  What a submission makes of points and  *)
(* commands is in TestRun, the tests' dependencies in DependencyGraph.    *)
(***************************************************************************)
EXTENDS Naturals, Sequences, FiniteSets, SequencesExt

CONSTANTS
  File,         \* the target files, numbered in the order of the directory
  Contents,     \* what the staff may put into each, or None
  None

Choice == (UNION {Contents[f] : f \in File}) \ {None}

(* A test of a target: its id, points, scoring, leak (MemLeakPoints) and   *)
(* cmds, what the target says of its commands: each names one of them, and *)
(* gives it points and args.  In a target, kernel is KConfig and           *)
(* RequiresUserland, and meta is None where MetaName is empty.             *)
ID(t) == <<t.name, t.version>>
Name == {t.name : t \in Choice}

\* What has subtargets is a metatarget, and no two files give the same version
\* of a target.
ASSUME TargetsAssumption ==
  /\ File \subseteq Nat /\ DOMAIN Contents = File
  /\ \A t \in Choice :
       /\ t.version \in Nat /\ t.points \in Nat /\ t.tests \in Seq(Range(t.tests))
       /\ t.subs \in Seq(Name) /\ t.meta \in Name \cup {None}
       /\ t.subs # <<>> => t.isMeta
  /\ \A f, g \in File : \A t \in Contents[f] \ {None}, u \in Contents[g] \ {None} :
       ID(t) = ID(u) => f = g

VARIABLES
  file,         \* the files on the disk
  pc,           \* the server: down, loading or up
  unread,       \* the files NewEnvironment has still to read
  targets,      \* env.Targets
  db,           \* the targets in the database, by name and version
  graded,       \* the submissions in the database
  loaded        \* the files of the last start that succeeded (history)

targetVars == <<file, pc, unread, targets, db, graded, loaded>>
store == <<db, graded>>

NoTargets == [n \in Name |-> None]

\* The values the variables take.
TargetsTypeOK ==
  /\ \A f \in File : file[f] \in Contents[f] /\ loaded[f] \in Contents[f] \cup {None}
  /\ pc \in {"down", "loading", "up"}
  /\ unread \subseteq File
  /\ targets \in [Name -> Choice \cup {None}]
  /\ db \in [{ID(t) : t \in Choice} -> Choice \cup {None}]
  /\ \A g \in graded : g.id \in DOMAIN db

TargetsInit ==
  /\ file \in {f \in [File -> Choice \cup {None}] : \A g \in File : f[g] \in Contents[g]}
  /\ pc = "down"
  /\ unread = {}
  /\ targets = NoTargets
  /\ db = [i \in {ID(t) : t \in Choice} |-> None]
  /\ graded = {}
  /\ loaded = [f \in File |-> None]

----------------------------------------------------------------------------
(* Loading.                                                                *)

\* What isChangeAllowed looks at in a test: not its commands.
Compared(test) ==
  [id |-> test.id, points |-> test.points, scoring |-> test.scoring, leak |-> test.leak]

\* oldMap: of a test that is listed twice, the last one counts.
LastWith(tests, id) ==
  {i \in DOMAIN tests : tests[i].id = id /\ \A j \in DOMAIN tests : tests[j].id = id => j <= i}

SameTests_AnyPoints(old, other) ==
  /\ Len(old.tests) = Len(other.tests)
  /\ \A t \in Range(other.tests) : LastWith(old.tests, t.id) # {}

SameTests_Fewer(old, other) ==
  \A t \in Range(other.tests) : \E i \in LastWith(old.tests, t.id) : Compared(old.tests[i]) = Compared(t)

SameTests(old, other) ==
  /\ Len(old.tests) = Len(other.tests)
  /\ \A t \in Range(other.tests) : \E i \in LastWith(old.tests, t.id) : Compared(old.tests[i]) = Compared(t)

SameSubTargets(old, other) ==
  /\ Len(old.subs) = Len(other.subs)
  /\ Range(other.subs) \subseteq Range(old.subs)

IsChangeAllowed(old, other) ==
  /\ ID(old) = ID(other)
  /\ old.type = other.type
  /\ old.points = other.points
  /\ old.isMeta = other.isMeta
  /\ SameTests(old, other)
  /\ SameSubTargets(old, other)

Submitted(id) == \E g \in graded : g.id = id

\* Notify with MSG_TARGET_LOAD: inserted, updated or, with the same hash, left.
Accepted(t) ==
  LET old == db[ID(t)] IN
  \/ old \in {None, t}
  \/ old # None /\ IsChangeAllowed(old, t)
  \/ ~Submitted(ID(t))

StartServer ==
  /\ pc = "down"
  /\ pc' = "loading"
  /\ unread' = {f \in File : file[f] # None}
  /\ targets' = NoTargets
  /\ UNCHANGED <<file, store, loaded>>

\* Only the newest version of what is active is tracked.
Track(t) ==
  IF t.active /\ (targets[t.name] = None \/ t.version > targets[t.name].version)
  THEN [targets EXCEPT ![t.name] = t] ELSE targets

IsNext(f) == pc = "loading" /\ f \in unread /\ \A g \in unread : f <= g

LoadTarget(f) ==
  /\ IsNext(f)
  /\ Accepted(file[f])
  /\ targets' = Track(file[f])
  /\ db' = [db EXCEPT ![ID(file[f])] = file[f]]
  /\ unread' = unread \ {f}
  /\ UNCHANGED <<file, pc, graded, loaded>>

\* The process ends, and with it what it has in memory.
EndServer ==
  /\ pc' = "down" /\ unread' = {} /\ targets' = NoTargets
  /\ UNCHANGED <<file, store, loaded>>

LoadFails(f) ==
  /\ IsNext(f)
  /\ ~Accepted(file[f])
  /\ EndServer

----------------------------------------------------------------------------
(* Metatargets.                                                            *)

IsSubTarget(t) == t.meta # None /\ ~t.isMeta

\* The subtargets before t in its metatarget, all of them for a metatarget.
Previous(t) ==
  IF t.isMeta THEN t.subs
  ELSE IF t.meta = None THEN <<>>
  ELSE LET names == targets[t.meta].subs
           i == CHOOSE k \in DOMAIN names :
                  names[k] = t.name /\ \A j \in 1..(k - 1) : names[j] # t.name
       IN SubSeq(names, 1, i - 1)

InitAsSubTarget(t) ==
  t.meta # None =>
    /\ targets[t.meta] # None
    /\ LET names == targets[t.meta].subs IN
         \E i \in DOMAIN names :
           /\ names[i] = t.name
           /\ \A j \in 1..(i - 1) : names[j] # t.name /\ targets[names[j]] # None

SumPoints(s) == FoldSeq(LAMBDA x, sum : x.points + sum, 0, s)
SubTargets(t) == [i \in DOMAIN t.subs |-> targets[t.subs[i]]]

InitAsMetaTarget(t) ==
  t.isMeta =>
    /\ t.tests = <<>> /\ t.subs # <<>>
    /\ \A u \in Range(SubTargets(t)) : u # None /\ u.kernel = t.kernel /\ u.type = t.type
    /\ SumPoints(SubTargets(t)) = t.points

LinkMetaTargets ==
  \A n \in Name : targets[n] # None => InitAsSubTarget(targets[n]) /\ InitAsMetaTarget(targets[n])

LoadDone ==
  /\ pc = "loading" /\ unread = {}
  /\ LinkMetaTargets
  /\ pc' = "up" /\ loaded' = file
  /\ UNCHANGED <<file, unread, targets, store>>

LinkFails ==
  /\ pc = "loading" /\ unread = {}
  /\ ~LinkMetaTargets
  /\ EndServer

----------------------------------------------------------------------------
(* Submissions.                                                            *)

AllTargets(t) ==
  (IF t.isMeta THEN <<>> ELSE <<t>>) \o [i \in DOMAIN Previous(t) |-> targets[Previous(t)[i]]]

NoTestTwice(ts) ==
  \A i, j \in DOMAIN ts : \A k \in DOMAIN ts[i].tests, l \in DOMAIN ts[j].tests :
    ts[i].tests[k].id = ts[j].tests[l].id => i = j /\ k = l

\* applyTo: under partial scoring the commands have the points of the test.
PointsAssigned(test) == test.scoring = "partial" => SumPoints(test.cmds) = test.points

\* Instance: no test twice, and the points add up in each target.
Instance(t) ==
  /\ NoTestTwice(AllTargets(t))
  /\ \A u \in Range(AllTargets(t)) : \A test \in Range(u.tests) : PointsAssigned(test)
  /\ \A u \in Range(AllTargets(t)) : SumPoints(u.tests) = u.points

\* What a submission to t is graded by: a metatarget has only points.
Graded(t) == [id |-> ID(t), points |-> t.points, tests |-> Range(t.tests)]

\* A submission to a subtarget is one to its metatarget, and is split.
Recorded(t) == IF IsSubTarget(t) THEN targets[t.meta] ELSE t

SubmitTo(n) ==
  /\ pc = "up" /\ targets[n] # None
  /\ Instance(targets[n])
  /\ graded' = graded \cup {Graded(u) : u \in {Recorded(targets[n])} \cup Range(AllTargets(targets[n]))}
  /\ UNCHANGED <<file, pc, unread, targets, db, loaded>>

----------------------------------------------------------------------------
Edit(f, t) ==
  /\ pc # "loading" /\ file[f] # t
  /\ file' = [file EXCEPT ![f] = t]
  /\ UNCHANGED <<pc, unread, targets, store, loaded>>

\* The server stops, or dies, also between two files.
StopServer ==
  /\ pc # "down"
  /\ EndServer

TargetsNext ==
  \/ \E f \in File : LoadTarget(f) \/ LoadFails(f)
  \/ StartServer \/ LoadDone \/ LinkFails \/ StopServer
  \/ \E f \in File, t \in Choice \cup {None} : t \in Contents[f] /\ Edit(f, t)
  \/ \E n \in Name : SubmitTo(n)

TargetsSpec == TargetsInit /\ [][TargetsNext]_targetVars

----------------------------------------------------------------------------
(* The submissions of one version of a target are graded by the same tests *)
(* with the same points, scoring and leak points, whatever the staff edits *)
(* between restarts, also those that failed (target.go:481-504,            *)
(* mongopersist.go:219).  Of a metatarget only the points are kept.  The   *)
(* commands of a test, by whose points partial credit is given, are not    *)
(* compared: they may be edited under the same version.                    *)
CompareTests(S) == {Compared(test) : test \in S}
TestsAlike ==
  \A g, h \in graded :
    g.id = h.id => g.points = h.points /\ CompareTests(g.tests) = CompareTests(h.tests)

(* The files of the last start that succeeded are accepted again: neither  *)
(* submissions, nor starts that failed or died after some of the files had *)
(* changed the database, lock the staff out of the state they had.  The    *)
(* exception is a target that lists a test or subtarget twice, which       *)
(* isChangeAllowed takes for a change of order (target.go:481).            *)
ListsTwice(t) == ~IsInjective(t.subs) \/ ~IsInjective([i \in DOMAIN t.tests |-> t.tests[i].id])
LastGoodLoads ==
  \A f \in File : loaded[f] # None =>
    Accepted(loaded[f]) \/ ListsTwice(db[ID(loaded[f])])
============================================================================
