------------------------- MODULE EnvironmentProofs -------------------------
(***************************************************************************)
(* Proofs about what hangs on the server's TestEnvironment                 *)
(* (environment.go): its manager, the submission managers, its targets.    *)
(*                                                                         *)
(* First TestManager, for every set of jobs, every set of clients and      *)
(* every set of capacities, and then SubmissionManager, which meets the    *)
(* assumption TestManager makes about the clients of queueCond.  The       *)
(* counters of the code are the cardinalities of sets of goroutines        *)
(* (CountsExact, SMCountsExact); everything else is then an argument about *)
(* those sets.                                                             *)
(*                                                                         *)
(* Then Targets: submissions to one version of a target are graded alike,  *)
(* for any files, any contents, and any number of edits, restarts and      *)
(* submissions.                                                            *)
(***************************************************************************)
EXTENDS SubmissionManager, Targets, FiniteSetTheorems, TLAPS

Among(D, f, S) == {x \in D : f[x] \in S}
In(f, S) == Among(Job, f, S)
One(b) == IF b THEN 1 ELSE 0

\* Moving one member of a finite set from a state to another changes a count by
\* at most one.
LEMMA AmongMove ==
  ASSUME NEW D, IsFiniteSet(D), NEW f, NEW j \in D, NEW s, NEW S, f = [x \in D |-> f[x]]
  PROVE  /\ Cardinality(Among(D, [f EXCEPT ![j] = s], S))
              = Cardinality(Among(D, f, S)) - One(f[j] \in S) + One(s \in S)
         /\ Cardinality(Among(D, f, S)) \in Nat
  <1> DEFINE g == [f EXCEPT ![j] = s]
             Rest == Among(D, f, S) \ {j}
  <1>1. IsFiniteSet(Among(D, f, S)) /\ Cardinality(Among(D, f, S)) \in Nat
    BY FS_Subset, FS_CardinalityType DEF Among
  <1>2. /\ IsFiniteSet(Rest)
        /\ Cardinality(Rest) \in Int
        /\ Cardinality(Rest) = Cardinality(Among(D, f, S)) - One(f[j] \in S)
    <2>1. IsFiniteSet(Rest)
      BY <1>1, FS_RemoveElement
    <2>2. CASE f[j] \in S
      <3>1. j \in Among(D, f, S) BY <2>2 DEF Among
      <3>2. Cardinality(Rest) = Cardinality(Among(D, f, S)) - 1
        BY <1>1, <3>1, FS_RemoveElement
      <3> QED BY <1>1, <2>1, <2>2, <3>2 DEF One
    <2>3. CASE f[j] \notin S
      <3>1. j \notin Among(D, f, S) BY <2>3 DEF Among
      <3>2. Cardinality(Rest) = Cardinality(Among(D, f, S))
        BY <1>1, <3>1, FS_RemoveElement
      <3> QED BY <1>1, <2>1, <2>3, <3>2 DEF One
    <2> QED BY <2>2, <2>3
  <1>3. CASE s \in S
    <2>1. Among(D, g, S) = Rest \cup {j}
      BY <1>3 DEF Among
    <2>2. Cardinality(Rest \cup {j}) = Cardinality(Rest) + 1
      <3>1. j \notin Rest OBVIOUS
      <3> QED BY <1>2, <3>1, FS_AddElement
    <2>3. One(s \in S) = 1 /\ One(f[j] \in S) \in Int
      BY <1>3 DEF One
    <2> HIDE DEF g, Rest
    <2> QED BY <1>1, <1>2, <2>1, <2>2, <2>3 DEF g
  <1>4. CASE s \notin S
    <2>1. Among(D, g, S) = Rest
      BY <1>4 DEF Among
    <2>2. One(s \in S) = 0 /\ One(f[j] \in S) \in Int
      BY <1>4 DEF One
    <2> HIDE DEF g, Rest
    <2> QED BY <1>1, <1>2, <2>1, <2>2 DEF g
  <1> QED BY <1>3, <1>4

\* A set of jobs is finite, and has no more elements than a uint can count.
LEMMA CountType ==
  ASSUME NEW f, NEW S
  PROVE  /\ IsFiniteSet(In(f, S))
         /\ Cardinality(In(f, S)) \in Nat
         /\ Cardinality(In(f, S)) <= UintMax
         /\ In(f, S) # {} <=> Cardinality(In(f, S)) > 0
  <1>1. /\ IsFiniteSet(In(f, S))
        /\ Cardinality(In(f, S)) <= Cardinality(Job)
    BY JobAssumption, FS_Subset DEF In, Among
  <1>2. Cardinality(In(f, S)) \in Nat /\ Cardinality(Job) \in Nat
    BY <1>1, JobAssumption, FS_CardinalityType
  <1>3. Cardinality(In(f, S)) = 0 <=> In(f, S) = {}
    BY <1>1, FS_EmptySet
  <1> QED BY <1>1, <1>2, <1>3, UintAssumption

LEMMA CountMove ==
  ASSUME NEW f, NEW j \in Job, NEW s, NEW S, f = [x \in Job |-> f[x]]
  PROVE  Cardinality(In([f EXCEPT ![j] = s], S))
           = Cardinality(In(f, S)) - One(f[j] \in S) + One(s \in S)
  BY AmongMove, JobAssumption DEF In
-----------------------------------------------------------------------------
\* What a Signal does to the goroutines: nothing if nobody sleeps, else it
\* wakes exactly one of them.
LEMMA SignalMoves ==
  ASSUME NEW f, NEW who, NEW g \in Signalled(f, who)
  PROVE  \/ /\ g = f
            /\ \A x \in who : f[x] # "asleep"
         \/ \E x \in who : f[x] = "asleep" /\ g = [f EXCEPT ![x] = "woken"]
  BY DEF Signalled

\* Finish takes its job out of the running ones, then wakes one that sleeps.
LEMMA FinishMoves ==
  ASSUME NEW j \in Job, Finish(j)
  PROVE  LET ended == [job EXCEPT ![j] = "done"] IN
         \/ /\ job' = ended
            /\ \A x \in Job : ended[x] # "asleep"
         \/ \E x \in Job : ended[x] = "asleep" /\ job' = [ended EXCEPT ![x] = "woken"]
  <1> DEFINE ended == [job EXCEPT ![j] = "done"]
  <1>1. job' \in Signalled(ended, Job)
    BY DEF Finish
  <1> HIDE DEF ended
  <1>2. \/ /\ job' = ended
           /\ \A x \in Job : ended[x] # "asleep"
        \/ \E x \in Job : ended[x] = "asleep" /\ job' = [ended EXCEPT ![x] = "woken"]
    BY <1>1, SignalMoves
  <1> QED BY <1>2 DEF ended
-----------------------------------------------------------------------------
(* Types. *)

LEMMA UintArithmetic ==
  ASSUME NEW m \in 0..UintMax, NEW n \in 0..UintMax
  PROVE  Inc(m) \in 0..UintMax /\ Dec(m) \in 0..UintMax /\ Higher(m, n) \in 0..UintMax
  BY UintAssumption DEF Inc, Dec, Higher

LEMMA CountersType ==
  ASSUME NEW s \in [StatsField -> 0..UintMax]
  PROVE  /\ CountRunning(s) \in [StatsField -> 0..UintMax]
         /\ CountQueued(s) \in [StatsField -> 0..UintMax]
         /\ [s EXCEPT !.Queued = Dec(@)] \in [StatsField -> 0..UintMax]
         /\ [s EXCEPT !.Running = Dec(@), !.Finished = Inc(@)] \in [StatsField -> 0..UintMax]
  BY UintArithmetic DEF CountRunning, CountQueued, StatsField

\* The counters, one by one.
LEMMA StatsType ==
  ASSUME TypeOK
  PROVE  /\ stats = [f \in StatsField |-> stats[f]]
         /\ stats.Running \in 0..UintMax /\ stats.HighRunning \in 0..UintMax
         /\ stats.Queued \in 0..UintMax /\ stats.Finished \in 0..UintMax
         /\ UintMax \in Nat
  <1>1. stats \in [StatsField -> 0..UintMax]
    BY DEF TypeOK
  <1>2. {"Running", "HighRunning", "Queued", "Finished"} \subseteq StatsField
    BY DEF StatsField
  <1>3. \A f \in StatsField : stats[f] \in 0..UintMax
    BY <1>1
  <1>4. stats = [f \in StatsField |-> stats[f]]
    BY <1>1
  <1> QED BY <1>2, <1>3, <1>4, UintAssumption

\* Type correctness: in particular no counter leaves the range of its type.
THEOREM TypeCorrect == DynamicSpec => []TypeOK
  <1>1. Init => TypeOK
    BY UintAssumption DEF Init, TypeOK, JobState, ClientState
  <1>2. TypeOK /\ [NextDynamic]_vars => TypeOK'
    <2> SUFFICES ASSUME TypeOK, [NextDynamic]_vars PROVE TypeOK'
      OBVIOUS
    <2>1. CASE Start
      BY <2>1, UintAssumption DEF TypeOK, Start
    <2>2. CASE Stop
      BY <2>2 DEF TypeOK, Stop
    <2>3. ASSUME NEW j \in Job, Submit(j) PROVE TypeOK'
      BY <2>3 DEF TypeOK, Submit, JobState
    <2>4. ASSUME NEW j \in Job, RunNow(j) PROVE TypeOK'
      BY <2>4, CountersType DEF TypeOK, RunNow, JobState
    <2>5. ASSUME NEW j \in Job, Enqueue(j) PROVE TypeOK'
      BY <2>5, CountersType DEF TypeOK, Enqueue, JobState
    <2>6. ASSUME NEW j \in Job, WaitAgain(j) PROVE TypeOK'
      BY <2>6 DEF TypeOK, WaitAgain, JobState
    <2>7. ASSUME NEW j \in Job, RunQueued(j) PROVE TypeOK'
      <3>1. stats' \in [StatsField -> 0..UintMax]
        BY <2>7, CountersType DEF TypeOK, RunQueued
      <3>2. client' \in [Client -> ClientState]
        BY <2>7, SignalMoves DEF TypeOK, RunQueued, ClientState
      <3> QED BY <2>7, <3>1, <3>2 DEF TypeOK, RunQueued, JobState
    <2>8. ASSUME NEW j \in Job, Finish(j) PROVE TypeOK'
      <3>1. stats' \in [StatsField -> 0..UintMax]
        BY <2>8, CountersType DEF TypeOK, Finish
      <3>2. [job EXCEPT ![j] = "done"] \in [Job -> JobState]
        BY DEF TypeOK, JobState
      <3>3. job' \in [Job -> JobState]
        <4> DEFINE ended == [job EXCEPT ![j] = "done"]
        <4>1. \/ job' = ended
              \/ \E x \in Job : job' = [ended EXCEPT ![x] = "woken"]
          BY <2>8, FinishMoves
        <4> HIDE DEF ended
        <4>2. \A x \in Job : [ended EXCEPT ![x] = "woken"] \in [Job -> JobState]
          BY <3>2 DEF JobState, ended
        <4> QED BY <3>2, <4>1, <4>2 DEF ended
      <3> QED BY <2>8, <3>1, <3>3 DEF TypeOK, Finish
    <2>9. ASSUME NEW j \in Job, Deliver(j) PROVE TypeOK'
      BY <2>9 DEF TypeOK, Deliver, JobState
    <2>10. ASSUME NEW c \in Client, ClientStep(c) PROVE TypeOK'
      BY <2>10 DEF TypeOK, ClientStep, QueueLock, QueueProceed, QueueNotEmpty,
                   QueueWait, ClientState
    <2>11. ASSUME NEW n \in Capacities, SetManagerCapacity(n) PROVE TypeOK'
      BY <2>11 DEF TypeOK, SetManagerCapacity
    <2>12. CASE UNCHANGED vars
      BY <2>12 DEF TypeOK, vars
    <2> QED BY <2>1, <2>2, <2>3, <2>4, <2>5, <2>6, <2>7, <2>8, <2>9, <2>10,
               <2>11, <2>12 DEF NextDynamic, Work, JobStep
  <1> QED BY <1>1, <1>2, PTL DEF DynamicSpec
-----------------------------------------------------------------------------
(* The counters. *)

Running(f) == Cardinality(In(f, {"running"}))
Queued(f) == Cardinality(In(f, {"asleep", "woken"}))
Finished(f) == Cardinality(In(f, {"done", "delivered"}))
Counted(s, f) ==
  s.Running = Running(f) /\ s.Queued = Queued(f) /\ s.Finished = Finished(f)

LEMMA CountsMove ==
  ASSUME NEW f, NEW j \in Job, NEW s, f = [x \in Job |-> f[x]]
  PROVE  LET g == [f EXCEPT ![j] = s] IN
         /\ Running(g) = Running(f) - One(f[j] = "running") + One(s = "running")
         /\ Queued(g) = Queued(f) - One(f[j] \in {"asleep", "woken"})
                                  + One(s \in {"asleep", "woken"})
         /\ Finished(g) = Finished(f) - One(f[j] \in {"done", "delivered"})
                                      + One(s \in {"done", "delivered"})
         /\ {Running(f), Queued(f), Finished(f), Running(g), Queued(g), Finished(g)}
              \subseteq 0..UintMax
  <1> DEFINE g == [f EXCEPT ![j] = s]
  <1>1. Running(g) = Running(f) - One(f[j] \in {"running"}) + One(s \in {"running"})
    BY CountMove DEF Running
  <1>2. /\ One(f[j] \in {"running"}) = One(f[j] = "running")
        /\ One(s \in {"running"}) = One(s = "running")
    BY DEF One
  <1>3. /\ Queued(g) = Queued(f) - One(f[j] \in {"asleep", "woken"})
                                 + One(s \in {"asleep", "woken"})
        /\ Finished(g) = Finished(f) - One(f[j] \in {"done", "delivered"})
                                     + One(s \in {"done", "delivered"})
    BY CountMove DEF Queued, Finished
  <1>4. \A h : {Running(h), Queued(h), Finished(h)} \subseteq 0..UintMax
    BY CountType, UintAssumption DEF Running, Queued, Finished
  <1> HIDE DEF g
  <1>5. {Running(f), Queued(f), Finished(f), Running(g), Queued(g), Finished(g)}
              \subseteq 0..UintMax
    BY <1>4
  <1> QED BY <1>1, <1>2, <1>3, <1>5 DEF g

\* Before start, nobody can send a job: SubmitChan is nil.
NotStarted ==
  chan = "nil" => job = [j \in Job |-> "new"] /\ stats = [f \in StatsField |-> 0]

LEMMA StartIsFirst == DynamicSpec => []NotStarted
  <1>1. Init => NotStarted
    BY DEF Init, NotStarted
  <1>2. TypeOK /\ NotStarted /\ [NextDynamic]_vars => NotStarted'
    <2> SUFFICES ASSUME TypeOK, NotStarted, [NextDynamic]_vars PROVE NotStarted'
      OBVIOUS
    <2> USE DEF NotStarted
    <2>1. CASE Start BY <2>1 DEF Start
    <2>2. CASE Stop BY <2>2 DEF Stop
    <2>3. ASSUME NEW j \in Job, Submit(j) \/ JobStep(j) PROVE NotStarted'
      BY <2>3 DEF Submit, JobStep, RunNow, Enqueue, WaitAgain, RunQueued, Finish, Deliver
    <2>4. ASSUME NEW c \in Client, ClientStep(c) PROVE NotStarted'
      BY <2>4 DEF ClientStep, QueueLock, QueueProceed, QueueNotEmpty, QueueWait
    <2>5. ASSUME NEW n \in Capacities, SetManagerCapacity(n) PROVE NotStarted'
      BY <2>5 DEF SetManagerCapacity
    <2>6. CASE UNCHANGED vars
      BY <2>6 DEF vars
    <2> QED BY <2>1, <2>2, <2>3, <2>4, <2>5, <2>6 DEF NextDynamic, Work
  <1> QED BY <1>1, <1>2, TypeCorrect, PTL DEF DynamicSpec

LEMMA NothingCounted ==
  Counted([f \in StatsField |-> 0], [j \in Job |-> "new"])
  <1>1. /\ In([j \in Job |-> "new"], {"running"}) = {}
        /\ In([j \in Job |-> "new"], {"asleep", "woken"}) = {}
        /\ In([j \in Job |-> "new"], {"done", "delivered"}) = {}
    BY DEF In, Among
  <1>2. Cardinality({}) = 0
    BY FS_EmptySet
  <1> QED BY <1>1, <1>2 DEF Counted, Running, Queued, Finished, StatsField

\* The counters follow the goroutines through every step.
THEOREM CountersAreExact == DynamicSpec => []CountsExact
  <1>1. CountsExact <=> Counted(stats, job)
    BY DEF CountsExact, Counted, Running, Queued, Finished, In, Among, InState
  <1>2. Init => Counted(stats, job)
    BY NothingCounted DEF Init
  <1>3. TypeOK /\ NotStarted /\ Counted(stats, job) /\ [NextDynamic]_vars => Counted(stats, job)'
    <2> SUFFICES ASSUME TypeOK, NotStarted, Counted(stats, job), [NextDynamic]_vars
                 PROVE  Counted(stats', job')
      OBVIOUS
    <2> USE DEF Counted
    <2>0. /\ job = [x \in Job |-> job[x]]
          /\ stats = [f \in StatsField |-> stats[f]]
          /\ stats.Running \in 0..UintMax /\ stats.Queued \in 0..UintMax
          /\ stats.Finished \in 0..UintMax /\ UintMax \in Nat
      BY StatsType DEF TypeOK
    <2>1. CASE Start
      BY <2>1, NothingCounted DEF Start, NotStarted
    <2>2. CASE Stop
      BY <2>2 DEF Stop
    <2>3. ASSUME NEW j \in Job, Submit(j) PROVE Counted(stats', job')
      <3>0. job[j] = "new" /\ stats' = stats
        BY <2>3 DEF Submit
      <3>1. CASE job' = [job EXCEPT ![j] = "arrived"]
        BY <2>0, <3>0, <3>1, CountsMove DEF One
      <3>2. CASE job' = [job EXCEPT ![j] = "panicked"]
        BY <2>0, <3>0, <3>2, CountsMove DEF One
      <3> QED BY <2>3, <3>1, <3>2 DEF Submit
    <2>4. ASSUME NEW j \in Job, RunNow(j) PROVE Counted(stats', job')
      BY <2>0, <2>4, CountsMove DEF RunNow, CountRunning, StatsField, Inc, One
    <2>5. ASSUME NEW j \in Job, Enqueue(j) PROVE Counted(stats', job')
      BY <2>0, <2>5, CountsMove DEF Enqueue, CountQueued, StatsField, Inc, One
    <2>6. ASSUME NEW j \in Job, WaitAgain(j) PROVE Counted(stats', job')
      BY <2>0, <2>6, CountsMove DEF WaitAgain, One
    <2>7. ASSUME NEW j \in Job, RunQueued(j) PROVE Counted(stats', job')
      BY <2>0, <2>7, CountsMove DEF RunQueued, CountRunning, StatsField, Inc, Dec, One
    <2>8. ASSUME NEW j \in Job, Finish(j) PROVE Counted(stats', job')
      <3> DEFINE ended == [job EXCEPT ![j] = "done"]
      <3>1. ended = [x \in Job |-> ended[x]]
        BY <2>0
      <3>2. Counted(stats', ended)
        BY <2>0, <2>8, CountsMove DEF Finish, StatsField, Inc, Dec, One
      <3>3. \/ job' = ended
            \/ \E x \in Job : ended[x] = "asleep" /\ job' = [ended EXCEPT ![x] = "woken"]
        BY <2>8, FinishMoves
      <3> HIDE DEF ended
      <3>4. ASSUME NEW x \in Job, ended[x] = "asleep"
            PROVE  Counted(stats', [ended EXCEPT ![x] = "woken"])
        BY <3>1, <3>2, <3>4, CountsMove DEF One
      <3> QED BY <3>2, <3>3, <3>4
    <2>9. ASSUME NEW j \in Job, Deliver(j) PROVE Counted(stats', job')
      BY <2>0, <2>9, CountsMove DEF Deliver, One
    <2>10. ASSUME NEW c \in Client, ClientStep(c) PROVE Counted(stats', job')
      BY <2>10 DEF ClientStep, QueueLock, QueueProceed, QueueNotEmpty, QueueWait
    <2>11. ASSUME NEW n \in Capacities, SetManagerCapacity(n) PROVE Counted(stats', job')
      BY <2>11 DEF SetManagerCapacity
    <2>12. CASE UNCHANGED vars
      BY <2>12 DEF vars
    <2> QED BY <2>1, <2>2, <2>3, <2>4, <2>5, <2>6, <2>7, <2>8, <2>9, <2>10,
               <2>11, <2>12 DEF NextDynamic, Work, JobStep
  <1> QED BY <1>1, <1>2, <1>3, TypeCorrect, StartIsFirst, PTL DEF DynamicSpec
-----------------------------------------------------------------------------
(* The promises of the manager whatever is done to its capacity. *)

\* At capacity, and whenever Running is not zero, some test is running.
LEMMA SomebodyRuns ==
  ASSUME TypeOK, CountsExact, stats.Running > 0
  PROVE  InState({"running"}) # {}
  BY CountType DEF CountsExact, InState, In, Among

\* A sleeping job is never left without a job that will signal it.
THEOREM JobsAreNotStranded == DynamicSpec => []NoStrandedJob
  <1> DEFINE Inv == \A i \in Job : job[i] = "asleep" =>
                      \E k \in Job : job[k] \in {"running", "woken"}
  <1>1. Init => Inv
    BY DEF Init
  <1>2. TypeOK /\ CountsExact /\ Inv /\ [NextDynamic]_vars => Inv'
    <2> SUFFICES ASSUME TypeOK, CountsExact, Inv, [NextDynamic]_vars PROVE Inv'
      OBVIOUS
    <2>0. job \in [Job -> JobState]
      BY DEF TypeOK
    <2>1. ASSUME AtCapacity PROVE \E k \in Job : job[k] = "running"
      <3>1. stats.Running > 0
        BY <2>1, CapacityAssumption, UintAssumption DEF AtCapacity, TypeOK, StatsField
      <3> QED BY <3>1, SomebodyRuns DEF InState
    <2>2. ASSUME NEW j \in Job, Submit(j) \/ RunNow(j) \/ Deliver(j) PROVE Inv'
      BY <2>0, <2>2 DEF Submit, RunNow, Deliver
    <2>3. ASSUME NEW j \in Job, Enqueue(j) \/ WaitAgain(j) PROVE Inv'
      BY <2>0, <2>1, <2>3 DEF Enqueue, WaitAgain
    <2>4. ASSUME NEW j \in Job, RunQueued(j) PROVE Inv'
      BY <2>0, <2>4 DEF RunQueued
    <2>5. ASSUME NEW j \in Job, Finish(j) PROVE Inv'
      <3> DEFINE ended == [job EXCEPT ![j] = "done"]
      <3>1. \/ job' = ended /\ \A x \in Job : ended[x] # "asleep"
            \/ \E x \in Job : ended[x] = "asleep" /\ job' = [ended EXCEPT ![x] = "woken"]
        BY <2>5, FinishMoves
      <3>2. ended \in [Job -> JobState]
        BY <2>0 DEF JobState
      <3> HIDE DEF ended
      <3>3. CASE job' = ended /\ \A x \in Job : ended[x] # "asleep"
        BY <3>3
      <3>4. ASSUME NEW x \in Job, job' = [ended EXCEPT ![x] = "woken"] PROVE Inv'
        <4>1. job'[x] = "woken"
          BY <3>2, <3>4
        <4> QED BY <4>1
      <3> QED BY <3>1, <3>3, <3>4
    <2>6. CASE UNCHANGED job
      BY <2>6
    <2> QED BY <2>2, <2>3, <2>4, <2>5, <2>6
            DEF NextDynamic, Work, JobStep, Start, Stop, SetManagerCapacity, vars,
                ClientStep, QueueLock, QueueProceed, QueueNotEmpty, QueueWait
  <1>3. Inv => NoStrandedJob
    BY DEF NoStrandedJob, InState
  <1> QED BY <1>1, <1>2, <1>3, TypeCorrect, CountersAreExact, PTL DEF DynamicSpec

\* The client of queueCond that sleeps, or holds the lock and is about to
\* sleep, has a queue to wait for; there is one such client at most.
OnDeckInv ==
  /\ \A c \in Client : client[c] \in {"deciding", "asleep"} => stats.Queued > 0
  /\ \A c, d \in Client : client[c] # "idle" /\ client[d] # "idle" => c = d

\* No wakeup of the submission on deck is lost.
THEOREM OnDeckIsNotStranded == DynamicSpec => []OnDeckNotStranded
  <1>1. Init => OnDeckInv
    BY DEF Init, OnDeckInv
  <1>2. TypeOK /\ NotStarted /\ CountsExact' /\ OnDeckInv /\ [NextDynamic]_vars
          => OnDeckInv'
    <2> SUFFICES ASSUME TypeOK, NotStarted, CountsExact', OnDeckInv, [NextDynamic]_vars
                 PROVE  OnDeckInv'
      OBVIOUS
    <2>0. /\ client \in [Client -> ClientState]
          /\ stats = [f \in StatsField |-> stats[f]]
          /\ stats.Queued \in 0..UintMax /\ UintMax \in Nat
      BY StatsType DEF TypeOK
    <2>1. ASSUME stats'.Queued = stats.Queued, UNCHANGED client PROVE OnDeckInv'
      BY <2>1 DEF OnDeckInv
    <2>2. CASE Start
      BY <2>1, <2>2 DEF Start, NotStarted
    <2>3. ASSUME NEW j \in Job, JobStep(j) \/ Submit(j), ~RunQueued(j), ~Enqueue(j)
          PROVE  OnDeckInv'
      BY <2>0, <2>1, <2>3
         DEF Submit, JobStep, RunNow, WaitAgain, Finish, Deliver, CountRunning, StatsField
    <2>4. ASSUME NEW j \in Job, Enqueue(j) PROVE OnDeckInv'
      <3>1. j \in In(job', {"asleep", "woken"})
        BY <2>4 DEF Enqueue, In, Among, TypeOK
      <3>2. stats'.Queued > 0
        <4>1. stats'.Queued = Cardinality(In(job', {"asleep", "woken"}))
          BY DEF CountsExact, InState, In, Among
        <4>2. In(job', {"asleep", "woken"}) # {}
          BY <3>1
        <4>3. Cardinality(In(job', {"asleep", "woken"})) > 0
          BY <4>2, CountType
        <4> QED BY <4>1, <4>3
      <3> QED BY <2>4, <3>2 DEF Enqueue, OnDeckInv
    <2>5. ASSUME NEW j \in Job, RunQueued(j) PROVE OnDeckInv'
      <3>1. \A c \in Client : client[c] # "deciding"
        BY <2>5 DEF RunQueued, QueueLockFree
      <3>2. \/ client' = client /\ \A c \in Client : client[c] # "asleep"
            \/ \E c \in Client : client[c] = "asleep" /\ client' = [client EXCEPT ![c] = "woken"]
        BY <2>5, SignalMoves DEF RunQueued
      <3> QED BY <2>0, <3>1, <3>2 DEF OnDeckInv
    <2>6. ASSUME NEW c \in Client, ClientStep(c) PROVE OnDeckInv'
      BY <2>0, <2>6 DEF OnDeckInv, ClientStep, OnDeck, QueueLock, QueueProceed,
                        QueueNotEmpty, QueueWait, ClientState
    <2>7. CASE UNCHANGED <<stats, client>>
      BY <2>1, <2>7
    <2> QED BY <2>2, <2>3, <2>4, <2>5, <2>6, <2>7
            DEF NextDynamic, Work, Stop, SetManagerCapacity, vars
  <1>3. OnDeckInv => OnDeckNotStranded
    BY DEF OnDeckInv, OnDeckNotStranded
  <1> QED BY <1>1, <1>2, <1>3, TypeCorrect, StartIsFirst, CountersAreExact, PTL DEF DynamicSpec
-----------------------------------------------------------------------------
(* The promises of a manager whose capacity is set before it starts. *)

LEMMA SpecIsDynamic == Spec => DynamicSpec
  <1>1. [Next]_vars => [NextDynamic]_vars
    BY DEF Next, NextDynamic
  <1> QED BY <1>1, PTL DEF Spec, DynamicSpec

\* There are never more tests running than the capacity allows.
THEOREM CapacityIsRespected == Spec => []CapacityRespected
  <1>1. Init => CapacityRespected
    BY DEF Init, CapacityRespected
  <1>2. TypeOK /\ NotStarted /\ CapacityRespected /\ [Next]_vars => CapacityRespected'
    <2> SUFFICES ASSUME TypeOK, NotStarted, CapacityRespected, [Next]_vars
                 PROVE  CapacityRespected'
      OBVIOUS
    <2>0. /\ stats = [f \in StatsField |-> stats[f]]
          /\ capacity \in Nat /\ UintMax \in Nat
          /\ stats.Running \in 0..UintMax /\ stats.HighRunning \in 0..UintMax
      BY StatsType, CapacityAssumption DEF TypeOK
    <2> USE DEF CapacityRespected
    <2>1. ASSUME capacity' = capacity, stats'.HighRunning = stats.HighRunning
          PROVE  CapacityRespected'
      BY <2>1
    <2>2. CASE Start
      BY <2>1, <2>2 DEF Start, NotStarted, StatsField
    <2>3. ASSUME NEW j \in Job, RunNow(j) \/ RunQueued(j) PROVE CapacityRespected'
      <3>1. /\ stats'.HighRunning = Higher(stats.HighRunning, Inc(stats.Running))
            /\ capacity' = capacity
            /\ ~AtCapacity
        BY <2>0, <2>3 DEF RunNow, RunQueued, CountRunning, StatsField
      <3> QED BY <2>0, <3>1 DEF AtCapacity, Higher, Inc
    <2>4. ASSUME NEW j \in Job, Submit(j) \/ Enqueue(j) \/ WaitAgain(j) \/ Finish(j) \/ Deliver(j)
          PROVE  CapacityRespected'
      BY <2>0, <2>1, <2>4
         DEF Submit, Enqueue, WaitAgain, Finish, Deliver, CountQueued, StatsField
    <2>5. ASSUME NEW n \in Capacities, chan = "nil", SetManagerCapacity(n)
          PROVE  CapacityRespected'
      BY <2>5, CapacityAssumption DEF SetManagerCapacity, NotStarted, StatsField
    <2>6. CASE UNCHANGED <<stats, capacity>>
      BY <2>6
    <2> QED BY <2>2, <2>3, <2>4, <2>5, <2>6
            DEF Next, Work, JobStep, Stop, vars, ClientStep, QueueLock, QueueProceed,
                QueueNotEmpty, QueueWait
  <1> QED BY <1>1, <1>2, TypeCorrect, StartIsFirst, SpecIsDynamic, PTL DEF Spec

Woken(f) == Cardinality(In(f, {"woken"}))

\* NoIdleSlot, in terms of the functions of this module.
SlotsTaken ==
  \A i \in Job : job[i] = "asleep" =>
    capacity > 0 /\ Running(job) + Woken(job) >= capacity

LEMMA WokenMove ==
  ASSUME NEW f, NEW j \in Job, NEW s, f = [x \in Job |-> f[x]]
  PROVE  LET g == [f EXCEPT ![j] = s] IN
         /\ Woken(g) = Woken(f) - One(f[j] = "woken") + One(s = "woken")
         /\ Woken(f) \in Nat /\ Woken(g) \in Nat
  <1> DEFINE g == [f EXCEPT ![j] = s]
  <1>1. Woken(g) = Woken(f) - One(f[j] \in {"woken"}) + One(s \in {"woken"})
    BY CountMove DEF Woken
  <1>2. /\ One(f[j] \in {"woken"}) = One(f[j] = "woken")
        /\ One(s \in {"woken"}) = One(s = "woken")
    BY DEF One
  <1>3. Woken(f) \in Nat /\ Woken(g) \in Nat
    BY CountType DEF Woken
  <1> HIDE DEF g
  <1> QED BY <1>1, <1>2, <1>3 DEF g

\* While a job sleeps every slot is taken, or reserved by a woken job.
THEOREM NoSlotIsLost == Spec => []NoIdleSlot
  <1>1. Init => SlotsTaken
    BY DEF Init, SlotsTaken
  <1>2. TypeOK /\ NotStarted /\ CountsExact /\ SlotsTaken /\ [Next]_vars => SlotsTaken'
    <2> SUFFICES ASSUME TypeOK, NotStarted, CountsExact, SlotsTaken, [Next]_vars
                 PROVE  SlotsTaken'
      OBVIOUS
    <2> USE DEF SlotsTaken
    <2>0. /\ job \in [Job -> JobState]
          /\ job = [x \in Job |-> job[x]]
          /\ capacity \in Nat
          /\ stats.Running = Running(job)
      <3>1. job \in [Job -> JobState] /\ capacity \in Nat
        BY CapacityAssumption DEF TypeOK
      <3>2. stats.Running = Running(job)
        BY DEF CountsExact, Running, In, Among, InState
      <3> QED BY <3>1, <3>2
    <2>1. ASSUME NEW j \in Job, Submit(j) PROVE SlotsTaken'
      <3>0. job[j] = "new" /\ capacity' = capacity
        BY <2>1 DEF Submit
      <3>1. CASE job' = [job EXCEPT ![j] = "arrived"]
        BY <2>0, <3>0, <3>1, CountsMove, WokenMove DEF One
      <3>2. CASE job' = [job EXCEPT ![j] = "panicked"]
        BY <2>0, <3>0, <3>2, CountsMove, WokenMove DEF One
      <3> QED BY <2>1, <3>1, <3>2 DEF Submit
    <2>2. ASSUME NEW j \in Job, RunNow(j) PROVE SlotsTaken'
      BY <2>0, <2>2, CountsMove, WokenMove DEF RunNow, One
    <2>3. ASSUME NEW j \in Job, Enqueue(j) PROVE SlotsTaken'
      BY <2>0, <2>3, CountsMove, WokenMove DEF Enqueue, AtCapacity, One
    <2>4. ASSUME NEW j \in Job, WaitAgain(j) PROVE SlotsTaken'
      BY <2>0, <2>4, CountsMove, WokenMove DEF WaitAgain, AtCapacity, One
    <2>5. ASSUME NEW j \in Job, RunQueued(j) PROVE SlotsTaken'
      BY <2>0, <2>5, CountsMove, WokenMove DEF RunQueued, One
    <2>6. ASSUME NEW j \in Job, Deliver(j) PROVE SlotsTaken'
      BY <2>0, <2>6, CountsMove, WokenMove DEF Deliver, One
    <2>7. ASSUME NEW j \in Job, Finish(j) PROVE SlotsTaken'
      <3> DEFINE ended == [job EXCEPT ![j] = "done"]
      <3>1. \/ job' = ended /\ \A x \in Job : ended[x] # "asleep"
            \/ \E x \in Job : ended[x] = "asleep" /\ job' = [ended EXCEPT ![x] = "woken"]
        BY <2>7, FinishMoves
      <3>2. /\ ended \in [Job -> JobState]
            /\ ended = [x \in Job |-> ended[x]]
        BY <2>0 DEF JobState
      <3>3. /\ Running(ended) = Running(job) - 1
            /\ Woken(ended) = Woken(job)
            /\ Running(job) \in Nat /\ Woken(job) \in Nat
        BY <2>0, <2>7, CountsMove, WokenMove DEF Finish, One
      <3>4. \A x \in Job : ended[x] = "asleep" => job[x] = "asleep"
        BY <2>0
      <3>5. capacity' = capacity
        BY <2>7 DEF Finish
      <3> HIDE DEF ended
      <3>6. ASSUME NEW x \in Job, ended[x] = "asleep", job' = [ended EXCEPT ![x] = "woken"]
            PROVE  SlotsTaken'
        <4>1. /\ Running(job') = Running(ended)
              /\ Woken(job') = Woken(ended) + 1
          BY <3>2, <3>3, <3>6, CountsMove, WokenMove DEF One
        <4>2. capacity > 0 /\ Running(job) + Woken(job) >= capacity
          BY <3>4, <3>6
        <4> QED BY <2>0, <3>3, <3>5, <4>1, <4>2
      <3>7. CASE job' = ended /\ \A x \in Job : ended[x] # "asleep"
        BY <3>7
      <3> QED BY <3>1, <3>6, <3>7
    <2>8. ASSUME NEW n \in Capacities, chan = "nil", SetManagerCapacity(n) PROVE SlotsTaken'
      BY <2>8 DEF SetManagerCapacity, NotStarted
    <2>9. CASE UNCHANGED <<job, capacity>>
      BY <2>9
    <2> QED BY <2>1, <2>2, <2>3, <2>4, <2>5, <2>6, <2>7, <2>8, <2>9
            DEF Next, Work, JobStep, Start, Stop, vars, ClientStep, QueueLock,
                QueueProceed, QueueNotEmpty, QueueWait
  <1>3. CountsExact /\ SlotsTaken => NoIdleSlot
    BY DEF CountsExact, SlotsTaken, NoIdleSlot, Running, Woken, In, Among, InState
  <1> QED BY <1>1, <1>2, <1>3, TypeCorrect, StartIsFirst, CountersAreExact,
             SpecIsDynamic, PTL DEF Spec
-----------------------------------------------------------------------------
(* The submission manager. *)

\* Only the holder of runlock is between TakeRunlock and BeginRun, and only a
\* submission on deck has business with queueCond.
RunlockInv ==
  /\ client \in [Client -> ClientState]
  /\ sub \in [Client -> SubState]
  /\ \A s \in Client : sub[s] \in {"ondeck", "admitted", "counted"} => runlock = s
  /\ \A s \in Client : client[s] # "idle" => sub[s] = "ondeck"

LEMMA RunlockStep ==
  ASSUME RunlockInv, [SMNext]_allVars
  PROVE  RunlockInv'
  <1> USE DEF RunlockInv
  <1>1. CASE ManagerStep \/ \E st \in Status : SetStatus(st)
    BY <1>1 DEF ManagerStep, SetStatus, Start, Stop, SetManagerCapacity, smVars, vars
  <1>2. ASSUME NEW j \in Job, SubmitJob(j) PROVE RunlockInv'
    BY <1>2 DEF SubmitJob, Submit, smVars
  <1>3. ASSUME NEW j \in Job, TestStep(j), ~RunQueued(j) PROVE RunlockInv'
    BY <1>3 DEF TestStep, JobStep, smVars, RunNow, Enqueue, WaitAgain, Finish, Deliver
  <1>4. ASSUME NEW j \in Job, RunQueued(j), UNCHANGED smVars PROVE RunlockInv'
    <2>1. \/ client' = client
          \/ \E c \in Client : client[c] = "asleep" /\ client' = [client EXCEPT ![c] = "woken"]
      BY <1>4, SignalMoves DEF RunQueued
    <2>2. UNCHANGED <<sub, runlock>>
      BY <1>4 DEF smVars
    <2> QED BY <2>1, <2>2 DEF ClientState
  <1>5. ASSUME NEW s \in Client, Reject(s) \/ Accept(s) \/ CountRun(s) \/ EndRun(s)
        PROVE  RunlockInv'
    BY <1>5 DEF Reject, Accept, CountRun, EndRun, vars, SubState
  <1>6. ASSUME NEW s \in Client, TakeRunlock(s) PROVE RunlockInv'
    <2>1. \A t \in Client : sub[t] \notin {"ondeck", "admitted", "counted"}
      BY <1>6, NoOneAssumption DEF TakeRunlock, RunlockFree
    <2> QED BY <1>6, <2>1 DEF TakeRunlock, vars, SubState
  <1>7. ASSUME NEW s \in Client, BeginRun(s) PROVE RunlockInv'
    BY <1>7 DEF BeginRun, vars, SubState
  <1>8. ASSUME NEW s \in Client, AwaitQueue(s) PROVE RunlockInv'
    BY <1>8 DEF AwaitQueue, QueueLock, QueueNotEmpty, QueueWait, smVars, ClientState
  <1>9. ASSUME NEW s \in Client, LeaveDeck(s) PROVE RunlockInv'
    BY <1>9 DEF LeaveDeck, QueueProceed, ClientState, SubState
  <1>10. CASE UNCHANGED allVars
    BY <1>10 DEF allVars, vars, smVars
  <1> QED BY <1>1, <1>2, <1>3, <1>4, <1>5, <1>6, <1>7, <1>8, <1>9, <1>10
          DEF SMNext, RunStep, TestStep, JobStep

\* runlock is a mutual exclusion around the wait on queueCond.
LEMMA RunlockExcludes == SMSpec => []RunlockInv
  <1>1. SMInit => RunlockInv
    BY DEF SMInit, Init, RunlockInv, ClientState, SubState
  <1> QED BY <1>1, RunlockStep, PTL DEF SMSpec

\* Every step of the composition is a step of the test manager, or leaves it
\* alone: runlock discharges the assumption OnDeck.
THEOREM SubmissionManagerUsesTestManager == SMSpec => UsesTestManager
  <1>1. SMInit => Init
    BY DEF SMInit
  <1>2. RunlockInv /\ [SMNext]_allVars => [NextDynamic]_vars
    <2> SUFFICES ASSUME RunlockInv, [SMNext]_allVars PROVE [NextDynamic]_vars
      OBVIOUS
    <2>1. CASE UNCHANGED vars
      BY <2>1
    <2>2. CASE ~Panicked /\ ManagerStep
      BY <2>2 DEF ManagerStep, NextDynamic, Work
    <2>3. ASSUME ~Panicked, NEW j \in Job, SubmitJob(j) \/ TestStep(j) PROVE NextDynamic
      BY <2>3 DEF SubmitJob, TestStep, NextDynamic, Work
    <2>4. ASSUME ~Panicked, NEW s \in Client, AwaitQueue(s) PROVE NextDynamic
      <3>1. OnDeck(s)
        BY <2>4 DEF AwaitQueue, OnDeck, RunlockInv
      <3> QED BY <2>4, <3>1 DEF AwaitQueue, NextDynamic, Work, ClientStep
    <2>5. ASSUME ~Panicked, NEW s \in Client, LeaveDeck(s) PROVE NextDynamic
      BY <2>5 DEF LeaveDeck, NextDynamic, Work, ClientStep
    <2>6. ASSUME NEW s \in Client, RunStep(s), ~AwaitQueue(s), ~LeaveDeck(s)
          PROVE  UNCHANGED vars
      BY <2>6 DEF RunStep, Reject, Accept, TakeRunlock, CountRun, BeginRun, EndRun
    <2>7. ASSUME NEW st \in Status, SetStatus(st) PROVE UNCHANGED vars
      BY <2>7 DEF SetStatus
    <2>8. CASE UNCHANGED allVars
      BY <2>8 DEF allVars
    <2> QED BY <2>1, <2>2, <2>3, <2>4, <2>5, <2>6, <2>7, <2>8 DEF SMNext
  <1> QED BY <1>1, <1>2, RunlockExcludes, PTL DEF SMSpec, DynamicSpec, UsesTestManager

\* Hence a submission on deck is never left asleep by a queue that is empty.
THEOREM NoSubmissionIsStranded == SMSpec => []OnDeckNotStranded
  BY SubmissionManagerUsesTestManager, OnDeckIsNotStranded, PTL DEF UsesTestManager
-----------------------------------------------------------------------------
(* The statistics of the submission manager. *)

Subs(f, S) == Among(Client, f, S)
WaitingState == {"queued", "ondeck", "admitted"}
InRunState == {"counted", "running"}
SMCounted(s, f) ==
  /\ s.Queued = Cardinality(Subs(f, WaitingState))
  /\ s.Running = Cardinality(Subs(f, InRunState))
  /\ s.Finished = Cardinality(Subs(f, {"finished"}))

\* The type invariant of the manager's own variables.
SMVarsOK ==
  /\ smStats \in [StatsField -> 0..UintMax]
  /\ sub \in [Client -> SubState]

\* A set of submissions has no more members than a uint can count.
LEMMA SubsType ==
  ASSUME NEW f, NEW S
  PROVE  Cardinality(Subs(f, S)) \in 0..UintMax
  <1>1. IsFiniteSet(Subs(f, S)) /\ Cardinality(Subs(f, S)) <= Cardinality(Client)
    BY ClientAssumption, FS_Subset DEF Subs, Among
  <1>2. Cardinality(Subs(f, S)) \in Nat /\ Cardinality(Client) \in Nat
    BY <1>1, ClientAssumption, FS_CardinalityType
  <1> QED BY <1>1, <1>2, ClientAssumption, UintAssumption

LEMMA SubsMove ==
  ASSUME NEW f, NEW c \in Client, NEW s, NEW S, f = [x \in Client |-> f[x]]
  PROVE  Cardinality(Subs([f EXCEPT ![c] = s], S))
           = Cardinality(Subs(f, S)) - One(f[c] \in S) + One(s \in S)
  BY AmongMove, ClientAssumption DEF Subs

\* A step takes a submission from one state to another; the counters follow it
\* if they change by as much as the sets do.
LEMMA SMCountsMove ==
  ASSUME NEW f, NEW c \in Client, NEW s, f = [x \in Client |-> f[x]]
  PROVE  LET g == [f EXCEPT ![c] = s] IN
         /\ \A S \in {WaitingState, InRunState, {"finished"}} :
              /\ Cardinality(Subs(g, S))
                   = Cardinality(Subs(f, S)) - One(f[c] \in S) + One(s \in S)
              /\ Cardinality(Subs(f, S)) \in 0..UintMax
              /\ Cardinality(Subs(g, S)) \in 0..UintMax
  BY SubsMove, SubsType

\* What the actions of the composition do to the manager's statistics and to
\* the submissions: nothing, or one of these.
Moved(s, from, to) == sub[s] = from /\ sub' = [sub EXCEPT ![s] = to]
SubMoves ==
  \E s \in Client :
    \/ Moved(s, "new", "rejected") /\ smStats' = smStats
    \/ Moved(s, "new", "queued") /\ smStats' = CountQueued(smStats)
    \/ Moved(s, "queued", "ondeck") /\ smStats' = smStats
    \/ Moved(s, "ondeck", "admitted") /\ smStats' = smStats
    \/ /\ Moved(s, "admitted", "counted")
       /\ smStats' = CountRunning([smStats EXCEPT !.Queued = Dec(@)])
    \/ Moved(s, "counted", "running") /\ smStats' = smStats
    \/ /\ Moved(s, "running", "finished")
       /\ smStats' = [smStats EXCEPT !.Running = Dec(@), !.Finished = Inc(@)]

LEMMA SMStepMoves ==
  ASSUME [SMNext]_allVars
  PROVE  UNCHANGED <<smStats, sub>> \/ SubMoves
  <1>1. CASE ManagerStep \/ \E st \in Status : SetStatus(st)
    BY <1>1 DEF ManagerStep, SetStatus, smVars
  <1>2. ASSUME NEW j \in Job, SubmitJob(j) \/ TestStep(j)
        PROVE  UNCHANGED <<smStats, sub>>
    BY <1>2 DEF SubmitJob, TestStep, smVars
  <1>3. ASSUME NEW s \in Client, RunStep(s)
        PROVE  UNCHANGED <<smStats, sub>> \/ SubMoves
    BY <1>3 DEF RunStep, Reject, Accept, TakeRunlock, AwaitQueue, LeaveDeck, CountRun,
                BeginRun, EndRun, QueueProceed, smVars, SubMoves, Moved
  <1>4. CASE UNCHANGED allVars
    BY <1>4 DEF allVars, smVars
  <1> QED BY <1>1, <1>2, <1>3, <1>4 DEF SMNext

LEMMA SMVarsType ==
  ASSUME SMVarsOK, [SMNext]_allVars
  PROVE  SMVarsOK'
  <1>1. CASE UNCHANGED <<smStats, sub>>
    BY <1>1 DEF SMVarsOK
  <1>2. CASE SubMoves
    <2>1. smStats' \in [StatsField -> 0..UintMax]
      <3>1. smStats \in [StatsField -> 0..UintMax]
        BY DEF SMVarsOK
      <3>2. /\ CountQueued(smStats) \in [StatsField -> 0..UintMax]
            /\ [smStats EXCEPT !.Queued = Dec(@)] \in [StatsField -> 0..UintMax]
            /\ [smStats EXCEPT !.Running = Dec(@), !.Finished = Inc(@)]
                 \in [StatsField -> 0..UintMax]
        BY <3>1, CountersType
      <3>3. CountRunning([smStats EXCEPT !.Queued = Dec(@)]) \in [StatsField -> 0..UintMax]
        BY <3>2, CountersType
      <3> QED BY <1>2, <3>1, <3>2, <3>3 DEF SubMoves
    <2>2. sub' \in [Client -> SubState]
      BY <1>2 DEF SubMoves, Moved, SMVarsOK, SubState
    <2> QED BY <2>1, <2>2 DEF SMVarsOK
  <1> QED BY <1>1, <1>2, SMStepMoves

\* The statistics the server reports: however many submissions call Run at once,
\* and wherever they wait, each is counted in exactly one of Queued, Running and
\* Finished (none of them when it was turned away), and no counter wraps around.
THEOREM SubmissionCountersAreExact == SMSpec => []SMCountsExact
  <1>1. SMCountsExact <=> SMCounted(smStats, sub)
    BY DEF SMCountsExact, SMCounted, Subs, Among, WaitingState, InRunState
  <1>2. SMInit => SMVarsOK /\ SMCounted(smStats, sub)
    <2> SUFFICES ASSUME SMInit PROVE SMVarsOK /\ SMCounted(smStats, sub)
      OBVIOUS
    <2>1. SMVarsOK
      BY UintAssumption DEF SMInit, SMVarsOK, SubState
    <2>2. /\ Subs(sub, WaitingState) = {}
          /\ Subs(sub, InRunState) = {}
          /\ Subs(sub, {"finished"}) = {}
      BY DEF SMInit, Subs, Among, WaitingState, InRunState
    <2>3. Cardinality({}) = 0
      BY FS_EmptySet
    <2>4. smStats.Queued = 0 /\ smStats.Running = 0 /\ smStats.Finished = 0
      BY DEF SMInit, StatsField
    <2> QED BY <2>1, <2>2, <2>3, <2>4 DEF SMCounted
  <1>3. SMVarsOK /\ SMCounted(smStats, sub) /\ [SMNext]_allVars
          => SMVarsOK' /\ SMCounted(smStats, sub)'
    <2> SUFFICES ASSUME SMVarsOK, SMCounted(smStats, sub), [SMNext]_allVars
                 PROVE  SMVarsOK' /\ SMCounted(smStats', sub')
      OBVIOUS
    <2>1. CASE UNCHANGED <<smStats, sub>>
      BY <2>1, SMVarsType
    <2>2. CASE SubMoves
      <3>0. /\ sub = [x \in Client |-> sub[x]]
            /\ smStats = [f \in StatsField |-> smStats[f]]
            /\ smStats.Running \in 0..UintMax /\ smStats.Queued \in 0..UintMax
            /\ smStats.Finished \in 0..UintMax /\ UintMax \in Nat
        BY UintAssumption DEF SMVarsOK, StatsField
      <3> USE DEF SMCounted, Moved, WaitingState, InRunState, One
      <3>1. ASSUME NEW s \in Client,
                   \/ Moved(s, "new", "rejected")
                   \/ Moved(s, "queued", "ondeck")
                   \/ Moved(s, "ondeck", "admitted")
                   \/ Moved(s, "counted", "running"),
                   smStats' = smStats
            PROVE  SMCounted(smStats', sub')
        <4>1. CASE Moved(s, "new", "rejected")     BY <3>0, <3>1, <4>1, SMCountsMove
        <4>2. CASE Moved(s, "queued", "ondeck")    BY <3>0, <3>1, <4>2, SMCountsMove
        <4>3. CASE Moved(s, "ondeck", "admitted")  BY <3>0, <3>1, <4>3, SMCountsMove
        <4>4. CASE Moved(s, "counted", "running")  BY <3>0, <3>1, <4>4, SMCountsMove
        <4> QED BY <3>1, <4>1, <4>2, <4>3, <4>4
      <3>2. ASSUME NEW s \in Client, Moved(s, "new", "queued"),
                   smStats' = CountQueued(smStats)
            PROVE  SMCounted(smStats', sub')
        BY <3>0, <3>2, SMCountsMove DEF CountQueued, StatsField, Inc
      <3>3. ASSUME NEW s \in Client, Moved(s, "admitted", "counted"),
                   smStats' = CountRunning([smStats EXCEPT !.Queued = Dec(@)])
            PROVE  SMCounted(smStats', sub')
        BY <3>0, <3>3, SMCountsMove DEF CountRunning, StatsField, Inc, Dec
      <3>4. ASSUME NEW s \in Client, Moved(s, "running", "finished"),
                   smStats' = [smStats EXCEPT !.Running = Dec(@), !.Finished = Inc(@)]
            PROVE  SMCounted(smStats', sub')
        BY <3>0, <3>4, SMCountsMove DEF StatsField, Inc, Dec
      <3>5. SMCounted(smStats', sub')
        <4> HIDE DEF SMCounted, Moved, WaitingState, InRunState, One
        <4> QED BY <2>2, <3>1, <3>2, <3>3, <3>4 DEF SubMoves
      <3> QED BY <3>5, SMVarsType
    <2> QED BY <2>1, <2>2, SMStepMoves
  <1> QED BY <1>1, <1>2, <1>3, PTL DEF SMSpec
-----------------------------------------------------------------------------
(* The targets.                                                            *)

(* What the server tracks is what the database holds, also while it loads:   *)
(* a file that is still to be read gives another version.                    *)
Tracked(n) ==
  targets[n] # None =>
    /\ db[ID(targets[n])] = targets[n]
    /\ pc = "loading" => \E f \in File \ unread : file[f] = targets[n]

(* What the database may have become of a target since it was submitted to.  *)
(* It need not be the same: it may list a test twice, and then lacks another *)
(* one; that is why the lengths are compared with a cardinality.             *)
Tests(t) == CompareTests(Range(t.tests))
Kept(g) ==
  LET d == db[g.id]  tests == CompareTests(g.tests) IN
  /\ d # None
  /\ d.points = g.points
  /\ Tests(d) \subseteq tests
  /\ IsFiniteSet(tests) /\ Len(d.tests) = Cardinality(tests)

GradedInv ==
  /\ \A g \in graded : (\E t \in Choice : g = Graded(t)) /\ Kept(g)
  /\ TestsAlike

ServerInv ==
  /\ file \in [File -> Choice \cup {None}] /\ \A f \in File : file[f] \in Contents[f]
  /\ unread \subseteq File /\ \A f \in unread : file[f] # None
  /\ pc # "loading" => unread = {}
  /\ targets \in [Name -> Choice \cup {None}]
  /\ db \in [{ID(t) : t \in Choice} -> Choice \cup {None}]
  /\ \A n \in Name : Tracked(n)
  /\ pc = "up" => LinkMetaTargets

TargetsInv == ServerInv /\ GradedInv

Distinct(t) ==
  \A k, l \in DOMAIN t.tests : t.tests[k].id = t.tests[l].id => k = l

----------------------------------------------------------------------------
LEMMA FirstNumbers ==
  ASSUME NEW n \in Nat
  PROVE  IsFiniteSet(1..n) /\ Cardinality(1..n) = n
  BY FS_Interval

(* Tests that are distinct are as many as the list is long, and none is lost *)
(* by comparing only a part of each.                                         *)
LEMMA DistinctTests ==
  ASSUME NEW t \in Choice, Distinct(t)
  PROVE  IsFiniteSet(Tests(t)) /\ Cardinality(Tests(t)) = Len(t.tests)
<1> DEFINE f == [i \in 1..Len(t.tests) |-> Compared(t.tests[i])]
<1>1. t.tests \in Seq(Range(t.tests))
  BY TargetsAssumption
<1>2. Len(t.tests) \in Nat /\ DOMAIN t.tests = 1..Len(t.tests)
  BY <1>1
<1>3. \A i, j \in 1..Len(t.tests) : f[i] = f[j] => i = j
  BY <1>2 DEF Distinct, Compared
<1>4. \A c : c \in Tests(t) <=> \E i \in 1..Len(t.tests) : c = Compared(t.tests[i])
  BY <1>2 DEF Tests, CompareTests, Range
<1>5. f \in Bijection(1..Len(t.tests), Tests(t))
  <2>1. f \in Injection(1..Len(t.tests), Tests(t))
    BY <1>3, <1>4 DEF Injection, IsInjective
  <2>2. f \in Surjection(1..Len(t.tests), Tests(t))
    BY <1>4 DEF Surjection, Range
  <2> QED
    BY <2>1, <2>2 DEF Bijection
<1>6. IsFiniteSet(1..Len(t.tests)) /\ Cardinality(1..Len(t.tests)) = Len(t.tests)
  BY <1>2, FirstNumbers
<1> QED
  BY <1>5, <1>6, FS_Bijection DEF ExistsBijection

(* What is in the database and can be submitted to is what earlier           *)
(* submissions were graded by, but for what is not compared.                 *)
LEMMA KeptIsSame ==
  ASSUME NEW t \in Choice, Distinct(t), NEW g \in graded, Kept(g), g.id = ID(t), db[ID(t)] = t
  PROVE  g.points = t.points /\ CompareTests(g.tests) = Tests(t)
<1>1. Tests(t) \subseteq CompareTests(g.tests)
  BY DEF Kept
<1>2. Cardinality(Tests(t)) = Cardinality(CompareTests(g.tests))
  BY DistinctTests DEF Kept
<1>3. CompareTests(g.tests) = Tests(t)
  BY <1>1, <1>2, FS_Subset DEF Kept
<1> QED
  BY <1>3 DEF Kept

(* While the server is up, whatever a target is linked with is tracked.      *)
LEMMA PreviousAreTracked ==
  ASSUME ServerInv, LinkMetaTargets, NEW n \in Name, targets[n] # None
  PROVE  /\ Previous(targets[n]) \in Seq(Name)
         /\ \A i \in DOMAIN Previous(targets[n]) : targets[Previous(targets[n])[i]] # None
<1> DEFINE t == targets[n]
<1>1. t \in Choice /\ t.subs \in Seq(Name) /\ t.meta \in Name \cup {None}
  BY TargetsAssumption DEF ServerInv
<1>2. CASE t.isMeta
  <2>1. \A i \in DOMAIN t.subs : SubTargets(t)[i] \in Range(SubTargets(t))
    BY DEF SubTargets, Range
  <2>2. \A u \in Range(SubTargets(t)) : u # None
    BY <1>2 DEF LinkMetaTargets, InitAsMetaTarget
  <2> QED
    BY <1>1, <1>2, <2>1, <2>2 DEF Previous, SubTargets
<1>3. CASE ~t.isMeta /\ t.meta = None
  BY <1>3 DEF Previous
<1>4. CASE ~t.isMeta /\ t.meta # None
  <2> DEFINE names == targets[t.meta].subs
             First(k) == names[k] = t.name /\ \A j \in 1..(k - 1) : names[j] # t.name
  <2>1. targets[t.meta] \in Choice /\ names \in Seq(Name)
    BY <1>1, <1>4, TargetsAssumption DEF LinkMetaTargets, InitAsSubTarget, ServerInv
  <2>2. PICK i \in DOMAIN names :
          First(i) /\ \A j \in 1..(i - 1) : targets[names[j]] # None
    BY <1>4 DEF LinkMetaTargets, InitAsSubTarget
  <2> HIDE DEF names
  <2>3. ASSUME NEW k \in DOMAIN names, First(k)
        PROVE  k = i
    <3>1. i \in 1..Len(names) /\ k \in 1..Len(names)
      BY <2>1, <2>3
    <3>2. ~(k < i)
      BY <2>2, <2>3, <3>1
    <3>3. ~(i < k)
      BY <2>2, <2>3, <3>1
    <3> QED
      BY <3>1, <3>2, <3>3
  <2>4. (CHOOSE k \in DOMAIN names : First(k)) = i
    BY <2>2, <2>3
  <2>5. Previous(t) = SubSeq(names, 1, i - 1)
    BY <1>4, <2>4 DEF Previous, names
  <2> HIDE DEF First
  <2>6. i \in 1..Len(names) /\ SubSeq(names, 1, i - 1) = [j \in 1..(i - 1) |-> names[j]]
    BY <2>1, <2>2
  <2> QED
    BY <2>1, <2>2, <2>5, <2>6
<1> QED
  BY <1>2, <1>3, <1>4

(* Each target a submission is graded by is as the database has it, and      *)
(* lists no test twice.                                                      *)
LEMMA SubmittedTargets ==
  ASSUME ServerInv, LinkMetaTargets, NEW n \in Name, targets[n] # None, Instance(targets[n]),
         NEW u \in {Recorded(targets[n])} \cup Range(AllTargets(targets[n]))
  PROVE  /\ u \in Choice /\ db[ID(u)] = u /\ Distinct(u)
         /\ \E m \in Name : targets[m] # None /\ targets[m] = u
<1> DEFINE t == targets[n]
           prev == [i \in DOMAIN Previous(t) |-> targets[Previous(t)[i]]]
<1>1. t \in Choice /\ t.subs \in Seq(Name) /\ t.meta \in Name \cup {None}
  BY TargetsAssumption DEF ServerInv
<1>2. \A m \in Name : targets[m] # None => targets[m] \in Choice /\ db[ID(targets[m])] = targets[m]
  BY DEF ServerInv, Tracked
<1>3. \A m \in Name : targets[m] # None /\ targets[m].isMeta => targets[m].tests = <<>>
  BY DEF LinkMetaTargets, InitAsMetaTarget
<1>4. prev \in Seq(Choice)
  <2>1. Previous(t) \in Seq(Name)
    BY PreviousAreTracked
  <2>2. DOMAIN Previous(t) = 1..Len(Previous(t)) /\ Len(Previous(t)) \in Nat
    BY <2>1
  <2>3. \A i \in DOMAIN Previous(t) : targets[Previous(t)[i]] \in Choice
    <3>1. \A i \in DOMAIN Previous(t) : Previous(t)[i] \in Name
      BY <2>1, <2>2
    <3>2. \A i \in DOMAIN Previous(t) : targets[Previous(t)[i]] # None
      BY PreviousAreTracked
    <3> QED
      BY <1>2, <3>1, <3>2
  <2> QED
    BY <2>2, <2>3
<1>5. AllTargets(t) \in Seq(Choice) /\ (~t.isMeta => AllTargets(t)[1] = t /\ 1 \in DOMAIN AllTargets(t))
  BY <1>1, <1>4 DEF AllTargets
<1>6. \A m \in Name : targets[m] # None /\ targets[m].isMeta => Distinct(targets[m])
  BY <1>3 DEF Distinct
<1>7. ASSUME NEW i \in DOMAIN AllTargets(t)
      PROVE  /\ AllTargets(t)[i] \in Choice /\ Distinct(AllTargets(t)[i])
             /\ db[ID(AllTargets(t)[i])] = AllTargets(t)[i]
             /\ \E m \in Name : targets[m] # None /\ targets[m] = AllTargets(t)[i]
  <2>1. AllTargets(t)[i] \in Choice
    BY <1>5
  <2>2. Distinct(AllTargets(t)[i])
    BY <1>7 DEF Instance, NoTestTwice, Distinct
  <2>3. \E m \in Name : targets[m] # None /\ targets[m] = AllTargets(t)[i]
    <3>1. \A k \in DOMAIN prev : \E m \in Name : targets[m] # None /\ targets[m] = prev[k]
      BY PreviousAreTracked
    <3>2. CASE t.isMeta
      BY <1>4, <1>7, <3>1, <3>2 DEF AllTargets
    <3>3. CASE ~t.isMeta
      <4>1. AllTargets(t) = <<t>> \o prev
        BY <3>3 DEF AllTargets
      <4>2. i = 1 \/ (i - 1 \in DOMAIN prev /\ AllTargets(t)[i] = prev[i - 1])
        BY <1>4, <1>7, <4>1
      <4>3. i = 1 => AllTargets(t)[i] = t
        BY <1>5, <3>3
      <4> QED
        BY <3>1, <4>2, <4>3
    <3> QED
      BY <3>2, <3>3
  <2> QED
    BY <1>2, <2>1, <2>2, <2>3
<1>8. CASE u \in Range(AllTargets(t))
  BY <1>7, <1>8 DEF Range
<1>9. CASE u = Recorded(t) /\ ~IsSubTarget(t)
  BY <1>1, <1>2, <1>5, <1>6, <1>7, <1>9 DEF Recorded
<1>10. CASE u = Recorded(t) /\ IsSubTarget(t)
  <2>1. t.meta \in Name /\ u = targets[t.meta] /\ u # None /\ u.subs # <<>>
    BY <1>1, <1>10, TargetsAssumption DEF Recorded, IsSubTarget, LinkMetaTargets, InitAsSubTarget
  <2> QED
    BY <1>2, <1>6, <2>1, TargetsAssumption
<1> QED
  BY <1>8, <1>9, <1>10

----------------------------------------------------------------------------
(* A step that changes neither the database nor what it is compared with.    *)
LEMMA DatabaseUnchanged ==
  ASSUME GradedInv, UNCHANGED store
  PROVE  GradedInv'
  BY DEF GradedInv, Kept, TestsAlike, store

(* The change of a target that has been submitted to.                        *)
LEMMA AcceptedKeeps ==
  ASSUME ServerInv, GradedInv, NEW t \in Choice, Accepted(t),
         db' = [db EXCEPT ![ID(t)] = t], UNCHANGED graded
  PROVE  GradedInv'
<1>1. db \in [{ID(x) : x \in Choice} -> Choice \cup {None}] /\ t # None
  BY DEF ServerInv, Choice
<1>2. ASSUME NEW g \in graded
      PROVE  Kept(g)'
  <2>1. Kept(g) /\ g.id \in {ID(x) : x \in Choice}
    BY <1>2 DEF GradedInv, Graded
  <2>2. CASE g.id # ID(t)
    BY <1>1, <2>1, <2>2 DEF Kept
  <2>3. CASE g.id = ID(t)
    <3> DEFINE d == db[g.id]
    <3>1. Submitted(ID(t)) /\ d # None /\ db'[g.id] = t
      BY <1>1, <1>2, <2>1, <2>3 DEF Submitted, Kept
    <3>2. d = t \/ IsChangeAllowed(d, t)
      BY <2>3, <3>1 DEF Accepted
    <3>3. CASE d = t
      BY <1>1, <2>1, <3>1, <3>3 DEF Kept
    <3>4. CASE IsChangeAllowed(d, t)
      <4>1. d.points = t.points /\ Len(d.tests) = Len(t.tests)
        BY <3>4 DEF IsChangeAllowed, SameTests
      <4>2. Tests(t) \subseteq Tests(d)
        BY <3>4 DEF IsChangeAllowed, SameTests, LastWith, Range, Tests, CompareTests
      <4> QED
        BY <1>1, <2>1, <3>1, <4>1, <4>2 DEF Kept
    <3> QED
      BY <3>2, <3>3, <3>4
  <2> QED
    BY <2>2, <2>3
<1> QED
  BY <1>2 DEF GradedInv, TestsAlike

(* A submission is graded like those that were made before.                  *)
LEMMA SubmitKeeps ==
  ASSUME ServerInv, GradedInv, NEW n \in Name, SubmitTo(n)
  PROVE  GradedInv'
<1> DEFINE New == {Recorded(targets[n])} \cup Range(AllTargets(targets[n]))
<1>1. graded' = graded \cup {Graded(u) : u \in New} /\ db' = db
  BY DEF SubmitTo
<1>2. \A u \in New : u \in Choice /\ db[ID(u)] = u /\ Distinct(u)
  BY SubmittedTargets DEF SubmitTo, ServerInv
<1> HIDE DEF New
<1>3. ASSUME NEW u \in New, NEW g \in graded, g.id = ID(u)
      PROVE  g.points = u.points /\ CompareTests(g.tests) = Tests(u)
  BY <1>2, <1>3, KeptIsSame DEF GradedInv
<1>4. \A u : /\ Graded(u).id = ID(u) /\ Graded(u).points = u.points
            /\ CompareTests(Graded(u).tests) = Tests(u)
  BY DEF Graded, Tests
<1>5. ASSUME NEW u \in New
      PROVE  Kept(Graded(u))
  BY <1>2, <1>4, <1>5, DistinctTests DEF Kept, Choice
<1>6. ASSUME NEW g \in graded' PROVE (\E t \in Choice : g = Graded(t)) /\ Kept(g)'
  <2>1. Kept(g) => Kept(g)'
    BY <1>1 DEF Kept
  <2>2. CASE g \in graded
    <3>1. (\E t \in Choice : g = Graded(t)) /\ Kept(g)
      BY <2>2 DEF GradedInv
    <3> QED BY <2>1, <3>1
  <2>3. CASE g \notin graded
    <3>1. PICK u \in New : g = Graded(u)
      BY <1>1, <2>3
    <3>2. u \in Choice /\ Kept(Graded(u))
      BY <1>2, <1>5
    <3> QED BY <2>1, <3>1, <3>2
  <2> QED BY <2>2, <2>3
<1>7. ASSUME NEW g \in graded', NEW h \in graded', g.id = h.id
      PROVE  g.points = h.points /\ CompareTests(g.tests) = CompareTests(h.tests)
  <2>1. CASE g \in graded /\ h \in graded
    BY <1>7, <2>1 DEF GradedInv, TestsAlike
  <2>2. CASE g \in graded /\ h \notin graded
    <3>1. PICK u \in New : h = Graded(u)
      BY <1>1, <2>2
    <3> QED
      BY <1>3, <1>4, <1>7, <2>2, <3>1
  <2>3. CASE g \notin graded /\ h \in graded
    <3>1. PICK u \in New : g = Graded(u)
      BY <1>1, <2>3
    <3> QED
      BY <1>3, <1>4, <1>7, <2>3, <3>1
  <2>4. CASE g \notin graded /\ h \notin graded
    <3>1. PICK u \in New, v \in New : g = Graded(u) /\ h = Graded(v)
      BY <1>1, <2>4
    <3>2. u = v
      BY <1>2, <1>4, <1>7, <3>1
    <3> QED
      BY <3>1, <3>2
  <2> QED
    BY <2>1, <2>2, <2>3, <2>4
<1> QED
  BY <1>6, <1>7 DEF GradedInv, TestsAlike

----------------------------------------------------------------------------
(* Linking reads nothing but what is tracked.                                *)
LEMMA LinksUnchanged ==
  ASSUME UNCHANGED targets
  PROVE  LinkMetaTargets' = LinkMetaTargets
  BY DEF LinkMetaTargets, InitAsSubTarget, InitAsMetaTarget, SubTargets

LEMMA InitHolds == TargetsInit => TargetsInv
  BY DEF TargetsInit, TargetsInv, ServerInv, GradedInv, TestsAlike, Tracked, NoTargets

LEMMA EndKeeps ==
  ASSUME TargetsInv, EndServer
  PROVE  TargetsInv'
<1>1. ServerInv'
  BY DEF TargetsInv, ServerInv, EndServer, store, NoTargets, Tracked
<1> QED
  BY <1>1, DatabaseUnchanged DEF TargetsInv, EndServer

LEMMA StartKeeps ==
  ASSUME TargetsInv, StartServer
  PROVE  TargetsInv'
<1>1. ServerInv'
  BY DEF TargetsInv, ServerInv, StartServer, store, NoTargets, Tracked
<1> QED
  BY <1>1, DatabaseUnchanged DEF TargetsInv, StartServer

(* What is tracked came from a file that is no longer to be read, and so is  *)
(* not the version that is stored now, unless it is the target itself.       *)
LEMMA LoadKeeps ==
  ASSUME TargetsInv, NEW f \in File, LoadTarget(f)
  PROVE  TargetsInv'
<1> DEFINE t == file[f]
<1>1. t \in Choice /\ t \in Contents[f] \ {None}
  BY DEF TargetsInv, ServerInv, LoadTarget, IsNext
<1>2. /\ file' = file /\ pc' = pc /\ pc = "loading" /\ f \in unread /\ unread' = unread \ {f}
      /\ db' = [db EXCEPT ![ID(t)] = t] /\ targets' = Track(t) /\ graded' = graded /\ Accepted(t)
  BY DEF LoadTarget, IsNext
<1>3. /\ targets' \in [Name -> Choice \cup {None}]
      /\ \A n \in Name : targets'[n] \in {t, targets[n]}
  BY <1>1, <1>2 DEF TargetsInv, ServerInv, Track, Name
<1>4. db' \in [{ID(x) : x \in Choice} -> Choice \cup {None}] /\ db'[ID(t)] = t
  BY <1>1, <1>2 DEF TargetsInv, ServerInv
<1>5. ASSUME NEW n \in Name
      PROVE  Tracked(n)'
  <2>1. CASE targets'[n] = t
    BY <1>2, <1>4, <2>1 DEF Tracked, TargetsInv, ServerInv
  <2>2. CASE targets'[n] = targets[n] /\ targets[n] # None
    <3>1. PICK g \in File \ unread : file[g] = targets[n]
      BY <1>2, <2>2 DEF TargetsInv, ServerInv, Tracked
    <3>2. g # f /\ file[g] \in Contents[g] \ {None}
      BY <1>2, <2>2, <3>1 DEF TargetsInv, ServerInv
    <3>3. ID(targets[n]) # ID(t)
      BY <1>1, <3>1, <3>2, TargetsAssumption
    <3>4. db[ID(targets[n])] = targets[n]
      BY <2>2 DEF TargetsInv, ServerInv, Tracked
    <3>5. db'[ID(targets[n])] = targets[n]
      BY <1>2, <2>2, <3>3, <3>4 DEF TargetsInv, ServerInv
    <3> QED
      BY <1>2, <2>2, <3>1, <3>5 DEF Tracked
  <2>3. CASE targets'[n] = None
    BY <2>3 DEF Tracked
  <2> QED
    BY <1>3, <2>1, <2>2, <2>3
<1>6. ServerInv'
  BY <1>2, <1>3, <1>4, <1>5 DEF TargetsInv, ServerInv
<1>7. GradedInv'
  BY <1>1, <1>2, AcceptedKeeps DEF TargetsInv
<1> QED
  BY <1>6, <1>7 DEF TargetsInv

LEMMA LoadDoneKeeps ==
  ASSUME TargetsInv, LoadDone
  PROVE  TargetsInv'
<1>1. UNCHANGED <<file, unread, targets, db, graded>> /\ pc' = "up" /\ unread = {} /\ LinkMetaTargets
  BY DEF LoadDone, store
<1>2. LinkMetaTargets'
  BY <1>1, LinksUnchanged
<1>3. ServerInv'
  BY <1>1, <1>2 DEF TargetsInv, ServerInv, Tracked
<1> QED
  BY <1>3, DatabaseUnchanged DEF TargetsInv, LoadDone

LEMMA EditKeeps ==
  ASSUME TargetsInv, NEW f \in File, NEW t \in (Choice \cup {None}) \cap Contents[f], Edit(f, t)
  PROVE  TargetsInv'
<1>1. /\ UNCHANGED <<pc, unread, targets, db, graded>> /\ pc # "loading"
      /\ file' = [file EXCEPT ![f] = t]
  BY DEF Edit, store
<1>2. LinkMetaTargets' = LinkMetaTargets
  BY <1>1, LinksUnchanged
<1>3. ServerInv'
  BY <1>1, <1>2 DEF TargetsInv, ServerInv, Tracked
<1> QED
  BY <1>3, DatabaseUnchanged DEF TargetsInv, Edit

LEMMA SubmitKeepsAll ==
  ASSUME TargetsInv, NEW n \in Name, SubmitTo(n)
  PROVE  TargetsInv'
<1>1. UNCHANGED <<file, pc, unread, targets, db>>
  BY DEF SubmitTo
<1>2. LinkMetaTargets' = LinkMetaTargets
  BY <1>1, LinksUnchanged
<1>3. ServerInv'
  BY <1>1, <1>2 DEF TargetsInv, ServerInv, Tracked
<1> QED
  BY <1>3, SubmitKeeps DEF TargetsInv

LEMMA StepKeeps == TargetsInv /\ [TargetsNext]_targetVars => TargetsInv'
<1> SUFFICES ASSUME TargetsInv, [TargetsNext]_targetVars
             PROVE  TargetsInv'
  OBVIOUS
<1>1. CASE UNCHANGED targetVars
  <2>1. LinkMetaTargets' = LinkMetaTargets
    BY <1>1, LinksUnchanged DEF targetVars
  <2> QED
    BY <1>1, <2>1, DatabaseUnchanged DEF targetVars, store, TargetsInv, ServerInv, Tracked
<1>2. CASE StartServer
  BY <1>2, StartKeeps
<1>3. ASSUME NEW f \in File, LoadTarget(f) \/ LoadFails(f)
      PROVE  TargetsInv'
  BY <1>3, LoadKeeps, EndKeeps DEF LoadFails
<1>4. CASE LoadDone
  BY <1>4, LoadDoneKeeps
<1>5. CASE LinkFails \/ StopServer
  BY <1>5, EndKeeps DEF LinkFails, StopServer
<1>6. ASSUME NEW f \in File, NEW t \in Choice \cup {None}, t \in Contents[f], Edit(f, t)
      PROVE  TargetsInv'
  BY <1>6, EditKeeps
<1>7. ASSUME NEW n \in Name, SubmitTo(n)
      PROVE  TargetsInv'
  BY <1>7, SubmitKeepsAll
<1> QED
  BY <1>1, <1>2, <1>3, <1>4, <1>5, <1>6, <1>7 DEF TargetsNext

(* The submissions to one version of a target are graded by the same tests,  *)
(* with the same points, scoring and leak points (target.go:461,             *)
(* mongopersist.go:203-228), whatever is edited, loaded or refused in        *)
(* between.  The commands are not compared, and not covered.                 *)
THEOREM SubmissionsHaveTheSameTests == TargetsSpec => []TestsAlike
<1>1. TargetsInv => TestsAlike
  BY DEF TargetsInv, GradedInv
<1> QED
  BY <1>1, InitHolds, StepKeeps, PTL DEF TargetsSpec

----------------------------------------------------------------------------
(* The files of the last good start.                                         *)

\* The database has not moved away from what a start has loaded, unless to a
\* target that lists something twice.
Agrees(d, t) == d = t \/ IsChangeAllowed(d, t) \/ ListsTwice(d)

LoadedInv ==
  /\ \A f \in File : loaded[f] \in Choice \cup {None} /\ loaded[f] \in Contents[f] \cup {None}
  /\ pc = "loading" =>
       \A f \in File \ unread : file[f] # None => db[ID(file[f])] = file[f]
  /\ pc = "up" => \A n \in Name : targets[n] # None => \E f \in File : loaded[f] = targets[n]
  /\ \A f \in File : loaded[f] # None /\ Submitted(ID(loaded[f])) =>
       Agrees(db[ID(loaded[f])], loaded[f])

(* A list without repetitions whose elements are all in another one of the   *)
(* same length has the same elements as that, which has no repetitions either. *)
LEMMA SameLength ==
  ASSUME NEW n \in Nat, NEW f, NEW g, f = [i \in 1..n |-> f[i]], g = [i \in 1..n |-> g[i]],
         Range(f) \subseteq Range(g), IsInjective(f)
  PROVE  Range(g) = Range(f) /\ IsInjective(g)
<1>1. IsFiniteSet(1..n) /\ Cardinality(1..n) = n
  BY FirstNumbers
<1>2. f \in Bijection(1..n, Range(f)) /\ g \in Surjection(1..n, Range(g))
  BY DEF Bijection, Injection, Surjection, Range, IsInjective
<1>3. IsFiniteSet(Range(f)) /\ Cardinality(Range(f)) = n
  BY <1>1, <1>2, FS_Bijection DEF ExistsBijection
<1>4. /\ IsFiniteSet(Range(g)) /\ Cardinality(Range(g)) <= n
      /\ Cardinality(Range(g)) = n <=> g \in Injection(1..n, Range(g))
  BY <1>1, <1>2, FS_Surjection
<1>5. /\ Cardinality(Range(f)) <= Cardinality(Range(g))
      /\ Cardinality(Range(f)) = Cardinality(Range(g)) => Range(f) = Range(g)
  BY <1>4, FS_Subset
<1>6. Cardinality(Range(g)) = n
  BY <1>3, <1>4, <1>5, FS_CardinalityType
<1>7. DOMAIN g = 1..n
  OBVIOUS
<1> QED
  BY <1>3, <1>4, <1>5, <1>6, <1>7 DEF Injection, IsInjective

(* An allowed change can be taken back, and whatever it could be changed to  *)
(* before it can be changed to afterwards, unless the target lists something *)
(* twice now.                                                                *)
LEMMA AllowedChange ==
  ASSUME NEW d \in Choice, NEW t \in Choice, IsChangeAllowed(d, t), ~ListsTwice(t)
  PROVE  /\ ~ListsTwice(d)
         /\ IsChangeAllowed(t, d)
         /\ \A u \in Choice : IsChangeAllowed(d, u) => IsChangeAllowed(t, u)
<1> DEFINE ids(x) == [i \in DOMAIN x.tests |-> x.tests[i].id]
<1>1. ASSUME NEW x \in Choice
      PROVE  /\ Len(x.tests) \in Nat /\ DOMAIN x.tests = 1..Len(x.tests)
             /\ Len(x.subs) \in Nat /\ x.subs = [i \in 1..Len(x.subs) |-> x.subs[i]]
  <2>1. x.tests \in Seq(Range(x.tests)) /\ x.subs \in Seq(Name)
    BY TargetsAssumption
  <2> QED
    BY <2>1
<1>2. Len(t.tests) = Len(d.tests) /\ Len(t.subs) = Len(d.subs)
  BY DEF IsChangeAllowed, SameTests, SameSubTargets
<1>3. IsInjective(ids(t)) /\ IsInjective(t.subs)
  BY DEF ListsTwice
<1>4. \A i \in DOMAIN t.tests :
        \E k \in LastWith(d.tests, t.tests[i].id) : Compared(d.tests[k]) = Compared(t.tests[i])
  BY DEF IsChangeAllowed, SameTests, Range
<1>5. Range(ids(t)) \subseteq Range(ids(d))
  BY <1>4 DEF Range, LastWith
<1>6. Range(ids(d)) = Range(ids(t)) /\ IsInjective(ids(d))
  <2> DEFINE n == Len(t.tests)
  <2>1. n \in Nat /\ DOMAIN t.tests = 1..n /\ DOMAIN d.tests = 1..n
    BY <1>1, <1>2
  <2>2. ids(t) = [i \in 1..n |-> ids(t)[i]] /\ ids(d) = [i \in 1..n |-> ids(d)[i]]
    BY <2>1
  <2> HIDE DEF ids, n
  <2> QED
    BY <1>3, <1>5, <2>1, <2>2, SameLength
<1>7. Range(d.subs) = Range(t.subs) /\ IsInjective(d.subs)
  BY <1>1, <1>2, <1>3, SameLength DEF IsChangeAllowed, SameSubTargets
<1>8. ~ListsTwice(d)
  BY <1>6, <1>7 DEF ListsTwice
<1>9. \A k \in DOMAIN d.tests :
        \E i \in LastWith(t.tests, d.tests[k].id) : Compared(t.tests[i]) = Compared(d.tests[k])
  <2> SUFFICES ASSUME NEW k \in DOMAIN d.tests
               PROVE  \E i \in LastWith(t.tests, d.tests[k].id) :
                        Compared(t.tests[i]) = Compared(d.tests[k])
    OBVIOUS
  <2>1. PICK i \in DOMAIN t.tests : t.tests[i].id = d.tests[k].id
    BY <1>6 DEF Range
  <2>2. PICK l \in LastWith(d.tests, t.tests[i].id) : Compared(d.tests[l]) = Compared(t.tests[i])
    BY <1>4
  <2>3. l = k
    BY <1>6, <2>1, <2>2 DEF IsInjective, LastWith
  <2>4. i \in LastWith(t.tests, d.tests[k].id)
    <3>1. \A j \in DOMAIN t.tests : t.tests[j].id = t.tests[i].id => j = i
      BY <1>3 DEF IsInjective
    <3>2. DOMAIN t.tests = 1..Len(t.tests) /\ Len(t.tests) \in Nat
      BY <1>1
    <3>3. \A j \in DOMAIN t.tests : j \in Nat
      BY <3>2
    <3> QED
      BY <2>1, <3>1, <3>3 DEF LastWith
  <2> QED
    BY <2>2, <2>3, <2>4
<1>10. \A k \in DOMAIN d.tests : \A id : k \in LastWith(d.tests, id) => d.tests[k].id = id
  BY DEF LastWith
<1>11. \A u \in Choice : SameTests(d, u) => SameTests(t, u)
  BY <1>2, <1>9, <1>10 DEF SameTests, LastWith
<1>12. SameTests(t, d)
  BY <1>2, <1>9 DEF SameTests, Range
<1> QED
  BY <1>2, <1>7, <1>8, <1>11, <1>12 DEF IsChangeAllowed, SameSubTargets

LEMMA AgreesStill ==
  ASSUME NEW d \in Choice, NEW t \in Choice, NEW u \in Choice, IsChangeAllowed(d, t), Agrees(d, u)
  PROVE  Agrees(t, u)
  BY AllowedChange DEF Agrees

(* A step that changes none of the files, the database and the submissions,  *)
(* and after which the server is down.                                       *)
LEMMA DownKeepsLoaded ==
  ASSUME LoadedInv, UNCHANGED <<loaded, db, graded>>, pc' = "down"
  PROVE  LoadedInv'
  BY DEF LoadedInv, Submitted

(* A target that is stored agrees with what was loaded as its predecessor did. *)
LEMMA LoadKeepsLoaded ==
  ASSUME TargetsInv, LoadedInv, NEW f \in File, LoadTarget(f)
  PROVE  LoadedInv'
<1> DEFINE t == file[f]
<1>1. t \in Choice /\ t \in Contents[f] \ {None}
  BY DEF TargetsInv, ServerInv, LoadTarget, IsNext
<1>2. /\ UNCHANGED <<file, pc, graded, loaded>> /\ pc = "loading" /\ unread' = unread \ {f}
      /\ db' = [db EXCEPT ![ID(t)] = t] /\ Accepted(t)
      /\ db \in [{ID(x) : x \in Choice} -> Choice \cup {None}] /\ None \notin Choice
  BY DEF LoadTarget, IsNext, TargetsInv, ServerInv, Choice
<1>3. ASSUME NEW g \in File \ unread', file[g] # None
      PROVE  db'[ID(file[g])] = file[g]
  <2>1. CASE g = f
    BY <1>1, <1>2, <2>1
  <2>2. CASE g # f
    <3>1. file[g] \in Contents[g] \ {None} /\ db[ID(file[g])] = file[g] /\ file[g] \in Choice
      BY <1>2, <1>3, <2>2 DEF LoadedInv, TargetsInv, ServerInv
    <3>2. ID(file[g]) # ID(t)
      BY <1>1, <2>2, <3>1, TargetsAssumption
    <3> QED
      BY <1>2, <3>1, <3>2
  <2> QED
    BY <2>1, <2>2
<1>4. ASSUME NEW g \in File, loaded[g] # None, Submitted(ID(loaded[g]))
      PROVE  Agrees(db'[ID(loaded[g])], loaded[g])
  <2> DEFINE u == loaded[g]
  <2>1. u \in Choice /\ Agrees(db[ID(u)], u)
    BY <1>4 DEF LoadedInv
  <2>2. CASE ID(u) # ID(t)
    BY <1>2, <2>1, <2>2
  <2>3. CASE ID(u) = ID(t)
    <3>1. db[ID(t)] # None
      BY <1>4, <2>3 DEF Submitted, TargetsInv, GradedInv, Kept
    <3>2. db[ID(t)] \in Choice /\ db'[ID(t)] = t
      BY <1>1, <1>2, <3>1
    <3>3. db[ID(t)] = t \/ IsChangeAllowed(db[ID(t)], t)
      BY <1>2, <1>4, <2>3, <3>1 DEF Accepted
    <3> QED
      BY <1>1, <2>1, <2>3, <3>2, <3>3, AgreesStill
  <2> QED
    BY <2>2, <2>3
<1> QED
  BY <1>2, <1>3, <1>4 DEF LoadedInv, Submitted

LEMMA LoadDoneKeepsLoaded ==
  ASSUME TargetsInv, LoadedInv, LoadDone
  PROVE  LoadedInv'
<1>1. /\ UNCHANGED <<file, targets, db, graded>> /\ pc = "loading" /\ unread = {}
      /\ pc' = "up" /\ loaded' = file
  BY DEF LoadDone, store
<1>2. \A f \in File : file[f] \in Choice \cup {None} /\ file[f] \in Contents[f]
  BY DEF TargetsInv, ServerInv
<1>3. \A f \in File : file[f] # None => db[ID(file[f])] = file[f]
  BY <1>1 DEF LoadedInv
<1>4. \A n \in Name : targets[n] # None => \E f \in File : file[f] = targets[n]
  BY <1>1 DEF TargetsInv, ServerInv, Tracked
<1> QED
  BY <1>1, <1>2, <1>3, <1>4 DEF LoadedInv, Agrees

(* What is submitted to was loaded, and nothing else of its version was.     *)
LEMMA SubmitKeepsLoaded ==
  ASSUME TargetsInv, LoadedInv, NEW n \in Name, SubmitTo(n)
  PROVE  LoadedInv'
<1> DEFINE New == {Recorded(targets[n])} \cup Range(AllTargets(targets[n]))
<1>1. /\ UNCHANGED <<file, pc, unread, targets, db, loaded>> /\ pc = "up"
      /\ graded' = graded \cup {Graded(u) : u \in New}
  BY DEF SubmitTo
<1>2. \A u \in New : /\ u \in Choice /\ db[ID(u)] = u
                     /\ \E m \in Name : targets[m] # None /\ targets[m] = u
  BY SubmittedTargets DEF SubmitTo, TargetsInv, ServerInv
<1> HIDE DEF New
<1>3. ASSUME NEW u \in New, NEW g \in File, loaded[g] # None, ID(loaded[g]) = ID(u)
      PROVE  loaded[g] = u
  <2>1. PICK f \in File : loaded[f] = u
    BY <1>1, <1>2, <1>3 DEF LoadedInv
  <2>2. u # None /\ u \in Contents[f] \ {None} /\ loaded[g] \in Contents[g] \ {None}
    BY <1>2, <1>3, <2>1 DEF LoadedInv, Choice
  <2>3. f = g
    BY <1>3, <2>2, TargetsAssumption
  <2> QED
    BY <2>1, <2>3
<1>4. ASSUME NEW g \in File, loaded[g] # None, Submitted(ID(loaded[g]))'
      PROVE  Agrees(db[ID(loaded[g])], loaded[g])
  <2>1. CASE Submitted(ID(loaded[g]))
    BY <1>4, <2>1 DEF LoadedInv
  <2>2. CASE ~Submitted(ID(loaded[g]))
    <3>1. PICK u \in New : ID(u) = ID(loaded[g])
      BY <1>1, <1>4, <2>2 DEF Submitted, Graded
    <3>2. loaded[g] = u
      BY <1>3, <1>4, <3>1
    <3> QED
      BY <1>2, <3>2 DEF Agrees
  <2> QED
    BY <2>1, <2>2
<1> QED
  BY <1>1, <1>4 DEF LoadedInv

LEMMA StepKeepsLoaded == TargetsInv /\ LoadedInv /\ [TargetsNext]_targetVars => LoadedInv'
<1> SUFFICES ASSUME TargetsInv, LoadedInv, [TargetsNext]_targetVars
             PROVE  LoadedInv'
  OBVIOUS
<1>1. CASE UNCHANGED targetVars
  BY <1>1 DEF targetVars, LoadedInv, Submitted
<1>2. CASE StartServer
  BY <1>2 DEF StartServer, store, LoadedInv, Submitted
<1>3. ASSUME NEW f \in File, LoadTarget(f) \/ LoadFails(f)
      PROVE  LoadedInv'
  BY <1>3, LoadKeepsLoaded, DownKeepsLoaded DEF LoadFails, EndServer, store
<1>4. CASE LoadDone
  BY <1>4, LoadDoneKeepsLoaded
<1>5. CASE LinkFails \/ StopServer
  BY <1>5, DownKeepsLoaded DEF LinkFails, StopServer, EndServer, store
<1>6. ASSUME NEW f \in File, NEW t \in Choice \cup {None}, Edit(f, t)
      PROVE  LoadedInv'
  BY <1>6 DEF Edit, store, LoadedInv, Submitted
<1>7. ASSUME NEW n \in Name, SubmitTo(n)
      PROVE  LoadedInv'
  BY <1>7, SubmitKeepsLoaded
<1> QED
  BY <1>1, <1>2, <1>3, <1>4, <1>5, <1>6, <1>7 DEF TargetsNext

(* What a start has loaded is accepted again, whatever was submitted and     *)
(* stored since by other starts (mongopersist.go:219, target.go:461), but    *)
(* for targets that list something twice.                                    *)
THEOREM LoadedIsAccepted == TargetsSpec => []LastGoodLoads
<1>1. TargetsInit => LoadedInv
  BY DEF TargetsInit, LoadedInv
<1>2. LoadedInv => LastGoodLoads
  BY DEF LoadedInv, LastGoodLoads, Agrees, Accepted
<1> QED
  BY <1>1, <1>2, InitHolds, StepKeeps, StepKeepsLoaded, PTL DEF TargetsSpec
=============================================================================
