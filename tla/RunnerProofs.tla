---------------------------- MODULE RunnerProofs ----------------------------
(***************************************************************************)
(* Both test runners implement TestSchedule, for every group of tests and, *)
(* with dependencies, every choice of them; and the group that             *)
(* GroupFromConfig makes for them is what the configuration says, for all  *)
(* files, expressions and dependencies.                                    *)
(***************************************************************************)
EXTENDS TestRunners, SumLemmas, SequenceTheorems

\* Where a test is, through all the goroutines that deal with it.
Place(t) ==
  /\ holder[t] \in {"waiting", "ready"} => result[t] = "none"
  /\ holder[t] = "aborting" => result[t] = "skip"
  /\ holder[t] # "gone" => exec[t] = "none" /\ submitting # t
  /\ submitting = t => exec[t] = "none" /\ result[t] = "none"
  /\ exec[t] = "running" => result[t] = "none"
  /\ exec[t] \in {"done", "received"} => result[t] \in {"correct", "failed"}

\* A test in the client's channel is finished with.
Reported(t) ==
  t \in Elements(callback) =>
    /\ holder[t] = "gone"
    /\ exec[t] = "received" \/ (exec[t] = "none" /\ result[t] = "skip")

\* Why a test may run, be skipped, or hear of another one.
Reason(t) ==
  /\ \A d \in Deps[t] \ deps[t] : result[d] = "correct"
  /\ deps[t] \subseteq Deps[t]
  /\ holder[t] = "ready" \/ submitting = t => deps[t] = {}
  /\ \A d \in Elements(inbox[t]) : result[d] # "none"

\* The director counts what it sends, and the channel has room for all of it.
CallbackCounted ==
  /\ results = Len(callback)
  /\ IsFiniteSet(Elements(callback))
  /\ Cardinality(Elements(callback)) = results
  /\ Elements(callback) \subseteq Test

IInv ==
  /\ TypeOK
  /\ \A t \in Test : Place(t)
  /\ \A t \in Test : Reported(t)
  /\ \A t \in Test : Reason(t)
  /\ CallbackCounted
-----------------------------------------------------------------------------
(* Channels. *)

LEMMA ElementsOfAppend ==
  ASSUME NEW s \in Seq(Test), NEW t \in Test
  PROVE  Append(s, t) \in Seq(Test) /\ Elements(Append(s, t)) = Elements(s) \cup {t}
  BY DEF Elements

LEMMA ElementsOfTail ==
  ASSUME NEW s \in Seq(Test), s # <<>>
  PROVE  /\ Tail(s) \in Seq(Test)
         /\ Head(s) \in Elements(s)
         /\ Head(s) \in Test
         /\ Elements(Tail(s)) \subseteq Elements(s)
  BY DEF Elements

LEMMA ElementsOfOffer ==
  ASSUME NEW s \in Seq(Test), NEW t \in Test
  PROVE  Offer(s, t) \in Seq(Test) /\ Elements(Offer(s, t)) \subseteq Elements(s) \cup {t}
  BY ElementsOfAppend DEF Offer

LEMMA ElementsOfNothing == Elements(<<>>) = {}
  BY DEF Elements

\* A test that is not in the client's channel is added to it and counted.
LEMMA CallbackSent ==
  ASSUME TypeOK, CallbackCounted, InSelect, NEW t \in Test, t \notin Elements(callback),
         callback' = Offer(callback, t), results' = results + 1
  PROVE  /\ CallbackCounted'
         /\ callback' \in Seq(Test)
         /\ Elements(callback') = Elements(callback) \cup {t}
  <1>1. Cardinality(Test) \in Nat
    BY TestAssumption, FS_CardinalityType
  <1>2. callback' = Append(callback, t)
    BY <1>1 DEF CallbackCounted, InSelect, Offer, BufSize
  <1>3. callback' \in Seq(Test) /\ Elements(callback') = Elements(callback) \cup {t}
    BY <1>2, ElementsOfAppend DEF TypeOK
  <1>4. Len(callback') = Len(callback) + 1
    BY <1>2 DEF TypeOK
  <1>5. /\ IsFiniteSet(Elements(callback) \cup {t})
        /\ Cardinality(Elements(callback) \cup {t}) = Cardinality(Elements(callback)) + 1
    BY FS_AddElement DEF CallbackCounted
  <1> QED BY <1>3, <1>4, <1>5 DEF CallbackCounted
-----------------------------------------------------------------------------
LEMMA InitIInv == Init => IInv
  <1> SUFFICES ASSUME Init PROVE IInv
    OBVIOUS
  <1>1. TypeOK
    <2>1. <<>> \in Seq(Test)
      OBVIOUS
    <2> QED BY <2>1, DepsAssumption DEF Init, TypeOK
  <1>2. ASSUME NEW t \in Test PROVE Place(t) /\ Reported(t) /\ Reason(t)
    <2>1. Place(t)
      BY TestAssumption DEF Init, Place
    <2>2. Reported(t)
      BY ElementsOfNothing DEF Init, Reported
    <2>3. Reason(t)
      BY TestAssumption, ElementsOfNothing DEF Init, Reason
    <2> QED BY <2>1, <2>2, <2>3
  <1>3. CallbackCounted
    BY ElementsOfNothing, FS_EmptySet DEF Init, CallbackCounted
  <1> QED BY <1>1, <1>2, <1>3 DEF IInv

LEMMA ReceiveDepIInv ==
  ASSUME IInv, NEW t \in Test, ReceiveDep(t)
  PROVE  IInv'
  <1> DEFINE d == Head(inbox[t])
  <1>1. /\ d \in Elements(inbox[t]) /\ d \in Test
        /\ Tail(inbox[t]) \in Seq(Test)
        /\ Elements(Tail(inbox[t])) \subseteq Elements(inbox[t])
    BY ElementsOfTail DEF ReceiveDep, IInv, TypeOK
  <1>2. result[d] # "none"
    BY <1>1 DEF IInv, Reason
  <1>3. /\ holder[t] = "waiting" /\ result[t] = "none"
        /\ inbox' = [inbox EXCEPT ![t] = Tail(@)]
        /\ UNCHANGED <<waiting, submitting, exec, results, callback, closed>>
        /\ Received(t, d)
    BY DEF ReceiveDep, IInv, Place
  <1> HIDE DEF d
  <1>4. CASE UNCHANGED <<holder, deps, result>>
    BY <1>1, <1>3, <1>4 DEF IInv, TypeOK, Place, Reported, Reason, CallbackCounted
  <1>5. CASE /\ result[d] = "correct"
             /\ deps' = [deps EXCEPT ![t] = @ \ {d}]
             /\ UNCHANGED <<holder, result>>
    BY <1>1, <1>3, <1>5 DEF IInv, TypeOK, Place, Reported, Reason, CallbackCounted
  <1>6. CASE /\ result' = [result EXCEPT ![t] = "skip"]
             /\ holder' = [holder EXCEPT ![t] = "aborting"]
             /\ UNCHANGED deps
    <2>1. TypeOK' /\ CallbackCounted'
      BY <1>1, <1>3, <1>6 DEF IInv, TypeOK, CallbackCounted
    <2>2. \A u \in Test : Place(u)' /\ Reported(u)'
      BY <1>3, <1>6 DEF IInv, TypeOK, Place, Reported
    <2>3. \A u \in Test : Reason(u)'
      BY <1>1, <1>3, <1>6 DEF IInv, TypeOK, Reason
    <2> QED BY <2>1, <2>2, <2>3 DEF IInv
  <1> QED BY <1>3, <1>4, <1>5, <1>6 DEF Received

\* A broadcast adds one result, that is final, to some of the channels.
LEMMA BroadcastReason ==
  ASSUME TypeOK, NEW t \in Test, NEW to, Broadcast(t, to)
  PROVE  /\ inbox' \in [Test -> Seq(Test)]
         /\ \A u \in Test : Elements(inbox'[u]) \subseteq Elements(inbox[u]) \cup {t}
  BY ElementsOfOffer DEF TypeOK, Broadcast

LEMMA RecvResultIInv ==
  ASSUME IInv, NEW t \in Test, RecvResult(t)
  PROVE  IInv'
  <1>1. t \notin Elements(callback) /\ result[t] # "none" /\ holder[t] = "gone"
    BY DEF IInv, Place, Reported, RecvResult, TypeOK
  <1>2. /\ CallbackCounted'
        /\ callback' \in Seq(Test)
        /\ Elements(callback') = Elements(callback) \cup {t}
    BY <1>1, CallbackSent DEF IInv, RecvResult
  <1>3. /\ inbox' \in [Test -> Seq(Test)]
        /\ \A u \in Test : Elements(inbox'[u]) \subseteq Elements(inbox[u]) \cup {t}
    BY BroadcastReason DEF IInv, RecvResult
  <1>4. TypeOK'
    <2>1. results' \in Nat /\ exec' \in [Test -> {"none", "running", "done", "received"}]
            /\ holder' \in [Test -> {"waiting", "ready", "aborting", "gone"}]
            /\ waiting' \in SUBSET Test
      BY DEF IInv, TypeOK, RecvResult
    <2>2. UNCHANGED <<deps, submitting, result, closed>>
      BY DEF RecvResult
    <2> QED BY <1>2, <1>3, <2>1, <2>2 DEF IInv, TypeOK
  <1>5. \A u \in Test : Place(u)'
    BY DEF IInv, TypeOK, Place, RecvResult
  <1>6. \A u \in Test : Reported(u)'
    BY <1>1, <1>2 DEF IInv, TypeOK, Reported, RecvResult
  <1>7. \A u \in Test : Reason(u)'
    BY <1>1, <1>3 DEF IInv, TypeOK, Reason, RecvResult
  <1> QED BY <1>2, <1>4, <1>5, <1>6, <1>7 DEF IInv

LEMMA RecvAbortIInv ==
  ASSUME IInv, NEW t \in Test, RecvAbort(t)
  PROVE  IInv'
  <1>1. t \notin Elements(callback) /\ result[t] = "skip" /\ exec[t] = "none"
    BY DEF IInv, Place, Reported, RecvAbort, TypeOK
  <1>2. /\ CallbackCounted'
        /\ callback' \in Seq(Test)
        /\ Elements(callback') = Elements(callback) \cup {t}
    BY <1>1, CallbackSent DEF IInv, RecvAbort
  <1>3. /\ inbox' \in [Test -> Seq(Test)]
        /\ \A u \in Test : Elements(inbox'[u]) \subseteq Elements(inbox[u]) \cup {t}
    BY BroadcastReason DEF IInv, RecvAbort
  <1>4. TypeOK'
    <2>1. results' \in Nat /\ exec' \in [Test -> {"none", "running", "done", "received"}]
            /\ holder' \in [Test -> {"waiting", "ready", "aborting", "gone"}]
            /\ waiting' \in SUBSET Test
      BY DEF IInv, TypeOK, RecvAbort
    <2>2. UNCHANGED <<deps, submitting, result, closed>>
      BY DEF RecvAbort
    <2> QED BY <1>2, <1>3, <2>1, <2>2 DEF IInv, TypeOK
  <1>5. \A u \in Test : Place(u)'
    BY <1>1 DEF IInv, TypeOK, Place, RecvAbort
  <1>6. \A u \in Test : Reported(u)'
    BY <1>1, <1>2 DEF IInv, TypeOK, Reported, RecvAbort
  <1>7. \A u \in Test : Reason(u)'
    BY <1>1, <1>3 DEF IInv, TypeOK, Reason, RecvAbort
  <1> QED BY <1>2, <1>4, <1>5, <1>6, <1>7 DEF IInv

LEMMA TestStepsIInv ==
  ASSUME IInv, NEW t \in Test, DepsMet(t) \/ RecvReady(t) \/ TestEnds(t)
  PROVE  IInv'
  <1>1. CallbackCounted'
    BY DEF IInv, CallbackCounted, DepsMet, RecvReady, TestEnds
  <1>2. CASE DepsMet(t)
    BY <1>1, <1>2 DEF IInv, TypeOK, Place, Reported, Reason, DepsMet
  <1>3. CASE RecvReady(t)
    <2>1. TypeOK' /\ \A u \in Test : Reported(u)' /\ Reason(u)'
      BY <1>3 DEF IInv, TypeOK, Place, Reported, Reason, RecvReady
    <2>2. \A u \in Test : Place(u)'
      BY <1>3 DEF IInv, TypeOK, Place, RecvReady
    <2> QED BY <1>1, <2>1, <2>2 DEF IInv
  <1>4. CASE TestEnds(t)
    <2>1. TypeOK' /\ \A u \in Test : Place(u)'
      BY <1>4 DEF IInv, TypeOK, Place, TestEnds
    <2>2. \A u \in Test : Reported(u)' /\ Reason(u)'
      BY <1>4 DEF IInv, TypeOK, Place, Reported, Reason, TestEnds
    <2> QED BY <1>1, <2>1, <2>2 DEF IInv
  <1> QED BY <1>2, <1>3, <1>4

LEMMA DirectorStepsIInv ==
  ASSUME IInv, SendJob \/ CloseCallback \/ UNCHANGED vars
  PROVE  IInv'
  <1>1. CallbackCounted'
    BY DEF IInv, CallbackCounted, SendJob, CloseCallback, vars
  <1>2. CASE SendJob
    <2>1. submitting \in Test /\ submitting' = NoTest /\ NoTest \notin Test
      BY <1>2, TestAssumption DEF IInv, TypeOK, SendJob
    <2>2. TypeOK' /\ \A u \in Test : Place(u)'
      BY <1>2, <2>1 DEF IInv, TypeOK, Place, SendJob
    <2>3. \A u \in Test : Reported(u)' /\ Reason(u)'
      BY <1>2, <2>1 DEF IInv, TypeOK, Place, Reported, Reason, SendJob
    <2> QED BY <1>1, <2>2, <2>3 DEF IInv
  <1>3. CASE CloseCallback
    BY <1>1, <1>3 DEF IInv, TypeOK, Place, Reported, Reason, CloseCallback
  <1>4. CASE UNCHANGED vars
    BY <1>1, <1>4 DEF IInv, TypeOK, Place, Reported, Reason, vars
  <1> QED BY <1>2, <1>3, <1>4

\* The state of the goroutines is consistent, and the director never drops a
\* result it owes the client.
THEOREM RunnerInvariant == Spec => []IInv
  <1>1. IInv /\ [Next]_vars => IInv'
    BY ReceiveDepIInv, RecvResultIInv, RecvAbortIInv, TestStepsIInv, DirectorStepsIInv
       DEF Next, Director
  <1> QED BY InitIInv, <1>1, PTL DEF Spec
-----------------------------------------------------------------------------
(* The refinement. *)

Verdicts == [t \in Test |-> VerdictOf(t)]

LEMMA VerdictChange ==
  ASSUME NEW t \in Test, NEW v, VerdictOf(t)' = v,
         \A u \in Test \ {t} : result'[u] = result[u] /\ (exec'[u] = "none" <=> exec[u] = "none")
  PROVE  Verdicts' = [Verdicts EXCEPT ![t] = v]
  <1>1. \A u \in Test \ {t} : VerdictOf(u)' = VerdictOf(u)
    BY DEF VerdictOf
  <1> QED BY <1>1 DEF Verdicts

LEMMA VerdictSame ==
  ASSUME \A u \in Test : result'[u] = result[u] /\ (exec'[u] = "none" <=> exec[u] = "none")
  PROVE  Verdicts' = Verdicts
  <1>1. \A u \in Test : VerdictOf(u)' = VerdictOf(u)
    BY DEF VerdictOf
  <1> QED BY <1>1 DEF Verdicts

LEMMA SkipRefines ==
  ASSUME IInv, NEW t \in Test, ReceiveDep(t)
  PROVE  Schedule!Skip(t) \/ UNCHANGED Schedule!schedVars
  <1> DEFINE d == Head(inbox[t])
  <1>1. d \in Elements(inbox[t]) /\ d \in Test
    BY ElementsOfTail DEF ReceiveDep, IInv, TypeOK
  <1>2. /\ result[d] \in {"correct", "failed", "skip"}
        /\ holder[t] = "waiting" /\ result[t] = "none" /\ exec[t] = "none"
        /\ deps[t] \subseteq Deps[t]
    BY <1>1 DEF IInv, TypeOK, Place, Reason, ReceiveDep
  <1>3. Received(t, d) /\ UNCHANGED <<exec, callback, closed>>
    BY DEF ReceiveDep
  <1> HIDE DEF d
  <1>4. CASE UNCHANGED result
    BY <1>3, <1>4, VerdictSame DEF Schedule!schedVars, Verdicts
  <1>5. CASE result' = [result EXCEPT ![t] = "skip"] /\ d \in deps[t] /\ result[d] # "correct"
    <2>1. VerdictOf(t) = "waiting" /\ VerdictOf(t)' = "skipped"
      BY <1>2, <1>3, <1>5 DEF VerdictOf, IInv, TypeOK
    <2>2. Verdicts' = [Verdicts EXCEPT ![t] = "skipped"]
      BY <1>3, <1>5, <2>1, VerdictChange DEF IInv, TypeOK
    <2>3. VerdictOf(d) \in {"failed", "skipped"}
      BY <1>2, <1>5 DEF VerdictOf
    <2> QED BY <1>1, <1>2, <1>3, <1>5, <2>1, <2>2, <2>3 DEF Schedule!Skip, Verdicts
  <1> QED BY <1>3, <1>4, <1>5 DEF Received

LEMMA StartRefines ==
  ASSUME IInv, SendJob
  PROVE  \E t \in Test : Schedule!Start(t)
  <1>1. PICK t \in Test :
          /\ t = submitting /\ result[t] = "none" /\ exec[t] = "none"
          /\ \A e \in Deps[t] : result[e] = "correct"
    BY DEF IInv, TypeOK, SendJob, Place, Reason
  <1>2. exec' = [exec EXCEPT ![t] = "running"] /\ UNCHANGED <<result, callback, closed>>
    BY <1>1 DEF SendJob
  <1>3. VerdictOf(t) = "waiting" /\ VerdictOf(t)' = "started"
    BY <1>1, <1>2 DEF VerdictOf, IInv, TypeOK
  <1>4. Verdicts' = [Verdicts EXCEPT ![t] = "started"]
    BY <1>1, <1>2, <1>3, VerdictChange DEF IInv, TypeOK
  <1>5. \A e \in Deps[t] : e \in Test /\ VerdictOf(e) = "correct"
    BY <1>1, DepsAssumption DEF VerdictOf
  <1> QED BY <1>1, <1>2, <1>3, <1>4, <1>5 DEF Schedule!Start, Verdicts

LEMMA EndRefines ==
  ASSUME IInv, NEW t \in Test, TestEnds(t)
  PROVE  Schedule!End(t)
  <1>1. result[t] = "none" /\ exec[t] = "running" /\ UNCHANGED <<callback, closed>>
    BY DEF TestEnds, IInv, Place
  <1>2. VerdictOf(t) = "started"
    BY <1>1 DEF VerdictOf
  <1>3. ASSUME NEW r \in {"correct", "failed"}, result' = [result EXCEPT ![t] = r]
        PROVE  Verdicts' = [Verdicts EXCEPT ![t] = r]
    <2>1. VerdictOf(t)' = r
      BY <1>3 DEF VerdictOf, IInv, TypeOK
    <2> QED BY <1>1, <1>3, <2>1, VerdictChange DEF TestEnds, IInv, TypeOK
  <1> QED BY <1>1, <1>2, <1>3 DEF TestEnds, Schedule!End, Verdicts

LEMMA ReportRefines ==
  ASSUME IInv, NEW t \in Test, RecvResult(t) \/ RecvAbort(t)
  PROVE  Schedule!Report(t)
  <1>1. /\ t \notin Elements(callback)
        /\ result[t] \in {"correct", "failed", "skip"}
    BY DEF IInv, TypeOK, Place, Reported, RecvResult, RecvAbort
  <1>2. /\ InSelect
        /\ callback' = Offer(callback, t) /\ results' = results + 1
        /\ UNCHANGED <<result, closed>>
    BY DEF RecvResult, RecvAbort
  <1>2a. \A u \in Test : exec'[u] = "none" <=> exec[u] = "none"
    BY DEF RecvResult, RecvAbort, IInv, TypeOK
  <1>3. Elements(callback') = Elements(callback) \cup {t}
    BY <1>1, <1>2, CallbackSent DEF IInv
  <1>4. Verdicts' = Verdicts
    BY <1>2, <1>2a, VerdictSame
  <1>5. VerdictOf(t) \in {"correct", "failed", "skipped"}
    BY <1>1 DEF VerdictOf
  <1> QED BY <1>1, <1>2, <1>3, <1>4, <1>5 DEF Schedule!Report, Verdicts, Elements

LEMMA CloseRefines ==
  ASSUME IInv, CloseCallback
  PROVE  Schedule!Close
  <1>1. Elements(callback) = Test
    <2>1. Cardinality(Test) \in Nat /\ Cardinality(Elements(callback)) <= Cardinality(Test)
      BY TestAssumption, FS_CardinalityType, FS_Subset DEF IInv, CallbackCounted
    <2>2. Cardinality(Elements(callback)) = Cardinality(Test)
      BY <2>1 DEF IInv, TypeOK, CallbackCounted, CloseCallback
    <2> QED BY <2>2, TestAssumption, FS_Subset DEF IInv, CallbackCounted
  <1>2. Verdicts' = Verdicts
    BY VerdictSame DEF CloseCallback
  <1> QED BY <1>1, <1>2 DEF Schedule!Close, Verdicts, CloseCallback, Elements

\* DependencyRunner keeps the promise of a test runner: no test runs before its
\* dependencies are correct, none is skipped without a cause, every report is
\* final and unique, and the channel is closed only after the last one.
THEOREM RunnerKeepsSchedule == Spec => KeepsSchedule
  <1>1. Init => Schedule!Init
    <2> SUFFICES ASSUME Init PROVE Schedule!Init
      OBVIOUS
    <2>1. \A t \in Test : VerdictOf(t) = "waiting"
      BY DEF Init, VerdictOf
    <2> QED BY <2>1, ElementsOfNothing DEF Init, Schedule!Init
  <1>2. IInv /\ [Next]_vars => [Schedule!Next]_(Schedule!schedVars)
    <2> SUFFICES ASSUME IInv, [Next]_vars PROVE Schedule!Next \/ UNCHANGED Schedule!schedVars
      OBVIOUS
    <2>1. ASSUME NEW t \in Test, DepsMet(t) \/ RecvReady(t)
          PROVE  UNCHANGED Schedule!schedVars
      BY <2>1, VerdictSame DEF DepsMet, RecvReady, Schedule!schedVars, Verdicts, Elements
    <2>2. CASE UNCHANGED vars
      BY <2>2, VerdictSame DEF vars, Schedule!schedVars, Verdicts, Elements
    <2> QED BY <2>1, <2>2, SkipRefines, StartRefines, EndRefines, ReportRefines, CloseRefines
            DEF Next, Director, Schedule!Next
  <1> QED BY <1>1, <1>2, RunnerInvariant, PTL DEF Spec, KeepsSchedule, Schedule!Spec
-----------------------------------------------------------------------------
(* The group is made by the steps of GroupFromConfig; then the runner that is *)
(* made takes its own steps, the other one none.                             *)

LEMMA RunnersSteps ==
  RunnersSpec => /\ GraphInit /\ [][GraphNext]_graphVars
                 /\ Init /\ [][Next]_vars
                 /\ Simple!Init /\ [][Simple!Next]_simpleVars
<1>1. RunnersInit => GraphInit /\ Init /\ Simple!Init
  BY DEF RunnersInit
<1>2. [RunnersNext]_allVars =>
        [GraphNext]_graphVars /\ [Next]_vars /\ [Simple!Next]_simpleVars
  <2>1. Make(GraphNext) => [GraphNext]_graphVars /\ [Next]_vars /\ [Simple!Next]_simpleVars
    BY DEF Make
  <2>2. With(Next) => [GraphNext]_graphVars /\ [Next]_vars /\ [Simple!Next]_simpleVars
    BY DEF With
  <2>3. Without(Simple!Next)
          => [GraphNext]_graphVars /\ [Next]_vars /\ [Simple!Next]_simpleVars
    BY DEF Without
  <2> QED BY <2>1, <2>2, <2>3 DEF RunnersNext, allVars
<1> QED BY <1>1, <1>2, PTL DEF RunnersSpec

\* The runner with dependencies (runners.go), in either configuration.
THEOREM DependencyRunnerKeepsSchedule == RunnersSpec => KeepsSchedule
<1>1. RunnersSpec => Spec
  BY RunnersSteps, PTL DEF Spec
<1> QED BY <1>1, RunnerKeepsSchedule, PTL
-----------------------------------------------------------------------------
(* The simple runner. *)

\* A test is sent once, its result is made before it is received, and the client's
\* channel holds what was received.
SimpleInv ==
  /\ Simple!TypeOK
  /\ \A t \in Test :
       /\ t \in unsent => sExec[t] = "none"
       /\ sExec[t] \in {"done", "received"} => sResult[t] \in {"correct", "failed"}
       /\ t \in Elements(sCallback) <=> sExec[t] = "received"
  /\ Len(sCallback) = count /\ Cardinality(Elements(sCallback)) = count

\* The instance counts with the same Cardinality.
LEMMA SameCardinality == \A S : Simple!Cardinality(S) = Cardinality(S)
  BY DEF Simple!Cardinality, Cardinality

LEMMA SimpleInit == Simple!Init => SimpleInv
<1> SUFFICES ASSUME Simple!Init PROVE SimpleInv  OBVIOUS
<1>1. <<>> \in Seq(Test) /\ Len(<<>>) = 0 /\ Elements(<<>>) = {}
  BY ElementsOfNothing
<1>2. Cardinality(Test) \in Nat /\ Cardinality({}) = 0
  BY TestAssumption, FS_CardinalityType, FS_EmptySet
<1>3. 0 \in 0..Cardinality(Test)
  BY <1>2
<1>4. Simple!TypeOK
  BY <1>1, <1>3, SameCardinality DEF Simple!Init, Simple!TypeOK
<1>5. sCallback = <<>> /\ count = 0 /\ \A t \in Test : sExec[t] = "none"
  BY DEF Simple!Init
<1> QED BY <1>1, <1>2, <1>4, <1>5 DEF SimpleInv

\* A received result is added to the client's channel, which has room for it.
LEMMA SimpleCollect ==
  ASSUME SimpleInv, NEW t \in Test, Simple!Collect(t)
  PROVE  /\ sCallback' \in Seq(Test) /\ Elements(sCallback') = Elements(sCallback) \cup {t}
         /\ count' \in 0..Cardinality(Test)
         /\ Len(sCallback') = count' /\ Cardinality(Elements(sCallback')) = count'
         /\ t \notin Elements(sCallback)
<1>1. /\ Cardinality(Test) \in Nat /\ count \in Nat /\ count < Cardinality(Test) /\ count' = count + 1
  BY TestAssumption, FS_CardinalityType, SameCardinality DEF Simple!Collect, SimpleInv, Simple!TypeOK
<1>2. sCallback \in Seq(Test) /\ Len(sCallback) = count /\ t \notin Elements(sCallback)
  BY DEF SimpleInv, Simple!TypeOK, Simple!Collect
<1>3. sCallback' = Append(sCallback, t)
  BY <1>1, <1>2, SameCardinality DEF Simple!Collect, Simple!BufSize
<1>4. sCallback' \in Seq(Test) /\ Elements(sCallback') = Elements(sCallback) \cup {t}
  BY <1>2, <1>3, ElementsOfAppend
<1>5. Elements(sCallback) \subseteq Test /\ IsFiniteSet(Elements(sCallback))
  BY <1>2, TestAssumption, FS_Subset DEF Elements
<1>6. Cardinality(Elements(sCallback) \cup {t}) = Cardinality(Elements(sCallback)) + 1
  BY <1>2, <1>5, FS_AddElement
<1>7. Len(sCallback') = Len(sCallback) + 1
  BY <1>2, <1>3
<1> QED BY <1>1, <1>2, <1>4, <1>6, <1>7 DEF SimpleInv

LEMMA SimpleStep ==
  ASSUME SimpleInv, [Simple!Next]_simpleVars
  PROVE  SimpleInv'
<1>1. ASSUME NEW t \in Test, Simple!Send(t) PROVE SimpleInv'
  BY <1>1 DEF Simple!Send, SimpleInv, Simple!TypeOK
<1>2. ASSUME NEW t \in Test, Simple!TestEnds(t) PROVE SimpleInv'
  BY <1>2 DEF Simple!TestEnds, SimpleInv, Simple!TypeOK
<1>3. ASSUME NEW t \in Test, Simple!Collect(t) PROVE SimpleInv'
  BY <1>3, SimpleCollect, SameCardinality DEF Simple!Collect, SimpleInv, Simple!TypeOK
<1>4. CASE Simple!StartCollector \/ Simple!CloseCallback
  BY <1>4 DEF Simple!StartCollector, Simple!CloseCallback, SimpleInv, Simple!TypeOK
<1>5. CASE UNCHANGED simpleVars
  BY <1>5 DEF simpleVars, SimpleInv, Simple!TypeOK
<1> QED BY <1>1, <1>2, <1>3, <1>4, <1>5 DEF Simple!Next

SimpleVerdicts == [t \in Test |-> Simple!VerdictOf(t)]

LEMMA SimpleVerdictChange ==
  ASSUME NEW t \in Test, NEW v, Simple!VerdictOf(t)' = v,
         \A u \in Test \ {t} : sResult'[u] = sResult[u] /\ sExec'[u] = sExec[u]
  PROVE  SimpleVerdicts' = [SimpleVerdicts EXCEPT ![t] = v]
<1>1. \A u \in Test \ {t} : Simple!VerdictOf(u)' = Simple!VerdictOf(u)
  BY DEF Simple!VerdictOf
<1> QED BY <1>1 DEF SimpleVerdicts

LEMMA SimpleVerdictSame ==
  ASSUME \A u \in Test : Simple!VerdictOf(u)' = Simple!VerdictOf(u)
  PROVE  SimpleVerdicts' = SimpleVerdicts
BY DEF SimpleVerdicts

LEMMA SimpleSendRefines ==
  ASSUME SimpleInv, NEW t \in Test, Simple!Send(t)
  PROVE  Simple!Schedule!Start(t)
<1>1. /\ sExec[t] = "none" /\ sExec' = [sExec EXCEPT ![t] = "running"]
      /\ UNCHANGED <<sResult, collector, sCallback>>
  BY DEF SimpleInv, Simple!Send
<1>2. Simple!VerdictOf(t) = "waiting" /\ Simple!VerdictOf(t)' = "started"
  BY <1>1 DEF Simple!VerdictOf, SimpleInv, Simple!TypeOK
<1>3. SimpleVerdicts' = [SimpleVerdicts EXCEPT ![t] = "started"]
  BY <1>1, <1>2, SimpleVerdictChange DEF SimpleInv, Simple!TypeOK
<1> QED BY <1>1, <1>2, <1>3 DEF Simple!Schedule!Start, SimpleVerdicts, Simple!Elements

LEMMA SimpleEndRefines ==
  ASSUME SimpleInv, NEW t \in Test, Simple!TestEnds(t)
  PROVE  Simple!Schedule!End(t)
<1>1. PICK r \in {"correct", "failed"} : sResult' = [sResult EXCEPT ![t] = r]
  BY DEF Simple!TestEnds
<1>2. /\ sExec[t] = "running" /\ sExec' = [sExec EXCEPT ![t] = "done"]
      /\ UNCHANGED <<collector, sCallback>>
  BY DEF Simple!TestEnds
<1>3. Simple!VerdictOf(t) = "started" /\ Simple!VerdictOf(t)' = r
  BY <1>1, <1>2 DEF Simple!VerdictOf, SimpleInv, Simple!TypeOK
<1>4. SimpleVerdicts' = [SimpleVerdicts EXCEPT ![t] = r]
  BY <1>1, <1>2, <1>3, SimpleVerdictChange DEF SimpleInv, Simple!TypeOK
<1> QED BY <1>1, <1>2, <1>3, <1>4 DEF Simple!Schedule!End, SimpleVerdicts, Simple!Elements

LEMMA SimpleCollectRefines ==
  ASSUME SimpleInv, NEW t \in Test, Simple!Collect(t)
  PROVE  Simple!Schedule!Report(t)
<1>1. /\ sExec[t] = "done" /\ sExec' = [sExec EXCEPT ![t] = "received"]
      /\ UNCHANGED <<sResult, collector>>
  BY DEF Simple!Collect
<1>2. \A u \in Test : Simple!VerdictOf(u)' = Simple!VerdictOf(u)
  BY <1>1 DEF Simple!VerdictOf, SimpleInv, Simple!TypeOK
<1>3. Simple!VerdictOf(t) \in {"correct", "failed", "skipped"}
  BY <1>1 DEF Simple!VerdictOf, SimpleInv
<1>4. t \notin Elements(sCallback) /\ Elements(sCallback') = Elements(sCallback) \cup {t}
  BY SimpleCollect
<1> QED BY <1>1, <1>2, <1>3, <1>4, SimpleVerdictSame
        DEF Simple!Schedule!Report, SimpleVerdicts, Simple!Elements, Elements

LEMMA SimpleCloseRefines ==
  ASSUME SimpleInv, Simple!CloseCallback
  PROVE  Simple!Schedule!Close
<1>1. /\ collector = "running" /\ collector' = "done" /\ count = Cardinality(Test)
      /\ UNCHANGED <<sExec, sResult, sCallback>>
  BY SameCardinality DEF Simple!CloseCallback
<1>2. Elements(sCallback) = Test
  <2>1. Elements(sCallback) \subseteq Test
    BY DEF SimpleInv, Simple!TypeOK, Elements
  <2> QED BY <1>1, <2>1, TestAssumption, FS_Subset DEF SimpleInv
<1>3. SimpleVerdicts' = SimpleVerdicts
  BY <1>1, SimpleVerdictSame DEF Simple!VerdictOf
<1> QED BY <1>1, <1>2, <1>3
        DEF Simple!Schedule!Close, SimpleVerdicts, Simple!Elements, Elements

\* SimpleRunner.Run (runners.go) keeps the promise of a test runner for tests
\* without dependencies, though its goroutine that collects the results starts only
\* after every test was sent, and no matter how many have ended by then.
THEOREM SimpleRunnerKeepsSchedule == RunnersSpec => SimpleKeepsSchedule
<1>1. Simple!Init => Simple!Schedule!Init
  <2> SUFFICES ASSUME Simple!Init PROVE Simple!Schedule!Init  OBVIOUS
  <2>1. \A t \in Test : Simple!VerdictOf(t) = "waiting"
    BY DEF Simple!Init, Simple!VerdictOf
  <2>2. Simple!Elements(sCallback) = {} /\ (collector = "done") = FALSE
    BY ElementsOfNothing DEF Simple!Init, Simple!Elements, Elements
  <2> QED BY <2>1, <2>2 DEF Simple!Schedule!Init
<1>2. SimpleInv /\ [Simple!Next]_simpleVars
        => [Simple!Schedule!Next]_(Simple!Schedule!schedVars)
  <2> SUFFICES ASSUME SimpleInv, [Simple!Next]_simpleVars
               PROVE  Simple!Schedule!Next \/ UNCHANGED Simple!Schedule!schedVars
    OBVIOUS
  <2>1. CASE Simple!StartCollector \/ UNCHANGED simpleVars
    <3>1. UNCHANGED <<sExec, sResult, sCallback>> /\ (collector' = "done") = (collector = "done")
      BY <2>1 DEF Simple!StartCollector, simpleVars
    <3>2. \A u \in Test : Simple!VerdictOf(u)' = Simple!VerdictOf(u)
      BY <3>1 DEF Simple!VerdictOf
    <3> QED BY <3>1, <3>2, SimpleVerdictSame
            DEF Simple!Schedule!schedVars, SimpleVerdicts, Simple!Elements
  <2>2. CASE Simple!CloseCallback
    BY <2>2, SimpleCloseRefines DEF Simple!Schedule!Next
  <2>3. ASSUME NEW t \in Test, Simple!Send(t) \/ Simple!TestEnds(t) \/ Simple!Collect(t)
        PROVE  Simple!Schedule!Next
    BY <2>3, SimpleSendRefines, SimpleEndRefines, SimpleCollectRefines DEF Simple!Schedule!Next
  <2> QED BY <2>1, <2>2, <2>3 DEF Simple!Next
<1>3. SimpleInv /\ [Simple!Next]_simpleVars => SimpleInv'
  BY SimpleStep
<1> QED BY <1>1, <1>2, <1>3, SimpleInit, RunnersSteps, PTL
        DEF SimpleKeepsSchedule, Simple!KeepsSchedule, Simple!Schedule!Spec
-----------------------------------------------------------------------------
(* GroupFromConfig: the group that the runners are given. *)

Distinct(s) == \A i, j \in 1..Len(s) : i # j => s[i] # s[j]

\* What the expressions of the configuration stand for.
Asked == UNION {Meaning(e) : e \in config}
AllMean(E) == \A e \in E : Meaning(e) # {}
Known(t) == AllMean(depends[t])

\* The results that GroupFromConfig has received, by stage.
LoadState ==
  pc = "load" =>
    /\ todo \subseteq TestFile
    /\ tests = (TestFile \ todo) \ broken
    /\ errs <=> broken \cap (TestFile \ todo) # {}
    /\ group = {} /\ requested = {} /\ isDep = {}

AllLoaded == pc \notin {"load", "failed"} => broken = {} /\ tests = TestFile

ExpandState ==
  pc = "expand" =>
    /\ todo \subseteq config
    /\ group = UNION {Meaning(e) : e \in config \ todo}
    /\ requested = group /\ isDep = {}
    /\ errs <=> ~AllMean(config \ todo)

AllExpanded ==
  pc \in {"deps", "graph", "sort", "collect", "done"} => AllMean(config)

DepsState ==
  pc = "deps" =>
    /\ todo \subseteq TestFile
    /\ \A t \in TestFile \ todo : Known(t) => expanded[t] = DirectDeps(t)
    /\ errs <=> \E t \in TestFile \ todo : ~Known(t)

GroupState ==
  /\ pc \in {"deps", "graph", "sort", "collect"} => withDeps
  /\ pc \in {"deps", "graph", "sort"} \/ (pc = "done" /\ ~withDeps) =>
       group = Asked /\ requested = Asked /\ isDep = {}

DepsExpanded ==
  pc \in {"graph", "sort", "collect"} \/ (pc = "done" /\ withDeps) =>
    \A t \in TestFile : Known(t) /\ expanded[t] = DirectDeps(t)

\* TopSort: what is left of the edges, and the nodes of which none comes in.
EdgeState ==
  pc = "sort" =>
    /\ \A t, u \in TestFile :
         u \in edgesIn[t] <=> /\ t \in expanded[u]
                              /\ u \notin Elements(sorted) \/ (u = node /\ t \in left)
    /\ \A t \in TestFile :
         edgesOut[t] = IF t \in Elements(sorted) /\ t # node THEN {} ELSE expanded[t]
    /\ IF node = NoNode THEN left = {}
                        ELSE node \in Elements(sorted) /\ left \subseteq expanded[node]

QueueState ==
  pc = "sort" =>
    /\ Distinct(empty)
    /\ Elements(empty) \cap Elements(sorted) = {}
    /\ \A t \in TestFile : edgesIn[t] = {} <=> t \in Elements(empty) \cup Elements(sorted)

SortState ==
  /\ Distinct(sorted)
  /\ \A i \in 1..Len(sorted) : \A t \in TestFile :
       sorted[i] \in expanded[t] => \E j \in 1..(i - 1) : sorted[j] = t
  /\ pc \in {"load", "expand", "deps", "graph"} => sorted = <<>> /\ node = NoNode /\ left = {}

\* The walk from a requested test stays behind it, and forgets nothing.
WalkState(t) ==
  /\ found[t] \cup frontier[t] \subseteq Behind({t})
  /\ t \in found[t] \cup frontier[t]
  /\ \A n \in found[t] : expanded[n] \subseteq found[t] \cup frontier[t]

CollectState ==
  pc = "collect" \/ (pc = "done" /\ withDeps) =>
    /\ ~Cyclic
    /\ todo \subseteq Asked
    /\ \A t \in TestFile \ Asked : frontier[t] = {}
    /\ \A t \in Asked : WalkState(t)
    /\ \A t \in Asked \ todo : frontier[t] = {}
    /\ group = Asked \cup UNION {found[t] : t \in Asked \ todo}
    /\ isDep = group \ Asked
    /\ requested = Asked
    /\ pc = "done" => todo = {}

\* Nothing is found before the walks begin.
NoWalkYet == pc \in {"load", "expand", "deps", "graph", "sort"} => found = NoTests

FailState == pc = "failed" => ~Valid

InputOK ==
  depends \in DependsOf /\ broken \subseteq TestFile /\ config \in ConfigTests /\ withDeps \in BOOLEAN

GraphInv ==
  /\ GraphTypeOK /\ InputOK
  /\ LoadState /\ AllLoaded
  /\ ExpandState /\ AllExpanded /\ GroupState
  /\ DepsState /\ DepsExpanded
  /\ EdgeState /\ QueueState /\ SortState
  /\ CollectState
  /\ FailState
-----------------------------------------------------------------------------
(* What depends on what. *)

LEMMA MeaningInTests ==
  /\ \A e : Meaning(e) \subseteq TestFile
  /\ \A t : DirectDeps(t) \subseteq TestFile
<1>1. \A e : Meaning(e) \subseteq TestFile
  BY GlobAssumption DEF Meaning
<1> QED BY <1>1 DEF DirectDeps

\* Behind(T) is the least complete set of tests with those of T.
LEMMA BehindProps ==
  ASSUME NEW T, T \subseteq TestFile
  PROVE  /\ Behind(T) \subseteq TestFile /\ T \subseteq Behind(T)
         /\ Complete(Behind(T))
         /\ \A S : S \subseteq TestFile /\ T \subseteq S /\ Complete(S) => Behind(T) \subseteq S
<1>1. Behind(T) \subseteq TestFile /\ T \subseteq Behind(T)
  BY DEF Behind
<1>2. ASSUME NEW S, S \subseteq TestFile, T \subseteq S, Complete(S)
      PROVE  Behind(T) \subseteq S
  BY <1>2 DEF Behind
<1>3. ASSUME NEW t \in Behind(T), NEW u \in DirectDeps(t)
      PROVE  u \in Behind(T)
  <2>1. u \in TestFile
    BY MeaningInTests
  <2>2. ASSUME NEW S \in SUBSET TestFile, T \subseteq S, Complete(S)
        PROVE  u \in S
    <3>1. t \in S
      BY <1>2, <2>2
    <3> QED BY <2>2, <3>1 DEF Complete
  <2> QED BY <2>1, <2>2 DEF Behind
<1>4. Complete(Behind(T))
  BY <1>3 DEF Complete
<1> QED BY <1>1, <1>2, <1>4

\* Tests each of which somebody in the set depends on: one is behind itself.
LEMMA CycleAmong ==
  ASSUME NEW U, U \subseteq TestFile, U # {},
         \A t \in U : \E u \in U : t \in DirectDeps(u)
  PROVE  Cyclic
<1> DEFINE B(t) == Behind(DirectDeps(t))
           C == {TestFile \ B(t) : t \in U}
<1> SUFFICES ASSUME ~Cyclic PROVE FALSE
  OBVIOUS
<1>1. PICK S \in C : Least(S, C)
  <2>1. C \subseteq SUBSET TestFile /\ C # {}
    OBVIOUS
  <2> HIDE DEF C
  <2> QED BY <2>1, LeastSet, GlobAssumption
<1>2. PICK t \in U : S = TestFile \ B(t)
  OBVIOUS
<1>3. PICK u \in U : t \in DirectDeps(u)
  OBVIOUS
<1>4. /\ DirectDeps(u) \subseteq B(u) /\ Complete(B(u)) /\ B(u) \subseteq TestFile
  BY MeaningInTests, BehindProps
<1>5. t \in B(u) /\ DirectDeps(t) \subseteq B(u)
  BY <1>3, <1>4 DEF Complete
<1>6. B(t) \subseteq B(u)
  BY <1>4, <1>5, MeaningInTests, BehindProps
<1>7. t \notin B(t)
  BY DEF Cyclic
<1>8. TestFile \ B(u) \in C /\ TestFile \ B(u) \subseteq S /\ TestFile \ B(u) # S
  BY <1>2, <1>5, <1>6, <1>7
<1> QED BY <1>1, <1>8 DEF Least

\* A test is not behind itself where all tests are in a row, dependents first.
LEMMA NoCycleInOrder ==
  ASSUME NEW s \in Seq(TestFile), Distinct(s), Elements(s) = TestFile,
         \A i \in 1..Len(s) : \A t \in TestFile :
           s[i] \in DirectDeps(t) => \E j \in 1..(i - 1) : s[j] = t
  PROVE  ~Cyclic
<1> SUFFICES ASSUME NEW t \in TestFile, t \in Behind(DirectDeps(t)) PROVE FALSE
  BY DEF Cyclic
<1>0. Len(s) \in Nat
  OBVIOUS
<1>1. PICK i \in 1..Len(s) : s[i] = t
  BY DEF Elements
<1> DEFINE S == {s[j] : j \in (i + 1)..Len(s)}
<1>2. S \subseteq TestFile
  BY <1>0
<1>3. ASSUME NEW k \in i..Len(s), NEW u \in DirectDeps(s[k])
      PROVE  u \in S
  <2>1. u \in TestFile /\ s[k] \in TestFile /\ k \in 1..Len(s)
    BY <1>0, MeaningInTests
  <2>2. PICK m \in 1..Len(s) : s[m] = u
    BY <2>1 DEF Elements
  <2>3. PICK j \in 1..(m - 1) : s[j] = s[k]
    BY <2>1, <2>2
  <2>4. j = k
    BY <1>0, <2>1, <2>2, <2>3 DEF Distinct
  <2> QED BY <1>0, <2>2, <2>3, <2>4
<1>4. DirectDeps(t) \subseteq S
  <2>1. i \in i..Len(s)
    BY <1>0
  <2> HIDE DEF S
  <2> QED BY <1>1, <1>3, <2>1
<1>5. Complete(S)
  <2> SUFFICES ASSUME NEW k \in (i + 1)..Len(s) PROVE DirectDeps(s[k]) \subseteq S
    BY DEF Complete
  <2> QED BY <1>0, <1>3
<1>6. t \in S
  BY <1>2, <1>4, <1>5, MeaningInTests, BehindProps
<1> QED BY <1>0, <1>1, <1>6 DEF Distinct
-----------------------------------------------------------------------------
(* Queues of nodes. *)

LEMMA DistinctAppend ==
  ASSUME NEW s \in Seq(TestFile), NEW t \in TestFile
  PROVE  /\ Append(s, t) \in Seq(TestFile)
         /\ Elements(Append(s, t)) = Elements(s) \cup {t}
         /\ Distinct(s) /\ t \notin Elements(s) => Distinct(Append(s, t))
<1>1. /\ Append(s, t) \in Seq(TestFile) /\ Len(Append(s, t)) = Len(s) + 1 /\ Len(s) \in Nat
      /\ \A i \in 1..Len(s) : Append(s, t)[i] = s[i]
      /\ Append(s, t)[Len(s) + 1] = t
  OBVIOUS
<1>2. Elements(Append(s, t)) = Elements(s) \cup {t}
  <2>1. Elements(Append(s, t)) \subseteq Elements(s) \cup {t}
    BY <1>1 DEF Elements
  <2>2. Elements(s) \subseteq Elements(Append(s, t))
    BY <1>1 DEF Elements
  <2>3. Len(s) + 1 \in 1..Len(Append(s, t))
    BY <1>1
  <2>4. t \in Elements(Append(s, t))
    BY <1>1, <2>3 DEF Elements
  <2> QED BY <2>1, <2>2, <2>4
<1>3. Distinct(s) /\ t \notin Elements(s) => Distinct(Append(s, t))
  BY <1>1 DEF Distinct, Elements
<1> QED BY <1>1, <1>2, <1>3

LEMMA DistinctTail ==
  ASSUME NEW s \in Seq(TestFile), s # <<>>
  PROVE  /\ Tail(s) \in Seq(TestFile)
         /\ Head(s) \in TestFile /\ Head(s) \in Elements(s)
         /\ Elements(s) = Elements(Tail(s)) \cup {Head(s)}
         /\ Distinct(s) => Distinct(Tail(s)) /\ Head(s) \notin Elements(Tail(s))
<1>1. /\ Tail(s) \in Seq(TestFile) /\ Len(s) \in Nat \ {0} /\ Len(Tail(s)) = Len(s) - 1
      /\ \A i \in 1..(Len(s) - 1) : Tail(s)[i] = s[i + 1]
      /\ Head(s) = s[1]
  OBVIOUS
<1>2. Head(s) \in TestFile /\ Head(s) \in Elements(s)
  BY <1>1 DEF Elements
<1>3. Elements(s) = Elements(Tail(s)) \cup {Head(s)}
  <2>1. Elements(Tail(s)) \subseteq Elements(s)
    BY <1>1 DEF Elements
  <2>2. ASSUME NEW i \in 1..Len(s), i # 1 PROVE s[i] \in Elements(Tail(s))
    <3>1. i - 1 \in 1..Len(Tail(s)) /\ Tail(s)[i - 1] = s[i]
      BY <1>1, <2>2
    <3> QED BY <3>1 DEF Elements
  <2> QED BY <1>1, <1>2, <2>1, <2>2 DEF Elements
<1>4. Distinct(s) => Distinct(Tail(s)) /\ Head(s) \notin Elements(Tail(s))
  BY <1>1 DEF Distinct, Elements
<1> QED BY <1>1, <1>2, <1>3, <1>4

\* An order of finitely many nodes has each of them once (the pigeonhole principle).
LEMMA OrdersProps ==
  ASSUME NEW S, S \subseteq TestFile, NEW s \in Orders(S)
  PROVE  s \in Seq(TestFile) /\ Distinct(s) /\ Elements(s) = S
<1> DEFINE n == Cardinality(S)
<1>1. IsFiniteSet(S) /\ n \in Nat
  BY GlobAssumption, FS_Subset, FS_CardinalityType
<1>2. s \in [1..n -> S] /\ \A i, j \in 1..n : i # j => s[i] # s[j]
  BY DEF Orders
<1>3. s \in Seq(S) /\ Len(s) = n
  BY <1>1, <1>2, IsASeq, LenProperties
<1>4. s \in Seq(TestFile)
  BY <1>3, SeqMonotonic
<1>5. s \in Injection(1..n, S)
  BY <1>2 DEF Injection, IsInjective
<1>6. Cardinality(1..n) = n
  BY <1>1, FS_Interval
<1>7. s \in Surjection(1..n, S)
  BY <1>1, <1>5, <1>6, FS_Injection
<1>8. Elements(s) = S
  BY <1>2, <1>3, <1>7 DEF Elements, Surjection
<1>9. Distinct(s)
  BY <1>2, <1>3 DEF Distinct
<1> QED BY <1>4, <1>8, <1>9
-----------------------------------------------------------------------------
(* The input does not change, nor what is computed from it. *)

LEMMA InputStays ==
  ASSUME UNCHANGED input
  PROVE  /\ UNCHANGED <<depends, broken, config, withDeps>>
         /\ \A e : Meaning(e)' = Meaning(e)
         /\ \A t : DirectDeps(t)' = DirectDeps(t) /\ Known(t)' = Known(t)
         /\ \A E : AllMean(E)' = AllMean(E)
         /\ AllMean(config)' = AllMean(config)
         /\ \A T : Complete(T)' = Complete(T) /\ Behind(T)' = Behind(T)
         /\ Asked' = Asked /\ Cyclic' = Cyclic /\ Valid' = Valid
<1>1. UNCHANGED <<depends, broken, config, withDeps>>
  BY DEF input
<1>2. \A e : Meaning(e)' = Meaning(e)
  BY DEF Meaning
<1>3. \A t : DirectDeps(t)' = DirectDeps(t) /\ Known(t)' = Known(t)
  BY <1>1 DEF DirectDeps, Known, AllMean, Meaning
<1>4. \A E : AllMean(E)' = AllMean(E)
  BY <1>1 DEF AllMean, Meaning
<1>5. \A T : Complete(T)' = Complete(T)
  BY <1>3 DEF Complete
<1>6. \A T : Behind(T)' = Behind(T)
  BY <1>5 DEF Behind
<1>7. Asked' = Asked
  BY <1>1 DEF Asked, Meaning
<1>8. Cyclic' = Cyclic
  BY <1>1 DEF Cyclic, Behind, Complete, DirectDeps, Meaning
<1>9. Valid' = Valid
  BY <1>1, <1>8 DEF Valid, Meaning
<1>10. AllMean(config)' = AllMean(config)
  BY <1>1 DEF AllMean, Meaning
<1> QED BY <1>1, <1>2, <1>3, <1>4, <1>5, <1>6, <1>7, <1>8, <1>9, <1>10
-----------------------------------------------------------------------------
(* Every action keeps the invariant. *)

LEMMA InputOKStays == ASSUME InputOK, UNCHANGED input PROVE InputOK'
BY DEF InputOK, input

\* Once the tests are read, an expression matches what it means.
LEMMA MatchesMeans ==
  ASSUME tests = TestFile
  PROVE  \A e : Matches(e) = Meaning(e)
BY DEF Matches, Meaning

LEMMA GraphInitInv == GraphInit => GraphInv
<1> SUFFICES ASSUME GraphInit PROVE GraphInv
  OBVIOUS
<1>1. InputOK
  BY DEF GraphInit, InputOK
<1>2. GraphTypeOK
  BY EmptySeq DEF GraphInit, GraphTypeOK, NoTests
<1>3. LoadState /\ AllLoaded
  BY DEF GraphInit, LoadState, AllLoaded
<1>4. ExpandState /\ AllExpanded /\ GroupState /\ DepsState /\ DepsExpanded /\ EdgeState /\ QueueState /\ CollectState /\ FailState
  BY DEF GraphInit, ExpandState, AllExpanded, GroupState, DepsState, DepsExpanded, EdgeState, QueueState,
         CollectState, FailState
<1>5. SortState
  <2>1. sorted = <<>> /\ node = NoNode /\ left = {} /\ Len(<<>>) = 0
    BY DEF GraphInit
  <2>2. 1..Len(sorted) = {}
    BY <2>1
  <2> QED BY <2>1, <2>2 DEF SortState, Distinct
<1> QED BY <1>1, <1>2, <1>3, <1>4, <1>5 DEF GraphInv

LEMMA LoadInv ==
  ASSUME GraphInv, NEW t \in TestFile, Load(t)
  PROVE  GraphInv'
<1>0. pc = "load" /\ pc' = "load" /\ UNCHANGED <<input, expanded, group, isDep, requested, sort, walk>>
  BY DEF Load
<1>1. InputOK'
  BY <1>0, InputOKStays DEF GraphInv, InputOK
<1>2. GraphTypeOK'
  BY <1>0 DEF Load, GraphInv, GraphTypeOK, sort, walk
<1>3. LoadState'
  BY <1>0, InputStays DEF Load, GraphInv, GraphTypeOK, InputOK, LoadState
<1>4. SortState'
  BY <1>0 DEF GraphInv, SortState, Distinct, sort
<1>5. (AllLoaded /\ ExpandState /\ AllExpanded /\ GroupState /\ DepsState /\ DepsExpanded /\ EdgeState /\ QueueState
       /\ CollectState /\ FailState)'
  BY <1>0 DEF AllLoaded, ExpandState, AllExpanded, GroupState, DepsState, DepsExpanded, EdgeState, QueueState,
         CollectState, FailState
<1> QED BY <1>1, <1>2, <1>3, <1>4, <1>5 DEF GraphInv

LEMMA LoadDoneInv ==
  ASSUME GraphInv, LoadDone
  PROVE  GraphInv'
<1>0. /\ pc = "load" /\ todo = {} /\ UNCHANGED <<input, errs, tests, expanded, group, isDep, requested, sort, walk>>
      /\ pc' = IF errs THEN "failed" ELSE "expand"
      /\ todo' = IF errs THEN {} ELSE config
  BY DEF LoadDone, Stage
<1>1. InputOK'
  BY <1>0, InputOKStays DEF GraphInv, InputOK
<1>2. GraphTypeOK'
  <2>1. config \subseteq UNION ConfigTests
    BY DEF GraphInv, InputOK
  <2> QED BY <1>0, <2>1 DEF GraphInv, GraphTypeOK, sort, walk
<1>3. tests = TestFile \ broken /\ (errs <=> broken # {})
  <2>1. broken \cap (TestFile \ todo) = broken
    BY <1>0 DEF GraphInv, InputOK
  <2> QED BY <1>0, <2>1 DEF GraphInv, LoadState
<1>4. AllLoaded' /\ LoadState'
  BY <1>0, <1>3, InputStays DEF AllLoaded, LoadState
<1>5. SortState'
  BY <1>0 DEF GraphInv, SortState, Distinct, sort
<1>6. FailState'
  BY <1>0, <1>3, InputStays DEF FailState, Valid
<1>7. ExpandState'
  <2>1. /\ group = {} /\ isDep = {} /\ requested = {} /\ UNCHANGED config
        /\ pc' = "expand" => ~errs /\ todo' = config
    BY <1>0, InputStays DEF GraphInv, LoadState
  <2>2. pc' = "expand" => config \ todo' = {}
    BY <2>1
  <2>3. pc' = "expand" => ({Meaning(e) : e \in config \ todo} = {} /\ AllMean(config \ todo))'
    BY <2>1, <2>2 DEF AllMean
  <2>4. UNION {} = {}
    OBVIOUS
  <2> QED BY <1>0, <2>1, <2>3, <2>4 DEF ExpandState
<1>8. (AllExpanded /\ GroupState /\ DepsState /\ DepsExpanded /\ EdgeState /\ QueueState /\ CollectState)'
  BY <1>0 DEF AllExpanded, GroupState, DepsState, DepsExpanded, EdgeState, QueueState, CollectState
<1> QED BY <1>1, <1>2, <1>4, <1>5, <1>6, <1>7, <1>8 DEF GraphInv

LEMMA ExpandTestInv ==
  ASSUME GraphInv, NEW e \in config, ExpandTest(e)
  PROVE  GraphInv'
<1>0. pc = "expand" /\ pc' = "expand" /\ UNCHANGED <<input, tests, expanded, isDep, sort, walk>>
      /\ e \in todo /\ todo' = todo \ {e}
      /\ errs' = (errs \/ Matches(e) = {})
      /\ group' = group \cup Matches(e) /\ requested' = group'
  BY DEF ExpandTest
<1>1. InputOK'
  BY <1>0, InputOKStays DEF GraphInv
<1>2. tests = TestFile /\ Matches(e) = Meaning(e) /\ Meaning(e) \subseteq TestFile
  BY <1>0, MatchesMeans, MeaningInTests DEF GraphInv, AllLoaded
<1>3. GraphTypeOK'
  <2> USE <1>0
  <2>1. isDep = {}
    BY DEF GraphInv, ExpandState
  <2> QED BY <1>2, <2>1 DEF GraphInv, GraphTypeOK, sort, walk
<1>4. ExpandState'
  <2>1. /\ todo \subseteq config /\ group = UNION {Meaning(d) : d \in config \ todo}
        /\ isDep = {} /\ (errs <=> ~AllMean(config \ todo))
    BY <1>0 DEF GraphInv, ExpandState
  <2>2. config \ todo' = (config \ todo) \cup {e}
    BY <1>0, <2>1
  <2>3. group' = UNION {Meaning(d) : d \in config \ todo'}
    BY <1>0, <1>2, <2>1, <2>2
  <2>4. errs' <=> ~AllMean(config \ todo')
    BY <1>0, <1>2, <2>1, <2>2 DEF AllMean
  <2>5. config' = config /\ (\A d : Meaning(d)' = Meaning(d))
    BY <1>0, InputStays
  <2>6. group' = (UNION {Meaning(d) : d \in config \ todo})'
    BY <2>3, <2>5
  <2>7. errs' <=> ~AllMean(config \ todo)'
    BY <2>4, <2>5 DEF AllMean
  <2> QED BY <1>0, <2>1, <2>5, <2>6, <2>7 DEF ExpandState
<1>5. SortState'
  BY <1>0 DEF GraphInv, SortState, Distinct, sort
<1>6. AllLoaded'
  BY <1>0, InputStays DEF GraphInv, AllLoaded
<1>7. (LoadState /\ AllExpanded /\ GroupState /\ DepsState /\ DepsExpanded /\ EdgeState /\ QueueState
       /\ CollectState /\ FailState)'
  BY <1>0 DEF LoadState, AllExpanded, GroupState, DepsState, DepsExpanded, EdgeState, QueueState,
         CollectState, FailState
<1> QED BY <1>1, <1>3, <1>4, <1>5, <1>6, <1>7 DEF GraphInv

LEMMA ExpandTestsDoneInv ==
  ASSUME GraphInv, ExpandTestsDone
  PROVE  GraphInv'
<1>0. /\ pc = "expand" /\ todo = {} /\ UNCHANGED <<input, errs, tests, expanded, group, isDep, requested, sort, walk>>
      /\ pc' = IF errs THEN "failed" ELSE IF withDeps THEN "deps" ELSE "done"
      /\ todo' = IF errs \/ ~withDeps THEN {} ELSE tests
  BY DEF ExpandTestsDone, Stage
<1>1. InputOK'
  BY <1>0, InputOKStays DEF GraphInv
<1>2. /\ group = Asked /\ requested = Asked /\ isDep = {} /\ (errs <=> ~AllMean(config))
      /\ tests = TestFile /\ broken = {}
  <2>1. config \ {} = config
    OBVIOUS
  <2> QED BY <1>0, <2>1 DEF GraphInv, ExpandState, AllLoaded, Asked
<1>3. GraphTypeOK'
  BY <1>0, <1>2 DEF GraphInv, GraphTypeOK, sort, walk
<1>4. AllLoaded' /\ LoadState' /\ ExpandState'
  BY <1>0, <1>2, InputStays DEF AllLoaded, LoadState, ExpandState
<1>5. AllExpanded' /\ GroupState'
  BY <1>0, <1>2, InputStays DEF AllExpanded, GroupState
<1>6. DepsState'
  BY <1>0, <1>2, InputStays DEF DepsState
<1>7. SortState'
  BY <1>0 DEF GraphInv, SortState, Distinct, sort
<1>8. FailState'
  BY <1>0, <1>2, InputStays DEF FailState, Valid, AllMean
<1>9. (DepsExpanded /\ EdgeState /\ QueueState /\ CollectState)'
  BY <1>0, InputStays DEF DepsExpanded, EdgeState, QueueState, CollectState
<1> QED BY <1>1, <1>3, <1>4, <1>5, <1>6, <1>7, <1>8, <1>9 DEF GraphInv

LEMMA ExpandDepsInv ==
  ASSUME GraphInv, NEW t \in TestFile, ExpandDeps(t)
  PROVE  GraphInv'
<1>0. pc = "deps" /\ pc' = "deps" /\ UNCHANGED <<input, tests, group, isDep, requested, sort, walk>>
      /\ t \in todo /\ todo' = todo \ {t}
  BY DEF ExpandDeps
<1>1. InputOK'
  BY <1>0, InputOKStays DEF GraphInv
<1>2. /\ UnknownDep(t) <=> ~Known(t)
      /\ UNION {Matches(e) : e \in depends[t]} = DirectDeps(t)
      /\ DirectDeps(t) \subseteq TestFile /\ tests = TestFile
  <2>1. tests = TestFile
    BY <1>0 DEF GraphInv, AllLoaded
  <2>2. \A e : Matches(e) = Meaning(e)
    BY <2>1, MatchesMeans
  <2> QED BY <2>1, <2>2, MeaningInTests DEF UnknownDep, Known, AllMean, DirectDeps
<1>3. expanded \in [TestFile -> SUBSET TestFile] /\ errs \in BOOLEAN
  BY DEF GraphInv, GraphTypeOK
<1>4. \/ ~Known(t) /\ errs' = TRUE /\ UNCHANGED expanded
      \/ Known(t) /\ expanded' = [expanded EXCEPT ![t] = DirectDeps(t)] /\ UNCHANGED errs
  BY <1>2 DEF ExpandDeps
<1>5. /\ expanded' \in [TestFile -> SUBSET TestFile] /\ errs' \in BOOLEAN
      /\ Known(t) => expanded'[t] = DirectDeps(t)
      /\ \A u \in TestFile \ {t} : expanded'[u] = expanded[u]
      /\ errs' <=> errs \/ ~Known(t)
  <2>1. CASE ~Known(t) /\ errs' = TRUE /\ UNCHANGED expanded
    BY <1>3, <2>1
  <2>2. CASE Known(t) /\ expanded' = [expanded EXCEPT ![t] = DirectDeps(t)] /\ UNCHANGED errs
    BY <1>2, <1>3, <2>2
  <2> QED BY <1>4, <2>1, <2>2
<1>6. GraphTypeOK'
  BY <1>0, <1>5 DEF GraphInv, GraphTypeOK, sort, walk
<1>7. DepsState'
  <2>1. /\ todo \subseteq TestFile
        /\ \A u \in TestFile \ todo : Known(u) => expanded[u] = DirectDeps(u)
        /\ errs <=> \E u \in TestFile \ todo : ~Known(u)
    BY <1>0 DEF GraphInv, DepsState
  <2>2. \A u \in TestFile \ todo' : Known(u) => expanded'[u] = DirectDeps(u)
    BY <1>0, <1>5, <2>1
  <2>3. errs' <=> \E u \in TestFile \ todo' : ~Known(u)
    BY <1>0, <1>5, <2>1
  <2>4. \A u : DirectDeps(u)' = DirectDeps(u) /\ Known(u)' = Known(u)
    BY <1>0, InputStays
  <2> QED BY <1>0, <2>1, <2>2, <2>3, <2>4 DEF DepsState
<1>8. SortState'
  <2>1. sorted = <<>> /\ Len(<<>>) = 0 /\ node = NoNode /\ left = {}
    BY <1>0 DEF GraphInv, SortState
  <2>2. 1..Len(sorted) = {}
    BY <2>1
  <2> QED BY <1>0, <2>1, <2>2 DEF SortState, Distinct, sort
<1>9. (AllLoaded /\ AllExpanded /\ GroupState)'
  BY <1>0, InputStays DEF GraphInv, AllLoaded, AllExpanded, GroupState
<1>10. (LoadState /\ ExpandState /\ DepsExpanded /\ EdgeState /\ QueueState /\ CollectState /\ FailState)'
  BY <1>0 DEF LoadState, ExpandState, DepsExpanded, EdgeState, QueueState, CollectState, FailState
<1> QED BY <1>1, <1>6, <1>7, <1>8, <1>9, <1>10 DEF GraphInv

LEMMA ExpandDepsDoneInv ==
  ASSUME GraphInv, ExpandDepsDone
  PROVE  GraphInv'
<1>0. /\ pc = "deps" /\ todo = {} /\ UNCHANGED <<input, errs, tests, expanded, group, isDep, requested, sort, walk>>
      /\ pc' = IF errs THEN "failed" ELSE "graph"
      /\ todo' = {}
  BY DEF ExpandDepsDone, Stage
<1>1. InputOK'
  BY <1>0, InputOKStays DEF GraphInv
<1>2. /\ \A t \in TestFile : Known(t) => expanded[t] = DirectDeps(t)
      /\ errs <=> \E t \in TestFile : ~Known(t)
      /\ withDeps
  <2>1. TestFile \ {} = TestFile
    OBVIOUS
  <2> QED BY <1>0, <2>1 DEF GraphInv, DepsState, GroupState
<1>3. GraphTypeOK'
  BY <1>0 DEF GraphInv, GraphTypeOK, sort, walk
<1>4. (AllLoaded /\ AllExpanded /\ GroupState)'
  BY <1>0, InputStays DEF GraphInv, AllLoaded, AllExpanded, GroupState
<1>5. DepsExpanded'
  BY <1>0, <1>2, InputStays DEF DepsExpanded
<1>6. SortState'
  BY <1>0 DEF GraphInv, SortState, Distinct, sort
<1>7. FailState'
  BY <1>0, <1>2, InputStays DEF FailState, Valid, Known, AllMean
<1>8. (LoadState /\ ExpandState /\ DepsState /\ EdgeState /\ QueueState /\ CollectState)'
  BY <1>0 DEF LoadState, ExpandState, DepsState, EdgeState, QueueState, CollectState
<1> QED BY <1>1, <1>3, <1>4, <1>5, <1>6, <1>7, <1>8 DEF GraphInv

LEMMA BuildGraphInv ==
  ASSUME GraphInv, BuildGraph
  PROVE  GraphInv'
<1>0. /\ pc = "graph"
      /\ UNCHANGED <<input, todo, errs, tests, expanded, group, isDep, requested, walk, node, left, sorted>>
      /\ SelfDependent => pc' = "failed" /\ UNCHANGED sort
      /\ ~SelfDependent => /\ pc' = "sort" /\ edgesOut' = expanded
                           /\ edgesIn' = [t \in TestFile |-> Dependents(t)]
                           /\ \E s \in Orders({t \in tests : Dependents(t) = {}}) : empty' = s
  BY DEF BuildGraph, sort
<1>1. InputOK'
  BY <1>0, InputOKStays DEF GraphInv
<1>2. /\ tests = TestFile /\ withDeps
      /\ \A t \in TestFile : Known(t) /\ expanded[t] = DirectDeps(t)
      /\ sorted = <<>> /\ node = NoNode /\ left = {}
      /\ GraphTypeOK
  BY <1>0 DEF GraphInv, AllLoaded, GroupState, DepsExpanded, SortState
<1>3. (AllLoaded /\ AllExpanded /\ GroupState /\ DepsExpanded)'
  BY <1>0, InputStays DEF GraphInv, AllLoaded, AllExpanded, GroupState, DepsExpanded
<1>4. Elements(sorted) = {} /\ 1..Len(sorted) = {}
  <2>1. Len(<<>>) = 0
    OBVIOUS
  <2>2. 1..Len(sorted) = {}
    BY <1>2, <2>1
  <2> QED BY <2>2 DEF Elements
<1>5. SortState'
  BY <1>0, <1>2, <1>4 DEF SortState, Distinct
<1>6. CASE SelfDependent
  <2>1. GraphTypeOK'
    BY <1>0, <1>2, <1>6 DEF GraphTypeOK, sort, walk
  <2>2. Cyclic
    <3>1. PICK t \in TestFile : t \in DirectDeps(t)
      BY <1>2, <1>6 DEF SelfDependent
    <3>2. t \in Behind(DirectDeps(t))
      BY <3>1, MeaningInTests, BehindProps
    <3> QED BY <3>2 DEF Cyclic
  <2>3. ~Valid
    BY <1>2, <2>2 DEF Valid
  <2>4. FailState'
    BY <1>0, <2>3, InputStays DEF FailState
  <2>5. (LoadState /\ ExpandState /\ DepsState /\ EdgeState /\ QueueState /\ CollectState)'
    BY <1>0, <1>6 DEF LoadState, ExpandState, DepsState, EdgeState, QueueState, CollectState
  <2> QED BY <1>1, <1>3, <1>5, <2>1, <2>4, <2>5 DEF GraphInv
<1>7. CASE ~SelfDependent
  <2>1. \A t, u \in TestFile : u \in edgesIn'[t] <=> t \in expanded[u]
    BY <1>0, <1>2, <1>7 DEF Dependents
  <2>2. PICK s \in Orders({t \in tests : Dependents(t) = {}}) : empty' = s
    BY <1>0, <1>7
  <2>3. /\ empty' \in Seq(TestFile) /\ Distinct(empty')
        /\ Elements(empty') = {t \in TestFile : Dependents(t) = {}}
    BY <1>2, <2>2, OrdersProps
  <2>4. GraphTypeOK'
    <3>1. edgesIn' \in [TestFile -> SUBSET TestFile]
      BY <1>0, <1>2, <1>7 DEF Dependents
    <3> QED BY <1>0, <1>2, <1>7, <2>3, <3>1 DEF GraphTypeOK, walk
  <2>5. EdgeState'
    BY <1>0, <1>2, <1>4, <1>7, <2>1 DEF EdgeState, Elements
  <2>6. QueueState'
    <3>1. \A t \in TestFile : edgesIn'[t] = Dependents(t)
      BY <1>0, <1>7
    <3>2. Distinct(empty)' /\ Elements(empty)' = {t \in TestFile : Dependents(t) = {}} /\ Elements(sorted)' = {}
      BY <1>0, <1>4, <2>3 DEF Distinct, Elements
    <3> QED BY <3>1, <3>2 DEF QueueState
  <2>7. (LoadState /\ ExpandState /\ DepsState /\ CollectState /\ FailState)'
    BY <1>0, <1>7 DEF LoadState, ExpandState, DepsState, CollectState, FailState
  <2> QED BY <1>1, <1>3, <1>5, <2>4, <2>5, <2>6, <2>7 DEF GraphInv
<1> QED BY <1>6, <1>7

\* What a step of TopSort leaves alone.
SortStep ==
  /\ pc = "sort" /\ pc' = "sort"
  /\ UNCHANGED <<input, todo, errs, tests, expanded, group, isDep, requested, walk>>

LEMMA SortFrame ==
  ASSUME GraphInv, SortStep
  PROVE  (/\ InputOK /\ LoadState /\ AllLoaded /\ ExpandState /\ AllExpanded /\ GroupState
          /\ DepsState /\ DepsExpanded /\ CollectState /\ FailState)'
<1>1. InputOK'
  BY InputOKStays DEF SortStep, GraphInv
<1>2. (AllLoaded /\ AllExpanded /\ GroupState /\ DepsExpanded)'
  BY InputStays DEF SortStep, GraphInv, AllLoaded, AllExpanded, GroupState, DepsExpanded
<1>3. (LoadState /\ ExpandState /\ DepsState /\ CollectState /\ FailState)'
  BY DEF SortStep, LoadState, ExpandState, DepsState, CollectState, FailState
<1> QED BY <1>1, <1>2, <1>3

LEMMA TakeNodeInv ==
  ASSUME GraphInv, TakeNode
  PROVE  GraphInv'
<1>0. /\ SortStep /\ node = NoNode /\ empty # <<>> /\ UNCHANGED <<edgesOut, edgesIn>>
      /\ node' = Head(empty) /\ left' = edgesOut[Head(empty)]
      /\ sorted' = Append(sorted, Head(empty)) /\ empty' = Tail(empty)
  BY DEF TakeNode, SortStep
<1> DEFINE h == Head(empty)
<1>1. GraphTypeOK /\ EdgeState /\ QueueState /\ SortState /\ NoNode \notin TestFile /\ pc = "sort"
      /\ UNCHANGED expanded
  BY <1>0, GlobAssumption DEF GraphInv, SortStep
<1>2. /\ empty' \in Seq(TestFile) /\ h \in TestFile /\ h \in Elements(empty)
      /\ Elements(empty) = Elements(empty') \cup {h}
      /\ Distinct(empty) /\ Distinct(empty') /\ h \notin Elements(empty')
  BY <1>0, <1>1, DistinctTail DEF GraphTypeOK, QueueState
<1>3. /\ h \notin Elements(sorted)
      /\ sorted' \in Seq(TestFile) /\ Elements(sorted') = Elements(sorted) \cup {h}
      /\ Distinct(sorted')
  BY <1>0, <1>1, <1>2, DistinctAppend DEF GraphTypeOK, QueueState, SortState
<1>4. left' = expanded[h] /\ left' \subseteq TestFile
  BY <1>0, <1>1, <1>2, <1>3 DEF EdgeState, GraphTypeOK
<1>5. GraphTypeOK'
  BY <1>0, <1>1, <1>2, <1>3, <1>4 DEF GraphTypeOK, SortStep, walk
<1>6. EdgeState'
  <2>1. ASSUME NEW t \in TestFile, NEW u \in TestFile
        PROVE  u \in edgesIn'[t] <=> /\ t \in expanded[u]
                                     /\ u \notin Elements(sorted') \/ (u = h /\ t \in left')
    BY <1>0, <1>1, <1>2, <1>3, <1>4 DEF EdgeState
  <2>2. ASSUME NEW t \in TestFile
        PROVE  edgesOut'[t] = IF t \in Elements(sorted') /\ t # h THEN {} ELSE expanded[t]
    BY <1>0, <1>1, <1>2, <1>3 DEF EdgeState
  <2> QED BY <1>0, <1>1, <1>2, <1>3, <1>4, <2>1, <2>2 DEF EdgeState, Elements
<1>7. QueueState'
  <2>1. ASSUME NEW t \in TestFile
        PROVE  edgesIn'[t] = {} <=> t \in Elements(empty') \cup Elements(sorted')
    BY <1>0, <1>1, <1>2, <1>3 DEF QueueState
  <2>2. Elements(empty') \cap Elements(sorted') = {}
    BY <1>1, <1>2, <1>3 DEF QueueState
  <2> QED BY <1>0, <1>2, <2>1, <2>2 DEF QueueState, Distinct, Elements
<1>8. SortState'
  <2>1. ASSUME NEW t \in TestFile, h \in expanded[t]
        PROVE  t \in Elements(sorted)
    <3>1. edgesIn[h] = {}
      BY <1>1, <1>2 DEF QueueState
    <3> QED BY <1>0, <1>1, <1>2, <2>1, <3>1 DEF EdgeState
  <2>2. /\ sorted \in Seq(TestFile) /\ Len(sorted) \in Nat
        /\ Len(sorted') = Len(sorted) + 1
        /\ \A i \in 1..Len(sorted) : sorted'[i] = sorted[i]
        /\ sorted'[Len(sorted) + 1] = h
    BY <1>0, <1>1, <1>2 DEF GraphTypeOK
  <2>3. ASSUME NEW i \in 1..Len(sorted'), NEW t \in TestFile, sorted'[i] \in expanded[t]
        PROVE  \E j \in 1..(i - 1) : sorted'[j] = t
    <3>1. CASE i = Len(sorted) + 1
      <4>1. PICK j \in 1..Len(sorted) : sorted[j] = t
        BY <2>1, <2>2, <2>3, <3>1 DEF Elements
      <4> QED BY <2>2, <3>1, <4>1
    <3>2. CASE i \in 1..Len(sorted)
      <4>1. PICK j \in 1..(i - 1) : sorted[j] = t
        BY <1>1, <2>2, <2>3, <3>2 DEF SortState
      <4> QED BY <2>2, <3>2, <4>1
    <3> QED BY <2>2, <3>1, <3>2
  <2> QED BY <1>0, <1>1, <1>3, <2>3 DEF SortState, Distinct, SortStep
<1> QED BY <1>0, <1>5, <1>6, <1>7, <1>8, SortFrame DEF GraphInv

LEMMA RemoveEdgeInv ==
  ASSUME GraphInv, NEW t \in TestFile, RemoveEdge(t)
  PROVE  GraphInv'
<1>0. /\ SortStep /\ t \in left /\ left' = left \ {t} /\ UNCHANGED <<edgesOut, node, sorted>>
      /\ edgesIn' = [edgesIn EXCEPT ![t] = @ \ {node}]
      /\ empty' = IF edgesIn'[t] = {} THEN Append(empty, t) ELSE empty
  BY DEF RemoveEdge, SortStep
<1>1. GraphTypeOK /\ EdgeState /\ QueueState /\ SortState /\ pc = "sort" /\ UNCHANGED <<expanded, sorted>>
  BY <1>0 DEF GraphInv, SortStep
<1>2. node \in TestFile /\ node # NoNode /\ node \in Elements(sorted) /\ left \subseteq expanded[node]
  BY <1>0, <1>1, GlobAssumption DEF EdgeState, GraphTypeOK
<1>3. node \in edgesIn[t] /\ t \notin Elements(empty) \cup Elements(sorted)
  BY <1>0, <1>1, <1>2 DEF EdgeState, QueueState
<1>4. /\ edgesIn' \in [TestFile -> SUBSET TestFile]
      /\ edgesIn'[t] = edgesIn[t] \ {node}
      /\ \A v \in TestFile \ {t} : edgesIn'[v] = edgesIn[v]
  BY <1>0, <1>1 DEF GraphTypeOK
<1>5. /\ empty' \in Seq(TestFile) /\ Distinct(empty')
      /\ Elements(empty') = IF edgesIn'[t] = {} THEN Elements(empty) \cup {t} ELSE Elements(empty)
  BY <1>0, <1>1, <1>3, DistinctAppend DEF GraphTypeOK, QueueState
<1>6. GraphTypeOK'
  BY <1>0, <1>1, <1>4, <1>5 DEF GraphTypeOK, SortStep, walk
<1>7. EdgeState'
  <2>1. ASSUME NEW v \in TestFile, NEW u \in TestFile
        PROVE  u \in edgesIn'[v] <=> /\ v \in expanded[u]
                                     /\ u \notin Elements(sorted) \/ (u = node /\ v \in left')
    <3>1. CASE v = t
      BY <1>0, <1>1, <1>2, <1>4, <3>1 DEF EdgeState
    <3>2. CASE v # t
      BY <1>0, <1>1, <1>4, <3>2 DEF EdgeState
    <3> QED BY <3>1, <3>2
  <2>2. Elements(sorted)' = Elements(sorted)
    BY <1>0 DEF Elements
  <2> QED BY <1>0, <1>1, <1>2, <2>1, <2>2 DEF EdgeState
<1>8. QueueState'
  <2>1. ASSUME NEW v \in TestFile
        PROVE  edgesIn'[v] = {} <=> v \in Elements(empty') \cup Elements(sorted)
    BY <1>1, <1>3, <1>4, <1>5 DEF QueueState
  <2>2. Elements(empty') \cap Elements(sorted) = {}
    BY <1>1, <1>3, <1>5 DEF QueueState
  <2>3. Distinct(empty)' /\ Elements(empty)' = Elements(empty') /\ Elements(sorted)' = Elements(sorted)
    BY <1>0, <1>5 DEF Distinct, Elements
  <2> QED BY <2>1, <2>2, <2>3 DEF QueueState
<1>9. SortState'
  BY <1>0, <1>1 DEF SortState, Distinct, SortStep
<1> QED BY <1>0, <1>6, <1>7, <1>8, <1>9, SortFrame DEF GraphInv

LEMMA NodeDoneInv ==
  ASSUME GraphInv, NodeDone
  PROVE  GraphInv'
<1>0. /\ SortStep /\ node # NoNode /\ left = {} /\ UNCHANGED <<edgesIn, empty, left, sorted>>
      /\ edgesOut' = [edgesOut EXCEPT ![node] = {}] /\ node' = NoNode
  BY DEF NodeDone, SortStep
<1>1. GraphTypeOK /\ EdgeState /\ QueueState /\ SortState /\ pc = "sort" /\ UNCHANGED expanded
  BY <1>0 DEF GraphInv, SortStep
<1>2. GraphTypeOK'
  BY <1>0, <1>1 DEF GraphTypeOK, SortStep, walk
<1>3. EdgeState'
  <2>1. Elements(sorted)' = Elements(sorted) /\ node \in TestFile /\ node \in Elements(sorted)
        /\ NoNode \notin TestFile
    BY <1>0, <1>1, GlobAssumption DEF Elements, EdgeState, GraphTypeOK
  <2>2. ASSUME NEW t \in TestFile
        PROVE  edgesOut'[t] = IF t \in Elements(sorted) /\ t # NoNode THEN {} ELSE expanded[t]
    <3>1. edgesOut[t] = IF t \in Elements(sorted) /\ t # node THEN {} ELSE expanded[t]
      BY <1>1 DEF EdgeState
    <3>2. edgesOut \in [TestFile -> SUBSET TestFile]
      BY <1>1 DEF GraphTypeOK
    <3>3. CASE t = node
      BY <1>0, <2>1, <3>2, <3>3
    <3>4. CASE t # node
      <4>1. edgesOut'[t] = edgesOut[t] /\ t # NoNode
        BY <1>0, <2>1, <3>2, <3>4
      <4> QED BY <3>1, <3>4, <4>1
    <3> QED BY <3>3, <3>4
  <2>3. ASSUME NEW t \in TestFile, NEW u \in TestFile
        PROVE  u \in edgesIn'[t] <=> /\ t \in expanded[u]
                                     /\ u \notin Elements(sorted) \/ (u = NoNode /\ t \in left)
    BY <1>0, <1>1 DEF EdgeState
  <2> QED BY <1>0, <1>1, <2>1, <2>2, <2>3 DEF EdgeState
<1>4. QueueState' /\ SortState'
  <2>1. /\ Distinct(empty)' = Distinct(empty) /\ Distinct(sorted)' = Distinct(sorted)
        /\ Elements(empty)' = Elements(empty) /\ Elements(sorted)' = Elements(sorted)
    BY <1>0 DEF Distinct, Elements
  <2>2. QueueState'
    BY <1>0, <1>1, <2>1 DEF QueueState
  <2>3. SortState'
    BY <1>0, <1>1, <2>1 DEF SortState, SortStep
  <2> QED BY <2>2, <2>3
<1> QED BY <1>0, <1>2, <1>3, <1>4, SortFrame DEF GraphInv

LEMMA SortDoneInv ==
  ASSUME GraphInv, NoWalkYet, SortDone
  PROVE  GraphInv'
<1>0. /\ pc = "sort" /\ node = NoNode /\ empty = <<>>
      /\ UNCHANGED <<input, errs, tests, expanded, group, isDep, requested, sort, found>>
      /\ EdgeLeft => pc' = "failed" /\ UNCHANGED <<todo, frontier>>
      /\ ~EdgeLeft => /\ pc' = "collect" /\ todo' = group
                      /\ frontier' = [t \in TestFile |-> IF t \in group THEN {t} ELSE {}]
  BY DEF SortDone
<1>1. InputOK'
  BY <1>0, InputOKStays DEF GraphInv
<1>2. /\ tests = TestFile /\ withDeps
      /\ \A t \in TestFile : Known(t) /\ expanded[t] = DirectDeps(t)
      /\ group = Asked /\ requested = Asked /\ isDep = {}
      /\ GraphTypeOK /\ EdgeState /\ QueueState /\ SortState
  BY <1>0 DEF GraphInv, AllLoaded, GroupState, DepsExpanded
<1>3. (AllLoaded /\ AllExpanded /\ GroupState /\ DepsExpanded)'
  BY <1>0, InputStays DEF GraphInv, AllLoaded, AllExpanded, GroupState, DepsExpanded
<1>4. SortState'
  BY <1>0, <1>2 DEF SortState, Distinct, sort
<1>5. Elements(empty) = {}
  <2>1. Len(<<>>) = 0
    OBVIOUS
  <2>2. 1..Len(empty) = {}
    BY <1>0, <2>1
  <2> QED BY <2>2 DEF Elements
<1>6. \A t \in TestFile : edgesIn[t] = {} <=> t \in Elements(sorted)
  BY <1>0, <1>2, <1>5 DEF QueueState
<1>7. \A t, u \in TestFile : u \in edgesIn[t] <=> t \in expanded[u] /\ u \notin Elements(sorted)
  BY <1>0, <1>2 DEF EdgeState
<1>8. \A t \in TestFile : edgesOut[t] = IF t \in Elements(sorted) THEN {} ELSE expanded[t]
  BY <1>0, <1>2, GlobAssumption DEF EdgeState
<1>9. CASE EdgeLeft
  <2> DEFINE U == TestFile \ Elements(sorted)
  <2>1. U # {}
    BY <1>2, <1>6, <1>8, <1>9 DEF EdgeLeft
  <2>2. ASSUME NEW t \in U PROVE \E u \in U : t \in DirectDeps(u)
    <3>1. PICK u \in edgesIn[t] : TRUE
      BY <1>6
    <3>2. u \in TestFile
      BY <1>2 DEF GraphTypeOK
    <3> QED BY <1>2, <1>7, <3>1, <3>2
  <2>3. Cyclic
    <3> HIDE DEF U
    <3>1. U \subseteq TestFile
      BY DEF U
    <3> QED BY <2>1, <2>2, <3>1, CycleAmong
  <2>4. FailState'
    BY <1>0, <1>2, <2>3, InputStays DEF FailState, Valid
  <2>5. GraphTypeOK'
    BY <1>0, <1>2, <1>9 DEF GraphTypeOK, sort
  <2>6. (LoadState /\ ExpandState /\ DepsState /\ EdgeState /\ QueueState /\ CollectState)'
    BY <1>0, <1>9 DEF LoadState, ExpandState, DepsState, EdgeState, QueueState, CollectState
  <2> QED BY <1>1, <1>3, <1>4, <2>4, <2>5, <2>6 DEF GraphInv
<1>10. CASE ~EdgeLeft
  <2>1. \A t \in TestFile : t \in Elements(sorted)
    BY <1>2, <1>6, <1>10 DEF EdgeLeft
  <2>2. sorted \in Seq(TestFile) /\ Elements(sorted) = TestFile
    BY <1>2, <2>1 DEF GraphTypeOK, Elements
  <2>3. ~Cyclic
    BY <1>2, <2>2, NoCycleInOrder DEF SortState
  <2>4. Asked \subseteq TestFile
    BY MeaningInTests DEF Asked
  <2>5. GraphTypeOK'
    BY <1>0, <1>2, <1>10, <2>4 DEF GraphTypeOK, sort
  <2>6. /\ ~Cyclic' /\ UNCHANGED <<withDeps, expanded>> /\ Asked' = Asked
        /\ \A t : Behind({t})' = Behind({t})
    BY <1>0, <2>3, InputStays
  <2>7. \A t \in TestFile : found'[t] = {} /\ frontier'[t] = IF t \in Asked THEN {t} ELSE {}
    BY <1>0, <1>2, <1>10 DEF NoWalkYet, NoTests
  <2>8. \A t \in TestFile : {t} \subseteq Behind({t})
    BY BehindProps
  <2>9. pc' = "collect" /\ todo' = Asked /\ group' = Asked /\ requested' = Asked /\ isDep' = {}
    BY <1>0, <1>2, <1>10
  <2>10. CollectState'
    <3>1. \A t \in Asked : t \in TestFile /\ found'[t] \cup frontier'[t] = {t} /\ found'[t] = {}
      BY <2>4, <2>7
    <3>2. UNION {found'[t] : t \in Asked \ todo'} = {}
      BY <2>9
    <3>3. \A t \in TestFile \ Asked : frontier'[t] = {}
      BY <2>7
    <3>4. ASSUME NEW t \in Asked PROVE WalkState(t)'
      <4>1. t \in TestFile /\ found'[t] = {} /\ found'[t] \cup frontier'[t] = {t}
        BY <3>1
      <4>2. {t} \subseteq Behind({t})'
        BY <2>6, <2>8, <4>1
      <4> QED BY <4>1, <4>2 DEF WalkState
    <3>5. \A t \in Asked \ todo' : frontier'[t] = {}
      BY <2>9
    <3> QED BY <2>6, <2>9, <3>2, <3>3, <3>4, <3>5 DEF CollectState
  <2>11. (LoadState /\ ExpandState /\ DepsState /\ EdgeState /\ QueueState /\ FailState)'
    BY <1>0, <1>10 DEF LoadState, ExpandState, DepsState, EdgeState, QueueState, FailState
  <2> QED BY <1>1, <1>3, <1>4, <2>5, <2>10, <2>11 DEF GraphInv
<1> QED BY <1>9, <1>10

\* What a step of the walks leaves alone.
CollectStep ==
  /\ pc = "collect" /\ pc' \in {"collect", "done"}
  /\ UNCHANGED <<input, errs, tests, expanded, requested, sort>>

LEMMA CollectFrame ==
  ASSUME GraphInv, CollectStep
  PROVE  /\ InputOK' /\ SortState'
         /\ tests = TestFile /\ withDeps /\ AllMean(config) /\ CollectState
         /\ \A t \in TestFile : Known(t) /\ expanded[t] = DirectDeps(t)
         /\ pc' = "collect" => (/\ LoadState /\ AllLoaded /\ ExpandState /\ AllExpanded /\ GroupState
                                /\ DepsState /\ DepsExpanded /\ EdgeState /\ QueueState /\ FailState)'
<1>1. InputOK'
  BY InputOKStays DEF CollectStep, GraphInv
<1>2. SortState'
  BY DEF CollectStep, GraphInv, SortState, Distinct, sort
<1>3. pc' = "collect" => (AllLoaded /\ AllExpanded /\ GroupState /\ DepsExpanded)'
  BY InputStays DEF CollectStep, GraphInv, AllLoaded, AllExpanded, GroupState, DepsExpanded
<1>4. pc' = "collect" => (LoadState /\ ExpandState /\ DepsState /\ EdgeState /\ QueueState /\ FailState)'
  BY DEF CollectStep, LoadState, ExpandState, DepsState, EdgeState, QueueState, FailState
<1>5. /\ tests = TestFile /\ withDeps /\ AllMean(config) /\ CollectState
      /\ \A t \in TestFile : Known(t) /\ expanded[t] = DirectDeps(t)
  BY DEF CollectStep, GraphInv, AllLoaded, GroupState, AllExpanded, DepsExpanded
<1> QED BY <1>1, <1>2, <1>3, <1>4, <1>5

LEMMA VisitInv ==
  ASSUME GraphInv, NEW t \in TestFile, NEW n \in TestFile, Visit(t, n)
  PROVE  GraphInv'
<1>0. /\ CollectStep /\ pc' = "collect" /\ pc = "collect" /\ n \in frontier[t]
      /\ UNCHANGED <<todo, group, isDep, expanded, requested, input>>
      /\ found' = [found EXCEPT ![t] = @ \cup {n}]
      /\ frontier' = [frontier EXCEPT ![t] = (@ \ {n}) \cup expanded[n]]
  BY DEF Visit, CollectStep
<1>1. GraphTypeOK /\ CollectState /\ expanded[n] = DirectDeps(n) /\ expanded[n] \subseteq TestFile
  BY <1>0, CollectFrame, MeaningInTests DEF GraphInv
<1>2. /\ found' \in [TestFile -> SUBSET TestFile] /\ frontier' \in [TestFile -> SUBSET TestFile]
      /\ found'[t] = found[t] \cup {n} /\ frontier'[t] = (frontier[t] \ {n}) \cup expanded[n]
      /\ \A u \in TestFile \ {t} : found'[u] = found[u] /\ frontier'[u] = frontier[u]
  BY <1>0, <1>1 DEF GraphTypeOK
<1>3. GraphTypeOK'
  BY <1>0, <1>1, <1>2 DEF GraphTypeOK, CollectStep, sort
<1>4. CollectState'
  <2>1. Asked \subseteq TestFile
    BY MeaningInTests DEF Asked
  <2>2. t \in Asked /\ t \notin Asked \ todo
    BY <1>0, <1>1 DEF CollectState
  <2>3. n \in Behind({t}) /\ expanded[n] \subseteq Behind({t})
    <3>1. n \in Behind({t})
      BY <1>0, <1>1, <2>2 DEF CollectState, WalkState
    <3>2. Complete(Behind({t}))
      BY BehindProps
    <3> QED BY <1>1, <3>1, <3>2 DEF Complete
  <2>4. ASSUME NEW u \in Asked PROVE WalkState(u)'
    <3>1. WalkState(u)
      BY <1>0, <1>1 DEF CollectState
    <3>2. Behind({u})' = Behind({u}) /\ UNCHANGED expanded
      BY <1>0, InputStays
    <3>3. CASE u = t
      BY <1>2, <2>3, <3>1, <3>2, <3>3 DEF WalkState
    <3>4. CASE u # t
      BY <1>2, <2>1, <3>1, <3>2, <3>4 DEF WalkState
    <3> QED BY <3>3, <3>4
  <2>5. \A u \in TestFile \ Asked : frontier'[u] = {}
    BY <1>0, <1>1, <1>2, <2>2 DEF CollectState
  <2>6. \A u \in Asked \ todo : frontier'[u] = {} /\ found'[u] = found[u]
    BY <1>0, <1>1, <1>2, <2>1, <2>2 DEF CollectState
  <2>7. group = Asked \cup UNION {found'[u] : u \in Asked \ todo}
    BY <1>0, <1>1, <2>6 DEF CollectState
  <2>8. ~Cyclic' /\ Asked' = Asked
    BY <1>0, <1>1, InputStays DEF CollectState
  <2>9. todo \subseteq Asked /\ isDep = group \ Asked /\ requested = Asked
    BY <1>0, <1>1 DEF CollectState
  <2> QED BY <1>0, <2>4, <2>5, <2>6, <2>7, <2>8, <2>9 DEF CollectState
<1> QED BY <1>0, <1>3, <1>4, CollectFrame DEF GraphInv

LEMMA AddDepsInv ==
  ASSUME GraphInv, NEW t \in TestFile, AddDeps(t)
  PROVE  GraphInv'
<1>0. /\ CollectStep /\ pc' = "collect" /\ pc = "collect" /\ t \in todo /\ frontier[t] = {}
      /\ UNCHANGED <<input, expanded, requested, frontier, found>>
      /\ todo' = todo \ {t} /\ isDep' = isDep \cup (found[t] \ group)
      /\ group' = group \cup found[t]
  BY DEF AddDeps, CollectStep, walk
<1>1. GraphTypeOK /\ CollectState /\ tests = TestFile
  BY <1>0, CollectFrame DEF GraphInv
<1>2. GraphTypeOK'
  BY <1>0, <1>1 DEF GraphTypeOK, CollectStep, sort
<1>3. CollectState'
  <2>1. /\ todo \subseteq Asked /\ isDep = group \ Asked /\ requested = Asked
        /\ group = Asked \cup UNION {found[u] : u \in Asked \ todo}
        /\ \A u \in Asked \ todo : frontier[u] = {}
    BY <1>0, <1>1 DEF CollectState
  <2>2. Asked \ todo' = (Asked \ todo) \cup {t}
    BY <1>0, <2>1
  <2>3. group' = Asked \cup UNION {found[u] : u \in Asked \ todo'}
    BY <1>0, <2>1, <2>2
  <2>4. isDep' = group' \ Asked
    BY <1>0, <2>1
  <2>5. \A u \in Asked \ todo' : frontier[u] = {}
    BY <1>0, <2>1, <2>2
  <2>6. ~Cyclic' /\ Asked' = Asked
    BY <1>0, <1>1, InputStays DEF CollectState
  <2>7. \A u \in TestFile \ Asked : frontier[u] = {}
    BY <1>0, <1>1 DEF CollectState
  <2>8. ASSUME NEW u \in Asked PROVE WalkState(u)'
    <3>1. WalkState(u)
      BY <1>0, <1>1 DEF CollectState
    <3>2. Behind({u})' = Behind({u})
      BY <1>0, InputStays
    <3> QED BY <1>0, <3>1, <3>2 DEF WalkState
  <2> QED BY <1>0, <2>1, <2>3, <2>4, <2>5, <2>6, <2>7, <2>8 DEF CollectState
<1> QED BY <1>0, <1>2, <1>3, CollectFrame DEF GraphInv

LEMMA CollectDoneInv ==
  ASSUME GraphInv, CollectDone
  PROVE  GraphInv'
<1>0. /\ CollectStep /\ pc = "collect" /\ pc' = "done" /\ todo = {}
      /\ UNCHANGED <<input, todo, errs, tests, expanded, group, isDep, requested, sort, walk>>
  BY DEF CollectDone, CollectStep, AllAdded
<1>1. /\ InputOK' /\ SortState' /\ CollectState /\ withDeps
  BY <1>0, CollectFrame
<1>2. GraphTypeOK'
  BY <1>0 DEF GraphInv, GraphTypeOK, sort, walk
<1>3. CollectState'
  <2>1. ~Cyclic' /\ Asked' = Asked /\ UNCHANGED <<todo, group, isDep, requested, found, frontier, expanded>>
    BY <1>0, <1>1, InputStays DEF CollectState, walk
  <2>2. ASSUME NEW u \in Asked PROVE WalkState(u)'
    <3>1. WalkState(u)
      BY <1>0, <1>1 DEF CollectState
    <3>2. Behind({u})' = Behind({u})
      BY <1>0, InputStays
    <3> QED BY <2>1, <3>1, <3>2 DEF WalkState
  <2>3. /\ todo \subseteq Asked /\ isDep = group \ Asked /\ requested = Asked
        /\ group = Asked \cup UNION {found[u] : u \in Asked \ todo}
        /\ \A u \in Asked \ todo : frontier[u] = {}
        /\ \A u \in TestFile \ Asked : frontier[u] = {}
    BY <1>0, <1>1 DEF CollectState
  <2> QED BY <1>0, <2>1, <2>2, <2>3 DEF CollectState
<1>4. (AllLoaded /\ AllExpanded /\ GroupState /\ DepsExpanded)'
  BY <1>0, <1>1, InputStays DEF GraphInv, AllLoaded, AllExpanded, GroupState, DepsExpanded
<1>5. (LoadState /\ ExpandState /\ DepsState /\ EdgeState /\ QueueState /\ FailState)'
  BY <1>0 DEF LoadState, ExpandState, DepsState, EdgeState, QueueState, FailState
<1> QED BY <1>1, <1>2, <1>3, <1>4, <1>5 DEF GraphInv

LEMMA NoWalkYetStays ==
  ASSUME NoWalkYet, GraphNext
  PROVE  NoWalkYet'
<1>1. ASSUME NEW t \in TestFile, Load(t) \/ ExpandDeps(t) \/ RemoveEdge(t)
      PROVE  UNCHANGED <<found, pc>>
  BY <1>1 DEF Load, ExpandDeps, RemoveEdge, walk
<1>2. ASSUME NEW e \in config, ExpandTest(e)
      PROVE  UNCHANGED <<found, pc>>
  BY <1>2 DEF ExpandTest, walk
<1>3. CASE LoadDone \/ ExpandTestsDone \/ ExpandDepsDone \/ BuildGraph \/ TakeNode \/ NodeDone
  <2>1. UNCHANGED found /\ pc \in {"load", "expand", "deps", "graph", "sort"}
    BY <1>3 DEF LoadDone, ExpandTestsDone, ExpandDepsDone, Stage, BuildGraph, TakeNode, NodeDone, walk
  <2> QED BY <2>1 DEF NoWalkYet, NoTests
<1>4. CASE SortDone \/ CollectDone
  BY <1>4 DEF SortDone, CollectDone, NoWalkYet
<1>5. ASSUME NEW t \in TestFile, AddDeps(t) \/ \E n \in TestFile : Visit(t, n)
      PROVE  pc' = "collect"
  BY <1>5 DEF AddDeps, Visit
<1>6. CASE UNCHANGED <<found, pc>>
  BY <1>6 DEF NoWalkYet, NoTests
<1>7. CASE pc' = "collect"
  BY <1>7 DEF NoWalkYet
<1> QED BY <1>1, <1>2, <1>3, <1>4, <1>5, <1>6, <1>7 DEF GraphNext

LEMMA GraphStutters ==
  ASSUME GraphInv, NoWalkYet, UNCHANGED graphVars
  PROVE  GraphInv' /\ NoWalkYet'
<1>0. UNCHANGED <<input, pc, todo, errs, tests, expanded, group, isDep, requested, sort, found, frontier>>
  BY DEF graphVars, walk
<1>1. InputOK'
  BY <1>0, InputOKStays DEF GraphInv
<1>2. GraphTypeOK'
  BY <1>0 DEF GraphInv, GraphTypeOK, sort
<1>3. (LoadState /\ AllLoaded /\ AllExpanded /\ GroupState /\ DepsState /\ DepsExpanded /\ FailState)'
  BY <1>0, InputStays DEF GraphInv, LoadState, AllLoaded, AllExpanded, GroupState, DepsState, DepsExpanded,
     FailState
<1>4. ExpandState'
  <2>1. UNCHANGED config /\ (\A e : Meaning(e)' = Meaning(e)) /\ (\A E : AllMean(E)' = AllMean(E))
    BY <1>0, InputStays
  <2>2. AllMean(config \ todo)' = AllMean(config \ todo)
    BY <1>0, <2>1 DEF AllMean
  <2>3. (UNION {Meaning(e) : e \in config \ todo})' = UNION {Meaning(e) : e \in config \ todo}
    BY <1>0, <2>1
  <2> QED BY <1>0, <2>1, <2>2, <2>3 DEF GraphInv, ExpandState
<1>5. EdgeState' /\ QueueState' /\ SortState'
  <2>1. /\ Distinct(empty)' = Distinct(empty) /\ Distinct(sorted)' = Distinct(sorted)
        /\ Elements(empty)' = Elements(empty) /\ Elements(sorted)' = Elements(sorted)
        /\ UNCHANGED <<edgesOut, edgesIn, empty, node, left, sorted>>
    BY <1>0 DEF Distinct, Elements, sort
  <2> QED BY <1>0, <2>1 DEF GraphInv, EdgeState, QueueState, SortState
<1>6. CollectState'
  <2>1. UNCHANGED withDeps /\ Asked' = Asked /\ Cyclic' = Cyclic /\ \A T : Behind(T)' = Behind(T)
    BY <1>0, InputStays
  <2>2. \A t : WalkState(t)' <=> WalkState(t)
    BY <1>0, <2>1 DEF WalkState
  <2> QED BY <1>0, <2>1, <2>2 DEF GraphInv, CollectState
<1>7. NoWalkYet'
  BY <1>0 DEF NoWalkYet, NoTests
<1> QED BY <1>1, <1>2, <1>3, <1>4, <1>5, <1>6, <1>7 DEF GraphInv

\* The invariant of GroupFromConfig, through all its stages.
THEOREM GraphInvariant == GraphSpec => [](GraphInv /\ NoWalkYet)
<1>1. GraphInit => GraphInv /\ NoWalkYet
  BY GraphInitInv DEF GraphInit, NoWalkYet
<1>2. GraphInv /\ NoWalkYet /\ [GraphNext]_graphVars => (GraphInv /\ NoWalkYet)'
  <2> SUFFICES ASSUME GraphInv, NoWalkYet, GraphNext PROVE GraphInv'
    BY GraphStutters, NoWalkYetStays
  <2>1. ASSUME NEW t \in TestFile, Load(t) \/ ExpandDeps(t) \/ RemoveEdge(t) \/ AddDeps(t)
        PROVE  GraphInv'
    BY <2>1, LoadInv, ExpandDepsInv, RemoveEdgeInv, AddDepsInv
  <2>2. ASSUME NEW e \in config, ExpandTest(e) PROVE GraphInv'
    BY <2>2, ExpandTestInv
  <2>3. ASSUME NEW t \in TestFile, NEW n \in TestFile, Visit(t, n) PROVE GraphInv'
    BY <2>3, VisitInv
  <2>4. CASE LoadDone \/ ExpandTestsDone \/ ExpandDepsDone
    BY <2>4, LoadDoneInv, ExpandTestsDoneInv, ExpandDepsDoneInv
  <2>5. CASE BuildGraph \/ TakeNode \/ NodeDone \/ SortDone \/ CollectDone
    BY <2>5, BuildGraphInv, TakeNodeInv, NodeDoneInv, SortDoneInv, CollectDoneInv
  <2> QED BY <2>1, <2>2, <2>3, <2>4, <2>5 DEF GraphNext
<1> QED BY <1>1, <1>2, PTL DEF GraphSpec

\* "If there is a cycle, an error is returned, otherwise the topological sort"
\* (graph.go:61), for any tests and dependencies: TopSort never sorts a node twice,
\* nor before one that depends on it.
THEOREM SortsTopologically == RunnersSpec => []SortIsTopological
<1>1. GraphInv => SortIsTopological
  <2> SUFFICES ASSUME GraphInv, NEW i \in 1..Len(sorted)
               PROVE  /\ \A j \in 1..(i - 1) : sorted[j] # sorted[i]
                      /\ \A t \in Dependents(sorted[i]) : \E j \in 1..(i - 1) : sorted[j] = t
    BY DEF SortIsTopological
  <2>1. Len(sorted) \in Nat /\ tests \subseteq TestFile /\ SortState
    BY DEF GraphInv, GraphTypeOK
  <2>2. ASSUME NEW j \in 1..(i - 1) PROVE sorted[j] # sorted[i]
    BY <2>1 DEF SortState, Distinct
  <2>3. ASSUME NEW t \in Dependents(sorted[i]) PROVE \E j \in 1..(i - 1) : sorted[j] = t
    BY <2>1 DEF SortState, Dependents
  <2> QED BY <2>2, <2>3
<1> QED BY <1>1, GraphInvariant, RunnersSteps, PTL DEF GraphSpec

\* GroupFromConfig makes a group exactly when the configuration is valid, and it
\* is what was asked for with everything behind it (groups.go), for any tests,
\* expressions and dependencies and whatever the order of the goroutines.
THEOREM GroupsAreAsConfigured == RunnersSpec => []GroupIsAsConfigured
<1>1. GraphInv => GroupIsAsConfigured
  <2> SUFFICES ASSUME GraphInv PROVE GroupIsAsConfigured
    OBVIOUS
  <2>1. pc = "failed" => ~Valid
    BY DEF GraphInv, FailState
  <2>2. ASSUME pc = "done"
        PROVE  /\ Valid
               /\ group = IF withDeps THEN Behind(Asked) ELSE Asked
               /\ isDep = group \ Asked
               /\ \A t \in group : withDeps => expanded[t] \subseteq group
    <3>1. broken = {} /\ AllMean(config) /\ Asked \subseteq TestFile
      BY <2>2, MeaningInTests DEF GraphInv, AllLoaded, AllExpanded, Asked
    <3>2. CASE ~withDeps
      <4>1. group = Asked /\ isDep = {}
        BY <2>2, <3>2 DEF GraphInv, GroupState
      <4> QED BY <3>1, <3>2, <4>1 DEF Valid, AllMean
    <3>3. CASE withDeps
      <4>1. /\ ~Cyclic /\ isDep = group \ Asked /\ todo = {}
            /\ group = Asked \cup UNION {found[t] : t \in Asked \ todo}
            /\ \A t \in Asked : WalkState(t)
            /\ \A t \in Asked \ todo : frontier[t] = {}
        BY <2>2, <3>3 DEF GraphInv, CollectState
      <4>2. \A t \in TestFile : Known(t) /\ expanded[t] = DirectDeps(t)
        BY <2>2, <3>3 DEF GraphInv, DepsExpanded
      <4>3. Asked \ todo = Asked
        BY <4>1
      <4>4. \A t \in Asked : /\ t \in found[t] /\ found[t] \subseteq Behind({t})
                             /\ \A n \in found[t] : expanded[n] \subseteq found[t]
        BY <4>1, <4>3 DEF WalkState
      <4>5. group = UNION {found[t] : t \in Asked}
        <5>1. \A t \in Asked : t \in found[t]
          BY <4>4
        <5>2. group = Asked \cup UNION {found[t] : t \in Asked}
          BY <4>1, <4>3
        <5> QED BY <5>1, <5>2
      <4>6. group \subseteq TestFile /\ (\A n \in group : expanded[n] \subseteq group) /\ Asked \subseteq group
        <5>1. group \subseteq TestFile
          BY DEF GraphInv, GraphTypeOK
        <5>2. ASSUME NEW n \in group PROVE expanded[n] \subseteq group
          <6>1. PICK t \in Asked : n \in found[t]
            BY <4>5
          <6>2. expanded[n] \subseteq found[t]
            BY <4>4, <6>1
          <6>3. found[t] \subseteq group
            BY <4>5, <6>1
          <6> QED BY <6>2, <6>3
        <5>3. ASSUME NEW t \in Asked PROVE t \in group
          <6>1. t \in found[t]
            BY <4>4
          <6> QED BY <4>5, <6>1
        <5> QED BY <5>1, <5>2, <5>3
      <4>7. Complete(group)
        BY <4>2, <4>6 DEF Complete
      <4>8. Behind(Asked) \subseteq group
        BY <3>1, <4>6, <4>7, BehindProps
      <4>9. ASSUME NEW t \in Asked PROVE found[t] \subseteq Behind(Asked)
        <5>1. Complete(Behind(Asked)) /\ {t} \subseteq Behind(Asked) /\ Behind(Asked) \subseteq TestFile
          BY <3>1, BehindProps
        <5>2. Behind({t}) \subseteq Behind(Asked)
          BY <3>1, <5>1, BehindProps
        <5> QED BY <4>4, <5>2
      <4>10. group = Behind(Asked)
        BY <4>5, <4>8, <4>9
      <4>11. Valid
        BY <3>1, <4>1, <4>2 DEF Valid, AllMean, Known
      <4> QED BY <3>3, <4>1, <4>6, <4>10, <4>11
    <3> QED BY <3>2, <3>3
  <2> QED BY <2>1, <2>2 DEF GroupIsAsConfigured, Asked
<1> QED BY <1>1, GraphInvariant, RunnersSteps, PTL DEF GraphSpec

\* The group that is made with dependencies is one that DependencyRunner can be
\* given: finite, with all the dependencies of its tests in it (its assumptions
\* TestAssumption and DepsAssumption), and without a cycle.
THEOREM GroupSuitsRunner ==
  RunnersSpec => [](pc = "done" /\ withDeps =>
                    /\ IsFiniteSet(group)
                    /\ [t \in group |-> expanded[t]] \in [group -> SUBSET group]
                    /\ ~Cyclic)
<1>1. GraphInv /\ GroupIsAsConfigured =>
        (pc = "done" /\ withDeps =>
           /\ IsFiniteSet(group)
           /\ [t \in group |-> expanded[t]] \in [group -> SUBSET group]
           /\ ~Cyclic)
  <2> SUFFICES ASSUME GraphInv, GroupIsAsConfigured, pc = "done", withDeps
               PROVE  /\ IsFiniteSet(group)
                      /\ [t \in group |-> expanded[t]] \in [group -> SUBSET group]
                      /\ ~Cyclic
    OBVIOUS
  <2>1. group \subseteq TestFile
    BY DEF GraphInv, GraphTypeOK
  <2>2. IsFiniteSet(group)
    BY <2>1, GlobAssumption, FS_Subset
  <2>3. (\A t \in group : expanded[t] \subseteq group) /\ ~Cyclic
    BY DEF GroupIsAsConfigured, Valid
  <2> QED BY <2>2, <2>3
<1> QED BY <1>1, GraphInvariant, GroupsAreAsConfigured, RunnersSteps, PTL DEF GraphSpec
=============================================================================
