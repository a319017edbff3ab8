------------------------ MODULE SubmissionRunProofs ------------------------
(***************************************************************************)
(* Proofs about SubmissionRun, for every set of tests and of targets, every*)
(* way to split a submission and every number of earlier submissions.      *)
(*                                                                         *)
(* The argument is about the stack of deferred calls (StackShape): what    *)
(* exists in the database is either still on the stack, or was finished    *)
(* and is final (Pending).  unlockStudents is at the bottom of the stack.  *)
(*                                                                         *)
(* The record of the students is followed from one finish to the next      *)
(* (StatsState): it fits what has finished, of which the next to finish is *)
(* always the newest, and what has finished is the database when the       *)
(* students are unlocked.                                                  *)
(***************************************************************************)
EXTENDS SubmissionRun, SumLemmas, SequenceTheorems

Statuses == {"submitted", "building", "running", "aborted", "completed"}
Early == {"entry", "building", "creating"}
Returning == {"returning", "returned"}

\* Types, and what is left to report.
RunTypeOK ==
  /\ pc \in Early \cup {"splitting", "running"} \cup Returning
  /\ splits \in Seq(SubTarget) /\ IsInjective(splits)
  /\ splits = <<>> \/ (splits \in SplitLists /\ version \in Version)
  /\ status \in [Sub -> Statuses]
  /\ score \in [Sub -> Nat]
  /\ saved \in [Sub -> [status : Statuses \cup {"absent"}, score : Nat]]
  /\ unreported \subseteq Test
  /\ splits # <<>> => unreported \subseteq TestsOf[splits]
  /\ deferred \in Seq(Sub \cup {"unlockStudents"})

\* The deferred calls in the order they were deferred.
CallAt(i) == IF i = 1 THEN "unlockStudents" ELSE IF i = 2 THEN Meta ELSE splits[i - 2]
StackShape ==
  /\ Len(deferred) <= Len(splits) + 2
  /\ \A i \in 1..Len(deferred) : deferred[i] = CallAt(i)
  /\ pc \in Early => Len(deferred) = 2
  /\ pc = "splitting" => Len(deferred) >= 2
  /\ pc = "running" => Len(deferred) = Len(splits) + 2
  /\ locked <=> Len(deferred) > 0

OnStack(s) == \E i \in 1..Len(deferred) : deferred[i] = s
Final(s) == saved[s].status \in Terminal /\ saved[s] = Current(s)

\* What exists in the database has its finish deferred, or is final.
Pending ==
  /\ \A s \in Made : OnStack(s) \/ (pc \in Returning /\ Final(s))
  /\ \A s \in Sub : OnStack(s) =>
       /\ saved[s].status # "absent"
       /\ pc \notin Early => status[s] \in {"running", "aborted"}
  /\ \A s \in Sub : saved[s].status \in Terminal =>
       pc \in Returning /\ saved[s] = Current(s)

\* All of it is aborted, without points, or nothing is.
Uniform ==
  \/ \A s \in Made : status[s] # "aborted"
  \/ \A s \in Made : status[s] = "aborted" /\ score[s] = 0

\* Until the build and the tests are there, nobody has points.
NothingYet ==
  /\ pc \in Early => status[Meta] # "aborted" /\ score[Meta] = 0
  /\ pc = "splitting" => status[Meta] = "running"

\* The inductive invariant.
RunInv == RunTypeOK /\ StackShape /\ Pending /\ Uniform /\ NothingYet
-----------------------------------------------------------------------------
(* The stack. *)

\* Every call is deferred once.
LEMMA CallsDiffer ==
  ASSUME RunTypeOK, StackShape
  PROVE  \A i, j \in 1..Len(deferred) : deferred[i] = deferred[j] => i = j
<1> SUFFICES ASSUME NEW i \in 1..Len(deferred), NEW j \in 1..Len(deferred),
                    deferred[i] = deferred[j]
             PROVE  i = j
  OBVIOUS
<1>1. Len(deferred) \in Nat /\ Len(splits) \in Nat /\ Len(deferred) <= Len(splits) + 2
  BY DEF RunTypeOK, StackShape
<1>2. \A k \in 1..Len(deferred) :
        \/ k = 1 /\ deferred[k] = "unlockStudents"
        \/ k = 2 /\ deferred[k] = Meta
        \/ k > 2 /\ k - 2 \in DOMAIN splits /\ deferred[k] = splits[k - 2]
  BY <1>1 DEF StackShape, CallAt, RunTypeOK
<1>3. \A k \in DOMAIN splits : splits[k] \in SubTarget
  BY DEF RunTypeOK
<1>4. "unlockStudents" # Meta /\ "unlockStudents" \notin SubTarget /\ Meta \notin SubTarget
  BY RunAssumption DEF Sub
<1>5. i > 2 /\ j > 2 => i - 2 = j - 2
  BY <1>2, <1>3, <1>4 DEF RunTypeOK, IsInjective
<1> QED BY <1>2, <1>3, <1>4, <1>5

\* Meta is on the stack once there are two calls on it, and nothing but Meta and
\* the splits is ever there.
LEMMA WhoIsOnStack ==
  ASSUME RunTypeOK, StackShape
  PROVE  /\ Len(deferred) >= 2 => OnStack(Meta)
         /\ Len(deferred) = 2 => \A s \in Sub : OnStack(s) => s = Meta
         /\ \A s \in Sub : OnStack(s) => s = Meta \/ s \in Range(splits)
         /\ Len(deferred) = Len(splits) + 2 => \A s \in Range(splits) : OnStack(s)
<1>1. Len(deferred) \in Nat /\ Len(splits) \in Nat /\ Len(deferred) <= Len(splits) + 2
  BY DEF RunTypeOK, StackShape
<1>2. \A k \in 1..Len(deferred) :
        \/ k = 1 /\ deferred[k] = "unlockStudents"
        \/ k = 2 /\ deferred[k] = Meta
        \/ k > 2 /\ k - 2 \in DOMAIN splits /\ deferred[k] = splits[k - 2]
  BY <1>1 DEF StackShape, CallAt, RunTypeOK
<1>3. "unlockStudents" \notin Sub
  BY RunAssumption
<1>4. Len(deferred) >= 2 => OnStack(Meta)
  BY <1>1 DEF StackShape, OnStack, CallAt
<1>5. Len(deferred) = 2 => \A s \in Sub : OnStack(s) => s = Meta
  BY <1>2, <1>3 DEF OnStack
<1>6. \A s \in Sub : OnStack(s) => s = Meta \/ s \in Range(splits)
  BY <1>2, <1>3 DEF OnStack, Range
<1>7. ASSUME Len(deferred) = Len(splits) + 2, NEW s \in Range(splits)
      PROVE  OnStack(s)
  <2>1. PICK k \in 1..Len(splits) : s = splits[k]
    BY DEF Range, RunTypeOK
  <2>2. k + 2 \in 1..Len(deferred) /\ deferred[k + 2] = splits[k]
    BY <1>1, <1>7, <2>1 DEF StackShape, CallAt
  <2> QED BY <2>1, <2>2 DEF OnStack
<1> QED BY <1>4, <1>5, <1>6, <1>7

\* The stack after a step that leaves it alone.
LEMMA SameStack ==
  ASSUME UNCHANGED deferred, NEW s
  PROVE  OnStack(s)' <=> OnStack(s)
BY DEF OnStack

LEMMA FrontProps ==
  ASSUME NEW S, NEW q \in Seq(S), NEW n \in Nat, Len(q) = n + 1
  PROVE  /\ Front(q) \in Seq(S)
         /\ Len(Front(q)) = n
         /\ \A i \in 1..n : Front(q)[i] = q[i]
<1>1. n \in Int /\ 1 \in Int /\ \A i \in 1..n : q[i] \in S
  OBVIOUS
<1>2. Front(q) = SubSeq(q, 1, n)
  BY DEF Front
<1>3. /\ Front(q) \in Seq(S)
      /\ Len(Front(q)) = IF 1 <= n THEN n - 1 + 1 ELSE 0
      /\ \A i \in 1..(n - 1 + 1) : Front(q)[i] = q[1 + i - 1]
  BY <1>1, <1>2, SubSeqProperties
<1>4. \A i \in 1..n : 1 + i - 1 = i
  OBVIOUS
<1>5. n - 1 + 1 = n /\ (IF 1 <= n THEN n - 1 + 1 ELSE 0) = n
  OBVIOUS
<1> QED BY <1>3, <1>4, <1>5

\* The last call is taken off, and no other.
LEMMA PopStack ==
  ASSUME RunTypeOK, StackShape, Len(deferred) > 0, deferred' = Front(deferred)
  PROVE  /\ Len(deferred') = Len(deferred) - 1
         /\ deferred' \in Seq(Sub \cup {"unlockStudents"})
         /\ \A i \in 1..Len(deferred') : deferred'[i] = deferred[i]
         /\ \A s : OnStack(s)' <=> OnStack(s) /\ s # deferred[Len(deferred)]
<1>1. Len(deferred) \in Nat
  BY DEF RunTypeOK
<1>2. /\ Len(deferred') = Len(deferred) - 1
      /\ deferred' \in Seq(Sub \cup {"unlockStudents"})
      /\ \A i \in 1..Len(deferred') : deferred'[i] = deferred[i]
  <2>1. deferred \in Seq(Sub \cup {"unlockStudents"})
    BY DEF RunTypeOK
  <2>2. PICK n \in Nat : Len(deferred) = n + 1
    <3>1. Len(deferred) - 1 \in Nat /\ Len(deferred) = (Len(deferred) - 1) + 1
      BY <1>1
    <3> QED BY <3>1
  <2>3. /\ Front(deferred) \in Seq(Sub \cup {"unlockStudents"})
        /\ Len(Front(deferred)) = n
        /\ \A i \in 1..n : Front(deferred)[i] = deferred[i]
    BY <2>1, <2>2, FrontProps
  <2> QED BY <2>2, <2>3
<1>3. ASSUME NEW s
      PROVE  OnStack(s)' <=> OnStack(s) /\ s # deferred[Len(deferred)]
  BY <1>1, <1>2, CallsDiffer DEF OnStack
<1> QED BY <1>2, <1>3
-----------------------------------------------------------------------------
(* Every step keeps the types, and the shape of the stack. *)

LEMMA TypeStep ==
  ASSUME RunTypeOK, StackShape, [Next]_vars
  PROVE  RunTypeOK'
<1> USE DEF Early, Returning, Statuses, record
<1>0. Meta \in Sub /\ SubTarget \subseteq Sub
  BY DEF Sub
<1>1. CASE NewSubmission
  <2>1. PICK l \in SplitLists, v \in Version : Submitted(l, v, <<"unlockStudents", Meta>>)
    BY <1>1 DEF NewSubmission
  <2>2. l \in Seq(SubTarget) /\ IsInjective(l) /\ TestsOf[l] \subseteq Test
    BY RunAssumption
  <2>3. deferred' \in Seq(Sub \cup {"unlockStudents"})
    BY <1>0, <2>1 DEF Submitted
  <2> QED BY <2>1, <2>2, <2>3 DEF Submitted, RunTypeOK, Unsaved
<1>2. CASE StartBuild \/ BuildFails \/ BuildSucceeds \/ CreateFails \/ StartTests
  <2>1. UNCHANGED <<splits, version, score, unreported, deferred>>
    BY <1>2 DEF StartBuild, BuildFails, BuildSucceeds, CreateFails, StartTests
  <2>2. pc' \in Early \cup {"splitting", "running"} \cup Returning
    BY <1>2 DEF StartBuild, BuildFails, BuildSucceeds, CreateFails, StartTests
  <2>3. status' \in [Sub -> Statuses]
    BY <1>2 DEF StartBuild, BuildFails, BuildSucceeds, CreateFails, StartTests, RunTypeOK
  <2>4. saved' \in [Sub -> [status : Statuses \cup {"absent"}, score : Nat]]
    <3>1. \/ saved' = saved
          \/ \E x \in Statuses : saved' = [saved EXCEPT ![Meta].status = x]
          \/ saved' = [saved EXCEPT ![Meta] = [status |-> "aborted", score |-> score[Meta]]]
      BY <1>2 DEF StartBuild, BuildFails, BuildSucceeds, CreateFails, StartTests
    <3>2. ASSUME NEW x \in Statuses, saved' = [saved EXCEPT ![Meta].status = x]
          PROVE  saved' \in [Sub -> [status : Statuses \cup {"absent"}, score : Nat]]
      <4>1. saved[Meta] \in [status : Statuses \cup {"absent"}, score : Nat]
        BY <1>0 DEF RunTypeOK
      <4>2. [saved[Meta] EXCEPT !.status = x]
              \in [status : Statuses \cup {"absent"}, score : Nat]
        BY <4>1
      <4> QED BY <3>2, <4>2 DEF RunTypeOK
    <3>3. ASSUME saved' = [saved EXCEPT ![Meta] = [status |-> "aborted", score |-> score[Meta]]]
          PROVE  saved' \in [Sub -> [status : Statuses \cup {"absent"}, score : Nat]]
      BY <1>0, <3>3 DEF RunTypeOK
    <3> QED BY <3>1, <3>2, <3>3 DEF RunTypeOK
  <2> QED BY <2>1, <2>2, <2>3, <2>4 DEF RunTypeOK
<1>3. ASSUME NEW t \in Test, CreateTest(t) PROVE RunTypeOK'
  BY <1>3 DEF CreateTest, RunTypeOK
<1>4. CASE Split
  <2>1. CASE Len(deferred) - 2 = Len(splits)
    BY <1>4, <2>1 DEF Split, RunTypeOK
  <2>2. CASE Len(deferred) - 2 # Len(splits)
    <3> DEFINE s == splits[Len(deferred) - 2 + 1]
    <3>1. pc = "splitting" /\ Len(deferred) \in Nat /\ Len(splits) \in Nat
      BY <1>4 DEF Split, RunTypeOK
    <3>2. Len(deferred) - 2 + 1 \in 1..Len(splits)
      BY <2>2, <3>1 DEF StackShape
    <3>3. s \in SubTarget
      BY <3>2 DEF RunTypeOK
    <3>4. /\ status' = [status EXCEPT ![s] = status[Meta]]
          /\ saved' = [saved EXCEPT ![s] = [status |-> status[Meta], score |-> 0]]
          /\ deferred' = Append(deferred, s)
          /\ UNCHANGED <<pc, splits, score, unreported, version>>
      BY <1>4, <2>2 DEF Split
    <3> HIDE DEF s
    <3>5. deferred' \in Seq(Sub \cup {"unlockStudents"})
      BY <1>0, <3>3, <3>4 DEF RunTypeOK
    <3> QED BY <1>0, <3>3, <3>4, <3>5 DEF RunTypeOK
  <2> QED BY <2>1, <2>2
<1>5. ASSUME NEW t \in Test, Receive(t) PROVE RunTypeOK'
  <2>1. score' \in [Sub -> Nat]
    BY <1>5 DEF Receive, Abort, AddScore, RunTypeOK
  <2>2. status' \in [Sub -> Statuses]
    BY <1>5 DEF Receive, Abort, AddScore, RunTypeOK
  <2>3. saved' \in [Sub -> [status : Statuses \cup {"absent"}, score : Nat]]
    <3>1. CASE UNCHANGED saved
      BY <3>1 DEF RunTypeOK
    <3>2. CASE saved' = [s \in Sub |-> IF s \in Graded(t)
                           THEN [saved[s] EXCEPT !.score = score'[s]] ELSE saved[s]]
      BY <2>1, <3>2 DEF RunTypeOK
    <3> QED BY <1>5, <3>1, <3>2 DEF Receive, Abort, AddScore
  <2> QED BY <1>5, <2>1, <2>2, <2>3 DEF Receive, RunTypeOK
<1>6. CASE ResultsClosed \/ Return
  BY <1>6 DEF ResultsClosed, Return, RunTypeOK
<1>7. ASSUME NEW s \in Sub, Finish(s) PROVE RunTypeOK'
  <2>1. Len(deferred) > 0
    BY <1>7 DEF Finish, RunTypeOK
  <2>2. deferred' \in Seq(Sub \cup {"unlockStudents"})
    BY <1>7, <2>1, PopStack DEF Finish
  <2>3. status' \in [Sub -> Statuses]
    BY <1>7 DEF Finish, RunTypeOK
  <2> QED BY <1>7, <2>2, <2>3 DEF Finish, RunTypeOK
<1>8. CASE UnlockStudents
  <2>1. Len(deferred) > 0
    BY <1>8 DEF UnlockStudents, RunTypeOK
  <2>2. deferred' \in Seq(Sub \cup {"unlockStudents"})
    BY <1>8, <2>1, PopStack DEF UnlockStudents
  <2> QED BY <1>8, <2>2 DEF UnlockStudents, RunTypeOK
<1>9. CASE UNCHANGED vars
  BY <1>9 DEF vars, RunTypeOK
<1> QED BY <1>1, <1>2, <1>3, <1>4, <1>5, <1>6, <1>7, <1>8, <1>9 DEF Next, Step

LEMMA ShapeStep ==
  ASSUME RunTypeOK, StackShape, [Next]_vars
  PROVE  StackShape'
<1> USE DEF Early, Returning, record
<1>0. Len(deferred) \in Nat /\ Len(splits) \in Nat
  BY DEF RunTypeOK
<1>1. CASE NewSubmission
  <2>1. deferred' = <<"unlockStudents", Meta>> /\ pc' = "entry" /\ locked' = TRUE
        /\ splits' \in Seq(SubTarget)
    BY <1>1, RunAssumption DEF NewSubmission, Submitted
  <2>2. Len(deferred') = 2 /\ Len(splits') \in Nat
    BY <2>1
  <2>3. \A i \in 1..2 : deferred'[i] = CallAt(i)'
    BY <2>1 DEF CallAt
  <2> QED BY <2>1, <2>2, <2>3 DEF StackShape
<1>2. CASE StartBuild \/ BuildFails \/ BuildSucceeds \/ CreateFails \/ StartTests
  <2>1. UNCHANGED <<splits, deferred, locked>>
    BY <1>2 DEF StartBuild, BuildFails, BuildSucceeds, CreateFails, StartTests
  <2>2. pc \in Early /\ pc' \in Early \cup {"splitting", "returning"}
    BY <1>2 DEF StartBuild, BuildFails, BuildSucceeds, CreateFails, StartTests
  <2>3. \A i : CallAt(i)' = CallAt(i)
    BY <2>1 DEF CallAt
  <2> QED BY <1>0, <2>1, <2>2, <2>3 DEF StackShape
<1>3. ASSUME NEW t \in Test, CreateTest(t) PROVE StackShape'
  BY <1>3 DEF CreateTest, StackShape, CallAt
<1>4. CASE Split
  <2>1. CASE Len(deferred) - 2 = Len(splits)
    BY <1>0, <1>4, <2>1 DEF Split, StackShape, CallAt
  <2>2. CASE Len(deferred) - 2 # Len(splits)
    <3> DEFINE s == splits[Len(deferred) - 2 + 1]
    <3>1. pc = "splitting" /\ pc' = pc /\ splits' = splits /\ locked' = locked
          /\ deferred' = Append(deferred, s)
      BY <1>4, <2>2 DEF Split
    <3>2. /\ Len(deferred') = Len(deferred) + 1
          /\ \A i \in 1..Len(deferred) : deferred'[i] = deferred[i]
          /\ deferred'[Len(deferred) + 1] = s
      BY <3>1 DEF RunTypeOK
    <3>3. Len(deferred) >= 2 /\ Len(deferred) + 1 <= Len(splits) + 2
      BY <1>0, <2>2, <3>1 DEF StackShape
    <3>4. s = CallAt(Len(deferred) + 1)
      <4>1. Len(deferred) - 2 + 1 = Len(deferred) + 1 - 2
        BY <1>0
      <4> QED BY <1>0, <3>3, <4>1 DEF CallAt
    <3>5. \A i \in 1..Len(deferred') : deferred'[i] = CallAt(i)
      <4> HIDE DEF s
      <4> QED BY <1>0, <3>2, <3>4 DEF StackShape
    <3>6. \A i : CallAt(i)' = CallAt(i)
      BY <3>1 DEF CallAt
    <3> HIDE DEF s
    <3> QED BY <1>0, <3>1, <3>2, <3>3, <3>5, <3>6 DEF StackShape
  <2> QED BY <2>1, <2>2
<1>5. ASSUME NEW t \in Test, Receive(t) PROVE StackShape'
  BY <1>5 DEF Receive, StackShape, CallAt
<1>6. CASE ResultsClosed \/ Return
  BY <1>6 DEF ResultsClosed, Return, StackShape, CallAt
<1>7. ASSUME \/ UnlockStudents
             \/ \E s \in Sub : Finish(s)
      PROVE  StackShape'
  <2>1. /\ pc = "returning" /\ pc' = pc /\ splits' = splits
        /\ Len(deferred) > 0 /\ deferred' = Front(deferred)
    BY <1>7 DEF UnlockStudents, Finish, RunTypeOK
  <2>2. /\ Len(deferred') = Len(deferred) - 1
        /\ \A i \in 1..Len(deferred') : deferred'[i] = deferred[i]
    BY <2>1, PopStack
  <2>3. \A i : CallAt(i)' = CallAt(i)
    BY <2>1 DEF CallAt
  <2>4. locked' <=> Len(deferred') > 0
    <3>1. deferred[Len(deferred)] = CallAt(Len(deferred))
      BY <1>0, <2>1 DEF StackShape
    <3>2. CASE UnlockStudents
      <4>1. Len(deferred) = 1
        <5>1. deferred[Len(deferred)] \notin Sub
          BY <3>2, RunAssumption DEF UnlockStudents
        <5>2. ASSUME Len(deferred) > 2 PROVE FALSE
          <6>1. Len(deferred) - 2 \in 1..Len(splits)
            BY <1>0, <5>2 DEF StackShape
          <6>2. splits[Len(deferred) - 2] \in Sub
            BY <6>1 DEF RunTypeOK, Sub
          <6> QED BY <1>0, <3>1, <5>1, <5>2, <6>2 DEF CallAt
        <5>3. Len(deferred) # 2
          BY <3>1, <5>1 DEF CallAt, Sub
        <5>4. \A n \in Nat : n > 0 /\ ~(n > 2) /\ n # 2 => n = 1
          OBVIOUS
        <5> QED BY <1>0, <2>1, <5>2, <5>3, <5>4, Zenon
      <4> QED BY <2>2, <3>2, <4>1 DEF UnlockStudents
    <3>3. ASSUME NEW s \in Sub, Finish(s) PROVE locked' <=> Len(deferred') > 0
      <4>1. Len(deferred) # 1
        BY <3>1, <3>3, RunAssumption DEF Finish, CallAt
      <4> QED BY <1>0, <2>1, <2>2, <3>3, <4>1 DEF Finish, StackShape
    <3> QED BY <1>7, <3>2, <3>3
  <2> QED BY <1>0, <2>1, <2>2, <2>3, <2>4 DEF StackShape
<1>8. CASE UNCHANGED vars
  BY <1>8 DEF vars, StackShape, CallAt
<1> QED BY <1>1, <1>2, <1>3, <1>4, <1>5, <1>6, <1>7, <1>8 DEF Next, Step
-----------------------------------------------------------------------------
(* What is in the database has its finish deferred, or is final. *)

\* Before the tests are started there is nothing but the submission itself.
LEMMA OnlyMeta ==
  ASSUME RunTypeOK, StackShape, Pending, pc \in Early
  PROVE  /\ Made = {Meta} /\ OnStack(Meta)
         /\ \A s \in Sub : OnStack(s) => s = Meta
<1>0. Len(deferred) = 2 /\ pc \notin Returning
  <2>1. Len(deferred) = 2
    BY DEF StackShape
  <2>2. pc \notin Returning
    BY DEF Early, Returning
  <2> QED BY <2>1, <2>2
<1>1. Len(deferred) = 2 /\ Len(deferred) >= 2 /\ pc \notin Returning
  BY <1>0
<1>2. OnStack(Meta) /\ \A s \in Sub : OnStack(s) => s = Meta
  BY <1>1, WhoIsOnStack
<1>3. \A s \in Made : s = Meta
  BY <1>1, <1>2 DEF Pending, Made
<1>4. Meta \in Sub /\ saved[Meta].status # "absent"
  BY <1>2 DEF Pending, Sub
<1>5. Meta \in Made
  BY <1>4 DEF Made, Unsaved
<1> QED BY <1>2, <1>3, <1>5

\* While the results arrive, the submission and all its splits are on the stack.
LEMMA AllOnStack ==
  ASSUME RunTypeOK, StackShape, Pending, pc = "running"
  PROVE  /\ Made = {Meta} \cup Range(splits)
         /\ \A s \in Sub : OnStack(s) <=> s \in Made
<1>1. Len(deferred) = Len(splits) + 2 /\ Len(splits) \in Nat /\ pc \notin Returning
  BY DEF StackShape, Early, Returning, RunTypeOK
<1>2. /\ OnStack(Meta) /\ \A s \in Range(splits) : OnStack(s)
      /\ \A s \in Sub : OnStack(s) => s = Meta \/ s \in Range(splits)
  BY <1>1, WhoIsOnStack
<1>3. \A s \in Made : OnStack(s)
  BY <1>1 DEF Pending
<1>4. {Meta} \cup Range(splits) \subseteq Sub /\ Made \subseteq Sub
  BY DEF RunTypeOK, Range, Sub, Made
<1>5. \A s \in Sub : OnStack(s) => s \in Made
  BY DEF Pending, Made, Unsaved
<1> QED BY <1>2, <1>3, <1>4, <1>5

LEMMA PendingStep ==
  ASSUME RunTypeOK, StackShape, Pending, NothingYet, [Next]_vars
  PROVE  Pending'
<1> USE DEF record
<1>0. Meta \in Sub /\ Range(splits) \subseteq Sub /\ Sub = {Meta} \cup SubTarget
  BY DEF Sub, Range, RunTypeOK
<1>1. CASE NewSubmission
  <2>1. /\ deferred' = <<"unlockStudents", Meta>> /\ pc' = "entry"
        /\ saved' = [s \in Sub |-> IF s = Meta THEN [status |-> "submitted", score |-> 0]
                                               ELSE Unsaved]
    BY <1>1 DEF NewSubmission, Submitted
  <2>2. OnStack(Meta)' /\ \A s \in Sub : OnStack(s)' => s = Meta
    BY <2>1, RunAssumption DEF OnStack
  <2>3. Made' = {Meta}
    BY <1>0, <2>1 DEF Made, Unsaved
  <2> QED BY <1>0, <2>1, <2>2, <2>3 DEF Pending, Terminal, Early, Unsaved
<1>2. CASE StartBuild \/ BuildFails \/ BuildSucceeds \/ CreateFails \/ StartTests
  <2>1. pc \in Early /\ UNCHANGED <<deferred, score>>
    BY <1>2 DEF StartBuild, BuildFails, BuildSucceeds, CreateFails, StartTests, Early
  <2>2. Made = {Meta} /\ OnStack(Meta)' /\ \A s \in Sub : OnStack(s)' => s = Meta
    BY <2>1, OnlyMeta, SameStack
  <2>3. /\ \A s \in Sub : s # Meta => saved'[s] = saved[s]
        /\ saved'[Meta] \in [status : Statuses, score : Nat]
    <3>1. saved[Meta] \in [status : Statuses, score : Nat]
      <4>1. saved[Meta].status # "absent"
        BY <1>0, <2>1, OnlyMeta DEF Pending
      <4> QED BY <1>0, <4>1 DEF RunTypeOK
    <3>2. saved'[Meta] \in [status : Statuses, score : Nat]
      BY <1>0, <1>2, <3>1 DEF StartBuild, BuildFails, BuildSucceeds, CreateFails, StartTests,
                              RunTypeOK, Statuses
    <3> QED BY <1>0, <1>2, <3>2 DEF StartBuild, BuildFails, BuildSucceeds, CreateFails,
                                    StartTests, RunTypeOK
  <2>4. Made' = {Meta}
    BY <1>0, <2>2, <2>3 DEF Made, Unsaved, Statuses
  <2>5. pc' \notin Early => status'[Meta] \in {"running", "aborted"}
    BY <1>0, <1>2 DEF StartBuild, BuildFails, BuildSucceeds, CreateFails, StartTests,
                      RunTypeOK, Early
  <2>6. ASSUME NEW s \in Sub, saved'[s].status \in Terminal
        PROVE  pc' \in Returning /\ saved'[s] = Current(s)'
    <3>1. saved[s].status \notin Terminal
      BY <2>1 DEF Pending, Early, Returning
    <3>2. s = Meta
      BY <2>3, <2>6, <3>1
    <3>3. BuildFails
      BY <1>0, <1>2, <2>6, <3>1, <3>2 DEF StartBuild, BuildSucceeds, CreateFails, StartTests,
                                     RunTypeOK, Terminal
    <3> QED BY <1>0, <3>2, <3>3 DEF BuildFails, RunTypeOK, Returning, Current
  <2> QED BY <2>2, <2>3, <2>4, <2>5, <2>6 DEF Pending, Statuses
<1>3. ASSUME NEW t \in Test, CreateTest(t) PROVE Pending'
  BY <1>3, SameStack DEF CreateTest, Pending, Made, Final, Current
<1>4. CASE Split
  <2>1. CASE Len(deferred) - 2 = Len(splits)
    <3>1. UNCHANGED <<status, score, deferred, saved>> /\ pc = "splitting" /\ pc' = "running"
      BY <1>4, <2>1 DEF Split
    <3> QED BY <3>1, SameStack DEF Pending, Made, Final, Current, Early, Returning
  <2>2. CASE Len(deferred) - 2 # Len(splits)
    <3> DEFINE s == splits[Len(deferred) - 2 + 1]
    <3>1. /\ pc = "splitting" /\ pc' = pc /\ score' = score
          /\ status' = [status EXCEPT ![s] = status[Meta]]
          /\ saved' = [saved EXCEPT ![s] = [status |-> status[Meta], score |-> 0]]
          /\ deferred' = Append(deferred, s)
      BY <1>4, <2>2 DEF Split
    <3>2. s \in SubTarget
      <4>1. Len(deferred) - 2 + 1 \in 1..Len(splits)
        BY <2>2, <3>1 DEF StackShape, RunTypeOK
      <4> QED BY <4>1 DEF RunTypeOK
    <3> HIDE DEF s
    <3>3. \A x \in Sub : OnStack(x)' <=> OnStack(x) \/ x = s
      <4>1. /\ Len(deferred) \in Nat
            /\ Len(deferred') = Len(deferred) + 1
            /\ \A i \in 1..Len(deferred) : deferred'[i] = deferred[i]
            /\ deferred'[Len(deferred) + 1] = s
        BY <3>1 DEF RunTypeOK
      <4> QED BY <4>1 DEF OnStack
    <3>4. status[Meta] = "running" /\ pc \notin Early /\ pc \notin Returning
      BY <3>1 DEF NothingYet, Early, Returning
    <3>5. /\ s \in Sub /\ saved'[s] = [status |-> "running", score |-> 0]
          /\ status'[s] = "running"
          /\ \A x \in Sub : x # s => saved'[x] = saved[x] /\ status'[x] = status[x]
      BY <1>0, <3>1, <3>2, <3>4 DEF RunTypeOK
    <3>6. \A x \in Sub : x # s => (x \in Made' <=> x \in Made)
      BY <3>5 DEF Made
    <3>7. \A x \in Made' : OnStack(x)'
      BY <3>3, <3>4, <3>6 DEF Pending, Made
    <3>8. \A x \in Sub : OnStack(x)' => saved'[x].status # "absent"
                                        /\ status'[x] \in {"running", "aborted"}
      BY <3>3, <3>4, <3>5 DEF Pending
    <3>9. \A x \in Sub : saved'[x].status \notin Terminal
      BY <3>4, <3>5 DEF Pending, Terminal
    <3> QED BY <3>7, <3>8, <3>9 DEF Pending
  <2> QED BY <2>1, <2>2
<1>5. ASSUME NEW t \in Test, Receive(t) PROVE Pending'
  <2>1. pc = "running" /\ pc' = pc /\ deferred' = deferred
    BY <1>5 DEF Receive
  <2>2. Made = {Meta} \cup Range(splits) /\ \A s \in Sub : OnStack(s)' <=> s \in Made
    BY <2>1, AllOnStack, SameStack
  <2>3. \A s \in Sub : /\ saved'[s].status = saved[s].status
                       /\ s \notin Made => saved'[s] = saved[s]
    BY <1>5, <2>2 DEF Receive, Abort, AddScore, Graded, RunTypeOK
  <2>4. Made' = Made
    <3>1. \A s \in Made : OnStack(s) /\ s \in Sub
      BY <2>1, <2>2, SameStack DEF Made
    <3>2. \A s \in Made : saved[s].status # "absent" /\ saved'[s].status # "absent"
      BY <2>3, <3>1 DEF Pending
    <3>3. \A s \in Made : s \in Made'
      BY <3>1, <3>2 DEF Made, Unsaved
    <3>4. \A s \in Sub : s \notin Made => s \notin Made'
      BY <2>3 DEF Made
    <3> QED BY <3>3, <3>4 DEF Made
  <2>5. \A s \in Made : status'[s] \in {"running", "aborted"}
    <3>1. \A s \in Made : s \in Sub /\ status[s] \in {"running", "aborted"}
      BY <2>1, <2>2, SameStack DEF Pending, Early, Made
    <3> QED BY <1>5, <3>1 DEF Receive, Abort, AddScore
  <2>6. \A s \in Made : s \in Sub /\ saved'[s].status # "absent"
    BY <2>2, <2>3, SameStack, <2>1 DEF Pending, Made
  <2>7. \A s \in Sub : saved'[s].status \notin Terminal
    BY <2>1, <2>3 DEF Pending, Returning
  <2> QED BY <2>1, <2>2, <2>4, <2>5, <2>6, <2>7 DEF Pending
<1>6. CASE ResultsClosed \/ Return
  BY <1>6, SameStack DEF ResultsClosed, Return, Pending, Made, Final, Current, Early, Returning
<1>7. ASSUME NEW s \in Sub, Finish(s) PROVE Pending'
  <2>1. /\ pc = "returning" /\ pc' = pc /\ score' = score
        /\ Len(deferred) > 0 /\ s = deferred[Len(deferred)] /\ deferred' = Front(deferred)
        /\ status' = [status EXCEPT ![s] = IF @ = "running" THEN "completed" ELSE @]
        /\ saved' = [saved EXCEPT ![s] = [status |-> status'[s], score |-> score[s]]]
    BY <1>7 DEF Finish, RunTypeOK
  <2>2. \A x \in Sub : OnStack(x)' <=> OnStack(x) /\ x # s
    BY <2>1, PopStack
  <2>3. OnStack(s)
    BY <2>1 DEF OnStack, RunTypeOK
  <2>4. status[s] \in {"running", "aborted"}
    BY <2>1, <2>3 DEF Pending, Early
  <2>5. /\ \A x \in Sub : x # s => saved'[x] = saved[x] /\ status'[x] = status[x]
        /\ status'[s] \in Terminal
        /\ saved'[s] = [status |-> status'[s], score |-> score[s]]
    BY <2>1, <2>4 DEF RunTypeOK, Terminal
  <2>6. Final(s)'
    BY <2>1, <2>5 DEF Final, Current
  <2>7. \A x \in Sub : x # s => (Final(x)' <=> Final(x))
    BY <2>1, <2>5 DEF Final, Current
  <2>8. \A x \in Made' : OnStack(x)' \/ Final(x)'
    BY <2>2, <2>5, <2>6, <2>7 DEF Pending, Made
  <2>9. \A x \in Sub : OnStack(x)' => saved'[x].status # "absent"
                                      /\ status'[x] \in {"running", "aborted"}
    BY <2>1, <2>2, <2>5 DEF Pending, Early
  <2>10. \A x \in Sub : saved'[x].status \in Terminal => saved'[x] = Current(x)'
    BY <2>1, <2>5, <2>6 DEF Pending, Final, Current
  <2> QED BY <2>1, <2>8, <2>9, <2>10 DEF Pending, Returning
<1>8. CASE UnlockStudents
  <2>1. /\ Len(deferred) > 0 /\ deferred' = Front(deferred)
        /\ deferred[Len(deferred)] = "unlockStudents"
        /\ UNCHANGED <<pc, status, score, saved>>
    BY <1>8 DEF UnlockStudents, RunTypeOK
  <2>2. \A x \in Sub : OnStack(x)' <=> OnStack(x)
    BY <2>1, PopStack, RunAssumption
  <2> QED BY <2>1, <2>2 DEF Pending, Made, Final, Current
<1>9. CASE UNCHANGED vars
  BY <1>9, SameStack DEF vars, Pending, Made, Final, Current
<1> QED BY <1>1, <1>2, <1>3, <1>4, <1>5, <1>6, <1>7, <1>8, <1>9 DEF Next, Step
-----------------------------------------------------------------------------
(* All of a submission is aborted, or nothing of it. *)

LEMMA NothingYetStep ==
  ASSUME RunTypeOK, NothingYet, [Next]_vars
  PROVE  NothingYet'
<1> USE DEF Early, NothingYet
<1>0. Meta \in Sub /\ Meta \notin SubTarget
  BY RunAssumption DEF Sub
<1>1. CASE NewSubmission
  BY <1>0, <1>1 DEF NewSubmission, Submitted
<1>2. CASE StartBuild \/ BuildFails \/ BuildSucceeds \/ CreateFails \/ StartTests
  BY <1>0, <1>2 DEF StartBuild, BuildFails, BuildSucceeds, CreateFails, StartTests, RunTypeOK
<1>3. ASSUME NEW t \in Test, CreateTest(t) \/ Receive(t) PROVE NothingYet'
  BY <1>3 DEF CreateTest, Receive
<1>4. CASE Split
  <2>1. pc = "splitting" /\ pc' \in {"splitting", "running"}
    BY <1>4 DEF Split
  <2>2. \/ status' = status
        \/ \E s : status' = [status EXCEPT ![s] = status[Meta]]
    BY <1>4 DEF Split
  <2> QED BY <1>0, <2>1, <2>2 DEF RunTypeOK
<1>5. CASE ResultsClosed \/ Return \/ UnlockStudents \/ \E s \in Sub : Finish(s)
  BY <1>5 DEF ResultsClosed, Return, UnlockStudents, Finish
<1>6. CASE UNCHANGED vars
  BY <1>6 DEF vars
<1> QED BY <1>1, <1>2, <1>3, <1>4, <1>5, <1>6 DEF Next, Step

LEMMA UniformStep ==
  ASSUME RunTypeOK, StackShape, Pending, Pending', NothingYet, Uniform, [Next]_vars
  PROVE  Uniform'
<1> USE DEF record
<1>0. Meta \in Sub /\ Meta \notin SubTarget /\ Made \subseteq Sub
  BY RunAssumption DEF Sub, Made
<1>1. CASE NewSubmission
  BY <1>1 DEF NewSubmission, Submitted, Uniform, Made
<1>2. CASE StartBuild \/ BuildFails \/ BuildSucceeds \/ CreateFails \/ StartTests
  <2>1. pc \in Early /\ score' = score
    BY <1>2 DEF StartBuild, BuildFails, BuildSucceeds, CreateFails, StartTests, Early
  <2>2. Made = {Meta} /\ score[Meta] = 0
    BY <2>1, OnlyMeta DEF NothingYet
  <2>3. Made' \subseteq {Meta}
    BY <1>0, <1>2, <2>2 DEF StartBuild, BuildFails, BuildSucceeds, CreateFails, StartTests,
                            Made, RunTypeOK
  <2> QED BY <2>1, <2>2, <2>3 DEF Uniform
<1>3. CASE UNCHANGED <<status, score, saved>>
  BY <1>3 DEF Uniform, Made
<1>4. CASE Split /\ ~UNCHANGED <<status, score, saved>>
  <2>1. PICK s : /\ pc = "splitting" /\ s \in Range(splits)
                 /\ status' = [status EXCEPT ![s] = status[Meta]]
                 /\ saved' = [saved EXCEPT ![s] = [status |-> status[Meta], score |-> 0]]
    <3>1. Len(deferred) - 2 # Len(splits) /\ pc = "splitting"
      BY <1>4 DEF Split
    <3>2. Len(deferred) - 2 + 1 \in DOMAIN splits
      BY <3>1 DEF StackShape, RunTypeOK
    <3> QED BY <1>4, <3>1, <3>2 DEF Split, Range
  <2>2. s \in Sub /\ s # Meta
    BY <1>0, <2>1 DEF RunTypeOK, Range, Sub
  <2>3. status[Meta] = "running" /\ Meta \in Made
    <3>1. OnStack(Meta)
      BY <2>1, WhoIsOnStack DEF StackShape
    <3> QED BY <1>0, <2>1, <3>1 DEF NothingYet, Pending, Made, Unsaved
  <2>4. \A x \in Made : status[x] # "aborted"
    BY <2>3 DEF Uniform
  <2>5. \A x \in Made' : status'[x] # "aborted"
    BY <2>1, <2>2, <2>3, <2>4 DEF Made, RunTypeOK
  <2> QED BY <2>5 DEF Uniform
<1>5. ASSUME NEW t \in Test, Receive(t), ~UNCHANGED <<status, score, saved>>
      PROVE  Uniform'
  <2>1. pc = "running" /\ status[Meta] = "running"
    BY <1>5 DEF Receive
  <2>2. Made = {Meta} \cup Range(splits)
    BY <2>1, AllOnStack
  <2>3. CASE Abort
    <3>1. Made' = Made
      BY <2>3 DEF Abort, Made
    <3> QED BY <1>0, <2>2, <2>3, <3>1 DEF Abort, Uniform
  <2>4. CASE status' = status
    <3>1. \A x \in Made : status[x] # "aborted"
      BY <2>1, <2>2 DEF Uniform
    <3>2. Made' \subseteq Made
      BY <1>5, <2>2, <2>4 DEF Receive, Abort, AddScore, Graded, Made
    <3> QED BY <2>4, <3>1, <3>2 DEF Uniform
  <2> QED BY <1>5, <2>3, <2>4 DEF Receive, AddScore
<1>6. ASSUME NEW s \in Sub, Finish(s) PROVE Uniform'
  <2>1. /\ score' = score
        /\ status' = [status EXCEPT ![s] = IF @ = "running" THEN "completed" ELSE @]
        /\ saved' = [saved EXCEPT ![s] = [status |-> status'[s], score |-> score[s]]]
    BY <1>6 DEF Finish
  <2>2. OnStack(s)
    BY <1>6 DEF Finish, OnStack, RunTypeOK
  <2>3. s \in Made
    BY <2>2 DEF Pending, Made, Unsaved
  <2>4. Made' \subseteq Made
    BY <2>1, <2>3 DEF Made, RunTypeOK
  <2>5. \A x \in Sub : status'[x] = "aborted" <=> status[x] = "aborted"
    BY <2>1 DEF RunTypeOK
  <2> QED BY <1>0, <2>1, <2>4, <2>5 DEF Uniform
<1>7. ASSUME NEW t \in Test, CreateTest(t) PROVE UNCHANGED <<status, score, saved>>
  BY <1>7 DEF CreateTest
<1>8. CASE ResultsClosed \/ Return \/ UnlockStudents \/ UNCHANGED vars
  BY <1>3, <1>8 DEF ResultsClosed, Return, UnlockStudents, vars
<1> QED BY <1>1, <1>2, <1>3, <1>4, <1>5, <1>6, <1>7, <1>8 DEF Next, Step
-----------------------------------------------------------------------------
(* The theorems. *)

LEMMA RunInvHolds == Spec => []RunInv
<1>1. Init => RunInv
  <2> SUFFICES ASSUME Init PROVE RunInv  OBVIOUS
  <2>1. RunTypeOK
    BY DEF Init, RunTypeOK, Unsaved, Statuses, Returning, IsInjective
  <2>2. Made = {} /\ Len(deferred) = 0
    BY DEF Init, Made
  <2>3. StackShape
    BY <2>2 DEF Init, StackShape, Early
  <2>4. Pending /\ Uniform /\ NothingYet
    BY <2>2 DEF Init, Pending, OnStack, Uniform, NothingYet, Early, Unsaved, Terminal
  <2> QED BY <2>1, <2>3, <2>4 DEF RunInv
<1>2. RunInv /\ [Next]_vars => RunInv'
  BY TypeStep, ShapeStep, PendingStep, NothingYetStep, UniformStep DEF RunInv
<1> QED BY <1>1, <1>2, PTL DEF Spec

\* When the students can submit again, the submission and each of its splits is
\* final in the database, whatever way Run took: a failed build, a test that the
\* database refused, an abort, or all results.  unlockStudents was deferred first
\* and so runs last (submission.go:706).
THEOREM StudentsUnlockedLast == Spec => []UnlockedWhenSaved
<1>1. RunInv => UnlockedWhenSaved
  <2> SUFFICES ASSUME RunInv, ~locked, NEW s \in Made
               PROVE  saved[s].status \in Terminal /\ saved[s] = Current(s)
    BY DEF UnlockedWhenSaved
  <2>1. ~OnStack(s)
    BY DEF RunInv, StackShape, OnStack, RunTypeOK
  <2> QED BY <2>1 DEF RunInv, Pending, Final
<1> QED BY <1>1, RunInvHolds, PTL

\* A submission finishes as a whole: its parts are all completed, or all aborted
\* without points, at whatever result the abort comes.
THEOREM SubmissionAbortsAsAWhole == Spec => []AbortIsTotal
<1>1. RunInv => AbortIsTotal
  <2> SUFFICES ASSUME RunInv, NEW s \in Made,
                      saved[s].status \in Terminal, saved[Meta].status \in Terminal
               PROVE  /\ saved[s].status = saved[Meta].status
                      /\ saved[s].status = "aborted" => saved[s].score = 0
    BY DEF AbortIsTotal
  <2>1. s \in Sub /\ Meta \in Sub /\ Meta \in Made
    BY DEF Made, Sub, Unsaved, Terminal
  <2>2. saved[s] = Current(s) /\ saved[Meta] = Current(Meta)
    BY <2>1 DEF RunInv, Pending
  <2> QED BY <2>1, <2>2 DEF RunInv, Uniform, Current, Terminal
<1> QED BY <1>1, RunInvHolds, PTL
-----------------------------------------------------------------------------
(* The scores. *)

\* A result adds its points to the submission and to the split it belongs to,
\* if it belongs to one, and otherwise has no points.
LEMMA ResultAddsUp ==
  ASSUME RunTypeOK, ScoresAddUp, splits # <<>>, NEW t \in Test, t \in unreported,
         NEW earned \in 0..Points[version][t], AddScore(t, earned)
  PROVE  score'[Meta] = SumFunctionOnSet(score', Range(splits))
<1> DEFINE S == Range(splits)
<1>1. /\ S \subseteq Sub /\ Meta \notin S /\ Meta \in Sub
      /\ IsFiniteSet(S)
  BY RunAssumption, FS_Subset DEF RunTypeOK, Range, Sub
<1>2. /\ \A s \in Sub : score[s] \in Int
      /\ earned \in Int
  BY DEF RunTypeOK
<1>3. score' = [s \in Sub |-> IF s \in Graded(t) THEN score[s] + earned ELSE score[s]]
  BY DEF AddScore
<1>4. IntOn(score, S) /\ IntOn(score', S)
  BY <1>1, <1>2, <1>3 DEF IntOn
<1>5. score[Meta] = SumFunctionOnSet(score, S)
  BY DEF ScoresAddUp
<1>6. score'[Meta] = score[Meta] + earned
  BY <1>1, <1>3 DEF Graded
<1>7. CASE TargetOf[t] \in S
  <2>1. /\ \A s \in S \ {TargetOf[t]} : score[s] = score'[s]
        /\ score'[TargetOf[t]] = score[TargetOf[t]] + earned
    BY <1>1, <1>3, <1>7 DEF Graded
  <2>2. SumFunctionOnSet(score', S)
          = SumFunctionOnSet(score, S) + (score'[TargetOf[t]] - score[TargetOf[t]])
    BY <1>1, <1>4, <1>7, <2>1, SumChange
  <2>3. SumFunctionOnSet(score, S) \in Int /\ score[TargetOf[t]] \in Int
    BY <1>1, <1>2, <1>4, <1>7, SumIsInt
  <2> HIDE DEF S
  <2> QED BY <1>2, <1>5, <1>6, <2>1, <2>2, <2>3 DEF S
<1>8. CASE TargetOf[t] \notin S
  <2>1. t \in TestsOf[splits] /\ splits \in SplitLists \ {<<>>} /\ version \in Version
    BY DEF RunTypeOK
  <2>2. Points[version][t] = 0
    BY <1>8, <2>1, GradedAssumption
  <2>3. earned = 0
    BY <1>2, <2>2
  <2>4. \A s \in S : score[s] = score'[s]
    BY <1>1, <1>2, <1>3, <2>3
  <2>5. SumFunctionOnSet(score, S) = SumFunctionOnSet(score', S)
    BY <1>1, <2>4, SumSame
  <2>6. score'[Meta] = score[Meta]
    BY <1>1, <1>2, <1>6, <2>3
  <2> QED BY <1>5, <2>5, <2>6
<1> QED BY <1>7, <1>8

\* Nobody has points: at the beginning, and after an abort.
LEMMA NothingAddsUp ==
  ASSUME NEW f, NEW q \in Seq(SubTarget), f[Meta] = 0, \A s \in Range(q) : f[s] = 0
  PROVE  f[Meta] = SumFunctionOnSet(f, Range(q))
<1>1. IsFiniteSet(Range(q))
  BY RunAssumption, FS_Subset DEF Range
<1> QED BY <1>1, SumOfZeros

\* The score of a submission is the sum of the scores of its parts, after every
\* result and at whatever result the abort comes.
THEOREM PartsAddUp == Spec => []ScoresAddUp
<1>1. Init => ScoresAddUp
  BY DEF Init, ScoresAddUp
<1>2. RunInv /\ ScoresAddUp /\ [Next]_vars => ScoresAddUp'
  <2> SUFFICES ASSUME RunTypeOK, ScoresAddUp, [Next]_vars, splits' # <<>>
               PROVE  score'[Meta] = SumFunctionOnSet(score', Range(splits'))
    BY DEF RunInv, ScoresAddUp
  <2>1. CASE NewSubmission
    <3>1. splits' \in Seq(SubTarget) /\ score' = [s \in Sub |-> 0]
      BY <2>1, RunAssumption DEF NewSubmission, Submitted
    <3>2. score'[Meta] = 0 /\ \A s \in Range(splits') : score'[s] = 0
      BY <3>1 DEF Range, Sub
    <3> QED BY <3>1, <3>2, NothingAddsUp
  <2>2. CASE UNCHANGED <<score, splits>>
    BY <2>2 DEF ScoresAddUp
  <2>3. ASSUME NEW t \in Test, Receive(t), Abort
        PROVE  score'[Meta] = SumFunctionOnSet(score', Range(splits'))
    <3>1. splits' = splits /\ splits \in Seq(SubTarget)
      BY <2>3 DEF Receive, RunTypeOK
    <3>2. score'[Meta] = 0 /\ \A s \in Range(splits) : score'[s] = 0
      BY <2>3, <3>1 DEF Abort, Range, Sub
    <3> QED BY <3>1, <3>2, NothingAddsUp
  <2>4. ASSUME NEW t \in Test, Receive(t), NEW earned \in 0..Points[version][t],
               AddScore(t, earned)
        PROVE  score'[Meta] = SumFunctionOnSet(score', Range(splits'))
    <3>1. splits' = splits /\ t \in unreported
      BY <2>4 DEF Receive
    <3> QED BY <2>4, <3>1, ResultAddsUp
  <2>5. ASSUME NEW t \in Test, Receive(t)
        PROVE  score'[Meta] = SumFunctionOnSet(score', Range(splits'))
    BY <2>2, <2>3, <2>4, <2>5 DEF Receive
  <2>6. StartBuild \/ BuildFails \/ BuildSucceeds \/ CreateFails \/ StartTests \/ Split
        \/ (\E t \in Test : CreateTest(t)) \/ ResultsClosed \/ UnlockStudents \/ Return
        \/ (\E s \in Sub : Finish(s)) \/ UNCHANGED vars
        => UNCHANGED <<score, splits>>
    BY DEF StartBuild, BuildFails, BuildSucceeds, CreateFails, StartTests, Split, CreateTest,
           ResultsClosed, UnlockStudents, Return, Finish, vars
  <2> QED BY <2>1, <2>2, <2>5, <2>6 DEF Next, Step
<1> QED BY <1>1, <1>2, RunInvHolds, PTL DEF Spec
-----------------------------------------------------------------------------
(* The statistics of one target, and the descriptions they were counted from. *)

StatField == {"type", "version", "max", "total", "complete", "sum", "best", "high", "low",
              "bestPerf", "worstPerf"}
Types == {"asst", "perf"}

\* The descriptions that the database gives of a target of type ty.
DescribedAs(ty, S) ==
  \A d \in S : /\ d.type = ty /\ d.id \in Nat \ {0} /\ d.version \in Nat
               /\ d.score \in Nat /\ d.perf = 0
Valid(S) == {d \in S : ValidResult(d)}
Value(d) == IF d.type = "asst" THEN d.score ELSE d.perf
Values(S) == [d \in S |-> Value(d)]

\* No submission has a performance, so there is never a best one.
StatTypeOK(stat, ty) ==
  /\ DOMAIN stat = StatField
  /\ stat.type = ty
  /\ stat.version \in Nat
  /\ stat.high \in Nat /\ stat.low \in Nat
  /\ stat.bestPerf = 0

\* The counts of a statistic are those of S, and the maximum that of its newest.
CountsFit(stat, S) ==
  /\ stat.total = Cardinality(S)
  /\ stat.complete = Cardinality(Valid(S))
  /\ stat.sum = SumFunction(Values(Valid(S)))
  /\ \A d \in S : d.version <= stat.version
  /\ S # {} => \E d \in S : d.version = stat.version /\ d.points = stat.max

\* A later or the same submission scored 0, and took the low score back to none.
Zero(d, S) == \E z \in Valid(S) : z.score = 0 /\ z.id >= d.id
Since(S) == {d \in Valid(S) : ~Zero(d, S)}

\* The high score, the first submission that has it, and the low score.
ScoresFit(stat, S) ==
  /\ \A d \in Valid(S) : d.score <= stat.high
  /\ stat.high = 0 => stat.best = NoSubmission
  /\ stat.high # 0 => \E d \in Valid(S) : d.score = stat.high /\ d.id = stat.best
  /\ \A d \in Valid(S) : d.score = stat.high /\ stat.high # 0 => stat.best <= d.id
  /\ Since(S) = {} => stat.low = 0
  /\ \A d \in Since(S) : stat.low # 0 /\ stat.low <= d.score
  /\ Since(S) # {} => \E d \in Since(S) : d.score = stat.low

\* The best submission to a perf target is the last valid one.
LastFits(stat, S) ==
  /\ Valid(S) = {} => stat.best = NoSubmission
  /\ Valid(S) # {} => \E d \in Valid(S) : d.id = stat.best
  /\ \A d \in Valid(S) : d.id <= stat.best

\* The statistic of a target of type ty is what the descriptions S give.
StatFits(stat, ty, S) ==
  /\ StatTypeOK(stat, ty)
  /\ IsFiniteSet(S) /\ DescribedAs(ty, S)
  /\ CountsFit(stat, S)
  /\ ty = "asst" => ScoresFit(stat, S)
  /\ ty = "perf" => LastFits(stat, S)

\* The fields after an update.
LEMMA NoticedIs ==
  ASSUME NEW stat, NEW sub, DOMAIN stat = StatField
  PROVE  LET n == Noticed(stat, sub)  newer == stat.version < sub.version IN
         /\ DOMAIN n = StatField
         /\ n.total = stat.total + 1
         /\ n.max = IF newer THEN sub.points ELSE stat.max
         /\ n.version = IF newer THEN sub.version ELSE stat.version
         /\ \A k \in StatField \ {"total", "max", "version"} : n[k] = stat[k]
BY DEF Noticed, StatField

LEMMA ScoreCountedIs ==
  ASSUME NEW stat, NEW sub, DOMAIN stat = StatField
  PROVE  LET n == CountScore(stat, sub) IN
         /\ DOMAIN n = StatField
         /\ n.high = IF stat.high < sub.score THEN sub.score ELSE stat.high
         /\ n.best = IF stat.high < sub.score THEN sub.id ELSE stat.best
         /\ n.low = IF stat.low = 0 \/ stat.low > sub.score THEN sub.score ELSE stat.low
         /\ n.sum = stat.sum + sub.score
         /\ n.complete = stat.complete + 1
         /\ \A k \in StatField \ {"high", "best", "low", "sum", "complete"} : n[k] = stat[k]
BY DEF CountScore, StatField

LEMMA PerfCountedIs ==
  ASSUME NEW stat, NEW sub, DOMAIN stat = StatField, sub.perf = 0, stat.bestPerf = 0
  PROVE  LET n == CountPerf(stat, sub) IN
         /\ DOMAIN n = StatField
         /\ n.bestPerf = 0
         /\ n.best = sub.id
         /\ n.sum = stat.sum + sub.perf
         /\ n.complete = stat.complete + 1
         /\ \A k \in StatField \ {"bestPerf", "best", "worstPerf", "sum", "complete"} :
              n[k] = stat[k]
BY DEF CountPerf, StatField

LEMMA OneMoreValid ==
  ASSUME NEW S, NEW d, d \notin S
  PROVE  /\ ValidResult(d) => Valid(S \cup {d}) = Valid(S) \cup {d}
         /\ ~ValidResult(d) => Valid(S \cup {d}) = Valid(S)
BY DEF Valid

\* One more description: the counts.
LEMMA OneMoreCounted ==
  ASSUME NEW S, NEW ty, IsFiniteSet(S), NEW d, d \notin S, DescribedAs(ty, S \cup {d})
  PROVE  /\ IsFiniteSet(S \cup {d})
         /\ Cardinality(S \cup {d}) = Cardinality(S) + 1
         /\ IsFiniteSet(Valid(S))
         /\ SumFunction(Values(Valid(S))) \in Nat
         /\ ValidResult(d) =>
              /\ Cardinality(Valid(S \cup {d})) = Cardinality(Valid(S)) + 1
              /\ SumFunction(Values(Valid(S \cup {d})))
                   = SumFunction(Values(Valid(S))) + Value(d)
<1>1. /\ IsFiniteSet(S \cup {d}) /\ Cardinality(S \cup {d}) = Cardinality(S) + 1
  BY FS_AddElement
<1>2. Valid(S) \subseteq S /\ IsFiniteSet(Valid(S)) /\ d \notin Valid(S)
  BY FS_Subset DEF Valid
<1> DEFINE V == Valid(S) \cup {d}
<1>3. IsFiniteSet(V) /\ Cardinality(V) = Cardinality(Valid(S)) + 1 /\ V \ {d} = Valid(S)
  BY <1>2, FS_AddElement
<1>4. \A e \in S \cup {d} : Value(e) \in Nat
  BY DEF DescribedAs, Value
<1>5. \A e \in Valid(S) : Values(Valid(S))[e] \in Nat
  BY <1>2, <1>4 DEF Values
<1>6. \A f : DOMAIN Values(f) = f
  BY DEF Values
<1>7. SumFunction(Values(Valid(S))) = SumFunctionOnSet(Values(Valid(S)), Valid(S))
      /\ SumFunction(Values(V)) = SumFunctionOnSet(Values(V), V)
  BY <1>6 DEF SumFunction
<1>8. SumFunction(Values(Valid(S))) \in Nat
  BY <1>2, <1>5, <1>7, SumIsNat
<1>9. SumFunction(Values(V)) = Value(d) + SumFunction(Values(Valid(S)))
  <2>1. IntOn(Values(V), V) /\ Values(V)[d] = Value(d)
    BY <1>2, <1>4 DEF IntOn, Values
  <2>2. SumFunctionOnSet(Values(V), V) = Value(d) + SumFunctionOnSet(Values(V), Valid(S))
    <3>1. d \in V  OBVIOUS
    <3> HIDE DEF V
    <3> QED BY <1>3, <2>1, <3>1, SumTakeOut
  <2>3. \A e \in Valid(S) : Values(V)[e] = Values(Valid(S))[e]
    BY DEF Values
  <2>4. SumFunctionOnSet(Values(V), Valid(S)) = SumFunctionOnSet(Values(Valid(S)), Valid(S))
    BY <1>2, <2>3, SumSame
  <2> QED BY <1>7, <2>2, <2>4
<1>10. ValidResult(d) => Valid(S \cup {d}) = V
  BY OneMoreValid
<1>11. Value(d) \in Nat
  BY <1>4
<1> HIDE DEF V
<1> QED BY <1>1, <1>2, <1>3, <1>8, <1>9, <1>10, <1>11

\* One more description, which is newer than the others.
Newest(d, S) == \A e \in S : e.id < d.id /\ e.version <= d.version

LEMMA CountsFollow ==
  ASSUME NEW stat, NEW ty \in Types, NEW S, NEW d, Newest(d, S), d \notin S,
         StatTypeOK(stat, ty), IsFiniteSet(S), DescribedAs(ty, S \cup {d}),
         CountsFit(stat, S), S = {} => stat.version = d.version /\ stat.max = d.points
  PROVE  /\ CountsFit(UpdateStat(stat, d), S \cup {d})
         /\ StatTypeOK(UpdateStat(stat, d), ty)
<1> DEFINE n == Noticed(stat, d)  u == UpdateStat(stat, d)
<1>1. /\ DOMAIN n = StatField /\ n.type = ty /\ n.version \in Nat
      /\ n.high \in Nat /\ n.low \in Nat /\ n.bestPerf = 0
      /\ n.total = stat.total + 1 /\ n.complete = stat.complete /\ n.sum = stat.sum
      /\ n.max = IF stat.version < d.version THEN d.points ELSE stat.max
      /\ n.version = IF stat.version < d.version THEN d.version ELSE stat.version
  BY NoticedIs DEF StatTypeOK, StatField, DescribedAs
<1>2. /\ d.score \in Nat /\ d.perf = 0 /\ d.type = ty /\ d.version \in Nat
  BY DEF DescribedAs
<1>3. /\ DOMAIN u = StatField /\ u.type = ty /\ u.version = n.version
      /\ u.high \in Nat /\ u.low \in Nat /\ u.bestPerf = 0
      /\ u.total = n.total /\ u.max = n.max
      /\ u.complete = IF ValidResult(d) THEN stat.complete + 1 ELSE stat.complete
      /\ u.sum = IF ValidResult(d) THEN stat.sum + Value(d) ELSE stat.sum
  <2>1. CASE ~ValidResult(d)
    BY <1>1, <2>1 DEF UpdateStat
  <2>2. CASE ValidResult(d) /\ ty = "asst"
    <3>1. u = CountScore(n, d)
      BY <2>2, Zenon DEF UpdateStat, StatTypeOK
    <3> HIDE DEF n, u
    <3> QED BY <1>1, <1>2, <2>2, <3>1, ScoreCountedIs DEF StatField, Value
  <2>3. CASE ValidResult(d) /\ ty = "perf"
    <3>1. u = CountPerf(n, d)
      BY <2>3, "asst" # "perf", Zenon DEF UpdateStat, StatTypeOK
    <3> HIDE DEF n, u
    <3> QED BY <1>1, <1>2, <2>3, <3>1, PerfCountedIs DEF StatField, Value
  <2> QED BY <2>1, <2>2, <2>3 DEF Types
<1>4. StatTypeOK(u, ty)
  BY <1>1, <1>3 DEF StatTypeOK
<1> HIDE DEF n, u
<1>5. /\ u.total = Cardinality(S \cup {d})
      /\ u.complete = Cardinality(Valid(S \cup {d}))
      /\ u.sum = SumFunction(Values(Valid(S \cup {d})))
  <2>1. /\ Cardinality(S \cup {d}) = Cardinality(S) + 1
        /\ ValidResult(d) =>
              /\ Cardinality(Valid(S \cup {d})) = Cardinality(Valid(S)) + 1
              /\ SumFunction(Values(Valid(S \cup {d})))
                   = SumFunction(Values(Valid(S))) + Value(d)
    BY OneMoreCounted
  <2>2. ~ValidResult(d) => Valid(S \cup {d}) = Valid(S)
    BY OneMoreValid
  <2> QED BY <1>1, <1>3, <2>1, <2>2 DEF CountsFit
<1>6. \A e \in S \cup {d} : e.version <= u.version
  BY <1>1, <1>2, <1>3 DEF CountsFit, Newest, DescribedAs, StatTypeOK
<1>7. \E e \in S \cup {d} : e.version = u.version /\ e.points = u.max
  <2>1. CASE stat.version < d.version
    BY <1>1, <1>3, <2>1
  <2>2. CASE ~(stat.version < d.version) /\ S # {}
    BY <1>1, <1>3, <2>2 DEF CountsFit
  <2>3. CASE ~(stat.version < d.version) /\ S = {}
    BY <1>1, <1>3, <2>3
  <2> QED BY <2>1, <2>2, <2>3
<1> QED BY <1>4, <1>5, <1>6, <1>7 DEF CountsFit, u

\* The best and the low score follow.
LEMMA ScoresFollow ==
  ASSUME NEW stat, NEW S, NEW d, Newest(d, S), d \notin S,
         StatTypeOK(stat, "asst"), DescribedAs("asst", S \cup {d}), ScoresFit(stat, S)
  PROVE  ScoresFit(UpdateStat(stat, d), S \cup {d})
<1> DEFINE n == Noticed(stat, d)  u == UpdateStat(stat, d)
<1>1. /\ DOMAIN n = StatField /\ n.type = "asst"
      /\ n.high = stat.high /\ n.low = stat.low /\ n.best = stat.best
  BY NoticedIs DEF StatTypeOK, StatField
<1>2. /\ d.score \in Nat /\ stat.high \in Nat /\ stat.low \in Nat
      /\ \A e \in Valid(S) : e.score \in Nat /\ e.id \in Nat /\ e.id < d.id
      /\ d.id \in Nat \ {0}
  BY DEF DescribedAs, StatTypeOK, Valid, Newest
<1>3. CASE ~ValidResult(d)
  <2>1. u.high = stat.high /\ u.low = stat.low /\ u.best = stat.best
    BY <1>1, <1>3 DEF UpdateStat
  <2>2. Valid(S \cup {d}) = Valid(S)
    BY <1>3, OneMoreValid
  <2>3. Since(S \cup {d}) = Since(S)
    BY <2>2 DEF Since, Zero
  <2> HIDE DEF u
  <2> QED BY <2>1, <2>2, <2>3 DEF ScoresFit, u
<1>4. CASE ValidResult(d)
  <2>1. u = CountScore(n, d)
    BY <1>4, Zenon DEF UpdateStat, StatTypeOK
  <2>2. /\ u.high = IF stat.high < d.score THEN d.score ELSE stat.high
        /\ u.best = IF stat.high < d.score THEN d.id ELSE stat.best
        /\ u.low = IF stat.low = 0 \/ stat.low > d.score THEN d.score ELSE stat.low
    <3> HIDE DEF n, u
    <3> QED BY <1>1, <2>1, ScoreCountedIs
  <2>3. Valid(S \cup {d}) = Valid(S) \cup {d}
    BY <1>4, OneMoreValid
  <2> HIDE DEF u
  <2>4. d.score = 0 => Since(S \cup {d}) = {}
    <3>1. ASSUME d.score = 0, NEW e \in Valid(S \cup {d})
          PROVE  Zero(e, S \cup {d})
      <4>1. d \in Valid(S \cup {d}) /\ d.id >= e.id
        BY <1>2, <2>3
      <4> QED BY <3>1, <4>1 DEF Zero
    <3> QED BY <3>1 DEF Since
  <2>5. d.score # 0 => Since(S \cup {d}) = Since(S) \cup {d}
    <3> SUFFICES ASSUME d.score # 0 PROVE Since(S \cup {d}) = Since(S) \cup {d}  OBVIOUS
    <3>1. \A e \in Valid(S) : Zero(e, S \cup {d}) <=> Zero(e, S)
      BY <2>3 DEF Zero
    <3>2. ~Zero(d, S \cup {d})
      <4>1. \A z \in Valid(S) : ~(z.id >= d.id)
        BY <1>2
      <4> QED BY <2>3, <4>1 DEF Zero
    <3> QED BY <2>3, <3>1, <3>2 DEF Since
  <2>6. /\ \A e \in Valid(S \cup {d}) : e.score <= u.high
        /\ u.high = 0 => u.best = NoSubmission
        /\ u.high # 0 => \E e \in Valid(S \cup {d}) : e.score = u.high /\ e.id = u.best
    BY <1>2, <2>2, <2>3 DEF ScoresFit
  <2>7. \A e \in Valid(S \cup {d}) : e.score = u.high /\ u.high # 0 => u.best <= e.id
    <3> SUFFICES ASSUME NEW e \in Valid(S) \cup {d}, e.score = u.high, u.high # 0
                 PROVE  u.best <= e.id
      BY <2>3
    <3>1. CASE stat.high < d.score
      <4>1. u.best = d.id /\ u.high = d.score
        BY <2>2, <3>1
      <4>2. \A x \in Valid(S) : x.score < d.score
        BY <1>2, <3>1 DEF ScoresFit
      <4>3. e = d
        BY <1>2, <4>1, <4>2
      <4> QED BY <1>2, <4>1, <4>3
    <3>2. CASE ~(stat.high < d.score)
      <4>1. u.high = stat.high /\ u.best = stat.best
        BY <2>2, <3>2
      <4>2. PICK x \in Valid(S) : x.score = stat.high /\ x.id = stat.best
        BY <4>1 DEF ScoresFit
      <4>3. u.best \in Nat /\ u.best < d.id
        BY <1>2, <4>1, <4>2
      <4>4. CASE e = d
        BY <1>2, <4>3, <4>4
      <4>5. CASE e \in Valid(S)
        BY <4>1, <4>5 DEF ScoresFit
      <4> QED BY <4>4, <4>5
    <3> QED BY <3>1, <3>2
  <2>8. /\ Since(S \cup {d}) = {} => u.low = 0
        /\ \A e \in Since(S \cup {d}) : u.low # 0 /\ u.low <= e.score
        /\ Since(S \cup {d}) # {} => \E e \in Since(S \cup {d}) : e.score = u.low
    <3>1. CASE d.score = 0
      <4>1. stat.low = 0 \/ stat.low > d.score
        BY <1>2, <3>1
      <4>2. u.low = 0
        BY <2>2, <3>1, <4>1
      <4> QED BY <2>4, <3>1, <4>2
    <3>2. CASE d.score # 0
      <4>1. \A e \in Since(S) : e.score \in Nat
        BY <1>2 DEF Since
      <4>2. stat.low = 0 <=> Since(S) = {}
        BY DEF ScoresFit
      <4>3. d.score > 0
        BY <1>2, <3>2
      <4>4. Since(S \cup {d}) = Since(S) \cup {d} /\ Since(S \cup {d}) # {}
        BY <2>5, <3>2
      <4>5. CASE stat.low = 0 \/ stat.low > d.score
        <5>1. u.low = d.score /\ u.low # 0
          BY <2>2, <3>2, <4>5
        <5>2. \A e \in Since(S) : d.score <= e.score
          <6>1. CASE stat.low = 0
            BY <4>2, <6>1
          <6>2. CASE stat.low > d.score
            <7>1. \A e \in Since(S) : stat.low <= e.score
              BY DEF ScoresFit
            <7> QED BY <1>2, <4>1, <6>2, <7>1
          <6> QED BY <4>5, <6>1, <6>2
        <5>3. d.score <= d.score
          BY <1>2
        <5>4. \A e \in Since(S) \cup {d} : u.low # 0 /\ u.low <= e.score
          BY <5>1, <5>2, <5>3
        <5> QED BY <4>4, <5>1, <5>4
      <4>6. CASE ~(stat.low = 0 \/ stat.low > d.score)
        <5>1. u.low = stat.low /\ u.low # 0 /\ u.low <= d.score
          BY <1>2, <2>2, <4>6
        <5>2. /\ \A e \in Since(S) : u.low <= e.score
              /\ \E e \in Since(S) : e.score = u.low
          BY <4>2, <5>1 DEF ScoresFit
        <5> QED BY <4>4, <5>1, <5>2
      <4> QED BY <4>5, <4>6
    <3> QED BY <3>1, <3>2
  <2> QED BY <2>6, <2>7, <2>8 DEF ScoresFit, u
<1> QED BY <1>3, <1>4

\* The last submission to a perf target that is perfect is the best.
LEMMA LastFollows ==
  ASSUME NEW stat, NEW S, NEW d, Newest(d, S), d \notin S,
         StatTypeOK(stat, "perf"), DescribedAs("perf", S \cup {d}), LastFits(stat, S)
  PROVE  LastFits(UpdateStat(stat, d), S \cup {d})
<1> DEFINE n == Noticed(stat, d)  u == UpdateStat(stat, d)
<1>1. /\ DOMAIN n = StatField /\ n.type = "perf" /\ n.best = stat.best /\ n.bestPerf = 0
  BY NoticedIs DEF StatTypeOK, StatField
<1>2. /\ d.perf = 0 /\ d.id \in Nat
      /\ \A e \in Valid(S) : e.id \in Nat /\ e.id < d.id
  BY DEF DescribedAs, Valid, Newest
<1>3. CASE ~ValidResult(d)
  <2>1. u.best = stat.best
    BY <1>1, <1>3 DEF UpdateStat
  <2> HIDE DEF u
  <2> QED BY <1>3, <2>1, OneMoreValid DEF LastFits, u
<1>4. CASE ValidResult(d)
  <2>1. u = CountPerf(n, d)
    BY <1>4, "asst" # "perf", Zenon DEF UpdateStat, StatTypeOK
  <2>2. u.best = d.id
    <3> HIDE DEF n, u
    <3> QED BY <1>1, <1>2, <2>1, PerfCountedIs
  <2>3. Valid(S \cup {d}) = Valid(S) \cup {d}
    BY <1>4, OneMoreValid
  <2> HIDE DEF u
  <2>4. \A e \in Valid(S \cup {d}) : e.id <= u.best
    <3>1. \A e \in Valid(S) : e.id <= d.id
      BY <1>2
    <3>2. d.id <= d.id
      BY <1>2
    <3> QED BY <2>2, <2>3, <3>1, <3>2
  <2> QED BY <2>2, <2>3, <2>4 DEF LastFits, u
<1> QED BY <1>3, <1>4

\* Whatever is counted next, the statistic fits what has been counted.
LEMMA StatFollows ==
  ASSUME NEW stat, NEW ty \in Types, NEW S, NEW d, Newest(d, S), DescribedAs(ty, {d}),
         StatFits(stat, ty, S), S = {} => stat.version = d.version /\ stat.max = d.points
  PROVE  StatFits(UpdateStat(stat, d), ty, S \cup {d})
<1>1. d \notin S
  BY DEF Newest, StatFits, DescribedAs
<1>2. DescribedAs(ty, S \cup {d}) /\ IsFiniteSet(S \cup {d})
  BY FS_AddElement DEF StatFits, DescribedAs
<1>3. /\ CountsFit(UpdateStat(stat, d), S \cup {d})
      /\ StatTypeOK(UpdateStat(stat, d), ty)
  BY <1>1, <1>2, CountsFollow DEF StatFits
<1>4. ty = "asst" => ScoresFit(UpdateStat(stat, d), S \cup {d})
  BY <1>1, <1>2, ScoresFollow DEF StatFits
<1>5. ty = "perf" => LastFits(UpdateStat(stat, d), S \cup {d})
  BY <1>1, <1>2, LastFollows DEF StatFits
<1> QED BY <1>2, <1>3, <1>4, <1>5 DEF StatFits

\* The entry for a target the student is new to.
LEMMA NewStatFits ==
  ASSUME NEW ty \in Types, NEW d, DescribedAs(ty, {d})
  PROVE  /\ StatFits(NewStat(d), ty, {})
         /\ NewStat(d).version = d.version /\ NewStat(d).max = d.points
<1> DEFINE s == NewStat(d)
<1>1. /\ DOMAIN s = StatField /\ s.type = ty /\ s.version = d.version /\ s.max = d.points
      /\ s.total = 0 /\ s.complete = 0 /\ s.sum = 0 /\ s.best = NoSubmission
      /\ s.high = 0 /\ s.low = 0 /\ s.bestPerf = 0 /\ d.version \in Nat
  BY DEF NewStat, StatField, DescribedAs
<1> HIDE DEF s
<1>2. Valid({}) = {} /\ Since({}) = {} /\ Cardinality({}) = 0 /\ IsFiniteSet({})
  BY FS_EmptySet DEF Valid, Since
<1>3. SumFunction(Values({})) = 0
  <2>1. DOMAIN Values({}) = {}
    BY DEF Values
  <2> QED BY <2>1, SumOfNone DEF SumFunction
<1>4. StatTypeOK(s, ty) /\ DescribedAs(ty, {}) /\ CountsFit(s, {})
  BY <1>1, <1>2, <1>3 DEF StatTypeOK, DescribedAs, CountsFit
<1>5. ScoresFit(s, {}) /\ LastFits(s, {})
  BY <1>1, <1>2 DEF ScoresFit, LastFits
<1> QED BY <1>1, <1>2, <1>4, <1>5 DEF StatFits, s
-----------------------------------------------------------------------------
(* The record of the students. *)

\* What finished of the submission that runs, and what is counted of a target.
Done(s) == pc \in Returning /\ s \in Made /\ ~OnStack(s)
Counted ==
  [splits |-> splits, version |-> version,
   saved |-> [s \in Sub |-> IF Done(s) THEN saved[s] ELSE Unsaved]]
CountedOf(tg) == Recorded(Append(past, Counted), tg)

PartOf(q, s) == s = Meta \/ s \in Range(q)
Result == [status : Statuses \cup {"absent"}, score : Nat]
Stored == [splits : Seq(SubTarget), version : Version, saved : [Sub -> Result]]

\* The submissions before: each has only its parts, and none is of a later version.
PastState ==
  /\ past \in Seq(Stored)
  /\ pc = "returned" => deferred = <<>>
  /\ Made # {} => version \in Version /\ Meta \in Made
  /\ Made = {} => past = <<>>
  /\ \A s \in Made : PartOf(splits, s)
  /\ \A i \in 1..Len(past) :
       /\ past[i].version <= version
       /\ \A s \in Sub : past[i].saved[s] # Unsaved => PartOf(past[i].splits, s)

TypeAt(tg) == TypeOf[IF tg = Plain THEN Plain ELSE Meta]

\* At any time the record is that of what finished.
StatsState ==
  /\ student.total = Len(past) + (IF Done(Meta) THEN 1 ELSE 0)
  /\ DOMAIN student.stats = {tg \in Sub \cup {Plain} : CountedOf(tg) # {}}
  /\ \A tg \in DOMAIN student.stats : StatFits(student.stats[tg], TypeAt(tg), CountedOf(tg))

\* What is in the database has a status.
LEMMA MadeMeans ==
  ASSUME Pending, NEW s \in Sub
  PROVE  s \in Made <=> saved[s].status # "absent"
BY DEF Pending, Made, Final, Terminal, Unsaved

\* A submission stays in the database, and Meta is the first to come there.
LEMMA MadeGrows ==
  ASSUME RunInv, RunInv', Step
  PROVE  /\ Made \subseteq Made'
         /\ \/ Made' = Made
            \/ pc = "splitting" /\ \E s \in Range(splits) : Made' = Made \cup {s}
<1> USE DEF record
<1>0. /\ Pending /\ Pending' /\ Meta \in Sub /\ saved \in [Sub -> Result]
      /\ Range(splits) \subseteq Sub
  <2>1. RunTypeOK /\ Pending /\ Pending'
    BY DEF RunInv
  <2>2. Meta \in Sub /\ saved \in [Sub -> Result]
    BY <2>1 DEF RunTypeOK, Sub, Result
  <2>3. Range(splits) \subseteq Sub
    BY <2>1 DEF RunTypeOK, Sub, Range
  <2> QED BY <2>1, <2>2, <2>3
<1>1. /\ \A s \in Sub : s \in Made <=> saved[s].status # "absent"
      /\ \A s \in Sub : s \in Made' <=> saved'[s].status # "absent"
      /\ Made \subseteq Sub /\ Made' \subseteq Sub
  <2>1. (\A s \in Sub : s \in Made <=> saved[s].status # "absent")'
    BY <1>0 DEF Pending, Made, Final, Terminal, Unsaved
  <2> QED BY <1>0, <2>1, MadeMeans DEF Made
<1>2. CASE UNCHANGED saved
  BY <1>2 DEF Made
<1>3. CASE StartBuild \/ BuildFails \/ StartTests
  <2>1. Made = {Meta}
    BY <1>3, OnlyMeta DEF RunInv, StartBuild, BuildFails, StartTests, Early
  <2>2. /\ \A s \in Sub \ {Meta} : saved'[s] = saved[s]
        /\ saved'[Meta].status # "absent"
    BY <1>0, <1>3 DEF StartBuild, BuildFails, StartTests, Result
  <2> QED BY <1>0, <1>1, <2>1, <2>2
<1>4. CASE Split /\ ~UNCHANGED saved
  <2>1. PICK s \in Range(splits) :
          /\ saved' = [saved EXCEPT ![s] = [status |-> status[Meta], score |-> 0]]
          /\ status[Meta] = "running"
    <3>1. Len(deferred) - 2 # Len(splits) /\ pc = "splitting"
      BY <1>4 DEF Split
    <3>2. Len(deferred) - 2 + 1 \in DOMAIN splits
      BY <3>1 DEF RunInv, RunTypeOK, StackShape
    <3>3. splits[Len(deferred) - 2 + 1] \in Range(splits)
      BY <3>2 DEF Range
    <3> QED BY <1>4, <3>1, <3>3 DEF Split, RunInv, NothingYet
  <2>2. /\ \A x \in Sub \ {s} : saved'[x] = saved[x]
        /\ saved'[s].status # "absent" /\ s \in Sub
    BY <1>0, <2>1
  <2> QED BY <1>1, <1>4, <2>2 DEF Split
<1>5. ASSUME NEW t \in Test, Receive(t)
      PROVE  \A s \in Sub : saved'[s].status = saved[s].status
  BY <1>0, <1>5 DEF Receive, Abort, AddScore, Result
<1>6. ASSUME NEW s \in Sub, Finish(s)
      PROVE  Made' = Made
  <2>1. OnStack(s) /\ status' \in [Sub -> Statuses]
    BY <1>6 DEF Finish, OnStack, RunInv, RunTypeOK
  <2>2. s \in Made
    BY <1>0, <1>1, <2>1 DEF Pending
  <2>3. /\ \A x \in Sub \ {s} : saved'[x] = saved[x]
        /\ saved'[s].status # "absent"
    BY <1>0, <1>6, <2>1 DEF Finish, Statuses
  <2> QED BY <1>1, <2>2, <2>3
<1>7. ASSUME NEW t \in Test, CreateTest(t) PROVE UNCHANGED saved
  BY <1>7 DEF CreateTest
<1>8. BuildSucceeds \/ CreateFails \/ ResultsClosed \/ UnlockStudents \/ Return => UNCHANGED saved
  BY DEF BuildSucceeds, CreateFails, ResultsClosed, UnlockStudents, Return
<1>9. CASE \E t \in Test : Receive(t)
  BY <1>1, <1>5, <1>9
<1> QED BY <1>2, <1>3, <1>4, <1>6, <1>7, <1>8, <1>9 DEF Step

\* What is past stays as it was stored, and keeps to its parts.
LEMMA PastStep ==
  ASSUME RunInv, RunInv', PastState, [Next]_vars
  PROVE  PastState'
<1> USE DEF record
<1>0. Meta \in Sub /\ Unsaved.status = "absent"
  BY DEF Sub, Unsaved
<1>1. CASE NewSubmission
  <2>1. PICK l \in SplitLists, v \in Version :
               v >= version /\ Submitted(l, v, <<"unlockStudents", Meta>>)
    BY <1>1 DEF NewSubmission
  <2>2. /\ splits' = l /\ version' = v /\ pc' = "entry"
        /\ \A s \in Sub : saved'[s] = IF s = Meta THEN [status |-> "submitted", score |-> 0]
                                      ELSE Unsaved
    BY <2>1 DEF Submitted
  <2>3. Made' = {Meta}
    BY <1>0, <2>2 DEF Made, Unsaved
  <2>4. CASE Made = {}
    <3>1. past' = past /\ past = <<>>
      BY <1>1, <2>4 DEF NewSubmission, PastState
    <3> QED BY <2>1, <2>2, <2>3, <3>1 DEF PastState, PartOf
  <2>5. CASE Made # {}
    <3>1. past' = Append(past, Submission)
      BY <1>1, <2>5 DEF NewSubmission
    <3>2. version \in Version /\ \A s \in Made : PartOf(splits, s)
      BY <2>5 DEF PastState
    <3>3. Submission \in Stored
      BY <3>2 DEF Submission, Stored, RunInv, RunTypeOK, Result
    <3>4. /\ past' \in Seq(Stored) /\ Len(past') = Len(past) + 1 /\ Len(past) \in Nat
          /\ \A i \in 1..Len(past) : past'[i] = past[i]
          /\ past'[Len(past) + 1] = Submission
      BY <3>1, <3>3 DEF PastState
    <3>5. version <= v /\ version \in Nat /\ v \in Nat
      BY <2>1, <3>2, RunAssumption
    <3>6. ASSUME NEW i \in 1..Len(past')
          PROVE  /\ past'[i].version <= v
                 /\ \A s \in Sub : past'[i].saved[s] # Unsaved => PartOf(past'[i].splits, s)
      <4>1. CASE i = Len(past) + 1
        <5>1. past'[i] = Submission
          BY <3>4, <4>1
        <5> QED BY <3>2, <3>5, <5>1 DEF Submission, Made
      <4>2. CASE i # Len(past) + 1
        <5>1. i \in 1..Len(past) /\ past'[i] = past[i]
          BY <3>4, <4>2
        <5>2. past[i].version <= version /\ past[i].version \in Nat
          <6>1. past[i] \in Stored
            BY <5>1 DEF PastState
          <6>2. past[i].version \in Version
            BY <6>1 DEF Stored
          <6> QED BY <5>1, <6>2, RunAssumption DEF PastState
        <5> QED BY <3>5, <5>1, <5>2 DEF PastState
      <4> QED BY <4>1, <4>2
    <3> QED BY <2>2, <2>3, <3>4, <3>6 DEF PastState, PartOf
  <2> QED BY <2>4, <2>5
<1>2. ASSUME Step \/ UNCHANGED vars
      PROVE  PastState'
  <2>1. past' = past /\ version' = version /\ splits' = splits
    BY <1>2 DEF Step, StartBuild, BuildFails, BuildSucceeds, CreateFails, StartTests, Split,
               CreateTest, Receive, ResultsClosed, Finish, UnlockStudents, Return, vars
  <2>2. pc' = "returned" => deferred' = <<>>
    BY <1>2 DEF Step, StartBuild, BuildFails, BuildSucceeds, CreateFails, StartTests, Split,
               CreateTest, Receive, ResultsClosed, Finish, UnlockStudents, Return, vars, PastState
  <2>3. /\ Made \subseteq Made' /\ (Made' = {} => Made = {})
        /\ Made # {} => version \in Version /\ Meta \in Made
        /\ Made' # {} => Made # {}
        /\ \A s \in Made' : PartOf(splits, s)
    <3>1. CASE UNCHANGED vars
      BY <3>1 DEF vars, Made, PastState
    <3>2. CASE Step
      <4>1. pc = "splitting" => Made # {}
        <5>1. pc = "splitting" => Len(deferred) >= 2 /\ pc \notin Returning
          BY DEF RunInv, StackShape, Returning
        <5>2. pc = "splitting" => OnStack(Meta)
          BY <5>1, WhoIsOnStack DEF RunInv
        <5> QED BY <1>0, <5>2, MadeMeans DEF RunInv, Pending
      <4> QED BY <3>2, <4>1, MadeGrows DEF PastState, PartOf
    <3> QED BY <1>2, <3>1, <3>2
  <2> QED BY <2>1, <2>2, <2>3 DEF PastState, PartOf
<1> QED BY <1>1, <1>2 DEF Next
-----------------------------------------------------------------------------
(* What is recorded of a target. *)

IsRecorded(d, q, tg) ==
  \E n \in DOMAIN q : \E s \in Sub :
    /\ q[n].saved[s] # Unsaved /\ Target(q[n].splits, s) = tg
    /\ d = Described(n, q[n].splits, q[n].version, s, q[n].saved[s])

LEMMA RecordedMeans ==
  \A d, q, tg : d \in Recorded(q, tg) <=> IsRecorded(d, q, tg)
BY DEF Recorded, IsRecorded

LEMMA AppendProps ==
  ASSUME NEW S, NEW q \in Seq(S), NEW e
  PROVE  LET a == Append(q, e) IN
         /\ Len(q) \in Nat /\ DOMAIN q = 1..Len(q)
         /\ DOMAIN a = 1..(Len(q) + 1)
         /\ \A i \in 1..Len(q) : a[i] = q[i]
         /\ a[Len(q) + 1] = e
<1>1. q \in Seq(S \cup {e})
  <2>1. Len(q) \in Nat /\ q \in [1..Len(q) -> S \cup {e}]
    BY SeqDef
  <2> QED BY <2>1, SeqDef
<1> QED BY <1>1, AppendProperties

\* A submission of which nothing is in the database adds nothing.
LEMMA NothingRecorded ==
  ASSUME NEW S, NEW q \in Seq(S), NEW e, \A s \in Sub : e.saved[s] = Unsaved, NEW tg
  PROVE  Recorded(Append(q, e), tg) = Recorded(q, tg)
<1> DEFINE a == Append(q, e)
<1>1. /\ Len(q) \in Nat /\ DOMAIN q = 1..Len(q) /\ DOMAIN a = 1..(Len(q) + 1)
      /\ \A i \in 1..Len(q) : a[i] = q[i]
      /\ a[Len(q) + 1] = e
  BY AppendProps
<1> HIDE DEF a
<1>2. \A n \in DOMAIN a : n \in DOMAIN q \/ n = Len(q) + 1
  BY <1>1
<1>3. ASSUME NEW d PROVE IsRecorded(d, a, tg) <=> IsRecorded(d, q, tg)
  <2>1. ASSUME IsRecorded(d, a, tg) PROVE IsRecorded(d, q, tg)
    <3>1. PICK n \in DOMAIN a, s \in Sub :
            /\ a[n].saved[s] # Unsaved /\ Target(a[n].splits, s) = tg
            /\ d = Described(n, a[n].splits, a[n].version, s, a[n].saved[s])
      BY <2>1 DEF IsRecorded
    <3>2. n \in DOMAIN q /\ a[n] = q[n]
      BY <1>1, <1>2, <3>1
    <3> QED BY <3>1, <3>2 DEF IsRecorded
  <2>2. ASSUME IsRecorded(d, q, tg) PROVE IsRecorded(d, a, tg)
    <3>1. PICK n \in DOMAIN q, s \in Sub :
            /\ q[n].saved[s] # Unsaved /\ Target(q[n].splits, s) = tg
            /\ d = Described(n, q[n].splits, q[n].version, s, q[n].saved[s])
      BY <2>2 DEF IsRecorded
    <3>2. n \in DOMAIN a /\ a[n] = q[n]
      BY <1>1
    <3> QED BY <3>1, <3>2 DEF IsRecorded
  <2> QED BY <2>1, <2>2
<1> QED BY <1>3, RecordedMeans DEF a

\* A part that finishes adds itself, to its target.
LEMMA PartRecorded ==
  ASSUME NEW S, NEW q \in Seq(S), NEW e, NEW e1, NEW s \in Sub, NEW tg,
         e.saved[s] = Unsaved, e1.saved[s] # Unsaved,
         \A x \in Sub \ {s} : e1.saved[x] = e.saved[x],
         e1.splits = e.splits, e1.version = e.version
  PROVE  Recorded(Append(q, e1), tg)
           = Recorded(Append(q, e), tg) \cup
               {d \in {Described(Len(q) + 1, e.splits, e.version, s, e1.saved[s])} :
                  Target(e.splits, s) = tg}
<1> DEFINE a == Append(q, e)  b == Append(q, e1)
           new == Described(Len(q) + 1, e.splits, e.version, s, e1.saved[s])
<1>1. /\ Len(q) \in Nat /\ DOMAIN a = 1..(Len(q) + 1) /\ DOMAIN b = 1..(Len(q) + 1)
      /\ \A i \in 1..Len(q) : a[i] = q[i] /\ b[i] = q[i]
      /\ a[Len(q) + 1] = e /\ b[Len(q) + 1] = e1
  BY AppendProps
<1> HIDE DEF a, b
<1>2. \A n \in DOMAIN a : (n \in 1..Len(q) /\ a[n] = b[n]) \/ n = Len(q) + 1
  BY <1>1
<1>3. Len(q) + 1 \in DOMAIN a /\ DOMAIN a = DOMAIN b
  BY <1>1
<1> DEFINE Has(c, n, x) == c[n].saved[x] # Unsaved /\ Target(c[n].splits, x) = tg
           Desc(c, n, x) == Described(n, c[n].splits, c[n].version, x, c[n].saved[x])
<1>4. \A n \in DOMAIN a : \A x \in Sub :
        n # Len(q) + 1 \/ x # s => Has(a, n, x) = Has(b, n, x) /\ Desc(a, n, x) = Desc(b, n, x)
  <2>1. ASSUME NEW n \in DOMAIN a, NEW x \in Sub, n # Len(q) + 1
        PROVE  a[n] = b[n]
    BY <1>2, <2>1
  <2>2. ASSUME NEW n \in DOMAIN a, NEW x \in Sub, n = Len(q) + 1, x # s
        PROVE  a[n].saved[x] = b[n].saved[x] /\ a[n].splits = b[n].splits
               /\ a[n].version = b[n].version
    BY <1>1, <2>2
  <2> QED BY <2>1, <2>2
<1>5. /\ ~Has(a, Len(q) + 1, s)
      /\ Has(b, Len(q) + 1, s) <=> Target(e.splits, s) = tg
      /\ Desc(b, Len(q) + 1, s) = new
  BY <1>1
<1>6. \A d : d \in Recorded(a, tg) <=>
        \E n \in DOMAIN a : \E x \in Sub : Has(a, n, x) /\ d = Desc(a, n, x)
  BY RecordedMeans DEF IsRecorded
<1>7. \A d : d \in Recorded(b, tg) <=>
        \E n \in DOMAIN b : \E x \in Sub : Has(b, n, x) /\ d = Desc(b, n, x)
  BY RecordedMeans DEF IsRecorded
<1> HIDE DEF Has, Desc, new
<1>8. ASSUME NEW d
      PROVE  d \in Recorded(b, tg) <=>
               d \in Recorded(a, tg) \/ (d = new /\ Target(e.splits, s) = tg)
  <2>1. ASSUME d \in Recorded(b, tg)
        PROVE  d \in Recorded(a, tg) \/ (d = new /\ Target(e.splits, s) = tg)
    <3>1. PICK n \in DOMAIN b, x \in Sub : Has(b, n, x) /\ d = Desc(b, n, x)
      BY <1>7, <2>1
    <3>2. CASE n = Len(q) + 1 /\ x = s
      BY <1>5, <3>1, <3>2
    <3>3. CASE ~(n = Len(q) + 1 /\ x = s)
      BY <1>3, <1>4, <1>6, <3>1, <3>3
    <3> QED BY <3>2, <3>3
  <2>2. ASSUME d \in Recorded(a, tg) PROVE d \in Recorded(b, tg)
    <3>1. PICK n \in DOMAIN a, x \in Sub : Has(a, n, x) /\ d = Desc(a, n, x)
      BY <1>6, <2>2
    <3>2. ~(n = Len(q) + 1 /\ x = s)
      BY <1>5, <3>1
    <3> QED BY <1>3, <1>4, <1>7, <3>1, <3>2
  <2>3. Target(e.splits, s) = tg => new \in Recorded(b, tg)
    BY <1>3, <1>5, <1>7
  <2> QED BY <2>1, <2>2, <2>3
<1> QED BY <1>8 DEF a, b, new
-----------------------------------------------------------------------------
(* The record follows. *)

\* Nothing is counted before the deferred calls, and nothing but a finish
\* changes what is.
LEMMA CountedSame ==
  ASSUME RunInv, RunInv', PastState, [Next]_vars, ~NewSubmission,
         \A s \in Sub : ~Finish(s)
  PROVE  Counted' = Counted /\ (Done(Meta)' <=> Done(Meta))
<1> USE DEF record
<1>0. Meta \in Sub
  BY DEF Sub
<1>1. version' = version /\ splits' = splits
  BY DEF Next, Step, StartBuild, BuildFails, BuildSucceeds, CreateFails, StartTests, Split,
         CreateTest, Receive, ResultsClosed, UnlockStudents, Return, vars
<1>2. CASE UNCHANGED <<pc, saved, deferred>>
  BY <1>1, <1>2 DEF Counted, Done, Made, OnStack
<1>3. CASE pc \notin Returning /\ pc' \notin Returning
  BY <1>1, <1>3 DEF Counted, Done
<1>4. CASE BuildFails \/ CreateFails \/ ResultsClosed
  <2>1. pc \notin Returning /\ deferred' = deferred
    BY <1>4 DEF BuildFails, CreateFails, ResultsClosed, Returning
  <2>2. \A s \in Made : OnStack(s)
    BY <2>1 DEF RunInv, Pending
  <2>3. Made' = Made
    <3>1. pc # "splitting" /\ Step
      BY <1>4 DEF BuildFails, CreateFails, ResultsClosed, Step
    <3> QED BY <3>1, MadeGrows
  <2>4. \A s \in Sub : ~Done(s) /\ ~Done(s)'
    BY <2>1, <2>2, <2>3 DEF Done, OnStack
  <2> QED BY <1>0, <1>1, <2>4 DEF Counted
<1>5. CASE UnlockStudents
  <2>1. saved' = saved /\ pc' = pc /\ deferred' = Front(deferred) /\ deferred # <<>>
        /\ deferred[Len(deferred)] = "unlockStudents"
    BY <1>5 DEF UnlockStudents
  <2>2. Len(deferred) > 0
    BY <2>1, EmptySeq DEF RunInv, RunTypeOK
  <2>3. \A s \in Sub : OnStack(s)' <=> OnStack(s)
    BY <2>1, <2>2, PopStack, RunAssumption DEF RunInv
  <2>4. \A s \in Sub : Done(s)' <=> Done(s)
    BY <2>1, <2>3 DEF Done, Made
  <2> QED BY <1>0, <1>1, <2>1, <2>4 DEF Counted
<1>6. CASE Return
  <2>1. \A s \in Sub : Done(s)' <=> Done(s)
    BY <1>6 DEF Return, Done, Made, OnStack, Returning
  <2> QED BY <1>0, <1>1, <1>6, <2>1 DEF Counted, Return
<1>7. StartBuild \/ BuildSucceeds \/ StartTests \/ Split
      \/ (\E t \in Test : CreateTest(t) \/ Receive(t))
        => pc \notin Returning /\ pc' \notin Returning
  BY DEF StartBuild, BuildSucceeds, StartTests, Split, CreateTest, Receive, Returning
<1>8. UNCHANGED vars => UNCHANGED <<pc, saved, deferred>>
  BY DEF vars
<1> QED BY <1>2, <1>3, <1>4, <1>5, <1>6, <1>7, <1>8 DEF Next, Step

\* When all has returned, everything is counted.
LEMMA AllCounted ==
  ASSUME RunInv, deferred = <<>>, pc \in Returning
  PROVE  Counted = Submission /\ \A s \in Sub : Done(s) <=> s \in Made
<1>1. \A s : ~OnStack(s)
  BY DEF OnStack
<1>2. \A s \in Sub : Done(s) <=> s \in Made
  BY <1>1 DEF Done
<1>3. \A s \in Sub : saved[s] = IF Done(s) THEN saved[s] ELSE Unsaved
  BY <1>2 DEF Made
<1>4. saved = [s \in Sub |-> IF Done(s) THEN saved[s] ELSE Unsaved]
  BY <1>3 DEF RunInv, RunTypeOK
<1> QED BY <1>2, <1>4 DEF Counted, Submission

\* The next submission: what was counted is in the past.
LEMMA CountedNext ==
  ASSUME RunInv, PastState, NewSubmission
  PROVE  /\ \A tg : CountedOf(tg)' = CountedOf(tg)
         /\ Len(past') + (IF Done(Meta)' THEN 1 ELSE 0) = Len(past) + (IF Done(Meta) THEN 1 ELSE 0)
<1>0. Meta \in Sub /\ past \in Seq(Stored) /\ Len(past) \in Nat
  BY DEF Sub, PastState
<1>1. pc' = "entry" /\ pc = "returned" /\ deferred = <<>>
  BY DEF NewSubmission, Submitted, PastState
<1>2. \A s : Done(s)' <=> FALSE
  BY <1>1 DEF Done, Returning
<1>3. \A s \in Sub : Counted'.saved[s] = Unsaved
  BY <1>2 DEF Counted
<1>4. Counted = Submission /\ \A s \in Sub : Done(s) <=> s \in Made
  BY <1>1, AllCounted DEF Returning
<1>5. CASE Made = {}
  <2>1. past' = past
    BY <1>5 DEF NewSubmission
  <2>2. \A s \in Sub : Counted.saved[s] = Unsaved
    BY <1>4, <1>5 DEF Counted
  <2>3. \A tg : /\ Recorded(Append(past, Counted'), tg) = Recorded(past, tg)
                /\ Recorded(Append(past, Counted), tg) = Recorded(past, tg)
    BY <1>0, <1>3, <2>2, NothingRecorded
  <2> QED BY <1>0, <1>2, <1>4, <1>5, <2>1, <2>3 DEF CountedOf
<1>6. CASE Made # {}
  <2>1. past' = Append(past, Submission) /\ Meta \in Made
    BY <1>6 DEF NewSubmission, PastState
  <2>2. past' \in Seq(Stored \cup {Submission}) /\ Len(past') = Len(past) + 1
    <3>1. past \in Seq(Stored \cup {Submission})
      <4>1. past \in [1..Len(past) -> Stored \cup {Submission}]
        BY <1>0, SeqDef
      <4> QED BY <1>0, <4>1, SeqDef
    <3> QED BY <2>1, <3>1
  <2>3. \A tg : Recorded(Append(past', Counted'), tg) = Recorded(past', tg)
    BY <1>3, <2>2, NothingRecorded
  <2> QED BY <1>0, <1>2, <1>4, <2>1, <2>2, <2>3 DEF CountedOf
<1> QED BY <1>5, <1>6

\* A submission that finishes is newer than what was counted of its target.
LEMMA FinishIsNewest ==
  ASSUME RunInv, PastState, NEW s \in Sub, Finish(s)
  PROVE  LET tg == Target(splits, s)
             d == Described(Len(past) + 1, splits, version, s, saved'[s])
         IN /\ tg \in Sub \cup {Plain} /\ TypeAt(tg) \in Types
            /\ DescribedAs(TypeAt(tg), {d})
            /\ Newest(d, CountedOf(tg))
            /\ d.target = tg /\ (d.original <=> s = Meta)
<1> DEFINE tg == Target(splits, s)
           d == Described(Len(past) + 1, splits, version, s, saved'[s])
<1>0. /\ Meta \in Sub /\ Plain \notin Sub /\ past \in Seq(Stored) /\ Len(past) \in Nat
      /\ splits \in Seq(SubTarget)
  BY RunAssumption DEF Sub, PastState, RunInv, RunTypeOK
<1>1. OnStack(s) /\ status' \in [Sub -> Statuses] /\ score[s] \in Nat
  <2>1. Len(deferred) \in 1..Len(deferred)
    BY EmptySeq DEF Finish, RunInv, RunTypeOK
  <2> QED BY <2>1 DEF Finish, OnStack, RunInv, RunTypeOK, Statuses
<1>2. s \in Made /\ PartOf(splits, s) /\ version \in Version /\ ~Done(s)
  BY <1>1, MadeMeans DEF RunInv, Pending, PastState, Done
<1>3. saved'[s].score \in Nat
  BY <1>1 DEF Finish, RunInv, RunTypeOK
<1>4. /\ splits = <<>> => s = Meta /\ tg = Plain
      /\ splits # <<>> => tg = s
  BY <1>2 DEF PartOf, Range, Target
<1>5. tg \in Sub \cup {Plain} /\ (tg = Plain <=> splits = <<>>)
  BY <1>0, <1>4
<1>6. TypeAt(tg) = TypeOf[IF splits = <<>> THEN Plain ELSE Meta] /\ TypeAt(tg) \in Types
  BY <1>5, RunAssumption DEF TypeAt, Types
<1>7. version \in Nat
  BY <1>2, RunAssumption
<1>8. /\ d.type = TypeAt(tg) /\ d.id = Len(past) + 1 /\ d.version = version
      /\ d.score = saved'[s].score /\ d.perf = 0 /\ d.target = tg /\ (d.original <=> s = Meta)
  BY <1>6 DEF Described
<1> HIDE DEF d
<1>9. DescribedAs(TypeAt(tg), {d})
  BY <1>0, <1>3, <1>7, <1>8 DEF DescribedAs
<1> HIDE DEF tg
<1>10. ASSUME NEW e \in CountedOf(tg)
       PROVE  e.id < d.id /\ e.version <= d.version
  <2> DEFINE q == Append(past, Counted)
  <2>1. PICK n \in DOMAIN q, x \in Sub :
          /\ q[n].saved[x] # Unsaved /\ Target(q[n].splits, x) = tg
          /\ e = Described(n, q[n].splits, q[n].version, x, q[n].saved[x])
    <3>1. IsRecorded(e, q, tg)
      BY <1>10, RecordedMeans, Zenon DEF CountedOf
    <3> QED BY <3>1, Zenon DEF IsRecorded
  <2>2. /\ DOMAIN q = 1..(Len(past) + 1)
        /\ \A i \in 1..Len(past) : q[i] = past[i]
        /\ q[Len(past) + 1] = Counted
    BY <1>0, AppendProps
  <2> HIDE DEF q
  <2>3. e.id = n /\ e.version = q[n].version
    BY <2>1 DEF Described
  <2>4. n # Len(past) + 1
    <3> SUFFICES ASSUME n = Len(past) + 1 PROVE FALSE  OBVIOUS
    <3>1. Counted.saved[x] # Unsaved /\ Target(splits, x) = tg
      BY <2>1, <2>2 DEF Counted
    <3>2. Done(x)
      BY <3>1 DEF Counted
    <3>3. PartOf(splits, x)
      BY <3>2 DEF Done, PastState
    <3>4. x = s
      BY <1>4, <3>1, <3>3 DEF PartOf, Range, Target, tg
    <3> QED BY <1>2, <3>2, <3>4
  <2>5. n \in 1..Len(past) /\ q[n] = past[n] /\ n \in DOMAIN past
    BY <1>0, <2>2, <2>4
  <2>6. e.version <= version
    BY <2>3, <2>5 DEF PastState
  <2> QED BY <1>0, <1>8, <2>3, <2>5, <2>6
<1>11. Newest(d, CountedOf(tg))
  BY <1>10 DEF Newest
<1> QED BY <1>5, <1>6, <1>8, <1>9, <1>11 DEF tg, d

\* A submission that finishes is counted for its target, and for no other.
LEMMA CountedFinish ==
  ASSUME RunInv, RunInv', PastState, NEW s \in Sub, Finish(s)
  PROVE  LET d == Described(Len(past) + 1, splits, version, s, saved'[s]) IN
         /\ \A tg : CountedOf(tg)' = CountedOf(tg) \cup {e \in {d} : Target(splits, s) = tg}
         /\ \A x \in Sub : Done(x)' <=> Done(x) \/ x = s
         /\ ~Done(s)
<1> USE DEF record
<1> DEFINE d == Described(Len(past) + 1, splits, version, s, saved'[s])
<1>0. past \in Seq(Stored)
  BY DEF PastState
<1>1. /\ pc = "returning" /\ pc' = pc /\ version' = version /\ splits' = splits /\ past' = past
      /\ deferred' = Front(deferred) /\ Len(deferred) > 0 /\ s = deferred[Len(deferred)]
      /\ saved' = [saved EXCEPT ![s] = [status |-> status'[s], score |-> score[s]]]
  BY EmptySeq DEF Finish, RunInv, RunTypeOK
<1>2. \A x : OnStack(x)' <=> OnStack(x) /\ x # s
  BY <1>1, PopStack DEF RunInv
<1>3. OnStack(s)
  <2>1. Len(deferred) \in 1..Len(deferred)
    BY <1>1 DEF RunInv, RunTypeOK
  <2> QED BY <1>1, <2>1 DEF OnStack
<1>4. /\ status' \in [Sub -> Statuses] /\ saved \in [Sub -> Result]
  BY DEF RunInv, RunTypeOK, Result
<1>5. saved'[s] # Unsaved
  BY <1>1, <1>4 DEF Unsaved, Statuses
<1>6. \A x \in Sub \ {s} : saved'[x] = saved[x]
  BY <1>1, <1>4
<1>7. \A x \in Sub : Done(x)' <=> Done(x) \/ x = s
  BY <1>1, <1>2, <1>5, <1>6 DEF Done, Made, Returning
<1>8. ~Done(s)
  BY <1>3 DEF Done
<1>9. /\ Counted.saved[s] = Unsaved /\ Counted'.saved[s] = saved'[s]
      /\ \A x \in Sub \ {s} : Counted'.saved[x] = Counted.saved[x]
      /\ Counted'.splits = Counted.splits /\ Counted'.version = Counted.version
      /\ Counted.splits = splits /\ Counted.version = version
  BY <1>1, <1>6, <1>7, <1>8 DEF Counted
<1> HIDE DEF d
<1>10. ASSUME NEW tg
       PROVE  Recorded(Append(past, Counted'), tg)
                = Recorded(Append(past, Counted), tg) \cup {e \in {d} : Target(splits, s) = tg}
  <2>1. Recorded(Append(past, Counted'), tg)
          = Recorded(Append(past, Counted), tg) \cup
              {e \in {Described(Len(past) + 1, Counted.splits, Counted.version, s,
                                Counted'.saved[s])} :
                 Target(Counted.splits, s) = tg}
    BY <1>0, <1>5, <1>9, PartRecorded
  <2> QED BY <1>9, <2>1 DEF d
<1> QED BY <1>1, <1>7, <1>8, <1>10 DEF CountedOf, d

\* When a submission finishes, the record of its target follows.
LEMMA FinishStats ==
  ASSUME RunInv, RunInv', PastState, StatsState, NEW s \in Sub, Finish(s),
         NEW tg, tg = Target(splits, s),
         NEW d, d = Described(Len(past) + 1, splits, version, s, saved'[s])
  PROVE  StatsState'
<1> USE DEF record
<1> DEFINE old == IF d.target \in DOMAIN student.stats THEN student.stats[d.target] ELSE NewStat(d)
<1>1. /\ tg \in Sub \cup {Plain} /\ TypeAt(tg) \in Types
      /\ DescribedAs(TypeAt(tg), {d}) /\ Newest(d, CountedOf(tg))
      /\ d.target = tg /\ (d.original <=> s = Meta)
  BY FinishIsNewest
<1>2. /\ \A x : CountedOf(x)' = CountedOf(x) \cup {e \in {d} : tg = x}
      /\ \A x \in Sub : Done(x)' <=> Done(x) \/ x = s
      /\ ~Done(s)
  BY CountedFinish
<1>3. past' = past /\ student' = UpdateStats(student, d)
  BY DEF Finish
<1>4. /\ student'.total = student.total + (IF d.original THEN 1 ELSE 0)
      /\ student'.stats = [x \in DOMAIN student.stats \cup {d.target} |->
           IF x = d.target THEN UpdateStat(old, d) ELSE student.stats[x]]
  BY <1>3 DEF UpdateStats
<1>5. student'.total = Len(past') + (IF Done(Meta)' THEN 1 ELSE 0)
  <2>1. Meta \in Sub /\ Len(past) \in Nat
    BY DEF Sub, PastState
  <2>2. CASE s = Meta
    BY <1>1, <1>2, <1>3, <1>4, <2>1, <2>2 DEF StatsState
  <2>3. CASE s # Meta
    <3>1. (IF d.original THEN 1 ELSE 0) = 0
      BY <1>1, <2>3, Zenon
    <3>2. Done(Meta)' <=> Done(Meta)
      BY <1>2, <2>1, <2>3
    <3>3. student.total = Len(past) + (IF Done(Meta) THEN 1 ELSE 0)
      BY DEF StatsState
    <3>4. student'.total = student.total
      <4>1. student.total \in Int
        BY <2>1, <3>3
      <4>2. student'.total = student.total + 0
        BY <1>4, <3>1, Zenon
      <4> QED BY <4>1, <4>2
    <3>5. Len(past') = Len(past)
      BY <1>3
    <3>6. (IF Done(Meta)' THEN 1 ELSE 0) = (IF Done(Meta) THEN 1 ELSE 0)
      BY <3>2, Zenon
    <3> QED BY <3>3, <3>4, <3>5, <3>6, Zenon
  <2> QED BY <2>2, <2>3
<1>6. DOMAIN student'.stats = {x \in Sub \cup {Plain} : CountedOf(x)' # {}}
  <2>1. DOMAIN student'.stats = DOMAIN student.stats \cup {tg}
    BY <1>1, <1>4
  <2>2. \A x \in Sub \cup {Plain} : CountedOf(x)' # {} <=> CountedOf(x) # {} \/ x = tg
    <3> SUFFICES ASSUME NEW x \in Sub \cup {Plain}
                 PROVE  CountedOf(x)' # {} <=> CountedOf(x) # {} \/ x = tg
      OBVIOUS
    <3>1. CountedOf(x)' = CountedOf(x) \cup {e \in {d} : tg = x}
      BY <1>2
    <3> QED BY <3>1
  <2> QED BY <1>1, <2>1, <2>2 DEF StatsState
<1>7. StatFits(UpdateStat(old, d), TypeAt(tg), CountedOf(tg)')
  <2>1. CountedOf(tg)' = CountedOf(tg) \cup {d}
    BY <1>2
  <2>2. StatFits(old, TypeAt(tg), CountedOf(tg))
        /\ (CountedOf(tg) = {} => old.version = d.version /\ old.max = d.points)
    <3>1. CASE tg \in DOMAIN student.stats
      BY <1>1, <3>1 DEF StatsState
    <3>2. CASE tg \notin DOMAIN student.stats
      <4>1. CountedOf(tg) = {} /\ old = NewStat(d)
        BY <1>1, <3>2 DEF StatsState
      <4> QED BY <1>1, <4>1, NewStatFits
    <3> QED BY <3>1, <3>2
  <2> HIDE DEF old
  <2> QED BY <1>1, <2>1, <2>2, StatFollows
<1> HIDE DEF old
<1>8. ASSUME NEW x \in DOMAIN student'.stats
      PROVE  StatFits(student'.stats[x], TypeAt(x), CountedOf(x)')
  <2>1. CASE x = tg
    <3>1. tg \in DOMAIN student.stats \cup {d.target}
      BY <1>1
    <3>2. student'.stats[tg] = UpdateStat(old, d)
      BY <1>1, <1>4, <3>1
    <3> QED BY <1>7, <2>1, <3>2
  <2>2. CASE x # tg
    <3>1. x \in DOMAIN student.stats /\ student'.stats[x] = student.stats[x]
      BY <1>1, <1>4, <1>8, <2>2
    <3>2. CountedOf(x)' = CountedOf(x)
      BY <1>2, <2>2
    <3> QED BY <3>1, <3>2 DEF StatsState
  <2> QED BY <2>1, <2>2
<1> QED BY <1>5, <1>6, <1>8 DEF StatsState, TypeAt

LEMMA StatsStep ==
  ASSUME RunInv, RunInv', PastState, StatsState, [Next]_vars
  PROVE  StatsState'
<1> USE DEF record
<1>1. CASE NewSubmission
  <2>1. student' = student
    BY <1>1 DEF NewSubmission
  <2> QED BY <1>1, <2>1, CountedNext DEF StatsState
<1>2. ASSUME NEW s \in Sub, Finish(s)
      PROVE  StatsState'
  BY <1>2, FinishStats
<1>3. CASE ~NewSubmission /\ \A s \in Sub : ~Finish(s)
  <2>1. Counted' = Counted /\ (Done(Meta)' <=> Done(Meta))
    BY <1>3, CountedSame
  <2>2. past' = past /\ student' = student
    BY <1>3 DEF Next, Step, StartBuild, BuildFails, BuildSucceeds, CreateFails, StartTests, Split,
           CreateTest, Receive, ResultsClosed, UnlockStudents, Return, vars
  <2> QED BY <2>1, <2>2 DEF StatsState, CountedOf
<1> QED BY <1>1, <1>2, <1>3

LEMMA StatsHold == Spec => [](RunInv /\ PastState /\ StatsState)
<1>1. Init => PastState /\ StatsState
  <2> SUFFICES ASSUME Init PROVE PastState /\ StatsState  OBVIOUS
  <2>1. /\ Made = {} /\ past = <<>> /\ deferred = <<>> /\ student = [total |-> 0, stats |-> <<>>]
        /\ Meta \in Sub
    BY DEF Init, Made, Sub
  <2>2. past \in Seq(Stored) /\ Len(past) = 0 /\ DOMAIN past = {}
    BY <2>1
  <2>3. PastState
    BY <2>1, <2>2 DEF PastState
  <2>4. \A s \in Sub : ~Done(s)
    BY <2>1 DEF Done
  <2>5. \A s \in Sub : Counted.saved[s] = Unsaved
    BY <2>4 DEF Counted
  <2>6. \A tg : CountedOf(tg) = {}
    <3>1. \A tg : Recorded(past, tg) = {}
      BY <2>2 DEF Recorded
    <3> QED BY <2>2, <2>5, <3>1, NothingRecorded DEF CountedOf
  <2>7. student.total = 0 /\ DOMAIN student.stats = {}
    BY <2>1
  <2> QED BY <2>1, <2>2, <2>3, <2>4, <2>6, <2>7 DEF StatsState
<1>2. RunInv /\ RunInv' /\ PastState /\ StatsState /\ [Next]_vars => PastState' /\ StatsState'
  BY PastStep, StatsStep
<1> QED BY <1>1, <1>2, RunInvHolds, PTL DEF Spec

\* The greatest and the least of some integers.
LEMMA MaxIs ==
  ASSUME NEW S \in SUBSET Int, NEW m \in S, \A x \in S : x <= m
  PROVE  Max(S) = m
<1>1. \A x \in S : (\A y \in S : x >= y) => x = m
  BY SMT
<1>2. \A y \in S : m >= y
  BY SMT
<1> QED BY <1>1, <1>2, Zenon DEF Max

LEMMA MinIs ==
  ASSUME NEW S \in SUBSET Int, NEW m \in S, \A x \in S : m <= x
  PROVE  Min(S) = m
<1>1. \A x \in S : (\A y \in S : x <= y) => x = m
  BY SMT
<1>2. \A y \in S : m <= y
  BY SMT
<1> QED BY <1>1, <1>2, Zenon DEF Min

\* While the students are unlocked, what is counted is what is in the database.
LEMMA UnlockedCount ==
  ASSUME RunInv, ~locked
  PROVE  /\ \A tg : CountedOf(tg) = InDatabase(tg)
         /\ \A s \in Sub : Done(s) <=> s \in Made
<1>1. Len(deferred) = 0 /\ Len(splits) \in Nat /\ Len(deferred) \in Nat
  BY DEF RunInv, StackShape, RunTypeOK
<1>2. pc \in Returning /\ deferred = <<>>
  BY <1>1, EmptySeq DEF RunInv, StackShape, RunTypeOK
<1> QED BY <1>2, AllCounted DEF CountedOf, InDatabase

\* The record of the students is what the submissions in the database give,
\* whatever finished, was aborted, or was made for a newer version.
THEOREM RecordMatchesDatabase == Spec => []StatsMatchDatabase
<1>1. RunInv /\ PastState /\ StatsState => StatsMatchDatabase
  <2> SUFFICES ASSUME RunInv, PastState, StatsState, ~locked PROVE StatsMatchDatabase
    BY DEF StatsMatchDatabase
  <2>1. (\A tg : CountedOf(tg) = InDatabase(tg)) /\ (\A s \in Sub : Done(s) <=> s \in Made)
    BY UnlockedCount
  <2>2. student.total = Len(past) + (IF Made = {} THEN 0 ELSE 1)
    <3>1. Meta \in Sub /\ (Made # {} => Meta \in Made)
      BY DEF Sub, PastState
    <3>2. Done(Meta) <=> Made # {}
      BY <2>1, <3>1
    <3>3. (IF Done(Meta) THEN 1 ELSE 0) = (IF Made = {} THEN 0 ELSE 1)
      BY <3>2, Zenon
    <3> QED BY <3>3, Zenon DEF StatsState
  <2>3. DOMAIN student.stats = {tg \in Sub \cup {Plain} : InDatabase(tg) # {}}
    BY <2>1 DEF StatsState
  <2>4. ASSUME NEW tg \in DOMAIN student.stats
        PROVE  LET subs == InDatabase(tg)  valid == {d \in subs : ValidResult(d)}
                   stat == student.stats[tg]  newest == Max({d.version : d \in subs})
               IN /\ stat.total = Cardinality(subs)
                  /\ stat.complete = Cardinality(valid)
                  /\ stat.sum = SumFunction([d \in valid |->
                                   IF d.type = "asst" THEN d.score ELSE d.perf])
                  /\ stat.version = newest
                  /\ \E d \in subs : d.version = newest /\ stat.max = d.points
    <3> DEFINE subs == InDatabase(tg)  stat == student.stats[tg]
    <3>1. StatFits(stat, TypeAt(tg), subs) /\ subs # {}
      BY <2>1, <2>3, <2>4 DEF StatsState
    <3> HIDE DEF subs, stat
    <3>2. /\ stat.total = Cardinality(subs)
          /\ stat.complete = Cardinality(Valid(subs))
          /\ stat.sum = SumFunction(Values(Valid(subs)))
          /\ \A d \in subs : d.version <= stat.version
          /\ \E d \in subs : d.version = stat.version /\ d.points = stat.max
      BY <3>1 DEF StatFits, CountsFit
    <3>3. Max({d.version : d \in subs}) = stat.version
      <4>1. \A d \in subs : d.version \in Int
        BY <3>1 DEF StatFits, DescribedAs
      <4> QED BY <3>2, <4>1, MaxIs
    <3>4. \E d \in subs : d.version = Max({e.version : e \in subs}) /\ stat.max = d.points
      BY <3>2, <3>3
    <3> QED BY <3>2, <3>3, <3>4 DEF Valid, Values, Value, subs, stat
  <2> QED BY <2>2, <2>3, <2>4 DEF StatsMatchDatabase
<1> QED BY <1>1, StatsHold, PTL

\* The best submission and the low score are those of the database too, for both
\* types of target and in every order of scores.
THEOREM BestIsFirst == Spec => []BestAndLow
<1>1. RunInv /\ PastState /\ StatsState => BestAndLow
  <2> SUFFICES ASSUME RunInv, PastState, StatsState, ~locked, NEW tg \in DOMAIN student.stats
               PROVE
    LET valid == {d \in InDatabase(tg) : ValidResult(d)}
        stat == student.stats[tg]
        high == Max({0} \cup {d.score : d \in valid})
        zeros == {d.id : d \in {e \in valid : e.score = 0}}
        since == {d \in valid : \A z \in zeros : d.id > z}
    IN IF stat.type = "asst"
       THEN /\ stat.high = high
            /\ stat.best = IF high = 0 THEN NoSubmission
                           ELSE Min({d.id : d \in {e \in valid : e.score = high}})
            /\ stat.low = IF since = {} THEN 0 ELSE Min({d.score : d \in since})
       ELSE stat.best = IF valid = {} THEN NoSubmission ELSE Max({d.id : d \in valid})
    BY DEF BestAndLow
  <2> DEFINE subs == InDatabase(tg)  stat == student.stats[tg]  valid == Valid(subs)
             high == Max({0} \cup {d.score : d \in valid})
             zeros == {d.id : d \in {e \in valid : e.score = 0}}
             since == {d \in valid : \A z \in zeros : d.id > z}
  <2>1. StatFits(stat, TypeAt(tg), subs)
    BY UnlockedCount DEF StatsState
  <2> HIDE DEF subs, stat
  <2>2. /\ \A d \in valid : d.id \in Nat /\ d.score \in Nat
        /\ stat.high \in Nat /\ stat.type = TypeAt(tg)
    BY <2>1 DEF StatFits, StatTypeOK, DescribedAs, Valid
  <2>3. stat.type \in {"asst", "perf"}
    <3>1. TypeAt(tg) \in {"asst", "perf"}
      BY RunAssumption DEF TypeAt
    <3> QED BY <2>2, <3>1
  <2>4. since = Since(subs)
    <3>1. \A d \in valid : (\A z \in zeros : d.id > z) <=> ~Zero(d, subs)
      <4> SUFFICES ASSUME NEW d \in valid
                   PROVE  (\A z \in zeros : d.id > z) <=> ~Zero(d, subs)
        OBVIOUS
      <4>1. Zero(d, subs) <=> \E z \in valid : z.score = 0 /\ z.id >= d.id
        BY DEF Zero
      <4> HIDE DEF valid
      <4>2. \A z \in valid : (z.id >= d.id) <=> ~(d.id > z.id)
        BY <2>2
      <4> QED BY <4>1, <4>2
    <3> HIDE DEF zeros
    <3> QED BY <3>1 DEF Since
  <2> HIDE DEF zeros, valid
  <2>5. CASE stat.type = "asst"
    <3>1. ScoresFit(stat, subs)
      BY <2>1, <2>2, <2>5 DEF StatFits
    <3>2. high = stat.high
      <4>1. stat.high \in {0} \cup {d.score : d \in valid}
        BY <3>1 DEF ScoresFit, valid
      <4>2. \A x \in {0} \cup {d.score : d \in valid} : x \in Int /\ x <= stat.high
        BY <2>2, <3>1 DEF ScoresFit, valid
      <4> QED BY <4>1, <4>2, MaxIs
    <3> HIDE DEF high
    <3>3. stat.best = IF high = 0 THEN NoSubmission
                      ELSE Min({d.id : d \in {e \in valid : e.score = high}})
      <4>1. CASE high = 0
        BY <3>1, <3>2, <4>1 DEF ScoresFit
      <4>2. CASE high # 0
        <5> DEFINE ids == {d.id : d \in {e \in valid : e.score = high}}
        <5>1. stat.best \in ids
          BY <3>1, <3>2, <4>2 DEF ScoresFit, valid
        <5>2. \A x \in ids : x \in Int /\ stat.best <= x
          BY <2>2, <3>1, <3>2, <4>2 DEF ScoresFit, valid
        <5>3. Min(ids) = stat.best
          BY <5>1, <5>2, MinIs
        <5> QED BY <4>2, <5>3
      <4> QED BY <4>1, <4>2
    <3>4. stat.low = IF since = {} THEN 0 ELSE Min({d.score : d \in since})
      <4>1. CASE Since(subs) = {}
        BY <2>4, <3>1, <4>1 DEF ScoresFit
      <4>2. CASE Since(subs) # {}
        <5> DEFINE lows == {d.score : d \in Since(subs)}
        <5>1. stat.low \in lows
          BY <3>1, <4>2 DEF ScoresFit
        <5>2. \A x \in lows : x \in Int /\ stat.low <= x
          <6>1. \A d \in Since(subs) : d.score \in Int
            BY <2>2 DEF Since, valid
          <6> QED BY <3>1, <6>1 DEF ScoresFit
        <5>3. Min(lows) = stat.low
          BY <5>1, <5>2, MinIs
        <5> QED BY <2>4, <4>2, <5>3
      <4> QED BY <4>1, <4>2
    <3> QED BY <2>5, <3>2, <3>3, <3>4 DEF stat, subs, valid, Valid, high, zeros
  <2>6. CASE stat.type = "perf"
    <3>1. LastFits(stat, subs)
      BY <2>1, <2>2, <2>6 DEF StatFits
    <3>2. stat.best = IF valid = {} THEN NoSubmission ELSE Max({d.id : d \in valid})
      <4>1. CASE valid = {}
        BY <3>1, <4>1 DEF LastFits, valid
      <4>2. CASE valid # {}
        <5> DEFINE ids == {d.id : d \in valid}
        <5>1. stat.best \in ids
          BY <3>1, <4>2 DEF LastFits, valid
        <5>2. \A x \in ids : x \in Int /\ x <= stat.best
          BY <2>2, <3>1 DEF LastFits, valid
        <5>3. Max(ids) = stat.best
          BY <5>1, <5>2, MaxIs
        <5> QED BY <4>2, <5>3
      <4> QED BY <4>1, <4>2
    <3> QED BY <2>6, <3>2 DEF stat, subs, valid, Valid
  <2> QED BY <2>3, <2>5, <2>6
<1> QED BY <1>1, StatsHold, PTL
=============================================================================
