------------------------- MODULE SubmissionLifecycle -------------------------
(***************************************************************************)
(* The submissions of test161-server and the student records, from the     *)
(* request to the update of the students (test161-server/submissions.go,   *)
(* submission.go, manager.go).  A submission carries copies of its         *)
(* students' documents, read when the request was validated; a student in  *)
(* pendingSubmissions cannot make another submission.  What happens inside *)
(* Submission.Run is the subject of SubmissionRun.                         *)
(***************************************************************************)
EXTENDS Naturals, FiniteSets

CONSTANTS
  Request,      \* the requests POSTed to the server
  Student,
  Team,         \* the students of each request
  KeyUser,      \* the students who also ask for a new key
  MaxKeys,      \* bound on the keys generated for a student
  Closes        \* may the staff close the submissions?

ASSUME TeamAssumption == Team \in [Request -> (SUBSET Student) \ {{}}]
ASSUME KeyUserAssumption == KeyUser \subseteq Student /\ MaxKeys \in Nat /\ Closes \in BOOLEAN

VARIABLES
  status,       \* SubmissionManager.status: accepting or not_accepting
  req,          \* where each request is
  copy,         \* the student documents a submission or a KeyGen has read
  pending,      \* pendingSubmissions
  toUpdate,     \* the students updateStudents still has to write
  doc,          \* the students collection: submission count and public key
  keygen,       \* where the KeyGen of each student is
  keyfile,      \* the key on the server's disk
  finished      \* how many submissions of each student finished (history)

vars == <<status, req, copy, pending, toUpdate, doc, keygen, keyfile, finished>>

ReqState == {"new", "checked", "validated", "registered", "running", "updating",
             "unlocking", "closed", "refused", "aborted", "lost"}
Actor == Request \cup {<<"key", s>> : s \in KeyUser}
Document == [total : Nat, key : 0..MaxKeys]

\* The values the variables take.
TypeOK ==
  /\ status \in {"accepting", "not_accepting"}
  /\ req \in [Request -> ReqState]
  /\ copy \in [Actor -> [Student -> Document]]
  /\ pending \subseteq Student
  /\ toUpdate \in [Request -> SUBSET Student]
  /\ doc \in [Student -> Document]
  /\ keygen \in [Student -> {"idle", "read", "made"}]
  /\ keyfile \in [Student -> 0..MaxKeys]
  /\ finished \in [Student -> Nat]

Init ==
  /\ status = "accepting"
  /\ req = [r \in Request |-> "new"]
  /\ doc = [s \in Student |-> [total |-> 0, key |-> 0]]
  /\ copy = [a \in Actor |-> doc]
  /\ pending = {}
  /\ toUpdate = [r \in Request |-> {}]
  /\ keygen = [s \in Student |-> "idle"]
  /\ keyfile = [s \in Student |-> 0]
  /\ finished = [s \in Student |-> 0]
-----------------------------------------------------------------------------
(* createSubmission. *)

\* validateRequest: the manager must accept, and the students must exist.
CheckRequest(r) ==
  /\ req[r] = "new"
  /\ req' = [req EXCEPT ![r] = IF status = "accepting" THEN "checked" ELSE "refused"]
  /\ UNCHANGED <<status, copy, pending, toUpdate, doc, keygen, keyfile, finished>>

\* NewSubmission, up to userLock: Validate reads the students again, and these
\* are the documents the submission keeps.
ReadStudents(r) ==
  /\ req[r] = "checked"
  /\ copy' = [copy EXCEPT ![r] = doc]
  /\ req' = [req EXCEPT ![r] = "validated"]
  /\ UNCHANGED <<status, pending, toUpdate, doc, keygen, keyfile, finished>>

SomePending_All(r) == Team[r] \subseteq pending
SomePending(r) == Team[r] \cap pending # {}

\* NewSubmission, under userLock: check the students, lock them, and create the
\* submission in the database; if that fails, unlock them.
Register(r) ==
  /\ req[r] = "validated"
  /\ \/ SomePending(r) /\ req' = [req EXCEPT ![r] = "refused"] /\ UNCHANGED pending
     \/ /\ ~SomePending(r)
        /\ \/ pending' = pending \cup Team[r] /\ req' = [req EXCEPT ![r] = "registered"]
           \/ UNCHANGED pending /\ req' = [req EXCEPT ![r] = "refused"]
  /\ UNCHANGED <<status, copy, toUpdate, doc, keygen, keyfile, finished>>
-----------------------------------------------------------------------------
(* SubmissionManager.Run and Submission.Run. *)

\* The manager was closed since validateRequest looked: the submission aborts.
AbortClosed(r) ==
  /\ req[r] = "registered"
  /\ status = "not_accepting"
  /\ req' = [req EXCEPT ![r] = "aborted"]
  /\ UNCHANGED <<status, copy, pending, toUpdate, doc, keygen, keyfile, finished>>

BeginRun(r) ==
  /\ req[r] = "registered"
  /\ status = "accepting"
  /\ req' = [req EXCEPT ![r] = "running"]
  /\ UNCHANGED <<status, copy, pending, toUpdate, doc, keygen, keyfile, finished>>

EndRun_UnlockFirst(r) ==
  /\ req[r] = "running"
  /\ req' = [req EXCEPT ![r] = "updating"]
  /\ toUpdate' = [toUpdate EXCEPT ![r] = Team[r]]
  /\ pending' = pending \ Team[r]
  /\ finished' = [s \in Student |-> IF s \in Team[r] THEN finished[s] + 1 ELSE finished[s]]
  /\ UNCHANGED <<status, copy, doc, keygen, keyfile>>

\* The tests are done, or it aborted: the deferred calls begin, finish first.
EndRun(r) ==
  /\ req[r] = "running"
  /\ req' = [req EXCEPT ![r] = "updating"]
  /\ toUpdate' = [toUpdate EXCEPT ![r] = Team[r]]
  /\ finished' = [s \in Student |-> IF s \in Team[r] THEN finished[s] + 1 ELSE finished[s]]
  /\ UNCHANGED <<status, copy, pending, doc, keygen, keyfile>>

\* updateStudents: count in the copy, and replace the document by it.
UpdateStudent(r, s) ==
  /\ req[r] = "updating"
  /\ s \in toUpdate[r]
  /\ copy' = [copy EXCEPT ![r][s].total = @ + 1]
  /\ doc' = [doc EXCEPT ![s] = copy'[r][s]]
  /\ toUpdate' = [toUpdate EXCEPT ![r] = @ \ {s}]
  /\ req' = [req EXCEPT ![r] = IF toUpdate'[r] = {} THEN "unlocking" ELSE @]
  /\ UNCHANGED <<status, pending, keygen, keyfile, finished>>

UnlockStudents_Forgotten(r) ==
  /\ req[r] = "unlocking"
  /\ req' = [req EXCEPT ![r] = "closed"]
  /\ UNCHANGED <<status, copy, pending, toUpdate, doc, keygen, keyfile, finished>>

UnlockStudents(r) ==
  /\ req[r] = "unlocking"
  /\ pending' = pending \ Team[r]
  /\ req' = [req EXCEPT ![r] = "closed"]
  /\ UNCHANGED <<status, copy, toUpdate, doc, keygen, keyfile, finished>>
-----------------------------------------------------------------------------
(* KeyGen: read the student, make the key, write the document back. *)

KeyRead(s) ==
  /\ keygen[s] = "idle"
  /\ keyfile[s] < MaxKeys
  /\ copy' = [copy EXCEPT ![<<"key", s>>] = doc]
  /\ keygen' = [keygen EXCEPT ![s] = "read"]
  /\ UNCHANGED <<status, req, pending, toUpdate, doc, keyfile, finished>>

KeyMake(s) ==
  /\ keygen[s] = "read"
  /\ keyfile' = [keyfile EXCEPT ![s] = @ + 1]
  /\ keygen' = [keygen EXCEPT ![s] = "made"]
  /\ UNCHANGED <<status, req, copy, pending, toUpdate, doc, finished>>

KeyWrite(s) ==
  /\ keygen[s] = "made"
  /\ doc' = [doc EXCEPT ![s] = [copy[<<"key", s>>][s] EXCEPT !.key = keyfile[s]]]
  /\ keygen' = [keygen EXCEPT ![s] = "idle"]
  /\ UNCHANGED <<status, req, copy, pending, toUpdate, keyfile, finished>>
-----------------------------------------------------------------------------
\* Pause and Resume, by the control socket of the server.
SetStatus(st) ==
  /\ Closes
  /\ status' = st
  /\ UNCHANGED <<req, copy, pending, toUpdate, doc, keygen, keyfile, finished>>

\* The server's memory still has something of the submission, if only the locks
\* of its students.
InServer(r) == req[r] \notin {"new", "refused", "closed", "lost"}

\* The server stops: what it had in memory is gone, the database stays.
Restart ==
  /\ \E r \in Request : InServer(r)
  /\ req' = [r \in Request |-> IF InServer(r) THEN "lost" ELSE req[r]]
  /\ pending' = {}
  /\ toUpdate' = [r \in Request |-> {}]
  /\ keygen' = [s \in Student |-> "idle"]
  /\ status' = "accepting"
  /\ UNCHANGED <<copy, doc, keyfile, finished>>

ServerStep(r) ==
  \/ CheckRequest(r) \/ ReadStudents(r) \/ Register(r) \/ AbortClosed(r) \/ BeginRun(r)
  \/ EndRun(r) \/ (\E s \in Student : UpdateStudent(r, s)) \/ UnlockStudents(r)

Next ==
  \/ \E r \in Request : ServerStep(r)
  \/ \E s \in KeyUser : KeyRead(s) \/ KeyMake(s) \/ KeyWrite(s)
  \/ \E st \in {"accepting", "not_accepting"} : SetStatus(st)
  \/ Restart

Spec == Init /\ [][Next]_vars
-----------------------------------------------------------------------------
\* A submission that NewSubmission returned and that is not over.
Live(r) == req[r] \in {"registered", "running", "updating", "unlocking"}

\* "NewSubmission() can only return successfully if none of the students has a
\* pending submission" (submission.go:383): no two live ones share a student.
OneSubmissionPerStudent ==
  \A r1, r2 \in Request : r1 # r2 /\ Live(r1) /\ Live(r2) => Team[r1] \cap Team[r2] = {}

\* The students of a live submission stay locked as long as it lives: in
\* particular while it counts them and replaces their documents.
LockedWhileLive == \A r \in Request : Live(r) => Team[r] \subseteq pending

\* A student is told "User %v has a submission pending" (submission.go:392) for
\* no other reason than a live submission, or one that SubmissionManager.Run
\* aborted because the manager was closed meanwhile: it never gets to the
\* deferred unlockStudents.  Every other end of a request unlocks its students.
PendingHasReason ==
  \A s \in pending : \E r \in Request :
    (Live(r) \/ req[r] = "aborted") /\ s \in Team[r]

\* "Always increment submission count" (submission.go:477): a finished
\* submission is counted in the document of each of its students.
EverySubmissionCounted ==
  \A s \in Student :
    (\A r \in Request : s \in Team[r] => req[r] # "updating") /\ (\A r \in Request : req[r] # "lost")
      => doc[s].total = finished[s]
=============================================================================
