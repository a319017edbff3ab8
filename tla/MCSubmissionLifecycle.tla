------------------------ MODULE MCSubmissionLifecycle ------------------------
(* Three requests of two students, one of them by both together. *)
EXTENDS SubmissionLifecycle, TLC

CONSTANTS r1, r2, r3, alice, bob

TwoStudents == (r1 :> {alice}) @@ (r2 :> {alice, bob}) @@ (r3 :> {bob})
=============================================================================
