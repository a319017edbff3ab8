------------------------ MODULE MCSubmissionManager ------------------------
(* An instance of SubmissionManager for TLC: three submissions, the first of *)
(* which has two tests, so that one is queued while another is on deck.       *)
EXTENDS SubmissionManager, TLC

CONSTANTS j1, j2, s1

MCCapacities == {0, 1}
MCOwner == (j1 :> s1) @@ (j2 :> s1)
=============================================================================
