---------------------------- MODULE MCBuildCache ----------------------------
(* Two submissions of a student, one with a partner, and two secure files    *)
(* that ask for the same key.                                              *)
EXTENDS BuildCache, TLC

CONSTANTS r1, r2, alice, bob, f1, f2, c1

MCStudents == (r1 :> {alice}) @@ (r2 :> {alice, bob})
MCMentions == [f \in SecretFile |-> {c1}]
=============================================================================
