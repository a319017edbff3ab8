--------------------------- MODULE MCTestManager ---------------------------
(* Instances of TestManager for TLC. *)
EXTENDS TestManager, TLC

MCCapacities == 0..2
JobSymmetry == Permutations(Job)
=============================================================================
