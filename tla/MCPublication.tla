---------------------------- MODULE MCPublication ----------------------------
(* Instances of Publication: the runs are interchangeable. *)
EXTENDS Publication, TLC

RunSymmetry == Permutations(Runs)
=============================================================================
