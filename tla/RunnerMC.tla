------------------------------ MODULE RunnerMC ------------------------------
(* Instances of Runner for TLC: the workers are interchangeable. *)
EXTENDS RunnerProofs, TLC

WorkerSymmetry == Permutations(Workers)
=============================================================================
