---------------------------- MODULE SubprocessMC ----------------------------
(* Instances of Subprocess for TLC: workers and samples are interchangeable. *)
EXTENDS Subprocess, TLC

PoolSymmetry == Permutations(Workers) \cup Permutations(Samples)
=============================================================================
