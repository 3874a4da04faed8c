----------------------------- MODULE EvalRunMC -----------------------------
(* Instances of EvalRun for TLC: processes and eval_ids are interchangeable. *)
EXTENDS EvalRun, TLC

RunSymmetry == Permutations(Runs) \cup Permutations(Ids)
=============================================================================
