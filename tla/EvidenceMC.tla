----------------------------- MODULE EvidenceMC -----------------------------
(* Instances of Evidence for TLC: the workers are interchangeable. *)
EXTENDS Evidence, TLC

\* The log files of three samples: one each, or one for all.
OwnOrShared == {[s \in Samples |-> s], [s \in Samples |-> 1]}

\* No request is too long, or that of the second sample.
NoneOrOne == {{}, {s \in Samples : s = 2}}

WorkerSymmetry == Permutations(Workers)
=============================================================================
