----------------------------- MODULE Publication -----------------------------
(***************************************************************************)
(* What evalexec promises about an output directory that several processes *)
(* may want: nobody ever sees a directory that is not complete, it is      *)
(* never replaced, and each process tells by its exit code whether the     *)
(* result that is there is its own.                                        *)
(***************************************************************************)
CONSTANT Runs

VARIABLES
    target,     \* whose complete result the output directory is, if anybody's
    ending      \* how each process ended

vars == <<target, ending>>

Nobodys == {"absent", "empty", "full"}  \* no directory, an empty one, somebody's files

Init == target \in Nobodys /\ ending = [r \in Runs |-> "running"]

\* The result appears at once and complete, where nothing was.
Publish(r) ==
    /\ target \in {"absent", "empty"} /\ ending[r] = "running"
    /\ target' = r
    /\ UNCHANGED ending

\* A process that ends by itself says truly whether it published; one that is abandoned
\* or killed says nothing.
End(r, how) ==
    /\ ending[r] = "running"
    /\ \/ how \in {"ok", "interrupted"} /\ target = r
       \/ how \in {"rejected", "runtime", "output"} /\ target # r
       \/ how \in {"forced", "killed"}
    /\ ending' = [ending EXCEPT ![r] = how]
    /\ UNCHANGED target

Endings == {"ok", "interrupted", "rejected", "runtime", "output", "forced", "killed"}

Next == \E r \in Runs : Publish(r) \/ \E how \in Endings : End(r, how)

Spec == Init /\ [][Next]_vars
=============================================================================
