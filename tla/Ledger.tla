------------------------------- MODULE Ledger -------------------------------
(***************************************************************************)
(* What internal/runner promises its caller (runner.go:1-6, :133-136):     *)
(* every row of the dataset ends with exactly one verdict, a run that      *)
(* stops early keeps the reason it stopped for first, skipped verdicts are *)
(* only given once nothing is evaluated any more, and the run returns      *)
(* either with every row decided or with a fault.                          *)
(*                                                                         *)
(* The order of evaluation, the workers, the channels and the writer are   *)
(* of no concern here.  Module Runner is shown to implement this one, and  *)
(* so is module Evidence, whose workers are those of Runner in larger      *)
(* steps.                                                                  *)
(***************************************************************************)
EXTENDS Naturals

CONSTANT MaxRows            \* the longest dataset considered

VARIABLES
    verdicts,   \* the verdict of each row of the dataset, "none" before it has one
    reason,     \* why the run stopped early; "none" while it has not
    returned    \* "no", "ok" or "fault"

vars == <<verdicts, reason, returned>>

AllRows == DOMAIN verdicts
Reasons == {"fail_fast", "interrupt"}

TypeOK ==
    /\ \E n \in 0..MaxRows : verdicts \in [1..n -> {"none", "completed", "skipped"}]
    /\ reason \in Reasons \cup {"none"}
    /\ returned \in {"no", "ok", "fault"}

Init ==
    /\ \E n \in 0..MaxRows : verdicts = [r \in 1..n |-> "none"]
    /\ reason = "none"
    /\ returned = "no"

\* A row is evaluated, once, and none after a row that was skipped.  A failure may be what
\* the run stops for.
Evaluate(r) ==
    /\ returned = "no"
    /\ verdicts[r] = "none"
    /\ \A q \in AllRows : verdicts[q] # "skipped"
    /\ verdicts' = [verdicts EXCEPT ![r] = "completed"]
    /\ \/ reason' = reason
       \/ reason = "none" /\ reason' = "fail_fast"
    /\ UNCHANGED returned

\* The first reason to stop is the one kept.  An interrupt may still be noticed after
\* the last evaluation, but not once the skipping has begun.
Stop ==
    /\ returned = "no"
    /\ reason = "none"
    /\ \A r \in AllRows : verdicts[r] # "skipped"
    /\ reason' \in Reasons
    /\ UNCHANGED <<verdicts, returned>>

\* What was not evaluated is skipped, in input order, and only in a run that stopped.
Skip(r) ==
    /\ returned = "no" /\ reason # "none"
    /\ verdicts[r] = "none"
    /\ \A q \in AllRows : q < r => verdicts[q] # "none"
    /\ verdicts' = [verdicts EXCEPT ![r] = "skipped"]
    /\ UNCHANGED <<reason, returned>>

Return ==
    /\ returned = "no"
    /\ \A r \in AllRows : verdicts[r] # "none"
    /\ returned' = "ok"
    /\ UNCHANGED <<verdicts, reason>>

Fault ==
    /\ returned = "no"
    /\ returned' = "fault"
    /\ UNCHANGED <<verdicts, reason>>

Next ==
    \/ \E r \in AllRows : Evaluate(r) \/ Skip(r)
    \/ Stop \/ Return \/ Fault

Spec == Init /\ [][Next]_vars
=============================================================================
