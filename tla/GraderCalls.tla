---------------------------- MODULE GraderCalls ----------------------------
(***************************************************************************)
(* What a stdio Grader promises the runner (grader.go:35-53, subprocess.go *)
(* on Call and Pool): each sample is graded once, by one worker, an answer *)
(* is its own, what was handed back never changes, and every other outcome *)
(* has its cause.  A cancellation needs a stop and a deadline a timeout; a *)
(* Grader is reported broken, or panics, or takes the program down, only   *)
(* if a child may break or a context may end.                              *)
(*                                                                         *)
(* Processes, children, watchers and kills are of no concern here: module  *)
(* Subprocess is shown to implement this one.                              *)
(***************************************************************************)
CONSTANTS
    Workers,    \* who may grade, each one sample at a time
    Samples,    \* what is to be graded
    HasTimeout, \* each sample has a context of its own, which ends with its grading
    Sturdy,     \* no child ever breaks
    None

VARIABLES
    todo,       \* samples nobody has begun
    hand,       \* the sample each busy worker has in hand
    stopped,    \* the run was stopped
    verdict,    \* what was handed back for each sample
    giver,      \* the sample that the answer handed back was meant for
    dead        \* the program went down

vars == <<todo, hand, stopped, verdict, giver, dead>>

Init ==
    /\ todo = Samples
    /\ hand = [w \in {} |-> None]
    /\ stopped = FALSE
    /\ verdict = [s \in Samples |-> "none"] /\ giver = [s \in Samples |-> None]
    /\ dead = FALSE

Stop ==
    /\ ~dead /\ ~stopped
    /\ stopped' = TRUE
    /\ UNCHANGED <<todo, hand, verdict, giver, dead>>

\* Nothing is begun after a stop.
Begin(w, s) ==
    /\ ~dead /\ ~stopped
    /\ w \notin DOMAIN hand /\ s \in todo
    /\ todo' = todo \ {s}
    /\ hand' = [v \in DOMAIN hand \cup {w} |-> IF v = w THEN s ELSE hand[v]]
    /\ UNCHANGED <<stopped, verdict, giver, dead>>

\* A context may have ended.
MayEnd == stopped \/ HasTimeout

Justified(v) ==
    \/ v = "answer"
    \/ v = "canceled" /\ stopped
    \/ v = "deadline" /\ HasTimeout
    \/ v \in {"failed", "unusable"} /\ (MayEnd \/ ~Sturdy)
    \/ v = "panicked" /\ MayEnd

\* An answer is the one that was given to this sample.
HandBack(w, v) ==
    /\ ~dead /\ w \in DOMAIN hand /\ Justified(v)
    /\ verdict' = [verdict EXCEPT ![hand[w]] = v]
    /\ giver' = IF v = "answer" THEN [giver EXCEPT ![hand[w]] = hand[w]] ELSE giver
    /\ hand' = [u \in DOMAIN hand \ {w} |-> hand[u]]
    /\ UNCHANGED <<todo, stopped, dead>>

\* A panic outside the workers.
Die ==
    /\ ~dead /\ MayEnd
    /\ dead' = TRUE
    /\ UNCHANGED <<todo, hand, stopped, verdict, giver>>

Outcomes == {"answer", "canceled", "deadline", "failed", "unusable", "panicked"}

Next ==
    \/ Stop \/ Die
    \/ \E w \in Workers : (\E s \in Samples : Begin(w, s)) \/ \E v \in Outcomes : HandBack(w, v)

Spec == Init /\ [][Next]_vars
=============================================================================
