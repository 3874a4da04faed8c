------------------------------- MODULE Summary -------------------------------
(***************************************************************************)
(* internal/summary and the validation around it: the writer validates a   *)
(* record, folds it into the Accumulator, and at the end of the run        *)
(* evalexec.go builds the EvalResult from the totals and validates that.   *)
(*                                                                         *)
(* An optional field is a set of at most one value.  Scores are floating   *)
(* point numbers, negative ones too, for no score is too small or too      *)
(* large to be recorded; which numbers those are is a parameter, and a sum *)
(* or a mean is rounded to the nearest of them.                            *)
(***************************************************************************)
EXTENDS Integers, Sequences, FiniteSets

CONSTANTS
    Floats,         \* the numbers a float64 can be, in units of the smallest positive one
    EvenFloats,     \* those with an even significand, which win a tie
    Scores,         \* the numbers a Grader may give
    MaxRecords      \* bound on the records of a run

ASSUME FloatsAssumption == Floats \subseteq Int /\ EvenFloats \subseteq Floats
ASSUME ScoresAssumption == Scores \subseteq Floats /\ 0 \in Floats
ASSUME MaxRecordsAssumption == MaxRecords \in Nat

VARIABLES
    acc,        \* the Accumulator
    records,    \* the records folded into it
    stop,       \* why the run stopped, if it did
    phase       \* "grading", "backfill", then what became of the result

vars == <<acc, records, stop, phase>>

-----------------------------------------------------------------------------
(* Records *)

FailureCodes == {"insufficient_evidence", "judge_error", "timeout", "protocol_error", "internal_error"}
Codes == FailureCodes \cup {"skipped"}
BackfillReasons == {"fail_fast", "interrupt"}

Optional(S) == {{}} \cup {{x} : x \in S}
The(S) == CHOOSE x \in S : TRUE

\* What a Grader may come back with, well formed or not.  A Go string can be any
\* status; usage stands for the Judge tokens the evaluation cost.
Evaluation == [status : {"success", "fail", "other"}, score : Optional(Scores),
               error : Optional(Codes), usage : {0, 1}]

\* Slip: any error code may classify a failed evaluation.
ValidWithAnyCode(e) ==
    /\ e.status \in {"success", "fail"}
    /\ e.status = "success" => e.error = {}
    /\ e.status = "fail" => e.score = {} /\ e.error # {}

\* Evaluation.validate: the rest of Record.Validate holds for every record the
\* constructors of evalspec make.
ValidEvaluation(e) ==
    /\ e.status \in {"success", "fail"}
    /\ e.status = "success" => e.error = {}
    /\ e.status = "fail" => e.score = {} /\ e.error # {} /\ e.error \subseteq FailureCodes

-----------------------------------------------------------------------------
(* Floating point *)

\* How far f is from n / d, in units of 1 / d.
Distance(f, n, d) == IF f * d < n THEN n - f * d ELSE f * d - n

Nearest(n, d) == {f \in Floats : \A g \in Floats : Distance(f, n, d) <= Distance(g, n, d)}

\* The float nearest to n / d, ties to even.
Round(n, d) ==
    CHOOSE f \in Nearest(n, d) :
        Nearest(n, d) \cap EvenFloats # {} => f \in EvenFloats

-----------------------------------------------------------------------------
(* The Accumulator *)

EmptyAccumulator ==
    [total |-> 0, completed |-> 0, skipped |-> 0, success |-> 0, fail |-> 0,
     byCode |-> [c \in Codes |-> 0], usage |-> 0,
     scoreCount |-> 0, scoreSum |-> 0, scoreMin |-> 0, scoreMax |-> 0]

CodeOf(e) == IF e.error = {} THEN "internal_error" ELSE The(e.error)

\* Slip: the first score is compared with the zero values.
AddScoreFromZero(a, s) ==
    [a EXCEPT !.scoreCount = @ + 1,
              !.scoreSum = Round(@ + s, 1),
              !.scoreMin = IF @ < s THEN @ ELSE s,
              !.scoreMax = IF @ > s THEN @ ELSE s]

AddScore(a, s) ==
    [a EXCEPT !.scoreCount = @ + 1,
              !.scoreSum = Round(@ + s, 1),
              !.scoreMin = IF a.scoreCount > 0 /\ @ < s THEN @ ELSE s,
              !.scoreMax = IF a.scoreCount > 0 /\ @ > s THEN @ ELSE s]

\* Add of a completed record: everything but a failure counts as a success.
AddEvaluation(a, e) ==
    LET b == [a EXCEPT !.total = @ + 1, !.completed = @ + 1, !.usage = @ + e.usage]
    IN CASE e.status = "fail" ->
              [b EXCEPT !.fail = @ + 1, !.byCode[CodeOf(e)] = @ + 1]
         [] e.status # "fail" /\ e.score = {} ->
              [b EXCEPT !.success = @ + 1]
         [] OTHER ->
              AddScore([b EXCEPT !.success = @ + 1], The(e.score))

\* Add of a skipped record.
AddSkipped(a) == [a EXCEPT !.total = @ + 1, !.skipped = @ + 1]

-----------------------------------------------------------------------------
(* The result *)

Mean == Round(acc.scoreSum, acc.scoreCount)

\* summary.Status
Status == IF acc.skipped = 0 THEN "completed"
          ELSE IF stop = "none" THEN "failed" ELSE "cancelled"

StopReason == IF Status = "cancelled" THEN {stop} ELSE {}

FailSum == acc.byCode["insufficient_evidence"] + acc.byCode["judge_error"] + acc.byCode["timeout"]
             + acc.byCode["protocol_error"] + acc.byCode["internal_error"] + acc.byCode["skipped"]

\* EvalResult.validateStatusBinding; a failed status has no error yet at this point.
StatusBinding ==
    /\ Status = "completed" => StopReason = {} /\ acc.skipped = 0
    /\ Status = "cancelled" => StopReason \in {{r} : r \in BackfillReasons} /\ acc.skipped > 0
    /\ Status # "failed"

\* EvalResult.validateCounts
CountingIdentities ==
    /\ acc.total = acc.completed + acc.skipped
    /\ acc.completed = acc.success + acc.fail
    /\ acc.fail = FailSum
    /\ acc.byCode["skipped"] = 0
    /\ acc.scoreCount <= acc.success

\* EvalResult.validateScore: the statistics are present together, so only their
\* order is in question.
ScoreRange == acc.scoreCount > 0 => acc.scoreMin <= acc.scoreMax
MeanInRange == acc.scoreCount > 0 => acc.scoreMin <= Mean /\ Mean <= acc.scoreMax

Accepted == StatusBinding /\ CountingIdentities /\ ScoreRange /\ MeanInRange

-----------------------------------------------------------------------------

Init ==
    /\ acc = EmptyAccumulator
    /\ records = <<>>
    /\ stop = "none"
    /\ phase = "grading"

\* Fail-fast or an interrupt; records of the samples in flight still arrive.
Stop ==
    /\ phase = "grading" /\ stop = "none"
    /\ stop' \in BackfillReasons
    /\ UNCHANGED <<acc, records, phase>>

\* writer.write of an evaluated sample.  An invalid record is the end of the run.
WriteCompleted ==
    /\ phase = "grading" /\ Len(records) < MaxRecords
    /\ \E e \in Evaluation :
          \/ /\ ValidEvaluation(e)
             /\ acc' = AddEvaluation(acc, e)
             /\ records' = Append(records, [status |-> "completed", evaluation |-> e])
             /\ UNCHANGED phase
          \/ /\ ~ValidEvaluation(e)
             /\ phase' = "faulty"
             /\ UNCHANGED <<acc, records>>
    /\ UNCHANGED stop

\* The backfill begins when no more evaluations can arrive.
EndGrading ==
    /\ phase = "grading"
    /\ phase' = "backfill"
    /\ UNCHANGED <<acc, records, stop>>

\* Slip: missing samples are filled in without a stop.
WriteSkippedAnyway ==
    /\ phase = "backfill" /\ Len(records) < MaxRecords
    /\ acc' = AddSkipped(acc)
    /\ records' = Append(records, [status |-> "skipped", reason |-> stop])
    /\ UNCHANGED <<stop, phase>>

\* writer.write of a backfilled sample: only a stopped run has any.
WriteSkipped ==
    /\ phase = "backfill" /\ stop # "none" /\ Len(records) < MaxRecords
    /\ acc' = AddSkipped(acc)
    /\ records' = Append(records, [status |-> "skipped", reason |-> stop])
    /\ UNCHANGED <<stop, phase>>

\* execute: the result is built and validated; one that is refused fails the run.
Finish ==
    /\ phase = "backfill"
    /\ phase' = IF Accepted THEN "written" ELSE "refused"
    /\ UNCHANGED <<acc, records, stop>>

Terminating == phase \in {"written", "refused", "faulty"} /\ UNCHANGED vars

Next == Stop \/ WriteCompleted \/ EndGrading \/ WriteSkipped \/ Finish \/ Terminating

Spec == Init /\ [][Next]_vars

-----------------------------------------------------------------------------
(* Properties *)

AccumulatorType ==
    [total : Nat, completed : Nat, skipped : Nat, success : Nat, fail : Nat,
     byCode : [Codes -> Nat], usage : Nat,
     scoreCount : Nat, scoreSum : Floats, scoreMin : Scores \cup {0}, scoreMax : Scores \cup {0}]

RecordType == [status : {"completed"}, evaluation : Evaluation]
                \cup [status : {"skipped"}, reason : BackfillReasons]

TypeOK ==
    /\ acc \in AccumulatorType
    /\ records \in Seq(RecordType)
    /\ stop \in BackfillReasons \cup {"none"}
    /\ phase \in {"grading", "backfill", "written", "refused", "faulty"}

\* evalexec.go:395-402, evalspec/validate.go:345-394: whatever mix of evaluations and
\* skipped samples a run wrote, every identity that binds the totals, the status and the
\* stop reason to each other holds when the result is built; of all that
\* EvalResult.Validate checks, only the place of the mean is left open.
ResultIdentities ==
    phase \in {"backfill", "written", "refused"} => StatusBinding /\ CountingIdentities /\ ScoreRange

\* The records that satisfy P, and the evaluations among the completed ones.
Where(P(_)) == {i \in DOMAIN records : P(records[i])}
Evaluated(P(_)) == Where(LAMBDA r : r.status = "completed" /\ P(r.evaluation))

\* summary.go:47-107: the totals are those of records.jsonl, counted directly: a failure
\* keeps its tokens and its code, and never enters the score statistics.
TotalsAreTheRecords ==
    /\ acc.total = Len(records)
    /\ acc.skipped = Cardinality(Where(LAMBDA r : r.status = "skipped"))
    /\ acc.success = Cardinality(Evaluated(LAMBDA e : e.status = "success"))
    /\ \A c \in Codes : acc.byCode[c] = Cardinality(Evaluated(LAMBDA e : e.status = "fail" /\ c \in e.error))
    /\ acc.usage = Cardinality(Evaluated(LAMBDA e : e.usage = 1))
    /\ LET scored == {The(records[i].evaluation.score) : i \in Evaluated(LAMBDA e : e.score # {})}
       IN scored # {} => /\ acc.scoreMin \in scored /\ \A s \in scored : acc.scoreMin <= s
                         /\ acc.scoreMax \in scored /\ \A s \in scored : acc.scoreMax >= s

\* evalexec.go:204-210: a completed or cancelled run returns its result.  A summary made
\* of valid records is never refused.
ResultIsAccepted == phase # "refused"
=============================================================================
