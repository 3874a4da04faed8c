------------------------------- MODULE Runner -------------------------------
(***************************************************************************)
(* internal/runner: the dispatcher (the goroutine that called Run), the    *)
(* worker goroutines, the writer goroutine and the stopper they share.     *)
(*                                                                         *)
(* Each goroutine is a process with a program counter; the two unbuffered  *)
(* channels (jobs, results) are rendezvous steps of two processes.  A      *)
(* Grade call begins in one step and returns in another, so that           *)
(* everything else can happen while it runs.                               *)
(*                                                                         *)
(* A definition introduced by "Slip:" is no part of the model: it is the   *)
(* definition after it with a plausible mistake, kept to show which        *)
(* property would notice that mistake in the code.                         *)
(***************************************************************************)
EXTENDS Naturals, Sequences, FiniteSets

CONSTANTS
    Workers,        \* the worker goroutines: --concurrency of them
    MaxRows,        \* bound on the rows the dataset holds when it is re-read
    FailFast,       \* --fail-fast
    GraderTimeout,  \* TRUE iff grader.timeout_ms is positive
    GraderMay,      \* what a Grade call may come back with
    CallerMay,      \* how the caller's context may end
    Faults          \* what may go wrong around the run

GradeReturns == {"success", "fail", "error", "deadline", "canceled"}
ContextErrors == {"canceled", "deadline"}
FaultKinds == {"write",     \* a record is invalid, or encoding it fails
               "dataset",   \* the file changed and a line no longer parses
               "spurious"}  \* a Grader reports a cancellation nobody asked for

ASSUME WorkersAssumption == Workers # {} /\ IsFiniteSet(Workers)
ASSUME MaxRowsAssumption == MaxRows \in Nat
ASSUME SwitchAssumption == FailFast \in BOOLEAN /\ GraderTimeout \in BOOLEAN
ASSUME GraderAssumption == GraderMay \subseteq GradeReturns
ASSUME CallerAssumption == CallerMay \subseteq ContextErrors
ASSUME FaultAssumption == Faults \subseteq FaultKinds

VARIABLES
    file,       \* what the reader finds: this many rows, then EOF or a bad line
    ctx,        \* ctx.Err() of the caller's context
    workerCtx,  \* workerCtx.Err()
    reason,     \* stopper.reason; the stopper has fired iff it is not "none"
    main,       \* program counter of Run, dispatch and backfill
    next,       \* sequence of the next row the reader returns
    inflight,   \* inflightSet.rows
    pending,    \* rows the backfill has still to write
    dispatchErr,
    wpc,        \* program counter of each worker
    job,        \* the row each worker was last given
    verdict,    \* the evaluation each worker has to hand over
    writer,     \* program counter of the writer goroutine
    from,       \* the worker whose record the writer holds
    werr,       \* writer.err # nil
    records,    \* records.jsonl
    outcome     \* what Run returned, "running" before it has

dispatchVars == <<file, next, inflight, dispatchErr>>
workerVars == <<wpc, job, verdict>>
writerVars == <<writer, from, werr, records>>
vars == <<file, ctx, workerCtx, reason, main, next, inflight, pending, dispatchErr,
          wpc, job, verdict, writer, from, werr, records, outcome>>

-----------------------------------------------------------------------------
(* Data *)

Rows == 1..MaxRows
Evaluations == {"success", "fail", "internal_error", "timeout"}
StopReasons == {"fail_fast", "interrupt"}

Record == [seq : Rows, status : {"completed"}, code : Evaluations]
             \cup [seq : Rows, status : {"skipped"}, code : StopReasons]

CompletedRecord(r, v) == [seq |-> r, status |-> "completed", code |-> v]
\* Slip: written when an interrupt was the only way to stop.
SkippedAsInterrupted(r, why) == [seq |-> r, status |-> "skipped", code |-> "interrupt"]

SkippedRecord(r, why) == [seq |-> r, status |-> "skipped", code |-> why]

\* Slip: the error goes into the record as it is.
ClassifyNothing(v) == v

\* classify: an error of the Grader becomes a failed evaluation.
Classify(v) == CASE v = "deadline" -> "timeout"
                 [] v = "error" -> "internal_error"
                 [] OTHER -> v

\* writer.seen: marked together with the record's arrival in the file.
Seen == {records[i].seq : i \in DOMAIN records}

Stopped == reason # "none"

Failed(rec) == rec.status = "completed" /\ rec.code # "success"

MainAt == {"check", "context", "read", "send", "cancel", "close", "wait", "drain", "joined",
           "interrupt", "pending", "fill", "done"}
JobsClosed == main \in {"wait", "drain", "joined", "interrupt", "pending", "fill", "done"}
ResultsClosed == main \in {"drain", "joined", "interrupt", "pending", "fill", "done"}

TypeOK ==
    /\ file \in [rows : 0..MaxRows, bad : BOOLEAN]
    /\ ctx \in ContextErrors \cup {"nil"}
    /\ workerCtx \in ContextErrors \cup {"nil"}
    /\ reason \in StopReasons \cup {"none"}
    /\ main \in MainAt
    /\ next \in 1..(MaxRows + 1)
    /\ inflight \subseteq Rows
    /\ pending \subseteq Rows
    /\ dispatchErr \in BOOLEAN
    /\ wpc \in [Workers -> {"idle", "begin", "grading", "send", "ack", "exited"}]
    /\ job \in [Workers -> 0..MaxRows]
    /\ verdict \in [Workers -> Evaluations]
    /\ writer \in {"recv", "write", "stop", "cancel", "ack", "exited"}
    /\ from \in Workers
    /\ werr \in BOOLEAN
    /\ records \in Seq(Record)
    /\ outcome \in {"running", "ok", "dataset", "output", "lost"}

Init ==
    /\ file \in [rows : 0..MaxRows, bad : IF "dataset" \in Faults THEN BOOLEAN ELSE {FALSE}]
    /\ ctx = "nil" /\ workerCtx = "nil" /\ reason = "none"
    /\ main = "check" /\ next = 1 /\ inflight = {} /\ pending = {} /\ dispatchErr = FALSE
    /\ wpc = [w \in Workers |-> "idle"]
    /\ job = [w \in Workers |-> 0]
    /\ verdict = [w \in Workers |-> "success"]
    /\ writer = "recv" /\ from \in Workers /\ werr = FALSE
    /\ records = <<>>
    /\ outcome = "running"

-----------------------------------------------------------------------------
(* The caller and the contexts *)

\* A signal, the caller of the library, or a deadline of the caller ends ctx.
CallerEnds ==
    /\ ctx = "nil"
    /\ ctx' \in CallerMay
    /\ UNCHANGED <<workerCtx, reason, main, pending, dispatchVars, workerVars, writerVars, outcome>>

\* context.WithCancel: the end of the parent reaches the child in a later step.
Propagate ==
    /\ ctx # "nil" /\ workerCtx = "nil"
    /\ workerCtx' = ctx
    /\ UNCHANGED <<ctx, reason, main, pending, dispatchVars, workerVars, writerVars, outcome>>

\* The child's first end is the one it keeps.
Cancelled == IF workerCtx = "nil" THEN "canceled" ELSE workerCtx

-----------------------------------------------------------------------------
(* The dispatcher *)

\* Slip: the last caller wins.
FireAlways(why) == reason' = why

\* The part of stopper.stop under the lock: the first caller wins and goes on to
\* cancel the workers, a later one returns at once.
Fire(why) == reason' = IF Stopped THEN reason ELSE why

CheckStopped ==
    /\ main = "check"
    /\ main' = IF Stopped THEN "close" ELSE "context"
    /\ UNCHANGED <<ctx, workerCtx, reason, pending, dispatchVars, workerVars, writerVars, outcome>>

CheckContext ==
    /\ main = "context"
    /\ \/ /\ ctx = "nil"
          /\ main' = "read"
          /\ UNCHANGED reason
       \/ /\ ctx # "nil"
          /\ Fire("interrupt")
          /\ main' = IF Stopped THEN "close" ELSE "cancel"
    /\ UNCHANGED <<ctx, workerCtx, pending, dispatchVars, workerVars, writerVars, outcome>>

\* The part of stopper.stop after the unlock, for dispatch.
DispatchCancels ==
    /\ main = "cancel"
    /\ workerCtx' = Cancelled
    /\ main' = "close"
    /\ UNCHANGED <<ctx, reason, pending, dispatchVars, workerVars, writerVars, outcome>>

\* reader.Next: a row enters the in-flight set before any worker is offered it.
ReadRow ==
    /\ main = "read"
    /\ next <= file.rows
    /\ next' = next + 1
    /\ inflight' = inflight \cup {next}
    /\ main' = "send"
    /\ UNCHANGED <<file, ctx, workerCtx, reason, pending, dispatchErr, workerVars, writerVars, outcome>>

ReadEnd ==
    /\ main = "read"
    /\ next > file.rows
    /\ dispatchErr' = file.bad
    /\ main' = "close"
    /\ UNCHANGED <<file, ctx, workerCtx, reason, next, inflight, pending, workerVars, writerVars, outcome>>

\* The two cases of the select on the unbuffered jobs channel.
SendJob(w) ==
    /\ main = "send" /\ wpc[w] = "idle"
    /\ job' = [job EXCEPT ![w] = next - 1]
    /\ wpc' = [wpc EXCEPT ![w] = "begin"]
    /\ main' = "check"
    /\ UNCHANGED <<ctx, workerCtx, reason, pending, dispatchVars, verdict, writerVars, outcome>>

GiveUpSending ==
    /\ main = "send" /\ workerCtx # "nil"
    /\ main' = "close"
    /\ UNCHANGED <<ctx, workerCtx, reason, pending, dispatchVars, workerVars, writerVars, outcome>>

CloseJobs ==
    /\ main = "close"
    /\ main' = "wait"
    /\ UNCHANGED <<ctx, workerCtx, reason, pending, dispatchVars, workerVars, writerVars, outcome>>

\* Slip: the results channel is closed without waiting for the workers.
CloseResultsEarly ==
    /\ main = "wait"
    /\ main' = "drain"
    /\ UNCHANGED <<ctx, workerCtx, reason, pending, dispatchVars, workerVars, writerVars, outcome>>

\* workers.Wait, then close(results).
CloseResults ==
    /\ main = "wait"
    /\ \A w \in Workers : wpc[w] = "exited"
    /\ main' = "drain"
    /\ UNCHANGED <<ctx, workerCtx, reason, pending, dispatchVars, workerVars, writerVars, outcome>>

\* <-writerDone
JoinWriter ==
    /\ main = "drain" /\ writer = "exited"
    /\ main' = "joined"
    /\ UNCHANGED <<ctx, workerCtx, reason, pending, dispatchVars, workerVars, writerVars, outcome>>

\* Every way out of Run.
ReturnWith(o) ==
    /\ main' = "done"
    /\ outcome' = o

\* The two errors of the concurrent phase are looked at only once it is over.
CheckErrors ==
    /\ main = "joined"
    /\ \/ dispatchErr /\ ReturnWith("dataset")
       \/ ~dispatchErr /\ werr /\ ReturnWith("output")
       \/ ~dispatchErr /\ ~werr /\ main' = "interrupt" /\ UNCHANGED outcome
    /\ UNCHANGED <<ctx, workerCtx, reason, pending, dispatchVars, workerVars, writerVars>>

\* Slip: only dispatch looks at the caller's context.
CheckInterruptForgotten ==
    /\ main = "interrupt"
    /\ main' = "pending"
    /\ UNCHANGED <<ctx, workerCtx, reason, pending, dispatchVars, workerVars, writerVars, outcome>>

\* An interrupt that dispatch did not see for itself.
CheckInterrupt ==
    /\ main = "interrupt"
    /\ \/ /\ ctx = "nil"
          /\ UNCHANGED <<workerCtx, reason>>
       \/ /\ ctx # "nil"
          /\ Fire("interrupt")
          /\ workerCtx' = IF Stopped THEN workerCtx ELSE Cancelled
    /\ main' = "pending"
    /\ UNCHANGED <<ctx, pending, dispatchVars, workerVars, writerVars, outcome>>

-----------------------------------------------------------------------------
(* The backfill: the only process left is the dispatcher *)

\* Slip: the rows left on disk are taken for all that is missing.
UndeliveredForgotten == {}

\* Rows that were dispatched and have no record.
Undelivered == inflight \ Seen

\* A run that was not stopped has nothing to fill, and must have nothing missing.
BackfillNotStopped ==
    /\ main = "pending" /\ ~Stopped
    /\ ReturnWith(IF Undelivered = {} THEN "ok" ELSE "lost")
    /\ UNCHANGED <<ctx, workerCtx, reason, pending, dispatchVars, workerVars, writerVars>>

\* A stopped run reads the rest of the dataset for the rows never dispatched.
BackfillStopped ==
    /\ main = "pending" /\ Stopped
    /\ next' = file.rows + 1
    /\ \/ /\ file.bad
          /\ ReturnWith("dataset")
          /\ UNCHANGED pending
       \/ /\ ~file.bad
          /\ pending' = Undelivered \cup (next..file.rows)
          /\ main' = "fill"
          /\ UNCHANGED outcome
    /\ UNCHANGED <<file, ctx, workerCtx, reason, inflight, dispatchErr, workerVars, writerVars>>

\* Slip: the order of the map the in-flight rows are kept in.
MapOrder == pending

\* sortPending: the rows go out in input order.
InputOrder == {r \in pending : \A q \in pending : r <= q}

\* w.write of one pending row.
FillRow ==
    /\ main = "fill"
    /\ \E r \in InputOrder :
          /\ pending' = pending \ {r}
          /\ records' = Append(records, SkippedRecord(r, reason))
    /\ UNCHANGED <<ctx, workerCtx, reason, main, dispatchVars, workerVars, writer, from, werr, outcome>>

FillFails ==
    /\ main = "fill" /\ pending # {} /\ "write" \in Faults
    /\ werr' = TRUE
    /\ ReturnWith("output")
    /\ UNCHANGED <<ctx, workerCtx, reason, pending, dispatchVars, workerVars, writer, from, records>>

FillEnds ==
    /\ main = "fill" /\ pending = {}
    /\ ReturnWith("ok")
    /\ UNCHANGED <<ctx, workerCtx, reason, pending, dispatchVars, workerVars, writerVars>>

-----------------------------------------------------------------------------
(* A worker *)

\* Slip: the stop is left to the dispatcher.
BeginGradeUnchecked(w) ==
    /\ wpc[w] = "begin"
    /\ wpc' = [wpc EXCEPT ![w] = "grading"]
    /\ UNCHANGED <<ctx, workerCtx, reason, main, pending, dispatchVars, job, verdict, writerVars, outcome>>

\* A sample that arrives after the stop is not started and leaves no record.
BeginGrade(w) ==
    /\ wpc[w] = "begin"
    /\ wpc' = [wpc EXCEPT ![w] = IF workerCtx = "nil" THEN "grading" ELSE "idle"]
    /\ UNCHANGED <<ctx, workerCtx, reason, main, pending, dispatchVars, job, verdict, writerVars, outcome>>

\* What a Grade call can come back with in the present state: an evaluation or an
\* error of its own at any time, the error of a context only once that has ended.
CanReturn(v) ==
    /\ v \in GraderMay
    /\ v = "canceled" => workerCtx = "canceled" \/ "spurious" \in Faults
    /\ v = "deadline" => workerCtx = "deadline" \/ GraderTimeout

\* Whether the context of the Grade calls ends by itself: grade derives it from the
\* workers' context, with a timeout when one is set.
CallContextEnds == GraderTimeout \/ workerCtx # "nil"

\* The call is cancelled mid-evaluation: no record.
GradeCancelled(w) ==
    /\ wpc[w] = "grading" /\ CanReturn("canceled")
    /\ wpc' = [wpc EXCEPT ![w] = "idle"]
    /\ UNCHANGED <<ctx, workerCtx, reason, main, pending, dispatchVars, job, verdict, writerVars, outcome>>

GradeReturns1(w, v) ==
    /\ wpc[w] = "grading" /\ CanReturn(v) /\ v # "canceled"
    /\ verdict' = [verdict EXCEPT ![w] = Classify(v)]
    /\ wpc' = [wpc EXCEPT ![w] = "send"]
    /\ UNCHANGED <<ctx, workerCtx, reason, main, pending, dispatchVars, job, writerVars, outcome>>

\* range jobs ends when the channel is closed.
WorkerExits(w) ==
    /\ wpc[w] = "idle" /\ JobsClosed
    /\ wpc' = [wpc EXCEPT ![w] = "exited"]
    /\ UNCHANGED <<ctx, workerCtx, reason, main, pending, dispatchVars, job, verdict, writerVars, outcome>>

-----------------------------------------------------------------------------
(* The writer *)

\* The rendezvous on results: the worker then waits for its acknowledgement.
ReceiveResult(w) ==
    /\ writer = "recv" /\ wpc[w] = "send"
    /\ from' = w
    /\ writer' = "write"
    /\ wpc' = [wpc EXCEPT ![w] = "ack"]
    /\ UNCHANGED <<ctx, workerCtx, reason, main, pending, dispatchVars, job, verdict, werr, records, outcome>>

\* Slip: a run that is stopping drops the records that still arrive.
WriteRecordUnlessStopped ==
    /\ writer = "write" /\ ~werr
    /\ records' = IF Stopped THEN records
                  ELSE Append(records, CompletedRecord(job[from], verdict[from]))
    /\ writer' = IF FailFast /\ verdict[from] # "success" THEN "stop" ELSE "ack"
    /\ UNCHANGED <<ctx, workerCtx, reason, main, pending, dispatchVars, workerVars, from, werr, outcome>>

\* writer.write: the record reaches the file, unless an earlier one failed.
WriteRecord ==
    /\ writer = "write" /\ ~werr
    /\ LET rec == CompletedRecord(job[from], verdict[from])
       IN /\ records' = Append(records, rec)
          /\ writer' = IF FailFast /\ Failed(rec) THEN "stop" ELSE "ack"
    /\ UNCHANGED <<ctx, workerCtx, reason, main, pending, dispatchVars, workerVars, from, werr, outcome>>

WriteFails ==
    /\ writer = "write" /\ (werr \/ "write" \in Faults)
    /\ werr' = TRUE
    /\ writer' = "ack"
    /\ UNCHANGED <<ctx, workerCtx, reason, main, pending, dispatchVars, workerVars, from, records, outcome>>

\* Slip: the reason is recorded but the workers are not cancelled.
WriterStopsUncancelled ==
    /\ writer = "stop"
    /\ Fire("fail_fast")
    /\ writer' = "ack"
    /\ UNCHANGED <<ctx, workerCtx, main, pending, dispatchVars, workerVars, from, werr, records, outcome>>

\* Fail-fast is decided here, after the record is in the file.
WriterStops ==
    /\ writer = "stop"
    /\ Fire("fail_fast")
    /\ writer' = IF Stopped THEN "ack" ELSE "cancel"
    /\ UNCHANGED <<ctx, workerCtx, main, pending, dispatchVars, workerVars, from, werr, records, outcome>>

WriterCancels ==
    /\ writer = "cancel"
    /\ workerCtx' = Cancelled
    /\ writer' = "ack"
    /\ UNCHANGED <<ctx, reason, main, pending, dispatchVars, workerVars, from, werr, records, outcome>>

\* close(msg.ack): the worker goes back for its next sample.
Acknowledge ==
    /\ writer = "ack"
    /\ writer' = "recv"
    /\ wpc' = [wpc EXCEPT ![from] = "idle"]
    /\ UNCHANGED <<ctx, workerCtx, reason, main, pending, dispatchVars, job, verdict, from, werr, records, outcome>>

WriterExits ==
    /\ writer = "recv" /\ ResultsClosed
    /\ writer' = "exited"
    /\ UNCHANGED <<ctx, workerCtx, reason, main, pending, dispatchVars, workerVars, from, werr, records, outcome>>

-----------------------------------------------------------------------------

Dispatcher ==
    \/ CheckStopped \/ CheckContext \/ DispatchCancels \/ ReadRow \/ ReadEnd
    \/ (\E w \in Workers : SendJob(w)) \/ GiveUpSending
    \/ CloseJobs \/ CloseResults \/ JoinWriter \/ CheckErrors \/ CheckInterrupt
    \/ BackfillNotStopped \/ BackfillStopped \/ FillRow \/ FillFails \/ FillEnds

GradeEnds(w) == GradeCancelled(w) \/ \E v \in GraderMay : GradeReturns1(w, v)

Worker(w) == BeginGrade(w) \/ GradeEnds(w) \/ WorkerExits(w)

Writer ==
    \/ (\E w \in Workers : ReceiveResult(w))
    \/ WriteRecord \/ WriteFails \/ WriterStops \/ WriterCancels \/ Acknowledge \/ WriterExits

\* Run has returned: nothing of it is left running.
Terminating == main = "done" /\ UNCHANGED vars

Next ==
    \/ CallerEnds \/ Propagate
    \/ Dispatcher \/ Writer
    \/ \E w \in Workers : Worker(w)
    \/ Terminating

Spec == Init /\ [][Next]_vars

(***************************************************************************)
(* Fairness.  The Go scheduler runs every goroutine that can move.  A      *)
(* Grade call belongs to the Grader: it is only bound to come back once    *)
(* its context has ended, through the stop or through grader.timeout_ms.   *)
(***************************************************************************)
GraderHonoursContext(w) ==
    WF_vars(CallContextEnds /\ GradeEnds(w))

Fairness ==
    /\ WF_vars(Propagate) /\ WF_vars(Dispatcher) /\ WF_vars(Writer)
    /\ \A w \in Workers : /\ WF_vars(BeginGrade(w)) /\ WF_vars(WorkerExits(w))
                          /\ GraderHonoursContext(w)

FairSpec == Spec /\ Fairness

-----------------------------------------------------------------------------
(* Properties *)

\* runner.go:3-6, :133-136: a run that returns a result wrote exactly one record for
\* every row of the dataset, whichever rows were graded, cancelled in a worker, left
\* in the dispatcher's hands by the select, or never read before the stop; and it read
\* the dataset to its end.
OneRecordPerRow ==
    /\ \A i, j \in DOMAIN records : records[i].seq = records[j].seq => i = j
    /\ outcome = "ok" => Seen = 1..file.rows /\ ~file.bad

\* runner.go:228-232, :411-417: with Graders that only report a cancellation they were
\* given, no interleaving of the stop, the select and the workers makes Run believe
\* that a run which was not stopped lost samples.
NoLostRows == "spurious" \notin Faults => outcome # "lost"

\* stop.go:22-26: the reason a run reports is one that really happened before it
\* stopped, and every skipped record carries it.
ReasonIsTrue ==
    /\ reason = "fail_fast" => FailFast /\ \E i \in DOMAIN records : Failed(records[i])
    /\ reason = "interrupt" => ctx # "nil"
    /\ \A i \in DOMAIN records :
          records[i].status = "skipped" => records[i].code = reason

\* The records evaluated after the first failing one.
EvaluatedAfterFailure ==
    {j \in DOMAIN records : /\ records[j].status = "completed"
                            /\ \E i \in 1..(j - 1) : Failed(records[i])}

\* runner.go:159-166, :483-487: with the acknowledgement, fail-fast lets at most the
\* samples the other workers already hold be evaluated after the first failure: none
\* at all at concurrency 1, where the stopping point is therefore deterministic.
FailFastOvershoot ==
    FailFast => Cardinality(EvaluatedAfterFailure) < Cardinality(Workers)

\* runner.go:159-166, :419-421: a record overtakes at most the samples the other workers
\* hold, and a skipped one overtakes none.  At concurrency 1 the records are therefore in
\* input order without a gap, wherever the run was stopped.
Overtaken(i) == (1..(records[i].seq - 1)) \ {records[j].seq : j \in 1..(i - 1)}

OvertakesBounded ==
    "spurious" \notin Faults =>
        \A i \in DOMAIN records :
            /\ Cardinality(Overtaken(i)) < Cardinality(Workers)
            /\ records[i].status = "skipped" => Overtaken(i) = {}

\* runner.go:215-218: when the results channel is closed no worker can still send on
\* it or wait for an acknowledgement, and a Run that has returned leaves no goroutine
\* that could write to the caller's records afterwards.
NoSendAfterClose ==
    /\ ResultsClosed => \A w \in Workers : wpc[w] = "exited"
    /\ outcome # "running" => writer = "exited"

\* runner.go:204-207: a worker lets go of a sample it has a verdict for only when that
\* sample's record is in the file (or the run is already failing on its output): an
\* evaluation that was finished is never reported as skipped.
EvaluatedIsKept ==
    [][\A w \in Workers :
          wpc[w] \in {"send", "ack"} /\ wpc'[w] \notin {"send", "ack"}
             => werr \/ job[w] \in Seen]_vars

\* A stop, whatever its cause, ends the run: every Grade call in flight, the record
\* being written and the backfill come to an end.
StopEndsRun == (Stopped \/ ctx # "nil") ~> main = "done"

-----------------------------------------------------------------------------
(* Runner implements Ledger *)

StatusOf(r) ==
    IF \E i \in DOMAIN records : records[i].seq = r /\ records[i].status = "completed"
    THEN "completed"
    ELSE IF r \in Seen THEN "skipped" ELSE "none"

LedgerVerdicts == [r \in 1..file.rows |-> StatusOf(r)]

LedgerReturned ==
    CASE outcome = "running" -> "no" [] outcome = "ok" -> "ok" [] OTHER -> "fault"

L == INSTANCE Ledger WITH
        verdicts <- LedgerVerdicts, reason <- reason, returned <- LedgerReturned

\* What Run promises, stated without workers, channels or writer.
ImplementsLedger == L!Spec
=============================================================================
