------------------------------ MODULE Evidence ------------------------------
(***************************************************************************)
(* The Grade calls of a run that ask a Judge or an external Grader, the    *)
(* contexts that end them, the exchanges the HTTP recorder collects on     *)
(* the workers, and what the writer makes of those: logs/, errors.jsonl    *)
(* and the artifacts the result names.                                     *)
(*                                                                         *)
(* The goroutines are those of Runner, in larger steps: a row that is read *)
(* but never graded is the same here as one that is never read, and a      *)
(* worker hands its record over in one step with what the writer does      *)
(* with it.                                                                *)
(***************************************************************************)
EXTENDS Judging, Naturals, FiniteSets

CONSTANTS
    Workers,        \* the worker goroutines
    Rows,           \* number of rows of the dataset
    FailFast,       \* --fail-fast
    GraderTimeout,  \* TRUE iff grader.timeout_ms is positive
    Namings,        \* how the case_ids may be sanitized: alike or not
    Oversizes,      \* which requests may be over maxBodyBytes together
    PeersTried,     \* what the run may be asking
    GraderCodes,    \* the error codes an external Grader may give of its own
    Faults          \* what may go wrong

FaultKinds == {"connection",    \* the peer is not reached, or goes away
               "write",         \* records.jsonl cannot be written
               "mkdir",         \* logs/ cannot be made
               "log",           \* a log file cannot be opened or written
               "errors"}        \* errors.jsonl cannot be written

ASSUME WorkersAssumption == Workers # {} /\ IsFiniteSet(Workers)
ASSUME RowsAssumption == Rows \in Nat
ASSUME SwitchAssumption == FailFast \in BOOLEAN /\ GraderTimeout \in BOOLEAN
ASSUME PeersAssumption == PeersTried \subseteq Peers /\ GraderCodes \subseteq Codes
ASSUME FaultAssumption == Faults \subseteq FaultKinds

Samples == 1..Rows

ASSUME NamingAssumption == Namings \subseteq [Samples -> Samples]
ASSUME OversizeAssumption == Oversizes \subseteq SUBSET Samples

VARIABLES
    peer,       \* what this run asks
    keepAll,    \* debugLogs: the exchanges of every sample are kept
    nameOf,     \* the log file of each sample: its sanitized case_id
    tooLong,    \* the samples whose HTTP request is over maxBodyBytes
    next,       \* the next row to be given to a worker
    stopped,    \* the reason for which the run stops, "no" while it does not
    call,       \* the call of each worker
    endedBy,    \* what ended the context of each sample's call, while it had not returned
    cutAt,      \* how far the call was when its transport noticed that
    answered,   \* history: the samples whose peer gave a whole reply
    held,       \* the samples with an exchange in the recorder
    exchanged,  \* the samples that ever had one
    records,    \* the verdict of each sample
    logs,       \* the samples whose exchanges are in each log file
    logsDir,    \* LogWriter.created
    errors,     \* the samples ErrorLog has an entry for
    writeErr,   \* writer.err: a record could not be written
    phase,      \* how far execute is
    artifacts   \* EvalResult.artifacts and whether errors.jsonl is there

setup == <<peer, keepAll, nameOf, tooLong>>
exchanges == <<held, exchanged>>
kept == <<logs, logsDir, errors>>
vars == <<peer, keepAll, nameOf, tooLong, next, stopped, call, endedBy, cutAt, answered, held,
          exchanged, records, logs, logsDir, errors, writeErr, phase, artifacts>>

\* Asking: nothing has come back; reading: the headers, or a part of the line, have;
\* judged: Grade has returned.
Call == [at : {"idle", "asking", "reading", "judged"}, sample : 0..Rows, result : Results \cup {"none"}]
Live(c) == c.at \in {"asking", "reading"}

TypeOK ==
    /\ peer \in PeersTried /\ keepAll \in BOOLEAN
    /\ nameOf \in Namings /\ tooLong \subseteq Samples
    /\ next \in 1..(Rows + 1)
    /\ stopped \in {"no", "fail_fast", "interrupt"}
    /\ call \in [Workers -> Call]
    /\ endedBy \in [Samples -> {"no", "canceled", "deadline"}]
    /\ cutAt \in [Samples -> {"no", "asking", "reading"}] /\ answered \subseteq Samples
    /\ held \subseteq Samples /\ exchanged \subseteq Samples
    /\ records \in [Samples -> Results \cup {"none", "skipped"}]
    /\ logs \in [Samples -> SUBSET Samples] /\ logsDir \in BOOLEAN
    /\ errors \subseteq Samples
    /\ writeErr \in BOOLEAN
    /\ phase \in {"grading", "flushing", "done", "failed"}
    /\ artifacts \in [logs : BOOLEAN, errors : BOOLEAN, written : BOOLEAN]

Init ==
    /\ peer \in PeersTried /\ keepAll \in BOOLEAN
    /\ nameOf \in Namings
    /\ tooLong \in IF IsJudge(peer) /\ HasBody(peer) THEN Oversizes ELSE {{}}
    /\ next = 1 /\ stopped = "no"
    /\ call = [w \in Workers |-> [at |-> "idle", sample |-> 0, result |-> "none"]]
    /\ endedBy = [s \in Samples |-> "no"] /\ cutAt = [s \in Samples |-> "no"]
    /\ answered = {}
    /\ held = {} /\ exchanged = {}
    /\ records = [s \in Samples |-> "none"]
    /\ logs = [f \in Samples |-> {}] /\ logsDir = FALSE /\ errors = {}
    /\ writeErr = FALSE /\ phase = "grading"
    /\ artifacts = [logs |-> FALSE, errors |-> FALSE, written |-> FALSE]

-----------------------------------------------------------------------------
(* The calls *)

\* A worker takes the next row and begins its Grade call.
Begin(w) ==
    /\ call[w].at = "idle" /\ phase = "grading" /\ stopped = "no" /\ next <= Rows
    /\ call' = [call EXCEPT ![w] = [at |-> "asking", sample |-> next, result |-> "none"]]
    /\ next' = next + 1
    /\ UNCHANGED <<setup, stopped, endedBy, cutAt, answered, exchanges, records, kept, writeErr, phase, artifacts>>

\* The grader's timeout, or the Judge's own: whichever is there and comes first.
Deadline(w) ==
    /\ Live(call[w]) /\ endedBy[call[w].sample] = "no"
    /\ IsJudge(peer) \/ GraderTimeout
    /\ endedBy' = [endedBy EXCEPT ![call[w].sample] = "deadline"]
    /\ UNCHANGED <<setup, next, stopped, call, cutAt, answered, exchanges, records, kept, writeErr, phase, artifacts>>

\* The headers of an HTTP reply, or the first bytes of a line.  A request that the recorder
\* cut is not sent to its end, and net/http then fails the exchange.
Headers(w) ==
    /\ call[w].at = "asking" /\ call[w].sample \notin tooLong
    /\ call' = [call EXCEPT ![w].at = "reading"]
    /\ UNCHANGED <<setup, next, stopped, endedBy, cutAt, answered, exchanges, records, kept, writeErr, phase, artifacts>>

\* recordingTransport.RoundTrip adds the exchange before it returns, failed or not.
Record(w, err) ==
    IF IsJudge(peer) THEN /\ held' = held \cup {call[w].sample}
                          /\ exchanged' = exchanged \cup {call[w].sample}
                     ELSE UNCHANGED exchanges

Return(w, result) == call' = [call EXCEPT ![w].at = "judged", ![w].result = result]

\* A whole reply, whether or not the context has ended meanwhile.
Reply(w) ==
    /\ call[w].at = "reading"
    /\ \E reply \in Replies(peer) \ {"cut"} :
          /\ reply = "status" => HasBody(peer)
          /\ reply \in Codes => reply \in GraderCodes
          /\ Return(w, Replied(peer, reply))
    /\ answered' = answered \cup {call[w].sample}
    /\ Record(w, "nil")
    /\ UNCHANGED <<setup, next, stopped, endedBy, cutAt, records, kept, writeErr, phase, artifacts>>

\* The context ends the exchange while nothing has come back: an error of the context.
Abandon(w) ==
    /\ call[w].at = "asking" /\ endedBy[call[w].sample] # "no"
    /\ Return(w, Failed(peer, endedBy[call[w].sample]))
    /\ cutAt' = [cutAt EXCEPT ![call[w].sample] = "asking"]
    /\ Record(w, "context")
    /\ UNCHANGED <<setup, next, stopped, endedBy, answered, records, kept, writeErr, phase, artifacts>>

\* No connection, no process, or a request that could not be sent whole.
Unreachable(w) ==
    /\ call[w].at = "asking"
    /\ "connection" \in Faults \/ call[w].sample \in tooLong
    /\ Return(w, Failed(peer, "broken"))
    /\ Record(w, "broken")
    /\ UNCHANGED <<setup, next, stopped, endedBy, cutAt, answered, records, kept, writeErr, phase, artifacts>>

\* The reading ends early, at the end of the context, of the connection or the process, or
\* of what is kept of a reply.  captureResponseBody hands on what it has without the error,
\* HTTPJSON.interpret does not look which error it is, and readLine takes what it has at the
\* end of the output for the answer; only another error of the pipe is the context's.
CutBody(w) ==
    /\ call[w].at = "reading"
    /\ \/ /\ endedBy[call[w].sample] # "no"
          /\ cutAt' = [cutAt EXCEPT ![call[w].sample] = "reading"]
       \/ "connection" \in Faults /\ UNCHANGED cutAt
    /\ \/ Return(w, Replied(peer, "cut"))
       \/ /\ ~HasBody(peer)
          /\ LET ended == endedBy[call[w].sample]
             IN Return(w, Failed(peer, IF ended # "no" THEN ended ELSE "broken"))
    /\ Record(w, "nil")
    /\ UNCHANGED <<setup, next, stopped, endedBy, answered, records, kept, writeErr, phase, artifacts>>

-----------------------------------------------------------------------------
(* The stop, and the writer *)

\* workerCtx is cancelled: every call that still runs loses its context.
CancelCalls ==
    endedBy' = [s \in Samples |->
        IF endedBy[s] = "no" /\ \E w \in Workers : Live(call[w]) /\ call[w].sample = s
        THEN "canceled" ELSE endedBy[s]]

Interrupt ==
    /\ stopped = "no" /\ phase = "grading"
    /\ stopped' = "interrupt"
    /\ CancelCalls
    /\ UNCHANGED <<setup, next, call, cutAt, answered, exchanges, records, kept, writeErr, phase, artifacts>>

\* Slip: the log file is created anew by each sample.
KeepTruncating(s) ==
    /\ \/ /\ logs' = [logs EXCEPT ![nameOf[s]] = {s}]
          /\ logsDir' = TRUE
          /\ UNCHANGED errors
       \/ /\ {"mkdir", "log"} \cap Faults # {}
          /\ errors' = errors \cup {s}
          /\ UNCHANGED <<logs, logsDir>>

\* LogWriter.Keep: the directory at the first time, then the sample's file, to append to it.
\* An error is put into errors.jsonl; the directory stays.
Keep(s) ==
    \/ /\ logs' = [logs EXCEPT ![nameOf[s]] = @ \cup {s}]
       /\ logsDir' = TRUE
       /\ UNCHANGED errors
    \/ /\ "mkdir" \in Faults /\ ~logsDir
       /\ errors' = errors \cup {s}
       /\ UNCHANGED <<logs, logsDir>>
    \/ /\ "log" \in Faults
       /\ logsDir' = TRUE
       /\ errors' = errors \cup {s}
       /\ UNCHANGED logs

\* Slip: everything but a success is kept.
RetainUnlessSuccess(s, verdict) ==
    /\ held' = held \ {s}
    /\ IF IsJudge(peer) /\ s \in held /\ (verdict # "success" \/ keepAll) THEN Keep(s) ELSE UNCHANGED kept

\* Slip: the exchanges of a skipped sample are left in the recorder.
RetainCompleted(s, verdict) ==
    IF verdict = "skipped" THEN UNCHANGED <<held, kept>>
    ELSE /\ held' = held \ {s}
         /\ IF s \in held /\ (verdict \in Codes \/ keepAll) THEN Keep(s) ELSE UNCHANGED kept

\* writer.retainLogs: a failed sample's exchanges go to the log, those of any other are
\* dropped, unless all are to be kept.  Either way the recorder forgets them.
Retain(s, verdict) ==
    /\ held' = held \ {s}
    /\ IF s \in held /\ (verdict \in Codes \/ keepAll) THEN Keep(s) ELSE UNCHANGED kept

\* Slip: a worker that finds the run stopped drops the verdict it has.
DropAfterStop(w) ==
    /\ call[w].at = "judged" /\ (call[w].result = "canceled" \/ stopped # "no")
    /\ call' = [call EXCEPT ![w].at = "idle", ![w].result = "none"]
    /\ UNCHANGED <<setup, next, stopped, endedBy, cutAt, answered, exchanges, records, kept, writeErr, phase, artifacts>>

\* A cancelled call leaves no record, and its worker finds the run stopped.
Drop(w) ==
    /\ call[w].at = "judged" /\ call[w].result = "canceled"
    /\ call' = [call EXCEPT ![w].at = "idle", ![w].result = "none"]
    /\ UNCHANGED <<setup, next, stopped, endedBy, cutAt, answered, exchanges, records, kept, writeErr, phase, artifacts>>

\* Any other call is recorded; a failed one is what stops a fail-fast run.
Write(w) ==
    /\ call[w].at = "judged" /\ call[w].result # "canceled" /\ ~writeErr
    /\ records' = [records EXCEPT ![call[w].sample] = call[w].result]
    /\ Retain(call[w].sample, call[w].result)
    /\ call' = [call EXCEPT ![w].at = "idle", ![w].result = "none"]
    /\ IF FailFast /\ call[w].result \in Codes /\ stopped = "no"
       THEN stopped' = "fail_fast" /\ CancelCalls
       ELSE UNCHANGED <<stopped, endedBy>>
    /\ UNCHANGED <<setup, next, cutAt, answered, exchanged, writeErr, phase, artifacts>>

\* A record that cannot be written, and every one after it: the writer acknowledges them and
\* does nothing else, and the workers go on.
WriteFails(w) ==
    /\ call[w].at = "judged" /\ call[w].result # "canceled"
    /\ writeErr \/ "write" \in Faults
    /\ writeErr' = TRUE
    /\ call' = [call EXCEPT ![w].at = "idle", ![w].result = "none"]
    /\ UNCHANGED <<setup, next, stopped, endedBy, cutAt, answered, exchanges, records, kept, phase, artifacts>>

Idle == \A w \in Workers : call[w].at = "idle"
Missing == {s \in Samples : records[s] = "none"}

\* Slip: the backfill does not wait for the workers.
SkipAtOnce(s) ==
    /\ phase = "grading" /\ stopped # "no" /\ ~writeErr
    /\ s \in Missing /\ \A t \in Missing : s <= t
    /\ records' = [records EXCEPT ![s] = "skipped"]
    /\ Retain(s, "skipped")
    /\ UNCHANGED <<setup, next, stopped, call, endedBy, cutAt, answered, exchanged, writeErr, phase, artifacts>>

\* The backfill: one skipped record for each sample that has none, in input order.
Skip(s) ==
    /\ phase = "grading" /\ Idle /\ stopped # "no" /\ ~writeErr
    /\ s \in Missing /\ \A t \in Missing : s <= t
    /\ records' = [records EXCEPT ![s] = "skipped"]
    /\ Retain(s, "skipped")
    /\ UNCHANGED <<setup, next, stopped, call, endedBy, cutAt, answered, exchanged, writeErr, phase, artifacts>>

\* Run returns the writer's error, of before the backfill or of it, and the directory with
\* all that was written is discarded.
Abort ==
    /\ phase = "grading" /\ Idle
    /\ \/ writeErr /\ (stopped # "no" \/ next > Rows)
       \/ "write" \in Faults /\ stopped # "no" /\ Missing # {}
    /\ writeErr' = TRUE
    /\ phase' = "failed"
    /\ UNCHANGED <<setup, next, stopped, call, endedBy, cutAt, answered, exchanges, records, kept, artifacts>>

\* Slip: the logs are named whenever a sample has failed.
WriteResultNamingLogs ==
    /\ phase = "grading" /\ Idle /\ ~writeErr /\ Missing = {}
    /\ artifacts' = [logs |-> \E s \in Samples : records[s] \in Codes,
                     errors |-> errors # {}, written |-> FALSE]
    /\ phase' = "flushing"
    /\ UNCHANGED <<setup, next, stopped, call, endedBy, cutAt, answered, exchanges, records, kept, writeErr>>

\* result.json, with what artifactsOf says by then.
WriteResult ==
    /\ phase = "grading" /\ Idle /\ ~writeErr /\ Missing = {}
    /\ artifacts' = [logs |-> logsDir, errors |-> errors # {}, written |-> FALSE]
    /\ phase' = "flushing"
    /\ UNCHANGED <<setup, next, stopped, call, endedBy, cutAt, answered, exchanges, records, kept, writeErr>>

\* ErrorLog.Flush, whose failure does not fail the run.
Flush ==
    /\ phase = "flushing"
    /\ \E ok \in {TRUE} \cup (IF "errors" \in Faults THEN {FALSE} ELSE {}) :
          artifacts' = [artifacts EXCEPT !.written = ok /\ errors # {}]
    /\ phase' = "done"
    /\ UNCHANGED <<setup, next, stopped, call, endedBy, cutAt, answered, exchanges, records, kept, writeErr>>

Terminating == phase \in {"done", "failed"} /\ UNCHANGED vars

Worker(w) ==
    \/ Begin(w) \/ Deadline(w) \/ Headers(w) \/ Reply(w) \/ Abandon(w) \/ Unreachable(w)
    \/ CutBody(w) \/ Drop(w) \/ Write(w) \/ WriteFails(w)

Next ==
    \/ \E w \in Workers : Worker(w)
    \/ \E s \in Samples : Skip(s)
    \/ Interrupt \/ Abort \/ WriteResult \/ Flush \/ Terminating

Spec == Init /\ [][Next]_vars

-----------------------------------------------------------------------------
(* Properties *)

\* runner.go:498-526, transport.go:98-103: whatever the Judge was asked about a sample that
\* failed can be read afterwards, or errors.jsonl says why not, whatever the workers, the
\* stop and the writer do in between, and also where samples share a log file.
EvidenceIsKept ==
    \A s \in exchanged : records[s] \in Codes \/ (keepAll /\ records[s] # "none") =>
        s \in logs[nameOf[s]] \cup errors

\* ... and nothing is kept of a sample that succeeded or was cut off by the stop:
\* "a successful run of ten thousand samples should not leave ten thousand prompt echoes".
OnlyFailuresAreKept ==
    \A s, f \in Samples : s \in logs[f] => keepAll \/ records[s] \in Codes

\* transport.go:99-103, as far as it is true: the recorder holds nothing of a sample that has
\* its record, and, as long as records can be written, the exchanges of one sample for each
\* worker at most, also of those that the stop cut off.
RecorderIsBounded ==
    /\ \A s \in held : records[s] = "none"
    /\ ~writeErr => Cardinality(held) <= Cardinality(Workers)

\* doc/protocol.md on artifacts: what the result names was written to, or errors.jsonl has
\* the reason; whatever was written to is named; and an errors.jsonl that is there is named.
ArtifactsAreTrue ==
    phase = "done" =>
        /\ artifacts.logs => \E s \in Samples : s \in errors \/ \E f \in Samples : s \in logs[f]
        /\ (\E f \in Samples : logs[f] # {}) => artifacts.logs
        /\ artifacts.written => artifacts.errors

\* judge.go:70-77, runner.go:305-310: a timeout is recorded of calls that ran out of time,
\* unless an external Grader answered that itself, and a sample is skipped only if its call
\* was cut off by the stop before an answer was whole, or never begun; a verdict that was
\* reached is recorded, stop or no stop.
VerdictsAreTrue ==
    \A s \in Samples :
        /\ records[s] = "timeout" => endedBy[s] = "deadline" \/ (s \in answered /\ ~IsJudge(peer))
        /\ records[s] = "skipped" =>
               stopped # "no" /\ s \notin answered /\ (endedBy[s] = "canceled" \/ s >= next)

\* What is to be said of a call that was cut off by the end of its context.
Due(s) == IF endedBy[s] = "canceled" THEN "skipped" ELSE "timeout"

\* A call that is cut off before anything has come back is skipped or a timeout, as the
\* end of its context was a stop or a deadline, by whichever peer and of however many.
AbandonedIsReported ==
    \A s \in Samples : cutAt[s] = "asking" => records[s] \in {"none", Due(s)}

\* judge.go:70-77 ("a cancelled sample was never finished at all and must be recorded as
\* skipped") and doc/protocol.md:257 (timeout) of a call that is cut off while its reply
\* is being read.
CutIsReported ==
    \A s \in Samples : cutAt[s] = "reading" => records[s] \in {"none", Due(s)}

-----------------------------------------------------------------------------
(* Evidence implements Ledger *)

VerdictOf(s) == IF records[s] \in {"none", "skipped"} THEN records[s] ELSE "completed"

L == INSTANCE Ledger WITH
        MaxRows <- Rows,
        verdicts <- [s \in Samples |-> VerdictOf(s)],
        reason <- IF stopped = "no" THEN "none" ELSE stopped,
        returned <- CASE phase = "grading" -> "no"
                      [] phase = "failed"  -> "fault"
                      [] OTHER             -> "ok"

\* runner.go:1-6, :305-310, :419-421: whatever ends the calls, a row gets one verdict, which
\* is kept, the first reason to stop is kept, and once the backfill has skipped a row no
\* other one is evaluated: of the rows without a record none is in a worker's hands.
ImplementsLedger == L!Spec
=============================================================================
