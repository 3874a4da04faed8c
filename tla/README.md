# A TLA+ model of EvalExec

EvalExec grades a dataset of agent sessions with one Grader and writes one
result directory. Its promise is not about scores but about trust: one record
for each row of the dataset, however the run ends; a result directory that is
whole or absent; a summary that agrees with its records; evidence for every
failure; and no run begun on a request that cannot be graded. This directory
holds a TLA+ model of the code that keeps that promise, the TLC configurations
that check it, and proofs, checked by TLAPS, of what matters most for every
number of workers, rows, samples, scores and processes.

Paths and line numbers below are those of the repository. `PROJECT.json` lists
the source lines each definition stands for.

## The system

| Component | Code | State it keeps | Operations | What makes it correct |
|---|---|---|---|---|
| Runner | `internal/runner` | in-flight rows, stopper, two unbuffered channels, `records.jsonl`, totals | dispatch, grade, write, stop, backfill | one record per row; one true stop reason; bounded overshoot; it ends |
| Subprocess pool | `internal/subprocess`, `internal/grader/external/stdiojsonl.go` | idle and all Processes, each one's child, pipes and `cmd`, a watcher per Call | Acquire, Call, Release, Close, kill | a verdict reaches its own sample; one user per Process; a context that ends frees the worker; no child is left |
| Summary and validation | `internal/summary`, `evalspec/validate.go` | counts, sums, minimum, maximum | Add, Status, Validate | the totals are those of the records; what healthy runs produce is accepted |
| Orchestration and result directory | `evalexec.go`, `internal/result`, `internal/exitcode`, `cmd/evalexec` | pending directory, target, signals received | pre-check, create, execute, checksum, publish, discard, exit | whole or absent; never replaced; a truthful exit code; nothing left behind |
| Pre-checks | `internal/validate` | a report | six ordered steps | the first objection is the one reported; what is admitted can be graded; nothing is written |
| Dataset reader | `internal/dataset` | position, case ids | Next, Add | sequence = line, no phantom rows, duplicates found |
| Judge and providers | `judge`, `internal/judge/provider` | credential, two timeouts | New, Complete, Classify | a cancellation is no failure; the right error code; what the check builds can be built again |
| Recorder, logs, `errors.jsonl` | `internal/judge/transport`, `internal/result` | exchanges per sample, open log files, entries | add, Take, Discard, Keep, Flush | evidence for every failed sample, none for others, and `artifacts` names what is there |
| HTTP Grader, built-in Graders, registry | `internal/grader`, `grader` | the registered entries | Register, Build, Grade | a declaration says all that Grade reads; classification of failures |
| Command line | `internal/cli` | none | Parse: flags, request file, component files, overrides | the user's last word is what is run |
| Redaction | `internal/redact` | none | Request | no credential in the snapshot |
| Identifiers, times, version, wire types | `evalspec`, `evalerr`, `id.go` | none | | data |

How they interact: the command line is made into a request; `evalexec.Run` calls the pre-checks, builds the Judge and the
Grader, makes the pending directory and calls `runner.Run` with the open
`records.jsonl`. The runner's workers call the Grader (which may call the Judge,
or a child through the pool), hand records over a channel to the one writer,
which validates them, writes them, adds them to the summary, keeps or drops the
Judge's exchanges that the recorder collected meanwhile, and may stop the run. Stopping is the cancellation of a context; signals become such a
cancellation in `cmd/evalexec`. What comes back is validated, written and
published by one rename.

What is hard here: the stop may come from three sides (a failed record, a
signal, the caller) at any point of four kinds of goroutines; a kill of a child
runs beside the goroutine that uses it; a call may be cut off at any point of
its exchange, and the recorder and the writer then have to agree about it;
several processes may want one directory and any of them may die; what was
checked may have changed when it is used; numbers are rounded.

## Modules

| Module | What it is |
|---|---|
| `Ledger` | what `runner.Run` promises: verdicts per row, a reason, an end |
| `Runner` | the goroutines of `runner.Run`; implements `Ledger` |
| `RunnerMC` | its instances for TLC |
| `RunnerProofs`, `RunnerRefinement`, `RunnerStopProofs` | its invariants, the implementation of `Ledger`, and the bounds on a stop, proved |
| `GraderCalls` | what a stdio Grader promises the runner: one final verdict per sample, its own, and every other outcome with its cause |
| `Subprocess`, `SubprocessMC` | the pool, its Processes, children, watchers and kills; implements `GraderCalls` |
| `SubprocessProofs` | its invariants and the implementation of `GraderCalls`, proved |
| `Summary`, `SummaryMC`, `SummaryProofs` | the Accumulator and the validation of its result |
| `Publication` | what an output directory promises to several processes |
| `EvalRun`, `EvalRunMC`, `EvalRunProofs` | `evalexec.Run` as the command runs it; implements `Publication` |
| `Judging` | operators: what one call to a Judge or an external Grader comes to |
| `Evidence`, `EvidenceMC`, `EvidenceProofs` | the calls, the recorder, `logs/`, `errors.jsonl` and `artifacts`; uses `Judging`, implements `Ledger` |
| `GraderConfig`, `JudgeConfig` | operators: what Graders declare, accept and read; what a Judge is built of |
| `Command` | operators: flags, files and overrides made into a request |
| `Admission`, `AdmissionMC`, `AdmissionProofs` | from the command line to the last check before anything is written; uses the three above |

A definition introduced by `Slip:` is not part of a model. It is the definition
after it with a plausible mistake, and a property listed with it in
`PROJECT.json` notices that mistake.

### Runner

`main` is the program counter of `Run`, `dispatch` and `backfill`, which are one
goroutine; `wpc[w]` and `writer` are those of the workers and the writer. The
channels are unbuffered, so a send and its receive are one step (`SendJob`,
`ReceiveResult`), and the choice of the dispatcher's `select` is the choice
between `SendJob` and `GiveUpSending`. `grade` begins in one step and returns in
another; in between anything else may happen. A return may be a verdict, an
error, or the end of the call's context, which is the stop or the Grader's
timeout. `stopper.stop` is two steps, the reason under the lock and the cancel
after it (`DispatchCancels`, `WriterCancels`), and a cancellation of the
caller's context reaches the workers' context in a step of its own
(`Propagate`). A record is a row, a status and a code; everything else in it is
left out. `records`, `Seen` and the totals change in one step, because one
goroutine changes them.

Two switches of the environment are off in some runs: `Faults` may hold
`"spurious"`, a Grader that reports a cancellation nobody asked for (the code
then fails the run, which is right), and `CallerMay` may hold `"deadline"`, a
library caller whose context has a deadline.

### Subprocess

One sample is one `Call`. `killLocked` is three steps (`EnterKill`/`Kill`,
`Wait`, `Clear`) since the watcher runs it without the lock while `Release`
closes the same Process, and the check of `cmd`, its use and its reset are then
separate. The lock itself is not modelled: `ExclusiveUse` shows that nobody ever
waits for it. A nil dereference panics: in a worker it is recovered by
`safeGrade` (`Panic`), in a watcher it ends the program (`crashed`). The child
is external: it may answer, crash, or do neither. One that dies may have written a
part of its line, which `readLine` hands on as an answer (`ReadTorn`): no error to
`Call`, an unusable reply to its caller. After the run `Pool.Close`
closes what is left; it is one more killer, `Closer`, which is neither a worker
nor a sample.

`GraderCalls` knows the samples, who has one in hand, and what was handed back
for each. A verdict counts as handed back when the worker's Grade returns
(`Finish`) and not when the answer is read: until then the Close of a Process that
failed may still panic and make the verdict another.

### Summary

Each record is folded in one step. The parameter `Floats` is the set of numbers
a float64 can be, as integers: every one is a whole multiple of the smallest
positive one. They may be negative, as the scores of the code may. A sum or a mean
is rounded to the nearest, ties to even, so what is shown holds for float64 as for
the numbers of three or four significant bits that TLC tries. Usage is one counter, and labels,
reasons and evidence are left out. NaN and infinity do not occur: a score read from
JSON is finite, and overflow of the sum is not modelled.

### EvalRun

A process goes through `pc`. A directory is known by the process that made it;
`entry` says which directory a name leads to, so that a rename moves it and a
writer that holds a file open writes to the directory it opened. What is in a
directory is who wrote and who closed `records.jsonl`, whose `result.json` it
is, and what the checksums were taken over. `Rename` is two steps because
`os.Rename` looks for a directory at the new name before it calls `rename(2)`,
which looks again. `runner.Run` is the one step `Grade`, which reads the dataset
at one moment; `Runner` is about what happens inside it. `RemoveAll` is one step,
which may fail and then leaves any of the files (`RemoveTmpFails`): `Create`
reports that, `Run` ignores it when it discards, and `unremoved` remembers those it
happened to. The files under `logs/` and `errors.jsonl` are those of Evidence.
`SameIdOverlaps` says whether two processes with one eval_id may live at the
same time; every claim about EvalRun is for `FALSE` (see the known divergences).

### Judging and Evidence

`Judging` has no state. It follows a reply, or an error of the transport,
through the provider's parser, `judge.Classify` and `llm_judge`'s reading of the
text, or through the HTTP Grader's or the stdio Grader's decoder, to the verdict.
A reply is one of a few kinds: what the code tells apart. A valid failure of an
external Grader is adopted with the code it carries, whichever that is, `timeout`
included (`Adopt`).

`Evidence` puts these calls on the workers of the runner, in larger steps than
`Runner` takes: a row that is read and never graded is the same as one that is
never read, and a worker gives its record to the writer in one step with what the
writer does with it, since the worker waits for the acknowledgement. What is kept
apart is what matters to a call: it is asking until the headers have come and
reading until the body has; the end of its context (`endedBy`, a deadline or the
stop) is a step of its own, and the transport may notice it, or be done first.
`recordingTransport` adds the exchange before it returns (`Record`), on the
worker; the writer takes or discards it (`Retain`) with the record, or in the
backfill. For `Ledger` a sample is decided when it has its record, and the run
returns with `WriteResult`; a failing record and the stop it causes are one step
here, which `Ledger` allows. `nameOf` maps samples to log files, alike or not, because case_ids are
sanitized and cut. A record that cannot be written (`WriteFails`) ends the writing,
not the grading: the writer acknowledges that record and all later ones without
looking at their exchanges, and the run fails once the workers are done (`Abort`).
A request or reply over the recorder's limit is cut in what
is sent and read, which the code does and the model follows (`tooLong`,
`CutBody`). The stdio Judge's Processes are those of Subprocess and are not
repeated.

### Command, GraderConfig, JudgeConfig and Admission

Here a parameter, a field or a path has a kind in place of a value: a text, a
blank one, one that is no regular expression, one that looks like a credential;
a whole number or another; given by a flag or by a file. Those are the
distinctions that the checks make. A row is a function from the fields it has,
so that a field that is null is there and one that is absent is not. A rule Grader's
comparison is left out: `RuleVerdicts` is the set of verdicts it may come to on a
row, and says when there can be none for want of a reference. That a schema
compiles and yet cannot be applied to a document is not modelled.

`Admission` takes `cli.Parse` in one step, each of the six checks of
`validate.All` in one step (the dataset: one for each line), then the redaction,
`buildJudge` and `buildGrader`, each looking at the world as it is by then: the
output directory, the credential in the environment, the executable and the
dataset. `Change` alters the world in between. The verdict has the kind of the
error, which decides the exit code, the step it names, and the step during which
it came.

## What the runs check

### Passing

| Run | Bounds | Shows |
|---|---|---|
| `RunnerStop` | 2 workers, up to 4 rows, fail-fast, interrupt, deadlines, write errors, changed dataset | `TypeOK`, `IInv`, `OneRecordPerRow`, `NoSendAfterClose`, `NoLostRows`, `ReasonIsTrue`, `FailFastOvershoot`, `OvertakesBounded`, `EvaluatedIsKept`, `ImplementsLedger` |
| `RunnerEnds` | 2 workers, up to 3 rows, no Grader timeout, all faults | `StopEndsRun` |
| `SubprocessPool` | 2 workers, 2 samples, timeouts, all faults | `TypeOK`, `AnswerIsOwn`, `ExclusiveUse` |
| `SubprocessEnds` | 1 worker, 2 samples, timeouts, crashes | `EndedContextEndsCall`, `StopFreesWorkers`, `ImplementsGraderCalls` |
| `SummaryTotals` | 3 records, 2 negative scores and a positive one, three-bit numbers | `TypeOK`, `ResultIdentities`, `TotalsAreTheRecords` |
| `EvalRunPublish` | 2 processes, 2 eval_ids, equal ones not at the same time, all faults, up to 3 signals each, a change of the dataset | `TypeOK`, `NoLitter`, `ImplementsPublication` |
| `EvidenceKept` | 2 workers, 3 samples, each of the 4 peers, 2 codes of an external Grader's own, log files shared by all or none, one request too long or none, fail-fast, interrupt, deadlines, all faults | `TypeOK`, `EvidenceIsKept`, `OnlyFailuresAreKept`, `RecorderIsBounded`, `ArtifactsAreTrue`, `VerdictsAreTrue`, `AbandonedIsReported`, `ImplementsLedger` |
| `AdmissionChecks` | 87 commands, 2 programs, 22 worlds, 9 datasets, one change | `TypeOK`, `FlagsWin`, `FirstObjectionIsReported`, `AdmittedIsGraded`, `RowsAreTheLines`, `FirstBadLineIsReported`, `LateFailureMeansChange` |

`RunnerStop`: a run that returns a result has one record per row and loses none;
its reason is one that happened; after the first failure at most the samples the
other workers hold are evaluated, and a record overtakes at most those; a
finished evaluation is kept. For one worker the last two say that the stopping
point is deterministic and the records are in input order. `SubprocessPool`: a
sample is given its own verdict or none. `SubprocessEnds`: an
ended context ends its call, and the verdict of each sample is final, its own, and
a cancellation only after a stop. `EvalRunPublish`: when no two live
processes have the same eval_id, whoever looks at the output directory sees
nothing, what was there before, or a whole result, and a process that ends by
itself says truly whether that result is its own, and leaves no pending directory
that it could remove. `SummaryTotals`: each total is that of the records, the
extremes those of the scores also when all are negative, and every identity that
binds the totals to each other and to the status holds. `EvidenceKept`: of a sample
that failed, whatever the Judge was asked is in its log file, or `errors.jsonl`
says why not; nothing is kept of others; the recorder holds no exchange of a
recorded sample, nor of more samples than there are workers until a record cannot
be written; a timeout is recorded only of calls that ran out of time, or on an
external Grader's own word, a sample is skipped only if the stop cut it off before
its answer was whole, or it never began; and a call that is cut off before anything has come back is recorded as
what cut it off; and, as in `RunnerStop`, a sample gets one verdict, which is
kept, and none is evaluated once the backfill has skipped one.
`AdmissionChecks`: what a flag or a later override says is what is run, and what
none says is as the file says; the error is that of the first check with an
objection, a request that passes all of them has a Judge if it needs one and rows
with every field that its Grader reads, a dataset is refused for the first of its
lines that is not good and for what is wrong with that line, and a failure after the checks means that
the world has changed, apart from the exceptions that the property names.

Why these bounds are enough for the cases that matter: one worker can send the
failing record while the other is grading, is handed the third row or has just
been refused it, and a fourth row is then unread or in the dispatcher's hands;
an overshoot or an overtaking of two rows, which the properties forbid, has room
to happen. Two samples on one Process are
what a late kill needs; one worker is enough in `SubprocessEnds`, where its own
watchers, the child and the closer of the pool are the others. Three records are enough for each total to be wrong by
its first, a middle or its last record, and for the mean to leave its range. Two
processes make every race for a name that the code can have; a third would only
lose again. In `EvidenceKept` three samples on two workers let one call fail and
stop the run while another is at any point of its exchange and a third has not
begun, and a failure after that; after a record that could not be written there are
two more whose exchanges nobody takes. The log files are one for all or one for
each, and the second request is too long or none is: sharing a file and being cut
are each sample's own affair beyond that. Of the codes that an external Grader may
answer, `timeout` is the one that could be mistaken for the program's own, and
another stands for the rest. `SummaryTotals` has scores of both signs, so that a run
may have only negative ones. `AdmissionMC` lists each Grader and
each Judge protocol once sound and once with each flaw that a check looks for,
and each flaw of a world once; two flaws at a time only where the order of the
checks decides between them. One change of the world is enough to come between
any two steps. Symmetry is used for workers, samples, processes and eval_ids, in
runs without liveness properties. The Grader timeout is on in `RunnerStop`, where
it adds behaviours, and off in `RunnerEnds`, where it would take the difficulty
away. Three rows there let both workers be busy while the dispatcher waits with a
third, which is when a stop finds everyone waiting.

### Violated: where the code and its documentation part

Each of these runs checks one property that a comment or a document states, and
TLC finds a behaviour of the code that breaks it.

| Run | Property | What happens |
|---|---|---|
| `SubprocessStaleWatcher` | `FailedOnlyByChild` (`subprocess.go:100-102`) | a late watcher kills the Process under its next sample, which is reported as a broken Grader |
| `SubprocessCrash` | `WatcherSurvives` (`subprocess.go:229-230`) | a watcher finds `cmd` cleared by Release's Close between its check and its use: the program dies |
| `SummaryMean` | `ResultIsAccepted` (`evalexec.go:207`) | three equal scores have a rounded mean outside their range, and the run's result is refused: below the minimum for the four-bit numbers of the run, above the maximum for three scores of 0.1 in float64 |
| `JudgeCancel` | `CutIsReported` (`judge.go:74-77`, `doc/protocol.md:257`) | a call that runs out of time, as in the trace, or is cut off by the stop while the body of the reply is being read is recorded as `judge_error`: `transport.go:228` drops the error of the reading and hands on half a document. The run has all four peers; an HTTP Grader that is cut off there is a `protocol_error` (`httpjson.go:103`) |

### Fairness

- Runner: the Go scheduler runs a goroutine that can move, so each goroutine's
  steps are weakly fair, and so is the propagation of a cancellation. A Grade
  call is the Grader's affair: it is only assumed to come back once its context
  has ended, which the `grader.Grader` interface asks of it. Nothing makes the
  caller stop a run or a Grader answer.
- Subprocess: the goroutines and the kill. The child owes nothing.
- EvalRun, Evidence, Admission and Summary: none; only safety is checked. A
  process is a straight line of checks and file operations around the run, whose
  end is `StopEndsRun`.

## Known divergences

Beside the four above, reading the code for the model turned up places where it
does something else than a document, a comment or a user would say. The model
follows the code; none of these is counted as an error of it.

- Processes with one eval_id, or with two that sanitize or truncate alike, share
  one pending directory (`result.go:70-72`), against `result.go:1-3`: if both live
  at once, one can publish what the other is still writing. Hence
  `SameIdOverlaps = FALSE`.
- The digest of the dataset and its grading are two readings (`evalexec.go:275`
  and the runner's): a change between them that keeps the number of rows is not
  noticed, and the result then names a digest of other data than was graded
  (`doc/protocol.md:207`).
- An empty output directory passes the check (`doc/api.md:25` allows it), but
  `os.Rename` at `result.go:153` refuses any directory at the new name, after all
  the work. `RenameChecks` has it so.
- The dataset is checked line by line, fields and syntax together: a missing
  field in line 1 is reported although line 2 does not parse, so of the last two
  of the six steps the later can be reported first.
- A `judge_model` that the Grader does not use is not checked, but it is built,
  and may then be what refuses the request (`LateFailureMeansChange` names it).
- The executable of a stdio Grader is looked for only when the Grader is built.
- `--fail-fast=false` and `--concurrency 0` cannot override what a request file
  says; they are the same as no flag.
- Relative paths in flags are resolved against the directory of the request file.
- The line number of a parse error counts rows, so blank lines are not in it.
- Usage is zero for a sample that fails with `judge_error`, even when the Judge
  said what it had cost.
- A custom Grader that calls the Judge by itself gives no case id: the exchanges
  stay in the recorder, under no sample, until the run ends. `RecorderIsBounded`
  is about `llm_judge`.
- After a record could not be written, the exchanges of every later sample stay in
  the recorder until the run ends (`runner.go:460-477`), against
  `transport.go:99-103`, by which it holds those of the samples in flight only.
  `RecorderIsBounded` claims its bound until then.
- A child that dies in the middle of its line has given an answer
  (`subprocess.go:145-149`). Its Process is therefore put back with the dead child,
  against `subprocess.go:292-296` and `stdiojsonl.go:72-75`, and the next sample
  that gets it fails in its turn; and a call whose context had ended is reported as
  an unusable answer, against `subprocess.go:100-102`.
- The error of discarding the pending directory is ignored (`evalexec.go:292`,
  `:298`): what could not be removed stays, and only the first error is reported.
- `artifacts.logs` can be named although every log file failed to be written, and
  `errors.jsonl` although its flush failed; `ArtifactsAreTrue` says what does hold.

## What is proved

Every safety property that a passing run checks is a theorem, the four
refinements among them, for every set of workers and processes, every number of
rows and samples, and every choice of faults, Graders and callers. The
assumptions are those on the constants, each a named `ASSUME` in the module that
declares it: above all that the set of workers is finite, as the counting
arguments below need it. Few of these properties are inductive; the invariant is
in each case the larger part of the work.

- `RunnerProofs!TypeCorrect`, `EveryRowHasItsPlace`, `OneRecordForEachRow`,
  `NoSendOnClosedChannel`, `NoRowsLost`. `IInv`, which is `EveryRowHasItsPlace`, says where each row is: the in-flight set is exactly the
  rows read; a row read and not in the file is with the dispatcher or with exactly
  one worker; the writer works for the one worker that waits for its
  acknowledgement; the backfill's rows and the rows in the file make up the
  dataset. `OneRecordPerRow` follows since only a worker, or the backfill, adds a
  record, and for a row it alone has. `NoLostRows` needs in addition `KeptInv`,
  that a row leaves a worker without a record only in a run that is stopping.
- `RunnerStopProofs!ReasonsAreTrue`, `OvershootIsBounded`, `FinishedIsKept`,
  `OvertakingIsBounded`. The bounds count workers. After the first failing record,
  the evaluations written so far plus the workers that can still produce one are
  fewer than the workers (`LateInv`): the failing worker's own place is the one
  that is missing, for it is not released before the run is stopping. The rows that
  a record can overtake are those without a record before it, all in the hands of
  other workers (`HeldInv`, `GapInv`).
- `RunnerRefinement!RunnerImplementsLedger`: each step of the runner is a step of
  `Ledger` or a stutter, under the refinement mapping of `Runner` (a row's
  verdict is its record's status). Nothing is evaluated after a row was skipped
  because before the backfill only evaluated rows have records, and the backfill
  begins when the last worker and the writer have gone.
- `SubprocessProofs!TypeCorrect`, `OneUserPerProcess`, `OwnVerdicts`. `IInv` counts
  the Processes and children against the samples that have not asked for one, says
  in whose hands each Process is, and follows request and answer through the pipe.
  `CleanInv` is the heart of it: a Process that may be used again leads to a child
  that owes nothing, whatever a late watcher kills.
- `SubprocessProofs!PoolImplementsGraderCalls`, from four more invariants.
  `CauseInv`: every outcome has its cause. `PlaceInv`: a worker or the closer kills
  the Process it is closing and no other. `CalmInv`: as long as no context can have
  ended, only those two kill, each a Process nobody else has, and none finds its
  child gone; so nobody panics. `SturdyInv`: if the children stay up too, the child
  of a Process in use takes requests, and no call fails. The defects that
  `SubprocessStaleWatcher` and `SubprocessCrash` show therefore need a context
  that ends: nothing else in the pool reports a sound Grader as broken or brings
  the program down.
- `SummaryProofs!TypeCorrect`, `IdentitiesHold`, `TotalsAreCounted`, for every set
  of numbers, of either sign: the totals agree with each other after every record
  (`IInv`, the invariant that the others rest on), the identities of `EvalResult.Validate` hold in whatever result a run
  of valid records comes to, the place of the mean excepted, and each total is the
  number of the records it is about. `RoundedMeanStaysInRange`: if the sum were
  exact, the rounded mean would stay between minimum and maximum, negative or not. The defect that
  `SummaryMean` shows is therefore in the rounding of the sum, not in that of the
  division.
- `EvidenceProofs!TypeCorrect`, `FailuresLeaveEvidence`, `OthersLeaveNone`,
  `RecorderStaysSmall`, `ArtifactsTellTheTruth`, `VerdictsTellTheTruth`,
  `AbandonedCallsAreReported`. `IInv` follows each sample: one without a record is
  in the hands of one worker, was cut off by the stop, or was never begun, and the
  recorder holds exchanges of such samples only. `RecorderIsBounded` follows by
  counting: as long as records can be written, each sample in the recorder is the
  last one of a different worker. `VerdictsAreTrue` needs to know what each result
  a worker holds came of: a timeout of a deadline or of an answer, a cancellation of
  the stop.
- `EvidenceProofs!EvidenceImplementsLedger`: the larger steps of Evidence make the
  promise that the steps of Runner make, so that Evidence is not about another
  runner. It needs `BackfillInv`, that no worker has a call once a sample is
  skipped; the end of a run without a result (`Fault`) is Runner's alone.
- `AdmissionProofs!TypeCorrect`, `FirstObjectionWins`, `LateFailuresMeanChange`,
  `AdmittedCanBeGraded`, for any commands, programs, worlds and datasets. `IInv`
  says what each check has established about the request, and, as long as nothing
  has changed, about the world. The lemma `ReadsAreRequired` is the point of the
  last theorem: no built-in Grader reads a field that its declaration leaves out.
- `AdmissionProofs!FlagsHaveTheLastWord`, for overrides of any number. `cli.go`
  folds them into the parameters one by one. That after the first n of them each
  name has the value of the last one that has it is shown by induction over n, in
  the form that the set of numbers for which it fails has no least element.
- `AdmissionProofs!RowsAreAllLines`, `BadLinesAreReported`, for datasets of any
  length. `LinesInv` says that the rows read so far are the lines before the
  current one that are not blank, in their order, each of them good; the line at
  which the reading stops is then the first that is not.
- `EvalRunProofs!TypeCorrect`, and, when no two live processes share an eval_id,
  `NothingIsLeftBehind` and `RunImplementsPublication`: any number of processes
  implement `Publication`. `IInv` says which name leads to whose directory, what is
  in it at each step of its maker, failed removals included, and that the target, once it has somebody's
  directory, has a whole one that no other name leads to. What makes room for a
  rename is therefore never a result.

Only model-checked:

- liveness (`StopEndsRun`, `EndedContextEndsCall`, `StopFreesWorkers`), which needs
  fairness and ENABLED and is out of the prover's reach: that a stopped run ends, with all its calls, is known
  for the instances of the runs only;
- the four properties that the code breaks.

And one thing is proved and not run: what `ImplementsGraderCalls` says of a pool
without timeouts until the stop, that nobody panics and, if the children stay up,
that no Grader is reported broken. `SubprocessEnds` has a timeout, for the sake of
its liveness properties.

## What is not modelled, and why

- Documents: the comparison of values, regular expressions, JSON schemas, and the
  wording of prompts and reasons. They are functions of one document, without
  state, and their libraries are not in the repository.
- Canonical JSON, the digest of the request, the formatting of times, identifiers
  and the version: conversions that no property here depends on.
- What an exchange says in its log (headers, durations, redacted values), the
  marking of a body that was cut, and token counters beyond one.
- The text of a Judge's request, `Close`, and the timeout of `http.Client`, twice
  the call's own and never first.
- The retries and connections of `net/http`, and of the client libraries of the
  two hosted Judges.
- Windows: its kill and its rename are others.
- JSON and the file system below the calls that matter: a file operation works
  or fails, a removal that fails may have removed a part, and `MkdirAll` of the
  parent and the clearing of an old pending directory are one step.
- Overflow of a sum of scores, NaN and infinity.
- Fixtures, examples and test programs: support for tests and readers.

## What could come next

1. A composition of Runner and Summary, and of Runner and GraderCalls in place of
   the Grader's free choice of verdicts.
2. `runner.Run` inside EvalRun: that the step `Grade` is what `Ledger` allows, so
   that `Ledger` and `Publication` become one specification of the command.
3. The request's digest and the redaction as operators over small documents.
4. Connection reuse in the HTTP recorder, if the transport comes to keep state
   between samples.
