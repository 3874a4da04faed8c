-------------------------- MODULE RunnerRefinement --------------------------
(***************************************************************************)
(* Runner implements Ledger: a proof for any number of workers and rows.   *)
(* Only a few of Run's steps mean anything to the ledger; every other one  *)
(* is a stutter of it.                                                     *)
(***************************************************************************)
EXTENDS RunnerProofs

\* Before the backfill only evaluated rows have records.
EvaluatedInv ==
    main \notin {"fill", "done"} => \A i \in DOMAIN records : records[i].status = "completed"

RInv == IInv /\ EvaluatedInv

-----------------------------------------------------------------------------
(* How the verdicts follow the records *)

LEMMA VerdictsUnchanged ==
  records' = records /\ file' = file => LedgerVerdicts' = LedgerVerdicts
  BY DEF LedgerVerdicts, StatusOf, Seen

LEMMA VerdictNone ==
  ASSUME NEW r \in 1..file.rows
  PROVE  /\ r \notin Seen <=> LedgerVerdicts[r] = "none"
  BY DEF LedgerVerdicts, StatusOf, Seen

LEMMA VerdictsAppend ==
  ASSUME TypeOK, file' = file, NEW rec \in Record, records' = Append(records, rec),
         rec.seq \in 1..file.rows, rec.seq \notin Seen
  PROVE  LedgerVerdicts' = [LedgerVerdicts EXCEPT ![rec.seq] = rec.status]
  <1>1. /\ DOMAIN records' = DOMAIN records \cup {Len(records) + 1}
        /\ \A i \in DOMAIN records : records'[i] = records[i]
        /\ records'[Len(records) + 1] = rec
    <2>1. records \in Seq(Record)
      BY DEF TypeOK
    <2> QED
      BY <2>1
  <1>2. Seen' = Seen \cup {rec.seq}
    BY SeenAppend
  <1>3. ASSUME NEW r \in 1..file.rows, r # rec.seq PROVE StatusOf(r)' = StatusOf(r)
    BY <1>1, <1>2, <1>3 DEF StatusOf
  <1>4. StatusOf(rec.seq)' = rec.status
    <2>1. CASE rec.status = "completed"
      BY <1>1, <2>1 DEF StatusOf
    <2>2. CASE rec.status # "completed"
      <3>1. rec.status = "skipped"
        BY <2>2 DEF Record
      <3>2. \A i \in DOMAIN records : records[i].seq # rec.seq
        BY DEF Seen
      <3> QED
        BY <1>1, <1>2, <3>1, <3>2 DEF StatusOf
    <2> QED
      BY <2>1, <2>2
  <1> QED
    BY <1>3, <1>4 DEF LedgerVerdicts

-----------------------------------------------------------------------------

LEMMA EvaluatedStep == RInv /\ [Next]_vars => EvaluatedInv'
  <1> SUFFICES ASSUME RInv, [Next]_vars, main' \notin {"fill", "done"}
               PROVE  \A i \in DOMAIN records' : records'[i].status = "completed"
    BY DEF EvaluatedInv
  <1>1. main \notin {"fill", "done"}
    BY DEF Next, Dispatcher, Worker, Writer, GradeEnds, Terminating, vars, dispatchVars,
           workerVars, writerVars, CallerEnds, Propagate, CheckStopped, CheckContext,
           DispatchCancels, ReadRow, ReadEnd, SendJob, GiveUpSending, CloseJobs, CloseResults,
           JoinWriter, CheckErrors, CheckInterrupt, BackfillNotStopped, BackfillStopped,
           FillRow, FillFails, FillEnds, ReturnWith, BeginGrade, GradeCancelled,
           GradeReturns1, WorkerExits, ReceiveResult, WriteRecord, WriteFails, WriterStops,
           WriterCancels, Acknowledge, WriterExits
  <1>2. records' = records \/ WriteRecord
    BY <1>1 DEF Next, Dispatcher, Worker, Writer, GradeEnds, Terminating, vars, dispatchVars,
           workerVars, writerVars, CallerEnds, Propagate, CheckStopped, CheckContext,
           DispatchCancels, ReadRow, ReadEnd, SendJob, GiveUpSending, CloseJobs, CloseResults,
           JoinWriter, CheckErrors, CheckInterrupt, BackfillNotStopped, BackfillStopped,
           FillRow, FillFails, FillEnds, ReturnWith, BeginGrade, GradeCancelled,
           GradeReturns1, WorkerExits, ReceiveResult, WriteFails, WriterStops,
           WriterCancels, Acknowledge, WriterExits
  <1>3. CASE records' = records
    BY <1>1, <1>3 DEF RInv, EvaluatedInv
  <1>4. CASE WriteRecord
    <2>1. records \in Seq(Record)
      BY DEF RInv, IInv, TypeOK
    <2>2. \A i \in DOMAIN records : records[i].status = "completed"
      BY <1>1 DEF RInv, EvaluatedInv
    <2>3. records' = Append(records, CompletedRecord(job[from], verdict[from]))
      BY <1>4 DEF WriteRecord
    <2> QED
      BY <2>1, <2>2, <2>3 DEF CompletedRecord
  <1> QED
    BY <1>2, <1>3, <1>4

LEMMA RInvHolds == Spec => []RInv
  <1>1. Init => EvaluatedInv
    BY DEF Init, EvaluatedInv
  <1> QED
    BY <1>1, IInvInit, IInvStep, EvaluatedStep, PTL DEF Spec, RInv
-----------------------------------------------------------------------------

\* The steps the ledger does not see.
LEMMA StutterStep ==
  ASSUME RInv,
         \/ CallerEnds \/ Propagate \/ CheckStopped \/ DispatchCancels \/ ReadRow \/ ReadEnd
         \/ (\E w \in Workers : SendJob(w)) \/ GiveUpSending \/ CloseJobs
         \/ CloseResults \/ JoinWriter \/ (\E w \in Workers : Worker(w) \/ ReceiveResult(w))
         \/ WriteFails \/ WriterCancels \/ Acknowledge \/ WriterExits \/ UNCHANGED vars
  PROVE  UNCHANGED L!vars
  <1>1. records' = records /\ file' = file /\ reason' = reason /\ outcome' = outcome
    BY DEF Worker, GradeEnds, vars, dispatchVars, workerVars, writerVars, CallerEnds, Propagate,
           CheckStopped, DispatchCancels, ReadRow, ReadEnd, SendJob, GiveUpSending, CloseJobs,
           CloseResults, JoinWriter, BeginGrade, GradeCancelled, GradeReturns1, WorkerExits,
           ReceiveResult, WriteFails, WriterCancels, Acknowledge, WriterExits
  <1> QED
    BY <1>1, VerdictsUnchanged DEF L!vars, LedgerReturned

LEMMA NoneSkipped ==
  ASSUME RInv, main \notin {"fill", "done"}
  PROVE  \A r \in L!AllRows : LedgerVerdicts[r] # "skipped"
  BY DEF L!AllRows, LedgerVerdicts, StatusOf, Seen, RInv, EvaluatedInv

\* A record of an evaluation is the ledger's Evaluate.
LEMMA WriteStep == ASSUME RInv, WriteRecord PROVE L!Evaluate(job[from]) /\ job[from] \in L!AllRows
  <1>1. /\ wpc[from] = "ack" /\ from \in Workers
        /\ job[from] \in inflight /\ job[from] \notin Seen
        /\ ~ResultsClosed
    BY DEF WriteRecord, RInv, IInv, TypeOK, HandsInv, WriterInv, Busy, Unwritten
  <1>2. job[from] \in 1..file.rows
    BY <1>1 DEF RInv, IInv, TypeOK, DispatchInv, ResultsClosed
  <1>3. LET rec == CompletedRecord(job[from], verdict[from])
        IN  /\ rec \in Record /\ rec.seq = job[from] /\ rec.status = "completed"
            /\ records' = Append(records, rec) /\ file' = file
    BY <1>1 DEF RInv, IInv, TypeOK, Record, CompletedRecord, WriteRecord, dispatchVars
  <1>4. LedgerVerdicts' = [LedgerVerdicts EXCEPT ![job[from]] = "completed"]
    BY <1>1, <1>2, <1>3, VerdictsAppend DEF RInv, IInv
  <1>5. outcome = "running" /\ UNCHANGED <<reason, main, outcome>>
    BY <1>1 DEF RInv, IInv, EndInv, ResultsClosed, WriteRecord
  <1>6. job[from] \in L!AllRows
    BY <1>2 DEF L!AllRows, LedgerVerdicts
  <1>7. \A q \in L!AllRows : LedgerVerdicts[q] # "skipped"
    BY <1>1, NoneSkipped DEF ResultsClosed
  <1> QED
    BY <1>1, <1>2, <1>4, <1>5, <1>6, <1>7, VerdictNone DEF L!Evaluate, LedgerReturned

\* A record of the backfill is the ledger's Skip of its lowest undecided row.
LEMMA FillStep == ASSUME RInv, FillRow PROVE \E r \in L!AllRows : L!Skip(r)
  <1>1. PICK r \in InputOrder : records' = Append(records, SkippedRecord(r, reason))
    BY DEF FillRow
  <1>2. /\ main = "fill" /\ Stopped /\ outcome = "running"
        /\ UNCHANGED <<file, reason, main, outcome>>
    BY DEF FillRow, RInv, IInv, EndInv, dispatchVars
  <1>3. r \in 1..file.rows /\ r \notin Seen /\ r \in Rows
    BY <1>1, <1>2 DEF RInv, IInv, RecordsInv, TypeOK, InputOrder
  <1>4. \A q \in 1..file.rows : q < r => q \in Seen
    BY SMTT(30), <1>1, <1>2, <1>3 DEF RInv, IInv, RecordsInv, TypeOK, InputOrder, Rows
  <1>5. LET rec == SkippedRecord(r, reason)
        IN  rec \in Record /\ rec.seq = r /\ rec.status = "skipped"
    BY <1>2, <1>3 DEF RInv, IInv, TypeOK, Record, SkippedRecord, Stopped
  <1>6. LedgerVerdicts' = [LedgerVerdicts EXCEPT ![r] = "skipped"]
    BY <1>1, <1>2, <1>3, <1>5, VerdictsAppend DEF RInv, IInv
  <1>7. r \in L!AllRows /\ L!AllRows = 1..file.rows
    BY <1>3 DEF L!AllRows, LedgerVerdicts
  <1>8. L!Skip(r)
    BY <1>2, <1>3, <1>4, <1>6, <1>7, VerdictNone DEF L!Skip, LedgerReturned, Stopped
  <1> QED
    BY <1>7, <1>8

\* The three places that call stopper.stop are the ledger's Stop, for the first of them.
LEMMA StopStep ==
  ASSUME RInv, CheckContext \/ CheckInterrupt \/ WriterStops
  PROVE  L!Stop \/ UNCHANGED L!vars
  <1>1. /\ main \notin {"fill", "done"} /\ outcome = "running"
        /\ UNCHANGED <<records, file, outcome>>
        /\ reason' = reason \/ (reason = "none" /\ reason' \in StopReasons)
    BY DEF CheckContext, CheckInterrupt, WriterStops, RInv, IInv, TypeOK, EndInv, WriterInv, Fire,
           Stopped, StopReasons, ResultsClosed, dispatchVars, workerVars, writerVars
  <1>2. LedgerVerdicts' = LedgerVerdicts
    BY <1>1, VerdictsUnchanged
  <1>3. \A r \in L!AllRows : LedgerVerdicts[r] # "skipped"
    BY <1>1, NoneSkipped
  <1> QED
    BY <1>1, <1>2, <1>3 DEF L!Stop, L!vars, L!Reasons, LedgerReturned, StopReasons

\* Run returns a result only with every row decided.
LEMMA ReturnStep ==
  ASSUME RInv, IInv', CheckErrors \/ BackfillNotStopped \/ BackfillStopped \/ FillFails \/ FillEnds
  PROVE  L!Return \/ L!Fault \/ UNCHANGED L!vars
  <1>1. /\ UNCHANGED <<records, file, reason>> /\ outcome = "running"
        /\ outcome' \in {"running", "ok", "dataset", "output", "lost"}
    BY DEF CheckErrors, BackfillNotStopped, BackfillStopped, FillFails, FillEnds, ReturnWith,
           RInv, IInv, EndInv, TypeOK, dispatchVars, writerVars
  <1>2. LedgerVerdicts' = LedgerVerdicts
    BY <1>1, VerdictsUnchanged
  <1>3. CASE outcome' = "running"
    BY <1>1, <1>2, <1>3 DEF L!vars, LedgerReturned
  <1>4. CASE outcome' \in {"dataset", "output", "lost"}
    BY <1>1, <1>2, <1>4 DEF L!Fault, LedgerReturned
  <1>5. CASE outcome' = "ok"
    <2>1. Seen' = 1..file'.rows
      BY <1>5 DEF IInv, RecordsInv
    <2>2. Seen = 1..file.rows
      BY <1>1, <2>1, SeenUnchanged
    <2>3. \A r \in L!AllRows : LedgerVerdicts[r] # "none"
      BY <2>2, VerdictNone DEF L!AllRows, LedgerVerdicts
    <2> QED
      BY <1>1, <1>2, <1>5, <2>3 DEF L!Return, LedgerReturned
  <1> QED
    BY <1>1, <1>3, <1>4, <1>5

-----------------------------------------------------------------------------
(* The whole of Run, with its workers, channels, stopper and writer, behaves   *)
(* towards its caller as the ledger does: one verdict per row, the first       *)
(* reason kept, skipping in input order and only after the last evaluation     *)
(* (runner.go:1-6, :133-136, :419-421, stop.go:22-26).                         *)
THEOREM RunnerImplementsLedger == Spec => ImplementsLedger
  <1>1. Init => L!Init
    <2> SUFFICES ASSUME Init PROVE L!Init
      OBVIOUS
    <2>1. LedgerVerdicts = [r \in 1..file.rows |-> "none"] /\ file.rows \in 0..MaxRows
      <3>1. Seen = {} /\ DOMAIN records = {}
        BY DEF Init, Seen
      <3> QED
        BY <3>1 DEF Init, LedgerVerdicts, StatusOf
    <2> QED
      BY <2>1 DEF Init, L!Init, LedgerReturned
  <1>2. RInv /\ RInv' /\ [Next]_vars => [L!Next]_(L!vars)
    <2> SUFFICES ASSUME RInv, RInv', [Next]_vars PROVE L!Next \/ UNCHANGED L!vars
      OBVIOUS
    <2>1. CASE WriteRecord
      BY <2>1, WriteStep DEF L!Next
    <2>2. CASE FillRow
      BY <2>2, FillStep DEF L!Next
    <2>3. CASE CheckContext \/ CheckInterrupt \/ WriterStops
      BY <2>3, StopStep DEF L!Next
    <2>4. CASE CheckErrors \/ BackfillNotStopped \/ BackfillStopped \/ FillFails \/ FillEnds
      BY <2>4, ReturnStep DEF RInv, L!Next
    <2> QED
      BY <2>1, <2>2, <2>3, <2>4, StutterStep DEF Next, Dispatcher, Writer, Terminating
  <1> QED
    BY <1>1, <1>2, RInvHolds, PTL DEF Spec, ImplementsLedger, L!Spec
=============================================================================
