-------------------------- MODULE RunnerStopProofs --------------------------
(***************************************************************************)
(* Proofs about how Runner stops: why, how far it overshoots, how far a    *)
(* record may overtake another, and that no finished evaluation is lost.   *)
(*                                                                         *)
(* Both bounds count workers.  What can still be evaluated after the first *)
(* failure is what the other workers have in hand by then, since nobody    *)
(* begins a sample once the workers' context has ended; and the rows that  *)
(* a record can overtake are those the others had in hand when its own was *)
(* sent, as long as no sample had been dropped.                            *)
(***************************************************************************)
EXTENDS RunnerProofs, FiniteSetTheorems

SomeFailure == \E i \in DOMAIN records : Failed(records[i])

\* A stop ends the workers' context, at once or by the goroutine on its way to do so.
StopInv ==
    /\ Stopped => workerCtx # "nil" \/ main = "cancel" \/ writer = "cancel"
    /\ writer = "stop" => FailFast /\ SomeFailure
    /\ writer \in {"stop", "cancel", "ack"} => werr \/ job[from] \in Seen

\* The workers that hold a sample a record may still come of.
Able(w) ==
    \/ wpc[w] \in {"grading", "send"} \/ (wpc[w] = "ack" /\ writer = "write")
    \/ wpc[w] = "begin" /\ workerCtx = "nil"
AbleWorkers == {w \in Workers : Able(w)}

\* The failing record is the last, or nobody can begin a sample any more.
LateInv ==
    FailFast /\ SomeFailure =>
        \/ writer \in {"stop", "cancel"} /\ EvaluatedAfterFailure = {}
        \/ /\ workerCtx # "nil" \/ main = "cancel"
           /\ IsFiniteSet(EvaluatedAfterFailure)
           /\ Cardinality(EvaluatedAfterFailure) + Cardinality(AbleWorkers) < Cardinality(Workers)

\* Until the workers' context ends, every row read is in the file or in somebody's hands.
HeldInv ==
    workerCtx = "nil" /\ ~werr /\ main \notin {"fill", "done"} =>
        \A r \in inflight : \/ r \in Seen
                            \/ main = "send" /\ r = next - 1
                            \/ \E w \in Workers : Unwritten(w) /\ job[w] = r

\* The rows before r that have no record.
Gap(r) == (1..(r - 1)) \ Seen

GapInv ==
    ~werr => \A w \in Workers : Able(w) => Cardinality(Gap(job[w])) < Cardinality(Workers)

StopIInv == StopInv /\ ReasonIsTrue /\ LateInv
OrderIInv == HeldInv /\ GapInv /\ OvertakesBounded

-----------------------------------------------------------------------------
(* What changes what *)

LEMMA RecordsFrame ==
  ASSUME [Next]_vars
  PROVE  (records' = records /\ Seen' = Seen) \/ WriteRecord \/ FillRow
  BY DEF Next, Dispatcher, Worker, Writer, GradeEnds, Terminating, CallerEnds, Propagate, CheckStopped,
         CheckContext, DispatchCancels, ReadRow, ReadEnd, SendJob, GiveUpSending, CloseJobs, CloseResults,
         JoinWriter, CheckErrors, CheckInterrupt, BackfillNotStopped, BackfillStopped, FillFails, FillEnds,
         BeginGrade, GradeCancelled, GradeReturns1, WorkerExits, ReceiveResult, WriteFails, WriterStops,
         WriterCancels, Acknowledge, WriterExits, vars, writerVars, Seen

\* A record is added at the end, and is the only new thing in the file.
LEMMA Grows ==
  ASSUME IInv, [Next]_vars
  PROVE  /\ records \in Seq(Record) /\ records' \in Seq(Record)
         /\ \/ records' = records /\ Seen' = Seen
            \/ /\ WriteRecord
               /\ CompletedRecord(job[from], verdict[from]) \in Record
               /\ records' = Append(records, CompletedRecord(job[from], verdict[from]))
               /\ Seen' = Seen \cup {job[from]} /\ job[from] \notin Seen
            \/ \E r \in InputOrder : /\ FillRow
                                     /\ SkippedRecord(r, reason) \in Record
                                     /\ records' = Append(records, SkippedRecord(r, reason))
                                     /\ Seen' = Seen \cup {r}
<1>1. records \in Seq(Record) /\ TypeOK BY DEF IInv, TypeOK
<1>2. CASE records' = records /\ Seen' = Seen BY <1>1, <1>2
<1>3. CASE WriteRecord
  <2>1. /\ CompletedRecord(job[from], verdict[from]) \in Record
        /\ CompletedRecord(job[from], verdict[from]).seq = job[from]
        /\ job[from] \notin Seen
    BY <1>3 DEF WriteRecord, IInv, TypeOK, WriterInv, HandsInv, Unwritten, Busy, Record, CompletedRecord, Rows
  <2>2. records' = Append(records, CompletedRecord(job[from], verdict[from])) BY <1>3 DEF WriteRecord
  <2>3. QED BY <1>1, <1>3, <2>1, <2>2, SeenAppend
<1>4. CASE FillRow
  <2>1. PICK r \in InputOrder : records' = Append(records, SkippedRecord(r, reason)) BY <1>4 DEF FillRow
  <2>2. SkippedRecord(r, reason) \in Record /\ SkippedRecord(r, reason).seq = r
    BY <1>4 DEF FillRow, IInv, TypeOK, EndInv, InputOrder, Record, SkippedRecord, Stopped
  <2>3. QED BY <1>1, <1>4, <2>1, <2>2, SeenAppend
<1>5. QED BY <1>2, <1>3, <1>4, RecordsFrame

LEMMA AppendIndices ==
  ASSUME NEW s \in Seq(Record), NEW rec \in Record
  PROVE  /\ DOMAIN Append(s, rec) = 1..(Len(s) + 1) /\ DOMAIN s = 1..Len(s) /\ Len(s) \in Nat
         /\ \A i \in DOMAIN s : Append(s, rec)[i] = s[i] /\ s[i] \in Record
         /\ Append(s, rec)[Len(s) + 1] = rec
  OBVIOUS

-----------------------------------------------------------------------------
(* Why it stops *)

LEMMA FailureStays ==
  ASSUME IInv, [Next]_vars, SomeFailure
  PROVE  SomeFailure'
<1>1. PICK i \in DOMAIN records : Failed(records[i]) BY DEF SomeFailure
<1>2. i \in DOMAIN records' /\ records'[i] = records[i] BY Grows, AppendIndices
<1>3. QED BY <1>1, <1>2 DEF SomeFailure, Failed

LEMMA ReasonFrame ==
  ASSUME [Next]_vars
  PROVE  /\ reason' = reason \/ (~Stopped /\ \/ reason' = "fail_fast" /\ writer = "stop"
                                             \/ reason' = "interrupt" /\ ctx # "nil")
         /\ ctx # "nil" => ctx' = ctx
         /\ workerCtx # "nil" => workerCtx' = workerCtx
         /\ writer' = "stop" => writer = "stop" \/ WriteRecord
         /\ werr => werr'
  BY DEF Next, Dispatcher, Worker, Writer, GradeEnds, Terminating, CallerEnds, Propagate, CheckStopped,
         CheckContext, DispatchCancels, ReadRow, ReadEnd, SendJob, GiveUpSending, CloseJobs, CloseResults,
         JoinWriter, CheckErrors, CheckInterrupt, BackfillNotStopped, BackfillStopped, FillRow, FillFails,
         FillEnds, BeginGrade, GradeCancelled, GradeReturns1, WorkerExits, ReceiveResult, WriteRecord,
         WriteFails, WriterStops, WriterCancels, Acknowledge, WriterExits, vars, writerVars, workerVars,
         dispatchVars, Fire, Stopped, Cancelled

LEMMA StopPreserved ==
  ASSUME IInv, StopInv, [Next]_vars
  PROVE  StopInv'
<1>1. (Stopped => workerCtx # "nil" \/ main = "cancel" \/ writer = "cancel")'
  BY CallerAssumption
     DEF IInv, TypeOK, ContextErrors, StopInv,
         Next, Dispatcher, Worker, Writer, GradeEnds, Terminating, CallerEnds, Propagate, CheckStopped,
         CheckContext, DispatchCancels, ReadRow, ReadEnd, SendJob, GiveUpSending, CloseJobs, CloseResults,
         JoinWriter, CheckErrors, CheckInterrupt, BackfillNotStopped, BackfillStopped, FillRow, FillFails,
         FillEnds, BeginGrade, GradeCancelled, GradeReturns1, WorkerExits, ReceiveResult, WriteRecord,
         WriteFails, WriterStops, WriterCancels, Acknowledge, WriterExits, vars, writerVars, workerVars,
         dispatchVars, Fire, Stopped, Cancelled, ReturnWith
<1>2. (writer = "stop" => FailFast /\ SomeFailure)'
  <2>1. CASE WriteRecord
    <3>1. SUFFICES ASSUME writer' = "stop" PROVE FailFast /\ SomeFailure' BY <2>1
    <3>2. FailFast /\ Failed(CompletedRecord(job[from], verdict[from]))
      BY <2>1, <3>1 DEF WriteRecord
    <3>3. records' = Append(records, CompletedRecord(job[from], verdict[from])) BY <2>1 DEF WriteRecord
    <3>4. CompletedRecord(job[from], verdict[from]) \in Record
      BY <2>1 DEF WriteRecord, IInv, TypeOK, WriterInv, HandsInv, Busy, Record, CompletedRecord, Rows
    <3>5. QED BY <3>2, <3>3, <3>4, Grows, AppendIndices DEF SomeFailure, Failed
  <2>2. CASE ~WriteRecord BY <2>2, ReasonFrame, FailureStays DEF StopInv
  <2>3. QED BY <2>1, <2>2
<1>3. (writer \in {"stop", "cancel", "ack"} => werr \/ job[from] \in Seen)'
  <2>1. CASE WriteRecord BY <2>1, Grows DEF WriteRecord, workerVars, FillRow
  <2>2. CASE WriteFails BY <2>2 DEF WriteFails
  <2>3. CASE ~WriteRecord /\ ~WriteFails
    <3>1. writer' \in {"stop", "cancel", "ack"} =>
             writer \in {"stop", "cancel", "ack"} /\ from' = from /\ job'[from] = job[from]
      BY <2>3 DEF IInv, TypeOK, WriterInv,
         Next, Dispatcher, Worker, Writer, GradeEnds, Terminating, CallerEnds, Propagate, CheckStopped,
         CheckContext, DispatchCancels, ReadRow, ReadEnd, SendJob, GiveUpSending, CloseJobs, CloseResults,
         JoinWriter, CheckErrors, CheckInterrupt, BackfillNotStopped, BackfillStopped, FillRow, FillFails,
         FillEnds, BeginGrade, GradeCancelled, GradeReturns1, WorkerExits, ReceiveResult,
         WriterStops, WriterCancels, Acknowledge, WriterExits, vars, writerVars, workerVars, dispatchVars
    <3>2. Seen \subseteq Seen' BY Grows
    <3>3. QED BY <3>1, <3>2, ReasonFrame DEF StopInv
  <2>4. QED BY <2>1, <2>2, <2>3
<1>4. QED BY <1>1, <1>2, <1>3 DEF StopInv

LEMMA ReasonPreserved ==
  ASSUME IInv, StopInv, ReasonIsTrue, [Next]_vars
  PROVE  ReasonIsTrue'
<1>1. (reason = "fail_fast" => FailFast /\ SomeFailure)'
  BY ReasonFrame, FailureStays DEF ReasonIsTrue, StopInv, SomeFailure
<1>2. (reason = "interrupt" => ctx # "nil")' BY ReasonFrame DEF ReasonIsTrue
<1>3. ASSUME NEW i \in DOMAIN records', records'[i].status = "skipped" PROVE records'[i].code = reason'
  <2>1. CASE i \in DOMAIN records /\ records'[i] = records[i]
    <3>1. records[i].code = reason BY <1>3, <2>1 DEF ReasonIsTrue
    <3>2. reason # "none"
      <4>1. records[i] \in Record BY <2>1 DEF IInv, TypeOK
      <4>2. QED BY <1>3, <2>1, <3>1, <4>1 DEF Record, StopReasons, Evaluations
    <3>3. reason' = reason BY <3>2, ReasonFrame DEF Stopped
    <3>4. QED BY <2>1, <3>1, <3>3
  <2>2. CASE WriteRecord /\ i = Len(records) + 1
             /\ CompletedRecord(job[from], verdict[from]) \in Record
             /\ records' = Append(records, CompletedRecord(job[from], verdict[from]))
    <3>1. records'[i] = CompletedRecord(job[from], verdict[from]) BY <2>2, Grows, AppendIndices
    <3>2. QED BY <1>3, <3>1 DEF CompletedRecord
  <2>3. CASE FillRow /\ i = Len(records) + 1
             /\ \E r \in InputOrder : /\ SkippedRecord(r, reason) \in Record
                                      /\ records' = Append(records, SkippedRecord(r, reason))
    <3>1. records'[i].code = reason BY <2>3, Grows, AppendIndices DEF SkippedRecord
    <3>2. reason' = reason BY <2>3 DEF FillRow
    <3>3. QED BY <3>1, <3>2
  <2>4. QED BY <2>1, <2>2, <2>3, Grows, AppendIndices
<1>4. QED BY <1>1, <1>2, <1>3 DEF ReasonIsTrue, SomeFailure

-----------------------------------------------------------------------------
(* How much is evaluated after a failure *)

\* What a record adds to the evaluations after the first failure.
LEMMA LateGrows ==
  ASSUME IInv, [Next]_vars
  PROVE  /\ ~WriteRecord => /\ EvaluatedAfterFailure' = EvaluatedAfterFailure
                            /\ SomeFailure' => SomeFailure
         /\ WriteRecord /\ SomeFailure =>
               EvaluatedAfterFailure' = EvaluatedAfterFailure \cup {Len(records) + 1}
         /\ WriteRecord /\ ~SomeFailure /\ SomeFailure' =>
               /\ EvaluatedAfterFailure' = {}
               /\ FailFast => writer' = "stop"
<1>1. CASE records' = records BY <1>1 DEF EvaluatedAfterFailure, SomeFailure, Failed, WriteRecord, IInv, TypeOK
<1>2. CASE FillRow
  <2>1. PICK r \in InputOrder : /\ SkippedRecord(r, reason) \in Record
                                /\ records' = Append(records, SkippedRecord(r, reason))
    BY <1>2, Grows DEF FillRow, WriteRecord
  <2>2. /\ DOMAIN records = 1..Len(records) /\ DOMAIN records' = 1..(Len(records) + 1)
        /\ Len(records) \in Nat
        /\ \A i \in DOMAIN records : records'[i] = records[i]
        /\ records'[Len(records) + 1].status = "skipped"
    BY <2>1, Grows, AppendIndices DEF SkippedRecord
  <2>3. SomeFailure' => SomeFailure BY <2>2 DEF SomeFailure, Failed
  <2>4. EvaluatedAfterFailure' = EvaluatedAfterFailure BY <2>2 DEF EvaluatedAfterFailure, Failed
  <2>5. ~WriteRecord BY <1>2 DEF WriteRecord, FillRow
  <2>6. QED BY <2>3, <2>4, <2>5
<1>3. CASE WriteRecord
  <2> DEFINE rec == CompletedRecord(job[from], verdict[from])
  <2>1. rec \in Record /\ records' = Append(records, rec) BY <1>3, Grows DEF WriteRecord, FillRow
  <2>2. /\ DOMAIN records = 1..Len(records) /\ DOMAIN records' = 1..(Len(records) + 1)
        /\ Len(records) \in Nat
        /\ \A i \in DOMAIN records : records'[i] = records[i]
        /\ records'[Len(records) + 1] = rec /\ rec.status = "completed"
    BY <2>1, Grows, AppendIndices DEF CompletedRecord
  <2>3. ASSUME SomeFailure
        PROVE  EvaluatedAfterFailure' = EvaluatedAfterFailure \cup {Len(records) + 1}
    BY <2>2, <2>3 DEF EvaluatedAfterFailure, SomeFailure, Failed
  <2>4. ASSUME ~SomeFailure, SomeFailure' PROVE EvaluatedAfterFailure' = {} /\ Failed(rec)
    <3>1. \A i \in DOMAIN records : ~Failed(records'[i]) BY <2>2, <2>4 DEF SomeFailure, Failed
    <3>2. EvaluatedAfterFailure' = {} BY <2>2, <3>1 DEF EvaluatedAfterFailure, Failed
    <3>3. Failed(rec) BY <2>2, <2>4, <3>1 DEF SomeFailure, Failed
    <3>4. QED BY <3>2, <3>3
  <2>5. FailFast /\ Failed(rec) => writer' = "stop" BY <1>3 DEF WriteRecord
  <2>6. QED BY <1>3, <2>3, <2>4, <2>5
<1>4. QED BY <1>1, <1>2, <1>3, RecordsFrame

\* Nobody begins a sample once the workers' context has ended, or is about to.
LEMMA AbleMoves ==
  ASSUME IInv, [Next]_vars, workerCtx # "nil" \/ main = "cancel"
  PROVE  /\ (workerCtx # "nil" \/ main = "cancel")'
         /\ AbleWorkers' \subseteq AbleWorkers
         /\ WriteRecord => from \in AbleWorkers /\ from \notin AbleWorkers'
<1> USE DEF Next, Dispatcher, Worker, Writer, GradeEnds, Terminating, CallerEnds, Propagate, CheckStopped,
         CheckContext, DispatchCancels, ReadRow, ReadEnd, SendJob, GiveUpSending, CloseJobs, CloseResults,
         JoinWriter, CheckErrors, CheckInterrupt, BackfillNotStopped, BackfillStopped, FillRow, FillFails,
         FillEnds, BeginGrade, GradeCancelled, GradeReturns1, WorkerExits, ReceiveResult, WriteRecord,
         WriteFails, WriterStops, WriterCancels, Acknowledge, WriterExits, vars, writerVars, workerVars,
         dispatchVars, Cancelled, ReturnWith
<1>1. TypeOK /\ WriterInv BY DEF IInv
<1>2. (workerCtx # "nil" \/ main = "cancel")'
  BY <1>1, CallerAssumption DEF TypeOK, ContextErrors
<1>3. AbleWorkers' \subseteq AbleWorkers
  BY <1>1 DEF TypeOK, WriterInv, AbleWorkers, Able
<1>4. WriteRecord => from \in AbleWorkers /\ from \notin AbleWorkers'
  BY <1>1 DEF TypeOK, WriterInv, AbleWorkers, Able
<1>5. QED BY <1>2, <1>3, <1>4

\* The writer that leaves its stop behind: one worker waits, and nobody begins any more.
LEMMA StopLeaves ==
  ASSUME IInv, StopInv, [Next]_vars, writer \in {"stop", "cancel"}, writer' \notin {"stop", "cancel"}
  PROVE  /\ (workerCtx # "nil" \/ main = "cancel")'
         /\ from \notin AbleWorkers'
<1>1. TypeOK /\ WriterInv BY DEF IInv
<1>2. WriterStops \/ WriterCancels
  BY DEF Next, Dispatcher, Worker, Writer, GradeEnds, Terminating, CallerEnds, Propagate, CheckStopped,
         CheckContext, DispatchCancels, ReadRow, ReadEnd, SendJob, GiveUpSending, CloseJobs, CloseResults,
         JoinWriter, CheckErrors, CheckInterrupt, BackfillNotStopped, BackfillStopped, FillRow, FillFails,
         FillEnds, BeginGrade, GradeCancelled, GradeReturns1, WorkerExits, ReceiveResult, WriteRecord,
         WriteFails, Acknowledge, WriterExits, vars, writerVars
<1>3. writer' = "ack" /\ wpc' = wpc /\ wpc[from] = "ack"
  BY <1>1, <1>2 DEF WriterStops, WriterCancels, WriterInv, workerVars
<1>4. (workerCtx # "nil" \/ main = "cancel")'
  BY <1>1, <1>2, <1>3 DEF WriterStops, WriterCancels, StopInv, Cancelled
<1>5. QED BY <1>3, <1>4 DEF AbleWorkers, Able

LEMMA LatePreserved ==
  ASSUME IInv, StopInv, LateInv, [Next]_vars
  PROVE  LateInv'
<1>0. /\ IsFiniteSet(Workers) /\ Cardinality(Workers) \in Nat
      /\ IsFiniteSet(AbleWorkers) /\ Cardinality(AbleWorkers) \in Nat
      /\ IsFiniteSet(AbleWorkers') /\ Cardinality(AbleWorkers') \in Nat
  <2>1. AbleWorkers \subseteq Workers /\ AbleWorkers' \subseteq Workers BY DEF AbleWorkers
  <2>2. IsFiniteSet(AbleWorkers) /\ IsFiniteSet(AbleWorkers')
    BY <2>1, WorkersAssumption, FS_Subset
  <2>3. QED BY <2>2, WorkersAssumption, FS_CardinalityType
<1>1. SUFFICES ASSUME FailFast, SomeFailure' PROVE LateInv' BY DEF LateInv
<1>2. CASE ~SomeFailure
  <2>1. WriteRecord /\ EvaluatedAfterFailure' = {} /\ writer' = "stop" BY <1>1, <1>2, LateGrows
  <2>2. QED BY <2>1 DEF LateInv
<1>3. CASE SomeFailure /\ writer \in {"stop", "cancel"} /\ EvaluatedAfterFailure = {}
  <2>1. EvaluatedAfterFailure' = {} BY <1>3, LateGrows DEF WriteRecord
  <2>2. CASE writer' \in {"stop", "cancel"} BY <2>1, <2>2 DEF LateInv
  <2>3. CASE writer' \notin {"stop", "cancel"}
    <3>1. (workerCtx # "nil" \/ main = "cancel")' /\ from \notin AbleWorkers' BY <1>3, <2>3, StopLeaves
    <3>2. AbleWorkers' \subseteq Workers \ {from} BY <3>1 DEF AbleWorkers
    <3>3. from \in Workers BY DEF IInv, TypeOK
    <3>4. IsFiniteSet(Workers \ {from}) /\ Cardinality(Workers \ {from}) = Cardinality(Workers) - 1
      BY <1>0, <3>3, FS_RemoveElement
    <3>5. Cardinality(AbleWorkers') <= Cardinality(Workers \ {from}) BY <3>2, <3>4, FS_Subset
    <3>6. IsFiniteSet(EvaluatedAfterFailure') /\ Cardinality(EvaluatedAfterFailure') = 0
      BY <2>1, FS_EmptySet
    <3>7. Cardinality(EvaluatedAfterFailure') + Cardinality(AbleWorkers') < Cardinality(Workers)
      BY ONLY <1>0, <3>4, <3>5, <3>6
    <3>8. QED BY <3>1, <3>6, <3>7 DEF LateInv
  <2>4. QED BY <2>2, <2>3
<1>4. CASE /\ SomeFailure
           /\ workerCtx # "nil" \/ main = "cancel"
           /\ IsFiniteSet(EvaluatedAfterFailure)
           /\ Cardinality(EvaluatedAfterFailure) + Cardinality(AbleWorkers) < Cardinality(Workers)
  <2>1. /\ (workerCtx # "nil" \/ main = "cancel")' /\ AbleWorkers' \subseteq AbleWorkers
        /\ WriteRecord => from \in AbleWorkers /\ from \notin AbleWorkers'
    BY <1>4, AbleMoves
  <2>2. Cardinality(EvaluatedAfterFailure) \in Nat BY <1>4, FS_CardinalityType
  <2>3. CASE WriteRecord
    <3>1. EvaluatedAfterFailure' = EvaluatedAfterFailure \cup {Len(records) + 1}
      BY <1>4, <2>3, LateGrows
    <3>2. /\ IsFiniteSet(EvaluatedAfterFailure')
          /\ Cardinality(EvaluatedAfterFailure') \in {Cardinality(EvaluatedAfterFailure),
                                                     Cardinality(EvaluatedAfterFailure) + 1}
      BY <1>4, <3>1, FS_AddElement
    <3>3. AbleWorkers' \subseteq AbleWorkers \ {from} /\ from \in AbleWorkers BY <2>1, <2>3
    <3>4. /\ IsFiniteSet(AbleWorkers \ {from})
          /\ Cardinality(AbleWorkers \ {from}) = Cardinality(AbleWorkers) - 1
      BY <1>0, <3>3, FS_RemoveElement
    <3>5. Cardinality(AbleWorkers') <= Cardinality(AbleWorkers) - 1 BY <3>3, <3>4, FS_Subset
    <3>6. Cardinality(EvaluatedAfterFailure') + Cardinality(AbleWorkers') < Cardinality(Workers)
      BY ONLY <1>0, <1>4, <2>2, <3>2, <3>5
    <3>7. QED BY <2>1, <3>2, <3>6 DEF LateInv
  <2>4. CASE ~WriteRecord
    <3>1. EvaluatedAfterFailure' = EvaluatedAfterFailure BY <2>4, LateGrows
    <3>2. Cardinality(AbleWorkers') <= Cardinality(AbleWorkers) BY <1>0, <2>1, FS_Subset
    <3>3. Cardinality(EvaluatedAfterFailure') + Cardinality(AbleWorkers') < Cardinality(Workers)
      BY ONLY <1>0, <1>4, <2>2, <3>1, <3>2
    <3>4. QED BY <1>4, <2>1, <3>1, <3>3 DEF LateInv
  <2>5. QED BY <2>3, <2>4
<1>5. QED BY <1>1, <1>2, <1>3, <1>4 DEF LateInv

LEMMA StopIInvHolds == Spec => [](IInv /\ StopIInv)
<1>1. Init => StopIInv
  <2> SUFFICES ASSUME Init PROVE StopIInv OBVIOUS
  <2>1. DOMAIN records = {} BY DEF Init
  <2>2. ~SomeFailure BY <2>1 DEF SomeFailure
  <2>3. StopInv BY DEF Init, StopInv, Stopped
  <2>4. ReasonIsTrue BY <2>1 DEF Init, ReasonIsTrue
  <2>5. QED BY <2>2, <2>3, <2>4 DEF StopIInv, LateInv
<1>2. IInv /\ StopIInv /\ [Next]_vars => StopIInv'
  BY StopPreserved, ReasonPreserved, LatePreserved DEF StopIInv
<1>3. QED BY <1>1, <1>2, EveryRowHasItsPlace, PTL DEF Spec

\* stopper.stop: the reason a run reports is one that really happened before it stopped,
\* and every skipped record carries it (stop.go:22-26).
THEOREM ReasonsAreTrue == Spec => []ReasonIsTrue
<1>1. StopIInv => ReasonIsTrue BY DEF StopIInv
<1>2. QED BY <1>1, StopIInvHolds, PTL

\* The acknowledgement: after the first failure fail-fast lets at most the samples the
\* other workers hold be evaluated, whatever stops the run meanwhile (runner.go:159-166,
\* :483-487).
THEOREM OvershootIsBounded == Spec => []FailFastOvershoot
<1>1. ASSUME IInv, StopIInv PROVE FailFastOvershoot
  <2>0. Cardinality(Workers) \in Nat /\ Cardinality(Workers) # 0
    BY WorkersAssumption, FS_CardinalityType, FS_EmptySet
  <2>1. CASE ~SomeFailure
    <3>1. EvaluatedAfterFailure = {}
      <4>1. ASSUME NEW j \in DOMAIN records, NEW i \in 1..(j - 1) PROVE i \in DOMAIN records
        BY <1>1 DEF IInv, TypeOK
      <4>2. QED BY <2>1, <4>1 DEF SomeFailure, EvaluatedAfterFailure
    <3>2. QED BY <2>0, <3>1, FS_EmptySet DEF FailFastOvershoot
  <2>2. CASE EvaluatedAfterFailure = {} BY <2>0, <2>2, FS_EmptySet DEF FailFastOvershoot
  <2>3. CASE /\ IsFiniteSet(EvaluatedAfterFailure)
             /\ Cardinality(EvaluatedAfterFailure) + Cardinality(AbleWorkers) < Cardinality(Workers)
    <3>1. IsFiniteSet(AbleWorkers)
      <4>1. AbleWorkers \subseteq Workers BY DEF AbleWorkers
      <4>2. QED BY <4>1, WorkersAssumption, FS_Subset
    <3>2. Cardinality(AbleWorkers) \in Nat /\ Cardinality(EvaluatedAfterFailure) \in Nat
      BY <2>3, <3>1, FS_CardinalityType
    <3>3. QED BY <2>0, <2>3, <3>2 DEF FailFastOvershoot
  <2>4. CASE ~FailFast BY <2>4 DEF FailFastOvershoot
  <2>5. QED BY <1>1, <2>1, <2>2, <2>3, <2>4 DEF StopIInv, LateInv
<1>2. QED BY <1>1, StopIInvHolds, PTL

\* A worker lets go of a sample it has a verdict for only when its record is in the file,
\* or the run is failing on its output already (runner.go:204-207).
THEOREM FinishedIsKept == Spec => EvaluatedIsKept
<1>1. ASSUME IInv, StopIInv, [Next]_vars, NEW w \in Workers,
             wpc[w] \in {"send", "ack"}, wpc'[w] \notin {"send", "ack"}
      PROVE  werr \/ job[w] \in Seen
  <2>1. Acknowledge /\ w = from
    BY <1>1 DEF IInv, TypeOK, WriterInv,
         Next, Dispatcher, Worker, Writer, GradeEnds, Terminating, CallerEnds, Propagate, CheckStopped,
         CheckContext, DispatchCancels, ReadRow, ReadEnd, SendJob, GiveUpSending, CloseJobs, CloseResults,
         JoinWriter, CheckErrors, CheckInterrupt, BackfillNotStopped, BackfillStopped, FillRow, FillFails,
         FillEnds, BeginGrade, GradeCancelled, GradeReturns1, WorkerExits, ReceiveResult, WriteRecord,
         WriteFails, WriterStops, WriterCancels, WriterExits, vars, writerVars, workerVars, dispatchVars,
         Acknowledge
  <2>2. QED BY <1>1, <2>1 DEF StopIInv, StopInv, Acknowledge
<1>2. IInv /\ StopIInv /\ [Next]_vars =>
        [\A w \in Workers : wpc[w] \in {"send", "ack"} /\ wpc'[w] \notin {"send", "ack"}
                               => werr \/ job[w] \in Seen]_vars
  BY <1>1
<1>3. QED BY <1>2, StopIInvHolds, PTL DEF Spec, EvaluatedIsKept

-----------------------------------------------------------------------------
(* How far a record overtakes another *)

LEMMA HeldPreserved ==
  ASSUME "spurious" \notin Faults, IInv, StopInv, HeldInv, [Next]_vars
  PROVE  HeldInv'
<1>1. TypeOK /\ WriterInv /\ DispatchInv /\ EndInv BY DEF IInv
<1>2. SUFFICES ASSUME workerCtx' = "nil", ~werr', main' \notin {"fill", "done"}
               PROVE  \A r \in inflight' : \/ r \in Seen'
                                           \/ main' = "send" /\ r = next' - 1
                                           \/ \E w \in Workers : Unwritten(w)' /\ job'[w] = r
  BY DEF HeldInv
<1>3. workerCtx = "nil" /\ ~werr /\ main \notin {"fill", "done"}
  BY <1>1, <1>2 DEF TypeOK,
         Next, Dispatcher, Worker, Writer, GradeEnds, Terminating, CallerEnds, Propagate, CheckStopped,
         CheckContext, DispatchCancels, ReadRow, ReadEnd, SendJob, GiveUpSending, CloseJobs, CloseResults,
         JoinWriter, CheckErrors, CheckInterrupt, BackfillNotStopped, BackfillStopped, FillRow, FillFails,
         FillEnds, BeginGrade, GradeCancelled, GradeReturns1, WorkerExits, ReceiveResult, WriteRecord,
         WriteFails, WriterStops, WriterCancels, Acknowledge, WriterExits, vars, writerVars, workerVars,
         dispatchVars, Cancelled, ReturnWith
<1>4. ASSUME NEW r \in inflight
      PROVE  \/ r \in Seen
             \/ main = "send" /\ r = next - 1
             \/ \E w \in Workers : Unwritten(w) /\ job[w] = r
  BY <1>3 DEF HeldInv
<1>5. CASE WriteRecord
  <2>1. Seen' = Seen \cup {job[from]} BY <1>5, Grows DEF WriteRecord, FillRow
  <2>2. UNCHANGED <<inflight, main, next, job, wpc, from>>
    BY <1>5 DEF WriteRecord, dispatchVars, workerVars
  <2>3. \A w \in Workers : Unwritten(w) => Unwritten(w)' \/ w = from
    BY <1>1, <1>5, <2>2 DEF WriteRecord, Unwritten, WriterInv
  <2>4. QED BY <1>4, <2>1, <2>2, <2>3
<1>6. CASE ~WriteRecord
  <2>1. Seen \subseteq Seen' BY Grows
  <2>2. CASE ReadRow
    BY <1>4, <2>1, <2>2, <1>1 DEF ReadRow, TypeOK, workerVars, writerVars, Unwritten, Seen
  <2>3. CASE \E w \in Workers : SendJob(w)
    BY <1>4, <2>1, <2>3, <1>1 DEF SendJob, TypeOK, workerVars, writerVars, dispatchVars, Unwritten, Seen
  <2>4. CASE ~ReadRow /\ ~\E w \in Workers : SendJob(w)
    <3>1. UNCHANGED <<inflight, next, job>> /\ (main = "send" => main' = "send")
      BY <1>1, <1>2, <1>3, <1>6, <2>4 DEF TypeOK,
         Next, Dispatcher, Worker, Writer, GradeEnds, Terminating, CallerEnds, Propagate, CheckStopped,
         CheckContext, DispatchCancels, ReadEnd, GiveUpSending, CloseJobs, CloseResults,
         JoinWriter, CheckErrors, CheckInterrupt, BackfillNotStopped, BackfillStopped, FillRow, FillFails,
         FillEnds, BeginGrade, GradeCancelled, GradeReturns1, WorkerExits, ReceiveResult,
         WriteFails, WriterStops, WriterCancels, Acknowledge, WriterExits, vars, writerVars, workerVars,
         dispatchVars, ReturnWith
    <3>2. \A w \in Workers : Unwritten(w) => Unwritten(w)'
      BY <1>1, <1>2, <1>3, <1>6, <2>4 DEF TypeOK, WriterInv, Unwritten, CanReturn,
         Next, Dispatcher, Worker, Writer, GradeEnds, Terminating, CallerEnds, Propagate, CheckStopped,
         CheckContext, DispatchCancels, ReadEnd, GiveUpSending, CloseJobs, CloseResults,
         JoinWriter, CheckErrors, CheckInterrupt, BackfillNotStopped, BackfillStopped, FillRow, FillFails,
         FillEnds, BeginGrade, GradeCancelled, GradeReturns1, WorkerExits, ReceiveResult,
         WriteFails, WriterStops, WriterCancels, Acknowledge, WriterExits, vars, writerVars, workerVars,
         dispatchVars
    <3>3. QED BY <1>4, <2>1, <3>1, <3>2
  <2>5. QED BY <2>2, <2>3, <2>4
<1>7. QED BY <1>5, <1>6

\* The gap before a row is finite and only closes.
LEMMA GapShrinks ==
  ASSUME IInv, [Next]_vars, NEW r \in Nat
  PROVE  /\ IsFiniteSet(Gap(r)) /\ Cardinality(Gap(r)) \in Nat
         /\ Cardinality(Gap(r)') <= Cardinality(Gap(r)) /\ Cardinality(Gap(r)') \in Nat
<1>1. IsFiniteSet(1..(r - 1)) BY FS_Interval
<1>2. Gap(r) \subseteq 1..(r - 1) /\ Gap(r)' \subseteq Gap(r) BY Grows DEF Gap
<1>3. IsFiniteSet(Gap(r)) /\ IsFiniteSet(Gap(r)') BY <1>1, <1>2, FS_Subset
<1>4. QED BY <1>2, <1>3, FS_Subset, FS_CardinalityType

\* The rows before the one that is sent are in the file or in the other workers' hands.
LEMMA SendGap ==
  ASSUME IInv, HeldInv, NEW w \in Workers, SendJob(w), workerCtx = "nil", ~werr
  PROVE  Cardinality(Gap(next - 1)) < Cardinality(Workers)
<1> DEFINE Others == Workers \ {w}
           hand == [v \in Others |-> job[v]]
           Hands == {job[v] : v \in Others}
<1>1. /\ inflight = 1..(next - 1) /\ next \in Nat /\ main = "send" /\ wpc[w] = "idle"
  BY DEF IInv, TypeOK, DispatchInv, SendJob
<1>2. ASSUME NEW r \in Gap(next - 1) PROVE r \in Hands
  <2>1. r \in inflight /\ r \notin Seen /\ r # next - 1 BY <1>1, <1>2 DEF Gap
  <2>2. PICK v \in Workers : Unwritten(v) /\ job[v] = r BY <1>1, <2>1 DEF HeldInv
  <2>3. v # w BY <1>1, <2>2 DEF Unwritten
  <2>4. QED BY <2>2, <2>3
<1>3. IsFiniteSet(Others) /\ Cardinality(Others) = Cardinality(Workers) - 1
  BY WorkersAssumption, FS_RemoveElement
<1>4. hand \in Surjection(Others, Hands) BY DEF Surjection
<1>5. IsFiniteSet(Hands) /\ Cardinality(Hands) <= Cardinality(Others)
  BY ONLY <1>3, <1>4, FS_Surjection
<1>6. Cardinality(Gap(next - 1)) <= Cardinality(Hands) BY <1>2, <1>5, FS_Subset
<1>7. /\ Cardinality(Gap(next - 1)) \in Nat /\ Cardinality(Hands) \in Nat
      /\ Cardinality(Workers) \in Nat
  <2>1. IsFiniteSet(Gap(next - 1)) BY <1>2, <1>5, FS_Subset
  <2>2. QED BY <1>5, <2>1, WorkersAssumption, FS_CardinalityType
<1>8. QED BY ONLY <1>3, <1>5, <1>6, <1>7

LEMMA GapPreserved ==
  ASSUME IInv, HeldInv, GapInv, [Next]_vars
  PROVE  GapInv'
<1>1. TypeOK /\ WriterInv BY DEF IInv
<1>2. SUFFICES ASSUME ~werr', NEW w \in Workers, Able(w)'
               PROVE  Cardinality(Gap(job[w])') < Cardinality(Workers)
  BY DEF GapInv
<1>3. ~werr /\ Cardinality(Workers) \in Nat
  BY <1>2, ReasonFrame, WorkersAssumption, FS_CardinalityType
<1>4. CASE SendJob(w)
  <2>1. job'[w] = next - 1 /\ Seen' = Seen /\ workerCtx' = workerCtx
    BY <1>1, <1>4 DEF SendJob, TypeOK, writerVars, Seen
  <2>2. workerCtx = "nil" BY <1>1, <1>2, <1>4, <2>1 DEF Able, SendJob, TypeOK
  <2>3. Gap(job[w])' = Gap(next - 1) BY <2>1 DEF Gap
  <2>4. QED BY <1>3, <1>4, <2>2, <2>3, SendGap
<1>5. CASE ~SendJob(w)
  <2>1. Able(w) /\ job'[w] = job[w]
    BY <1>1, <1>2, <1>5 DEF Able, TypeOK, WriterInv, 
         Next, Dispatcher, Worker, Writer, GradeEnds, Terminating, CallerEnds, Propagate, CheckStopped,
         CheckContext, DispatchCancels, ReadRow, ReadEnd, SendJob, GiveUpSending, CloseJobs, CloseResults,
         JoinWriter, CheckErrors, CheckInterrupt, BackfillNotStopped, BackfillStopped, FillRow, FillFails,
         FillEnds, BeginGrade, GradeCancelled, GradeReturns1, WorkerExits, ReceiveResult, WriteRecord,
         WriteFails, WriterStops, WriterCancels, Acknowledge, WriterExits, vars, writerVars, workerVars,
         dispatchVars, Cancelled
  <2>2. Cardinality(Gap(job[w])) < Cardinality(Workers) BY <1>3, <2>1 DEF GapInv
  <2>3. job[w] \in Nat BY <1>1, MaxRowsAssumption DEF TypeOK
  <2>4. Gap(job[w])' = (1..(job[w] - 1)) \ Seen' BY <2>1 DEF Gap
  <2>5. Cardinality(Gap(job[w])') <= Cardinality(Gap(job[w])) /\ Cardinality(Gap(job[w])') \in Nat
        /\ Cardinality(Gap(job[w])) \in Nat
    <3>1. Gap(job[w])' \subseteq Gap(job[w]) BY <2>4, Grows DEF Gap
    <3>2. IsFiniteSet(Gap(job[w])) BY <2>3, GapShrinks
    <3>3. IsFiniteSet(Gap(job[w])') BY <3>1, <3>2, FS_Subset
    <3>4. QED BY <3>1, <3>2, <3>3, FS_Subset, FS_CardinalityType
  <2>6. QED BY <1>3, <2>2, <2>5
<1>6. QED BY <1>4, <1>5

LEMMA OvertakesPreserved ==
  ASSUME IInv, GapInv, OvertakesBounded, [Next]_vars, "spurious" \notin Faults
  PROVE  OvertakesBounded'
<1>1. SUFFICES ASSUME NEW i \in DOMAIN records'
               PROVE  /\ Cardinality(Overtaken(i)') < Cardinality(Workers)
                      /\ records'[i].status = "skipped" => Overtaken(i)' = {}
  BY DEF OvertakesBounded
<1>2. TypeOK /\ RecordsInv /\ WriterInv /\ Len(records) \in Nat BY DEF IInv, TypeOK
<1>3. CASE i \in DOMAIN records /\ \A j \in DOMAIN records : j \in DOMAIN records' /\ records'[j] = records[j]
  <2>1. \A j \in 1..(i - 1) : j \in DOMAIN records BY <1>2, <1>3 DEF TypeOK
  <2>2. Overtaken(i)' = Overtaken(i) BY <1>3, <2>1 DEF Overtaken
  <2>3. QED BY <1>3, <2>2 DEF OvertakesBounded
<1>4. ASSUME i = Len(records) + 1, NEW rec \in Record, records' = Append(records, rec)
      PROVE  records'[i] = rec /\ Overtaken(i)' = Gap(rec.seq)
  <2>1. /\ records'[i] = rec /\ DOMAIN records = 1..Len(records)
        /\ \A j \in DOMAIN records : records'[j] = records[j]
    BY <1>4, Grows, AppendIndices
  <2>2. {records'[j].seq : j \in 1..(i - 1)} = Seen BY <1>2, <1>4, <2>1 DEF Seen
  <2>3. QED BY <2>1, <2>2 DEF Overtaken, Gap
<1>5. CASE WriteRecord /\ i = Len(records) + 1
  <2> DEFINE rec == CompletedRecord(job[from], verdict[from])
  <2>1. rec \in Record /\ records' = Append(records, rec) BY <1>5, Grows DEF WriteRecord, FillRow
  <2>2. records'[i] = rec /\ Overtaken(i)' = Gap(rec.seq) BY <1>4, <1>5, <2>1
  <2>3. rec.seq = job[from] /\ rec.status = "completed" BY DEF CompletedRecord
  <2>4. Able(from) /\ ~werr /\ from \in Workers BY <1>2, <1>5 DEF Able, WriteRecord, WriterInv, TypeOK
  <2>5. Cardinality(Gap(job[from])) < Cardinality(Workers) BY <2>4 DEF GapInv
  <2>6. QED BY <2>2, <2>3, <2>5
<1>6. CASE FillRow /\ i = Len(records) + 1
  <2>1. PICK r \in InputOrder : /\ SkippedRecord(r, reason) \in Record
                                /\ records' = Append(records, SkippedRecord(r, reason))
    BY <1>6, Grows DEF FillRow, WriteRecord
  <2>2. records'[i] = SkippedRecord(r, reason) /\ Overtaken(i)' = Gap(r)
    BY <1>4, <1>6, <2>1 DEF SkippedRecord
  <2>3. Gap(r) = {}
    <3>1. /\ Seen \cup pending = 1..file.rows /\ r \in pending /\ \A q \in pending : r <= q
      BY <1>2, <1>6, <2>1 DEF RecordsInv, FillRow, InputOrder
    <3>2. QED BY <1>2, <3>1 DEF Gap, TypeOK
  <2>4. Cardinality(Workers) \in Nat /\ Cardinality(Workers) # 0
    BY WorkersAssumption, FS_CardinalityType, FS_EmptySet
  <2>5. QED BY <2>2, <2>3, <2>4, FS_EmptySet
<1>7. QED BY <1>3, <1>5, <1>6, Grows, AppendIndices

\* A record overtakes at most the samples the other workers hold, and a skipped one none:
\* with one worker the records are in input order, wherever the run was stopped
\* (runner.go:159-166, :419-421).
THEOREM OvertakingIsBounded == Spec => []OvertakesBounded
<1>1. CASE "spurious" \in Faults
  <2>1. OvertakesBounded BY <1>1 DEF OvertakesBounded
  <2>2. QED BY <2>1, PTL
<1>2. CASE "spurious" \notin Faults
  <2>1. Init => OrderIInv
    <3> SUFFICES ASSUME Init PROVE OrderIInv OBVIOUS
    <3>1. HeldInv BY DEF Init, HeldInv
    <3>2. GapInv BY DEF Init, GapInv, Able
    <3>3. OvertakesBounded BY DEF Init, OvertakesBounded
    <3>4. QED BY <3>1, <3>2, <3>3 DEF OrderIInv
  <2>2. IInv /\ StopIInv /\ OrderIInv /\ [Next]_vars => OrderIInv'
    BY <1>2, HeldPreserved, GapPreserved, OvertakesPreserved DEF StopIInv, OrderIInv
  <2>3. OrderIInv => OvertakesBounded BY DEF OrderIInv
  <2>4. QED BY <2>1, <2>2, <2>3, StopIInvHolds, PTL DEF Spec
<1>3. QED BY <1>1, <1>2
=============================================================================
