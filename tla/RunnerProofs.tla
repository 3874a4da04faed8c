---------------------------- MODULE RunnerProofs ----------------------------
(***************************************************************************)
(* Proofs about Runner, for any set of workers, any dataset and any choice *)
(* of what Graders, callers and the environment do.                        *)
(*                                                                         *)
(* IInv says where each row that was read is: with the dispatcher, with    *)
(* exactly one worker, or in the file.                                     *)
(***************************************************************************)
EXTENDS Runner, TLAPS

\* A worker between receiving a sample and being acknowledged.
Busy(w) == wpc[w] \in {"begin", "grading", "send", "ack"}

\* The record of the sample the worker has is not in the file.
Unwritten(w) == wpc[w] \in {"begin", "grading", "send"} \/ (wpc[w] = "ack" /\ writer = "write")

\* From the end of dispatch to the computation of the pending rows.
DispatchOver == main \in {"close", "wait", "drain", "joined", "interrupt"}

\* The rows the dispatcher has read are the in-flight set.
DispatchInv ==
    /\ next <= file.rows + 1
    /\ main \notin {"fill", "done"} => inflight = 1..(next - 1)
    /\ main = "send" => next > 1 /\ next - 1 \notin Seen
    /\ workerCtx # "nil" => Stopped \/ ctx # "nil"

\* Dispatch ends early only for a stop; errors end the run before the backfill.
EndInv ==
    /\ DispatchOver /\ ~Stopped /\ ctx = "nil" => next = file.rows + 1 /\ dispatchErr = file.bad
    /\ main = "pending" /\ ~Stopped => next = file.rows + 1 /\ ~file.bad
    /\ main \in {"interrupt", "pending"} => ~dispatchErr
    /\ main \in {"cancel", "fill"} \/ writer = "cancel" => Stopped
    /\ outcome = "running" <=> main # "done"

\* No two workers have the same row, and none has the row still to be sent.
HandsInv ==
    /\ \A w \in Workers : Busy(w) => job[w] \in inflight
    /\ \A w \in Workers : Unwritten(w) => job[w] \notin Seen
    /\ \A v, w \in Workers : Busy(v) /\ Busy(w) /\ job[v] = job[w] => v = w
    /\ main = "send" => \A w \in Workers : Busy(w) => job[w] # next - 1

\* The writer works for the one worker that waits for its acknowledgement.
WriterInv ==
    /\ writer \in {"write", "stop", "cancel", "ack"} => wpc[from] = "ack"
    /\ \A w \in Workers : wpc[w] = "ack" => w = from /\ writer \in {"write", "stop", "cancel", "ack"}
    /\ writer = "exited" => ResultsClosed
    /\ ResultsClosed => \A w \in Workers : wpc[w] = "exited"
    /\ ResultsClosed /\ main # "drain" => writer = "exited"

\* One record per row, and the backfill completes the rows that have one.
RecordsInv ==
    /\ \A i, j \in DOMAIN records : records[i].seq = records[j].seq => i = j
    /\ main \notin {"fill", "done"} => Seen \subseteq inflight
    /\ main = "fill" => Seen \cup pending = 1..file.rows /\ Seen \cap pending = {} /\ ~file.bad
    /\ outcome = "ok" => Seen = 1..file.rows /\ ~file.bad

\* Every row read is in the file or still on its way to it, as long as nobody stopped
\* the run; once Run has looked at the caller's context this no longer depends on it.
KeptInv ==
    /\ ~Stopped /\ ~werr /\ (ctx = "nil" \/ main = "pending")
          => \A r \in inflight : \/ r \in Seen
                                 \/ main = "send" /\ r = next - 1
                                 \/ \E w \in Workers : Unwritten(w) /\ job[w] = r
    /\ main \in {"interrupt", "pending"} => ~werr
    /\ outcome # "lost"

IInv == TypeOK /\ DispatchInv /\ EndInv /\ HandsInv /\ WriterInv /\ RecordsInv

-----------------------------------------------------------------------------

LEMMA SeenUnchanged == records' = records => Seen' = Seen
  BY DEF Seen

LEMMA SeenAppend ==
  ASSUME TypeOK, NEW rec \in Record, records' = Append(records, rec)
  PROVE  /\ records' \in Seq(Record)
         /\ Seen' = Seen \cup {rec.seq}
         /\ (\A i, j \in DOMAIN records : records[i].seq = records[j].seq => i = j)
              /\ rec.seq \notin Seen
              => \A i, j \in DOMAIN records' : records'[i].seq = records'[j].seq => i = j
  <1>1. records \in Seq(Record)
    BY DEF TypeOK
  <1>2. /\ records' \in Seq(Record)
        /\ DOMAIN records' = 1..(Len(records) + 1) /\ DOMAIN records = 1..Len(records)
        /\ Len(records) \in Nat
        /\ \A i \in DOMAIN records : records'[i] = records[i]
        /\ records'[Len(records) + 1] = rec
    BY <1>1
  <1>3. DOMAIN records' = DOMAIN records \cup {Len(records) + 1}
    BY <1>2
  <1>4. Seen' = Seen \cup {rec.seq}
    BY <1>2, <1>3 DEF Seen
  <1>5. ASSUME \A i, j \in DOMAIN records : records[i].seq = records[j].seq => i = j,
               rec.seq \notin Seen,
               NEW i \in DOMAIN records', NEW j \in DOMAIN records',
               records'[i].seq = records'[j].seq
        PROVE  i = j
    BY <1>2, <1>3, <1>5 DEF Seen
  <1> QED
    BY <1>2, <1>4, <1>5


LEMMA IInvStep == IInv /\ [Next]_vars => IInv'
  <1> SUFFICES ASSUME IInv, [Next]_vars PROVE IInv'
    OBVIOUS
  <1> USE WorkersAssumption, MaxRowsAssumption, CallerAssumption
  <1> USE DEF IInv, Stopped, JobsClosed, ResultsClosed, Busy, Unwritten, DispatchOver,
              dispatchVars, workerVars, writerVars, Rows, StopReasons, Evaluations, ContextErrors, MainAt
  <1>1. CASE CallerEnds
    <2>1. records' = records /\ Seen' = Seen
      BY <1>1, SeenUnchanged DEF CallerEnds
    <2> QED
      BY <1>1, <2>1 DEF CallerEnds, TypeOK, DispatchInv, EndInv, HandsInv, WriterInv, RecordsInv
  <1>2. CASE Propagate
    <2>1. records' = records /\ Seen' = Seen
      BY <1>2, SeenUnchanged DEF Propagate
    <2> QED
      BY <1>2, <2>1 DEF Propagate, TypeOK, DispatchInv, EndInv, HandsInv, WriterInv, RecordsInv
  <1>3. CASE CheckStopped
    <2>1. records' = records /\ Seen' = Seen
      BY <1>3, SeenUnchanged DEF CheckStopped
    <2> QED
      BY <1>3, <2>1 DEF CheckStopped, TypeOK, DispatchInv, EndInv, HandsInv, WriterInv, RecordsInv
  <1>4. CASE CheckContext
    <2>1. records' = records /\ Seen' = Seen
      BY <1>4, SeenUnchanged DEF CheckContext
    <2> QED
      BY <1>4, <2>1 DEF CheckContext, Fire, TypeOK, DispatchInv, EndInv, HandsInv, WriterInv, RecordsInv
  <1>5. CASE DispatchCancels
    <2>1. records' = records /\ Seen' = Seen
      BY <1>5, SeenUnchanged DEF DispatchCancels
    <2> QED
      BY <1>5, <2>1 DEF DispatchCancels, Cancelled, TypeOK, DispatchInv, EndInv, HandsInv, WriterInv, RecordsInv
  <1>6. CASE ReadRow
    <2>1. records' = records /\ Seen' = Seen
      BY <1>6, SeenUnchanged DEF ReadRow
    <2>2. TypeOK'
      BY <1>6, <2>1 DEF ReadRow, TypeOK
    <2>3. DispatchInv'
      BY <1>6, <2>1 DEF ReadRow, TypeOK, DispatchInv, RecordsInv
    <2>4. EndInv'
      BY <1>6, <2>1 DEF ReadRow, TypeOK, EndInv
    <2>5. HandsInv'
      BY <1>6, <2>1 DEF ReadRow, TypeOK, DispatchInv, HandsInv
    <2>6. WriterInv'
      BY <1>6, <2>1 DEF ReadRow, TypeOK, WriterInv
    <2>7. RecordsInv'
      BY <1>6, <2>1 DEF ReadRow, TypeOK, RecordsInv
    <2> QED
      BY <2>2, <2>3, <2>4, <2>5, <2>6, <2>7
  <1>7. CASE ReadEnd
    <2>1. records' = records /\ Seen' = Seen
      BY <1>7, SeenUnchanged DEF ReadEnd
    <2> QED
      BY <1>7, <2>1 DEF ReadEnd, TypeOK, DispatchInv, EndInv, HandsInv, WriterInv, RecordsInv
  <1>8. ASSUME NEW w \in Workers, SendJob(w) PROVE IInv'
    <2>1. records' = records /\ Seen' = Seen
      BY <1>8, SeenUnchanged DEF SendJob
    <2> QED
      BY <1>8, <2>1 DEF SendJob, TypeOK, DispatchInv, EndInv, HandsInv, WriterInv, RecordsInv
  <1>9. CASE GiveUpSending
    <2>1. records' = records /\ Seen' = Seen
      BY <1>9, SeenUnchanged DEF GiveUpSending
    <2> QED
      BY <1>9, <2>1 DEF GiveUpSending, TypeOK, DispatchInv, EndInv, HandsInv, WriterInv, RecordsInv
  <1>10. CASE CloseJobs
    <2>1. records' = records /\ Seen' = Seen
      BY <1>10, SeenUnchanged DEF CloseJobs
    <2> QED
      BY <1>10, <2>1 DEF CloseJobs, TypeOK, DispatchInv, EndInv, HandsInv, WriterInv, RecordsInv
  <1>11. CASE CloseResults
    <2>1. records' = records /\ Seen' = Seen
      BY <1>11, SeenUnchanged DEF CloseResults
    <2> QED
      BY <1>11, <2>1 DEF CloseResults, TypeOK, DispatchInv, EndInv, HandsInv, WriterInv, RecordsInv
  <1>12. CASE JoinWriter
    <2>1. records' = records /\ Seen' = Seen
      BY <1>12, SeenUnchanged DEF JoinWriter
    <2> QED
      BY <1>12, <2>1 DEF JoinWriter, TypeOK, DispatchInv, EndInv, HandsInv, WriterInv, RecordsInv
  <1>13. CASE CheckErrors
    <2>1. records' = records /\ Seen' = Seen
      BY <1>13, SeenUnchanged DEF CheckErrors
    <2> QED
      BY <1>13, <2>1 DEF CheckErrors, ReturnWith, TypeOK, DispatchInv, EndInv, HandsInv, WriterInv, RecordsInv
  <1>14. CASE CheckInterrupt
    <2>1. records' = records /\ Seen' = Seen
      BY <1>14, SeenUnchanged DEF CheckInterrupt
    <2> QED
      BY <1>14, <2>1 DEF CheckInterrupt, Fire, Cancelled, TypeOK, DispatchInv, EndInv, HandsInv, WriterInv, RecordsInv
  <1>15. CASE BackfillNotStopped
    <2>1. records' = records /\ Seen' = Seen
      BY <1>15, SeenUnchanged DEF BackfillNotStopped
    <2>2. TypeOK'
      BY <1>15, <2>1 DEF BackfillNotStopped, ReturnWith, Undelivered, TypeOK
    <2>3. DispatchInv'
      BY <1>15, <2>1 DEF BackfillNotStopped, ReturnWith, Undelivered, TypeOK, DispatchInv
    <2>4. EndInv'
      BY <1>15, <2>1 DEF BackfillNotStopped, ReturnWith, Undelivered, TypeOK, EndInv
    <2>5. HandsInv'
      BY <1>15, <2>1 DEF BackfillNotStopped, ReturnWith, Undelivered, TypeOK, HandsInv
    <2>6. WriterInv'
      BY <1>15, <2>1 DEF BackfillNotStopped, ReturnWith, Undelivered, TypeOK, WriterInv
    <2>7. RecordsInv'
      <3>1. main' = "done" /\ outcome' \in {"ok", "lost"}
        BY <1>15 DEF BackfillNotStopped, ReturnWith
      <3>2. ASSUME outcome' = "ok" PROVE Seen = 1..file.rows /\ ~file.bad
        <4>1. Undelivered = {}
          BY <1>15, <3>2 DEF BackfillNotStopped, ReturnWith
        <4>2. Seen = inflight /\ inflight = 1..file.rows /\ ~file.bad
          BY <1>15, <4>1 DEF BackfillNotStopped, Undelivered, RecordsInv, DispatchInv, EndInv, TypeOK
        <4> QED
          BY <4>2
      <3> QED
        BY <1>15, <2>1, <3>1, <3>2 DEF BackfillNotStopped, RecordsInv
    <2> QED
      BY <2>2, <2>3, <2>4, <2>5, <2>6, <2>7
  <1>16. CASE BackfillStopped
    <2>1. records' = records /\ Seen' = Seen
      BY <1>16, SeenUnchanged DEF BackfillStopped
    <2>2. TypeOK'
      <3>1. next' \in 1..(MaxRows + 1)
        BY <1>16 DEF BackfillStopped, TypeOK
      <3>2. pending' \subseteq Rows
        <4>1. next..file.rows \subseteq Rows
          <5>1. file.rows \in 0..MaxRows /\ next \in 1..(MaxRows + 1)
            BY DEF TypeOK
          <5> QED
            BY <5>1
        <4>2. Undelivered \subseteq Rows
          BY DEF Undelivered, TypeOK
        <4>3. pending' = pending \/ pending' = Undelivered \cup (next..file.rows)
          BY <1>16 DEF BackfillStopped
        <4> QED
          BY <4>1, <4>2, <4>3 DEF TypeOK
      <3>3. main' \in MainAt /\ outcome' \in {"running", "ok", "dataset", "output", "lost"}
        BY <1>16 DEF BackfillStopped, ReturnWith, TypeOK
      <3> QED
        BY <1>16, <2>1, <3>1, <3>2, <3>3 DEF BackfillStopped, TypeOK
    <2>3. DispatchInv'
      BY <1>16, <2>1 DEF BackfillStopped, ReturnWith, Undelivered, TypeOK, DispatchInv
    <2>4. EndInv'
      BY <1>16, <2>1 DEF BackfillStopped, ReturnWith, Undelivered, TypeOK, EndInv
    <2>5. HandsInv'
      BY <1>16, <2>1 DEF BackfillStopped, ReturnWith, Undelivered, TypeOK, HandsInv
    <2>6. WriterInv'
      BY <1>16, <2>1 DEF BackfillStopped, ReturnWith, Undelivered, TypeOK, WriterInv
    <2>7. RecordsInv'
      BY <1>16, <2>1 DEF BackfillStopped, ReturnWith, Undelivered, TypeOK, DispatchInv, RecordsInv
    <2> QED
      BY <2>2, <2>3, <2>4, <2>5, <2>6, <2>7
  <1>17. CASE FillRow
    <2>00. PICK r \in InputOrder : pending' = pending \ {r} /\ records' = Append(records, SkippedRecord(r, reason))
      BY <1>17 DEF FillRow
    <2>0. /\ SkippedRecord(r, reason) \in Record
          /\ SkippedRecord(r, reason).seq = r
          /\ r \in pending /\ r \notin Seen
      BY <1>17 DEF FillRow, TypeOK, EndInv, RecordsInv, InputOrder, Record, SkippedRecord
    <2>1. /\ records' \in Seq(Record) /\ Seen' = Seen \cup {r}
          /\ \A i, j \in DOMAIN records' : records'[i].seq = records'[j].seq => i = j
      BY <1>17, <2>0, <2>00, SeenAppend DEF RecordsInv
    <2>2. TypeOK'
      BY <1>17, <2>1, <2>00 DEF FillRow, InputOrder, TypeOK
    <2>3. DispatchInv'
      BY <1>17, <2>1, <2>00 DEF FillRow, InputOrder, TypeOK, DispatchInv
    <2>4. EndInv'
      BY <1>17, <2>1, <2>00 DEF FillRow, InputOrder, TypeOK, EndInv
    <2>5. HandsInv'
      BY <1>17, <2>1, <2>00 DEF FillRow, InputOrder, TypeOK, HandsInv, WriterInv
    <2>6. WriterInv'
      BY <1>17, <2>1, <2>00 DEF FillRow, InputOrder, TypeOK, WriterInv
    <2>7. RecordsInv'
      BY <1>17, <2>1, <2>00 DEF FillRow, InputOrder, TypeOK, RecordsInv
    <2> QED
      BY <2>2, <2>3, <2>4, <2>5, <2>6, <2>7
  <1>18. CASE FillFails
    <2>1. records' = records /\ Seen' = Seen
      BY <1>18, SeenUnchanged DEF FillFails
    <2> QED
      BY <1>18, <2>1 DEF FillFails, ReturnWith, TypeOK, DispatchInv, EndInv, HandsInv, WriterInv, RecordsInv
  <1>19. CASE FillEnds
    <2>1. records' = records /\ Seen' = Seen
      BY <1>19, SeenUnchanged DEF FillEnds
    <2> QED
      BY <1>19, <2>1 DEF FillEnds, ReturnWith, TypeOK, DispatchInv, EndInv, HandsInv, WriterInv, RecordsInv
  <1>20. ASSUME NEW w \in Workers, BeginGrade(w) PROVE IInv'
    <2>1. records' = records /\ Seen' = Seen
      BY <1>20, SeenUnchanged DEF BeginGrade
    <2> QED
      BY <1>20, <2>1 DEF BeginGrade, TypeOK, DispatchInv, EndInv, HandsInv, WriterInv, RecordsInv
  <1>21. ASSUME NEW w \in Workers, GradeCancelled(w) PROVE IInv'
    <2>1. records' = records /\ Seen' = Seen
      BY <1>21, SeenUnchanged DEF GradeCancelled
    <2> QED
      BY <1>21, <2>1 DEF GradeCancelled, TypeOK, DispatchInv, EndInv, HandsInv, WriterInv, RecordsInv
  <1>22. ASSUME NEW w \in Workers, NEW v \in GraderMay, GradeReturns1(w, v) PROVE IInv'
    <2>1. records' = records /\ Seen' = Seen
      BY <1>22, SeenUnchanged DEF GradeReturns1
    <2> QED
      BY <1>22, <2>1, GraderAssumption DEF GradeReturns1, Classify, CanReturn, GradeReturns, TypeOK, DispatchInv, EndInv, HandsInv, WriterInv, RecordsInv
  <1>23. ASSUME NEW w \in Workers, WorkerExits(w) PROVE IInv'
    <2>1. records' = records /\ Seen' = Seen
      BY <1>23, SeenUnchanged DEF WorkerExits
    <2> QED
      BY <1>23, <2>1 DEF WorkerExits, TypeOK, DispatchInv, EndInv, HandsInv, WriterInv, RecordsInv
  <1>24. ASSUME NEW w \in Workers, ReceiveResult(w) PROVE IInv'
    <2>1. records' = records /\ Seen' = Seen
      BY <1>24, SeenUnchanged DEF ReceiveResult
    <2> QED
      BY SMTT(30), <1>24, <2>1 DEF ReceiveResult, TypeOK, DispatchInv, EndInv, HandsInv, WriterInv, RecordsInv
  <1>25. CASE WriteRecord
    <2>0. /\ CompletedRecord(job[from], verdict[from]) \in Record
          /\ CompletedRecord(job[from], verdict[from]).seq = job[from]
          /\ job[from] \notin Seen
      BY <1>25 DEF WriteRecord, TypeOK, WriterInv, HandsInv, Record, CompletedRecord
    <2>1. /\ records' \in Seq(Record) /\ Seen' = Seen \cup {job[from]}
          /\ \A i, j \in DOMAIN records' : records'[i].seq = records'[j].seq => i = j
      BY <1>25, <2>0, SeenAppend DEF WriteRecord, RecordsInv
    <2>2. TypeOK'
      BY <1>25, <2>1 DEF WriteRecord, TypeOK
    <2>3. DispatchInv'
      BY <1>25, <2>1 DEF WriteRecord, TypeOK, DispatchInv, HandsInv, WriterInv
    <2>4. EndInv'
      BY <1>25, <2>1 DEF WriteRecord, TypeOK, EndInv
    <2>5. HandsInv'
      BY <1>25, <2>1 DEF WriteRecord, TypeOK, HandsInv, WriterInv
    <2>6. WriterInv'
      BY <1>25, <2>1 DEF WriteRecord, TypeOK, WriterInv
    <2>7. RecordsInv'
      BY <1>25, <2>1 DEF WriteRecord, TypeOK, DispatchInv, EndInv, HandsInv, WriterInv, RecordsInv
    <2> QED
      BY <2>2, <2>3, <2>4, <2>5, <2>6, <2>7
  <1>26. CASE WriteFails
    <2>1. records' = records /\ Seen' = Seen
      BY <1>26, SeenUnchanged DEF WriteFails
    <2> QED
      BY <1>26, <2>1 DEF WriteFails, TypeOK, DispatchInv, EndInv, HandsInv, WriterInv, RecordsInv
  <1>27. CASE WriterStops
    <2>1. records' = records /\ Seen' = Seen
      BY <1>27, SeenUnchanged DEF WriterStops
    <2> QED
      BY <1>27, <2>1 DEF WriterStops, Fire, TypeOK, DispatchInv, EndInv, HandsInv, WriterInv, RecordsInv
  <1>28. CASE WriterCancels
    <2>1. records' = records /\ Seen' = Seen
      BY <1>28, SeenUnchanged DEF WriterCancels
    <2> QED
      BY <1>28, <2>1 DEF WriterCancels, Cancelled, TypeOK, DispatchInv, EndInv, HandsInv, WriterInv, RecordsInv
  <1>29. CASE Acknowledge
    <2>1. records' = records /\ Seen' = Seen
      BY <1>29, SeenUnchanged DEF Acknowledge
    <2> QED
      BY <1>29, <2>1 DEF Acknowledge, TypeOK, DispatchInv, EndInv, HandsInv, WriterInv, RecordsInv
  <1>30. CASE WriterExits
    <2>1. records' = records /\ Seen' = Seen
      BY <1>30, SeenUnchanged DEF WriterExits
    <2> QED
      BY <1>30, <2>1 DEF WriterExits, TypeOK, DispatchInv, EndInv, HandsInv, WriterInv, RecordsInv
  <1>31. CASE UNCHANGED vars
    <2>1. Seen' = Seen
      BY <1>31, SeenUnchanged DEF vars
    <2> QED
      BY <1>31, <2>1 DEF vars, TypeOK, DispatchInv, EndInv, HandsInv, WriterInv, RecordsInv
  <1> QED
    BY <1>1, <1>2, <1>3, <1>4, <1>5, <1>6, <1>7, <1>8, <1>9, <1>10, <1>11, <1>12, <1>13, <1>14, <1>15, <1>16, <1>17, <1>18, <1>19, <1>20, <1>21, <1>22, <1>23, <1>24, <1>25, <1>26, <1>27, <1>28, <1>29, <1>30, <1>31 DEF Next, Dispatcher, Worker, Writer, GradeEnds, Terminating

LEMMA IInvInit == Init => IInv
  <1> SUFFICES ASSUME Init PROVE IInv
    OBVIOUS
  <1> USE MaxRowsAssumption DEF Init
  <1>1. Seen = {} /\ records \in Seq(Record) /\ DOMAIN records = {}
    BY DEF Seen
  <1>2. TypeOK
    <2>1. file \in [rows : 0..MaxRows, bad : BOOLEAN]
      BY BOOLEAN = {TRUE, FALSE}
    <2>2. next \in 1..(MaxRows + 1)
      OBVIOUS
    <2>3. /\ wpc \in [Workers -> {"idle", "begin", "grading", "send", "ack", "exited"}]
          /\ job \in [Workers -> 0..MaxRows]
          /\ verdict \in [Workers -> Evaluations]
      BY DEF Evaluations
    <2> QED
      BY <1>1, <2>1, <2>2, <2>3 DEF TypeOK, Rows, StopReasons, ContextErrors, MainAt
  <1>3. DispatchInv /\ EndInv
    BY <1>1 DEF DispatchInv, EndInv, DispatchOver, Stopped
  <1>4. HandsInv /\ WriterInv /\ RecordsInv
    BY <1>1 DEF HandsInv, WriterInv, RecordsInv, Busy, Unwritten, ResultsClosed
  <1> QED
    BY <1>2, <1>3, <1>4 DEF IInv

-----------------------------------------------------------------------------
(* At every moment each row that was read is in one place: with the dispatcher, *)
(* with the one worker that holds it, with the writer, or in the file; and the  *)
(* rows that the backfill has left are those that have no record.               *)
THEOREM EveryRowHasItsPlace == Spec => []IInv
  BY IInvInit, IInvStep, PTL DEF Spec

(* What Run keeps in memory and puts in the file always has the shape the code *)
(* declares, whatever the workers, the Graders and the caller do.              *)
THEOREM TypeCorrect == Spec => []TypeOK
  <1>1. IInv => TypeOK
    BY DEF IInv
  <1> QED
    BY <1>1, EveryRowHasItsPlace, PTL

(* A run that returns a result wrote exactly one record for each row of the    *)
(* dataset, for any number of workers and rows (runner.go:3-6, :133-136).      *)
THEOREM OneRecordForEachRow == Spec => []OneRecordPerRow
  <1>1. IInv => OneRecordPerRow
    BY DEF IInv, RecordsInv, OneRecordPerRow
  <1> QED
    BY <1>1, EveryRowHasItsPlace, PTL

(* No worker is left when the results channel is closed, and no goroutine when *)
(* Run returns (runner.go:215-218).                                            *)
THEOREM NoSendOnClosedChannel == Spec => []NoSendAfterClose
  <1>1. IInv => NoSendAfterClose
    BY DEF IInv, TypeOK, MainAt, EndInv, WriterInv, NoSendAfterClose, ResultsClosed
  <1> QED
    BY <1>1, EveryRowHasItsPlace, PTL

-----------------------------------------------------------------------------

LEMMA KeptInit == Init => KeptInv
  BY DEF Init, KeptInv, Stopped

LEMMA KeptStep ==
  ASSUME "spurious" \notin Faults, IInv, KeptInv, [Next]_vars
  PROVE  KeptInv'
  <1> USE DEF Stopped, JobsClosed, ResultsClosed, Busy, Unwritten,
              dispatchVars, workerVars, writerVars
  <1>1. CASE CallerEnds
    <2>1. Seen' = Seen
      BY <1>1, SeenUnchanged DEF CallerEnds
    <2> QED
      BY <1>1, <2>1 DEF CallerEnds, KeptInv, IInv, TypeOK, DispatchInv, EndInv, WriterInv
  <1>2. CASE Propagate
    <2>1. Seen' = Seen
      BY <1>2, SeenUnchanged DEF Propagate
    <2> QED
      BY <1>2, <2>1 DEF Propagate, KeptInv, IInv, TypeOK, DispatchInv, EndInv, WriterInv
  <1>3. CASE CheckStopped
    <2>1. Seen' = Seen
      BY <1>3, SeenUnchanged DEF CheckStopped
    <2> QED
      BY <1>3, <2>1 DEF CheckStopped, KeptInv, IInv, TypeOK, DispatchInv, EndInv, WriterInv
  <1>4. CASE CheckContext
    <2>1. Seen' = Seen
      BY <1>4, SeenUnchanged DEF CheckContext
    <2> QED
      BY <1>4, <2>1 DEF CheckContext, Fire, KeptInv, IInv, TypeOK, DispatchInv, EndInv, WriterInv
  <1>5. CASE DispatchCancels
    <2>1. Seen' = Seen
      BY <1>5, SeenUnchanged DEF DispatchCancels
    <2> QED
      BY <1>5, <2>1 DEF DispatchCancels, Cancelled, KeptInv, IInv, TypeOK, DispatchInv, EndInv, WriterInv
  <1>6. CASE ReadRow
    <2>1. Seen' = Seen
      BY <1>6, SeenUnchanged DEF ReadRow
    <2> QED
      BY <1>6, <2>1 DEF ReadRow, KeptInv, IInv, TypeOK, DispatchInv, EndInv, WriterInv
  <1>7. CASE ReadEnd
    <2>1. Seen' = Seen
      BY <1>7, SeenUnchanged DEF ReadEnd
    <2> QED
      BY <1>7, <2>1 DEF ReadEnd, KeptInv, IInv, TypeOK, DispatchInv, EndInv, WriterInv
  <1>8. ASSUME NEW w \in Workers, SendJob(w) PROVE KeptInv'
    <2>1. Seen' = Seen
      BY <1>8, SeenUnchanged DEF SendJob
    <2> QED
      BY <1>8, <2>1 DEF SendJob, KeptInv, IInv, TypeOK, DispatchInv, EndInv, WriterInv
  <1>9. CASE GiveUpSending
    <2>1. Seen' = Seen
      BY <1>9, SeenUnchanged DEF GiveUpSending
    <2> QED
      BY <1>9, <2>1 DEF GiveUpSending, KeptInv, IInv, TypeOK, DispatchInv, EndInv, WriterInv
  <1>10. CASE CloseJobs
    <2>1. Seen' = Seen
      BY <1>10, SeenUnchanged DEF CloseJobs
    <2> QED
      BY <1>10, <2>1 DEF CloseJobs, KeptInv, IInv, TypeOK, DispatchInv, EndInv, WriterInv
  <1>11. CASE CloseResults
    <2>1. Seen' = Seen
      BY <1>11, SeenUnchanged DEF CloseResults
    <2> QED
      BY <1>11, <2>1 DEF CloseResults, KeptInv, IInv, TypeOK, DispatchInv, EndInv, WriterInv
  <1>12. CASE JoinWriter
    <2>1. Seen' = Seen
      BY <1>12, SeenUnchanged DEF JoinWriter
    <2> QED
      BY <1>12, <2>1 DEF JoinWriter, KeptInv, IInv, TypeOK, DispatchInv, EndInv, WriterInv
  <1>13. CASE CheckErrors
    <2>1. Seen' = Seen
      BY <1>13, SeenUnchanged DEF CheckErrors
    <2> QED
      BY <1>13, <2>1 DEF CheckErrors, ReturnWith, KeptInv, IInv, TypeOK, DispatchInv, EndInv, WriterInv
  <1>14. CASE CheckInterrupt
    <2>1. Seen' = Seen
      BY <1>14, SeenUnchanged DEF CheckInterrupt
    <2> QED
      BY <1>14, <2>1 DEF CheckInterrupt, Fire, Cancelled, KeptInv, IInv, TypeOK, DispatchInv, EndInv, WriterInv
  <1>15. CASE BackfillNotStopped
    <2>1. Seen' = Seen
      BY <1>15, SeenUnchanged DEF BackfillNotStopped
    <2> QED
      BY <1>15, <2>1 DEF BackfillNotStopped, ReturnWith, Undelivered, KeptInv, IInv, TypeOK, DispatchInv, EndInv, WriterInv
  <1>16. CASE BackfillStopped
    <2>1. Seen' = Seen
      BY <1>16, SeenUnchanged DEF BackfillStopped
    <2> QED
      BY <1>16, <2>1 DEF BackfillStopped, ReturnWith, KeptInv, IInv, TypeOK, DispatchInv, EndInv, WriterInv
  <1>17. CASE FillRow
    BY <1>17 DEF FillRow, KeptInv, IInv, EndInv
  <1>18. CASE FillFails
    <2>1. Seen' = Seen
      BY <1>18, SeenUnchanged DEF FillFails
    <2> QED
      BY <1>18, <2>1 DEF FillFails, ReturnWith, KeptInv, IInv, TypeOK, DispatchInv, EndInv, WriterInv
  <1>19. CASE FillEnds
    <2>1. Seen' = Seen
      BY <1>19, SeenUnchanged DEF FillEnds
    <2> QED
      BY <1>19, <2>1 DEF FillEnds, ReturnWith, KeptInv, IInv, TypeOK, DispatchInv, EndInv, WriterInv
  <1>20. ASSUME NEW w \in Workers, BeginGrade(w) PROVE KeptInv'
    <2>1. Seen' = Seen
      BY <1>20, SeenUnchanged DEF BeginGrade
    <2> QED
      BY <1>20, <2>1 DEF BeginGrade, KeptInv, IInv, TypeOK, DispatchInv, EndInv, WriterInv
  <1>21. ASSUME NEW w \in Workers, GradeCancelled(w) PROVE KeptInv'
    <2>1. Seen' = Seen
      BY <1>21, SeenUnchanged DEF GradeCancelled
    <2> QED
      BY <1>21, <2>1 DEF GradeCancelled, CanReturn, KeptInv, IInv, TypeOK, DispatchInv, EndInv, WriterInv
  <1>22. ASSUME NEW w \in Workers, NEW v \in GraderMay, GradeReturns1(w, v) PROVE KeptInv'
    <2>1. Seen' = Seen
      BY <1>22, SeenUnchanged DEF GradeReturns1
    <2> QED
      BY <1>22, <2>1 DEF GradeReturns1, CanReturn, KeptInv, IInv, TypeOK, DispatchInv, EndInv, WriterInv
  <1>23. ASSUME NEW w \in Workers, WorkerExits(w) PROVE KeptInv'
    <2>1. Seen' = Seen
      BY <1>23, SeenUnchanged DEF WorkerExits
    <2>2. \A v \in Workers : Unwritten(v) => Unwritten(v)'
      BY <1>23 DEF WorkerExits, Unwritten, IInv, TypeOK, writerVars
    <2> QED
      BY <1>23, <2>1, <2>2 DEF WorkerExits, KeptInv, Stopped, dispatchVars, writerVars
  <1>24. ASSUME NEW w \in Workers, ReceiveResult(w) PROVE KeptInv'
    <2>1. Seen' = Seen
      BY <1>24, SeenUnchanged DEF ReceiveResult
    <2> QED
      BY <1>24, <2>1 DEF ReceiveResult, KeptInv, IInv, TypeOK, DispatchInv, EndInv, WriterInv
  <1>25. CASE WriteRecord
    <2>1. CompletedRecord(job[from], verdict[from]) \in Record /\ CompletedRecord(job[from], verdict[from]).seq = job[from]
      BY <1>25 DEF WriteRecord, IInv, TypeOK, WriterInv, HandsInv, Record, CompletedRecord, Rows
    <2>2. Seen' = Seen \cup {job[from]}
      BY <1>25, <2>1, SeenAppend DEF WriteRecord, IInv
    <2> QED
      BY <1>25, <2>2 DEF WriteRecord, KeptInv, IInv, TypeOK, WriterInv
  <1>26. CASE WriteFails
    <2>1. Seen' = Seen
      BY <1>26, SeenUnchanged DEF WriteFails
    <2> QED
      BY <1>26, <2>1 DEF WriteFails, KeptInv, IInv, TypeOK, DispatchInv, EndInv, WriterInv
  <1>27. CASE WriterStops
    <2>1. Seen' = Seen
      BY <1>27, SeenUnchanged DEF WriterStops
    <2> QED
      BY <1>27, <2>1 DEF WriterStops, Fire, KeptInv, IInv, TypeOK, DispatchInv, EndInv, WriterInv
  <1>28. CASE WriterCancels
    <2>1. Seen' = Seen
      BY <1>28, SeenUnchanged DEF WriterCancels
    <2> QED
      BY <1>28, <2>1 DEF WriterCancels, Cancelled, KeptInv, IInv, TypeOK, DispatchInv, EndInv, WriterInv
  <1>29. CASE Acknowledge
    <2>1. Seen' = Seen
      BY <1>29, SeenUnchanged DEF Acknowledge
    <2>2. \A v \in Workers : Unwritten(v) => Unwritten(v)'
      BY <1>29 DEF Acknowledge, Unwritten, IInv, TypeOK, WriterInv
    <2> QED
      BY <1>29, <2>1, <2>2 DEF Acknowledge, KeptInv, Stopped, dispatchVars
  <1>30. CASE WriterExits
    <2>1. Seen' = Seen
      BY <1>30, SeenUnchanged DEF WriterExits
    <2> QED
      BY <1>30, <2>1 DEF WriterExits, KeptInv, IInv, TypeOK, DispatchInv, EndInv, WriterInv
  <1>31. CASE UNCHANGED vars
    <2>1. Seen' = Seen
      BY <1>31, SeenUnchanged DEF vars
    <2> QED
      BY <1>31, <2>1 DEF vars, KeptInv
  <1> QED
    BY <1>1, <1>2, <1>3, <1>4, <1>5, <1>6, <1>7, <1>8, <1>9, <1>10, <1>11, <1>12, <1>13, <1>14, <1>15, <1>16, <1>17, <1>18, <1>19, <1>20, <1>21, <1>22, <1>23, <1>24, <1>25, <1>26, <1>27, <1>28, <1>29, <1>30, <1>31 DEF Next, Dispatcher, Worker, Writer, GradeEnds, Terminating

(* With Graders that report no cancellation they were not given, Run never     *)
(* finds samples missing from a run that was not stopped (runner.go:411-417).  *)
THEOREM NoRowsLost == Spec => []NoLostRows
  <1>1. CASE "spurious" \in Faults
    <2>1. NoLostRows
      BY <1>1 DEF NoLostRows
    <2> QED
      BY <2>1, PTL
  <1>2. CASE "spurious" \notin Faults
    <2>1. KeptInv => NoLostRows
      BY DEF KeptInv, NoLostRows
    <2>2. IInv /\ KeptInv /\ [Next]_vars => KeptInv'
      BY <1>2, KeptStep
    <2> QED
      BY <2>1, <2>2, EveryRowHasItsPlace, KeptInit, PTL DEF Spec
  <1> QED
    BY <1>1, <1>2
=============================================================================
