--------------------------- MODULE EvidenceProofs ---------------------------
(***************************************************************************)
(* Proofs about Evidence, for any set of workers, any number of rows,      *)
(* either kind of peer and any choice of faults.                           *)
(*                                                                         *)
(* IInv follows each sample from the worker that takes it to the record it *)
(* gets: a sample without a record is in the hands of one worker, was cut  *)
(* off by the stop, or was never begun, and the recorder holds exchanges   *)
(* of such samples only.                                                   *)
(***************************************************************************)
EXTENDS Evidence, FiniteSetTheorems, TLAPS

Busy(w) == call[w].at # "idle"
Has(w, s) == Busy(w) /\ call[w].sample = s

\* What a worker has in its hands, or had last.
CallInv ==
    \A w \in Workers :
        /\ call[w].sample < next
        /\ Busy(w) => call[w].sample \in Samples /\ records[call[w].sample] = "none"
        /\ Live(call[w]) => cutAt[call[w].sample] = "no" /\ call[w].sample \notin answered
        /\ ~Busy(w) /\ stopped = "no" /\ ~writeErr =>
              call[w].sample = 0 \/ records[call[w].sample] # "none"

\* A verdict that has not been recorded yet tells what ended the call.
ResultInv ==
    \A w \in Workers : call[w].at = "judged" =>
        /\ call[w].result \in Results
        /\ call[w].result = "canceled" =>
              endedBy[call[w].sample] = "canceled" /\ call[w].sample \notin answered
        /\ call[w].result = "timeout" =>
              endedBy[call[w].sample] = "deadline" \/ (call[w].sample \in answered /\ ~IsJudge(peer))
        /\ cutAt[call[w].sample] = "asking" =>
              call[w].result \in {"canceled", "timeout"} /\ call[w].sample \notin answered

\* No two workers have the same sample.
ApartInv == \A v, w \in Workers : Busy(v) /\ Busy(w) /\ call[v].sample = call[w].sample => v = w

\* Nothing has happened to the rows that nobody took, until the backfill.
FutureInv ==
    \A s \in Samples : s >= next =>
        /\ endedBy[s] = "no" /\ cutAt[s] = "no" /\ s \notin answered
        /\ stopped = "no" => records[s] = "none"

ContextInv ==
    \A s \in Samples :
        /\ endedBy[s] = "canceled" => stopped # "no"
        /\ cutAt[s] = "asking" => endedBy[s] # "no"

\* Where a row is that was taken and has no record.
TakenInv ==
    \A s \in Samples : s < next /\ records[s] = "none" =>
        \/ endedBy[s] = "canceled" /\ s \notin answered
        \/ writeErr
        \/ \E w \in Workers : Has(w, s)

\* The recorder: every sample in it was the last one of some worker, until records cannot be
\* written any more.
HeldInv ==
    /\ \A s \in held : records[s] = "none" /\ (writeErr \/ \E w \in Workers : call[w].sample = s)
    /\ \A s \in exchanged : records[s] = "none" => s \in held

\* The logs directory, and what is still true once the result has been written.
DirInv ==
    /\ \A f \in Samples : logs[f] # {} => logsDir
    /\ logsDir => \E s \in Samples : s \in errors \/ \E f \in Samples : s \in logs[f]
    /\ phase # "grading" => Idle
    /\ phase \in {"flushing", "done"} =>
         /\ Missing = {}
         /\ artifacts.logs = logsDir /\ artifacts.errors = (errors # {})
         /\ artifacts.written => artifacts.errors

IInv ==
    /\ TypeOK /\ CallInv /\ ResultInv /\ ApartInv /\ FutureInv /\ ContextInv /\ TakenInv
    /\ HeldInv /\ DirInv
    /\ EvidenceIsKept /\ OnlyFailuresAreKept /\ VerdictsAreTrue /\ AbandonedIsReported

-----------------------------------------------------------------------------
(* What the calls come to *)

LEMMA RepliedIsResult ==
  ASSUME NEW p \in Peers, NEW reply \in Replies(p)
  PROVE  /\ Replied(p, reply) \in Results
         /\ Replied(p, reply) # "canceled"
         /\ IsJudge(p) => Replied(p, reply) # "timeout"
  BY DEF Replied, Replies, Peers, IsJudge, Complete, ParseReply, Interpret, Classify, Adopt, Texts,
         Failures, Evaluations, Results, Codes

LEMMA FailedIsResult ==
  ASSUME NEW p \in Peers, NEW err \in TransportErrors
  PROVE  /\ Failed(p, err) \in Results
         /\ Failed(p, err) = "canceled" <=> err = "canceled"
         /\ Failed(p, err) = "timeout" <=> err = "deadline"
  BY DEF Failed, TransportErrors, Peers, IsJudge, Complete, Classify, ClassifyExchange, Results, Codes

-----------------------------------------------------------------------------
(* What the writer makes of a sample's exchanges *)

LEMMA RetainStep ==
  ASSUME IInv, NEW s \in Samples, NEW verdict \in Results \cup {"skipped"}, Retain(s, verdict),
         records[s] = "none", records' = [records EXCEPT ![s] = verdict],
         UNCHANGED <<setup, exchanged>>
  PROVE  /\ held' = held \ {s}
         /\ logs' \in [Samples -> SUBSET Samples] /\ logsDir' \in BOOLEAN /\ errors' \subseteq Samples
         /\ \A t \in exchanged : records'[t] = "none" => t \in held'
         /\ \A f \in Samples : logs'[f] # {} => logsDir'
         /\ logsDir' => \E t \in Samples : t \in errors' \/ \E f \in Samples : t \in logs'[f]
         /\ EvidenceIsKept' /\ OnlyFailuresAreKept'
  <1> USE DEF IInv, TypeOK, setup
  <1>1. held' = held \ {s}
    BY DEF Retain
  <1>2. verdict # "none"
    BY DEF Results, Codes
  <1>3. \A t \in exchanged : records'[t] = "none" => t \in held'
    BY <1>1, <1>2 DEF HeldInv
  <1>4. CASE s \in held /\ (verdict \in Codes \/ keepAll)
    <2>1. Keep(s)
      BY <1>4 DEF Retain
    <2>2. nameOf[s] \in Samples
      BY NamingAssumption
    <2>3. /\ logs' \in [Samples -> SUBSET Samples] /\ logsDir' \in BOOLEAN /\ errors' \subseteq Samples
          /\ errors \subseteq errors'
          /\ \A f \in Samples : logs[f] \subseteq logs'[f] /\ logs'[f] \subseteq logs[f] \cup {s}
          /\ s \in logs'[nameOf[s]] \cup errors'
      <3> DEFINE n == nameOf[s]
      <3>1. n \in Samples
        BY <2>2
      <3>2. CASE logs' = [logs EXCEPT ![n] = @ \cup {s}] /\ logsDir' = TRUE /\ errors' = errors
        <4> HIDE DEF n
        <4>1. \A f \in Samples : logs'[f] = IF f = n THEN logs[f] \cup {s} ELSE logs[f]
          BY <3>1, <3>2
        <4>2. logs' \in [Samples -> SUBSET Samples]
          BY <3>1, <3>2
        <4> QED
          BY <3>1, <3>2, <4>1, <4>2 DEF n
      <3>3. CASE logs' = logs /\ logsDir' \in BOOLEAN /\ errors' = errors \cup {s}
        BY <3>3
      <3> QED
        BY <2>1, <3>2, <3>3 DEF Keep
    <2>4. \A f \in Samples : logs'[f] # {} => logsDir'
      BY <2>1, <2>2 DEF Keep, DirInv
    <2>5. logsDir' => \E t \in Samples : t \in errors' \/ \E f \in Samples : t \in logs'[f]
      BY <2>2, <2>3
    <2>6. EvidenceIsKept'
      <3> SUFFICES ASSUME NEW t \in exchanged,
                          records'[t] \in Codes \/ (keepAll /\ records'[t] # "none")
                   PROVE  t \in logs'[nameOf[t]] \cup errors'
        BY DEF EvidenceIsKept
      <3>1. CASE t = s
        BY <3>1, <2>3
      <3>2. CASE t # s
        BY <3>2, <2>3, NamingAssumption DEF EvidenceIsKept
      <3> QED
        BY <3>1, <3>2
    <2>7. OnlyFailuresAreKept'
      <3> SUFFICES ASSUME NEW t \in Samples, NEW f \in Samples, t \in logs'[f]
                   PROVE  keepAll \/ records'[t] \in Codes
        BY DEF OnlyFailuresAreKept
      <3>1. CASE t = s
        BY <3>1, <1>4
      <3>2. CASE t # s
        BY <3>2, <2>3 DEF OnlyFailuresAreKept
      <3> QED
        BY <3>1, <3>2
    <2> QED
      BY <1>1, <1>3, <2>3, <2>4, <2>5, <2>6, <2>7
  <1>5. CASE ~(s \in held /\ (verdict \in Codes \/ keepAll))
    <2>1. UNCHANGED <<logs, logsDir, errors>>
      BY <1>5 DEF Retain, kept
    <2>2. EvidenceIsKept'
      BY <1>5, <2>1 DEF EvidenceIsKept, HeldInv
    <2>3. OnlyFailuresAreKept'
      <3> SUFFICES ASSUME NEW t \in Samples, NEW f \in Samples, t \in logs[f]
                   PROVE  keepAll \/ records'[t] \in Codes
        BY <2>1 DEF OnlyFailuresAreKept
      <3> QED
        BY DEF OnlyFailuresAreKept, Codes
    <2> QED
      BY <1>1, <1>3, <2>1, <2>2, <2>3 DEF DirInv
  <1> QED
    BY <1>4, <1>5

-----------------------------------------------------------------------------
(* The steps of a worker, up to the return of its call *)

LEMMA BeginStep ==
  ASSUME IInv, NEW w \in Workers, Begin(w)
  PROVE  IInv'
  <1> USE RowsAssumption DEF IInv, Samples
  <1>1. phase = "grading"
    BY DEF Begin
  <1>2. /\ next \in Samples /\ next' = next + 1 /\ next \in Nat
        /\ call' = [call EXCEPT ![w] = [at |-> "asking", sample |-> next, result |-> "none"]]
        /\ UNCHANGED <<setup, stopped, endedBy, cutAt, answered, exchanges, records, kept, writeErr, phase, artifacts>>
        /\ stopped = "no" /\ call[w].at = "idle"
    BY DEF Begin, TypeOK
  <1>3. TypeOK'
    <2>1. [at |-> "asking", sample |-> next, result |-> "none"] \in Call
      BY <1>2 DEF Call
    <2>2. call' \in [Workers -> Call] /\ next' \in 1..(Rows + 1)
      BY <1>2, <2>1 DEF TypeOK
    <2> QED
      BY <1>2, <2>2 DEF TypeOK, setup, exchanges, kept
  <1>4. /\ call'[w] = [at |-> "asking", sample |-> next, result |-> "none"]
        /\ \A v \in Workers \ {w} : call'[v] = call[v]
    BY <1>2 DEF TypeOK
  <1>5. records[next] = "none" /\ cutAt[next] = "no" /\ endedBy[next] = "no" /\ next \notin answered
    BY <1>2 DEF FutureInv
  <1>6. CallInv'
    <2> SUFFICES ASSUME NEW v \in Workers
                 PROVE  /\ call'[v].sample < next + 1
                        /\ call'[v].at # "idle" =>
                              call'[v].sample \in Samples /\ records[call'[v].sample] = "none"
                        /\ Live(call'[v]) => cutAt[call'[v].sample] = "no" /\ call'[v].sample \notin answered
                        /\ call'[v].at = "idle" /\ stopped = "no" /\ ~writeErr =>
                              call'[v].sample = 0 \/ records[call'[v].sample] # "none"
      BY <1>2 DEF CallInv, Busy
    <2>1. CASE v = w
      BY <2>1, <1>2, <1>4, <1>5
    <2>2. CASE v # w
      <3>1. call'[v] = call[v] /\ call[v].sample \in 0..Rows
        BY <2>2, <1>4 DEF TypeOK, Call
      <3> QED
        BY <3>1, <1>2 DEF CallInv, Busy
    <2> QED
      BY <2>1, <2>2
  <1>7. ResultInv' /\ ApartInv'
    BY <1>2, <1>4 DEF ResultInv, ApartInv, CallInv, Busy, setup
  <1>8. FutureInv' /\ ContextInv'
    BY <1>2 DEF FutureInv, ContextInv, TypeOK
  <1>9. TakenInv'
    BY <1>2, <1>4 DEF TakenInv, Has, Busy
  <1>10. HeldInv'
    <2>1. ASSUME NEW s \in held, ~writeErr
          PROVE  \E v \in Workers : call'[v].sample = s
      <3>1. s \in Samples /\ records[s] = "none"
        BY <2>1 DEF HeldInv, TypeOK
      <3>2. PICK v \in Workers : call[v].sample = s
        BY <2>1 DEF HeldInv
      <3>3. v # w
        BY <1>2, <2>1, <3>1, <3>2 DEF CallInv, Busy
      <3> QED
        BY <1>4, <3>2, <3>3
    <2> QED
      BY <1>2, <2>1 DEF HeldInv, exchanges
  <1>11. DirInv'
    BY <1>1, <1>2 DEF DirInv, kept
  <1>12. EvidenceIsKept' /\ OnlyFailuresAreKept' /\ AbandonedIsReported'
    BY <1>2 DEF EvidenceIsKept, OnlyFailuresAreKept, AbandonedIsReported, Due, setup, exchanges, kept
  <1>13. VerdictsAreTrue'
    BY <1>2 DEF VerdictsAreTrue, setup
  <1> QED
    BY <1>3, <1>6, <1>7, <1>8, <1>9, <1>10, <1>11, <1>12, <1>13

LEMMA DeadlineStep ==
  ASSUME IInv, NEW w \in Workers, Deadline(w)
  PROVE  IInv'
  <1> USE DEF IInv
  <1> DEFINE s == call[w].sample
  <1>1. /\ s \in Samples /\ Busy(w) /\ Live(call[w]) /\ s < next
        /\ records[s] = "none" /\ cutAt[s] = "no" /\ endedBy[s] = "no"
        /\ endedBy' = [endedBy EXCEPT ![s] = "deadline"]
        /\ UNCHANGED <<setup, next, stopped, call, cutAt, answered, exchanges, records, kept, writeErr, phase, artifacts>>
    BY DEF Deadline, CallInv, Live, Busy
  <1> HIDE DEF s
  <1>2. TypeOK'
    BY <1>1 DEF TypeOK, setup, exchanges, kept
  <1>3. endedBy'[s] = "deadline" /\ \A t \in Samples \ {s} : endedBy'[t] = endedBy[t]
    BY <1>1 DEF TypeOK
  <1>4. CallInv' /\ ApartInv' /\ HeldInv' /\ DirInv'
    BY <1>1 DEF CallInv, ApartInv, HeldInv, DirInv, Busy, Live, Idle, Missing, exchanges, kept
  <1>5. ResultInv'
    BY <1>1, <1>3 DEF ResultInv, CallInv, Busy, setup
  <1>6. FutureInv'
    BY <1>1, <1>3 DEF FutureInv, TypeOK, Samples
  <1>7. ContextInv' /\ TakenInv'
    BY <1>1, <1>3 DEF ContextInv, TakenInv, Has, Busy
  <1>8. EvidenceIsKept' /\ OnlyFailuresAreKept'
    BY <1>1 DEF EvidenceIsKept, OnlyFailuresAreKept, setup, exchanges, kept
  <1>9. VerdictsAreTrue' /\ AbandonedIsReported'
    BY <1>1, <1>3 DEF VerdictsAreTrue, AbandonedIsReported, Due, setup
  <1> QED
    BY <1>2, <1>4, <1>5, <1>6, <1>7, <1>8, <1>9

LEMMA HeadersStep ==
  ASSUME IInv, NEW w \in Workers, Headers(w)
  PROVE  IInv'
  <1> USE DEF IInv
  <1>1. /\ call[w].at = "asking" /\ call' = [call EXCEPT ![w].at = "reading"]
        /\ UNCHANGED <<setup, next, stopped, endedBy, cutAt, answered, exchanges, records, kept, writeErr, phase, artifacts>>
    BY DEF Headers
  <1>2. TypeOK'
    BY <1>1 DEF TypeOK, Call, setup, exchanges, kept
  <1>3. /\ call'[w] = [call[w] EXCEPT !.at = "reading"]
        /\ \A v \in Workers \ {w} : call'[v] = call[v]
        /\ \A v \in Workers : call'[v].sample = call[v].sample /\ Busy(v)' = Busy(v)
    BY <1>1 DEF TypeOK, Call, Busy
  <1>4. CallInv' /\ ResultInv' /\ ApartInv'
    BY <1>1, <1>3 DEF CallInv, ResultInv, ApartInv, Busy, Live, setup
  <1>5. FutureInv' /\ ContextInv' /\ TakenInv' /\ HeldInv'
    BY <1>1, <1>3 DEF FutureInv, ContextInv, TakenInv, HeldInv, Has, exchanges
  <1>6. DirInv'
    BY <1>1 DEF DirInv, Idle, kept
  <1>7. EvidenceIsKept' /\ OnlyFailuresAreKept' /\ VerdictsAreTrue' /\ AbandonedIsReported'
    BY <1>1 DEF EvidenceIsKept, OnlyFailuresAreKept, VerdictsAreTrue, AbandonedIsReported, Due, setup,
                exchanges, kept
  <1> QED
    BY <1>2, <1>4, <1>5, <1>6, <1>7

\* The four ways a call returns: with what ends it, its exchange is recorded.  Only an
\* external Grader that answers makes of itself a timeout.
LEMMA ReturnStep ==
  ASSUME IInv, NEW w \in Workers, Live(call[w]), NEW result \in Results, NEW err, Return(w, result),
         Record(w, err),
         answered' \in {answered, answered \cup {call[w].sample}},
         result = "canceled" => endedBy[call[w].sample] = "canceled" /\ answered' = answered,
         result = "timeout" =>
            \/ endedBy[call[w].sample] = "deadline"
            \/ answered' = answered \cup {call[w].sample} /\ ~IsJudge(peer),
         \/ cutAt' = cutAt
         \/ /\ endedBy[call[w].sample] # "no" /\ result \in {"canceled", "timeout"}
            /\ answered' = answered
            /\ cutAt' = [cutAt EXCEPT ![call[w].sample] = "asking"]
         \/ cutAt' = [cutAt EXCEPT ![call[w].sample] = "reading"],
         UNCHANGED <<setup, next, stopped, endedBy, records, kept, writeErr, phase, artifacts>>
  PROVE  IInv'
  <1> USE DEF IInv
  <1> DEFINE s == call[w].sample
  <1>1. /\ s \in Samples /\ Busy(w) /\ s < next
        /\ records[s] = "none" /\ cutAt[s] = "no" /\ s \notin answered
    BY DEF CallInv, Live, Busy
  <1>2. /\ \A t \in Samples \ {s} : cutAt'[t] = cutAt[t]
        /\ cutAt' \in [Samples -> {"no", "asking", "reading"}]
        /\ cutAt'[s] = "asking" =>
              endedBy[s] # "no" /\ result \in {"canceled", "timeout"} /\ answered' = answered
        /\ answered \subseteq answered' /\ answered' \subseteq answered \cup {s} /\ answered' \subseteq Samples
        /\ result = "canceled" => endedBy[s] = "canceled" /\ answered' = answered
        /\ result = "timeout" => endedBy[s] = "deadline" \/ (s \in answered' /\ ~IsJudge(peer))
    BY <1>1 DEF TypeOK
  <1>3. /\ held \subseteq held' /\ held' \subseteq held \cup {s}
        /\ exchanged \subseteq exchanged' /\ exchanged' \subseteq exchanged \cup {s}
        /\ s \in exchanged' => s \in held'
    BY <1>1 DEF Record, exchanges, HeldInv
  <1>4. /\ call' = [call EXCEPT ![w].at = "judged", ![w].result = result]
        /\ call'[w] = [call[w] EXCEPT !.at = "judged", !.result = result]
        /\ \A v \in Workers \ {w} : call'[v] = call[v]
        /\ \A v \in Workers : call'[v].sample = call[v].sample /\ Busy(v)' = Busy(v)
    BY <1>1 DEF Return, TypeOK, Call, Busy
  <1>5. call'[w].at = "judged" /\ call'[w].sample = s /\ call'[w].result = result
    BY <1>4 DEF TypeOK, Call
  <1> HIDE DEF s
  <1>6. TypeOK'
    <2>1. [call[w] EXCEPT !.at = "judged", !.result = result] \in Call
      <3>1. call[w] \in Call
        BY DEF TypeOK
      <3> QED
        BY <3>1 DEF Call
    <2>2. call' \in [Workers -> Call]
      BY <1>4, <2>1 DEF TypeOK
    <2> QED
      BY <2>2, <1>1, <1>2, <1>3 DEF TypeOK, setup, kept
  <1>7. \A v \in Workers \ {w} : Busy(v) => call[v].sample # s
    BY <1>1 DEF ApartInv, s
  <1>8. CallInv'
    <2> SUFFICES ASSUME NEW v \in Workers
                 PROVE  /\ call'[v].sample < next
                        /\ call'[v].at # "idle" =>
                              call'[v].sample \in Samples /\ records[call'[v].sample] = "none"
                        /\ Live(call'[v]) => cutAt'[call'[v].sample] = "no" /\ call'[v].sample \notin answered'
                        /\ call'[v].at = "idle" /\ stopped = "no" /\ ~writeErr =>
                              call'[v].sample = 0 \/ records[call'[v].sample] # "none"
      BY DEF CallInv, Busy
    <2>1. CASE v = w
      BY <2>1, <1>1, <1>5 DEF Live
    <2>2. CASE v # w
      <3>1. call'[v] = call[v]
        BY <2>2, <1>4
      <3>2. Busy(v) => call[v].sample \in Samples \ {s}
        BY <2>2, <1>7 DEF CallInv
      <3>3. Live(call[v]) => Busy(v)
        BY DEF Live, Busy
      <3> QED
        BY <3>1, <3>2, <3>3, <1>2 DEF CallInv, Busy
    <2> QED
      BY <2>1, <2>2
  <1>9. ResultInv'
    <2> SUFFICES ASSUME NEW v \in Workers, call'[v].at = "judged"
                 PROVE  /\ call'[v].result \in Results
                        /\ call'[v].result = "canceled" =>
                              endedBy[call'[v].sample] = "canceled" /\ call'[v].sample \notin answered'
                        /\ call'[v].result = "timeout" =>
                              \/ endedBy[call'[v].sample] = "deadline"
                              \/ call'[v].sample \in answered' /\ ~IsJudge(peer)
                        /\ cutAt'[call'[v].sample] = "asking" =>
                              call'[v].result \in {"canceled", "timeout"} /\ call'[v].sample \notin answered'
      BY DEF ResultInv, setup
    <2>1. CASE v = w
      BY <2>1, <1>1, <1>2, <1>5
    <2>2. CASE v # w
      <3>1. call'[v] = call[v] /\ Busy(v) /\ call[v].sample \in Samples \ {s}
        BY <2>2, <1>4, <1>7 DEF Busy, CallInv
      <3> QED
        BY <3>1, <1>2 DEF ResultInv
    <2> QED
      BY <2>1, <2>2
  <1>10. ApartInv'
    <2> SUFFICES ASSUME NEW u \in Workers, NEW v \in Workers, Busy(u)', Busy(v)',
                        call'[u].sample = call'[v].sample
                 PROVE  u = v
      BY DEF ApartInv
    <2> QED
      BY ZenonT(30), <1>4 DEF ApartInv
  <1>18. TakenInv'
    <2>1. \A v \in Workers, t \in Samples : Has(v, t) => Has(v, t)'
      BY <1>4 DEF Has
    <2>2. \A t \in Samples : t = s => Has(w, t)'
      BY <1>1, <1>4, <1>5 DEF Has, Busy
    <2>3. \A t \in Samples \ {s} : t \notin answered => t \notin answered'
      BY <1>2
    <2> QED
      BY <2>1, <2>2, <2>3 DEF TakenInv
  <1>11. FutureInv'
    BY <1>1, <1>2 DEF FutureInv, TypeOK, Samples
  <1>12. ContextInv'
    BY <1>2 DEF ContextInv
  <1>13. HeldInv'
    <2>1. \A t \in held' : t \in held \/ t = s
      BY <1>3
    <2>2. \A t \in held' : records[t] = "none" /\ (writeErr \/ \E v \in Workers : call'[v].sample = t)
      <3> SUFFICES ASSUME NEW t \in held'
                   PROVE  records[t] = "none" /\ (writeErr \/ \E v \in Workers : call'[v].sample = t)
        OBVIOUS
      <3>1. CASE t \in held
        <4>1. CASE writeErr
          BY <3>1, <4>1 DEF HeldInv
        <4>2. CASE ~writeErr
          <5>1. PICK v \in Workers : call[v].sample = t
            BY <3>1, <4>2 DEF HeldInv
          <5> QED
            BY <3>1, <5>1, <1>4 DEF HeldInv
        <4> QED
          BY <4>1, <4>2
      <3>2. CASE t = s
        BY <3>2, <1>1, <1>5
      <3> QED
        BY <2>1, <3>1, <3>2
    <2>3. \A t \in exchanged' : records[t] = "none" => t \in held'
      BY <1>3 DEF HeldInv
    <2> QED
      BY <2>2, <2>3 DEF HeldInv
  <1>14. DirInv'
    BY <1>1, <1>4 DEF DirInv, Idle, Busy, kept
  <1>15. EvidenceIsKept'
    BY <1>1, <1>3 DEF EvidenceIsKept, Codes, setup, kept
  <1>16. OnlyFailuresAreKept' /\ VerdictsAreTrue'
    BY <1>1, <1>2 DEF OnlyFailuresAreKept, VerdictsAreTrue, setup, kept
  <1>17. AbandonedIsReported'
    BY <1>1, <1>2 DEF AbandonedIsReported, Due
  <1> QED
    BY <1>6, <1>8, <1>9, <1>10, <1>11, <1>12, <1>13, <1>14, <1>15, <1>16, <1>17, <1>18

LEMMA WorkerReturnStep ==
  ASSUME IInv, NEW w \in Workers, Reply(w) \/ Abandon(w) \/ Unreachable(w) \/ CutBody(w)
  PROVE  IInv'
  <1> USE DEF IInv
  <1>1. peer \in Peers
    BY PeersAssumption DEF TypeOK
  <1>2. CASE Reply(w)
    <2>1. Live(call[w])
      BY <1>2 DEF Reply, Live
    <2>2. PICK reply \in Replies(peer) : Return(w, Replied(peer, reply))
      BY <1>2 DEF Reply
    <2>3. /\ Replied(peer, reply) \in Results /\ Replied(peer, reply) # "canceled"
          /\ IsJudge(peer) => Replied(peer, reply) # "timeout"
      BY <1>1, RepliedIsResult
    <2> QED
      BY <1>2, <2>1, <2>2, <2>3, ReturnStep DEF Reply
  <1>3. CASE Abandon(w)
    <2> DEFINE err == endedBy[call[w].sample]
    <2>1. Live(call[w])
      BY <1>3 DEF Abandon, Live
    <2>2. call[w].sample \in Samples
      BY <2>1 DEF CallInv, Busy, Live
    <2>3. err \in {"canceled", "deadline"}
      BY <1>3, <2>2 DEF Abandon, TypeOK
    <2>4. /\ Failed(peer, err) \in Results
          /\ Failed(peer, err) = "canceled" <=> err = "canceled"
          /\ Failed(peer, err) = "timeout" <=> err = "deadline"
      BY <1>1, <2>3, FailedIsResult DEF TransportErrors
    <2> QED
      BY <1>3, <2>1, <2>3, <2>4, ReturnStep DEF Abandon
  <1>4. CASE Unreachable(w)
    <2>1. Live(call[w])
      BY <1>4 DEF Unreachable, Live
    <2>2. Failed(peer, "broken") \in Results \ {"canceled", "timeout"}
      BY <1>1, FailedIsResult DEF TransportErrors
    <2> QED
      BY <1>4, <2>1, <2>2, ReturnStep DEF Unreachable
  <1>5. CASE CutBody(w)
    <2>1. Live(call[w])
      BY <1>5 DEF CutBody, Live
    <2>2. call[w].sample \in Samples
      BY <2>1 DEF CallInv, Busy, Live
    <2> DEFINE ended == endedBy[call[w].sample]
               err == IF ended # "no" THEN ended ELSE "broken"
    <2>3. cutAt' = cutAt \/ cutAt' = [cutAt EXCEPT ![call[w].sample] = "reading"]
      BY <1>5 DEF CutBody
    <2>4. CASE Return(w, Replied(peer, "cut"))
      <3>1. Replied(peer, "cut") \in {"judge_error", "protocol_error"}
        BY DEF Replied, Complete, ParseReply, Classify, Adopt, Texts
      <3>2. Replied(peer, "cut") \in Results \ {"canceled", "timeout"}
        BY <3>1 DEF Results, Codes
      <3> QED
        BY <1>5, <2>1, <2>3, <2>4, <3>2, ReturnStep DEF CutBody
    <2>5. CASE Return(w, Failed(peer, err))
      <3>1. ended \in {"no", "canceled", "deadline"}
        BY <2>2 DEF TypeOK
      <3>2. err \in TransportErrors
        BY <3>1 DEF TransportErrors
      <3>3. /\ Failed(peer, err) \in Results
            /\ Failed(peer, err) = "canceled" => ended = "canceled"
            /\ Failed(peer, err) = "timeout" => ended = "deadline"
        BY <1>1, <3>1, <3>2, FailedIsResult
      <3> QED
        BY <1>5, <2>1, <2>3, <2>5, <3>3, ReturnStep DEF CutBody
    <2> QED
      BY <1>5, <2>4, <2>5 DEF CutBody
  <1> QED
    BY <1>2, <1>3, <1>4, <1>5

-----------------------------------------------------------------------------
(* The stop and the records *)

\* Only the calls that still run lose their contexts.
LEMMA CancelStep ==
  ASSUME IInv, CancelCalls
  PROVE  /\ endedBy' \in [Samples -> {"no", "canceled", "deadline"}]
         /\ \A s \in Samples : endedBy[s] # "no" => endedBy'[s] = endedBy[s]
         /\ \A s \in Samples : s >= next => endedBy'[s] = endedBy[s]
  <1>1. \A w \in Workers : Live(call[w]) => call[w].sample \in Samples /\ ~(call[w].sample >= next)
    BY DEF IInv, CallInv, Busy, Live, TypeOK, Samples
  <1> QED
    BY <1>1 DEF CancelCalls, IInv, TypeOK

LEMMA InterruptStep ==
  ASSUME IInv, Interrupt
  PROVE  IInv'
  <1> USE DEF IInv
  <1>1. /\ stopped = "no" /\ stopped' = "interrupt" /\ phase = "grading" /\ CancelCalls
        /\ UNCHANGED <<setup, next, call, cutAt, answered, exchanges, records, kept, writeErr, phase, artifacts>>
    BY DEF Interrupt
  <1>2. /\ endedBy' \in [Samples -> {"no", "canceled", "deadline"}]
        /\ \A s \in Samples : endedBy[s] # "no" => endedBy'[s] = endedBy[s]
        /\ \A s \in Samples : s >= next => endedBy'[s] = endedBy[s]
    BY <1>1, CancelStep
  <1>3. TypeOK'
    BY <1>1, <1>2 DEF TypeOK, setup, exchanges, kept
  <1>4. CallInv' /\ ApartInv' /\ HeldInv' /\ DirInv'
    BY <1>1 DEF CallInv, ApartInv, HeldInv, DirInv, Busy, Live, exchanges, kept
  <1>5. ResultInv'
    BY <1>1, <1>2 DEF ResultInv, CallInv, Busy, setup
  <1>6. FutureInv' /\ ContextInv'
    BY <1>1, <1>2 DEF FutureInv, ContextInv
  <1>7. TakenInv'
    BY <1>1, <1>2 DEF TakenInv, Has, Busy
  <1>8. EvidenceIsKept' /\ OnlyFailuresAreKept'
    BY <1>1 DEF EvidenceIsKept, OnlyFailuresAreKept, setup, exchanges, kept
  <1>9. VerdictsAreTrue' /\ AbandonedIsReported'
    BY <1>1, <1>2 DEF VerdictsAreTrue, AbandonedIsReported, Due, ContextInv, setup
  <1> QED
    BY <1>3, <1>4, <1>5, <1>6, <1>7, <1>8, <1>9

\* A worker that has nothing more to do with its sample.
LEMMA IdleAgain ==
  ASSUME IInv, NEW w \in Workers, call' = [call EXCEPT ![w].at = "idle", ![w].result = "none"]
  PROVE  /\ call' \in [Workers -> Call]
         /\ call'[w].at = "idle"
         /\ \A v \in Workers \ {w} : call'[v] = call[v]
         /\ \A v \in Workers : call'[v].sample = call[v].sample
  <1>1. call[w] \in Call
    BY DEF IInv, TypeOK
  <1> DEFINE idle == [call[w] EXCEPT !.at = "idle", !.result = "none"]
  <1>2. idle \in Call /\ idle.at = "idle" /\ idle.sample = call[w].sample
    BY <1>1 DEF Call
  <1>3. call'[w] = idle /\ \A v \in Workers \ {w} : call'[v] = call[v]
    BY DEF IInv, TypeOK
  <1>4. call' \in [Workers -> Call]
    BY <1>2 DEF IInv, TypeOK
  <1> HIDE DEF idle
  <1> QED
    BY <1>2, <1>3, <1>4

LEMMA DropStep ==
  ASSUME IInv, NEW w \in Workers, Drop(w)
  PROVE  IInv'
  <1> USE DEF IInv
  <1> DEFINE s == call[w].sample
  <1>1. /\ call[w].at = "judged" /\ call' = [call EXCEPT ![w].at = "idle", ![w].result = "none"]
        /\ UNCHANGED <<setup, next, stopped, endedBy, cutAt, answered, exchanges, records, kept, writeErr, phase, artifacts>>
        /\ s \in Samples /\ endedBy[s] = "canceled" /\ s \notin answered /\ stopped # "no" /\ Busy(w)
    BY DEF Drop, ResultInv, CallInv, ContextInv, Busy
  <1> HIDE DEF s
  <1>2. /\ call' \in [Workers -> Call]
        /\ call'[w].at = "idle"
        /\ \A v \in Workers \ {w} : call'[v] = call[v]
        /\ \A v \in Workers : call'[v].sample = call[v].sample
    BY <1>1, IdleAgain
  <1>3. TypeOK'
    BY <1>1, <1>2 DEF TypeOK, setup, exchanges, kept
  <1>4. CallInv' /\ ResultInv'
    BY <1>1, <1>2 DEF CallInv, ResultInv, Busy, Live, setup
  <1>5. ApartInv'
    BY <1>2 DEF ApartInv, Busy
  <1>6. TakenInv'
    <2> SUFFICES ASSUME NEW t \in Samples, t < next, records[t] = "none", ~writeErr,
                        ~(endedBy[t] = "canceled" /\ t \notin answered)
                 PROVE  \E v \in Workers : Has(v, t)'
      BY <1>1 DEF TakenInv
    <2>1. PICK v \in Workers : Has(v, t)
      BY DEF TakenInv
    <2>2. v # w
      BY <1>1, <2>1 DEF Has, s
    <2> QED
      BY <1>2, <2>1, <2>2 DEF Has, Busy
  <1>7. HeldInv'
    BY <1>1, <1>2 DEF HeldInv, exchanges
  <1>8. FutureInv' /\ ContextInv'
    BY <1>1 DEF FutureInv, ContextInv
  <1>9. DirInv'
    BY <1>1 DEF DirInv, Idle, Busy, kept
  <1>10. EvidenceIsKept' /\ OnlyFailuresAreKept' /\ VerdictsAreTrue' /\ AbandonedIsReported'
    BY <1>1 DEF EvidenceIsKept, OnlyFailuresAreKept, VerdictsAreTrue, AbandonedIsReported, Due, setup,
                exchanges, kept
  <1> QED
    BY <1>3, <1>4, <1>5, <1>6, <1>7, <1>8, <1>9, <1>10

LEMMA WriteStep ==
  ASSUME IInv, NEW w \in Workers, Write(w)
  PROVE  IInv'
  <1> USE DEF IInv
  <1> DEFINE s == call[w].sample
             verdict == call[w].result
  <1>1. /\ call[w].at = "judged" /\ verdict # "canceled" /\ verdict \in Results /\ Busy(w)
        /\ s \in Samples /\ s < next /\ records[s] = "none"
        /\ records' = [records EXCEPT ![s] = verdict] /\ Retain(s, verdict)
        /\ call' = [call EXCEPT ![w].at = "idle", ![w].result = "none"]
        /\ UNCHANGED <<setup, next, cutAt, answered, exchanged, writeErr, phase, artifacts>>
    BY DEF Write, ResultInv, CallInv, Busy
  <1>2. /\ verdict = "timeout" => endedBy[s] = "deadline" \/ (s \in answered /\ ~IsJudge(peer))
        /\ cutAt[s] = "asking" => verdict = "timeout" /\ s \notin answered
    BY <1>1 DEF ResultInv
  <1>3. \A v \in Workers \ {w} : Busy(v) => call[v].sample # s
    BY <1>1 DEF ApartInv
  <1>4. /\ \/ stopped' = stopped /\ endedBy' = endedBy
           \/ stopped' = "fail_fast" /\ stopped = "no" /\ CancelCalls
    BY DEF Write
  <1>5. /\ call' \in [Workers -> Call]
        /\ call'[w].at = "idle"
        /\ \A v \in Workers \ {w} : call'[v] = call[v]
        /\ \A v \in Workers : call'[v].sample = call[v].sample
    BY <1>1, IdleAgain
  <1> HIDE DEF s, verdict
  <1>6. /\ endedBy' \in [Samples -> {"no", "canceled", "deadline"}]
        /\ \A t \in Samples : endedBy[t] # "no" => endedBy'[t] = endedBy[t]
        /\ \A t \in Samples : t >= next => endedBy'[t] = endedBy[t]
        /\ stopped # "no" => stopped' = stopped /\ endedBy' = endedBy
        /\ stopped' \in {"no", "fail_fast", "interrupt"}
        /\ endedBy' = endedBy \/ stopped' # "no"
    BY <1>4, CancelStep DEF TypeOK
  <1>7. /\ held' = held \ {s}
        /\ logs' \in [Samples -> SUBSET Samples] /\ logsDir' \in BOOLEAN /\ errors' \subseteq Samples
        /\ \A t \in exchanged : records'[t] = "none" => t \in held'
        /\ \A f \in Samples : logs'[f] # {} => logsDir'
        /\ logsDir' => \E t \in Samples : t \in errors' \/ \E f \in Samples : t \in logs'[f]
        /\ EvidenceIsKept' /\ OnlyFailuresAreKept'
    BY <1>1, RetainStep
  <1>8. /\ records' \in [Samples -> Results \cup {"none", "skipped"}]
        /\ records'[s] = verdict /\ verdict \notin {"none", "skipped"}
        /\ \A t \in Samples \ {s} : records'[t] = records[t]
    BY <1>1 DEF TypeOK, Results, Codes
  <1>9. TypeOK'
    BY <1>1, <1>5, <1>6, <1>7, <1>8 DEF TypeOK, setup
  <1>10. CallInv'
    <2> SUFFICES ASSUME NEW v \in Workers
                 PROVE  /\ call'[v].sample < next
                        /\ call'[v].at # "idle" =>
                              call'[v].sample \in Samples /\ records'[call'[v].sample] = "none"
                        /\ Live(call'[v]) => cutAt[call'[v].sample] = "no" /\ call'[v].sample \notin answered
                        /\ call'[v].at = "idle" /\ stopped' = "no" /\ ~writeErr =>
                              call'[v].sample = 0 \/ records'[call'[v].sample] # "none"
      BY <1>1 DEF CallInv, Busy
    <2>1. CASE v = w
      BY <2>1, <1>1, <1>5, <1>8 DEF s, Live, CallInv
    <2>2. CASE v # w
      <3>1. call'[v] = call[v] /\ (Busy(v) => call[v].sample # s)
        BY <2>2, <1>3, <1>5
      <3>2. stopped' = "no" => stopped = "no"
        BY <1>4
      <3>3. call[v].sample \in Samples \/ call[v].sample = 0
        BY DEF TypeOK, Call, Samples
      <3> QED
        BY <3>1, <3>2, <3>3, <1>8 DEF CallInv, Busy
    <2> QED
      BY <2>1, <2>2
  <1>11. ResultInv'
    <2> SUFFICES ASSUME NEW v \in Workers, call'[v].at = "judged"
                 PROVE  /\ call'[v].result \in Results
                        /\ call'[v].result = "canceled" =>
                              endedBy'[call'[v].sample] = "canceled" /\ call'[v].sample \notin answered
                        /\ call'[v].result = "timeout" =>
                              \/ endedBy'[call'[v].sample] = "deadline"
                              \/ call'[v].sample \in answered /\ ~IsJudge(peer)
                        /\ cutAt[call'[v].sample] = "asking" =>
                              call'[v].result \in {"canceled", "timeout"} /\ call'[v].sample \notin answered
      BY <1>1 DEF ResultInv, setup
    <2>1. v # w /\ call'[v] = call[v] /\ Busy(v) /\ call[v].sample \in Samples
      BY <1>5 DEF Busy, CallInv
    <2> QED
      BY <2>1, <1>6 DEF ResultInv
  <1>12. ApartInv'
    BY <1>5 DEF ApartInv, Busy
  <1>13. FutureInv'
    BY <1>1, <1>4, <1>6, <1>8 DEF FutureInv, TypeOK, Samples
  <1>14. ContextInv'
    BY <1>1, <1>6 DEF ContextInv, TypeOK
  <1>15. TakenInv'
    <2> SUFFICES ASSUME NEW t \in Samples, t < next, records'[t] = "none", ~writeErr,
                        ~(endedBy'[t] = "canceled" /\ t \notin answered)
                 PROVE  \E v \in Workers : Has(v, t)'
      BY <1>1 DEF TakenInv
    <2>1. t # s /\ records[t] = "none"
      BY <1>8
    <2>2. ~(endedBy[t] = "canceled" /\ t \notin answered)
      BY <1>6
    <2>3. PICK v \in Workers : Has(v, t)
      BY <2>1, <2>2 DEF TakenInv
    <2>4. v # w
      BY <2>1, <2>3 DEF Has, s
    <2> QED
      BY <1>5, <2>3, <2>4 DEF Has, Busy
  <1>16. HeldInv'
    BY <1>1, <1>5, <1>7, <1>8 DEF HeldInv, TypeOK
  <1>17. DirInv'
    BY <1>1, <1>7 DEF DirInv, Idle, Busy
  <1>18. VerdictsAreTrue'
    BY <1>1, <1>2, <1>6, <1>8 DEF VerdictsAreTrue, setup
  <1>19. AbandonedIsReported'
    BY <1>1, <1>2, <1>6, <1>8 DEF AbandonedIsReported, Due, ContextInv
  <1> QED
    BY <1>7, <1>9, <1>10, <1>11, <1>12, <1>13, <1>14, <1>15, <1>16, <1>17, <1>18, <1>19

\* What cannot be written is lost: the records stay as they are, and the recorder keeps
\* what it has.
LEMMA WriteFailsStep ==
  ASSUME IInv, NEW w \in Workers, WriteFails(w)
  PROVE  IInv'
  <1> USE DEF IInv
  <1>1. /\ call[w].at = "judged" /\ call' = [call EXCEPT ![w].at = "idle", ![w].result = "none"]
        /\ UNCHANGED <<setup, next, stopped, endedBy, cutAt, answered, exchanges, records, kept, phase, artifacts>>
        /\ writeErr' = TRUE /\ Busy(w)
    BY DEF WriteFails, Busy
  <1>2. /\ call' \in [Workers -> Call]
        /\ call'[w].at = "idle"
        /\ \A v \in Workers \ {w} : call'[v] = call[v]
        /\ \A v \in Workers : call'[v].sample = call[v].sample
    BY <1>1, IdleAgain
  <1>3. TypeOK'
    BY <1>1, <1>2 DEF TypeOK, setup, exchanges, kept
  <1>4. CallInv' /\ ResultInv'
    BY <1>1, <1>2 DEF CallInv, ResultInv, Busy, Live, setup
  <1>5. ApartInv'
    BY <1>2 DEF ApartInv, Busy
  <1>6. TakenInv' /\ HeldInv'
    BY <1>1 DEF TakenInv, HeldInv, exchanges
  <1>7. FutureInv' /\ ContextInv'
    BY <1>1 DEF FutureInv, ContextInv
  <1>8. DirInv'
    BY <1>1 DEF DirInv, Idle, Busy, kept
  <1>9. EvidenceIsKept' /\ OnlyFailuresAreKept' /\ VerdictsAreTrue' /\ AbandonedIsReported'
    BY <1>1 DEF EvidenceIsKept, OnlyFailuresAreKept, VerdictsAreTrue, AbandonedIsReported, Due, setup,
                exchanges, kept
  <1> QED
    BY <1>3, <1>4, <1>5, <1>6, <1>7, <1>8, <1>9

LEMMA AbortStep ==
  ASSUME IInv, Abort
  PROVE  IInv'
  <1> USE DEF IInv
  <1>1. /\ UNCHANGED <<setup, next, stopped, call, endedBy, cutAt, answered, exchanges, records, kept, artifacts>>
        /\ writeErr' = TRUE /\ phase' = "failed" /\ Idle
    BY DEF Abort
  <1>2. TypeOK' /\ DirInv'
    BY <1>1 DEF TypeOK, DirInv, Idle, setup, exchanges, kept
  <1>3. CallInv' /\ ResultInv' /\ ApartInv' /\ FutureInv' /\ ContextInv' /\ TakenInv' /\ HeldInv'
    BY <1>1 DEF CallInv, ResultInv, ApartInv, FutureInv, ContextInv, TakenInv, HeldInv, Busy, setup, exchanges
  <1>4. EvidenceIsKept' /\ OnlyFailuresAreKept' /\ VerdictsAreTrue' /\ AbandonedIsReported'
    BY <1>1 DEF EvidenceIsKept, OnlyFailuresAreKept, VerdictsAreTrue, AbandonedIsReported, Due, setup,
                exchanges, kept
  <1> QED
    BY <1>2, <1>3, <1>4

LEMMA SkipStep ==
  ASSUME IInv, NEW s \in Samples, Skip(s)
  PROVE  IInv'
  <1> USE DEF IInv
  <1>1. /\ phase = "grading" /\ Idle /\ stopped # "no" /\ ~writeErr /\ records[s] = "none"
        /\ records' = [records EXCEPT ![s] = "skipped"] /\ Retain(s, "skipped")
        /\ UNCHANGED <<setup, next, stopped, call, endedBy, cutAt, answered, exchanged, writeErr, phase, artifacts>>
    BY DEF Skip, Missing
  <1>2. /\ held' = held \ {s}
        /\ logs' \in [Samples -> SUBSET Samples] /\ logsDir' \in BOOLEAN /\ errors' \subseteq Samples
        /\ \A t \in exchanged : records'[t] = "none" => t \in held'
        /\ \A f \in Samples : logs'[f] # {} => logsDir'
        /\ logsDir' => \E t \in Samples : t \in errors' \/ \E f \in Samples : t \in logs'[f]
        /\ EvidenceIsKept' /\ OnlyFailuresAreKept'
    BY <1>1, RetainStep
  <1>3. /\ records' \in [Samples -> Results \cup {"none", "skipped"}]
        /\ records'[s] = "skipped"
        /\ \A t \in Samples \ {s} : records'[t] = records[t]
    BY <1>1 DEF TypeOK
  <1>4. TypeOK'
    BY <1>1, <1>2, <1>3 DEF TypeOK, setup
  <1>5. \A w \in Workers : ~Busy(w)
    BY <1>1 DEF Idle, Busy
  <1>6. s >= next \/ endedBy[s] = "canceled"
    BY <1>1, <1>5 DEF TakenInv, Has, TypeOK, Samples
  <1>14. s \notin answered
    BY <1>1, <1>5 DEF TakenInv, FutureInv, Has, TypeOK, Samples
  <1>7. CallInv' /\ ResultInv' /\ ApartInv'
    BY <1>1, <1>5 DEF CallInv, ResultInv, ApartInv, Busy, Live
  <1>8. FutureInv' /\ ContextInv'
    BY <1>1 DEF FutureInv, ContextInv
  <1>9. TakenInv'
    BY <1>1, <1>3, <1>5 DEF TakenInv, Has
  <1>10. HeldInv'
    BY <1>1, <1>2, <1>3 DEF HeldInv, TypeOK
  <1>11. DirInv'
    BY <1>1, <1>2 DEF DirInv
  <1>12. VerdictsAreTrue'
    BY <1>1, <1>3, <1>6, <1>14 DEF VerdictsAreTrue, setup
  <1>13. AbandonedIsReported'
    BY <1>1, <1>3, <1>6 DEF AbandonedIsReported, Due, FutureInv
  <1> QED
    BY <1>2, <1>4, <1>7, <1>8, <1>9, <1>10, <1>11, <1>12, <1>13

-----------------------------------------------------------------------------
(* The end of the run *)

LEMMA EndStep ==
  ASSUME IInv, WriteResult \/ Flush
  PROVE  IInv'
  <1> USE DEF IInv
  <1>1. /\ UNCHANGED <<setup, next, stopped, call, endedBy, cutAt, answered, exchanges, records, kept, writeErr>>
        /\ phase' \in {"flushing", "done"}
        /\ artifacts' \in [logs : BOOLEAN, errors : BOOLEAN, written : BOOLEAN]
    <2>1. (errors # {}) \in BOOLEAN /\ logsDir \in BOOLEAN
      BY DEF TypeOK
    <2>2. CASE WriteResult
      <3> DEFINE e == errors # {}
      <3>1. e \in BOOLEAN /\ artifacts' = [logs |-> logsDir, errors |-> e, written |-> FALSE]
        BY <2>1, <2>2 DEF WriteResult
      <3> HIDE DEF e
      <3>2. artifacts' \in [logs : BOOLEAN, errors : BOOLEAN, written : BOOLEAN]
        BY <2>1, <3>1
      <3> QED
        BY <2>2, <3>2 DEF WriteResult
    <2>3. CASE Flush
      <3>1. PICK ok \in BOOLEAN : artifacts' = [artifacts EXCEPT !.written = ok /\ errors # {}]
        BY <2>3 DEF Flush
      <3> DEFINE e == ok /\ errors # {}
      <3>2. e \in BOOLEAN /\ artifacts' = [artifacts EXCEPT !.written = e]
        BY <2>1, <3>1
      <3> HIDE DEF e
      <3>3. artifacts' \in [logs : BOOLEAN, errors : BOOLEAN, written : BOOLEAN]
        BY <3>2 DEF TypeOK
      <3> QED
        BY <2>3, <3>3 DEF Flush
    <2> QED
      BY <2>2, <2>3
  <1>2. /\ Idle /\ Missing = {}
        /\ artifacts'.logs = logsDir /\ artifacts'.errors = (errors # {})
        /\ artifacts'.written => artifacts'.errors
    <2>1. CASE WriteResult
      BY <2>1 DEF WriteResult
    <2>2. CASE Flush
      <3>1. phase # "grading"
        BY <2>2 DEF Flush
      <3>2. PICK ok \in BOOLEAN : artifacts' = [artifacts EXCEPT !.written = ok /\ errors # {}]
        BY <2>2 DEF Flush
      <3> QED
        BY <2>2, <3>1, <3>2 DEF Flush, DirInv, TypeOK
    <2> QED
      BY <2>1, <2>2
  <1>3. TypeOK'
    BY <1>1 DEF TypeOK, setup, exchanges, kept
  <1>4. DirInv'
    BY <1>1, <1>2 DEF DirInv, Idle, Missing, kept
  <1>5. CallInv' /\ ResultInv' /\ ApartInv' /\ FutureInv' /\ ContextInv' /\ TakenInv' /\ HeldInv'
    BY <1>1 DEF CallInv, ResultInv, ApartInv, FutureInv, ContextInv, TakenInv, HeldInv, Has, Busy, setup, exchanges
  <1>6. EvidenceIsKept' /\ OnlyFailuresAreKept' /\ VerdictsAreTrue' /\ AbandonedIsReported'
    BY <1>1 DEF EvidenceIsKept, OnlyFailuresAreKept, VerdictsAreTrue, AbandonedIsReported, Due, setup,
                exchanges, kept
  <1> QED
    BY <1>3, <1>4, <1>5, <1>6

LEMMA StutterStep == IInv /\ UNCHANGED vars => IInv'
  BY DEF vars, IInv, TypeOK, CallInv, ResultInv, ApartInv, FutureInv, ContextInv, TakenInv, HeldInv, DirInv,
         EvidenceIsKept, OnlyFailuresAreKept, VerdictsAreTrue, AbandonedIsReported, Due, Has, Busy, Idle,
         Missing

LEMMA InitIInv == Init => IInv
  <1> SUFFICES ASSUME Init PROVE IInv
    OBVIOUS
  <1> USE RowsAssumption DEF Init, Samples
  <1>1. TypeOK
    <2>1. [at |-> "idle", sample |-> 0, result |-> "none"] \in Call
      BY DEF Call
    <2>2. call \in [Workers -> Call] /\ next \in 1..(Rows + 1)
      BY <2>1
    <2>3. tooLong \subseteq Samples
      <3>1. CASE IsJudge(peer) /\ HasBody(peer)
        BY <3>1, OversizeAssumption
      <3>2. CASE ~(IsJudge(peer) /\ HasBody(peer))
        BY <3>2
      <3> QED
        BY <3>1, <3>2
    <2>4. artifacts \in [logs : BOOLEAN, errors : BOOLEAN, written : BOOLEAN]
      OBVIOUS
    <2>5. records \in [Samples -> Results \cup {"none", "skipped"}]
      OBVIOUS
    <2>6. logs \in [Samples -> SUBSET Samples]
      OBVIOUS
    <2> QED
      BY <2>2, <2>3, <2>4, <2>5, <2>6 DEF TypeOK
  <1>2. CallInv /\ ResultInv /\ ApartInv
    BY DEF CallInv, ResultInv, ApartInv, Busy, Live
  <1>3. FutureInv /\ ContextInv /\ TakenInv /\ HeldInv
    BY DEF FutureInv, ContextInv, TakenInv, HeldInv
  <1>4. DirInv
    BY DEF DirInv
  <1>5. EvidenceIsKept /\ OnlyFailuresAreKept /\ VerdictsAreTrue /\ AbandonedIsReported
    BY DEF EvidenceIsKept, OnlyFailuresAreKept, VerdictsAreTrue, AbandonedIsReported
  <1> QED
    BY <1>1, <1>2, <1>3, <1>4, <1>5 DEF IInv

LEMMA IInvStep == IInv /\ [Next]_vars => IInv'
  <1> SUFFICES ASSUME IInv, [Next]_vars PROVE IInv'
    OBVIOUS
  <1>1. CASE \E w \in Workers : Worker(w)
    BY <1>1, BeginStep, DeadlineStep, HeadersStep, WorkerReturnStep, DropStep, WriteStep, WriteFailsStep
       DEF Worker
  <1>2. CASE \E s \in Samples : Skip(s)
    BY <1>2, SkipStep
  <1>3. CASE Interrupt
    BY <1>3, InterruptStep
  <1>4. CASE WriteResult \/ Flush
    BY <1>4, EndStep
  <1>5. CASE Abort
    BY <1>5, AbortStep
  <1>6. CASE Terminating \/ UNCHANGED vars
    BY <1>6, StutterStep DEF Terminating
  <1> QED
    BY <1>1, <1>2, <1>3, <1>4, <1>5, <1>6 DEF Next

LEMMA IInvHolds == Spec => []IInv
  BY InitIInv, IInvStep, PTL DEF Spec

-----------------------------------------------------------------------------
(* Theorems *)

\* The state stays in its type, for any workers, rows, peers and faults.
THEOREM TypeCorrect == Spec => []TypeOK
  <1>1. IInv => TypeOK
    BY DEF IInv
  <1> QED
    BY IInvHolds, <1>1, PTL

\* runner.go:498-526: whatever was asked about a failed sample is in the logs, or
\* errors.jsonl says why not.
THEOREM FailuresLeaveEvidence == Spec => []EvidenceIsKept
  <1>1. IInv => EvidenceIsKept
    BY DEF IInv
  <1> QED
    BY IInvHolds, <1>1, PTL

\* runner.go:505-510: nothing is kept of a sample that did not fail, unless asked for.
THEOREM OthersLeaveNone == Spec => []OnlyFailuresAreKept
  <1>1. IInv => OnlyFailuresAreKept
    BY DEF IInv
  <1> QED
    BY IInvHolds, <1>1, PTL

\* transport.go:99-103: the recorder holds nothing of a sample that has its record and, until
\* a record cannot be written, the exchanges of no more samples than there are workers.
THEOREM RecorderStaysSmall == Spec => []RecorderIsBounded
  <1>1. IInv => RecorderIsBounded
    <2> SUFFICES ASSUME IInv PROVE RecorderIsBounded
      OBVIOUS
    <2>1. \A s \in held : records[s] = "none"
      BY DEF IInv, HeldInv
    <2>2. ASSUME ~writeErr PROVE Cardinality(held) <= Cardinality(Workers)
      <3> DEFINE last == {w \in Workers : call[w].sample \in held}
                 sampleOf == [w \in last |-> call[w].sample]
      <3>1. \A s \in held : \E w \in Workers : call[w].sample = s
        BY <2>2 DEF IInv, HeldInv
      <3>2. IsFiniteSet(last) /\ Cardinality(last) <= Cardinality(Workers)
        BY WorkersAssumption, FS_Subset
      <3>3. sampleOf \in Surjection(last, held)
        BY <3>1 DEF Surjection
      <3>4. IsFiniteSet(held) /\ Cardinality(held) <= Cardinality(last)
        BY <3>2, <3>3, FS_Surjection
      <3>5. Cardinality(held) \in Nat /\ Cardinality(last) \in Nat /\ Cardinality(Workers) \in Nat
        BY <3>2, <3>4, WorkersAssumption, FS_CardinalityType
      <3> QED
        BY <3>2, <3>4, <3>5
    <2> QED
      BY <2>1, <2>2 DEF RecorderIsBounded
  <1> QED
    BY IInvHolds, <1>1, PTL

\* doc/protocol.md on artifacts: what the result names was written to, and what was written
\* to is named.
THEOREM ArtifactsTellTheTruth == Spec => []ArtifactsAreTrue
  <1>1. IInv => ArtifactsAreTrue
    BY DEF IInv, DirInv, ArtifactsAreTrue
  <1> QED
    BY IInvHolds, <1>1, PTL

\* judge.go:70-77: a timeout is recorded of calls that ran out of time, and otherwise only as
\* an external Grader's own answer; a sample is skipped only if nobody began it or the stop
\* cut it off, and never once it has an answer.
THEOREM VerdictsTellTheTruth == Spec => []VerdictsAreTrue
  <1>1. IInv => VerdictsAreTrue
    BY DEF IInv
  <1> QED
    BY IInvHolds, <1>1, PTL

\* judge.go:405-446, httpjson.go:86-101: a call that is cut off before anything has come
\* back is skipped or timed out, as its context says.
THEOREM AbandonedCallsAreReported == Spec => []AbandonedIsReported
  <1>1. IInv => AbandonedIsReported
    BY DEF IInv
  <1> QED
    BY IInvHolds, <1>1, PTL

-----------------------------------------------------------------------------
(* Evidence implements Ledger *)

\* Once the backfill has begun, no worker has a call any more.
BackfillInv == (\E s \in Samples : records[s] = "skipped") => Idle

LedgerInv == IInv /\ BackfillInv

\* Every step but the writer's and the backfill's leaves the records alone, and none but
\* Begin, which a stopped run does not take, makes an idle worker busy.
LEMMA BackfillKept ==
  ASSUME LedgerInv, NEW w \in Workers,
         Begin(w) \/ Deadline(w) \/ Headers(w) \/ Reply(w) \/ Abandon(w) \/ Unreachable(w)
           \/ CutBody(w) \/ Drop(w) \/ Write(w) \/ WriteFails(w)
  PROVE  ~\E s \in Samples : records'[s] = "skipped"
  <1>1. \A s \in Samples : records[s] # "skipped"
    <2>1. CASE Begin(w)
      BY <2>1 DEF Begin, LedgerInv, IInv, VerdictsAreTrue
    <2>2. CASE ~Begin(w)
      <3>1. call[w].at # "idle"
        BY <2>2 DEF Deadline, Headers, Reply, Abandon, Unreachable, CutBody, Drop, Write, WriteFails, Live
      <3> QED
        BY <3>1 DEF LedgerInv, BackfillInv, Idle
    <2> QED
      BY <2>1, <2>2
  <1>2. CASE Write(w)
    <2>1. call[w].sample \in Samples /\ call[w].result \in Results
      BY <1>2 DEF Write, LedgerInv, IInv, CallInv, ResultInv, Busy
    <2>2. call[w].result # "skipped"
      BY <2>1 DEF Results, Codes
    <2> QED
      BY <1>1, <1>2, <2>1, <2>2 DEF Write, LedgerInv, IInv, TypeOK
  <1>3. CASE ~Write(w)
    BY <1>1, <1>3 DEF Begin, Deadline, Headers, Reply, Abandon, Unreachable, CutBody, Drop, WriteFails
  <1> QED
    BY <1>2, <1>3

LEMMA BackfillStep == LedgerInv /\ [Next]_vars => BackfillInv'
  <1> SUFFICES ASSUME LedgerInv, [Next]_vars PROVE BackfillInv'
    OBVIOUS
  <1>1. CASE \E w \in Workers : Worker(w)
    BY <1>1, BackfillKept DEF Worker, BackfillInv
  <1>2. CASE \E s \in Samples : Skip(s)
    BY <1>2 DEF Skip, BackfillInv, Idle
  <1>3. CASE Interrupt \/ Abort \/ WriteResult \/ Flush \/ Terminating \/ UNCHANGED vars
    <2>1. records' = records /\ call' = call
      BY <1>3 DEF Interrupt, Abort, WriteResult, Flush, Terminating, vars
    <2> QED
      BY <2>1 DEF LedgerInv, BackfillInv, Idle
  <1> QED
    BY <1>1, <1>2, <1>3 DEF Next

LEMMA LedgerInvHolds == Spec => []LedgerInv
  <1>1. Init => BackfillInv
    BY DEF Init, BackfillInv
  <1> QED
    BY <1>1, InitIInv, IInvStep, BackfillStep, PTL DEF Spec, LedgerInv

-----------------------------------------------------------------------------

Verdicts == [s \in Samples |-> VerdictOf(s)]
Reason == IF stopped = "no" THEN "none" ELSE stopped
Returned == CASE phase = "grading" -> "no"
              [] phase = "failed"  -> "fault"
              [] OTHER             -> "ok"

\* The ledger sees the records, the stop and whether the grading is over.
LEMMA UnseenStep ==
  ASSUME records' = records, stopped' = stopped,
         phase' = phase \/ (phase = "flushing" /\ phase' = "done")
  PROVE  UNCHANGED L!vars
  BY DEF L!vars, VerdictOf

\* What Write records is the ledger's Evaluate, and the stop of a fail-fast run with it.
LEMMA WriteIsEvaluate == ASSUME LedgerInv, NEW w \in Workers, Write(w) PROVE L!Next
  <1> DEFINE s == call[w].sample
  <1>1. /\ s \in Samples /\ records[s] = "none" /\ call[w].result \in Results /\ ~Idle
        /\ phase = "grading"
    BY DEF Write, LedgerInv, IInv, CallInv, ResultInv, DirInv, Busy, Idle
  <1>2. /\ records' = [records EXCEPT ![s] = call[w].result] /\ phase' = phase
        /\ stopped' = stopped \/ (stopped = "no" /\ stopped' = "fail_fast")
    BY DEF Write
  <1>3. call[w].result \notin {"none", "skipped"}
    BY <1>1 DEF Results, Codes
  <1>4. \A t \in Samples : records[t] # "skipped"
    BY <1>1 DEF LedgerInv, BackfillInv
  <1>5. L!AllRows = Samples
    BY DEF L!AllRows
  <1> HIDE DEF s
  <1>6. records \in [Samples -> Results \cup {"none", "skipped"}]
    BY DEF LedgerInv, IInv, TypeOK
  <1>7. Verdicts' = [Verdicts EXCEPT ![s] = "completed"]
    BY <1>1, <1>2, <1>3, <1>6 DEF Verdicts, VerdictOf
  <1>8. /\ Verdicts[s] = "none" /\ Returned = "no" /\ Returned' = Returned
        /\ \A t \in Samples : Verdicts[t] # "skipped"
        /\ Reason' = Reason \/ (Reason = "none" /\ Reason' = "fail_fast")
    BY <1>1, <1>2, <1>4 DEF Verdicts, VerdictOf, Returned, Reason
  <1>9. L!Evaluate(s)
    BY <1>5, <1>7, <1>8 DEF L!Evaluate, Verdicts, Reason, Returned
  <1> QED
    BY <1>1, <1>5, <1>9 DEF L!Next

\* A sample of the backfill is the ledger's Skip of its lowest undecided row.
LEMMA SkipIsSkip == ASSUME LedgerInv, NEW s \in Samples, Skip(s) PROVE L!Next
  <1>1. /\ records[s] = "none" /\ phase = "grading" /\ phase' = phase
        /\ stopped # "no" /\ stopped' = stopped
        /\ records' = [records EXCEPT ![s] = "skipped"]
    BY DEF Skip, Missing
  <1>2. \A q \in Samples : q < s => records[q] # "none"
    BY DEF Skip, Missing, Samples
  <1>3. records \in [Samples -> Results \cup {"none", "skipped"}]
    BY DEF LedgerInv, IInv, TypeOK
  <1>4. Verdicts' = [Verdicts EXCEPT ![s] = "skipped"]
    BY <1>1, <1>3 DEF Verdicts, VerdictOf
  <1>5. /\ Verdicts[s] = "none" /\ \A q \in Samples : q < s => Verdicts[q] # "none"
        /\ Reason # "none" /\ Reason' = Reason /\ Returned = "no" /\ Returned' = Returned
    <2>1. Reason = stopped /\ stopped # "none"
      BY <1>1 DEF Reason, LedgerInv, IInv, TypeOK
    <2> QED
      BY <1>1, <1>2, <2>1 DEF Verdicts, VerdictOf, Returned, Reason
  <1>6. L!AllRows = Samples
    BY DEF L!AllRows
  <1>7. L!Skip(s)
    BY <1>4, <1>5, <1>6 DEF L!Skip, Verdicts, Reason, Returned
  <1> QED
    BY <1>6, <1>7 DEF L!Next

LEMMA InterruptIsStop == ASSUME LedgerInv, Interrupt PROVE L!Next
  <1>1. /\ stopped = "no" /\ stopped' = "interrupt" /\ phase = "grading" /\ phase' = phase
        /\ records' = records
    BY DEF Interrupt
  <1>2. \A s \in Samples : records[s] # "skipped"
    BY <1>1 DEF LedgerInv, IInv, VerdictsAreTrue
  <1>3. L!Stop
    BY <1>1, <1>2 DEF L!Stop, L!AllRows, L!Reasons, VerdictOf
  <1> QED
    BY <1>3 DEF L!Next

\* A writer that has failed is a fault of the run.
LEMMA AbortIsFault == ASSUME Abort PROVE L!Next
  <1>1. phase = "grading" /\ phase' = "failed" /\ records' = records /\ stopped' = stopped
    BY DEF Abort
  <1>2. L!Fault
    BY <1>1 DEF L!Fault, VerdictOf
  <1> QED
    BY <1>2 DEF L!Next

LEMMA ResultIsReturn == ASSUME WriteResult PROVE L!Next
  <1>1. /\ phase = "grading" /\ phase' = "flushing" /\ records' = records /\ stopped' = stopped
        /\ \A s \in Samples : records[s] # "none"
    BY DEF WriteResult, Missing
  <1>2. L!Return
    BY <1>1 DEF L!Return, L!AllRows, VerdictOf
  <1> QED
    BY <1>2 DEF L!Next

\* runner.go:1-6, :305-310, :419-421: the calls, however they end and whatever becomes of
\* their evidence, behave towards the caller of Run as the ledger does: one verdict per row,
\* which is kept, the first reason to stop kept, and after the first row that is skipped
\* none is evaluated.
THEOREM EvidenceImplementsLedger == Spec => ImplementsLedger
  <1>1. Init => L!Init
    BY RowsAssumption DEF Init, L!Init, VerdictOf, Samples
  <1>2. LedgerInv /\ [Next]_vars => [L!Next]_(L!vars)
    <2> SUFFICES ASSUME LedgerInv, [Next]_vars PROVE L!Next \/ UNCHANGED L!vars
      OBVIOUS
    <2>1. CASE \E w \in Workers : Worker(w)
      <3>1. PICK w \in Workers : Worker(w)
        BY <2>1
      <3>2. CASE Write(w)
        BY <3>2, WriteIsEvaluate
      <3>3. CASE ~Write(w)
        <4>1. records' = records /\ stopped' = stopped /\ phase' = phase
          BY <3>1, <3>3 DEF Worker, Begin, Deadline, Headers, Reply, Abandon, Unreachable, CutBody, Drop,
                            WriteFails
        <4> QED
          BY <4>1, UnseenStep
      <3> QED
        BY <3>2, <3>3
    <2>2. CASE \E s \in Samples : Skip(s)
      BY <2>2, SkipIsSkip
    <2>3. CASE Interrupt
      BY <2>3, InterruptIsStop
    <2>4. CASE WriteResult
      BY <2>4, ResultIsReturn
    <2>6. CASE Abort
      BY <2>6, AbortIsFault
    <2>5. CASE Flush \/ Terminating \/ UNCHANGED vars
      <3>1. /\ records' = records /\ stopped' = stopped
            /\ phase' = phase \/ (phase = "flushing" /\ phase' = "done")
        BY <2>5 DEF Flush, Terminating, vars
      <3> QED
        BY <3>1, UnseenStep
    <2> QED
      BY <2>1, <2>2, <2>3, <2>4, <2>5, <2>6 DEF Next
  <1> QED
    BY <1>1, <1>2, LedgerInvHolds, PTL DEF Spec, ImplementsLedger, L!Spec
=============================================================================
