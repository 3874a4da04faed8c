-------------------------- MODULE SubprocessProofs --------------------------
(***************************************************************************)
(* Proofs about Subprocess, for any workers, any samples and any faults,   *)
(* and however the watchers are scheduled.                                 *)
(*                                                                         *)
(* The properties are not inductive.  IInv counts the Processes and the    *)
(* children against the samples that have not asked for one yet, says in   *)
(* whose hands each Process is, and follows a request and its answer       *)
(* through the pipe: a Process that may be used again leads to a child     *)
(* that owes nothing.  GInv gives every outcome its cause; with it         *)
(* Subprocess implements GraderCalls.                                      *)
(***************************************************************************)
EXTENDS Subprocess, FiniteSetTheorems, TLAPS

\* The samples of the workers, which no two share.
Grading(w) == wpc[w] # "idle"

SampleInv ==
    /\ \A w \in Workers : Grading(w) => sample[w] \in Samples \ todo
    /\ \A v, w \in Workers : Grading(v) /\ Grading(w) /\ sample[v] = sample[w] => v = w

\* Each sample asks for one Process at most, and starts one child at most.
Fresh == todo \cup {s \in Samples : \E w \in Workers : wpc[w] = "acquire" /\ sample[w] = s}
Unstarted == todo \cup {s \in Samples : \E w \in Workers :
                            wpc[w] \in {"acquire", "call"} /\ sample[w] = s}

CountInv ==
    /\ made + Cardinality(Fresh) <= Cardinality(Samples)
    /\ born + Cardinality(Unstarted) <= Cardinality(Samples)

\* A Process is new, idle, in one worker's hands, or closed.
HoldInv ==
    /\ \A w \in Workers : Holds(w) => proc[w] \in 1..made
    /\ \A i \in DOMAIN idle : idle[i] \in 1..made
    /\ shut \subseteq 1..made
    /\ ExclusiveUse
    /\ \A w \in Workers : Holds(w) /\ proc[w] \in shut => wpc[w] = "close"

\* A child belongs to one Process.
PipeInv ==
    /\ \A p \in Procs : pipe[p] \in 0..born /\ cmd[p] \in 0..born
    /\ \A p \in Procs : p > made => pipe[p] = 0
    /\ \A p, q \in Procs : pipe[p] = pipe[q] /\ pipe[p] # 0 => p = q
    /\ \A c \in Children : c > born => asked[c] = None /\ answer[c] = None

\* Nothing is on its way between a Process and its child.
Clean(p) == pipe[p] # 0 => asked[pipe[p]] = None /\ answer[pipe[p]] = None

CleanInv ==
    /\ \A i \in DOMAIN idle : Clean(idle[i])
    /\ \A w \in Workers :
          /\ wpc[w] \in {"call", "write", "answered", "torn"} => Clean(proc[w])
          /\ wpc[w] = "release" /\ result[sample[w]] \in {"answer", "unusable"} => Clean(proc[w])

\* What the worker that waits for an answer may find.
AskInv ==
    \A w \in Workers :
        /\ wpc[w] = "read" =>
              LET c == pipe[proc[w]]
              IN /\ c # 0
                 /\ asked[c] \in {None, sample[w]} /\ answer[c] \in {None, sample[w]}
                 /\ asked[c] = None \/ answer[c] = None
        /\ wpc[w] = "answered" => got[sample[w]] = sample[w]

\* Whoever kills kills a Process.
KillInv ==
    /\ \A k \in Killers : killing[k] # "no" => target[k] \in Procs
    /\ \A s \in Samples : watcher[s] # "none" => watched[s] \in Procs

IInv ==
    /\ TypeOK /\ SampleInv /\ CountInv /\ HoldInv /\ PipeInv /\ CleanInv /\ AskInv /\ KillInv
    /\ AnswerIsOwn

-----------------------------------------------------------------------------
(* What changes what *)

LEMMA PoolFrame ==
  ASSUME [Next]_vars
  PROVE  /\ idle' = idle \/ \E w \in Workers : Acquire(w) \/ Release(w)
         /\ made' = made \/ \E w \in Workers : Acquire(w)
<1>1. ASSUME NEW w \in Workers, Worker(w)
      PROVE  /\ idle' = idle \/ Acquire(w) \/ Release(w)
             /\ made' = made \/ Acquire(w)
  BY <1>1 DEF Worker, Take, Acquire, CallRunning, CallStarts, CallCannotStart, Write, ReadAnswer,
              ReadTorn, ReadFails, ReadTooLong, Return, Release, Closed, Finish, poolVars
<1>2. ASSUME NEW k \in Killers, KillStep(k)
      PROVE  UNCHANGED <<idle, made>>
  BY <1>2 DEF KillStep, Kill, Wait, Clear, Panic, poolVars
<1>3. ASSUME NEW s \in Samples, Watcher(s) PROVE UNCHANGED <<idle, made>>
  BY <1>3 DEF Watcher, WatcherKills, WatcherEnds, poolVars
<1>4. ASSUME NEW c \in Children, ChildAnswers(c) \/ ChildCrashes(c) PROVE UNCHANGED <<idle, made>>
  BY <1>4 DEF ChildAnswers, ChildCrashes, poolVars
<1>5. ASSUME Stop \/ ClosePool \/ Terminating \/ UNCHANGED vars \/ \E w \in Workers : TimeOut(w)
      PROVE  UNCHANGED <<idle, made>>
  BY <1>5 DEF Stop, ClosePool, Terminating, vars, TimeOut, poolVars
<1>6. QED BY <1>1, <1>2, <1>3, <1>4, <1>5 DEF Next

LEMMA ProcFrame ==
  ASSUME [Next]_vars
  PROVE  /\ cmd' = cmd \/ (\E w \in Workers : CallStarts(w)) \/ \E k \in Killers : Clear(k)
         /\ UNCHANGED <<pipe, born>> \/ \E w \in Workers : CallStarts(w)
         /\ shut' = shut \/ (\E w \in Workers : Release(w)) \/ ClosePool
<1>1. ASSUME NEW w \in Workers, Worker(w)
      PROVE  /\ cmd' = cmd \/ CallStarts(w)
             /\ UNCHANGED <<pipe, born>> \/ CallStarts(w)
             /\ shut' = shut \/ Release(w)
  BY <1>1 DEF Worker, Take, Acquire, CallRunning, CallStarts, CallCannotStart, Write, ReadAnswer,
              ReadTorn, ReadFails, ReadTooLong, Return, Release, Closed, Finish, procVars, childVars
<1>2. ASSUME NEW k \in Killers, KillStep(k)
      PROVE  /\ cmd' = cmd \/ Clear(k)
             /\ UNCHANGED <<pipe, born, shut>>
  BY <1>2 DEF KillStep, Kill, Wait, Clear, Panic, procVars, childVars
<1>3. ASSUME NEW s \in Samples, Watcher(s) PROVE UNCHANGED <<cmd, pipe, born, shut>>
  BY <1>3 DEF Watcher, WatcherKills, WatcherEnds, procVars, childVars
<1>4. ASSUME NEW c \in Children, ChildAnswers(c) \/ ChildCrashes(c) PROVE UNCHANGED <<cmd, pipe, born, shut>>
  BY <1>4 DEF ChildAnswers, ChildCrashes, procVars, childVars
<1>5. ASSUME Stop \/ ClosePool \/ Terminating \/ UNCHANGED vars \/ \E w \in Workers : TimeOut(w)
      PROVE  UNCHANGED <<cmd, pipe, born>> /\ (shut' = shut \/ ClosePool)
  BY <1>5 DEF Stop, ClosePool, Terminating, vars, TimeOut, procVars, childVars
<1>6. QED BY <1>1, <1>2, <1>3, <1>4, <1>5 DEF Next

LEMMA ChildFrame ==
  ASSUME [Next]_vars
  PROVE  /\ asked' = asked \/ (\E w \in Workers : Write(w) \/ ReadTorn(w)) \/ \E c \in Children : ChildAnswers(c)
         /\ answer' = answer \/ (\E w \in Workers : ReadAnswer(w)) \/ \E c \in Children : ChildAnswers(c)
         /\ alive' \subseteq alive \/ \E w \in Workers : CallStarts(w)
         /\ stdinOpen' \subseteq stdinOpen \/ \E w \in Workers : CallStarts(w)
         /\ reaped' = reaped \/ \E k \in Killers : Wait(k)
  BY ZenonT(30) DEF Next, Worker, KillStep, Watcher, Stop, TimeOut, Take, Acquire, CallRunning, CallStarts,
         CallCannotStart, Write, ReadAnswer, ReadTorn, ReadFails, ReadTooLong, Return, Release, Closed, Finish,
         Kill, Wait, Clear, WatcherKills, WatcherEnds, ClosePool, ChildAnswers, ChildCrashes,
         Terminating, vars, childVars, Panic, EnterKill

LEMMA ContextFrame ==
  ASSUME [Next]_vars
  PROVE  ctx' = ctx \/ Stop \/ \E w \in Workers : TimeOut(w) \/ Finish(w)
  BY DEF Next, Worker, KillStep, Watcher, Take, Acquire, CallRunning, CallStarts,
         CallCannotStart, Write, ReadAnswer, ReadTorn, ReadFails, ReadTooLong, Return, Release, Closed,
         Kill, Wait, Clear, WatcherKills, WatcherEnds, ClosePool, ChildAnswers, ChildCrashes,
         Terminating, vars, runVars

LEMMA RunFrame ==
  ASSUME [Next]_vars
  PROVE  /\ todo' = todo \/ \E w \in Workers : Take(w)
         /\ got' = got \/ \E w \in Workers : ReadAnswer(w)
         /\ (\E w \in Workers : Worker(w)) \/ UNCHANGED workerVars
         /\ stopped => stopped'
<1>1. ASSUME NEW w \in Workers, Worker(w)
      PROVE  /\ todo' = todo \/ Take(w)
             /\ got' = got \/ ReadAnswer(w)
             /\ stopped' = stopped
  BY <1>1 DEF Worker, Take, Acquire, CallRunning, CallStarts, CallCannotStart, Write, ReadAnswer,
              ReadTorn, ReadFails, ReadTooLong, Return, Release, Closed, Finish, runVars, resultVars, Panic
<1>2. ASSUME NEW k \in Killers, KillStep(k)
      PROVE  UNCHANGED <<todo, got, workerVars, stopped>>
  BY <1>2 DEF KillStep, Kill, Wait, Clear, runVars, resultVars, workerVars, Panic
<1>3. ASSUME NEW s \in Samples, Watcher(s)
      PROVE  UNCHANGED <<todo, got, workerVars, stopped>>
  BY <1>3 DEF Watcher, WatcherKills, WatcherEnds, runVars, resultVars, workerVars
<1>4. ASSUME NEW c \in Children, ChildAnswers(c) \/ ChildCrashes(c)
      PROVE  UNCHANGED <<todo, got, workerVars, stopped>>
  BY <1>4 DEF ChildAnswers, ChildCrashes, runVars, resultVars, workerVars
<1>5. ASSUME Stop \/ ClosePool \/ \E w \in Workers : TimeOut(w)
      PROVE  UNCHANGED <<todo, got, workerVars>> /\ (stopped => stopped')
  BY <1>5 DEF Stop, ClosePool, TimeOut, runVars, resultVars, workerVars
<1>6. ASSUME Terminating \/ UNCHANGED vars
      PROVE  UNCHANGED <<todo, got, workerVars, stopped>>
  BY <1>6 DEF Terminating, vars, runVars, resultVars, workerVars
<1>7. QED BY <1>1, <1>2, <1>3, <1>4, <1>5, <1>6 DEF Next

LEMMA ResultFrame ==
  ASSUME [Next]_vars
  PROVE  \/ result' = result
         \/ \E w \in Workers : CallCannotStart(w) \/ Return(w)
         \/ \E w \in Workers : result' = [result EXCEPT ![sample[w]] = "panicked"] /\ UNCHANGED workerVars
<1>1. ASSUME NEW w \in Workers, Worker(w)
      PROVE  result' = result \/ CallCannotStart(w) \/ Return(w)
  BY <1>1 DEF Worker, Take, Acquire, CallRunning, CallStarts, Write, ReadAnswer,
              ReadTorn, ReadFails, ReadTooLong, Release, Closed, Finish, resultVars
<1>2. ASSUME NEW k \in Killers, KillStep(k)
      PROVE  \/ result' = result
             \/ \E w \in Workers : result' = [result EXCEPT ![sample[w]] = "panicked"] /\ UNCHANGED workerVars
  BY <1>2 DEF KillStep, Kill, Wait, Clear, Panic, resultVars, workerVars
<1>3. ASSUME NEW s \in Samples, Watcher(s) PROVE result' = result
  BY <1>3 DEF Watcher, WatcherKills, WatcherEnds, resultVars
<1>4. ASSUME NEW c \in Children, ChildAnswers(c) \/ ChildCrashes(c) PROVE result' = result
  BY <1>4 DEF ChildAnswers, ChildCrashes, resultVars
<1>5. ASSUME Stop \/ ClosePool \/ Terminating \/ UNCHANGED vars \/ \E w \in Workers : TimeOut(w)
      PROVE  result' = result
  BY <1>5 DEF Stop, ClosePool, Terminating, vars, TimeOut, resultVars
<1>6. QED BY <1>1, <1>2, <1>3, <1>4, <1>5 DEF Next

-----------------------------------------------------------------------------
(* The initial states *)

LEMMA CountType == Cardinality(Samples) \in Nat
  BY SamplesAssumption, FS_CardinalityType

LEMMA InitInv == Init => IInv
<1> SUFFICES ASSUME Init PROVE IInv OBVIOUS
<1> USE CountType DEF Init
<1>1. TypeOK
  <2>1. idle \in Seq(Procs) /\ made \in 0..Cardinality(Samples) /\ born \in 0..Cardinality(Samples)
    OBVIOUS
  <2>2. stopped \in BOOLEAN /\ crashed \in BOOLEAN BY Zenon
  <2>3. /\ alive \subseteq 1..born /\ stdinOpen \subseteq 1..born /\ reaped \subseteq 1..born
        /\ todo \subseteq Samples /\ shut \subseteq Procs /\ done \subseteq Samples
    OBVIOUS
  <2>4. /\ ctx \in [Samples -> {"open", "canceled", "deadline"}]
        /\ watcher \in [Samples -> {"none", "waiting", "killing", "gone"}]
        /\ watched \in [Samples -> Procs \cup {0}]
        /\ result \in [Samples -> {"none", "answer", "canceled", "deadline", "failed", "unusable", "panicked"}]
        /\ got \in [Samples -> Samples \cup {None}]
    OBVIOUS
  <2>5. /\ wpc \in [Workers -> {"idle", "acquire", "call", "write", "read", "answered", "torn", "failed",
                                "release", "close", "finish"}]
        /\ sample \in [Workers -> Samples \cup {None}] /\ proc \in [Workers -> Procs \cup {0}]
        /\ killing \in [Killers -> {"no", "kill", "wait", "clear"}]
        /\ target \in [Killers -> Procs \cup {0}]
    OBVIOUS
  <2>6. /\ cmd \in [Procs -> Children \cup {0}] /\ pipe \in [Procs -> Children \cup {0}]
        /\ asked \in [Children -> Samples \cup {None}] /\ answer \in [Children -> Samples \cup {None}]
    OBVIOUS
  <2>7. QED BY ONLY <2>1, <2>2, <2>3, <2>4, <2>5, <2>6, Zenon DEF TypeOK
<1>2. SampleInv BY DEF SampleInv, Grading
<1>3. CountInv
  <2>1. Fresh = Samples /\ Unstarted = Samples BY DEF Fresh, Unstarted
  <2>2. QED BY <2>1 DEF CountInv
<1>4. HoldInv BY DEF HoldInv, ExclusiveUse, Holds
<1>5. PipeInv BY DEF PipeInv
<1>6. CleanInv /\ AskInv BY DEF CleanInv, AskInv
<1>7. KillInv BY DEF KillInv
<1>8. AnswerIsOwn BY DEF AnswerIsOwn
<1>9. QED BY <1>1, <1>2, <1>3, <1>4, <1>5, <1>6, <1>7, <1>8 DEF IInv

-----------------------------------------------------------------------------
(* Samples and workers *)

\* What the step of a worker does to its program counter, its sample and its Process.
LEMMA WorkerSteps ==
  ASSUME IInv, NEW w \in Workers, Worker(w)
  PROVE  /\ \A v \in Workers \ {w} : wpc'[v] = wpc[v] /\ sample'[v] = sample[v] /\ proc'[v] = proc[v]
         /\ \/ Take(w) /\ wpc[w] = "idle" /\ wpc'[w] = "acquire" /\ sample'[w] \in todo
               /\ todo' = todo \ {sample'[w]} /\ proc'[w] = proc[w]
            \/ /\ todo' = todo /\ sample'[w] = sample[w]
               /\ \/ Acquire(w) /\ wpc[w] = "acquire" /\ wpc'[w] = "call"
                  \/ /\ proc'[w] = proc[w]
                     /\ \/ (CallRunning(w) \/ CallStarts(w)) /\ wpc[w] = "call" /\ wpc'[w] = "write"
                        \/ CallCannotStart(w) /\ wpc[w] = "call" /\ wpc'[w] = "release"
                        \/ Write(w) /\ wpc[w] = "write" /\ wpc'[w] \in {"read", "failed"}
                        \/ ReadAnswer(w) /\ wpc[w] = "read" /\ wpc'[w] = "answered"
                        \/ ReadTorn(w) /\ wpc[w] = "read" /\ wpc'[w] = "torn"
                        \/ (ReadFails(w) \/ ReadTooLong(w)) /\ wpc[w] = "read" /\ wpc'[w] = "failed"
                        \/ Return(w) /\ wpc[w] \in {"answered", "torn", "failed"} /\ wpc'[w] = "release"
                        \/ Release(w) /\ wpc[w] = "release" /\ wpc'[w] \in {"close", "finish"}
                        \/ Closed(w) /\ wpc[w] = "close" /\ wpc'[w] = "finish"
            \/ Finish(w) /\ todo' = todo /\ wpc[w] = "finish" /\ wpc'[w] = "idle"
<1> USE DEF Move, runVars, workerVars
<1> wpc \in [Workers -> {"idle", "acquire", "call", "write", "read", "answered", "torn", "failed",
                            "release", "close", "finish"}]
    /\ sample \in [Workers -> Samples \cup {None}]
    /\ proc \in [Workers -> Procs \cup {0}]
  BY DEF IInv, TypeOK
<1>1. CASE Take(w) BY <1>1 DEF Take
<1>2. CASE Acquire(w) BY <1>2 DEF Acquire
<1>3. CASE CallRunning(w) \/ CallStarts(w) BY <1>3 DEF CallRunning, CallStarts
<1>4. CASE CallCannotStart(w) BY <1>4 DEF CallCannotStart
<1>5. CASE Write(w) BY <1>5 DEF Write
<1>6. CASE ReadAnswer(w) \/ ReadTorn(w) BY <1>6 DEF ReadAnswer, ReadTorn
<1>7. CASE ReadFails(w) \/ ReadTooLong(w) BY <1>7 DEF ReadFails, ReadTooLong
<1>8. CASE Return(w) BY <1>8 DEF Return
<1>9. CASE Release(w) BY <1>9 DEF Release
<1>10. CASE Closed(w) BY <1>10 DEF Closed
<1>11. CASE Finish(w) BY <1>11 DEF Finish
<1>12. QED BY <1>1, <1>2, <1>3, <1>4, <1>5, <1>6, <1>7, <1>8, <1>9, <1>10, <1>11 DEF Worker

LEMMA SamplePreserved ==
  ASSUME IInv, [Next]_vars
  PROVE  SampleInv'
<1>1. CASE \E w \in Workers : Worker(w)
  <2>1. PICK w \in Workers : Worker(w) BY <1>1
  <2>2. SampleInv BY DEF IInv
  <2>3. CASE Take(w) /\ wpc'[w] = "acquire" /\ sample'[w] \in todo /\ todo' = todo \ {sample'[w]}
    <3>1. todo \subseteq Samples BY DEF IInv, TypeOK
    <3>2. \A v \in Workers \ {w} : Grading(v)' = Grading(v) /\ sample'[v] = sample[v]
      BY <2>1, WorkerSteps DEF Grading
    <3>3. QED BY <2>2, <2>3, <3>1, <3>2 DEF SampleInv
  <2>4. CASE todo' = todo /\ (\A v \in Workers : (Grading(v)' => Grading(v) /\ sample'[v] = sample[v]))
    BY <2>2, <2>4 DEF SampleInv
  <2>5. QED BY <2>1, <2>3, <2>4, WorkerSteps DEF Grading
<1>2. CASE ~\E w \in Workers : Worker(w)
  <2>1. UNCHANGED workerVars /\ todo' = todo BY <1>2, RunFrame DEF Worker
  <2>2. QED BY <2>1 DEF IInv, SampleInv, Grading, workerVars
<1>3. QED BY <1>1, <1>2

-----------------------------------------------------------------------------
(* Counting *)

LEMMA FreshFinite ==
  ASSUME IInv
  PROVE  /\ IsFiniteSet(Fresh) /\ IsFiniteSet(Unstarted)
         /\ Cardinality(Fresh) \in Nat /\ Cardinality(Unstarted) \in Nat
<1>1. Fresh \subseteq Samples /\ Unstarted \subseteq Samples BY DEF IInv, TypeOK, Fresh, Unstarted
<1>2. IsFiniteSet(Fresh) /\ IsFiniteSet(Unstarted) BY <1>1, SamplesAssumption, FS_Subset
<1>3. QED BY <1>2, FS_CardinalityType

\* Where the counted samples go.
LEMMA FreshMoves ==
  ASSUME IInv, NEW w \in Workers, Worker(w)
  PROVE  /\ Fresh' = IF Acquire(w) THEN Fresh \ {sample[w]} ELSE Fresh
         /\ Unstarted' = IF wpc[w] = "call" THEN Unstarted \ {sample[w]} ELSE Unstarted
         /\ Acquire(w) => sample[w] \in Fresh
         /\ wpc[w] = "call" => sample[w] \in Unstarted
<1>1. SampleInv /\ todo \subseteq Samples BY DEF IInv, TypeOK
<1>2. CASE Take(w) /\ wpc[w] = "idle" /\ wpc'[w] = "acquire" /\ sample'[w] \in todo
           /\ todo' = todo \ {sample'[w]}
  <2>1. \A v \in Workers \ {w} : wpc'[v] = wpc[v] /\ sample'[v] = sample[v] BY WorkerSteps
  <2>2. ~Acquire(w) BY <1>2 DEF Acquire
  <2>3. Fresh' = Fresh BY <1>1, <1>2, <2>1 DEF Fresh
  <2>4. Unstarted' = Unstarted BY <1>1, <1>2, <2>1 DEF Unstarted
  <2>5. QED BY <1>2, <2>2, <2>3, <2>4
<1>3. CASE todo' = todo /\ sample'[w] = sample[w] /\ wpc[w] # "idle"
  <2>1. \A v \in Workers : sample'[v] = sample[v] BY <1>3, WorkerSteps
  <2>2. \A v \in Workers \ {w} : wpc'[v] = wpc[v] BY WorkerSteps
  <2>3. sample[w] \in Samples \ todo
        /\ \A v \in Workers \ {w} : wpc[v] # "idle" => sample[v] # sample[w]
    BY <1>1, <1>3 DEF SampleInv, Grading
  <2>4. CASE Acquire(w) /\ wpc[w] = "acquire" /\ wpc'[w] = "call"
    <3>1. Fresh' = Fresh \ {sample[w]} /\ sample[w] \in Fresh
      BY <1>3, <2>1, <2>2, <2>3, <2>4 DEF Fresh
    <3>2. Unstarted' = Unstarted BY <1>3, <2>1, <2>2, <2>3, <2>4 DEF Unstarted
    <3>3. QED BY <2>4, <3>1, <3>2
  <2>5. CASE wpc[w] = "call" /\ wpc'[w] \notin {"acquire", "call"}
    <3>1. Fresh' = Fresh BY <1>3, <2>1, <2>2, <2>3, <2>5 DEF Fresh
    <3>2. Unstarted' = Unstarted \ {sample[w]} /\ sample[w] \in Unstarted
      BY <1>3, <2>1, <2>2, <2>3, <2>5 DEF Unstarted
    <3>3. QED BY <2>5, <3>1, <3>2 DEF Acquire
  <2>6. CASE wpc[w] \notin {"acquire", "call"} /\ wpc'[w] \notin {"acquire", "call"}
    <3>1. Fresh' = Fresh /\ Unstarted' = Unstarted
      BY <1>3, <2>1, <2>2, <2>3, <2>6 DEF Fresh, Unstarted
    <3>2. QED BY <2>6, <3>1 DEF Acquire
  <2>7. QED BY <1>3, <2>4, <2>5, <2>6, WorkerSteps
<1>4. CASE Finish(w) /\ todo' = todo /\ wpc[w] = "finish" /\ wpc'[w] = "idle"
  <2>1. \A v \in Workers \ {w} : wpc'[v] = wpc[v] /\ sample'[v] = sample[v] BY WorkerSteps
  <2>2. Fresh' = Fresh /\ Unstarted' = Unstarted BY <1>4, <2>1 DEF Fresh, Unstarted
  <2>3. QED BY <1>4, <2>2 DEF Acquire
<1>5. QED BY <1>2, <1>3, <1>4, WorkerSteps

LEMMA CountPreserved ==
  ASSUME IInv, [Next]_vars
  PROVE  CountInv' /\ made' \in 0..Cardinality(Samples) /\ born' \in 0..Cardinality(Samples)
<1> USE CountType
<1>0. /\ CountInv /\ made \in Nat /\ born \in Nat
      /\ Cardinality(Fresh) \in Nat /\ Cardinality(Unstarted) \in Nat
  BY FreshFinite DEF IInv, TypeOK
<1>1. CASE \E w \in Workers : Worker(w)
  <2>1. PICK w \in Workers : Worker(w) BY <1>1
  <2>2. made' + Cardinality(Fresh') <= Cardinality(Samples) /\ made' \in Nat
        /\ Cardinality(Fresh') \in Nat
    <3>1. CASE Acquire(w)
      <4>1. made' \in {made, made + 1} BY <3>1 DEF Acquire
      <4>2. Cardinality(Fresh') = Cardinality(Fresh) - 1 /\ Cardinality(Fresh') \in Nat
        <5>1. Fresh' = Fresh \ {sample[w]} /\ sample[w] \in Fresh BY <2>1, <3>1, FreshMoves
        <5>2. IsFiniteSet(Fresh') /\ Cardinality(Fresh') = Cardinality(Fresh) - 1
          BY <5>1, FreshFinite, FS_RemoveElement
        <5>3. QED BY <5>2, FS_CardinalityType
      <4>3. QED BY <1>0, <4>1, <4>2 DEF CountInv
    <3>2. CASE ~Acquire(w)
      <4>1. made' = made
        BY <2>1, <3>2 DEF Worker, Take, CallRunning, CallStarts, CallCannotStart, Write, ReadAnswer,
           ReadTorn, ReadFails, ReadTooLong, Return, Release, Closed, Finish, poolVars
      <4>2. Fresh' = Fresh BY <2>1, <3>2, FreshMoves
      <4>3. QED BY <1>0, <4>1, <4>2 DEF CountInv
    <3>3. QED BY <3>1, <3>2
  <2>3. born' + Cardinality(Unstarted') <= Cardinality(Samples) /\ born' \in Nat
        /\ Cardinality(Unstarted') \in Nat
    <3>1. CASE wpc[w] = "call"
      <4>1. born' \in {born, born + 1}
        BY <2>1, <3>1 DEF Worker, Take, Acquire, CallRunning, CallStarts, CallCannotStart, Write, ReadAnswer,
           ReadTorn, ReadFails, ReadTooLong, Return, Release, Closed, Finish, childVars
      <4>2. Cardinality(Unstarted') = Cardinality(Unstarted) - 1 /\ Cardinality(Unstarted') \in Nat
        <5>1. Unstarted' = Unstarted \ {sample[w]} /\ sample[w] \in Unstarted
          BY <2>1, <3>1, FreshMoves
        <5>2. IsFiniteSet(Unstarted') /\ Cardinality(Unstarted') = Cardinality(Unstarted) - 1
          BY <5>1, FreshFinite, FS_RemoveElement
        <5>3. QED BY <5>2, FS_CardinalityType
      <4>3. QED BY <1>0, <4>1, <4>2 DEF CountInv
    <3>2. CASE wpc[w] # "call"
      <4>1. born' = born
        BY <2>1, <3>2 DEF Worker, Take, Acquire, CallRunning, CallStarts, CallCannotStart, Write, ReadAnswer,
           ReadTorn, ReadFails, ReadTooLong, Return, Release, Closed, Finish, childVars
      <4>2. Unstarted' = Unstarted BY <2>1, <3>2, FreshMoves
      <4>3. QED BY <1>0, <4>1, <4>2 DEF CountInv
    <3>3. QED BY <3>1, <3>2
  <2>4. QED BY <2>2, <2>3 DEF CountInv
<1>2. CASE ~\E w \in Workers : Worker(w)
  <2>1. UNCHANGED workerVars /\ todo' = todo /\ made' = made /\ born' = born
    BY <1>2, RunFrame, PoolFrame, ProcFrame DEF Worker
  <2>2. Fresh' = Fresh /\ Unstarted' = Unstarted BY <2>1 DEF Fresh, Unstarted, workerVars
  <2>3. QED BY <1>0, <2>1, <2>2 DEF CountInv
<1>3. QED BY <1>1, <1>2

-----------------------------------------------------------------------------
(* Types *)

LEMMA MadeAreProcs ==
  ASSUME IInv
  PROVE  1..made \subseteq Procs /\ 1..born \subseteq Children
  BY CountType DEF IInv, TypeOK, Procs, Children

LEMMA WorkerTypes ==
  ASSUME IInv, [Next]_vars
  PROVE  /\ todo' \subseteq Samples
         /\ wpc' \in [Workers -> {"idle", "acquire", "call", "write", "read", "answered", "torn", "failed",
                                  "release", "close", "finish"}]
         /\ sample' \in [Workers -> Samples \cup {None}]
         /\ proc' \in [Workers -> Procs \cup {0}]
<1>0. /\ todo \subseteq Samples
      /\ wpc \in [Workers -> {"idle", "acquire", "call", "write", "read", "answered", "torn", "failed",
                                  "release", "close", "finish"}]
      /\ sample \in [Workers -> Samples \cup {None}] /\ proc \in [Workers -> Procs \cup {0}]
      /\ idle \in Seq(Procs)
  BY DEF IInv, TypeOK
<1>1. CASE \E w \in Workers : Worker(w)
  <2>1. PICK w \in Workers : Worker(w) BY <1>1
  <2>2. CASE Take(w) BY <1>0, <2>2 DEF Take, Move
  <2>3. CASE Acquire(w)
    <3>1. CASE idle # << >>
      BY <1>0, <2>3, <3>1 DEF Acquire, Move, runVars
    <3>2. CASE idle = << >>
      <4>1. made' = made + 1 /\ made' \in 0..Cardinality(Samples) /\ made \in Nat
        BY <2>3, <3>2, CountPreserved DEF Acquire, IInv, TypeOK
      <4>2. made + 1 \in Procs BY <4>1, CountType DEF Procs
      <4>3. QED BY <1>0, <2>3, <3>2, <4>2 DEF Acquire, Move, runVars
    <3>3. QED BY <3>1, <3>2
  <2>4. CASE CallRunning(w) \/ CallStarts(w) \/ CallCannotStart(w)
    BY <1>0, <2>4 DEF CallRunning, CallStarts, CallCannotStart, Move, runVars
  <2>5. CASE Write(w) \/ ReadAnswer(w) \/ ReadTorn(w) \/ ReadFails(w) \/ ReadTooLong(w)
    BY <1>0, <2>5 DEF Write, ReadAnswer, ReadTorn, ReadFails, ReadTooLong, Move, runVars
  <2>6. CASE Return(w) \/ Release(w) \/ Closed(w)
    BY <1>0, <2>6 DEF Return, Release, Closed, Move, runVars
  <2>7. CASE Finish(w) BY <1>0, <2>7 DEF Finish, Move
  <2>8. QED BY <2>1, <2>2, <2>3, <2>4, <2>5, <2>6, <2>7 DEF Worker
<1>2. CASE ~\E w \in Workers : Worker(w)
  <2>1. UNCHANGED workerVars /\ todo' = todo BY <1>2, RunFrame DEF Worker
  <2>2. QED BY <1>0, <2>1 DEF workerVars
<1>3. QED BY <1>1, <1>2

LEMMA PoolTypes ==
  ASSUME IInv, [Next]_vars
  PROVE  /\ idle' \in Seq(Procs)
         /\ shut' \subseteq Procs
<1>0. idle \in Seq(Procs) /\ shut \subseteq Procs BY DEF IInv, TypeOK
<1>1. ASSUME NEW w \in Workers, wpc[w] = "release" PROVE proc[w] \in Procs
  BY <1>1, MadeAreProcs DEF IInv, HoldInv, Holds
<1>2. idle' \in Seq(Procs)
  <2>1. ASSUME NEW w \in Workers, Acquire(w) PROVE idle' \in Seq(Procs)
    <3>1. CASE idle = << >> BY <1>0, <2>1, <3>1 DEF Acquire
    <3>2. CASE idle # << >>
      <4>1. idle' = SubSeq(idle, 1, Len(idle) - 1) BY <2>1, <3>2 DEF Acquire
      <4>2. Len(idle) \in Nat \ {0} BY <1>0, <3>2
      <4>3. QED BY <1>0, <4>1, <4>2
    <3>3. QED BY <3>1, <3>2
  <2>2. ASSUME NEW w \in Workers, Release(w) PROVE idle' \in Seq(Procs)
    <3>1. proc[w] \in Procs BY <1>1, <2>2 DEF Release
    <3>2. idle' = idle \/ idle' = Append(idle, proc[w]) BY <2>2 DEF Release
    <3>3. QED BY <1>0, <3>1, <3>2
  <2>3. QED BY <1>0, <2>1, <2>2, PoolFrame
<1>3. shut' \subseteq Procs
  <2>1. ASSUME NEW w \in Workers, Release(w) PROVE shut' \subseteq Procs
    BY <1>0, <1>1, <2>1 DEF Release
  <2>2. ASSUME ClosePool PROVE shut' \subseteq Procs
    BY <1>0, <2>2, MadeAreProcs DEF ClosePool
  <2>3. QED BY <1>0, <2>1, <2>2, ProcFrame
<1>4. QED BY <1>2, <1>3

LEMMA ChildTypes ==
  ASSUME IInv, [Next]_vars
  PROVE  /\ cmd' \in [Procs -> Children \cup {0}] /\ pipe' \in [Procs -> Children \cup {0}]
         /\ alive' \subseteq 1..born' /\ stdinOpen' \subseteq 1..born' /\ reaped' \subseteq 1..born'
         /\ asked' \in [Children -> Samples \cup {None}] /\ answer' \in [Children -> Samples \cup {None}]
<1>0. /\ cmd \in [Procs -> Children \cup {0}] /\ pipe \in [Procs -> Children \cup {0}]
      /\ alive \subseteq 1..born /\ stdinOpen \subseteq 1..born /\ reaped \subseteq 1..born
      /\ asked \in [Children -> Samples \cup {None}] /\ answer \in [Children -> Samples \cup {None}]
      /\ born \in Nat /\ sample \in [Workers -> Samples \cup {None}]
  BY DEF IInv, TypeOK
<1>1. ASSUME NEW w \in Workers, CallStarts(w)
      PROVE  /\ cmd' \in [Procs -> Children \cup {0}] /\ pipe' \in [Procs -> Children \cup {0}]
             /\ alive' \subseteq 1..born' /\ stdinOpen' \subseteq 1..born' /\ reaped' \subseteq 1..born'
             /\ born' = born + 1
  <2>1. born' = born + 1 /\ born' \in 0..Cardinality(Samples) BY <1>1, CountPreserved DEF CallStarts
  <2>2. born + 1 \in Children BY <1>0, <2>1, CountType DEF Children
  <2>3. /\ cmd' = [cmd EXCEPT ![proc[w]] = born + 1] /\ pipe' = [pipe EXCEPT ![proc[w]] = born + 1]
        /\ alive' = alive \cup {born + 1} /\ stdinOpen' = stdinOpen \cup {born + 1} /\ reaped' = reaped
    BY <1>1 DEF CallStarts
  <2>4. cmd' \in [Procs -> Children \cup {0}] BY <1>0, <2>2, <2>3
  <2>5. pipe' \in [Procs -> Children \cup {0}] BY <1>0, <2>2, <2>3
  <2>6. 1..born \subseteq 1..born' /\ born + 1 \in 1..born' BY <1>0, <2>1
  <2>7. alive' \subseteq 1..born' /\ stdinOpen' \subseteq 1..born' /\ reaped' \subseteq 1..born'
    BY <1>0, <2>3, <2>6
  <2>8. QED BY <2>1, <2>4, <2>5, <2>7
<1>2. cmd' \in [Procs -> Children \cup {0}]
  <2>1. ASSUME NEW k \in Killers, Clear(k) PROVE cmd' \in [Procs -> Children \cup {0}]
    BY <1>0, <2>1 DEF Clear
  <2>2. QED BY <1>0, <1>1, <2>1, ProcFrame
<1>3. pipe' \in [Procs -> Children \cup {0}] BY <1>0, <1>1, ProcFrame
<1>4. born' = born \/ (\E w \in Workers : CallStarts(w)) BY ProcFrame
<1>5. alive' \subseteq 1..born' /\ stdinOpen' \subseteq 1..born'
  <2>1. CASE \E w \in Workers : CallStarts(w) BY <1>1, <2>1
  <2>2. CASE ~\E w \in Workers : CallStarts(w) BY <1>0, <1>4, <2>2, ChildFrame
  <2>3. QED BY <2>1, <2>2
<1>6. reaped' \subseteq 1..born'
  <2>1. CASE \E w \in Workers : CallStarts(w) BY <1>1, <2>1
  <2>2. CASE \E k \in Killers : Wait(k)
    <3>1. PICK k \in Killers : Wait(k) BY <2>2
    <3>2. target[k] \in Procs BY <3>1 DEF IInv, KillInv, Wait
    <3>3. cmd[target[k]] \in 0..born BY <3>2 DEF IInv, PipeInv
    <3>4. reaped' \subseteq reaped \cup {cmd[target[k]]} /\ born' = born
          /\ (cmd[target[k]] = 0 => reaped' = reaped)
      BY <3>1 DEF Wait
    <3>5. QED BY <1>0, <3>3, <3>4
  <2>3. CASE ~(\E w \in Workers : CallStarts(w)) /\ ~\E k \in Killers : Wait(k)
    BY <1>0, <1>4, <2>3, ChildFrame
  <2>4. QED BY <2>1, <2>2, <2>3
<1>7. asked' \in [Children -> Samples \cup {None}]
  <2>1. ASSUME NEW w \in Workers, Write(w) PROVE asked' \in [Children -> Samples \cup {None}]
    BY <1>0, <2>1 DEF Write
  <2>2. ASSUME NEW c \in Children, ChildAnswers(c) PROVE asked' \in [Children -> Samples \cup {None}]
    BY <1>0, <2>2 DEF ChildAnswers
  <2>3. ASSUME NEW w \in Workers, ReadTorn(w) PROVE asked' \in [Children -> Samples \cup {None}]
    BY <1>0, <2>3 DEF ReadTorn
  <2>4. QED BY <1>0, <2>1, <2>2, <2>3, ChildFrame
<1>8. answer' \in [Children -> Samples \cup {None}]
  <2>1. ASSUME NEW w \in Workers, ReadAnswer(w) PROVE answer' \in [Children -> Samples \cup {None}]
    BY <1>0, <2>1 DEF ReadAnswer
  <2>2. ASSUME NEW c \in Children, ChildAnswers(c) PROVE answer' \in [Children -> Samples \cup {None}]
    BY <1>0, <2>2 DEF ChildAnswers
  <2>3. QED BY <1>0, <2>1, <2>2, ChildFrame
<1>9. QED BY <1>2, <1>3, <1>5, <1>6, <1>7, <1>8

LEMMA ContextTypes ==
  ASSUME IInv, [Next]_vars
  PROVE  /\ stopped' \in BOOLEAN /\ crashed' \in BOOLEAN
         /\ ctx' \in [Samples -> {"open", "canceled", "deadline"}]
<1>0. /\ stopped \in BOOLEAN /\ crashed \in BOOLEAN
      /\ ctx \in [Samples -> {"open", "canceled", "deadline"}]
  BY DEF IInv, TypeOK
<1>1. stopped' = stopped \/ stopped' = TRUE
  BY DEF Next, Worker, KillStep, Watcher, Stop, TimeOut, Take, Acquire, CallRunning, CallStarts,
         CallCannotStart, Write, ReadAnswer, ReadTorn, ReadFails, ReadTooLong, Return, Release, Closed, Finish,
         Kill, Wait, Clear, WatcherKills, WatcherEnds, ClosePool, ChildAnswers, ChildCrashes,
         Terminating, vars, runVars
<1>2. crashed' = crashed \/ crashed' = TRUE
  <2>1. ASSUME NEW w \in Workers, Worker(w) PROVE crashed' = crashed
    BY <2>1 DEF Worker, Take, Acquire, CallRunning, CallStarts, CallCannotStart, Write, ReadAnswer,
                ReadTorn, ReadFails, ReadTooLong, Return, Release, Closed, Finish, resultVars
  <2>2. ASSUME NEW k \in Killers, KillStep(k) PROVE crashed' = crashed \/ crashed' = TRUE
    BY <2>2 DEF KillStep, Kill, Wait, Clear, Panic, resultVars
  <2>3. ASSUME NEW s \in Samples, Watcher(s) PROVE crashed' = crashed
    BY <2>3 DEF Watcher, WatcherKills, WatcherEnds, resultVars
  <2>4. ASSUME NEW c \in Children, ChildAnswers(c) \/ ChildCrashes(c) PROVE crashed' = crashed
    BY <2>4 DEF ChildAnswers, ChildCrashes, resultVars
  <2>5. ASSUME Stop \/ ClosePool \/ Terminating \/ UNCHANGED vars \/ \E w \in Workers : TimeOut(w)
        PROVE  crashed' = crashed
    BY <2>5 DEF Stop, ClosePool, Terminating, vars, TimeOut, resultVars
  <2>6. QED BY <2>1, <2>2, <2>3, <2>4, <2>5 DEF Next
<1>3. ctx' = ctx \/ Stop \/ \E w \in Workers : TimeOut(w) \/ Finish(w) BY ContextFrame
<1>4. ctx' \in [Samples -> {"open", "canceled", "deadline"}]
  BY <1>0, <1>3 DEF Stop, TimeOut, Finish
<1>5. QED BY ONLY <1>0, <1>1, <1>2, <1>4, Zenon

\* What the step of a killer, a watcher or a worker does to the killing.
LEMMA KillFrame ==
  ASSUME [Next]_vars
  PROVE  \/ UNCHANGED <<killing, target>>
         \/ \E k \in Killers : /\ target' = target
                               /\ \E at \in {"no", "wait", "clear"} :
                                     killing[k] # "no" /\ killing' = [killing EXCEPT ![k] = at]
         \/ \E w \in Workers : Release(w) /\ EnterKill(w, proc[w])
         \/ ClosePool
         \/ \E s \in Samples : WatcherKills(s)
<1>1. ASSUME NEW w \in Workers, Worker(w)
      PROVE  \/ UNCHANGED <<killing, target>>
             \/ Release(w) /\ EnterKill(w, proc[w])
  BY <1>1 DEF Worker, Take, Acquire, CallRunning, CallStarts, CallCannotStart, Write, ReadAnswer,
              ReadTorn, ReadFails, ReadTooLong, Return, Release, Closed, Finish, killVars
<1>2. ASSUME NEW k \in Killers, KillStep(k)
      PROVE  \/ UNCHANGED <<killing, target>>
             \/ /\ target' = target
                /\ \E at \in {"no", "wait", "clear"} :
                      killing[k] # "no" /\ killing' = [killing EXCEPT ![k] = at]
  BY <1>2 DEF KillStep, Kill, Wait, Clear, Panic, killVars
<1>3. ASSUME NEW s \in Samples, Watcher(s) PROVE UNCHANGED <<killing, target>> \/ WatcherKills(s)
  BY <1>3 DEF Watcher, WatcherEnds, killVars
<1>4. ASSUME NEW c \in Children, ChildAnswers(c) \/ ChildCrashes(c) PROVE UNCHANGED <<killing, target>>
  BY <1>4 DEF ChildAnswers, ChildCrashes, killVars
<1>5. ASSUME Stop \/ ClosePool \/ Terminating \/ UNCHANGED vars \/ \E w \in Workers : TimeOut(w)
      PROVE  UNCHANGED <<killing, target>> \/ ClosePool
  BY <1>5 DEF Stop, Terminating, vars, TimeOut, killVars
<1>6. QED BY <1>1, <1>2, <1>3, <1>4, <1>5 DEF Next

LEMMA KillTypes ==
  ASSUME IInv, [Next]_vars
  PROVE  /\ killing' \in [Killers -> {"no", "kill", "wait", "clear"}]
         /\ target' \in [Killers -> Procs \cup {0}]
         /\ \A k \in Killers : killing'[k] # "no" => target'[k] \in Procs
<1>0. /\ killing \in [Killers -> {"no", "kill", "wait", "clear"}]
      /\ target \in [Killers -> Procs \cup {0}]
      /\ \A k \in Killers : killing[k] # "no" => target[k] \in Procs
  BY DEF IInv, TypeOK, KillInv
<1>1. ASSUME NEW k \in Killers, NEW p \in Procs, EnterKill(k, p)
      PROVE  /\ killing' \in [Killers -> {"no", "kill", "wait", "clear"}]
             /\ target' \in [Killers -> Procs \cup {0}]
             /\ \A j \in Killers : killing'[j] # "no" => target'[j] \in Procs
  BY <1>0, <1>1 DEF EnterKill
<1>2. CASE \E w \in Workers : Release(w) /\ EnterKill(w, proc[w])
  <2>1. PICK w \in Workers : Release(w) /\ EnterKill(w, proc[w]) BY <1>2
  <2>2. proc[w] \in Procs BY <2>1, MadeAreProcs DEF IInv, HoldInv, Holds, Release
  <2>3. QED BY <1>1, <2>1, <2>2 DEF Killers
<1>3. CASE ClosePool
  <2>1. PICK p \in 1..made : EnterKill(Closer, p) BY <1>3 DEF ClosePool
  <2>2. QED BY <1>1, <2>1, MadeAreProcs DEF Killers
<1>4. CASE \E s \in Samples : WatcherKills(s)
  <2>1. PICK s \in Samples : WatcherKills(s) BY <1>4
  <2>2. watched[s] \in Procs BY <2>1 DEF WatcherKills, IInv, KillInv
  <2>3. QED BY <1>1, <2>1, <2>2 DEF WatcherKills, Killers
<1>5. CASE UNCHANGED <<killing, target>> BY <1>0, <1>5
<1>6. CASE \E k \in Killers : /\ target' = target
                              /\ \E at \in {"no", "wait", "clear"} :
                                    killing[k] # "no" /\ killing' = [killing EXCEPT ![k] = at]
  BY <1>0, <1>6
<1>7. QED BY <1>2, <1>3, <1>4, <1>5, <1>6, KillFrame

LEMMA WatcherTypes ==
  ASSUME IInv, [Next]_vars
  PROVE  /\ watcher' \in [Samples -> {"none", "waiting", "killing", "gone"}]
         /\ watched' \in [Samples -> Procs \cup {0}]
         /\ done' \subseteq Samples
         /\ \A s \in Samples : watcher'[s] # "none" => watched'[s] \in Procs
<1>0. /\ watcher \in [Samples -> {"none", "waiting", "killing", "gone"}]
      /\ watched \in [Samples -> Procs \cup {0}] /\ done \subseteq Samples
      /\ \A s \in Samples : watcher[s] # "none" => watched[s] \in Procs
  BY DEF IInv, TypeOK, KillInv
<1>1. \/ UNCHANGED <<watcher, watched, done>>
      \/ \E w \in Workers : (CallRunning(w) \/ CallStarts(w) \/ Return(w))
      \/ \E s \in Samples : Watcher(s)
  BY DEF Next, Worker, KillStep, Stop, TimeOut, Take, Acquire,
         CallCannotStart, Write, ReadAnswer, ReadTorn, ReadFails, ReadTooLong, Release, Closed, Finish,
         Kill, Wait, Clear, ClosePool, ChildAnswers, ChildCrashes, Terminating, vars, watchVars
<1>2. CASE \E w \in Workers : (CallRunning(w) \/ CallStarts(w) \/ Return(w))
  <2>1. PICK w \in Workers : CallRunning(w) \/ CallStarts(w) \/ Return(w) BY <1>2
  <2>2. sample[w] \in Samples /\ proc[w] \in Procs
    BY <2>1, MadeAreProcs DEF CallRunning, CallStarts, Return, IInv, SampleInv, HoldInv, Holds, Grading
  <2>3. CASE Return(w) BY <1>0, <2>2, <2>3 DEF Return
  <2>4. CASE CallRunning(w) \/ CallStarts(w)
    <3>1. Watch(w) /\ done' = done BY <2>4 DEF CallRunning, CallStarts
    <3>2. QED BY <1>0, <2>2, <3>1 DEF Watch
  <2>5. QED BY <2>1, <2>3, <2>4
<1>3. CASE \E s \in Samples : Watcher(s)
  <2>1. PICK s \in Samples : Watcher(s) BY <1>3
  <2>2. watched' = watched /\ done' = done /\ watcher[s] # "none"
        /\ \E at \in {"killing", "gone"} : watcher' = [watcher EXCEPT ![s] = at]
    BY <2>1 DEF Watcher, WatcherKills, WatcherEnds
  <2>3. QED BY <1>0, <2>2
<1>4. QED BY <1>0, <1>1, <1>2, <1>3

LEMMA ResultTypes ==
  ASSUME IInv, [Next]_vars
  PROVE  /\ result' \in [Samples -> {"none", "answer", "canceled", "deadline", "failed", "unusable", "panicked"}]
         /\ got' \in [Samples -> Samples \cup {None}]
<1>0. /\ result \in [Samples -> {"none", "answer", "canceled", "deadline", "failed", "unusable", "panicked"}]
      /\ got \in [Samples -> Samples \cup {None}]
      /\ ctx \in [Samples -> {"open", "canceled", "deadline"}]
      /\ answer \in [Children -> Samples \cup {None}]
  BY DEF IInv, TypeOK
<1>1. result' \in [Samples -> {"none", "answer", "canceled", "deadline", "failed", "unusable", "panicked"}]
  <2>1. ASSUME NEW w \in Workers, CallCannotStart(w) \/ Return(w)
        PROVE result' \in [Samples -> {"none", "answer", "canceled", "deadline", "failed", "unusable", "panicked"}]
    <3>1. sample[w] \in Samples BY <2>1 DEF CallCannotStart, Return, IInv, SampleInv, Grading
    <3>2. \E r \in {"answer", "canceled", "deadline", "failed", "unusable"} :
             result' = [result EXCEPT ![sample[w]] = r]
      BY <1>0, <2>1, <3>1 DEF CallCannotStart, Return, Outcome
    <3>3. QED BY <1>0, <3>2
  <2>2. QED BY <1>0, <2>1, ResultFrame
<1>2. got' \in [Samples -> Samples \cup {None}]
  <2>1. ASSUME NEW w \in Workers, ReadAnswer(w) PROVE got' \in [Samples -> Samples \cup {None}]
    <3>1. answer[pipe[proc[w]]] \in Samples \cup {None}
      <4>1. pipe[proc[w]] # 0 /\ proc[w] \in Procs
        BY <2>1, MadeAreProcs DEF IInv, AskInv, ReadAnswer, HoldInv, Holds
      <4>2. pipe[proc[w]] \in Children BY <4>1 DEF IInv, TypeOK
      <4>3. QED BY <1>0, <4>2
    <3>2. QED BY <1>0, <2>1, <3>1 DEF ReadAnswer
  <2>2. QED BY <1>0, <2>1, RunFrame
<1>3. QED BY <1>1, <1>2

LEMMA TypePreserved ==
  ASSUME IInv, [Next]_vars
  PROVE  TypeOK'
<1>1. made' \in 0..Cardinality(Samples) /\ born' \in 0..Cardinality(Samples) BY CountPreserved
<1>2. QED BY <1>1, WorkerTypes, PoolTypes, ChildTypes, ContextTypes, KillTypes, WatcherTypes,
             ResultTypes, Zenon DEF TypeOK

-----------------------------------------------------------------------------
(* Whose each Process is *)

\* Who holds what after a step: only Acquire makes a holder, only the end of Release ends one.
LEMMA HoldMoves ==
  ASSUME IInv, [Next]_vars, NEW w \in Workers
  PROVE  \/ Acquire(w) /\ wpc'[w] = "call"
         \/ /\ Holds(w)' => Holds(w) /\ proc'[w] = proc[w]
            /\ Holds(w)' /\ wpc[w] = "close" => wpc'[w] = "close"
<1>1. CASE \E v \in Workers : Worker(v)
  <2>1. PICK v \in Workers : Worker(v) BY <1>1
  <2>2. CASE v = w BY <2>1, <2>2, WorkerSteps DEF Holds
  <2>3. CASE v # w BY <2>1, <2>3, WorkerSteps DEF Holds
  <2>4. QED BY <2>2, <2>3
<1>2. CASE ~\E v \in Workers : Worker(v)
  <2>1. UNCHANGED workerVars BY <1>2, RunFrame
  <2>2. QED BY <2>1 DEF workerVars, Holds
<1>3. QED BY <1>1, <1>2

\* Once the run is over it stays over: no sample is taken any more.
LEMMA OverForGood ==
  ASSUME IInv, [Next]_vars, RunOver
  PROVE  RunOver'
<1>1. CASE \E w \in Workers : Worker(w)
  <2>1. PICK w \in Workers : Worker(w) BY <1>1
  <2>2. wpc[w] = "idle" BY DEF RunOver
  <2>3. Take(w) BY <2>1, <2>2, WorkerSteps
  <2>4. QED BY <2>3 DEF Take, RunOver
<1>2. CASE ~\E w \in Workers : Worker(w)
  <2>1. UNCHANGED workerVars /\ todo' = todo /\ (stopped => stopped') BY <1>2, RunFrame DEF Worker
  <2>2. QED BY <2>1 DEF RunOver, workerVars
<1>3. QED BY <1>1, <1>2

\* The Process handed out is nobody else's and not idle any more.
LEMMA AcquireHold ==
  ASSUME IInv, NEW w \in Workers, Acquire(w), made' \in Nat
  PROVE  /\ proc'[w] \in 1..made' /\ 1..made \subseteq 1..made' /\ shut' = shut
         /\ proc'[w] \notin shut
         /\ \A v \in Workers : Holds(v) => proc[v] # proc'[w]
         /\ idle' \in Seq(Procs)
         /\ \A i \in DOMAIN idle' : /\ i \in DOMAIN idle /\ idle'[i] = idle[i]
                                    /\ idle'[i] # proc'[w]
<1>0. /\ idle \in Seq(Procs) /\ HoldInv /\ made \in Nat
      /\ proc \in [Workers -> Procs \cup {0}]
  BY DEF IInv, TypeOK
<1>1. ~RunOver BY DEF RunOver, Acquire
<1>2. shut' = shut BY DEF Acquire, procVars
<1>3. CASE idle = << >>
  <2>1. made' = made + 1 /\ proc'[w] = made + 1 /\ idle' = idle BY <1>0, <1>3 DEF Acquire
  <2>2. QED BY <1>0, <1>2, <1>3, <2>1 DEF HoldInv
<1>4. CASE idle # << >>
  <2>1. /\ made' = made /\ proc'[w] = idle[Len(idle)] /\ idle' = SubSeq(idle, 1, Len(idle) - 1)
    BY <1>0, <1>4 DEF Acquire
  <2>2. Len(idle) \in DOMAIN idle /\ Len(idle) \in Nat \ {0} BY <1>0, <1>4
  <2>3. /\ idle' \in Seq(Procs)
        /\ \A i \in DOMAIN idle' : /\ i \in DOMAIN idle /\ idle'[i] = idle[i] /\ i # Len(idle)
    BY <1>0, <2>1, <2>2
  <2>4. QED BY <1>0, <1>1, <1>2, <2>1, <2>2, <2>3 DEF HoldInv, ExclusiveUse
<1>5. QED BY <1>3, <1>4

\* A step that acquires nothing and gives nothing back leaves every Process where it is.
LEMMA HoldPreserved ==
  ASSUME IInv, [Next]_vars
  PROVE  HoldInv'
<1>0. /\ HoldInv /\ idle \in Seq(Procs) /\ made \in Nat /\ made' \in Nat
  BY CountPreserved DEF IInv, TypeOK
<1>1. ASSUME NEW w \in Workers, Acquire(w) PROVE HoldInv'
  <2>1. Worker(w) BY <1>1 DEF Worker
  <2>2. \A v \in Workers \ {w} : wpc'[v] = wpc[v] /\ proc'[v] = proc[v] BY <2>1, WorkerSteps
  <2>3. \A v \in Workers \ {w} : (Holds(v)' <=> Holds(v)) /\ proc'[v] = proc[v] BY <2>2 DEF Holds
  <2>4. ~RunOver BY <1>1 DEF RunOver, Acquire
  <2>5. /\ proc'[w] \in 1..made' /\ 1..made \subseteq 1..made' /\ shut' = shut
        /\ proc'[w] \notin shut
        /\ \A v \in Workers : Holds(v) => proc[v] # proc'[w]
        /\ \A i \in DOMAIN idle' : /\ i \in DOMAIN idle /\ idle'[i] = idle[i]
                                   /\ idle'[i] # proc'[w]
    BY ONLY IInv, <1>0, <1>1, AcquireHold
  <2>6. \A v \in Workers : Holds(v)' => proc'[v] \in 1..made'
    BY ONLY <1>0, <2>3, <2>5 DEF HoldInv
  <2>7. \A v \in Workers : Holds(v)' /\ proc'[v] \in shut' => wpc'[v] = "close"
    BY ONLY <1>0, <2>2, <2>3, <2>5 DEF HoldInv
  <2>8. \A v, u \in Workers : Holds(v)' /\ Holds(u)' /\ proc'[v] = proc'[u] => v = u
    BY ONLY <1>0, <2>3, <2>5 DEF HoldInv, ExclusiveUse
  <2>9. \A i \in DOMAIN idle' : /\ \A v \in Workers : Holds(v)' => proc'[v] # idle'[i]
                               /\ \A j \in DOMAIN idle' : idle'[i] = idle'[j] => i = j
                               /\ idle'[i] \notin shut'
    BY ONLY <1>0, <2>3, <2>4, <2>5 DEF HoldInv, ExclusiveUse
  <2>10. (\A i \in DOMAIN idle' : idle'[i] \in 1..made') /\ shut' \subseteq 1..made'
    BY ONLY <1>0, <2>5 DEF HoldInv
  <2>11. QED BY ONLY <2>6, <2>7, <2>8, <2>9, <2>10 DEF HoldInv, ExclusiveUse
<1>2. ASSUME NEW w \in Workers, Release(w) PROVE HoldInv'
  <2>1. Worker(w) BY <1>2 DEF Worker
  <2>2. \A v \in Workers : proc'[v] = proc[v] BY <1>2 DEF Release
  <2>3. \A v \in Workers \ {w} : wpc'[v] = wpc[v] BY <2>1, WorkerSteps
  <2>4. /\ Holds(w) /\ wpc[w] = "release" /\ made' = made /\ proc[w] \in 1..made
        /\ proc[w] \notin shut /\ ~RunOver
    BY <1>0, <1>2 DEF Release, Holds, HoldInv, RunOver
  <2>5. wpc \in [Workers -> {"idle", "acquire", "call", "write", "read", "answered", "torn", "failed",
                            "release", "close", "finish"}]
    BY DEF IInv, TypeOK
  <2>6. CASE idle' = Append(idle, proc[w]) /\ wpc'[w] = "finish" /\ shut' = shut
    <3>1. \A v \in Workers : Holds(v)' => Holds(v) /\ v # w BY <2>3, <2>6 DEF Holds
    <3>2. /\ DOMAIN idle' = DOMAIN idle \cup {Len(idle) + 1} /\ idle'[Len(idle) + 1] = proc[w]
          /\ \A i \in DOMAIN idle : idle'[i] = idle[i]
          /\ \A i \in DOMAIN idle : idle[i] # proc[w]
      <4>1. proc[w] \in Procs BY <2>4, MadeAreProcs
      <4>2. \A i \in DOMAIN idle : idle[i] # proc[w] BY <1>0, <2>4 DEF HoldInv, ExclusiveUse
      <4>3. QED BY <1>0, <2>6, <4>1, <4>2
    <3>3. \A i \in DOMAIN idle : idle'[i] \notin shut BY <1>0, <2>4, <3>2 DEF HoldInv, ExclusiveUse
    <3>4. ExclusiveUse' BY <1>0, <2>2, <2>4, <2>6, <3>1, <3>2, <3>3 DEF HoldInv, ExclusiveUse
    <3>5. QED BY <1>0, <2>2, <2>3, <2>4, <2>6, <3>1, <3>2, <3>4 DEF HoldInv
  <2>7. CASE idle' = idle /\ wpc'[w] = "close" /\ shut' = shut \cup {proc[w]}
    <3>1. \A v \in Workers : (Holds(v)' <=> Holds(v)) BY <2>3, <2>4, <2>7 DEF Holds
    <3>2. \A i \in DOMAIN idle : idle[i] # proc[w] /\ idle[i] \notin shut
      BY <1>0, <2>4 DEF HoldInv, ExclusiveUse
    <3>3. ExclusiveUse' BY <1>0, <2>2, <2>4, <2>7, <3>1, <3>2 DEF HoldInv, ExclusiveUse
    <3>4. \A v \in Workers : Holds(v)' /\ proc'[v] \in shut' => wpc'[v] = "close"
      BY <1>0, <2>2, <2>3, <2>4, <2>7, <3>1 DEF HoldInv, ExclusiveUse
    <3>5. QED BY <1>0, <2>2, <2>4, <2>7, <3>1, <3>3, <3>4 DEF HoldInv
  <2>8. QED BY <1>2, <2>5, <2>6, <2>7 DEF Release, Move
<1>3. ASSUME ClosePool PROVE HoldInv'
  <2>1. UNCHANGED <<idle, made, wpc, proc>> /\ RunOver /\ (\A w \in Workers : ~Holds(w))
    BY <1>3 DEF ClosePool, poolVars, workerVars, RunOver, Holds
  <2>2. RunOver' BY <2>1, OverForGood
  <2>3. shut' \subseteq 1..made BY <1>0, <1>3 DEF ClosePool, HoldInv
  <2>4. QED BY <1>0, <2>1, <2>2, <2>3 DEF HoldInv, ExclusiveUse, Holds
<1>4. ASSUME ~(\E w \in Workers : Acquire(w) \/ Release(w)), ~ClosePool PROVE HoldInv'
  <2>1. idle' = idle /\ made' = made /\ shut' = shut BY <1>4, PoolFrame, ProcFrame
  <2>2. \A w \in Workers : /\ Holds(w)' => Holds(w) /\ proc'[w] = proc[w]
                           /\ Holds(w)' /\ wpc[w] = "close" => wpc'[w] = "close"
    BY <1>4, HoldMoves
  <2>3. RunOver => RunOver' BY OverForGood
  <2>4. QED BY <1>0, <2>1, <2>2, <2>3 DEF HoldInv, ExclusiveUse
<1>5. QED BY <1>1, <1>2, <1>3, <1>4

-----------------------------------------------------------------------------
(* Whose each child is *)

LEMMA PipePreserved ==
  ASSUME IInv, [Next]_vars
  PROVE  PipeInv'
<1>0. /\ PipeInv /\ born \in Nat /\ made \in Nat /\ made' \in Nat
      /\ cmd \in [Procs -> Children \cup {0}] /\ pipe \in [Procs -> Children \cup {0}]
      /\ asked \in [Children -> Samples \cup {None}] /\ answer \in [Children -> Samples \cup {None}]
  BY CountPreserved DEF IInv, TypeOK
<1>1. made' = made \/ made' = made + 1 BY PoolFrame DEF Acquire
<1>2. ASSUME NEW w \in Workers, CallStarts(w) PROVE PipeInv'
  <2>1. proc[w] \in 1..made /\ proc[w] \in Procs
    BY <1>2, MadeAreProcs DEF IInv, HoldInv, Holds, CallStarts
  <2>2. /\ born' = born + 1 /\ cmd' = [cmd EXCEPT ![proc[w]] = born + 1]
        /\ pipe' = [pipe EXCEPT ![proc[w]] = born + 1] /\ asked' = asked /\ answer' = answer
        /\ made' = made
    BY <1>2 DEF CallStarts, poolVars
  <2>3. \A p \in Procs : pipe'[p] \in 0..born' /\ cmd'[p] \in 0..born'
    BY <1>0, <2>1, <2>2 DEF PipeInv
  <2>4. \A p \in Procs : p > made' => pipe'[p] = 0 BY <1>0, <2>1, <2>2 DEF PipeInv
  <2>5. \A p, q \in Procs : pipe'[p] = pipe'[q] /\ pipe'[p] # 0 => p = q
    BY <1>0, <2>1, <2>2 DEF PipeInv
  <2>6. \A c \in Children : c > born' => asked'[c] = None /\ answer'[c] = None
    BY <1>0, <2>2 DEF PipeInv, Children
  <2>7. QED BY <2>3, <2>4, <2>5, <2>6 DEF PipeInv
<1>3. ASSUME ~\E w \in Workers : CallStarts(w) PROVE PipeInv'
  <2>1. pipe' = pipe /\ born' = born BY <1>3, ProcFrame
  <2>2. \A p \in Procs : cmd'[p] \in 0..born BY <1>0, <1>3, ProcFrame DEF PipeInv, Clear
  <2>3. \A p \in Procs : p > made' => pipe[p] = 0 BY <1>0, <1>1 DEF PipeInv, Procs
  <2>4. \A c \in Children : c > born => asked'[c] = None
    <3>1. ASSUME NEW w \in Workers, Write(w), NEW c \in Children, c > born PROVE asked'[c] = None
      <4>1. asked' = asked \/ (pipe[proc[w]] \in alive /\ asked' = [asked EXCEPT ![pipe[proc[w]]] = sample[w]])
        BY <3>1 DEF Write
      <4>2. pipe[proc[w]] \in alive => pipe[proc[w]] # c
        BY <1>0, <3>1 DEF IInv, TypeOK, Children
      <4>3. QED BY <1>0, <3>1, <4>1, <4>2 DEF PipeInv
    <3>2. ASSUME NEW d \in Children, ChildAnswers(d), NEW c \in Children, c > born PROVE asked'[c] = None
      BY <1>0, <3>2 DEF PipeInv, ChildAnswers
    <3>3. ASSUME NEW w \in Workers, ReadTorn(w), NEW c \in Children, c > born PROVE asked'[c] = None
      BY <1>0, <3>3 DEF PipeInv, ReadTorn
    <3>4. QED BY <1>0, <3>1, <3>2, <3>3, ChildFrame DEF PipeInv
  <2>5. \A c \in Children : c > born => answer'[c] = None
    <3>1. ASSUME NEW w \in Workers, ReadAnswer(w), NEW c \in Children, c > born PROVE answer'[c] = None
      BY <1>0, <3>1 DEF PipeInv, ReadAnswer
    <3>2. ASSUME NEW d \in Children, ChildAnswers(d), NEW c \in Children, c > born PROVE answer'[c] = None
      BY <1>0, <3>2 DEF PipeInv, ChildAnswers
    <3>3. QED BY <1>0, <3>1, <3>2, ChildFrame DEF PipeInv
  <2>6. QED BY <1>0, <2>1, <2>2, <2>3, <2>4, <2>5 DEF PipeInv
<1>4. QED BY <1>2, <1>3

\* Clean in the next state, of a Process that may itself be given in terms of it.
CleanNext(p) == pipe'[p] # 0 => asked'[pipe'[p]] = None /\ answer'[pipe'[p]] = None

\* A Process is clean after the step if it was before, unless it is the one written to.
LEMMA CleanMoves ==
  ASSUME IInv, [Next]_vars, NEW p \in Procs, Clean(p)
  PROVE  CleanNext(p) \/ \E w \in Workers : Write(w) /\ proc[w] = p
<1>0. /\ PipeInv /\ pipe \in [Procs -> Children \cup {0}] /\ born \in Nat
      /\ asked \in [Children -> Samples \cup {None}] /\ answer \in [Children -> Samples \cup {None}]
  BY DEF IInv, TypeOK
<1>1. ASSUME NEW w \in Workers, CallStarts(w) PROVE CleanNext(p)
  <2>1. proc[w] \in Procs BY <1>1, MadeAreProcs DEF IInv, HoldInv, Holds, CallStarts
  <2>2. /\ born' = born + 1 /\ pipe' = [pipe EXCEPT ![proc[w]] = born + 1]
        /\ asked' = asked /\ answer' = answer
    BY <1>1 DEF CallStarts
  <2>3. born + 1 \in Children /\ asked[born + 1] = None /\ answer[born + 1] = None
    <3>1. born' \in 0..Cardinality(Samples) BY CountPreserved
    <3>2. born + 1 \in Children BY <1>0, <2>2, <3>1, CountType DEF Children
    <3>3. QED BY <1>0, <3>2 DEF PipeInv
  <2>4. QED BY <1>0, <2>1, <2>2, <2>3 DEF Clean, CleanNext
<1>2. ASSUME pipe' = pipe, NEW w \in Workers, Write(w), proc[w] # p PROVE CleanNext(p)
  <2>1. proc[w] \in Procs BY <1>2, MadeAreProcs DEF IInv, HoldInv, Holds, Write
  <2>2. answer' = answer /\ (asked' = asked \/ (asked' = [asked EXCEPT ![pipe[proc[w]]] = sample[w]]))
    BY <1>2 DEF Write
  <2>3. pipe[p] # 0 => pipe[proc[w]] # pipe[p] BY <1>0, <1>2, <2>1 DEF PipeInv
  <2>4. QED BY <1>0, <1>2, <2>2, <2>3 DEF Clean, CleanNext
<1>3. ASSUME pipe' = pipe, NEW w \in Workers, ReadAnswer(w) PROVE CleanNext(p)
  BY <1>0, <1>3 DEF Clean, CleanNext, ReadAnswer
<1>4. ASSUME pipe' = pipe, NEW c \in Children, ChildAnswers(c) PROVE CleanNext(p)
  BY <1>0, <1>4 DEF Clean, CleanNext, ChildAnswers
<1>5. ASSUME pipe' = pipe, asked' = asked, answer' = answer PROVE CleanNext(p)
  BY <1>5 DEF Clean, CleanNext
<1>6. ASSUME pipe' = pipe, NEW w \in Workers, ReadTorn(w) PROVE CleanNext(p)
  BY <1>0, <1>6 DEF Clean, CleanNext, ReadTorn
<1>7. QED BY <1>1, <1>2, <1>3, <1>4, <1>5, <1>6, ChildFrame, ProcFrame DEF Write, ReadAnswer

LEMMA CleanPreserved ==
  ASSUME IInv, [Next]_vars
  PROVE  CleanInv'
<1>0. /\ CleanInv /\ HoldInv /\ AskInv /\ SampleInv /\ idle \in Seq(Procs) /\ made \in Nat
      /\ HoldInv' /\ PipeInv /\ PipeInv' /\ made' \in 0..Cardinality(Samples)
      /\ pipe \in [Procs -> Children \cup {0}]
      /\ asked \in [Children -> Samples \cup {None}]
      /\ answer \in [Children -> Samples \cup {None}]
      /\ result \in [Samples -> {"none", "answer", "canceled", "deadline", "failed", "unusable", "panicked"}]
  BY SMTT(30), HoldPreserved, PipePreserved, CountPreserved DEF IInv, TypeOK
<1>1. \A i \in DOMAIN idle' : CleanNext(idle'[i])
  <2>1. ASSUME NEW p \in Procs, Clean(p), \A w \in Workers : Write(w) => proc[w] # p
        PROVE CleanNext(p)
    BY <2>1, CleanMoves
  <2>2. ASSUME NEW i \in DOMAIN idle PROVE CleanNext(idle[i]) /\ idle[i] \in Procs
    <3>1. idle[i] \in Procs /\ Clean(idle[i]) BY <1>0, <2>2 DEF CleanInv
    <3>2. \A w \in Workers : Write(w) => proc[w] # idle[i]
      BY <1>0, <2>2 DEF HoldInv, ExclusiveUse, Holds, Write
    <3>3. QED BY <2>1, <3>1, <3>2
  <2>3. ASSUME NEW w \in Workers, Acquire(w) PROVE \A i \in DOMAIN idle' : CleanNext(idle'[i])
    <3>1. made' \in Nat BY <1>0, CountType
    <3>2. \A i \in DOMAIN idle' : i \in DOMAIN idle /\ idle'[i] = idle[i] BY <2>3, <3>1, AcquireHold
    <3>3. UNCHANGED <<pipe, asked, answer>> BY <2>3 DEF Acquire, procVars, childVars
    <3>4. QED BY <1>0, <3>2, <3>3 DEF CleanInv, Clean, CleanNext
  <2>4. ASSUME NEW w \in Workers, Release(w) PROVE \A i \in DOMAIN idle' : CleanNext(idle'[i])
    <3>1. UNCHANGED <<pipe, asked, answer>> BY <2>4 DEF Release
    <3>2. idle' = idle \/ (idle' = Append(idle, proc[w]) /\ Clean(proc[w]) /\ proc[w] \in Procs)
      <4>1. /\ wpc[w] = "release"
            /\ idle' = idle \/ (idle' = Append(idle, proc[w]) /\ Reusable(w))
        BY <2>4 DEF Release
      <4>2. proc[w] \in Procs BY <1>0, <4>1, MadeAreProcs DEF HoldInv, Holds
      <4>3. Reusable(w) => Clean(proc[w]) BY <1>0, <4>1 DEF CleanInv, Reusable
      <4>4. QED BY <4>1, <4>2, <4>3
    <3>3. \A i \in DOMAIN idle' : Clean(idle'[i])
      <4>1. CASE idle' = idle BY <1>0, <4>1 DEF CleanInv
      <4>2. CASE idle' = Append(idle, proc[w]) /\ Clean(proc[w]) /\ proc[w] \in Procs
        <5>1. \A i \in DOMAIN idle' : (i \in DOMAIN idle /\ idle'[i] = idle[i]) \/ idle'[i] = proc[w]
          BY <1>0, <4>2
        <5>2. QED BY <1>0, <4>2, <5>1 DEF CleanInv
      <4>3. QED BY <3>2, <4>1, <4>2
    <3>4. QED BY <3>1, <3>3 DEF Clean, CleanNext
  <2>5. QED BY <2>2, <2>3, <2>4, PoolFrame
<1>2. ASSUME NEW w \in Workers, wpc'[w] \in {"call", "write", "answered", "torn"} PROVE CleanNext(proc'[w])
  <2>1. CASE Acquire(w)
    <3>1. UNCHANGED <<pipe, asked, answer>> BY <2>1 DEF Acquire, procVars, childVars
    <3>2. CASE idle = << >>
      <4>1. proc'[w] = made + 1 /\ made' = made + 1
        BY <2>1, <3>2 DEF Acquire, IInv, TypeOK
      <4>2. proc'[w] \in Procs /\ proc'[w] > made BY <1>0, <4>1, CountType DEF Procs
      <4>3. QED BY <1>0, <3>1, <4>2 DEF PipeInv, Clean, CleanNext
    <3>3. CASE idle # << >>
      <4>1. proc'[w] = idle[Len(idle)] /\ Len(idle) \in DOMAIN idle
        BY <1>0, <2>1, <3>3 DEF Acquire, IInv, TypeOK
      <4>2. QED BY <1>0, <3>1, <4>1 DEF CleanInv, Clean, CleanNext
    <3>4. QED BY <3>2, <3>3
  <2>2. CASE ReadAnswer(w)
    <3>1. proc'[w] = proc[w] /\ pipe' = pipe /\ asked' = asked BY <2>2 DEF ReadAnswer, procVars
    <3>2. /\ answer' = [answer EXCEPT ![pipe[proc[w]]] = None] /\ answer[pipe[proc[w]]] # None
          /\ wpc[w] = "read" /\ proc[w] \in Procs
      BY <1>0, <2>2, MadeAreProcs DEF ReadAnswer, HoldInv, Holds
    <3>3. asked[pipe[proc[w]]] = None /\ pipe[proc[w]] \in Children BY <1>0, <3>2 DEF AskInv
    <3>4. QED BY <1>0, <3>1, <3>2, <3>3 DEF Clean, CleanNext
  <2>3. CASE ReadTorn(w)
    <3>1. proc'[w] = proc[w] /\ pipe' = pipe /\ answer' = answer BY <2>3 DEF ReadTorn, procVars
    <3>2. /\ asked' = [asked EXCEPT ![pipe[proc[w]]] = None] /\ asked[pipe[proc[w]]] # None
          /\ wpc[w] = "read" /\ proc[w] \in Procs
      BY <1>0, <2>3, MadeAreProcs DEF ReadTorn, HoldInv, Holds
    <3>3. answer[pipe[proc[w]]] = None /\ pipe[proc[w]] \in Children BY <1>0, <3>2 DEF AskInv
    <3>4. QED BY <1>0, <3>1, <3>2, <3>3 DEF Clean, CleanNext
  <2>4. CASE ~Acquire(w) /\ ~ReadAnswer(w) /\ ~ReadTorn(w)
    <3>0. ~Write(w) BY <1>2, WorkerSteps DEF Worker, Write
    <3>1. wpc[w] \in {"call", "write", "answered", "torn"} /\ proc'[w] = proc[w] /\ ~Write(w)
      <4>1. CASE \E v \in Workers : Worker(v)
        <5>1. PICK v \in Workers : Worker(v) BY <4>1
        <5>2. CASE v = w BY <1>2, <2>4, <5>1, <5>2, WorkerSteps DEF Write, Take, Acquire, CallRunning,
              CallStarts, CallCannotStart, ReadAnswer, ReadTorn, ReadFails, ReadTooLong, Return, Release, Closed, Finish
        <5>3. CASE v # w BY <1>2, <3>0, <5>1, <5>3, WorkerSteps
        <5>4. QED BY <5>2, <5>3
      <4>2. CASE ~\E v \in Workers : Worker(v)
        BY <1>2, <4>2, RunFrame DEF workerVars, Worker
      <4>3. QED BY <4>1, <4>2
    <3>2. Clean(proc[w]) /\ proc[w] \in Procs
      BY <1>0, <3>1, MadeAreProcs DEF CleanInv, HoldInv, Holds
    <3>3. \A v \in Workers : Write(v) => proc[v] # proc[w]
      BY <1>0, <3>1 DEF HoldInv, ExclusiveUse, Holds, Write
    <3>4. QED BY <3>1, <3>2, <3>3, CleanMoves
  <2>5. QED BY <2>1, <2>2, <2>3, <2>4
<1>3. ASSUME NEW w \in Workers, wpc'[w] = "release", result'[sample'[w]] \in {"answer", "unusable"}
      PROVE  CleanNext(proc'[w])
  <2>1. /\ proc'[w] = proc[w] /\ sample'[w] = sample[w]
        /\ \/ wpc[w] = "release" /\ result[sample[w]] \in {"answer", "unusable"}
           \/ wpc[w] \in {"answered", "torn"}
    <3>1. CASE \E v \in Workers : Worker(v)
      <4>1. PICK v \in Workers : Worker(v) BY <3>1
      <4>2. CASE v = w
        <5>1. \/ CallCannotStart(w) /\ sample'[w] = sample[w] /\ wpc[w] = "call"
              \/ /\ Return(w) /\ sample'[w] = sample[w] /\ wpc[w] \in {"answered", "torn", "failed"}
                 /\ proc'[w] = proc[w]
          BY <1>3, <4>1, <4>2, WorkerSteps
        <5>2. sample[w] \in Samples BY <1>0, <5>1 DEF SampleInv, Grading
        <5>3. ~CallCannotStart(w) BY <1>0, <1>3, <5>1, <5>2 DEF CallCannotStart
        <5>4. Outcome(w) \in {"answer", "unusable"} BY <1>0, <1>3, <5>1, <5>2, <5>3 DEF Return
        <5>5. ctx[sample[w]] \notin {"answer", "unusable"} BY <5>2 DEF IInv, TypeOK
        <5>6. wpc[w] \in {"answered", "torn"} BY <5>1, <5>3, <5>4, <5>5 DEF Outcome
        <5>7. QED BY <5>1, <5>3, <5>6
      <4>3. CASE v # w
        <5>1. /\ wpc[w] = "release" /\ proc'[w] = proc[w] /\ sample'[w] = sample[w]
          BY <1>3, <4>1, <4>3, WorkerSteps
        <5>2. wpc[v] # "idle" => sample[v] # sample[w] BY <1>0, <4>3, <5>1 DEF SampleInv, Grading
        <5>3. sample[w] \in Samples BY <1>0, <5>1 DEF SampleInv, Grading
        <5>4. result'[sample[w]] = result[sample[w]]
          BY <1>0, <4>1, <5>2, <5>3 DEF Worker, Take, Acquire, CallRunning, CallStarts, CallCannotStart,
             Write, ReadAnswer, ReadTorn, ReadFails, ReadTooLong, Return, Release, Closed, Finish, resultVars
        <5>5. QED BY <1>3, <5>1, <5>4
      <4>4. QED BY <4>2, <4>3
    <3>2. CASE ~\E v \in Workers : Worker(v)
      <4>1. UNCHANGED workerVars BY <3>2, RunFrame
      <4>2. wpc[w] = "release" /\ sample[w] \in Samples
        BY <1>0, <1>3, <4>1 DEF workerVars, SampleInv, Grading
      <4>3. result'[sample[w]] # "panicked" => result'[sample[w]] = result[sample[w]]
        BY <1>0, <3>2, <4>2, ResultFrame DEF Worker
      <4>4. QED BY <1>3, <4>1, <4>2, <4>3 DEF workerVars
    <3>3. QED BY <3>1, <3>2
  <2>2. Clean(proc[w]) /\ proc[w] \in Procs
    BY <1>0, <2>1, MadeAreProcs DEF CleanInv, HoldInv, Holds
  <2>3. \A v \in Workers : Write(v) => proc[v] # proc[w]
    BY <1>0, <2>1 DEF HoldInv, ExclusiveUse, Holds, Write
  <2>4. QED BY <2>1, <2>2, <2>3, CleanMoves
<1>4. QED BY <1>1, <1>2, <1>3 DEF CleanInv, Clean, CleanNext

-----------------------------------------------------------------------------
(* A request and its answer *)

\* The pipe of the worker that writes or reads is its alone.
LEMMA OwnPipe ==
  ASSUME IInv, NEW v \in Workers, NEW w \in Workers, Holds(v), Holds(w),
         pipe[proc[v]] = pipe[proc[w]], pipe[proc[v]] # 0
  PROVE  v = w
<1>1. proc[v] \in Procs /\ proc[w] \in Procs BY MadeAreProcs DEF IInv, HoldInv
<1>2. proc[v] = proc[w] BY <1>1 DEF IInv, PipeInv
<1>3. QED BY <1>2 DEF IInv, HoldInv, ExclusiveUse

\* What a worker that reads may find, of its own pipe.
Asked(w) ==
    LET c == pipe[proc[w]]
    IN /\ c # 0
       /\ asked[c] \in {None, sample[w]} /\ answer[c] \in {None, sample[w]}
       /\ asked[c] = None \/ answer[c] = None

LEMMA AskedStays ==
  ASSUME IInv, [Next]_vars, NEW w \in Workers, wpc[w] = "read", wpc'[w] = "read"
  PROVE  Asked(w)' /\ proc'[w] = proc[w] /\ sample'[w] = sample[w]
<1>0. /\ Asked(w) /\ proc[w] \in Procs /\ pipe[proc[w]] \in Children /\ Holds(w)
      /\ pipe \in [Procs -> Children \cup {0}]
      /\ asked \in [Children -> Samples \cup {None}] /\ answer \in [Children -> Samples \cup {None}]
  <2>1. Asked(w) /\ Holds(w) BY DEF IInv, AskInv, Asked, Holds
  <2>2. proc[w] \in Procs BY <2>1, MadeAreProcs DEF IInv, HoldInv
  <2>3. QED BY <2>1, <2>2 DEF IInv, TypeOK, Asked
<1>1. /\ proc'[w] = proc[w] /\ sample'[w] = sample[w]
      /\ \A v \in Workers : Worker(v) => v # w
  BY WorkerSteps, RunFrame DEF workerVars
<1>2. pipe'[proc[w]] = pipe[proc[w]]
  <2>1. ASSUME NEW v \in Workers, CallStarts(v) PROVE pipe'[proc[w]] = pipe[proc[w]]
    <3>1. v # w BY <2>1 DEF CallStarts
    <3>2. proc[v] # proc[w] BY <1>0, <2>1, <3>1 DEF IInv, HoldInv, ExclusiveUse, Holds, CallStarts
    <3>3. QED BY <1>0, <2>1, <3>2 DEF CallStarts
  <2>2. QED BY <2>1, ProcFrame
<1>3. CASE \E v \in Workers : Write(v)
  <2>1. PICK v \in Workers : Write(v) BY <1>3
  <2>2. pipe[proc[v]] # pipe[proc[w]]
    <3>1. v # w BY <2>1 DEF Write
    <3>2. Holds(v) BY <2>1 DEF Write, Holds
    <3>3. QED BY <1>0, <3>1, <3>2, OwnPipe DEF Children
  <2>3. asked'[pipe[proc[w]]] = asked[pipe[proc[w]]] /\ answer' = answer
    BY <1>0, <2>1, <2>2 DEF Write
  <2>4. QED BY <1>0, <1>1, <1>2, <2>3 DEF Asked
<1>4. CASE \E v \in Workers : ReadAnswer(v)
  <2>1. PICK v \in Workers : ReadAnswer(v) BY <1>4
  <2>2. asked' = asked /\ answer'[pipe[proc[w]]] \in {answer[pipe[proc[w]]], None}
    BY <1>0, <2>1 DEF ReadAnswer
  <2>3. QED BY <1>0, <1>1, <1>2, <2>2 DEF Asked
<1>5. CASE \E c \in Children : ChildAnswers(c)
  <2>1. PICK c \in Children : ChildAnswers(c) BY <1>5
  <2>2. CASE c = pipe[proc[w]]
    <3>1. asked'[c] = None /\ answer'[c] = asked[c] BY <1>0, <2>1 DEF ChildAnswers
    <3>2. QED BY <1>0, <1>1, <1>2, <2>2, <3>1 DEF Asked
  <2>3. CASE c # pipe[proc[w]]
    <3>1. asked'[pipe[proc[w]]] = asked[pipe[proc[w]]] /\ answer'[pipe[proc[w]]] = answer[pipe[proc[w]]]
      BY <1>0, <2>1, <2>3 DEF ChildAnswers
    <3>2. QED BY <1>0, <1>1, <1>2, <3>1 DEF Asked
  <2>4. QED BY <2>2, <2>3
<1>6. CASE asked' = asked /\ answer' = answer
  BY <1>0, <1>1, <1>2, <1>6 DEF Asked
<1>7. CASE \E v \in Workers : ReadTorn(v)
  <2>1. PICK v \in Workers : ReadTorn(v) BY <1>7
  <2>2. answer' = answer /\ asked'[pipe[proc[w]]] \in {asked[pipe[proc[w]]], None}
    BY <1>0, <2>1 DEF ReadTorn
  <2>3. QED BY <1>0, <1>1, <1>2, <2>2 DEF Asked
<1>8. QED BY <1>1, <1>3, <1>4, <1>5, <1>6, <1>7, ChildFrame

LEMMA AskPreserved ==
  ASSUME IInv, [Next]_vars
  PROVE  AskInv'
<1>0. /\ SampleInv /\ AskInv
      /\ pipe \in [Procs -> Children \cup {0}]
      /\ asked \in [Children -> Samples \cup {None}]
      /\ got \in [Samples -> Samples \cup {None}]
      /\ alive \subseteq 1..born
  BY DEF IInv, TypeOK
<1>1. ASSUME NEW w \in Workers, wpc'[w] = "read" PROVE Asked(w)'
  <2>1. CASE wpc[w] = "read" BY <1>1, <2>1, AskedStays
  <2>2. CASE wpc[w] # "read"
    <3>1. PICK v \in Workers : Worker(v) BY <1>1, <2>2, RunFrame DEF workerVars
    <3>2. v = w BY <1>1, <2>2, <3>1, WorkerSteps
    <3>3. Write(w) /\ wpc[w] = "write" /\ proc'[w] = proc[w] /\ sample'[w] = sample[w]
      BY <1>1, <2>2, <3>1, <3>2, WorkerSteps
    <3>4. /\ pipe[proc[w]] \in alive /\ asked' = [asked EXCEPT ![pipe[proc[w]]] = sample[w]]
      BY <1>1, <3>3 DEF Write, Move, IInv, TypeOK
    <3>5. proc[w] \in Procs BY <3>3, MadeAreProcs DEF IInv, HoldInv, Holds
    <3>6. pipe[proc[w]] \in Children /\ pipe[proc[w]] # 0
      <4>1. pipe[proc[w]] \in 1..born BY <1>0, <3>4
      <4>2. pipe[proc[w]] \in Children BY <4>1, MadeAreProcs
      <4>3. born \in Nat BY DEF IInv, TypeOK
      <4>4. QED BY ONLY <4>1, <4>2, <4>3
    <3>7. answer[pipe[proc[w]]] = None BY <3>3, <3>6 DEF IInv, CleanInv, Clean
    <3>8. pipe' = pipe /\ answer' = answer BY <3>3 DEF Write, procVars
    <3>9. QED BY <1>0, <3>3, <3>4, <3>6, <3>7, <3>8 DEF Asked
  <2>3. QED BY <2>1, <2>2
<1>2. ASSUME NEW w \in Workers, wpc'[w] = "answered" PROVE got'[sample'[w]] = sample'[w]
  <2>1. CASE wpc[w] = "answered"
    <3>1. sample'[w] = sample[w] /\ ~ReadAnswer(w)
      BY <1>2, <2>1, WorkerSteps, RunFrame DEF workerVars, ReadAnswer
    <3>2. sample[w] \in Samples BY <1>0, <2>1 DEF SampleInv, Grading
    <3>3. ASSUME NEW v \in Workers, ReadAnswer(v) PROVE got'[sample[w]] = got[sample[w]]
      <4>1. v # w /\ wpc[v] # "idle" BY <3>1, <3>3 DEF ReadAnswer
      <4>2. sample[v] # sample[w] BY <1>0, <2>1, <4>1 DEF SampleInv, Grading
      <4>3. QED BY <1>0, <3>2, <3>3, <4>2 DEF ReadAnswer
    <3>4. got'[sample[w]] = got[sample[w]] BY <3>3, RunFrame
    <3>5. QED BY <1>0, <2>1, <3>1, <3>4 DEF AskInv
  <2>2. CASE wpc[w] # "answered"
    <3>1. PICK v \in Workers : Worker(v) BY <1>2, <2>2, RunFrame DEF workerVars
    <3>2. v = w BY <1>2, <2>2, <3>1, WorkerSteps
    <3>3. ReadAnswer(w) /\ wpc[w] = "read" /\ sample'[w] = sample[w]
      BY <1>2, <2>2, <3>1, <3>2, WorkerSteps
    <3>4. sample[w] \in Samples BY <1>0, <3>3 DEF SampleInv, Grading
    <3>5. answer[pipe[proc[w]]] = sample[w] BY <1>0, <3>3 DEF AskInv, ReadAnswer
    <3>6. QED BY <1>0, <3>3, <3>4, <3>5 DEF ReadAnswer
  <2>3. QED BY <2>1, <2>2
<1>3. QED BY <1>1, <1>2 DEF AskInv, Asked

LEMMA OwnPreserved ==
  ASSUME IInv, [Next]_vars
  PROVE  AnswerIsOwn'
<1>0. /\ SampleInv /\ AskInv /\ AnswerIsOwn
      /\ result \in [Samples -> {"none", "answer", "canceled", "deadline", "failed", "unusable", "panicked"}]
      /\ got \in [Samples -> Samples \cup {None}]
  BY DEF IInv, TypeOK
<1>1. \A s \in Samples : got'[s] \in {None, s} /\ (got[s] = s => got'[s] = s)
  <2>1. ASSUME NEW w \in Workers, ReadAnswer(w), NEW s \in Samples
        PROVE got'[s] \in {None, s} /\ (got[s] = s => got'[s] = s)
    <3>1. answer[pipe[proc[w]]] = sample[w] BY <1>0, <2>1 DEF AskInv, ReadAnswer
    <3>2. got' = [got EXCEPT ![sample[w]] = sample[w]] BY <2>1, <3>1 DEF ReadAnswer
    <3>3. QED BY <1>0, <3>2 DEF AnswerIsOwn
  <2>2. QED BY <1>0, <2>1, RunFrame DEF AnswerIsOwn
<1>2. ASSUME NEW s \in Samples, result'[s] = "answer" PROVE got'[s] = s
  <2>1. CASE result[s] = "answer" BY <1>0, <1>1, <2>1 DEF AnswerIsOwn
  <2>2. CASE result[s] # "answer"
    <3>1. PICK w \in Workers : CallCannotStart(w) \/ Return(w)
      BY <1>0, <1>2, <2>2, ResultFrame
    <3>2. sample[w] = s /\ ~CallCannotStart(w)
      BY <1>0, <1>2, <2>2, <3>1 DEF CallCannotStart, Return
    <3>3. Return(w) /\ Outcome(w) = "answer" BY <1>0, <1>2, <3>1, <3>2 DEF Return
    <3>4. ctx[s] # "answer" BY DEF IInv, TypeOK
    <3>5. wpc[w] = "answered" BY <3>2, <3>3, <3>4 DEF Outcome
    <3>6. QED BY <1>0, <1>1, <3>2, <3>5 DEF AskInv
  <2>3. QED BY <2>1, <2>2
<1>3. QED BY <1>1, <1>2 DEF AnswerIsOwn

-----------------------------------------------------------------------------
(* The theorems *)

LEMMA InductiveInv ==
  ASSUME IInv, [Next]_vars
  PROVE  IInv'
<1>1. KillInv' BY KillTypes, WatcherTypes DEF KillInv
<1>2. CountInv' BY CountPreserved
<1>3. QED BY <1>1, <1>2, TypePreserved, SamplePreserved, HoldPreserved, PipePreserved, CleanPreserved,
             AskPreserved, OwnPreserved DEF IInv

LEMMA InvHolds == Spec => []IInv
  BY InitInv, InductiveInv, PTL DEF Spec

\* Every variable keeps its type: in particular no more Processes and children are made
\* than there are samples, although nothing in Pool.Acquire or ensureStarted counts them.
THEOREM TypeCorrect == Spec => []TypeOK
<1>1. IInv => TypeOK BY DEF IInv
<1>2. QED BY <1>1, InvHolds, PTL

\* Pool.Acquire and Release: a Process serves one sample at a time, is never both idle and
\* in use, and once closed goes to nobody (subprocess.go:51-53, :250-251).
THEOREM OneUserPerProcess == Spec => []ExclusiveUse
<1>1. IInv => ExclusiveUse BY DEF IInv, HoldInv
<1>2. QED BY <1>1, InvHolds, PTL

\* Call and Release: no sample is given the answer to another one, although an abandoned
\* request may still be answered and a watcher may kill a Process it no longer serves
\* (subprocess.go:84-86, :292-296, stdiojsonl.go:75-77).
THEOREM OwnVerdicts == Spec => []AnswerIsOwn
<1>1. IInv => AnswerIsOwn BY DEF IInv
<1>2. QED BY <1>1, InvHolds, PTL

-----------------------------------------------------------------------------
(* Causes: what the refinement of GraderCalls needs beside IInv *)

\* Every outcome has its cause, and every killer its place.
CauseInv ==
    /\ \A s \in Samples : ctx[s] = "deadline" => HasTimeout
    /\ \A s \in Samples : ctx[s] = "canceled" /\ s \in todo \cup InHand => stopped
    /\ \A s \in Samples : /\ result[s] = "canceled" => stopped
                          /\ result[s] = "deadline" => HasTimeout
    /\ \A s \in todo : result[s] = "none"
    /\ \A w \in Workers : wpc[w] \in {"release", "close", "finish"} => result[sample[w]] # "none"

PlaceInv ==
    /\ \A w \in Workers : killing[w] # "no" => wpc[w] = "close" /\ target[w] = proc[w]
    /\ killing[Closer] # "no" => RunOver
    /\ \A p \in Procs : cmd[p] \in {0, pipe[p]}

\* As long as no context ends only workers and the closer kill, each a Process that nobody
\* else has, so that none of them finds its child gone.
Calm == ~stopped /\ ~HasTimeout

CalmInv ==
    Calm => /\ ~crashed
            /\ \A s \in Samples : /\ ctx[s] = "open" /\ result[s] # "panicked"
                                  /\ watcher[s] # "killing" /\ killing[s] = "no"
            /\ \A k \in Killers : killing[k] # "no" => cmd[target[k]] # 0

\* If the children stay up too, then the child of a Process that is not closed is there and
\* takes requests.
SturdyInv ==
    Calm /\ Faults = {} =>
        /\ \A p \in Procs : p \notin shut /\ cmd[p] # 0 => pipe[p] \in alive \cap stdinOpen
        /\ \A w \in Workers : wpc[w] \in {"write", "read"} => cmd[proc[w]] # 0
        /\ \A w \in Workers : wpc[w] \notin {"torn", "failed"}
        /\ \A s \in Samples : result[s] \notin {"unusable", "failed"}
        /\ \A k \in Killers : killing[k] # "no" => target[k] \in shut

GInv == CauseInv /\ PlaceInv /\ CalmInv /\ SturdyInv

-----------------------------------------------------------------------------

\* What becomes of a killer, and what it changes on the way.
LEMMA KillMoves ==
  ASSUME IInv, NEW k \in Killers, KillStep(k)
  PROVE  /\ UNCHANGED <<workerVars, todo, stopped, ctx, got, watchVars, target, pipe, shut, born, stdinOpen>>
         /\ killing[k] # "no"
         /\ \E at \in {"no", "wait", "clear"} : killing' = [killing EXCEPT ![k] = at]
         /\ \/ /\ cmd' = cmd /\ UNCHANGED <<result, crashed>>
               /\ alive' = alive \/ alive' = alive \ {cmd[target[k]]}
            \/ /\ Clear(k) /\ cmd' = [cmd EXCEPT ![target[k]] = 0] /\ killing'[k] = "no"
               /\ UNCHANGED <<result, crashed, alive>>
            \/ /\ cmd' = cmd /\ cmd[target[k]] = 0 /\ Panic(k) /\ alive' = alive
<1> killing \in [Killers -> {"no", "kill", "wait", "clear"}] BY DEF IInv, TypeOK
<1>1. CASE Kill(k) BY <1>1 DEF Kill, Panic, workerVars, runVars, watchVars, procVars, resultVars
<1>2. CASE Wait(k) BY <1>2 DEF Wait, Panic, workerVars, runVars, watchVars, procVars, resultVars
<1>3. CASE Clear(k)
  BY <1>3 DEF Clear, workerVars, runVars, watchVars, procVars, childVars, resultVars
<1>4. QED BY <1>1, <1>2, <1>3 DEF KillStep

\* The samples in hand come from those that nobody had begun, and go for good.
LEMMA HandMoves ==
  ASSUME IInv, [Next]_vars
  PROVE  /\ todo' \subseteq todo
         /\ todo' \cup InHand' \subseteq todo \cup InHand
         /\ \A w \in Workers : Finish(w) => sample[w] \notin todo' \cup InHand'
         /\ stopped => stopped'
<1>0. SampleInv BY DEF IInv
<1>1. stopped => stopped' BY RunFrame
<1>2. CASE \E w \in Workers : Worker(w)
  <2>1. PICK w \in Workers : Worker(w) BY <1>2
  <2>2. \A v \in Workers \ {w} : wpc'[v] = wpc[v] /\ sample'[v] = sample[v] BY <2>1, WorkerSteps
  <2>3. \A v \in Workers : Finish(v) => wpc[v] = "finish" /\ wpc'[v] = "idle"
    BY DEF Finish, Move, IInv, TypeOK
  <2>4. CASE Take(w) /\ wpc[w] = "idle" /\ wpc'[w] = "acquire" /\ sample'[w] \in todo
             /\ todo' = todo \ {sample'[w]}
    BY <1>0, <1>1, <2>2, <2>3, <2>4 DEF InHand, Busy
  <2>5. CASE todo' = todo /\ wpc[w] # "idle" /\ sample'[w] = sample[w] /\ wpc'[w] # "idle"
    BY <1>1, <2>2, <2>3, <2>5 DEF InHand, Busy
  <2>6. CASE Finish(w) /\ todo' = todo /\ wpc[w] = "finish" /\ wpc'[w] = "idle"
    <3>1. \A v \in Workers : Finish(v) => v = w BY <2>2, <2>3
    <3>2. sample[w] \notin todo /\ \A v \in Workers \ {w} : wpc[v] # "idle" => sample[v] # sample[w]
      BY <1>0, <2>6 DEF SampleInv, Grading
    <3>3. QED BY <1>1, <2>2, <2>6, <3>1, <3>2 DEF InHand, Busy
  <2>7. QED BY <2>1, <2>4, <2>5, <2>6, WorkerSteps
<1>3. CASE ~\E w \in Workers : Worker(w)
  <2>1. UNCHANGED workerVars /\ todo' = todo BY <1>3, RunFrame DEF Worker
  <2>2. \A w \in Workers : ~Finish(w) BY <1>3 DEF Worker
  <2>3. QED BY <1>1, <2>1, <2>2 DEF InHand, Busy, workerVars
<1>4. QED BY <1>2, <1>3

LEMMA OutcomeIs ==
  ASSUME IInv, NEW w \in Workers, Return(w)
  PROVE  /\ sample[w] \in InHand \cap Samples /\ sample[w] \notin todo
         /\ \/ Outcome(w) = "answer" /\ wpc[w] = "answered"
            \/ Outcome(w) \in {"canceled", "deadline"} /\ Outcome(w) = ctx[sample[w]] /\ wpc[w] = "failed"
            \/ Outcome(w) = "unusable" /\ wpc[w] = "torn"
            \/ Outcome(w) = "failed" /\ wpc[w] = "failed"
<1>1. wpc[w] \in {"answered", "torn", "failed"} BY DEF Return
<1>2. sample[w] \in Samples \ todo BY <1>1 DEF IInv, SampleInv, Grading
<1>3. ctx[sample[w]] \in {"open", "canceled", "deadline"} BY <1>2 DEF IInv, TypeOK
<1>4. QED BY <1>1, <1>2, <1>3 DEF Outcome, InHand, Busy

\* Who writes what a sample's Grade came to, and that it is one in somebody's hands.
LEMMA ResultMoves ==
  ASSUME IInv, PlaceInv, [Next]_vars
  PROVE  \/ result' = result
         \/ \E w \in Workers, r \in {"answer", "canceled", "deadline", "failed", "unusable", "panicked"} :
               /\ sample[w] \in InHand \cap Samples /\ sample[w] \notin todo
               /\ result' = [result EXCEPT ![sample[w]] = r]
               /\ \/ CallCannotStart(w) /\ r = "failed"
                  \/ Return(w) /\ r = Outcome(w)
                  \/ KillStep(w) /\ r = "panicked" /\ wpc[w] = "close" /\ cmd[target[w]] = 0
<1>1. CASE \E w \in Workers : CallCannotStart(w)
  <2>1. PICK w \in Workers : CallCannotStart(w) BY <1>1
  <2>2. sample[w] \in InHand \cap Samples /\ sample[w] \notin todo
        /\ result' = [result EXCEPT ![sample[w]] = "failed"]
    BY <2>1 DEF CallCannotStart, IInv, SampleInv, Grading, InHand, Busy
  <2>3. QED BY <2>1, <2>2
<1>2. CASE \E w \in Workers : Return(w)
  <2>1. PICK w \in Workers : Return(w) BY <1>2
  <2>2. result' = [result EXCEPT ![sample[w]] = Outcome(w)] BY <2>1 DEF Return
  <2>3. QED BY <2>1, <2>2, OutcomeIs
<1>3. CASE \E k \in Killers : KillStep(k)
  <2>1. PICK k \in Killers : KillStep(k) BY <1>3
  <2>2. CASE result' = result BY <2>2
  <2>3. CASE result' # result
    <3>1. Panic(k) /\ cmd[target[k]] = 0 /\ killing[k] # "no" BY <2>1, <2>3, KillMoves
    <3>2. k \in Workers /\ result' = [result EXCEPT ![sample[k]] = "panicked"]
      BY <2>3, <3>1 DEF Panic
    <3>3. wpc[k] = "close" BY <3>1, <3>2 DEF PlaceInv
    <3>4. sample[k] \in InHand \cap Samples /\ sample[k] \notin todo
      BY <3>2, <3>3 DEF IInv, SampleInv, Grading, InHand, Busy
    <3>5. QED BY <2>1, <3>1, <3>2, <3>3, <3>4
  <2>4. QED BY <2>2, <2>3
<1>4. CASE ~(\E w \in Workers : CallCannotStart(w) \/ Return(w)) /\ ~\E k \in Killers : KillStep(k)
  BY <1>4 DEF Next, Worker, Watcher, Stop, TimeOut, Take, Acquire, CallRunning, CallStarts,
     Write, ReadAnswer, ReadTorn, ReadFails, ReadTooLong, Release, Closed, Finish, WatcherKills, WatcherEnds,
     ClosePool, ChildAnswers, ChildCrashes, Terminating, vars, resultVars
<1>5. QED BY <1>1, <1>2, <1>3, <1>4

LEMMA CausePreserved ==
  ASSUME IInv, CauseInv, PlaceInv, [Next]_vars
  PROVE  CauseInv'
<1>0. /\ ctx \in [Samples -> {"open", "canceled", "deadline"}]
      /\ result \in [Samples -> {"none", "answer", "canceled", "deadline", "failed", "unusable", "panicked"}]
      /\ sample \in [Workers -> Samples \cup {None}]
      /\ todo \subseteq Samples
  BY DEF IInv, TypeOK
<1>1. \A s \in Samples : /\ ctx'[s] = "deadline" => HasTimeout
                         /\ ctx'[s] = "canceled" /\ s \in (todo \cup InHand)' => stopped'
  <2>1. CASE ctx' = ctx BY <2>1, HandMoves DEF CauseInv
  <2>2. CASE Stop BY <1>0, <2>2 DEF Stop, CauseInv
  <2>3. ASSUME NEW w \in Workers, TimeOut(w)
        PROVE \A s \in Samples : /\ ctx'[s] = "deadline" => HasTimeout
                                 /\ ctx'[s] = "canceled" /\ s \in (todo \cup InHand)' => stopped'
    BY <1>0, <2>3, HandMoves DEF TimeOut, CauseInv
  <2>4. ASSUME NEW w \in Workers, Finish(w)
        PROVE \A s \in Samples : /\ ctx'[s] = "deadline" => HasTimeout
                                 /\ ctx'[s] = "canceled" /\ s \in (todo \cup InHand)' => stopped'
    <3>1. sample[w] \notin (todo \cup InHand)' BY <2>4, HandMoves
    <3>2. \A s \in Samples : s # sample[w] => ctx'[s] = ctx[s] BY <1>0, <2>4 DEF Finish
    <3>3. ctx'[sample[w]] \in {ctx[sample[w]], "canceled"}
      BY <1>0, <2>4 DEF Finish, IInv, SampleInv, Grading
    <3>4. QED BY <3>1, <3>2, <3>3, HandMoves DEF CauseInv
  <2>5. QED BY <2>1, <2>2, <2>3, <2>4, ContextFrame
<1>2. \A s \in Samples : /\ result'[s] = "canceled" => stopped'
                         /\ result'[s] = "deadline" => HasTimeout
  <2>1. CASE result' = result BY <2>1, HandMoves DEF CauseInv
  <2>2. ASSUME NEW w \in Workers, NEW r \in {"answer", "canceled", "deadline", "failed", "unusable", "panicked"},
               sample[w] \in InHand \cap Samples, result' = [result EXCEPT ![sample[w]] = r],
               \/ r \in {"failed", "panicked"}
               \/ Return(w) /\ r = Outcome(w)
        PROVE \A s \in Samples : /\ result'[s] = "canceled" => stopped'
                                 /\ result'[s] = "deadline" => HasTimeout
    <3>1. \/ r \notin {"canceled", "deadline"} \/ ctx[sample[w]] = r BY <2>2, OutcomeIs
    <3>2. (r = "canceled" => stopped) /\ (r = "deadline" => HasTimeout)
      BY <2>2, <3>1 DEF CauseInv
    <3>3. QED BY <1>0, <2>2, <3>2, HandMoves DEF CauseInv
  <2>3. QED BY <2>1, <2>2, ResultMoves
<1>3. \A s \in todo' : result'[s] = "none"
  <2>1. todo' \subseteq todo BY HandMoves
  <2>2. \A s \in todo : result'[s] = result[s] BY <1>0, ResultMoves
  <2>3. QED BY <2>1, <2>2 DEF CauseInv
<1>4. ASSUME NEW w \in Workers, wpc'[w] \in {"release", "close", "finish"}
      PROVE  result'[sample'[w]] # "none"
  <2>1. CASE \E v \in Workers : Worker(v)
    <3>1. PICK v \in Workers : Worker(v) BY <2>1
    <3>2. sample'[w] = sample[w] BY <1>4, <3>1, WorkerSteps
    <3>3. \/ wpc[w] \in {"release", "close", "finish"}
          \/ CallCannotStart(w) \/ Return(w)
      BY <1>4, <3>1, WorkerSteps
    <3>4. CASE wpc[w] \in {"release", "close", "finish"}
      <4>1. sample[w] \in Samples /\ result[sample[w]] # "none"
        BY <3>4 DEF IInv, SampleInv, Grading, CauseInv
      <4>2. QED BY <1>0, <3>2, <4>1, ResultMoves
    <3>5. CASE CallCannotStart(w)
      BY <1>0, <3>2, <3>5 DEF CallCannotStart, IInv, SampleInv, Grading
    <3>6. CASE Return(w)
      <4>1. Outcome(w) # "none" /\ sample[w] \in Samples BY <3>6, OutcomeIs
      <4>2. result' = [result EXCEPT ![sample[w]] = Outcome(w)] BY <3>6 DEF Return
      <4>3. QED BY <1>0, <3>2, <4>1, <4>2
    <3>7. QED BY <3>3, <3>4, <3>5, <3>6
  <2>2. CASE ~\E v \in Workers : Worker(v)
    <3>1. UNCHANGED workerVars BY <2>2, RunFrame
    <3>2. sample'[w] = sample[w] /\ wpc[w] \in {"release", "close", "finish"}
      BY <1>4, <3>1 DEF workerVars
    <3>3. sample[w] \in Samples /\ result[sample[w]] # "none"
      BY <3>2 DEF IInv, SampleInv, Grading, CauseInv
    <3>4. QED BY <1>0, <3>2, <3>3, ResultMoves
  <2>3. QED BY <2>1, <2>2
<1>5. QED BY <1>1, <1>2, <1>3, <1>4 DEF CauseInv

LEMMA PlacePreserved ==
  ASSUME IInv, PlaceInv, [Next]_vars
  PROVE  PlaceInv'
<1>0. /\ killing \in [Killers -> {"no", "kill", "wait", "clear"}]
      /\ target \in [Killers -> Procs \cup {0}]
      /\ cmd \in [Procs -> Children \cup {0}] /\ pipe \in [Procs -> Children \cup {0}]
      /\ Workers \subseteq Killers /\ Closer \in Killers
  BY DEF IInv, TypeOK, Killers
<1>1. ASSUME NEW w \in Workers, Worker(w), ~Release(w) PROVE UNCHANGED <<killing, target>>
  BY <1>1 DEF Worker, Take, Acquire, CallRunning, CallStarts, CallCannotStart, Write, ReadAnswer,
              ReadTorn, ReadFails, ReadTooLong, Return, Closed, Finish, killVars
<1>2. ASSUME NEW w \in Workers, killing'[w] # "no"
      PROVE  wpc'[w] = "close" /\ target'[w] = proc'[w]
  <2>1. CASE \E v \in Workers : Worker(v)
    <3>1. PICK v \in Workers : Worker(v) BY <2>1
    <3>2. CASE killing'[w] = killing[w] /\ target'[w] = target[w]
      <4>1. wpc[w] = "close" /\ target[w] = proc[w] BY <1>2, <3>2 DEF PlaceInv
      <4>2. wpc'[w] = "close" /\ proc'[w] = proc[w]
        BY <1>2, <3>1, <3>2, <4>1, WorkerSteps DEF Closed
      <4>3. QED BY <3>2, <4>1, <4>2
    <3>3. CASE Release(v)
      <4>1. \/ UNCHANGED <<killing, target>>
            \/ EnterKill(v, proc[v]) /\ wpc'[v] = "close" /\ proc'[v] = proc[v]
        BY <3>3 DEF Release, Move, killVars, IInv, TypeOK
      <4>2. CASE w = v /\ EnterKill(v, proc[v]) /\ wpc'[v] = "close" /\ proc'[v] = proc[v]
        BY <1>0, <4>2 DEF EnterKill
      <4>3. CASE w # v /\ EnterKill(v, proc[v]) BY <1>0, <3>2, <4>3 DEF EnterKill
      <4>4. QED BY <3>2, <4>1, <4>2, <4>3
    <3>4. QED BY <1>1, <3>1, <3>2, <3>3
  <2>2. CASE ~\E v \in Workers : Worker(v)
    <3>1. UNCHANGED <<wpc, proc>> BY <2>2, RunFrame DEF workerVars
    <3>2. ASSUME NEW k \in Killers, target' = target, NEW at \in {"no", "wait", "clear"},
                 killing[k] # "no", killing' = [killing EXCEPT ![k] = at]
          PROVE  killing[w] # "no" /\ target'[w] = target[w]
      BY <1>0, <1>2, <3>2
    <3>3. \A v \in Workers : ~Release(v) BY <2>2 DEF Worker
    <3>4. ASSUME ClosePool PROVE killing'[w] = killing[w] /\ target'[w] = target[w]
      BY <1>0, <3>4, CloserAssumption DEF ClosePool, EnterKill
    <3>5. ASSUME NEW s \in Samples, WatcherKills(s)
          PROVE killing'[w] = killing[w] /\ target'[w] = target[w]
      BY <1>0, <3>5, SamplesAssumption DEF WatcherKills, EnterKill
    <3>6. killing[w] # "no" /\ target'[w] = target[w]
      BY <1>2, <3>2, <3>3, <3>4, <3>5, KillFrame
    <3>7. QED BY <1>2, <3>1, <3>6 DEF PlaceInv
  <2>3. QED BY <2>1, <2>2
<1>3. ASSUME killing'[Closer] # "no" PROVE RunOver'
  <2>1. RunOver
    <3>1. CASE killing[Closer] # "no" BY <3>1 DEF PlaceInv
    <3>2. CASE ClosePool BY <3>2 DEF ClosePool
    <3>3. ASSUME NEW w \in Workers, Release(w) PROVE killing[Closer] # "no"
      BY <1>0, <1>3, <3>3, CloserAssumption DEF Release, EnterKill, killVars
    <3>4. ASSUME NEW s \in Samples, WatcherKills(s) PROVE killing[Closer] # "no"
      BY <1>0, <1>3, <3>4, CloserAssumption DEF WatcherKills, EnterKill
    <3>5. QED BY <1>0, <1>3, <3>1, <3>2, <3>3, <3>4, KillFrame
  <2>2. QED BY <2>1, OverForGood
<1>4. \A p \in Procs : cmd'[p] \in {0, pipe'[p]}
  <2>1. ASSUME NEW w \in Workers, CallStarts(w) PROVE \A p \in Procs : cmd'[p] \in {0, pipe'[p]}
    BY <1>0, <2>1 DEF CallStarts, PlaceInv
  <2>2. ASSUME NEW k \in Killers, Clear(k), pipe' = pipe PROVE \A p \in Procs : cmd'[p] \in {0, pipe'[p]}
    BY <1>0, <2>2 DEF Clear, PlaceInv
  <2>3. QED BY <2>1, <2>2, ProcFrame DEF PlaceInv
<1>5. QED BY <1>2, <1>3, <1>4 DEF PlaceInv

\* Nobody else kills the Process that k is killing.
LEMMA OneKiller ==
  ASSUME IInv, PlaceInv, CalmInv, Calm, NEW j \in Killers, NEW k \in Killers,
         killing[j] # "no", killing[k] # "no", target[j] = target[k]
  PROVE  j = k
<1>1. \A i \in Killers : killing[i] # "no" =>
          \/ i = Closer /\ RunOver
          \/ i \in Workers /\ Holds(i) /\ ~RunOver /\ target[i] = proc[i]
  BY DEF Killers, PlaceInv, CalmInv, Holds, RunOver
<1>2. ExclusiveUse BY DEF IInv, HoldInv
<1>3. QED BY <1>1, <1>2 DEF ExclusiveUse

LEMMA CalmStays ==
  ASSUME IInv, CalmInv, [Next]_vars, Calm'
  PROVE  /\ Calm /\ ctx' = ctx
         /\ \A s \in Samples : ~WatcherKills(s)
<1>1. Calm BY RunFrame DEF Calm
<1>2. ctx' = ctx BY <1>1, ContextFrame DEF Calm, Stop, TimeOut, Finish
<1>3. QED BY <1>1, <1>2 DEF CalmInv, WatcherKills

LEMMA CalmPreserved ==
  ASSUME IInv, PlaceInv, CalmInv, [Next]_vars
  PROVE  CalmInv'
<1> SUFFICES ASSUME Calm'
             PROVE  /\ ~crashed'
                    /\ \A s \in Samples : /\ ctx'[s] = "open" /\ result'[s] # "panicked"
                                          /\ watcher'[s] # "killing" /\ killing'[s] = "no"
                    /\ \A k \in Killers : killing'[k] # "no" => cmd'[target'[k]] # 0
  BY DEF CalmInv, Calm
<1>0. /\ killing \in [Killers -> {"no", "kill", "wait", "clear"}]
      /\ target \in [Killers -> Procs \cup {0}]
      /\ cmd \in [Procs -> Children \cup {0}]
      /\ result \in [Samples -> {"none", "answer", "canceled", "deadline", "failed", "unusable", "panicked"}]
      /\ watcher \in [Samples -> {"none", "waiting", "killing", "gone"}]
      /\ Workers \subseteq Killers /\ Closer \in Killers /\ Samples \subseteq Killers
      /\ Workers \cap Samples = {} /\ Closer \notin Samples
      /\ \A k \in Killers : killing[k] # "no" => target[k] \in Procs
  BY SamplesAssumption, CloserAssumption DEF IInv, TypeOK, Killers, KillInv
<1>1. Calm /\ ctx' = ctx /\ \A s \in Samples : ~WatcherKills(s) BY CalmStays
<1>2. /\ ~crashed
      /\ \A s \in Samples : /\ ctx[s] = "open" /\ result[s] # "panicked"
                            /\ watcher[s] # "killing" /\ killing[s] = "no"
      /\ \A k \in Killers : killing[k] # "no" => cmd[target[k]] # 0
  BY <1>1 DEF CalmInv
<1>3. ASSUME NEW k \in Killers, KillStep(k)
      PROVE  UNCHANGED <<result, crashed>>
  BY <1>2, <1>3, KillMoves
<1>4. ~crashed'
  <2>1. CASE \E k \in Killers : KillStep(k) BY <1>2, <1>3, <2>1
  <2>2. CASE ~\E k \in Killers : KillStep(k)
    <3>1. crashed' = crashed
      BY <2>2 DEF Next, Worker, Watcher, Stop, TimeOut, Take, Acquire, CallRunning, CallStarts,
         CallCannotStart, Write, ReadAnswer, ReadTorn, ReadFails, ReadTooLong, Return, Release, Closed, Finish,
         WatcherKills, WatcherEnds, ClosePool, ChildAnswers, ChildCrashes, Terminating, vars, resultVars
    <3>2. QED BY <1>2, <3>1
  <2>3. QED BY <2>1, <2>2
<1>5. \A s \in Samples : result'[s] # "panicked"
  <2>1. ASSUME NEW w \in Workers, NEW r \in {"answer", "canceled", "deadline", "failed", "unusable", "panicked"},
               result' = [result EXCEPT ![sample[w]] = r],
               \/ CallCannotStart(w) /\ r = "failed"
               \/ Return(w) /\ r = Outcome(w)
               \/ KillStep(w)
        PROVE  \A s \in Samples : result'[s] # "panicked"
    <3>1. CASE KillStep(w) BY <1>0, <1>2, <1>3, <3>1
    <3>2. CASE r # "panicked" BY <1>0, <1>2, <2>1, <3>2
    <3>3. Return(w) => Outcome(w) # "panicked" BY <1>0, OutcomeIs
    <3>4. QED BY <2>1, <3>1, <3>2, <3>3
  <2>2. QED BY <1>2, <2>1, ResultMoves
<1>6. \A s \in Samples : watcher'[s] # "killing"
  <2>1. \/ watcher' = watcher
        \/ \E w \in Workers : watcher' = [watcher EXCEPT ![sample[w]] = "waiting"]
        \/ \E s \in Samples : watcher' = [watcher EXCEPT ![s] = "gone"]
    BY <1>1 DEF Next, Worker, KillStep, Stop, TimeOut, Take, Acquire, CallRunning, CallStarts, Watch,
         CallCannotStart, Write, ReadAnswer, ReadTorn, ReadFails, ReadTooLong, Return, Release, Closed, Finish,
         Kill, Wait, Clear, ClosePool, ChildAnswers, ChildCrashes, Terminating, vars, watchVars,
         Watcher, WatcherEnds
  <2>2. QED BY <1>0, <1>2, <2>1
<1>7. ASSUME NEW j \in Killers, NEW p \in Procs, EnterKill(j, p), cmd' = cmd, j \notin Samples
      PROVE  /\ \A s \in Samples : killing'[s] = "no"
             /\ \A k \in Killers : killing'[k] # "no" => cmd'[target'[k]] # 0
  BY <1>0, <1>2, <1>7 DEF EnterKill
<1>8. /\ \A s \in Samples : killing'[s] = "no"
      /\ \A k \in Killers : killing'[k] # "no" => cmd'[target'[k]] # 0
  <2>1. CASE \E w \in Workers : Release(w) /\ EnterKill(w, proc[w])
    <3>1. PICK w \in Workers : Release(w) /\ EnterKill(w, proc[w]) BY <2>1
    <3>2. proc[w] \in Procs BY <3>1, MadeAreProcs DEF IInv, HoldInv, Holds, Release
    <3>3. cmd' = cmd BY <3>1 DEF Release
    <3>4. QED BY <1>0, <1>7, <3>1, <3>2, <3>3
  <2>2. CASE ClosePool
    <3>1. PICK p \in 1..made : EnterKill(Closer, p) BY <2>2 DEF ClosePool
    <3>2. p \in Procs /\ cmd' = cmd BY <2>2, MadeAreProcs DEF ClosePool
    <3>3. QED BY <1>0, <1>7, <3>1, <3>2
  <2>3. CASE \E k \in Killers : KillStep(k)
    <3>1. PICK j \in Killers : KillStep(j) BY <2>3
    <3>2. /\ target' = target /\ killing[j] # "no"
          /\ \E at \in {"no", "wait", "clear"} : killing' = [killing EXCEPT ![j] = at]
          /\ \/ cmd' = cmd
             \/ cmd' = [cmd EXCEPT ![target[j]] = 0] /\ killing'[j] = "no"
      BY <3>1, KillMoves
    <3>3. \A s \in Samples : killing'[s] = "no" BY <1>0, <1>2, <3>2
    <3>4. \A k \in Killers : killing'[k] # "no" => killing[k] # "no" BY <1>0, <3>2
    <3>5. ASSUME NEW k \in Killers, killing'[k] # "no" PROVE cmd'[target'[k]] # 0
      <4>1. CASE cmd' = cmd BY <1>2, <3>2, <3>4, <3>5, <4>1
      <4>2. CASE cmd' = [cmd EXCEPT ![target[j]] = 0] /\ killing'[j] = "no"
        <5>1. target[k] # target[j] BY <1>1, <3>2, <3>4, <3>5, <4>2, OneKiller
        <5>2. QED BY <1>0, <1>2, <3>2, <3>4, <3>5, <4>2, <5>1
      <4>3. QED BY <3>2, <4>1, <4>2
    <3>6. QED BY <3>3, <3>5
  <2>4. CASE UNCHANGED <<killing, target>> /\ ~\E k \in Killers : KillStep(k)
    <3>1. ASSUME NEW w \in Workers, CallStarts(w)
          PROVE \A k \in Killers : killing[k] # "no" => cmd'[target[k]] # 0
      <4>1. cmd' = [cmd EXCEPT ![proc[w]] = born + 1] /\ born \in Nat
        BY <3>1 DEF CallStarts, IInv, TypeOK
      <4>2. QED BY <1>0, <1>2, <4>1
    <3>2. cmd' = cmd \/ \E w \in Workers : CallStarts(w) BY <2>4, ProcFrame DEF KillStep
    <3>3. QED BY <1>2, <2>4, <3>1, <3>2
  <2>5. \/ UNCHANGED <<killing, target>> \/ (\E w \in Workers : Release(w) /\ EnterKill(w, proc[w]))
        \/ ClosePool \/ \E k \in Killers : KillStep(k)
    BY <1>1 DEF Next, Worker, Stop, TimeOut, Take, Acquire, CallRunning, CallStarts,
         CallCannotStart, Write, ReadAnswer, ReadTorn, ReadFails, ReadTooLong, Return, Release, Closed, Finish,
         ChildAnswers, ChildCrashes, Terminating, vars, killVars, Watcher, WatcherEnds
  <2>6. QED BY <2>1, <2>2, <2>3, <2>4, <2>5
<1>9. QED BY <1>1, <1>2, <1>4, <1>5, <1>6, <1>8

LEMMA SturdyPreserved ==
  ASSUME IInv, CauseInv, PlaceInv, CalmInv, SturdyInv, [Next]_vars
  PROVE  SturdyInv'
<1> SUFFICES ASSUME Calm', Faults = {}
             PROVE  /\ \A p \in Procs : p \notin shut' /\ cmd'[p] # 0 =>
                                            pipe'[p] \in alive' \cap stdinOpen'
                    /\ \A w \in Workers : wpc'[w] \in {"write", "read"} => cmd'[proc'[w]] # 0
                    /\ \A w \in Workers : wpc'[w] \notin {"torn", "failed"}
                    /\ \A s \in Samples : result'[s] \notin {"unusable", "failed"}
                    /\ \A k \in Killers : killing'[k] # "no" => target'[k] \in shut'
  BY DEF SturdyInv, Calm
<1>0. /\ killing \in [Killers -> {"no", "kill", "wait", "clear"}]
      /\ target \in [Killers -> Procs \cup {0}]
      /\ cmd \in [Procs -> Children \cup {0}] /\ pipe \in [Procs -> Children \cup {0}]
      /\ result \in [Samples -> {"none", "answer", "canceled", "deadline", "failed", "unusable", "panicked"}]
      /\ proc \in [Workers -> Procs \cup {0}] /\ born \in Nat
      /\ alive \subseteq 1..born /\ stdinOpen \subseteq 1..born
      /\ Workers \subseteq Killers /\ Closer \in Killers
      /\ \A k \in Killers : killing[k] # "no" => target[k] \in Procs
  BY DEF IInv, TypeOK, Killers, KillInv
<1>1. Calm /\ (\A s \in Samples : ctx[s] = "open" /\ ~WatcherKills(s)) BY CalmStays DEF CalmInv
<1>2. /\ \A p \in Procs : p \notin shut /\ cmd[p] # 0 => pipe[p] \in alive \cap stdinOpen
      /\ \A w \in Workers : wpc[w] \in {"write", "read"} => cmd[proc[w]] # 0
      /\ \A w \in Workers : wpc[w] \notin {"torn", "failed"}
      /\ \A s \in Samples : result[s] \notin {"unusable", "failed"}
      /\ \A k \in Killers : killing[k] # "no" => target[k] \in shut
  BY <1>1 DEF SturdyInv
<1>3. /\ \A p \in Procs : cmd[p] \in {0, pipe[p]}
      /\ \A p, q \in Procs : pipe[p] = pipe[q] /\ pipe[p] # 0 => p = q
      /\ \A p \in Procs : pipe[p] \in 0..born
  BY DEF PlaceInv, IInv, PipeInv
<1>4. ASSUME NEW w \in Workers, wpc[w] \in {"call", "write", "read", "answered", "release"}
      PROVE  proc[w] \in Procs /\ proc[w] \notin shut
  BY <1>4, MadeAreProcs DEF IInv, HoldInv, Holds
<1>5. \A w \in Workers : wpc[w] \in {"write", "read"} => pipe[proc[w]] \in alive \cap stdinOpen
  BY <1>2, <1>4
\* A Process is closed before its child is killed.
<1>6. \A p \in Procs : p \notin shut' /\ cmd'[p] # 0 => pipe'[p] \in alive' \cap stdinOpen'
  <2>1. ASSUME NEW k \in Killers, NEW q \in Procs, EnterKill(k, q), shut' = shut \cup {q},
               UNCHANGED <<cmd, pipe, alive>>
        PROVE  \A p \in Procs : p \notin shut' /\ cmd'[p] # 0 => pipe'[p] \in alive' \cap stdinOpen'
    BY <1>0, <1>2, <1>3, <2>1 DEF EnterKill
  <2>2. ASSUME NEW w \in Workers, Release(w)
        PROVE  \A p \in Procs : p \notin shut' /\ cmd'[p] # 0 => pipe'[p] \in alive' \cap stdinOpen'
    <3>1. CASE EnterKill(w, proc[w]) /\ shut' = shut \cup {proc[w]}
      <4>1. UNCHANGED <<cmd, pipe, alive>> /\ proc[w] \in Procs BY <1>4, <2>2 DEF Release
      <4>2. QED BY <1>0, <2>1, <3>1, <4>1
    <3>2. CASE UNCHANGED <<shut, stdinOpen>> BY <1>2, <2>2, <3>2 DEF Release
    <3>3. QED BY <2>2, <3>1, <3>2 DEF Release
  <2>3. ASSUME ClosePool
        PROVE  \A p \in Procs : p \notin shut' /\ cmd'[p] # 0 => pipe'[p] \in alive' \cap stdinOpen'
    <3>1. PICK q \in 1..made : EnterKill(Closer, q) /\ shut' = shut \cup {q} BY <2>3 DEF ClosePool
    <3>2. UNCHANGED <<cmd, pipe, alive>> /\ q \in Procs BY <2>3, MadeAreProcs DEF ClosePool
    <3>3. QED BY <1>0, <2>1, <3>1, <3>2
  <2>4. ASSUME NEW w \in Workers, CallStarts(w)
        PROVE  \A p \in Procs : p \notin shut' /\ cmd'[p] # 0 => pipe'[p] \in alive' \cap stdinOpen'
    <3>1. /\ cmd' = [cmd EXCEPT ![proc[w]] = born + 1] /\ pipe' = [pipe EXCEPT ![proc[w]] = born + 1]
          /\ alive' = alive \cup {born + 1} /\ stdinOpen' = stdinOpen \cup {born + 1} /\ shut' = shut
      BY <2>4 DEF CallStarts
    <3>2. QED BY <1>0, <1>2, <3>1
  <2>5. ASSUME NEW k \in Killers, KillStep(k), shut' = shut
        PROVE  \A p \in Procs : p \notin shut' /\ cmd'[p] # 0 => pipe'[p] \in alive' \cap stdinOpen'
    <3>1. target[k] \in Procs /\ target[k] \in shut BY <1>0, <1>2, <2>5, KillMoves
    <3>2. /\ UNCHANGED <<pipe, stdinOpen>>
          /\ cmd' = cmd \/ cmd' = [cmd EXCEPT ![target[k]] = 0]
          /\ alive' = alive \/ alive' = alive \ {cmd[target[k]]}
      BY <2>5, KillMoves
    <3>3. ASSUME NEW p \in Procs, p \notin shut, cmd'[p] # 0 PROVE pipe'[p] \in alive' \cap stdinOpen'
      <4>1. cmd[p] # 0 /\ p # target[k] BY <1>0, <3>1, <3>2, <3>3
      <4>2. pipe[p] \in alive \cap stdinOpen /\ pipe[p] # 0 /\ pipe[p] # cmd[target[k]]
        BY <1>0, <1>2, <1>3, <3>1, <3>3, <4>1
      <4>3. QED BY <3>2, <4>2
    <3>4. QED BY <2>5, <3>3
  <2>6. CASE UNCHANGED <<cmd, pipe, shut, alive, stdinOpen>> BY <1>2, <2>6
  <2>7. \/ \E w \in Workers : Release(w) \/ CallStarts(w)
        \/ ClosePool
        \/ \E k \in Killers : KillStep(k) /\ shut' = shut
        \/ UNCHANGED <<cmd, pipe, shut, alive, stdinOpen>>
    <3>1. ASSUME NEW w \in Workers, Worker(w)
          PROVE  Release(w) \/ CallStarts(w) \/ UNCHANGED <<cmd, pipe, shut, alive, stdinOpen>>
      BY <3>1 DEF Worker, Take, Acquire, CallRunning, CallCannotStart, Write, ReadAnswer, ReadTorn,
         ReadFails, ReadTooLong, Return, Closed, Finish, procVars, childVars
    <3>2. ASSUME NEW k \in Killers, KillStep(k) PROVE shut' = shut
      BY <3>2 DEF KillStep, Kill, Wait, Clear, procVars
    <3>3. ASSUME NEW c \in Children, ChildAnswers(c) PROVE UNCHANGED <<cmd, pipe, shut, alive, stdinOpen>>
      BY <3>3 DEF ChildAnswers, procVars
    <3>4. QED BY <1>1, <3>1, <3>2, <3>3 DEF Next, Stop, TimeOut, ChildCrashes, Terminating, vars, procVars,
         childVars, Watcher, WatcherEnds
  <2>8. QED BY <2>2, <2>3, <2>4, <2>5, <2>6, <2>7
\* Nobody clears the cmd of a Process that is in use.
<1>7. ASSUME NEW w \in Workers, wpc'[w] \in {"write", "read"} PROVE cmd'[proc'[w]] # 0
  <2>1. CASE \E v \in Workers : Worker(v)
    <3>1. PICK v \in Workers : Worker(v) BY <2>1
    <3>2. CASE cmd' = cmd
      <4>1. proc'[w] = proc[w] /\ (wpc[w] \in {"write", "read"} \/ CallRunning(w) \/ CallStarts(w))
        BY <1>7, <3>1, WorkerSteps
      <4>2. CallRunning(w) => cmd[proc[w]] # 0 BY DEF CallRunning
      <4>3. CallStarts(w) => cmd'[proc[w]] # 0
        <5>1. CallStarts(w) => cmd' = [cmd EXCEPT ![proc[w]] = born + 1] /\ proc[w] \in Procs
          BY <1>4 DEF CallStarts
        <5>2. QED BY <1>0, <5>1
      <4>4. QED BY <1>2, <3>2, <4>1, <4>2, <4>3
    <3>3. CASE CallStarts(v)
      <4>1. cmd' = [cmd EXCEPT ![proc[v]] = born + 1] /\ proc[v] \in Procs
        BY <1>4, <3>3 DEF CallStarts
      <4>2. wpc[v] = "call" /\ proc'[v] = proc[v] BY <3>3 DEF CallStarts
      <4>3. CASE v = w BY <1>0, <4>1, <4>2, <4>3
      <4>4. CASE v # w
        <5>1. proc'[w] = proc[w] /\ wpc[w] \in {"write", "read"} BY <1>7, <3>1, <4>4, WorkerSteps
        <5>2. QED BY <1>0, <1>2, <1>4, <4>1, <5>1
      <4>5. QED BY <4>3, <4>4
    <3>4. cmd' = cmd \/ CallStarts(v)
      BY <3>1 DEF Worker, Take, Acquire, CallRunning, CallCannotStart, Write, ReadAnswer, ReadTorn, ReadFails,
         ReadTooLong, Return, Release, Closed, Finish, procVars
    <3>5. QED BY <3>2, <3>3, <3>4
  <2>2. CASE ~\E v \in Workers : Worker(v)
    <3>1. wpc'[w] = wpc[w] /\ proc'[w] = proc[w] BY <2>2, RunFrame DEF workerVars
    <3>2. ASSUME NEW k \in Killers, Clear(k) PROVE cmd'[proc[w]] # 0
      <4>1. KillStep(k) BY <3>2 DEF KillStep
      <4>2. target[k] \in shut /\ cmd' = [cmd EXCEPT ![target[k]] = 0]
        BY <1>2, <3>2, <4>1, KillMoves DEF Clear
      <4>3. QED BY <1>0, <1>2, <1>4, <1>7, <3>1, <4>2
    <3>3. QED BY <1>2, <1>7, <2>2, <3>1, <3>2, ProcFrame DEF Worker
  <2>3. QED BY <2>1, <2>2
<1>8. ASSUME NEW w \in Workers PROVE wpc'[w] \notin {"torn", "failed"}
  <2>1. CASE \E v \in Workers : Worker(v)
    <3>1. PICK v \in Workers : Worker(v) BY <2>1
    <3>2. Write(v) => wpc'[v] # "failed"
      BY <1>5 DEF Write, Move, IInv, TypeOK
    <3>3. ~ReadTorn(v) /\ ~ReadFails(v) /\ ~ReadTooLong(v) BY <1>5 DEF ReadTorn, ReadFails, ReadTooLong
    <3>4. QED BY <1>2, <3>1, <3>2, <3>3, WorkerSteps
  <2>2. CASE ~\E v \in Workers : Worker(v)
    BY <1>2, <2>2, RunFrame DEF workerVars
  <2>3. QED BY <2>1, <2>2
<1>9. \A s \in Samples : result'[s] \notin {"unusable", "failed"}
  <2>1. ASSUME NEW w \in Workers, NEW r \in {"answer", "canceled", "deadline", "failed", "unusable", "panicked"},
               result' = [result EXCEPT ![sample[w]] = r],
               \/ CallCannotStart(w) /\ r = "failed"
               \/ Return(w) /\ r = Outcome(w)
               \/ KillStep(w) /\ r = "panicked"
        PROVE  \A s \in Samples : result'[s] \notin {"unusable", "failed"}
    <3>1. ~CallCannotStart(w) BY DEF CallCannotStart
    <3>2. Return(w) => Outcome(w) \notin {"unusable", "failed"} BY <1>1, <1>2, OutcomeIs
    <3>3. QED BY <1>0, <1>2, <2>1, <3>1, <3>2
  <2>2. QED BY <1>2, <2>1, ResultMoves
<1>10. ASSUME NEW k \in Killers, killing'[k] # "no" PROVE target'[k] \in shut'
  <2>1. shut \subseteq shut'
    <3>1. \A w \in Workers : Release(w) => shut \subseteq shut' BY DEF Release
    <3>2. ClosePool => shut \subseteq shut' BY DEF ClosePool
    <3>3. QED BY <3>1, <3>2, ProcFrame
  <2>2. ASSUME NEW j \in Killers, NEW p \in Procs, EnterKill(j, p), p \in shut'
        PROVE  target'[k] \in shut'
    <3>1. CASE k = j BY <1>0, <2>2, <3>1 DEF EnterKill
    <3>2. CASE k # j BY <1>0, <1>2, <1>10, <2>1, <2>2, <3>2 DEF EnterKill
    <3>3. QED BY <3>1, <3>2
  <2>3. ASSUME NEW w \in Workers, Release(w), EnterKill(w, proc[w]) PROVE target'[k] \in shut'
    <3>1. proc[w] \in Procs BY <1>4, <2>3 DEF Release
    <3>2. shut' = shut \cup {proc[w]} \/ UNCHANGED killVars BY <2>3 DEF Release
    <3>3. CASE shut' = shut \cup {proc[w]} BY <1>0, <2>2, <2>3, <3>1, <3>3
    <3>4. CASE UNCHANGED killVars BY <1>2, <1>10, <2>1, <3>4 DEF killVars
    <3>5. QED BY <3>2, <3>3, <3>4
  <2>4. ASSUME ClosePool PROVE target'[k] \in shut'
    <3>1. PICK p \in 1..made : EnterKill(Closer, p) /\ shut' = shut \cup {p} BY <2>4 DEF ClosePool
    <3>2. p \in Procs BY MadeAreProcs
    <3>3. QED BY <1>0, <2>2, <3>1, <3>2
  <2>5. ASSUME NEW j \in Killers, target' = target, NEW at \in {"no", "wait", "clear"},
               killing[j] # "no", killing' = [killing EXCEPT ![j] = at]
        PROVE  target'[k] \in shut'
    BY <1>0, <1>2, <1>10, <2>1, <2>5
  <2>6. CASE UNCHANGED <<killing, target>> BY <1>2, <1>10, <2>1, <2>6
  <2>7. QED BY <1>1, <2>3, <2>4, <2>5, <2>6, KillFrame
<1>11. QED BY <1>6, <1>7, <1>8, <1>9, <1>10

-----------------------------------------------------------------------------
(* Subprocess implements GraderCalls *)

FullInv == IInv /\ GInv

LEMMA FullInvHolds == Spec => []FullInv
<1>1. Init => FullInv
  <2> SUFFICES ASSUME Init PROVE GInv BY InitInv DEF FullInv
  <2>1. CauseInv /\ CalmInv BY DEF Init, CauseInv, CalmInv, Killers
  <2>2. PlaceInv BY DEF Init, PlaceInv, Killers
  <2>3. SturdyInv BY DEF Init, SturdyInv
  <2>4. QED BY <2>1, <2>2, <2>3 DEF GInv
<1>2. FullInv /\ [Next]_vars => FullInv'
  BY InductiveInv, CausePreserved, PlacePreserved, CalmPreserved, SturdyPreserved DEF FullInv, GInv
<1>3. QED BY <1>1, <1>2, PTL DEF Spec

Hand == [w \in Busy |-> sample[w]]

\* What the abstract state is made of, when nothing is begun and nothing handed back.
LEMMA StutterOfCalls ==
  ASSUME Busy' = Busy, \A w \in Busy : sample'[w] = sample[w],
         \A s \in Samples \ InHand : result'[s] = result[s] /\ got'[s] = got[s]
  PROVE  UNCHANGED <<Hand, HandedBack, GivenTo>>
<1>1. InHand' = InHand /\ Hand' = Hand BY DEF InHand, Hand
<1>2. HandedBack' = HandedBack BY <1>1 DEF HandedBack
<1>3. GivenTo' = GivenTo BY <1>2 DEF GivenTo, HandedBack
<1>4. QED BY <1>1, <1>2, <1>3

\* The result and the answer of a sample that nobody holds stay as they are.
LEMMA KeptWhenHandedBack ==
  ASSUME FullInv, [Next]_vars
  PROVE  \A s \in Samples \ InHand : result'[s] = result[s] /\ got'[s] = got[s]
<1>1. \A s \in Samples \ InHand : result'[s] = result[s]
  BY ResultMoves DEF FullInv, GInv, IInv, TypeOK
<1>2. ASSUME NEW w \in Workers, ReadAnswer(w)
      PROVE  \A s \in Samples \ InHand : got'[s] = got[s]
  <2>1. sample[w] \in InHand BY <1>2 DEF ReadAnswer, InHand, Busy
  <2>2. \E a : got' = [got EXCEPT ![sample[w]] = a] BY <1>2 DEF ReadAnswer
  <2>3. QED BY <2>1, <2>2 DEF FullInv, IInv, TypeOK
<1>3. QED BY <1>1, <1>2, RunFrame

LEMMA TakeIsBegin ==
  ASSUME FullInv, [Next]_vars, NEW w \in Workers, Take(w)
  PROVE  \E s \in Samples : G!Begin(w, s)
<1>1. Worker(w) BY DEF Worker
<1>2. /\ wpc[w] = "idle" /\ wpc'[w] = "acquire" /\ sample'[w] \in todo /\ todo' = todo \ {sample'[w]}
      /\ \A v \in Workers \ {w} : wpc'[v] = wpc[v] /\ sample'[v] = sample[v]
  BY <1>1, WorkerSteps DEF FullInv, Take, Move, IInv, TypeOK
<1>0. PICK s \in todo : sample'[w] = s BY <1>2
<1>3. ~crashed /\ ~stopped /\ UNCHANGED <<stopped, crashed, result, got>> BY DEF Take, resultVars
<1>4. Busy' = Busy \cup {w} /\ w \notin Busy BY <1>2 DEF Busy
<1>5. Hand' = [v \in Busy \cup {w} |-> IF v = w THEN s ELSE Hand[v]]
  BY <1>0, <1>2, <1>4 DEF Hand, Busy
<1>6. InHand' = InHand \cup {s} BY <1>0, <1>2, <1>4 DEF InHand, Busy
<1>7. result[s] = "none" BY DEF FullInv, GInv, CauseInv
<1>8. HandedBack' = HandedBack BY <1>3, <1>6, <1>7 DEF HandedBack
<1>9. GivenTo' = GivenTo BY <1>3, <1>8 DEF GivenTo
<1>10. DOMAIN Hand = Busy BY DEF Hand
<1>11. G!Begin(w, s) BY <1>0, <1>2, <1>3, <1>4, <1>5, <1>8, <1>9, <1>10 DEF G!Begin, Hand
<1>12. s \in Samples BY DEF FullInv, IInv, TypeOK
<1>13. QED BY <1>11, <1>12

\* Every outcome is justified when it is handed back.
LEMMA ResultIsJustified ==
  ASSUME FullInv, NEW w \in Workers, wpc[w] = "finish"
  PROVE  /\ result[sample[w]] \in G!Outcomes
         /\ G!Justified(result[sample[w]])
<1>1. sample[w] \in Samples BY DEF FullInv, IInv, SampleInv, Grading
<1>2. result[sample[w]] \in {"answer", "canceled", "deadline", "failed", "unusable", "panicked"}
  BY <1>1 DEF FullInv, IInv, TypeOK, GInv, CauseInv
<1>3. stopped \in BOOLEAN /\ HasTimeout \in BOOLEAN BY SwitchAssumption DEF FullInv, IInv, TypeOK
<1>4. result[sample[w]] = "panicked" => stopped \/ HasTimeout
  BY <1>1, <1>3 DEF FullInv, GInv, CalmInv, Calm
<1>5. result[sample[w]] \in {"failed", "unusable"} => stopped \/ HasTimeout \/ Faults # {}
  BY <1>1, <1>3 DEF FullInv, GInv, SturdyInv, Calm
<1>6. /\ result[sample[w]] = "canceled" => stopped
      /\ result[sample[w]] = "deadline" => HasTimeout
  BY <1>1 DEF FullInv, GInv, CauseInv
<1>7. QED BY <1>2, <1>4, <1>5, <1>6 DEF G!Outcomes, G!Justified, G!MayEnd

LEMMA FinishIsHandBack ==
  ASSUME FullInv, [Next]_vars, NEW w \in Workers, Finish(w)
  PROVE  \E v \in G!Outcomes : G!HandBack(w, v)
<1>1. Worker(w) BY DEF Worker
<1>2. /\ wpc[w] = "finish" /\ wpc'[w] = "idle" /\ todo' = todo
      /\ \A v \in Workers \ {w} : wpc'[v] = wpc[v] /\ sample'[v] = sample[v]
  BY <1>1, WorkerSteps DEF FullInv, Finish, Move, IInv, TypeOK
<1>3. ~crashed /\ UNCHANGED <<stopped, crashed, result, got>> BY DEF Finish, resultVars
<1>4. Busy' = Busy \ {w} /\ w \in Busy BY <1>2 DEF Busy
<1>5. Hand' = [u \in Busy \ {w} |-> Hand[u]] BY <1>2, <1>4 DEF Hand, Busy
<1>6. Hand[w] = sample[w] /\ DOMAIN Hand = Busy BY <1>4 DEF Hand
<1>7. /\ sample[w] \in Samples
      /\ \A v \in Busy \ {w} : sample[v] # sample[w]
  BY <1>2, <1>4 DEF FullInv, IInv, SampleInv, Grading, Busy
<1>8. InHand' = InHand \ {sample[w]} /\ sample[w] \in InHand
  BY <1>2, <1>4, <1>7 DEF InHand, Busy
<1>9. HandedBack' = [HandedBack EXCEPT ![sample[w]] = result[sample[w]]]
  BY <1>3, <1>7, <1>8 DEF HandedBack
<1>10. GivenTo' = IF result[sample[w]] = "answer" THEN [GivenTo EXCEPT ![sample[w]] = sample[w]]
                  ELSE GivenTo
  <2>1. result[sample[w]] = "answer" => got[sample[w]] = sample[w]
    BY <1>7 DEF FullInv, IInv, AnswerIsOwn
  <2>2. HandedBack[sample[w]] = "none" BY <1>7, <1>8 DEF HandedBack
  <2>3. /\ HandedBack'[sample[w]] = result[sample[w]]
        /\ \A s \in Samples \ {sample[w]} : HandedBack'[s] = HandedBack[s]
    BY <1>7, <1>9 DEF HandedBack
  <2>4. QED BY <1>3, <1>7, <2>1, <2>2, <2>3 DEF GivenTo
<1>11. result[sample[w]] \in G!Outcomes /\ G!Justified(result[sample[w]])
  BY <1>2, ResultIsJustified
<1>12. PICK v \in G!Outcomes : v = result[sample[w]] BY <1>11
<1>13. G!Justified(v) BY <1>11, <1>12 DEF G!Justified
<1>14. G!HandBack(w, v)
  BY <1>2, <1>3, <1>4, <1>5, <1>6, <1>9, <1>10, <1>12, <1>13 DEF G!HandBack, Hand
<1>15. QED BY <1>14

\* Every other step of a worker means nothing to the abstract state.
LEMMA WorkerStutters ==
  ASSUME FullInv, [Next]_vars, NEW w \in Workers, Worker(w), ~Take(w), ~Finish(w)
  PROVE  UNCHANGED <<todo, Hand, stopped, HandedBack, GivenTo, crashed>>
<1>1. /\ todo' = todo /\ sample'[w] = sample[w] /\ wpc[w] # "idle" /\ wpc'[w] # "idle"
      /\ \A v \in Workers \ {w} : wpc'[v] = wpc[v] /\ sample'[v] = sample[v]
  BY WorkerSteps DEF FullInv
<1>2. Busy' = Busy /\ \A v \in Busy : sample'[v] = sample[v] BY <1>1 DEF Busy
<1>3. UNCHANGED <<stopped, crashed>>
  BY DEF Worker, Take, Acquire, CallRunning, CallStarts, CallCannotStart, Write, ReadAnswer,
         ReadTorn, ReadFails, ReadTooLong, Return, Release, Closed, Finish, runVars, resultVars
<1>4. QED BY <1>1, <1>2, <1>3, KeptWhenHandedBack, StutterOfCalls

\* No other actor begins anything or hands anything back.
LEMMA OthersStutter ==
  ASSUME FullInv, [Next]_vars, ~\E w \in Workers : Worker(w)
  PROVE  /\ UNCHANGED <<todo, Hand, HandedBack, GivenTo>>
         /\ UNCHANGED crashed \/ \E k \in Killers : KillStep(k)
         /\ UNCHANGED stopped \/ Stop
<1>1. UNCHANGED workerVars /\ todo' = todo BY RunFrame DEF Worker
<1>2. UNCHANGED <<Hand, HandedBack, GivenTo>>
  BY <1>1, KeptWhenHandedBack, StutterOfCalls DEF workerVars, Busy
<1>3. UNCHANGED crashed \/ \E k \in Killers : KillStep(k)
  BY DEF Next, Watcher, Stop, TimeOut, WatcherKills, WatcherEnds, ClosePool, ChildAnswers,
         ChildCrashes, Terminating, vars, resultVars
<1>4. UNCHANGED stopped \/ Stop
  BY DEF Next, Watcher, TimeOut, WatcherKills, WatcherEnds, ClosePool, ChildAnswers,
         ChildCrashes, Terminating, vars, runVars, KillStep, Kill, Wait, Clear
<1>5. QED BY <1>1, <1>2, <1>3, <1>4

LEMMA StepOfCalls ==
  ASSUME FullInv, FullInv', [Next]_vars
  PROVE  G!Next \/ UNCHANGED G!vars
<1>1. CASE \E w \in Workers : Worker(w)
  <2>1. PICK w \in Workers : Worker(w) BY <1>1
  <2>2. CASE Take(w) BY <2>2, TakeIsBegin DEF G!Next
  <2>3. CASE Finish(w) BY <2>3, FinishIsHandBack DEF G!Next
  <2>4. CASE ~Take(w) /\ ~Finish(w) BY <2>1, <2>4, WorkerStutters DEF G!vars, Hand
  <2>5. QED BY <2>2, <2>3, <2>4
<1>2. CASE ~\E w \in Workers : Worker(w)
  <2>1. UNCHANGED <<todo, Hand, HandedBack, GivenTo>> BY <1>2, OthersStutter
  <2>2. CASE Stop
    <3>1. UNCHANGED crashed BY <2>2 DEF Stop, resultVars
    <3>2. G!Stop BY <2>1, <2>2, <3>1 DEF Stop, G!Stop, Hand
    <3>3. QED BY <3>2 DEF G!Next
  <2>3. CASE UNCHANGED <<crashed, stopped>> BY <2>1, <2>3 DEF G!vars, Hand
  <2>4. ASSUME NEW k \in Killers, KillStep(k), crashed' # crashed PROVE G!Die
    <3>1. ~crashed /\ crashed' BY <2>4, KillMoves DEF KillStep, Kill, Wait, Clear, Panic, FullInv
    <3>2. UNCHANGED stopped BY <2>4, KillMoves DEF FullInv
    <3>3. stopped \/ HasTimeout BY <3>1, <3>2 DEF FullInv, GInv, CalmInv, Calm
    <3>4. crashed' = TRUE BY <3>1 DEF FullInv, IInv, TypeOK
    <3>5. QED BY <2>1, <3>1, <3>2, <3>3, <3>4 DEF G!Die, G!MayEnd, Hand
  <2>5. QED BY <1>2, <2>2, <2>3, <2>4, OthersStutter DEF G!Next
<1>3. QED BY <1>1, <1>2

\* The pool as the runner sees it (stdiojsonl.go:75-90, subprocess.go:84-104, runner.go:316-336
\* and :347-361): one verdict for each sample, its own and final, and a cause for every other
\* outcome.  In particular nothing panics, and no Grader whose children stay up is reported
\* broken, as long as no context ends: both defects of the watchers need one that does.
THEOREM PoolImplementsGraderCalls == Spec => ImplementsGraderCalls
<1>1. Init => G!Init
  <2> SUFFICES ASSUME Init PROVE G!Init OBVIOUS
  <2>1. Busy = {} /\ InHand = {} BY DEF Init, Busy, InHand
  <2>2. HandedBack = [s \in Samples |-> "none"] /\ GivenTo = [s \in Samples |-> None]
    BY <2>1 DEF Init, HandedBack, GivenTo
  <2>3. [w \in Busy |-> sample[w]] = [w \in {} |-> None] BY <2>1
  <2>4. QED BY <2>2, <2>3 DEF Init, G!Init
<1>2. FullInv /\ FullInv' /\ [Next]_vars => [G!Next]_(G!vars) BY StepOfCalls
<1>3. QED BY <1>1, <1>2, FullInvHolds, PTL DEF Spec, ImplementsGraderCalls, G!Spec
=============================================================================
