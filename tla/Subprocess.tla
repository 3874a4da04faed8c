----------------------------- MODULE Subprocess -----------------------------
(***************************************************************************)
(* internal/subprocess as the stdio-jsonl Grader and Judge use it: a Pool  *)
(* of Process values, the child each of them runs, one watcher goroutine   *)
(* per Call, and the Close of the pool at the end of the run.              *)
(*                                                                         *)
(* killLocked is four steps, because the watcher of a cancelled Call runs  *)
(* it without the Process's lock: it shares p.cmd with the worker that     *)
(* closes the failed Process.  The lock itself is not modelled: a Process  *)
(* belongs to one worker at a time (ExclusiveUse), so nobody else ever     *)
(* waits for it.                                                           *)
(***************************************************************************)
EXTENDS Naturals, Sequences, FiniteSets

CONSTANTS
    Workers,    \* the goroutines that grade, each one sample at a time
    Samples,    \* the samples of the run: one Call for each
    HasTimeout, \* every Call has a context of its own, with a timeout
    Faults      \* what may go wrong with a child

FaultKinds == {"start",     \* the program cannot be started
               "crash",     \* the child exits by itself
               "long"}      \* its answer is over the line limit

ASSUME WorkersAssumption == Workers # {} /\ IsFiniteSet(Workers)
ASSUME SamplesAssumption == IsFiniteSet(Samples) /\ Workers \cap Samples = {}
ASSUME SwitchAssumption == HasTimeout \in BOOLEAN
ASSUME FaultAssumption == Faults \subseteq FaultKinds

Closer == "closer"  \* the goroutine that closes the pool when the run is over
None == "none"

\* They are goroutines of their own.
ASSUME CloserAssumption == Closer \notin Workers \cup Samples

\* At most one Process and one child is made for each Call.
Procs == 1..Cardinality(Samples)
Children == 1..Cardinality(Samples)
Killers == Workers \cup Samples \cup {Closer}   \* a watcher goes by its sample

VARIABLES
    todo,       \* samples no worker has taken yet
    stopped,    \* the workers' context is cancelled
    ctx,        \* ctx.Err() of each sample's Call
    wpc,        \* program counter of each worker
    sample,     \* the sample each worker is grading
    proc,       \* the Process each worker acquired
    idle,       \* Pool.idle
    made,       \* how many Process values there are (Pool.all)
    cmd,        \* p.cmd: the child, or 0 for nil
    pipe,       \* p.stdin and p.stdout: the child they lead to
    shut,       \* p.closed
    born,       \* how many children were started
    alive,      \* the children that run
    stdinOpen,  \* the children whose stdin is open
    reaped,     \* the children cmd.Wait has collected: it closes their stdout too
    asked,      \* the request each child has read and not answered
    answer,     \* the unread line in each child's stdout
    watcher,    \* the watcher of each sample's Call
    watched,    \* the Process it watches
    done,       \* the samples whose done channel is closed
    killing,    \* where each killer is in killLocked
    target,     \* the Process it kills
    result,     \* what each sample's Grade came to
    got,        \* whose answer each sample was given
    crashed     \* a panic outside safeGrade took the program down

poolVars == <<idle, made>>
procVars == <<cmd, pipe, shut>>
childVars == <<born, alive, stdinOpen, reaped, asked, answer>>
watchVars == <<watcher, watched, done>>
killVars == <<killing, target>>
runVars == <<todo, stopped, ctx>>
workerVars == <<wpc, sample, proc>>
resultVars == <<result, got, crashed>>
vars == <<poolVars, procVars, childVars, watchVars, killVars, runVars, workerVars, resultVars>>

TypeOK ==
    /\ todo \subseteq Samples /\ stopped \in BOOLEAN
    /\ ctx \in [Samples -> {"open", "canceled", "deadline"}]
    /\ wpc \in [Workers -> {"idle", "acquire", "call", "write", "read", "answered", "torn",
                            "failed", "release", "close", "finish"}]
    /\ sample \in [Workers -> Samples \cup {None}]
    /\ proc \in [Workers -> Procs \cup {0}]
    /\ idle \in Seq(Procs) /\ made \in 0..Cardinality(Samples)
    /\ cmd \in [Procs -> Children \cup {0}] /\ pipe \in [Procs -> Children \cup {0}]
    /\ shut \subseteq Procs
    /\ born \in 0..Cardinality(Samples)
    /\ alive \subseteq 1..born /\ stdinOpen \subseteq 1..born /\ reaped \subseteq 1..born
    /\ asked \in [Children -> Samples \cup {None}] /\ answer \in [Children -> Samples \cup {None}]
    /\ watcher \in [Samples -> {"none", "waiting", "killing", "gone"}]
    /\ watched \in [Samples -> Procs \cup {0}]
    /\ done \subseteq Samples
    /\ killing \in [Killers -> {"no", "kill", "wait", "clear"}]
    /\ target \in [Killers -> Procs \cup {0}]
    /\ result \in [Samples -> {"none", "answer", "canceled", "deadline", "failed", "unusable",
                            "panicked"}]
    /\ got \in [Samples -> Samples \cup {None}]
    /\ crashed \in BOOLEAN

Init ==
    /\ todo = Samples /\ stopped = FALSE /\ ctx = [s \in Samples |-> "open"]
    /\ wpc = [w \in Workers |-> "idle"]
    /\ sample = [w \in Workers |-> None] /\ proc = [w \in Workers |-> 0]
    /\ idle = <<>> /\ made = 0
    /\ cmd = [p \in Procs |-> 0] /\ pipe = [p \in Procs |-> 0] /\ shut = {}
    /\ born = 0 /\ alive = {} /\ stdinOpen = {} /\ reaped = {}
    /\ asked = [c \in Children |-> None] /\ answer = [c \in Children |-> None]
    /\ watcher = [s \in Samples |-> "none"] /\ watched = [s \in Samples |-> 0] /\ done = {}
    /\ killing = [k \in Killers |-> "no"] /\ target = [k \in Killers |-> 0]
    /\ result = [s \in Samples |-> "none"] /\ got = [s \in Samples |-> None]
    /\ crashed = FALSE

Move(w, at) == wpc' = [wpc EXCEPT ![w] = at]

\* Release holds the pool's lock while it closes a Process, and so does Close.
PoolLocked == killing[Closer] # "no" \/ \E w \in Workers : wpc[w] = "close"

-----------------------------------------------------------------------------
(* Contexts *)

\* Fail-fast or an interrupt ends the context of every Call, present and future.
Stop ==
    /\ ~crashed /\ ~stopped
    /\ stopped' = TRUE
    /\ ctx' = [s \in Samples |-> IF ctx[s] = "open" THEN "canceled" ELSE ctx[s]]
    /\ UNCHANGED <<todo, poolVars, procVars, childVars, watchVars, killVars, workerVars, resultVars>>

\* The timeout of a sample that is being graded elapses.
TimeOut(w) ==
    /\ ~crashed /\ HasTimeout /\ wpc[w] # "idle" /\ ctx[sample[w]] = "open"
    /\ ctx' = [ctx EXCEPT ![sample[w]] = "deadline"]
    /\ UNCHANGED <<todo, stopped, poolVars, procVars, childVars, watchVars, killVars, workerVars, resultVars>>

-----------------------------------------------------------------------------
(* A worker grading one sample: Acquire, Call, Release *)

\* A sample is not begun after a stop (the worker loop of internal/runner).
Take(w) ==
    /\ ~crashed /\ wpc[w] = "idle" /\ ~stopped
    /\ \E s \in todo : todo' = todo \ {s} /\ sample' = [sample EXCEPT ![w] = s]
    /\ Move(w, "acquire")
    /\ UNCHANGED <<stopped, ctx, proc, poolVars, procVars, childVars, watchVars, killVars, resultVars>>

\* Slip: the Process handed out stays in the idle list.
AcquireKeepsIdle(w) ==
    /\ ~crashed /\ wpc[w] = "acquire" /\ ~PoolLocked
    /\ proc' = [proc EXCEPT ![w] = IF idle # <<>> THEN idle[Len(idle)] ELSE made + 1]
    /\ made' = IF idle # <<>> THEN made ELSE made + 1
    /\ Move(w, "call")
    /\ UNCHANGED <<idle, sample, runVars, procVars, childVars, watchVars, killVars, resultVars>>

\* Pool.Acquire: the Process put back last, or a new one.
Acquire(w) ==
    /\ ~crashed /\ wpc[w] = "acquire" /\ ~PoolLocked
    /\ \/ /\ idle # <<>>
          /\ proc' = [proc EXCEPT ![w] = idle[Len(idle)]]
          /\ idle' = SubSeq(idle, 1, Len(idle) - 1)
          /\ UNCHANGED made
       \/ /\ idle = <<>>
          /\ made' = made + 1
          /\ proc' = [proc EXCEPT ![w] = made + 1]
          /\ UNCHANGED idle
    /\ Move(w, "call")
    /\ UNCHANGED <<sample, runVars, procVars, childVars, watchVars, killVars, resultVars>>

\* Call watches its context from here on.
Watch(w) ==
    /\ watcher' = [watcher EXCEPT ![sample[w]] = "waiting"]
    /\ watched' = [watched EXCEPT ![sample[w]] = proc[w]]

\* ensureStarted with a child in place, whatever state that child is in.
CallRunning(w) ==
    /\ ~crashed /\ wpc[w] = "call" /\ cmd[proc[w]] # 0
    /\ Watch(w)
    /\ Move(w, "write")
    /\ UNCHANGED <<sample, proc, done, runVars, poolVars, procVars, childVars, killVars, resultVars>>

\* ensureStarted with none: a new child, with new pipes.
CallStarts(w) ==
    /\ ~crashed /\ wpc[w] = "call" /\ cmd[proc[w]] = 0
    /\ born' = born + 1
    /\ alive' = alive \cup {born + 1} /\ stdinOpen' = stdinOpen \cup {born + 1}
    /\ cmd' = [cmd EXCEPT ![proc[w]] = born + 1]
    /\ pipe' = [pipe EXCEPT ![proc[w]] = born + 1]
    /\ Watch(w)
    /\ Move(w, "write")
    /\ UNCHANGED <<sample, proc, done, shut, reaped, asked, answer, runVars, poolVars, killVars, resultVars>>

\* The program cannot be started: no watcher, no exchange.
CallCannotStart(w) ==
    /\ ~crashed /\ wpc[w] = "call" /\ cmd[proc[w]] = 0 /\ "start" \in Faults
    /\ result' = [result EXCEPT ![sample[w]] = "failed"]
    /\ Move(w, "release")
    /\ UNCHANGED <<sample, proc, got, crashed, runVars, poolVars, procVars, childVars, watchVars, killVars>>

\* exchange: the request goes to the child the pipe leads to, if that still takes it.
Write(w) ==
    /\ ~crashed /\ wpc[w] = "write"
    /\ LET c == pipe[proc[w]]
       IN \/ /\ c \in alive \cap stdinOpen
             /\ asked' = [asked EXCEPT ![c] = sample[w]]
             /\ Move(w, "read")
          \/ /\ c \notin alive \cap stdinOpen
             /\ Move(w, "failed")
             /\ UNCHANGED asked
    /\ UNCHANGED <<sample, proc, born, alive, stdinOpen, reaped, answer, runVars, poolVars,
                   procVars, watchVars, killVars, resultVars>>

ReadAnswer(w) ==
    /\ ~crashed /\ wpc[w] = "read"
    /\ LET c == pipe[proc[w]]
       IN /\ answer[c] # None /\ c \notin reaped
          /\ got' = [got EXCEPT ![sample[w]] = answer[c]]
          /\ answer' = [answer EXCEPT ![c] = None]
    /\ Move(w, "answered")
    /\ UNCHANGED <<sample, proc, born, alive, stdinOpen, reaped, asked, runVars, poolVars, procVars,
                   watchVars, killVars, result, crashed>>

\* The end of a dead child's output in the middle of its answer: what came is the answer,
\* to Call, whether or not its context has ended.
ReadTorn(w) ==
    /\ ~crashed /\ wpc[w] = "read"
    /\ LET c == pipe[proc[w]]
       IN /\ asked[c] # None /\ c \notin alive /\ c \notin reaped
          /\ asked' = [asked EXCEPT ![c] = None]
    /\ Move(w, "torn")
    /\ UNCHANGED <<sample, proc, born, alive, stdinOpen, reaped, answer, runVars, poolVars, procVars,
                   watchVars, killVars, resultVars>>

\* The end of a dead child's output, or its stdout closed by cmd.Wait.
ReadFails(w) ==
    /\ ~crashed /\ wpc[w] = "read"
    /\ LET c == pipe[proc[w]] IN c \notin alive /\ (answer[c] = None \/ c \in reaped)
    /\ Move(w, "failed")
    /\ UNCHANGED <<sample, proc, runVars, poolVars, procVars, childVars, watchVars, killVars, resultVars>>

\* A line over the limit is given up with its rest unread, and the child left as it is.
ReadTooLong(w) ==
    /\ ~crashed /\ wpc[w] = "read" /\ "long" \in Faults
    /\ LET c == pipe[proc[w]] IN answer[c] # None /\ c \notin reaped
    /\ Move(w, "failed")
    /\ UNCHANGED <<sample, proc, runVars, poolVars, procVars, childVars, watchVars, killVars, resultVars>>

\* Slip: a failed exchange returns ctx.Err(), even when that is nil.
OutcomeIsContexts(w) == CASE wpc[w] = "answered" -> "answer"
                          [] wpc[w] = "torn" -> "unusable"
                          [] OTHER -> ctx[sample[w]]

\* Call's verdict: an error counts as the context's once that has ended.  A torn answer is
\* no error to Call, and its caller cannot decode it.
Outcome(w) == CASE wpc[w] = "answered" -> "answer"
                [] wpc[w] = "torn" -> "unusable"
                [] wpc[w] = "failed" /\ ctx[sample[w]] # "open" -> ctx[sample[w]]
                [] OTHER -> "failed"

\* Call returns and closes its done channel.  The watcher takes that as its end unless it
\* only reaches its select once the context has ended too: it may then choose either case.
Return(w) ==
    /\ ~crashed /\ wpc[w] \in {"answered", "torn", "failed"}
    /\ result' = [result EXCEPT ![sample[w]] = Outcome(w)]
    /\ done' = done \cup {sample[w]}
    /\ Move(w, "release")
    /\ UNCHANGED <<sample, proc, watcher, watched, got, crashed, runVars, poolVars, procVars, childVars, killVars>>

\* Slip: closing stdin is taken to be enough.
EnterKillPolitely(k, p) ==
    /\ target' = [target EXCEPT ![k] = p]
    /\ killing' = [killing EXCEPT ![k] = "no"]
    /\ stdinOpen' = IF cmd[p] = 0 THEN stdinOpen ELSE stdinOpen \ {pipe[p]}

\* killLocked, entered by k for p: nothing to do without a child, else stdin is closed.
EnterKill(k, p) ==
    /\ target' = [target EXCEPT ![k] = p]
    /\ killing' = [killing EXCEPT ![k] = IF cmd[p] = 0 THEN "no" ELSE "kill"]
    /\ stdinOpen' = IF cmd[p] = 0 THEN stdinOpen ELSE stdinOpen \ {pipe[p]}

\* Slip: a Process is put back whatever became of its exchange.
ReusableAlways(w) == TRUE

\* Only a Process whose Call returned no error is reused: also one whose child died in
\* the middle of its answer.
Reusable(w) == result[sample[w]] \in {"answer", "unusable"}

\* Pool.Release
Release(w) ==
    /\ ~crashed /\ wpc[w] = "release" /\ ~PoolLocked
    /\ \/ /\ Reusable(w)
          /\ idle' = Append(idle, proc[w])
          /\ Move(w, "finish")
          /\ UNCHANGED <<shut, stdinOpen, killVars>>
       \/ /\ ~Reusable(w)
          /\ shut' = shut \cup {proc[w]}
          /\ EnterKill(w, proc[w])
          /\ Move(w, "close")
          /\ UNCHANGED idle
    /\ UNCHANGED <<sample, proc, made, cmd, pipe, born, alive, reaped, asked, answer, runVars,
                   watchVars, resultVars>>

Closed(w) ==
    /\ ~crashed /\ wpc[w] = "close" /\ killing[w] = "no"
    /\ Move(w, "finish")
    /\ UNCHANGED <<sample, proc, poolVars, procVars, childVars, watchVars, killVars, runVars, resultVars>>

\* Grade returns, and grade's deferred cancel ends the context it made.
Finish(w) ==
    /\ ~crashed /\ wpc[w] = "finish"
    /\ ctx' = IF HasTimeout /\ ctx[sample[w]] = "open"
              THEN [ctx EXCEPT ![sample[w]] = "canceled"] ELSE ctx
    /\ sample' = [sample EXCEPT ![w] = None]
    /\ proc' = [proc EXCEPT ![w] = 0]
    /\ Move(w, "idle")
    /\ UNCHANGED <<todo, stopped, poolVars, procVars, childVars, watchVars, killVars, resultVars>>

-----------------------------------------------------------------------------
(* killLocked *)

\* Slip: the watcher recovers too, and reports the sample it belongs to.
PanicRecovered(k) ==
    /\ killing' = [killing EXCEPT ![k] = "no"]
    /\ \/ /\ k \in Workers
          /\ result' = [result EXCEPT ![sample[k]] = "panicked"]
          /\ UNCHANGED crashed
       \/ /\ k \in Samples
          /\ result' = [result EXCEPT ![k] = "panicked"]
          /\ UNCHANGED crashed
       \/ /\ k = Closer
          /\ crashed' = TRUE
          /\ UNCHANGED result

\* A nil p.cmd is dereferenced.  In a worker safeGrade recovers it, and the deferred
\* unlocks and the deferred cancel still run; anywhere else it ends the program.
Panic(k) ==
    /\ killing' = [killing EXCEPT ![k] = "no"]
    /\ \/ /\ k \in Workers
          /\ result' = [result EXCEPT ![sample[k]] = "panicked"]
          /\ UNCHANGED crashed
       \/ /\ k \notin Workers
          /\ crashed' = TRUE
          /\ UNCHANGED result

\* killTree(p.cmd)
Kill(k) ==
    /\ ~crashed /\ killing[k] = "kill"
    /\ LET c == cmd[target[k]]
       IN \/ /\ c = 0
             /\ Panic(k)
             /\ UNCHANGED alive
          \/ /\ c # 0
             /\ alive' = alive \ {c}
             /\ killing' = [killing EXCEPT ![k] = "wait"]
             /\ UNCHANGED <<result, crashed>>
    /\ UNCHANGED <<target, born, stdinOpen, reaped, asked, answer, got, poolVars, procVars,
                   watchVars, runVars, workerVars>>

\* p.cmd.Wait()
Wait(k) ==
    /\ ~crashed /\ killing[k] = "wait"
    /\ LET c == cmd[target[k]]
       IN \/ /\ c = 0
             /\ Panic(k)
             /\ UNCHANGED reaped
          \/ /\ c # 0 /\ c \notin alive
             /\ reaped' = reaped \cup {c}
             /\ killing' = [killing EXCEPT ![k] = "clear"]
             /\ UNCHANGED <<result, crashed>>
    /\ UNCHANGED <<target, born, alive, stdinOpen, asked, answer, got, poolVars, procVars,
                   watchVars, runVars, workerVars>>

\* p.cmd = nil
Clear(k) ==
    /\ ~crashed /\ killing[k] = "clear"
    /\ cmd' = [cmd EXCEPT ![target[k]] = 0]
    /\ killing' = [killing EXCEPT ![k] = "no"]
    /\ UNCHANGED <<target, pipe, shut, poolVars, childVars, watchVars, runVars, workerVars, resultVars>>

-----------------------------------------------------------------------------
(* Watchers, the closing of the pool, and the children *)

\* Slip: the watcher notices the end of the context and does nothing about it.
WatcherKillsNot(s) ==
    /\ ~crashed /\ watcher[s] = "waiting" /\ ctx[s] # "open"
    /\ watcher' = [watcher EXCEPT ![s] = "gone"]
    /\ UNCHANGED <<watched, done, poolVars, procVars, childVars, killVars, runVars, workerVars, resultVars>>

WatcherKills(s) ==
    /\ ~crashed /\ watcher[s] = "waiting" /\ ctx[s] # "open"
    /\ watcher' = [watcher EXCEPT ![s] = "killing"]
    /\ EnterKill(s, watched[s])
    /\ UNCHANGED <<watched, done, born, alive, reaped, asked, answer, poolVars, procVars, runVars,
                   workerVars, resultVars>>

WatcherEnds(s) ==
    /\ ~crashed
    /\ \/ watcher[s] = "waiting" /\ s \in done
       \/ watcher[s] = "killing" /\ killing[s] = "no"
    /\ watcher' = [watcher EXCEPT ![s] = "gone"]
    /\ UNCHANGED <<watched, done, poolVars, procVars, childVars, killVars, runVars, workerVars, resultVars>>

RunOver == (todo = {} \/ stopped) /\ \A w \in Workers : wpc[w] = "idle"

\* Pool.Close, deferred by Run: each Process in turn.
ClosePool ==
    /\ ~crashed /\ RunOver /\ killing[Closer] = "no"
    /\ \E p \in 1..made :
          /\ target[Closer] < p /\ \A q \in 1..made : target[Closer] < q => p <= q
          /\ shut' = shut \cup {p}
          /\ EnterKill(Closer, p)
    /\ UNCHANGED <<cmd, pipe, born, alive, reaped, asked, answer, poolVars, watchVars, runVars,
                   workerVars, resultVars>>

\* A child answers each request with one line, or never.
ChildAnswers(c) ==
    /\ ~crashed /\ c \in alive /\ asked[c] # None /\ answer[c] = None
    /\ answer' = [answer EXCEPT ![c] = asked[c]]
    /\ asked' = [asked EXCEPT ![c] = None]
    /\ UNCHANGED <<born, alive, stdinOpen, reaped, poolVars, procVars, watchVars, killVars, runVars,
                   workerVars, resultVars>>

ChildCrashes(c) ==
    /\ ~crashed /\ "crash" \in Faults /\ c \in alive
    /\ alive' = alive \ {c}
    /\ UNCHANGED <<born, stdinOpen, reaped, asked, answer, poolVars, procVars, watchVars, killVars,
                   runVars, workerVars, resultVars>>

-----------------------------------------------------------------------------

Worker(w) ==
    \/ Take(w) \/ Acquire(w) \/ CallRunning(w) \/ CallStarts(w) \/ CallCannotStart(w)
    \/ Write(w) \/ ReadAnswer(w) \/ ReadTorn(w) \/ ReadFails(w) \/ ReadTooLong(w)
    \/ Return(w) \/ Release(w) \/ Closed(w) \/ Finish(w)

KillStep(k) == Kill(k) \/ Wait(k) \/ Clear(k)

Watcher(s) == WatcherKills(s) \/ WatcherEnds(s)

PoolClosed == RunOver /\ target[Closer] = made /\ killing[Closer] = "no"

Terminating ==
    /\ crashed \/ (PoolClosed /\ \A s \in Samples : watcher[s] \in {"none", "gone"})
    /\ UNCHANGED vars

Next ==
    \/ Stop \/ ClosePool
    \/ \E w \in Workers : Worker(w) \/ TimeOut(w)
    \/ \E s \in Samples : Watcher(s)
    \/ \E k \in Killers : KillStep(k)
    \/ \E c \in Children : ChildAnswers(c) \/ ChildCrashes(c)
    \/ Terminating

Spec == Init /\ [][Next]_vars

\* Every goroutine that can move is run; a child owes nothing, not even an answer.
Fairness ==
    /\ \A w \in Workers : WF_vars(Worker(w))
    /\ \A s \in Samples : WF_vars(Watcher(s))
    /\ \A k \in Killers : WF_vars(KillStep(k))

FairSpec == Spec /\ Fairness

-----------------------------------------------------------------------------
(* Properties *)

\* subprocess.go:84-86, :292-296, stdiojsonl.go:75-77: no sample is given the verdict of
\* another one, however calls are cancelled, children die and watchers are scheduled.
AnswerIsOwn ==
    \A s \in Samples :
        /\ got[s] \in {None, s}
        /\ result[s] = "answer" => got[s] = s

\* Between Acquire and the end of Release.
Holds(w) == wpc[w] \notin {"idle", "acquire", "finish"}

\* subprocess.go:51-53, :250-251: a Process serves one sample at a time and is never both
\* idle and in use; one that was closed is in nobody's hands but those closing it.
ExclusiveUse ==
    /\ \A v, w \in Workers : Holds(v) /\ Holds(w) /\ proc[v] = proc[w] => v = w
    /\ \A i \in DOMAIN idle : /\ \A w \in Workers : Holds(w) => proc[w] # idle[i]
                              /\ \A j \in DOMAIN idle : idle[i] = idle[j] => i = j
                              /\ RunOver \/ idle[i] \notin shut

\* The comment in Call, subprocess.go:100-102: a cancellation is reported as such, not as
\* the I/O error of the kill.  With children that stay up, "failed" never happens.
FailedOnlyByChild ==
    Faults = {} => \A s \in Samples : result[s] # "failed"

\* The comment on killLocked, subprocess.go:229-230: without the lock it only runs for a
\* process that is being torn down, so it finds the child it came for and the program
\* survives it.
WatcherSurvives == ~crashed

\* stdiojsonl.go:120-122: an ended context ends its Call, even with a child that never
\* answers.
EndedContextEndsCall ==
    \A s \in Samples :
        (\E w \in Workers : sample[w] = s /\ wpc[w] \in {"write", "read"} /\ ctx[s] # "open")
            ~> (crashed \/ s \in done)

\* The whole of the run then winds up: the worker gives its Process back or closes it.
StopFreesWorkers ==
    stopped ~> (crashed \/ \A w \in Workers : wpc[w] = "idle")

-----------------------------------------------------------------------------
(* Subprocess implements GraderCalls *)

\* The samples in the workers' hands.  What their Grade came to is not handed back before
\* Finish: until then the Close of a failed Process may still panic.
Busy == {w \in Workers : wpc[w] # "idle"}
InHand == {sample[w] : w \in Busy}
HandedBack == [s \in Samples |-> IF s \in InHand THEN "none" ELSE result[s]]
GivenTo == [s \in Samples |-> IF HandedBack[s] = "answer" THEN got[s] ELSE None]

G == INSTANCE GraderCalls WITH
        Sturdy <- Faults = {}, hand <- [w \in Busy |-> sample[w]],
        verdict <- HandedBack, giver <- GivenTo, dead <- crashed

\* stdiojsonl.go:75-90, subprocess.go:84-104, runner.go:316-336 and :347-361: a sample is graded
\* once, by one worker, what is handed back for it is final and, if an answer, its own; a
\* cancellation follows a stop and a deadline a timeout; and as long as no context ends
\* nobody panics, and no Grader is reported broken whose children stay up.
ImplementsGraderCalls == G!Spec
=============================================================================
