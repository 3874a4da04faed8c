------------------------------- MODULE EvalRun -------------------------------
(***************************************************************************)
(* evalexec.Run as the command runs it: the pre-checks, the pending        *)
(* directory beside the target, the run itself, the publication by rename, *)
(* the exit code, and the signals that may arrive in between.  Several     *)
(* processes may be given the same output directory and the same dataset.  *)
(*                                                                         *)
(* What internal/runner does is one step here (see Runner and Ledger): it  *)
(* comes back with a record for every row it read, or with an error.       *)
(***************************************************************************)
EXTENDS Naturals, FiniteSets

CONSTANTS
    Runs,           \* the processes
    Ids,            \* the sanitized eval_ids they may have
    SameIdOverlaps, \* FALSE: a process starts only when those with its eval_id have ended
    Targets,        \* what the output directory may be at first
    MaxEdits,       \* bound on the changes to the dataset
    Faults          \* what may go wrong

FaultKinds == {"check",     \* a pre-check refuses the request
               "runtime",   \* the run fails as a whole
               "output",    \* the file system refuses a write
              "remove",    \* the file system refuses a removal
               "kill"}      \* the process dies without running its deferred calls

ASSUME RunsAssumption == Runs # {} /\ IsFiniteSet(Runs) /\ Runs \cap {"absent", "empty", "full", "none"} = {}
ASSUME IdsAssumption == Ids # {} /\ "target" \notin Ids
ASSUME SwitchAssumption == SameIdOverlaps \in BOOLEAN
ASSUME TargetsAssumption == Targets # {} /\ Targets \subseteq {"absent", "empty", "full"}
ASSUME MaxEditsAssumption == MaxEdits \in Nat
ASSUME FaultAssumption == Faults \subseteq FaultKinds

VARIABLES
    evalId,     \* the sanitized eval_id of each process
    dataset,    \* the file: how often it was changed, and its rows
    entry,      \* the directory each name leads to
    files,      \* what is in the directory each process makes
    pc,
    rows,       \* report.Rows
    summed,     \* the version of the dataset the digest was taken over
    graded,     \* the version of the dataset the records are about
    handle,     \* the directory in which records.jsonl was opened
    status,     \* status and stop reason of the result
    signals,    \* signals received
    ending,     \* how the process ended
    unremoved   \* history: those whose pending directory could not be discarded

vars == <<evalId, unremoved, dataset, entry, files, pc, rows, summed, graded, handle, status, signals, ending>>

None == "none"
Target == "target"

Names == {Target} \cup Ids

\* The pending directory is named by the target and the sanitized eval_id.
Tmp(r) == evalId[r]

Signals == 3    \* interruptsBeforeForcedExit
Versions == 0..MaxEdits

\* records.jsonl is known by who writes to it and who has closed it, result.json by
\* its author, checksums.sha256 by what it covers.
Covered == [records : SUBSET Runs, closed : SUBSET Runs, result : Runs \cup {None}]
Directory == [records : SUBSET Runs, closed : SUBSET Runs, result : Runs \cup {None},
              checksums : {{}} \cup {{c} : c \in Covered}]
EmptyDirectory == [records |-> {}, closed |-> {}, result |-> None, checksums |-> {}]

TypeOK ==
    /\ evalId \in [Runs -> Ids]
    /\ dataset \in [version : Versions, rows : {1, 2}]
    /\ entry \in [Names -> Runs \cup Targets \cup {"absent"}]
    /\ files \in [Runs -> Directory]
    /\ pc \in [Runs -> {"start", "checked", "built", "cleared", "made", "grading", "graded", "written",
                        "covered", "renaming", "published", "discard", "ended"}]
    /\ rows \in [Runs -> 0..2]
    /\ summed \in [Runs -> Versions] /\ graded \in [Runs -> Versions]
    /\ handle \in [Runs -> Runs \cup {None}]
    /\ status \in [Runs -> {"none", "completed", "fail_fast", "interrupt", "runtime", "output"}]
    /\ signals \in [Runs -> 0..Signals]
    /\ ending \in [Runs -> {"running", "ok", "interrupted", "rejected", "runtime", "output",
                            "forced", "killed"}]
    /\ unremoved \subseteq Runs

Init ==
    /\ evalId \in [Runs -> Ids]
    /\ dataset = [version |-> 0, rows |-> 1]
    /\ \E t \in Targets : entry = [n \in Names |-> IF n = Target THEN t ELSE "absent"]
    /\ files = [r \in Runs |-> EmptyDirectory]
    /\ pc = [r \in Runs |-> "start"]
    /\ rows = [r \in Runs |-> 0]
    /\ summed = [r \in Runs |-> 0] /\ graded = [r \in Runs |-> 0]
    /\ handle = [r \in Runs |-> None]
    /\ status = [r \in Runs |-> "none"]
    /\ signals = [r \in Runs |-> 0]
    /\ ending = [r \in Runs |-> "running"]
    /\ unremoved = {}

-----------------------------------------------------------------------------
(* Steps of a process *)

Move(r, at) == pc' = [pc EXCEPT ![r] = at]

\* exitcode: how a process ends by itself.
Exit(r, how) ==
    /\ Move(r, "ended")
    /\ ending' = [ending EXCEPT ![r] = how]

\* Slip: the error is dropped.
FailUnreported(r, kind) == Move(r, "discard") /\ UNCHANGED status

\* An error once the pending directory exists: discard it, then report the error.
Fail(r, kind) ==
    /\ Move(r, "discard")
    /\ status' = [status EXCEPT ![r] = kind]

\* The directory a name leads to is gone, or has nothing in it.
Free(n) == entry[n] = "absent"
Empty(n) == entry[n] = "empty" \/ (entry[n] \in Runs /\ files[entry[n]] = EmptyDirectory)

\* What the pending directory has in it, wherever its name leads by now.
Pending(r) == files[entry[Tmp(r)]]

\* os.RemoveAll of the pending directory, whoever made it.
RemoveTmp(r) ==
    LET d == entry[Tmp(r)]
    IN /\ entry' = [entry EXCEPT ![Tmp(r)] = "absent"]
       /\ files' = IF d \in Runs THEN [files EXCEPT ![d] = EmptyDirectory] ELSE files

\* What a removal that failed may leave of a directory: any of its files.
Remains(d) ==
    {[records |-> d.records \cap k, closed |-> d.closed \cap k, result |-> n, checksums |-> c] :
        k \in {{}, Runs}, n \in {None, d.result}, c \in {{}, d.checksums}}

RemoveTmpFails(r) ==
    /\ "remove" \in Faults /\ entry[Tmp(r)] \in Runs
    /\ \E d \in Remains(Pending(r)) : files' = [files EXCEPT ![entry[Tmp(r)]] = d]
    /\ UNCHANGED entry

\* validate.All: step 2 looks at the output directory, step 5 counts the rows.
Check(r) ==
    /\ pc[r] = "start"
    /\ SameIdOverlaps \/ \A q \in Runs \ {r} : evalId[q] = evalId[r] => pc[q] \in {"start", "ended"}
    /\ \/ /\ Free(Target) \/ Empty(Target)
          /\ rows' = [rows EXCEPT ![r] = dataset.rows]
          /\ Move(r, "checked")
          /\ UNCHANGED ending
       \/ /\ ~Free(Target) /\ ~Empty(Target)
          /\ Exit(r, "output")
          /\ UNCHANGED rows
    /\ UNCHANGED <<evalId, unremoved, dataset, entry, files, summed, graded, handle, status, signals>>

\* Any other pre-check, or building the Judge or the Grader, refuses the request.
CheckFails(r) ==
    /\ "check" \in Faults /\ pc[r] \in {"start", "checked"}
    /\ Exit(r, "rejected")
    /\ UNCHANGED <<evalId, unremoved, dataset, entry, files, rows, summed, graded, handle, status, signals>>

\* fileSHA256 of the dataset, after the Judge and the Grader are built.
Build(r) ==
    /\ pc[r] = "checked"
    /\ \/ /\ summed' = [summed EXCEPT ![r] = dataset.version]
          /\ Move(r, "built")
          /\ UNCHANGED ending
       \/ /\ "runtime" \in Faults
          /\ Exit(r, "runtime")
          /\ UNCHANGED summed
    /\ UNCHANGED <<evalId, unremoved, dataset, entry, files, rows, graded, handle, status, signals>>

\* result.Create makes the parent of the target and clears a pending directory that an
\* earlier process left behind ...
ClearTmp(r) ==
    /\ pc[r] = "built"
    /\ \/ RemoveTmp(r) /\ Move(r, "cleared") /\ UNCHANGED ending
       \/ "output" \in Faults /\ Exit(r, "output") /\ UNCHANGED <<entry, files>>
       \/ RemoveTmpFails(r) /\ Exit(r, "output")
    /\ UNCHANGED <<evalId, unremoved, dataset, rows, summed, graded, handle, status, signals>>

\* ... and makes its own.
MakeTmp(r) ==
    /\ pc[r] = "cleared"
    /\ \/ /\ Free(Tmp(r))
          /\ entry' = [entry EXCEPT ![Tmp(r)] = r]
          /\ Move(r, "made")
          /\ UNCHANGED ending
       \/ /\ ~Free(Tmp(r)) \/ "output" \in Faults
          /\ Exit(r, "output")
          /\ UNCHANGED entry
    /\ UNCHANGED <<evalId, unremoved, dataset, files, rows, summed, graded, handle, status, signals>>

\* A step that writes into the pending directory, if it is still there.
WriteTmp(r, from, to, contents) ==
    /\ pc[r] = from
    /\ \/ /\ entry[Tmp(r)] \in Runs
          /\ files' = [files EXCEPT ![entry[Tmp(r)]] = contents]
          /\ Move(r, to)
          /\ UNCHANGED status
       \/ /\ entry[Tmp(r)] \notin Runs \/ "output" \in Faults
          /\ Fail(r, "output")
          /\ UNCHANGED files

\* execute creates records.jsonl: the one file that is held open from then on.
OpenRecords(r) ==
    /\ WriteTmp(r, "made", "grading", [Pending(r) EXCEPT !.records = @ \cup {r}])
    /\ handle' = [handle EXCEPT ![r] = IF entry[Tmp(r)] \in Runs THEN entry[Tmp(r)] ELSE @]
    /\ UNCHANGED <<evalId, unremoved, dataset, entry, rows, summed, graded, signals, ending>>

\* Slip: the records are left open.
CloseRecordsNot(r) == UNCHANGED files

\* records.Close: of no effect on a directory whose records.jsonl was removed meanwhile.
CloseRecords(r) ==
    files' = [files EXCEPT ![handle[r]].closed = @ \cup ({r} \cap files[handle[r]].records)]

\* runner.Run reads the dataset once more and returns its records, as many as it has rows
\* now; the records are closed, counted against the pre-check, and the result is put
\* together.  An interrupt is the reason only of a run that got a signal.
Grade(r) ==
    /\ pc[r] = "grading"
    /\ graded' = [graded EXCEPT ![r] = dataset.version]
    /\ CloseRecords(r)
    /\ \E s \in {"completed", "fail_fast", "interrupt"} :
          /\ s = "interrupt" => signals[r] > 0
          /\ IF rows[r] = dataset.rows THEN status' = [status EXCEPT ![r] = s] /\ Move(r, "graded")
                                       ELSE Fail(r, "runtime")
    /\ UNCHANGED <<evalId, unremoved, dataset, entry, rows, summed, handle, signals, ending>>

\* runner.Run, closing the records or the validation of the result fails.
GradeFails(r) ==
    /\ pc[r] = "grading"
    /\ CloseRecords(r)
    /\ \E kind \in {"runtime", "output"} \cap Faults : Fail(r, kind)
    /\ UNCHANGED <<evalId, unremoved, dataset, entry, rows, summed, graded, handle, signals, ending>>

WriteResult(r) ==
    /\ WriteTmp(r, "graded", "written", [Pending(r) EXCEPT !.result = r])
    /\ UNCHANGED <<evalId, unremoved, dataset, entry, rows, summed, graded, handle, signals, ending>>

Covers(d) == [records |-> d.records, closed |-> d.closed, result |-> d.result]

\* Publish, first part: checksums of what is there; a missing file is passed over.
WriteChecksums(r) ==
    /\ WriteTmp(r, "written", "covered", [Pending(r) EXCEPT !.checksums = {Covers(Pending(r))}])
    /\ UNCHANGED <<evalId, unremoved, dataset, entry, rows, summed, graded, handle, signals, ending>>

\* os.Rename refuses a target that is a directory, an empty one included, ...
RenameChecks(r) ==
    /\ pc[r] = "covered"
    /\ \/ Free(Target) /\ Move(r, "renaming") /\ UNCHANGED status
       \/ ~Free(Target) /\ Fail(r, "output")
    /\ UNCHANGED <<evalId, unremoved, dataset, entry, files, rows, summed, graded, handle, signals, ending>>

\* ... and only then renames: rename(2) itself refuses a directory with something in it.
Rename(r) ==
    /\ pc[r] = "renaming"
    /\ \/ /\ entry[Tmp(r)] \in Runs /\ (Free(Target) \/ Empty(Target))
          /\ entry' = [entry EXCEPT ![Target] = entry[Tmp(r)], ![Tmp(r)] = "absent"]
          /\ Move(r, "published")
          /\ UNCHANGED status
       \/ /\ entry[Tmp(r)] \notin Runs \/ ~(Free(Target) \/ Empty(Target)) \/ "output" \in Faults
          /\ Fail(r, "output")
          /\ UNCHANGED entry
    /\ UNCHANGED <<evalId, unremoved, dataset, files, rows, summed, graded, handle, signals, ending>>

\* Slip: a run that failed keeps its pending directory.
DiscardNot(r) ==
    /\ pc[r] = "discard"
    /\ Exit(r, status[r])
    /\ UNCHANGED <<evalId, unremoved, dataset, entry, files, rows, summed, graded, handle, status, signals>>

\* Run discards the directory and returns the first error: whether the removal works is not
\* looked at.
Discard(r) ==
    /\ pc[r] = "discard"
    /\ \/ RemoveTmp(r) /\ UNCHANGED unremoved
       \/ RemoveTmpFails(r) /\ unremoved' = unremoved \cup {r}
    /\ Exit(r, status[r])
    /\ UNCHANGED <<evalId, dataset, rows, summed, graded, handle, status, signals>>

\* exitcode.FromResult: a fail-fast stop is no failure of the command.
Finish(r) ==
    /\ pc[r] = "published"
    /\ Exit(r, IF status[r] = "interrupt" THEN "interrupted" ELSE "ok")
    /\ UNCHANGED <<evalId, unremoved, dataset, entry, files, rows, summed, graded, handle, status, signals>>

-----------------------------------------------------------------------------
(* The environment *)

\* The first signal cancels the context, the second is ignored, the third exits.
Signal(r) ==
    /\ pc[r] \notin {"start", "ended"} /\ signals[r] < Signals
    /\ signals' = [signals EXCEPT ![r] = @ + 1]
    /\ IF signals[r] + 1 = Signals THEN Exit(r, "forced") ELSE UNCHANGED <<pc, ending>>
    /\ UNCHANGED <<evalId, unremoved, dataset, entry, files, rows, summed, graded, handle, status>>

Kill(r) ==
    /\ "kill" \in Faults /\ pc[r] \notin {"start", "ended"}
    /\ Exit(r, "killed")
    /\ UNCHANGED <<evalId, unremoved, dataset, entry, files, rows, summed, graded, handle, status, signals>>

\* Somebody changes the dataset, with or without adding a row.
EditDataset ==
    /\ dataset.version < MaxEdits
    /\ \E n \in {dataset.rows, 2} : dataset' = [version |-> dataset.version + 1, rows |-> n]
    /\ UNCHANGED <<evalId, unremoved, entry, files, pc, rows, summed, graded, handle, status, signals, ending>>

Process(r) ==
    \/ Check(r) \/ CheckFails(r) \/ Build(r) \/ ClearTmp(r) \/ MakeTmp(r) \/ OpenRecords(r)
    \/ Grade(r) \/ GradeFails(r) \/ WriteResult(r) \/ WriteChecksums(r)
    \/ RenameChecks(r) \/ Rename(r) \/ Discard(r) \/ Finish(r)

Terminating == (\A r \in Runs : pc[r] = "ended") /\ UNCHANGED vars

Next ==
    \/ \E r \in Runs : Process(r) \/ Signal(r) \/ Kill(r)
    \/ EditDataset \/ Terminating

Spec == Init /\ [][Next]_vars

-----------------------------------------------------------------------------
(* Properties *)

\* A directory with all that one process writes, and nothing of another.
Whole(d, r) ==
    /\ d.records = {r} /\ d.closed = {r} /\ d.result = r
    /\ d.checksums = {Covers(d)}

\* The target as an onlooker sees it.
Seen ==
    IF entry[Target] \notin Runs THEN entry[Target]
    ELSE IF \E r \in Runs : Whole(files[entry[Target]], r) THEN files[entry[Target]].result
    ELSE "broken"

P == INSTANCE Publication WITH target <- Seen

\* Run publishes a whole result or none, replaces nothing, and the exit code tells which,
\* whatever the other processes, the faults and the signals do in between.
ImplementsPublication == P!Spec

\* evalexec.go:287-301: a process that ends by itself leaves no pending directory of its
\* own behind, at whatever point it failed, unless removing it is what failed.
NoLitter ==
    \A r \in Runs \ unremoved : ending[r] \notin {"running", "forced", "killed"} =>
        \A n \in Names \ {Target} : entry[n] # r
=============================================================================
