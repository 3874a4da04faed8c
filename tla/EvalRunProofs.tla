---------------------------- MODULE EvalRunProofs ----------------------------
(***************************************************************************)
(* What EvalRun keeps for any number of processes, eval_ids, changes of    *)
(* the dataset and faults.  The state stays in its type whatever happens;  *)
(* the rest holds as long as no two live processes share an eval_id, which *)
(* is what SameIdOverlaps = FALSE says.                                    *)
(***************************************************************************)
EXTENDS EvalRun, TLAPS

USE RunsAssumption, IdsAssumption, TargetsAssumption, MaxEditsAssumption

\* What is being discarded has failed, so its exit code is that of an error.
DiscardInv == \A r \in Runs : pc[r] = "discard" => status[r] \in {"runtime", "output"}

LEMMA TypeInit == Init => TypeOK /\ DiscardInv
  <1> SUFFICES ASSUME Init PROVE TypeOK /\ DiscardInv
    OBVIOUS
  <1>1. EmptyDirectory \in Directory
    BY DEF EmptyDirectory, Directory
  <1>2. 0 \in Versions
    BY DEF Versions
  <1>3. entry \in [Names -> Runs \cup Targets \cup {"absent"}]
    BY DEF Init, Names
  <1> QED
    BY <1>1, <1>2, <1>3 DEF Init, TypeOK, DiscardInv, Signals

\* The steps that write no file.
LEMMA TypeStepApart ==
  ASSUME TypeOK, DiscardInv, NEW r \in Runs,
         Check(r) \/ CheckFails(r) \/ Build(r) \/ RenameChecks(r) \/ Finish(r) \/ Signal(r) \/ Kill(r) \/ EditDataset
  PROVE  TypeOK' /\ DiscardInv'
  <1>1. CASE Check(r)
    BY <1>1 DEF TypeOK, DiscardInv, Check, Move, Exit
  <1>2. CASE CheckFails(r)
    BY <1>2 DEF TypeOK, DiscardInv, CheckFails, Move, Exit
  <1>3. CASE Build(r)
    BY <1>3 DEF TypeOK, DiscardInv, Build, Move, Exit
  <1>4. CASE RenameChecks(r)
    BY <1>4 DEF TypeOK, DiscardInv, RenameChecks, Move, Fail
  <1>5. CASE Finish(r)
    BY <1>5 DEF TypeOK, DiscardInv, Finish, Move, Exit
  <1>6. CASE Signal(r)
    BY <1>6 DEF TypeOK, DiscardInv, Signal, Move, Exit, Signals
  <1>7. CASE Kill(r)
    BY <1>7 DEF TypeOK, DiscardInv, Kill, Move, Exit
  <1>8. CASE EditDataset
    BY <1>8 DEF TypeOK, DiscardInv, EditDataset, Versions
  <1> QED
    BY <1>1, <1>2, <1>3, <1>4, <1>5, <1>6, <1>7, <1>8

LEMMA TmpIsName == ASSUME TypeOK, NEW r \in Runs PROVE Tmp(r) \in Names /\ Tmp(r) # Target
  BY DEF TypeOK, Tmp, Names, Target

LEMMA RemoveTmpTyped ==
  ASSUME TypeOK, NEW r \in Runs, RemoveTmp(r)
  PROVE  entry' \in [Names -> Runs \cup Targets \cup {"absent"}] /\ files' \in [Runs -> Directory]
  <1>1. EmptyDirectory \in Directory
    BY DEF EmptyDirectory, Directory
  <1> QED
    BY <1>1, TmpIsName DEF TypeOK, RemoveTmp

LEMMA RemoveTmpFailsTyped ==
  ASSUME TypeOK, NEW r \in Runs, RemoveTmpFails(r)
  PROVE  UNCHANGED entry /\ files' \in [Runs -> Directory]
  <1>1. Pending(r) \in Directory /\ entry[Tmp(r)] \in Runs
    BY DEF TypeOK, RemoveTmpFails, Pending
  <1>2. Remains(Pending(r)) \subseteq Directory
    BY <1>1 DEF Remains, Directory
  <1> QED
    BY <1>1, <1>2 DEF TypeOK, RemoveTmpFails

\* The steps that make, remove or rename the pending directory.
LEMMA TypeStepNames ==
  ASSUME TypeOK, DiscardInv, NEW r \in Runs, ClearTmp(r) \/ MakeTmp(r) \/ Rename(r) \/ Discard(r)
  PROVE  TypeOK' /\ DiscardInv'
  <1>1. CASE ClearTmp(r)
    BY <1>1, RemoveTmpTyped, RemoveTmpFailsTyped DEF TypeOK, DiscardInv, ClearTmp, Move, Exit
  <1>2. CASE MakeTmp(r)
    BY <1>2, TmpIsName DEF TypeOK, DiscardInv, MakeTmp, Move, Exit
  <1>3. CASE Rename(r)
    BY <1>3, TmpIsName DEF TypeOK, DiscardInv, Rename, Move, Fail, Names
  <1>4. CASE Discard(r)
    BY <1>4, RemoveTmpTyped, RemoveTmpFailsTyped DEF TypeOK, DiscardInv, Discard, Move, Exit
  <1> QED
    BY <1>1, <1>2, <1>3, <1>4

LEMMA EntriesTyped ==
  ASSUME NEW d \in Directory, NEW r \in Runs
  PROVE  /\ [d EXCEPT !.records = d.records \cup {r}] \in Directory
         /\ [d EXCEPT !.closed = d.closed \cup ({r} \cap d.records)] \in Directory
         /\ [d EXCEPT !.result = r] \in Directory
  BY DEF Directory

LEMMA CloseRecordsTyped == ASSUME TypeOK, NEW r \in Runs, CloseRecords(r) PROVE files' \in [Runs -> Directory]
  <1>1. CASE handle[r] \in Runs
    <2>1. files[handle[r]] \in Directory
      BY <1>1 DEF TypeOK
    <2> QED
      BY <1>1, <2>1, EntriesTyped DEF TypeOK, CloseRecords
  <1>2. CASE handle[r] \notin Runs
    BY ZenonT(30), <1>2 DEF TypeOK, CloseRecords
  <1> QED
    BY <1>1, <1>2

\* The steps that write into the pending directory.
LEMMA TypeStepWrites ==
  ASSUME TypeOK, DiscardInv, NEW r \in Runs,
         OpenRecords(r) \/ Grade(r) \/ GradeFails(r) \/ WriteResult(r) \/ WriteChecksums(r)
  PROVE  TypeOK' /\ DiscardInv'
  <1> DEFINE here == Pending(r)
  <1>0. entry[Tmp(r)] \in Runs => here \in Directory
    BY DEF TypeOK, Pending
  <1>1. CASE OpenRecords(r)
    <2>1. entry[Tmp(r)] \in Runs => [here EXCEPT !.records = here.records \cup {r}] \in Directory
      BY <1>0, EntriesTyped
    <2> QED
      BY <1>1, <2>1, TmpIsName DEF TypeOK, DiscardInv, OpenRecords, WriteTmp, Move, Fail
  <1>2. CASE Grade(r)
    BY <1>2, CloseRecordsTyped DEF TypeOK, DiscardInv, Grade, Move, Fail
  <1>3. CASE GradeFails(r)
    <2>1. PICK kind \in {"runtime", "output"} : Fail(r, kind)
      BY <1>3 DEF GradeFails
    <2> QED
      BY <1>3, <2>1, CloseRecordsTyped DEF TypeOK, DiscardInv, GradeFails, Move, Fail
  <1>4. CASE WriteResult(r)
    <2>1. entry[Tmp(r)] \in Runs => [here EXCEPT !.result = r] \in Directory
      BY <1>0, EntriesTyped
    <2> QED
      BY <1>4, <2>1 DEF TypeOK, DiscardInv, WriteResult, WriteTmp, Move, Fail
  <1>5. CASE WriteChecksums(r)
    <2>1. ASSUME entry[Tmp(r)] \in Runs PROVE [here EXCEPT !.checksums = {Covers(here)}] \in Directory
      <3>1. Covers(here) \in Covered
        BY <1>0, <2>1 DEF Covers, Covered, Directory
      <3> QED
        BY <1>0, <2>1, <3>1 DEF Directory
    <2> QED
      BY <1>5, <2>1 DEF TypeOK, DiscardInv, WriteChecksums, WriteTmp, Move, Fail
  <1> QED
    BY <1>1, <1>2, <1>3, <1>4, <1>5

LEMMA TypeStep == TypeOK /\ DiscardInv /\ [Next]_vars => TypeOK' /\ DiscardInv'
  <1> SUFFICES ASSUME TypeOK, DiscardInv, [Next]_vars PROVE TypeOK' /\ DiscardInv'
    OBVIOUS
  <1>1. CASE \E r \in Runs : Process(r) \/ Signal(r) \/ Kill(r)
    BY <1>1, TypeStepApart, TypeStepNames, TypeStepWrites DEF Process
  <1>2. CASE EditDataset
    BY <1>2, TypeStepApart
  <1>3. CASE UNCHANGED vars
    BY <1>3 DEF TypeOK, DiscardInv, vars
  <1> QED
    BY <1>1, <1>2, <1>3 DEF Next, Terminating

\* Every variable stays in its type, whoever overlaps with whom.
THEOREM TypeCorrect == Spec => []TypeOK
  BY TypeInit, TypeStep, PTL DEF Spec

-----------------------------------------------------------------------------
(* Processes that do not share a pending directory *)

\* A process that has a pending directory, or is about to, is the only one of its
\* eval_id.
Underway(r) == pc[r] \notin {"start", "ended"}
AloneInv == \A q, r \in Runs : q # r /\ evalId[q] = evalId[r] => ~(Underway(q) /\ Underway(r))

EndInv ==
    /\ \A r \in Runs : pc[r] = "ended" <=> ending[r] # "running"
    /\ \A r \in unremoved : pc[r] = "ended"

\* Where the directory of a process is: nowhere, under its own name, or at the target.
Before == {"start", "checked", "built", "cleared"}
Making == {"made", "grading", "graded", "written", "covered", "renaming", "discard"}
Silent == {"forced", "killed"}

NameInv ==
    /\ \A n \in Ids : entry[n] \in Runs =>
           /\ evalId[entry[n]] = n
           /\ pc[entry[n]] \in Making \/ ending[entry[n]] \in Silent \/ entry[n] \in unremoved
    /\ \A n \in Ids : entry[n] \in Runs \cup {"absent"}
    /\ \A r \in Runs : pc[r] = "cleared" => entry[evalId[r]] = "absent"
    /\ \A r \in Runs : pc[r] \in Making => entry[evalId[r]] = r

\* What is in that directory, as far as the process has come.
Opened(r) == [EmptyDirectory EXCEPT !.records = {r}]
Closed(r) == [EmptyDirectory EXCEPT !.records = {r}, !.closed = {r}]
Reported(r) == [EmptyDirectory EXCEPT !.records = {r}, !.closed = {r}, !.result = r]

Content(r) ==
    /\ pc[r] \in Before \cup {"made"} => files[r] = EmptyDirectory
    /\ pc[r] = "grading" => files[r] = Opened(r) /\ handle[r] = r
    /\ pc[r] = "graded" => files[r] = Closed(r)
    /\ pc[r] = "written" => files[r] = Reported(r)
    /\ pc[r] \in {"covered", "renaming"} => Whole(files[r], r)
ContentInv == \A r \in Runs : Content(r)

\* The target has the whole directory of one process, which has no other name.
TargetInv ==
    \A r \in Runs : entry[Target] = r =>
        /\ Whole(files[r], r)
        /\ pc[r] \in {"published", "ended"}
        /\ ending[r] \in {"running", "ok", "interrupted"} \cup Silent
        /\ \A n \in Ids : entry[n] # r

PublishedInv ==
    \A r \in Runs :
        /\ pc[r] = "published" \/ ending[r] \in {"ok", "interrupted"} => entry[Target] = r
        /\ pc[r] \in {"graded", "written", "covered", "renaming", "published"} =>
               status[r] \in {"completed", "fail_fast", "interrupt"}

IInv == TypeOK /\ DiscardInv /\ AloneInv /\ EndInv /\ NameInv /\ ContentInv /\ TargetInv /\ PublishedInv

LEMMA AloneStep ==
  ASSUME IInv, ~SameIdOverlaps, NEW r \in Runs, Process(r) \/ Signal(r) \/ Kill(r)
  PROVE  AloneInv'
  <1> USE DEF IInv, TypeOK, AloneInv, Underway, DiscardInv
  <1>1. CASE Check(r)
    BY <1>1 DEF Check, Move, Exit
  <1>2. CASE CheckFails(r)
    BY <1>2 DEF CheckFails, Move, Exit
  <1>3. CASE Build(r)
    BY <1>3 DEF Build, Move, Exit
  <1>4. CASE ClearTmp(r)
    BY <1>4 DEF ClearTmp, RemoveTmp, RemoveTmpFails, Tmp, Move, Exit
  <1>5. CASE MakeTmp(r)
    BY <1>5 DEF MakeTmp, Tmp, Free, Move, Exit
  <1>6. CASE OpenRecords(r)
    BY <1>6 DEF OpenRecords, WriteTmp, Pending, Tmp, Move, Fail
  <1>7. CASE Grade(r)
    BY <1>7 DEF Grade, CloseRecords, Move, Fail
  <1>8. CASE GradeFails(r)
    BY <1>8 DEF GradeFails, CloseRecords, Move, Fail
  <1>9. CASE WriteResult(r)
    BY <1>9 DEF WriteResult, WriteTmp, Pending, Tmp, Move, Fail
  <1>10. CASE WriteChecksums(r)
    BY <1>10 DEF WriteChecksums, WriteTmp, Pending, Tmp, Covers, Move, Fail
  <1>11. CASE RenameChecks(r)
    BY <1>11 DEF RenameChecks, Move, Fail
  <1>12. CASE Rename(r)
    BY <1>12 DEF Rename, Tmp, Free, Empty, Move, Fail
  <1>13. CASE Discard(r)
    BY <1>13 DEF Discard, RemoveTmp, RemoveTmpFails, Tmp, Move, Exit
  <1>14. CASE Finish(r)
    BY <1>14 DEF Finish, Move, Exit
  <1>15. CASE Signal(r)
    BY <1>15 DEF Signal, Move, Exit, Signals
  <1>16. CASE Kill(r)
    BY <1>16 DEF Kill, Move, Exit
  <1> QED
    BY <1>1, <1>2, <1>3, <1>4, <1>5, <1>6, <1>7, <1>8, <1>9, <1>10, <1>11, <1>12, <1>13, <1>14, <1>15, <1>16 DEF Process

LEMMA EndStep ==
  ASSUME IInv, ~SameIdOverlaps, NEW r \in Runs, Process(r) \/ Signal(r) \/ Kill(r)
  PROVE  EndInv'
  <1> USE DEF IInv, TypeOK, EndInv, PublishedInv, DiscardInv
  <1>1. CASE Check(r)
    BY <1>1 DEF Check, Move, Exit
  <1>2. CASE CheckFails(r)
    BY <1>2 DEF CheckFails, Move, Exit
  <1>3. CASE Build(r)
    BY <1>3 DEF Build, Move, Exit
  <1>4. CASE ClearTmp(r)
    BY <1>4 DEF ClearTmp, RemoveTmp, RemoveTmpFails, Tmp, Move, Exit
  <1>5. CASE MakeTmp(r)
    BY <1>5 DEF MakeTmp, Tmp, Free, Move, Exit
  <1>6. CASE OpenRecords(r)
    BY <1>6 DEF OpenRecords, WriteTmp, Pending, Tmp, Move, Fail
  <1>7. CASE Grade(r)
    BY <1>7 DEF Grade, CloseRecords, Move, Fail
  <1>8. CASE GradeFails(r)
    BY <1>8 DEF GradeFails, CloseRecords, Move, Fail
  <1>9. CASE WriteResult(r)
    BY <1>9 DEF WriteResult, WriteTmp, Pending, Tmp, Move, Fail
  <1>10. CASE WriteChecksums(r)
    BY <1>10 DEF WriteChecksums, WriteTmp, Pending, Tmp, Covers, Move, Fail
  <1>11. CASE RenameChecks(r)
    BY <1>11 DEF RenameChecks, Move, Fail
  <1>12. CASE Rename(r)
    BY <1>12 DEF Rename, Tmp, Free, Empty, Move, Fail
  <1>13. CASE Discard(r)
    BY <1>13 DEF Discard, RemoveTmp, RemoveTmpFails, Tmp, Move, Exit
  <1>14. CASE Finish(r)
    BY <1>14 DEF Finish, Move, Exit
  <1>15. CASE Signal(r)
    BY <1>15 DEF Signal, Move, Exit, Signals
  <1>16. CASE Kill(r)
    BY <1>16 DEF Kill, Move, Exit
  <1> QED
    BY <1>1, <1>2, <1>3, <1>4, <1>5, <1>6, <1>7, <1>8, <1>9, <1>10, <1>11, <1>12, <1>13, <1>14, <1>15, <1>16 DEF Process

\* What a rename does to the names.
LEMMA RenamedEntries ==
  ASSUME TypeOK, NEW r \in Runs,
         entry' = [entry EXCEPT ![Target] = entry[Tmp(r)], ![Tmp(r)] = "absent"]
  PROVE  /\ entry'[Target] = entry[evalId[r]]
         /\ \A n \in Ids : entry'[n] = IF n = evalId[r] THEN "absent" ELSE entry[n]
  <1>1. Target \in Names /\ Target \notin Ids /\ Ids \subseteq Names /\ evalId[r] \in Ids /\ DOMAIN entry = Names
    BY DEF TypeOK, Names, Target
  <1>2. \A n \in Names : entry'[n] = IF n = evalId[r] THEN "absent" ELSE IF n = Target THEN entry[evalId[r]] ELSE entry[n]
    BY <1>1 DEF Tmp
  <1> QED
    BY <1>1, <1>2

LEMMA RenameKeepsNames == ASSUME IInv, NEW r \in Runs, Rename(r) PROVE NameInv'
  <1>1. /\ evalId[r] \in Ids /\ pc[r] = "renaming" /\ UNCHANGED <<evalId, ending, unremoved>>
        /\ entry[evalId[r]] = r /\ TypeOK
    BY DEF Rename, IInv, TypeOK, NameInv, Making
  <1>2. CASE /\ Move(r, "published")
             /\ entry' = [entry EXCEPT ![Target] = entry[Tmp(r)], ![Tmp(r)] = "absent"]
    <2>1. \A n \in Ids : entry'[n] = IF n = evalId[r] THEN "absent" ELSE entry[n]
      BY <1>1, <1>2, RenamedEntries
    <2>2. pc' = [pc EXCEPT ![r] = "published"]
      BY <1>2 DEF Move
    <2>3. \A q \in Runs : q # r /\ pc[q] \in Making => evalId[q] # evalId[r]
      BY <1>1 DEF IInv, NameInv
    <2>4. \A n \in Ids : entry[n] = r => n = evalId[r]
      BY DEF IInv, NameInv
    <2> QED
      BY <1>1, <2>1, <2>2, <2>3, <2>4 DEF IInv, NameInv, TypeOK, Making
  <1>3. CASE Fail(r, "output") /\ UNCHANGED entry
    BY <1>1, <1>3 DEF Fail, Move, IInv, NameInv, TypeOK, Making
  <1> QED
    BY <1>2, <1>3 DEF Rename

LEMMA NameStep ==
  ASSUME IInv, ~SameIdOverlaps, NEW r \in Runs, Process(r) \/ Signal(r) \/ Kill(r)
  PROVE  NameInv'
  <1> USE DEF IInv, TypeOK, NameInv, AloneInv, EndInv, Underway, Making, Silent, DiscardInv, Names, Target
  <1>1. CASE Check(r)
    BY <1>1 DEF Check, Move, Exit
  <1>2. CASE CheckFails(r)
    BY <1>2 DEF CheckFails, Move, Exit
  <1>3. CASE Build(r)
    BY <1>3 DEF Build, Move, Exit
  <1>4. CASE ClearTmp(r)
    <2>0. pc[r] = "built" /\ UNCHANGED <<evalId, unremoved>>
      BY <1>4 DEF ClearTmp
    <2>1. CASE RemoveTmp(r) /\ Move(r, "cleared") /\ UNCHANGED ending
      BY <2>0, <2>1 DEF RemoveTmp, Tmp, Move
    <2>2. CASE UNCHANGED entry /\ Exit(r, "output")
      BY <2>0, <2>2 DEF Exit, Move
    <2> QED
      BY <1>4, <2>1, <2>2 DEF ClearTmp, RemoveTmpFails
  <1>5. CASE MakeTmp(r)
    <2>1. CASE /\ Free(Tmp(r)) /\ Move(r, "made") /\ UNCHANGED ending
               /\ entry' = [entry EXCEPT ![Tmp(r)] = r]
      <3>1. evalId[r] \in Ids /\ evalId[r] # "target" /\ pc[r] = "cleared" /\ UNCHANGED <<evalId, unremoved>>
        BY <1>5 DEF MakeTmp
      <3>2. \A q \in Runs : q # r /\ pc[q] \in Making => evalId[q] # evalId[r]
        BY <3>1
      <3> QED
        BY <2>1, <3>1, <3>2 DEF Tmp, Move
    <2>2. CASE Exit(r, "output") /\ UNCHANGED entry
      BY <1>5, <2>2 DEF MakeTmp, Exit, Move
    <2> QED
      BY <1>5, <2>1, <2>2 DEF MakeTmp
  <1>6. CASE OpenRecords(r)
    BY SMTT(30), <1>6 DEF OpenRecords, WriteTmp, Pending, Tmp, Move, Fail
  <1>7. CASE Grade(r)
    BY <1>7 DEF Grade, CloseRecords, Move, Fail
  <1>8. CASE GradeFails(r)
    BY <1>8 DEF GradeFails, CloseRecords, Move, Fail
  <1>9. CASE WriteResult(r)
    BY <1>9 DEF WriteResult, WriteTmp, Pending, Tmp, Move, Fail
  <1>10. CASE WriteChecksums(r)
    BY <1>10 DEF WriteChecksums, WriteTmp, Pending, Tmp, Covers, Move, Fail
  <1>11. CASE RenameChecks(r)
    BY <1>11 DEF RenameChecks, Move, Fail
  <1>12. CASE Rename(r)
    BY <1>12, RenameKeepsNames
  <1>13. CASE Discard(r)
    <2>0. pc[r] = "discard" /\ UNCHANGED evalId /\ Exit(r, status[r]) /\ status[r] \in {"runtime", "output"}
      BY <1>13 DEF Discard
    <2>1. CASE RemoveTmp(r) /\ UNCHANGED unremoved
      BY <2>0, <2>1 DEF RemoveTmp, Tmp, Exit, Move
    <2>2. CASE UNCHANGED entry /\ unremoved' = unremoved \cup {r}
      BY <2>0, <2>2 DEF Exit, Move
    <2> QED
      BY <1>13, <2>1, <2>2 DEF Discard, RemoveTmpFails
  <1>14. CASE Finish(r)
    BY <1>14 DEF Finish, Move, Exit
  <1>15. CASE Signal(r)
    BY <1>15 DEF Signal, Move, Exit, Signals
  <1>16. CASE Kill(r)
    BY <1>16 DEF Kill, Move, Exit
  <1> QED
    BY <1>1, <1>2, <1>3, <1>4, <1>5, <1>6, <1>7, <1>8, <1>9, <1>10, <1>11, <1>12, <1>13, <1>14, <1>15, <1>16 DEF Process

\* A directory grows by one file after the other.
LEMMA DirectoryGrows ==
  ASSUME NEW r \in Runs
  PROVE  /\ [EmptyDirectory EXCEPT !.records = EmptyDirectory.records \cup {r}] = Opened(r)
         /\ [Opened(r) EXCEPT !.closed = Opened(r).closed \cup ({r} \cap Opened(r).records)] = Closed(r)
         /\ [Closed(r) EXCEPT !.result = r] = Reported(r)
         /\ Whole([Reported(r) EXCEPT !.checksums = {Covers(Reported(r))}], r)
         /\ ~Whole(EmptyDirectory, r)
  <1>1. {} \cup {r} = {r} /\ {r} \cap {r} = {r}
    OBVIOUS
  <1>2. [EmptyDirectory EXCEPT !.records = EmptyDirectory.records \cup {r}] = Opened(r)
    BY <1>1 DEF EmptyDirectory, Opened
  <1>3. [Opened(r) EXCEPT !.closed = Opened(r).closed \cup ({r} \cap Opened(r).records)] = Closed(r)
    BY <1>1 DEF EmptyDirectory, Opened, Closed
  <1>4. [Closed(r) EXCEPT !.result = r] = Reported(r)
    BY DEF EmptyDirectory, Closed, Reported
  <1>5. Whole([Reported(r) EXCEPT !.checksums = {Covers(Reported(r))}], r)
    BY DEF EmptyDirectory, Reported, Whole, Covers
  <1>6. ~Whole(EmptyDirectory, r)
    BY DEF EmptyDirectory, Whole
  <1> QED
    BY <1>2, <1>3, <1>4, <1>5, <1>6

\* A process changes nothing of the others but the directory of one that has died.
LEMMA OthersStep ==
  ASSUME IInv, ~SameIdOverlaps, NEW r \in Runs, Process(r) \/ Signal(r) \/ Kill(r)
  PROVE  \A q \in Runs \ {r} :
           /\ pc'[q] = pc[q] /\ handle'[q] = handle[q] /\ ending'[q] = ending[q] /\ evalId'[q] = evalId[q]
           /\ pc[q] # "ended" \/ entry[Target] = q => files'[q] = files[q]
  <1> USE DEF IInv, TypeOK, NameInv, AloneInv, EndInv, TargetInv, ContentInv, Content, Underway, Making, Silent
  <1>1. CASE Check(r)
    BY <1>1 DEF Check, Move, Exit
  <1>2. CASE CheckFails(r)
    BY <1>2 DEF CheckFails, Move, Exit
  <1>3. CASE Build(r)
    BY <1>3 DEF Build, Move, Exit
  <1>4. CASE ClearTmp(r)
    BY <1>4 DEF ClearTmp, RemoveTmp, RemoveTmpFails, Tmp, Move, Exit
  <1>5. CASE MakeTmp(r)
    BY <1>5 DEF MakeTmp, Tmp, Free, Move, Exit
  <1>6. CASE OpenRecords(r)
    BY <1>6 DEF OpenRecords, WriteTmp, Pending, Tmp, Move, Fail
  <1>7. CASE Grade(r)
    BY <1>7 DEF Grade, CloseRecords, Move, Fail
  <1>8. CASE GradeFails(r)
    BY <1>8 DEF GradeFails, CloseRecords, Move, Fail
  <1>9. CASE WriteResult(r)
    BY <1>9 DEF WriteResult, WriteTmp, Pending, Tmp, Move, Fail
  <1>10. CASE WriteChecksums(r)
    BY <1>10 DEF WriteChecksums, WriteTmp, Pending, Tmp, Covers, Move, Fail
  <1>11. CASE RenameChecks(r)
    BY <1>11 DEF RenameChecks, Move, Fail
  <1>12. CASE Rename(r)
    BY <1>12 DEF Rename, Tmp, Free, Empty, Move, Fail
  <1>13. CASE Discard(r)
    BY <1>13 DEF Discard, RemoveTmp, RemoveTmpFails, Tmp, Move, Exit
  <1>14. CASE Finish(r)
    BY <1>14 DEF Finish, Move, Exit
  <1>15. CASE Signal(r)
    BY <1>15 DEF Signal, Move, Exit, Signals
  <1>16. CASE Kill(r)
    BY <1>16 DEF Kill, Move, Exit
  <1> QED
    BY <1>1, <1>2, <1>3, <1>4, <1>5, <1>6, <1>7, <1>8, <1>9, <1>10, <1>11, <1>12, <1>13, <1>14, <1>15, <1>16 DEF Process

\* What makes room for a rename is nobody's result.
LEMMA RoomIsNobodys == IInv /\ (Free(Target) \/ Empty(Target)) => entry[Target] \notin Runs
  BY ZenonT(30), DirectoryGrows DEF IInv, TargetInv, Free, Empty

LEMMA PublishedStep ==
  ASSUME IInv, ~SameIdOverlaps, NEW r \in Runs, Process(r) \/ Signal(r) \/ Kill(r)
  PROVE  PublishedInv'
  <1> USE DEF IInv, TypeOK, PublishedInv, TargetInv, NameInv, EndInv, DiscardInv, Making, Silent, Names, Target, Whole, EmptyDirectory
  <1>1. CASE Check(r)
    BY <1>1 DEF Check, Move, Exit
  <1>2. CASE CheckFails(r)
    BY <1>2 DEF CheckFails, Move, Exit
  <1>3. CASE Build(r)
    BY <1>3 DEF Build, Move, Exit
  <1>4. CASE ClearTmp(r)
    BY <1>4 DEF ClearTmp, RemoveTmp, RemoveTmpFails, Tmp, Move, Exit
  <1>5. CASE MakeTmp(r)
    BY <1>5 DEF MakeTmp, Tmp, Free, Move, Exit
  <1>6. CASE OpenRecords(r)
    BY <1>6 DEF OpenRecords, WriteTmp, Pending, Tmp, Move, Fail
  <1>7. CASE Grade(r)
    BY <1>7 DEF Grade, CloseRecords, Move, Fail
  <1>8. CASE GradeFails(r)
    BY <1>8 DEF GradeFails, CloseRecords, Move, Fail
  <1>9. CASE WriteResult(r)
    BY <1>9 DEF WriteResult, WriteTmp, Pending, Tmp, Move, Fail
  <1>10. CASE WriteChecksums(r)
    BY <1>10 DEF WriteChecksums, WriteTmp, Pending, Tmp, Covers, Move, Fail
  <1>11. CASE RenameChecks(r)
    BY <1>11 DEF RenameChecks, Move, Fail
  <1>12. CASE Rename(r)
    <2>1. CASE /\ Move(r, "published") /\ UNCHANGED status
               /\ Free(Target) \/ Empty(Target)
               /\ entry' = [entry EXCEPT ![Target] = entry[Tmp(r)], ![Tmp(r)] = "absent"]
      <3>1. evalId[r] \in Ids /\ evalId[r] # "target" /\ pc[r] = "renaming" /\ UNCHANGED <<evalId, ending>>
        BY <1>12 DEF Rename
      <3>2. entry[evalId[r]] = r /\ entry[Target] \notin Runs
        BY <2>1, <3>1, RoomIsNobodys
      <3>3. entry'[Target] = r
        BY <2>1, <3>1, <3>2 DEF Tmp
      <3> QED
        BY <2>1, <3>1, <3>2, <3>3 DEF Move
    <2>2. CASE Fail(r, "output") /\ UNCHANGED entry
      BY <1>12, <2>2 DEF Rename, Fail, Move
    <2> QED
      BY <1>12, <2>1, <2>2 DEF Rename
  <1>13. CASE Discard(r)
    BY <1>13 DEF Discard, RemoveTmp, RemoveTmpFails, Tmp, Move, Exit
  <1>14. CASE Finish(r)
    BY <1>14 DEF Finish, Move, Exit
  <1>15. CASE Signal(r)
    BY <1>15 DEF Signal, Move, Exit, Signals
  <1>16. CASE Kill(r)
    BY <1>16 DEF Kill, Move, Exit
  <1> QED
    BY <1>1, <1>2, <1>3, <1>4, <1>5, <1>6, <1>7, <1>8, <1>9, <1>10, <1>11, <1>12, <1>13, <1>14, <1>15, <1>16 DEF Process

LEMMA OwnContent ==
  ASSUME IInv, ~SameIdOverlaps, NEW r \in Runs, Process(r) \/ Signal(r) \/ Kill(r)
  PROVE  Content(r)'
  <1>a. /\ pc[r] \in Making => entry[evalId[r]] = r
        /\ pc[r] \notin Making => entry[evalId[r]] # r \/ pc[r] = "ended"
    BY DEF IInv, NameInv, EndInv, TypeOK, Silent
  <1>b. Content(r) /\ TypeOK
    BY DEF IInv, ContentInv
  <1> USE DEF Content, Before, TypeOK
  <1>1. CASE Check(r)
    BY <1>1, <1>b DEF Check, Move, Exit
  <1>2. CASE CheckFails(r)
    BY <1>2, <1>b DEF CheckFails, Move, Exit
  <1>3. CASE Build(r)
    BY <1>3, <1>b DEF Build, Move, Exit
  <1>4. CASE ClearTmp(r)
    <2>1. files'[r] = files[r]
      BY <1>4, <1>a, <1>b DEF ClearTmp, RemoveTmp, RemoveTmpFails, Tmp, Making
    <2> QED
      BY <1>4, <1>b, <2>1 DEF ClearTmp, Move, Exit
  <1>5. CASE MakeTmp(r)
    BY <1>5, <1>b DEF MakeTmp, Tmp, Free, Move, Exit
  <1>6. CASE OpenRecords(r)
    <2>1. /\ pc[r] = "made" /\ entry[evalId[r]] = r
      BY <1>6, <1>a DEF OpenRecords, WriteTmp, Making
    <2>2. CASE files' = [files EXCEPT ![r] = [files[r] EXCEPT !.records = files[r].records \cup {r}]] /\ Move(r, "grading")
      <3>1. [files[r] EXCEPT !.records = files[r].records \cup {r}] = Opened(r)
        BY <1>b, <2>1, DirectoryGrows
      <3>2. files'[r] = Opened(r) /\ pc'[r] = "grading"
        BY <1>b, <2>2, <3>1 DEF Move
      <3> QED
        BY <1>6, <1>b, <2>1, <3>2 DEF OpenRecords, Tmp
    <2>3. CASE pc'[r] = "discard"
      BY <2>3
    <2> QED
      BY <1>6, <1>b, <2>1, <2>2, <2>3 DEF OpenRecords, WriteTmp, Pending, Tmp, Move, Fail
  <1>7. CASE Grade(r)
    <2>1. pc[r] = "grading" /\ files[r] = Opened(r) /\ handle[r] = r
      BY <1>7, <1>b DEF Grade
    <2>2. files'[r] = Closed(r)
      <3>1. files'[r] = [files[r] EXCEPT !.closed = files[r].closed \cup ({r} \cap files[r].records)]
        BY <1>7, <1>b, <2>1 DEF Grade, CloseRecords
      <3> QED
        BY <2>1, <3>1, DirectoryGrows
    <2>3. pc'[r] \in {"graded", "discard"}
      BY <1>7, <1>b DEF Grade, Move, Fail
    <2> QED
      BY <2>2, <2>3
  <1>8. CASE GradeFails(r)
    BY <1>8, <1>b DEF GradeFails, Move, Fail
  <1>9. CASE WriteResult(r)
    <2>1. /\ pc[r] = "graded" /\ entry[evalId[r]] = r
      BY <1>9, <1>a DEF WriteResult, WriteTmp, Making
    <2>2. CASE files' = [files EXCEPT ![r] = [files[r] EXCEPT !.result = r]] /\ Move(r, "written")
      <3>1. [files[r] EXCEPT !.result = r] = Reported(r)
        BY <1>b, <2>1, DirectoryGrows
      <3>2. files'[r] = Reported(r) /\ pc'[r] = "written"
        BY <1>b, <2>2, <3>1 DEF Move
      <3> QED
        BY <3>2
    <2>3. CASE pc'[r] = "discard"
      BY <2>3
    <2> QED
      BY <1>9, <1>b, <2>1, <2>2, <2>3 DEF WriteResult, WriteTmp, Pending, Tmp, Move, Fail
  <1>10. CASE WriteChecksums(r)
    BY <1>10, <1>a, <1>b, DirectoryGrows DEF WriteChecksums, WriteTmp, Pending, Tmp, Making, Move, Fail
  <1>11. CASE RenameChecks(r)
    BY <1>11, <1>b DEF RenameChecks, Move, Fail
  <1>12. CASE Rename(r)
    BY <1>12, <1>b DEF Rename, Tmp, Free, Empty, Move, Fail
  <1>13. CASE Discard(r)
    BY <1>13, <1>b DEF Discard, Move, Exit
  <1>14. CASE Finish(r)
    BY <1>14, <1>b DEF Finish, Move, Exit
  <1>15. CASE Signal(r)
    BY <1>15, <1>b DEF Signal, Move, Exit, Signals
  <1>16. CASE Kill(r)
    BY <1>16, <1>b DEF Kill, Move, Exit
  <1> QED
    BY <1>1, <1>2, <1>3, <1>4, <1>5, <1>6, <1>7, <1>8, <1>9, <1>10, <1>11, <1>12, <1>13, <1>14, <1>15, <1>16 DEF Process

LEMMA ContentStep ==
  ASSUME IInv, ~SameIdOverlaps, NEW r \in Runs, Process(r) \/ Signal(r) \/ Kill(r)
  PROVE  ContentInv'
  <1>1. \A q \in Runs \ {r} : Content(q)'
    BY OthersStep DEF IInv, ContentInv, Content, Before
  <1> QED
    BY <1>1, OwnContent DEF ContentInv

LEMMA MakeKeepsTarget ==
  ASSUME TypeOK, NEW r \in Runs, MakeTmp(r)
  PROVE  entry'[Target] = entry[Target] /\ \A n \in Ids : entry'[n] \in {entry[n], r}
  <1>1. Target \in Names /\ Target \notin Ids /\ Ids \subseteq Names /\ evalId[r] \in Ids /\ DOMAIN entry = Names
    BY DEF TypeOK, Names, Target
  <1>2. entry' = entry \/ entry' = [entry EXCEPT ![evalId[r]] = r]
    BY DEF MakeTmp, Tmp
  <1> QED
    BY <1>1, <1>2

\* Only a rename gives the target another directory.
LEMMA TargetKept ==
  ASSUME IInv, ~SameIdOverlaps, NEW r \in Runs, Process(r) \/ Signal(r) \/ Kill(r)
  PROVE  ~(pc[r] = "renaming" /\ Move(r, "published")) =>
           entry'[Target] = entry[Target] /\ \A n \in Ids : entry'[n] \in {entry[n], "absent", r}
  <1> USE DEF IInv, TypeOK, NameInv, Names, Target, Making
  <1>1. CASE Check(r)
    BY <1>1 DEF Check, Move, Exit
  <1>2. CASE CheckFails(r)
    BY <1>2 DEF CheckFails, Move, Exit
  <1>3. CASE Build(r)
    BY <1>3 DEF Build, Move, Exit
  <1>4. CASE ClearTmp(r)
    <2>0. pc[r] = "built" /\ UNCHANGED <<evalId, unremoved>>
      BY <1>4 DEF ClearTmp
    <2>1. CASE RemoveTmp(r) /\ Move(r, "cleared") /\ UNCHANGED ending
      BY <2>0, <2>1 DEF RemoveTmp, Tmp, Move
    <2>2. CASE UNCHANGED entry /\ Exit(r, "output")
      BY <2>0, <2>2 DEF Exit, Move
    <2> QED
      BY <1>4, <2>1, <2>2 DEF ClearTmp, RemoveTmpFails
  <1>5. CASE MakeTmp(r)
    BY <1>5, MakeKeepsTarget
  <1>6. CASE OpenRecords(r)
    BY <1>6 DEF OpenRecords, WriteTmp, Pending, Tmp, Move, Fail
  <1>7. CASE Grade(r)
    BY <1>7 DEF Grade, CloseRecords, Move, Fail
  <1>8. CASE GradeFails(r)
    BY <1>8 DEF GradeFails, CloseRecords, Move, Fail
  <1>9. CASE WriteResult(r)
    BY <1>9 DEF WriteResult, WriteTmp, Pending, Tmp, Move, Fail
  <1>10. CASE WriteChecksums(r)
    BY <1>10 DEF WriteChecksums, WriteTmp, Pending, Tmp, Covers, Move, Fail
  <1>11. CASE RenameChecks(r)
    BY <1>11 DEF RenameChecks, Move, Fail
  <1>12. CASE Rename(r)
    BY <1>12 DEF Rename, Tmp, Free, Empty, Move, Fail
  <1>13. CASE Discard(r)
    <2>0. pc[r] = "discard" /\ UNCHANGED evalId /\ Exit(r, status[r])
      BY <1>13 DEF Discard
    <2>1. CASE RemoveTmp(r) /\ UNCHANGED unremoved
      BY <2>0, <2>1 DEF RemoveTmp, Tmp, Exit, Move
    <2>2. CASE UNCHANGED entry /\ unremoved' = unremoved \cup {r}
      BY <2>0, <2>2 DEF Exit, Move
    <2> QED
      BY <1>13, <2>1, <2>2 DEF Discard, RemoveTmpFails
  <1>14. CASE Finish(r)
    BY <1>14 DEF Finish, Move, Exit
  <1>15. CASE Signal(r)
    BY <1>15 DEF Signal, Move, Exit, Signals
  <1>16. CASE Kill(r)
    BY <1>16 DEF Kill, Move, Exit
  <1> QED
    BY <1>1, <1>2, <1>3, <1>4, <1>5, <1>6, <1>7, <1>8, <1>9, <1>10, <1>11, <1>12, <1>13, <1>14, <1>15, <1>16 DEF Process

LEMMA TargetStep ==
  ASSUME IInv, ~SameIdOverlaps, NEW r \in Runs, Process(r) \/ Signal(r) \/ Kill(r)
  PROVE  TargetInv'
  <1>1. CASE pc[r] = "renaming" /\ Move(r, "published")
    <2>1. Rename(r)
      BY <1>1 DEF Process, Check, CheckFails, Build, ClearTmp, MakeTmp, OpenRecords, WriteTmp, Grade, GradeFails,
                  WriteResult, WriteChecksums, RenameChecks, Discard, Finish, Signal, Kill, Exit, Move, IInv, TypeOK
    <2>2. /\ evalId[r] \in Ids /\ evalId[r] # "target" /\ entry[evalId[r]] = r
          /\ Whole(files[r], r) /\ ending[r] = "running"
      BY <1>1 DEF IInv, TypeOK, NameInv, Making, ContentInv, Content, EndInv
    <2>3. /\ entry' = [entry EXCEPT ![Target] = entry[Tmp(r)], ![Tmp(r)] = "absent"]
          /\ UNCHANGED <<files, ending>>
      BY <1>1, <2>1 DEF Rename, Fail, Move, IInv, TypeOK
    <2>4. entry'[Target] = r /\ \A n \in Ids : entry'[n] # r
      <3>1. TypeOK /\ \A n \in Ids : entry[n] = r => n = evalId[r]
        BY DEF IInv, NameInv
      <3>2. \A n \in Ids : entry'[n] = IF n = evalId[r] THEN "absent" ELSE entry[n]
        BY <2>3, <3>1, RenamedEntries
      <3>3. entry'[Target] = r
        BY <2>2, <2>3, <3>1, RenamedEntries
      <3> QED
        BY <3>1, <3>2, <3>3
    <2>5. pc'[r] = "published"
      BY <1>1 DEF Move, IInv, TypeOK
    <2> QED
      BY <2>2, <2>3, <2>4, <2>5 DEF TargetInv
  <1>2. CASE ~(pc[r] = "renaming" /\ Move(r, "published"))
    <2>1. entry'[Target] = entry[Target] /\ \A n \in Ids : entry'[n] \in {entry[n], "absent", r}
      BY <1>2, TargetKept
    <2>2. ASSUME NEW q \in Runs \ {r}, entry'[Target] = q
          PROVE  Whole(files'[q], q) /\ pc'[q] \in {"published", "ended"}
                 /\ ending'[q] \in {"running", "ok", "interrupted"} \cup Silent /\ \A n \in Ids : entry'[n] # q
      BY <2>1, <2>2, OthersStep DEF IInv, TargetInv
    <2>3. ASSUME entry'[Target] = r
          PROVE  Whole(files'[r], r) /\ pc'[r] \in {"published", "ended"}
                 /\ ending'[r] \in {"running", "ok", "interrupted"} \cup Silent /\ \A n \in Ids : entry'[n] # r
      <3>1. /\ Whole(files[r], r) /\ pc[r] \in {"published", "ended"} /\ \A n \in Ids : entry[n] # r
            /\ pc[r] = "published" => status[r] \in {"completed", "fail_fast", "interrupt"}
        BY <2>1, <2>3 DEF IInv, TargetInv, PublishedInv
      <3>2. Finish(r) \/ Signal(r) \/ Kill(r)
        BY <3>1 DEF Process, Check, CheckFails, Build, ClearTmp, MakeTmp, OpenRecords, WriteTmp, Grade, GradeFails,
                    WriteResult, WriteChecksums, RenameChecks, Rename, Discard
      <3> QED
        BY <3>1, <3>2, <2>3 DEF Finish, Signal, Kill, Exit, Move, IInv, TypeOK, TargetInv, Silent
    <2> QED
      BY <2>2, <2>3 DEF TargetInv
  <1> QED
    BY <1>1, <1>2

LEMMA IInvInit == Init => IInv
  <1> SUFFICES ASSUME Init PROVE IInv
    OBVIOUS
  <1>1. TypeOK /\ DiscardInv
    BY TypeInit
  <1>2. AloneInv /\ EndInv /\ PublishedInv
    BY DEF Init, AloneInv, Underway, EndInv, PublishedInv
  <1>3. entry[Target] \notin Runs /\ \A n \in Ids : entry[n] = "absent"
    BY DEF Init, Names, Target
  <1>4. NameInv /\ TargetInv
    BY <1>1, <1>3 DEF Init, NameInv, TargetInv, Making, TypeOK
  <1>5. ContentInv
    BY DEF Init, ContentInv, Content, Before
  <1> QED
    BY <1>1, <1>2, <1>4, <1>5 DEF IInv

LEMMA IInvStep == ~SameIdOverlaps /\ IInv /\ [Next]_vars => IInv'
  <1> SUFFICES ASSUME ~SameIdOverlaps, IInv, [Next]_vars PROVE IInv'
    OBVIOUS
  <1>1. TypeOK' /\ DiscardInv'
    BY TypeStep DEF IInv
  <1>2. CASE \E r \in Runs : Process(r) \/ Signal(r) \/ Kill(r)
    BY <1>1, <1>2, AloneStep, EndStep, NameStep, ContentStep, TargetStep, PublishedStep DEF IInv
  <1>3. CASE EditDataset \/ UNCHANGED vars
    <2>1. UNCHANGED <<evalId, unremoved, entry, files, pc, handle, status, ending>>
      BY <1>3 DEF EditDataset, vars
    <2> QED
      BY <1>1, <2>1 DEF IInv, AloneInv, Underway, EndInv, NameInv, ContentInv, Content, TargetInv, PublishedInv
  <1> QED
    BY <1>2, <1>3 DEF Next, Terminating

LEMMA IInvHolds == ASSUME ~SameIdOverlaps PROVE Spec => []IInv
  <1>1. IInv /\ [Next]_vars => IInv'
    BY IInvStep
  <1> QED
    BY <1>1, IInvInit, PTL DEF Spec

\* A process that ends by itself has published its pending directory or tried to remove
\* it, at whatever point it failed: what is left beside the target is of processes that
\* were killed, forced to exit, or could not remove it.
THEOREM NothingIsLeftBehind == ASSUME ~SameIdOverlaps PROVE Spec => []NoLitter
  <1>1. IInv => NoLitter
    BY DEF IInv, NoLitter, NameInv, EndInv, Making, Silent, TypeOK, Names
  <1> QED
    BY <1>1, IInvHolds, PTL

-----------------------------------------------------------------------------
(* The publication *)

LEMMA SeenIsThere == IInv => Seen = entry[Target]
  BY DEF IInv, TargetInv, Seen, Whole

LEMMA SeenIsThereNext == IInv' => Seen' = entry'[Target]
  BY DEF IInv, TargetInv, Seen, Whole

LEMMA PublicationInit == Init => P!Init
  <1> SUFFICES ASSUME Init PROVE P!Init
    OBVIOUS
  <1>1. Seen = entry[Target] /\ entry[Target] \in Targets
    BY IInvInit, SeenIsThere DEF Init, Names
  <1> QED
    BY <1>1 DEF Init, P!Init, P!Nobodys

\* How a process may end, and what it says by it.
LEMMA EndingStep ==
  ASSUME IInv, NEW r \in Runs, Process(r) \/ Signal(r) \/ Kill(r)
  PROVE  \/ UNCHANGED ending
         \/ \E how \in P!Endings :
               /\ ending[r] = "running" /\ ending' = [ending EXCEPT ![r] = how]
               /\ how \in {"ok", "interrupted"} => entry[Target] = r
               /\ how \in {"rejected", "runtime", "output"} => entry[Target] # r
  <1>0. /\ pc[r] \notin {"published", "ended"} => entry[Target] # r
        /\ pc[r] = "published" => entry[Target] = r
        /\ pc[r] # "ended" => ending[r] = "running"
        /\ pc[r] = "discard" => status[r] \in {"runtime", "output"}
    BY DEF IInv, TypeOK, TargetInv, PublishedInv, EndInv, DiscardInv
  <1>1. CASE Check(r) \/ CheckFails(r) \/ Build(r) \/ ClearTmp(r) \/ MakeTmp(r)
    BY <1>0, <1>1 DEF Check, CheckFails, Build, ClearTmp, MakeTmp, Exit, P!Endings
  <1>2. CASE Discard(r)
    BY <1>0, <1>2 DEF Discard, Exit, P!Endings
  <1>3. CASE Finish(r)
    BY <1>0, <1>3 DEF Finish, Exit, P!Endings
  <1>4. CASE Signal(r) \/ Kill(r)
    BY <1>0, <1>4 DEF Signal, Kill, Exit, P!Endings
  <1>5. CASE OpenRecords(r) \/ Grade(r) \/ GradeFails(r) \/ WriteResult(r) \/ WriteChecksums(r)
             \/ RenameChecks(r) \/ Rename(r)
    BY <1>5 DEF OpenRecords, Grade, GradeFails, WriteResult, WriteChecksums, RenameChecks, Rename
  <1> QED
    BY <1>1, <1>2, <1>3, <1>4, <1>5 DEF Process

\* A rename that succeeds puts a whole result where nothing was.
LEMMA RenamePublishes ==
  ASSUME IInv, IInv', NEW r \in Runs, Process(r) \/ Signal(r) \/ Kill(r),
         pc[r] = "renaming", Move(r, "published")
  PROVE  P!Publish(r)
  <1>1. Rename(r)
    BY DEF Process, Check, CheckFails, Build, ClearTmp, MakeTmp, OpenRecords, WriteTmp, Grade, GradeFails,
           WriteResult, WriteChecksums, RenameChecks, Discard, Finish, Signal, Kill, Exit, Move, IInv, TypeOK
  <1>2. /\ Free(Target) \/ Empty(Target)
        /\ entry' = [entry EXCEPT ![Target] = entry[Tmp(r)], ![Tmp(r)] = "absent"]
        /\ UNCHANGED ending
    BY <1>1 DEF Rename, Fail, Move, IInv, TypeOK
  <1>3. entry[evalId[r]] = r /\ ending[r] = "running"
    BY DEF IInv, TypeOK, NameInv, Making, EndInv
  <1>4. entry'[Target] = r
    BY <1>2, <1>3, RenamedEntries DEF IInv
  <1>5. entry[Target] \in {"absent", "empty"}
    BY <1>2, RoomIsNobodys DEF Free, Empty
  <1>6. Seen = entry[Target] /\ Seen' = entry'[Target]
    BY SeenIsThere, SeenIsThereNext
  <1> QED
    BY <1>2, <1>3, <1>4, <1>5, <1>6 DEF P!Publish

LEMMA PublicationStep ==
  ASSUME ~SameIdOverlaps, IInv, [Next]_vars
  PROVE  [P!Next]_(P!vars)
  <1>0. IInv'
    BY IInvStep
  <1>1. CASE \E r \in Runs : Process(r) \/ Signal(r) \/ Kill(r)
    <2> PICK r \in Runs : Process(r) \/ Signal(r) \/ Kill(r)
      BY <1>1
    <2>1. CASE pc[r] = "renaming" /\ Move(r, "published")
      BY <1>0, <2>1, RenamePublishes DEF P!Next
    <2>2. CASE ~(pc[r] = "renaming" /\ Move(r, "published"))
      <3>1. Seen' = Seen /\ Seen = entry[Target]
        BY <1>0, <2>2, TargetKept, SeenIsThere, SeenIsThereNext
      <3>2. CASE UNCHANGED ending
        BY <3>1, <3>2 DEF P!vars
      <3>3. CASE ~UNCHANGED ending
        <4>1. PICK how \in P!Endings :
                 /\ ending[r] = "running" /\ ending' = [ending EXCEPT ![r] = how]
                 /\ how \in {"ok", "interrupted"} => entry[Target] = r
                 /\ how \in {"rejected", "runtime", "output"} => entry[Target] # r
          BY <3>3, EndingStep
        <4> QED
          BY <3>1, <4>1 DEF P!Next, P!End, P!Endings
      <3> QED
        BY <3>2, <3>3
    <2> QED
      BY <2>1, <2>2
  <1>2. CASE EditDataset \/ UNCHANGED vars
    <2>1. UNCHANGED <<entry, files, ending>>
      BY <1>2 DEF EditDataset, vars
    <2> QED
      BY <2>1 DEF P!vars, Seen, Whole
  <1> QED
    BY <1>1, <1>2 DEF Next, Terminating

\* Whatever the other processes, the faults and the signals do in between, an onlooker
\* sees at the target what was there before or one whole result that is never replaced,
\* and the exit code tells truly whose it is.
THEOREM RunImplementsPublication == ASSUME ~SameIdOverlaps PROVE Spec => ImplementsPublication
  <1>1. IInv /\ [Next]_vars => [P!Next]_(P!vars)
    BY PublicationStep
  <1> QED
    BY <1>1, PublicationInit, IInvHolds, PTL DEF Spec, ImplementsPublication, P!Spec
=============================================================================
