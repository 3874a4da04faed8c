------------------------------ MODULE Command ------------------------------
(***************************************************************************)
(* internal/cli: the flags and the three files they may name, made into    *)
(* one request.  Operators only; module Admission takes them in one step.  *)
(*                                                                         *)
(* A command is a record:                                                  *)
(*   slips         what is wrong with the flags themselves                 *)
(*   paths         for --dataset and the like, which of them are flags     *)
(*   file          the request file, NoFile when --request is not given    *)
(*   grader, judge the files of --grader and --judge-model, or NoFile      *)
(*   graderParams, judgeParams     the overrides, in the order given       *)
(*   concurrency   0 when the flag is not given                            *)
(*   failFast                                                              *)
(* A file that cannot be read or parsed is Unreadable.                     *)
(***************************************************************************)
EXTENDS JudgeConfig, Sequences, SequencesExt

NoFile == [there |-> FALSE]
Unreadable == [there |-> TRUE, readable |-> FALSE]
File(content) == [there |-> TRUE, readable |-> TRUE, content |-> content]
Bad(f) == f.there /\ ~f.readable

\* rejectSecretFlags and parseFlags: a credential, a flag given twice that may not be, an
\* unknown flag, a positional argument, a malformed override.
FlagSlips == {"secret", "twice", "unknown", "positional", "no_equals", "no_key"}

\* An override's value as it is written: JSON, or a bare word, which stands for itself.
Raw == Kinds \cup {"bareword", "array"}
Structured == {"texts", "object", "schema", "array"}    \* parseScalar refuses these
Scalar(raw) == IF raw = "bareword" THEN "text" ELSE raw

FlagsOk(cmd) ==
    /\ cmd.slips = {}
    /\ \A i \in DOMAIN cmd.graderParams : cmd.graderParams[i].raw \notin Structured
    /\ \A i \in DOMAIN cmd.judgeParams : cmd.judgeParams[i].raw \notin Structured

-----------------------------------------------------------------------------
(* buildRequest *)

\* Where a text comes from: "" when it has not been given.
OverrideString(dst, value) == IF value = "" THEN dst ELSE value

NoGrader == [id |-> FALSE, version |-> FALSE, protocol |-> "", entry |-> "", requires |-> << >>,
             declared |-> FALSE, judge |-> FALSE, params |-> << >>]
NoJudge == [there |-> FALSE]

EmptyRequest == [specVersion |-> "", task |-> "", dataset |-> "", output |-> "", grader |-> NoGrader,
                 judge |-> NoJudge, concurrency |-> 0, failFast |-> FALSE]

FromFile(cmd) == IF cmd.file.there THEN cmd.file.content ELSE EmptyRequest

ApplyPaths(req, cmd) ==
    [req EXCEPT !.task = OverrideString(@, IF "task" \in cmd.paths THEN "flag" ELSE ""),
                !.dataset = OverrideString(@, IF "dataset" \in cmd.paths THEN "flag" ELSE ""),
                !.output = OverrideString(@, IF "output" \in cmd.paths THEN "flag" ELSE "")]

ApplyGraderFile(req, cmd) ==
    IF cmd.grader.there THEN [req EXCEPT !.grader = cmd.grader.content] ELSE req
ApplyJudgeFile(req, cmd) ==
    IF cmd.judge.there THEN [req EXCEPT !.judge = cmd.judge.content] ELSE req

\* The flags can set either, and unset neither.
ApplyExecution(req, cmd) ==
    [req EXCEPT !.concurrency = IF cmd.concurrency # 0 THEN cmd.concurrency ELSE @,
                !.failFast = @ \/ cmd.failFast]

Set(params, pair) ==
    [n \in DOMAIN params \cup {pair.key} |-> IF n = pair.key THEN Scalar(pair.raw) ELSE params[n]]

\* Slip: the first of two overrides of one parameter stays.
FoldFirst(params, pairs) == FoldRight(LAMBDA pair, acc : Set(acc, pair), pairs, params)

Fold(params, pairs) == FoldLeft(Set, params, pairs)

\* The overrides come last, over whichever file the Grader and the Judge came from.
ApplyParamOverrides(req, cmd) ==
    LET graded == [req EXCEPT !.grader.params = Fold(@, cmd.graderParams)]
    IN IF cmd.judgeParams = << >> THEN graded
       ELSE [graded EXCEPT !.judge.params = Fold(@, cmd.judgeParams)]

Merged(cmd) ==
    LET base == ApplyPaths(FromFile(cmd), cmd)
        withFiles == ApplyJudgeFile(ApplyGraderFile(base, cmd), cmd)
    IN ApplyExecution(withFiles, cmd)

\* The errors on the way: a file, a negative concurrency, or overrides for a
\* Judge that nobody configured.
MergeOk(cmd) ==
    /\ ~Bad(cmd.file) /\ ~Bad(cmd.grader) /\ ~Bad(cmd.judge)
    /\ cmd.concurrency >= 0
    /\ cmd.judgeParams # << >> => Merged(cmd).judge.there

\* normalize: the defaults that later steps see; the paths are made absolute.
Normalize(req) == [req EXCEPT !.specVersion = IF @ = "" THEN "ours" ELSE @,
                              !.concurrency = IF @ = 0 THEN 1 ELSE @]

ParseOk(cmd) == FlagsOk(cmd) /\ MergeOk(cmd)
Parse(cmd) == Normalize(ApplyParamOverrides(Merged(cmd), cmd))
=============================================================================
