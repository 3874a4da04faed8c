----------------------------- MODULE Admission -----------------------------
(***************************************************************************)
(* From the command line to the last check before anything is written:     *)
(* cli.Parse, validate.All with its six steps, the redaction, and the      *)
(* construction of the Judge and the Grader in evalexec.Run.  Each step    *)
(* looks at the world as it is by then, and the world may change.          *)
(*                                                                         *)
(* What follows, from the digest of the dataset on, is EvalRun.            *)
(***************************************************************************)
EXTENDS Command

CONSTANTS
    Commands,       \* the commands tried
    Registries,     \* the entries that may be registered, one set for each program
    Worlds,         \* what the command may find
    Datasets,       \* what the dataset may become
    MaxChanges      \* bound on the changes to the world

\* What json.Unmarshal makes of a file has all the fields of its type; a Judge may be null.
RequestFields(f) == Bad(f) \/ (f.there => /\ DOMAIN f.content = DOMAIN EmptyRequest
                                          /\ "params" \in DOMAIN f.content.grader
                                          /\ f.content.judge.there => "params" \in DOMAIN f.content.judge)
SpecFields(f) == Bad(f) \/ (f.there => "params" \in DOMAIN f.content)
Overrides == Seq([key : STRING, raw : Raw])

ASSUME CommandsAssumption == \A c \in Commands :
    /\ c.slips \subseteq FlagSlips
    /\ c.graderParams \in Overrides /\ c.judgeParams \in Overrides
    /\ RequestFields(c.file) /\ SpecFields(c.grader) /\ SpecFields(c.judge)
ASSUME RegistriesAssumption == Registries \subseteq SUBSET Entries
ASSUME MaxChangesAssumption == MaxChanges \in Nat

\* The lines that a dataset may have.
Lines == UNION {{d.lines[i] : i \in DOMAIN d.lines} : d \in Datasets}

ASSUME DatasetsAssumption == \A d \in Datasets : d.there \in BOOLEAN /\ d.lines \in Seq(Lines)
ASSUME WorldsAssumption ==
    Worlds \subseteq [dir : {"absent", "empty", "full", "file"}, key : BOOLEAN, program : BOOLEAN,
                      dataset : Datasets]

VARIABLES
    cmd,        \* the command
    registry,   \* the registered entries
    world,      \* output directory, credential, executable and dataset
    changes,    \* how often the world has changed
    step,       \* what comes next
    request,    \* the EvalRequest
    requires,   \* what step 3 found the Grader to require
    line,       \* the line of the dataset that is read next
    rows,       \* the rows read so far
    judge,      \* TRUE once there is a Judge
    verdict     \* kind and step of the error, and when it came

vars == <<cmd, registry, world, changes, step, request, requires, line, rows, judge, verdict>>

Steps == {"command", "arguments", "output_dir", "grader", "judge", "dataset", "redact",
          "build_judge", "build_grader", "ready", "rejected"}
NoVerdict == [kind |-> "none", at |-> "none", during |-> "none"]

TypeOK ==
    /\ cmd \in Commands /\ registry \in Registries
    /\ world \in [dir : {"absent", "empty", "full", "file"}, key : BOOLEAN, program : BOOLEAN,
                  dataset : Datasets]
    /\ changes \in 0..MaxChanges
    /\ step \in Steps
    /\ requires \subseteq Fields
    /\ line \in Nat \ {0} /\ Len(rows) < line
    /\ judge \in BOOLEAN
    /\ verdict \in [kind : {"none", "argument", "precheck", "output"},
                    at : {"none", "arguments", "output_dir_conflict", "grader_declaration", "judge_model",
                          "dataset_parse", "session_requires"},
                    during : Steps \cup {"none"}]

Init ==
    /\ cmd \in Commands /\ registry \in Registries /\ world \in Worlds
    /\ changes = 0
    /\ step = "command"
    /\ request = EmptyRequest
    /\ requires = {} /\ line = 1 /\ rows = << >>
    /\ judge = FALSE
    /\ verdict = NoVerdict

-----------------------------------------------------------------------------

Go(to) == step' = to /\ UNCHANGED verdict

Reject(kind, at) ==
    /\ step' = "rejected"
    /\ verdict' = [kind |-> kind, at |-> at, during |-> step]

\* cli.Parse.
ParseCommand ==
    /\ step = "command"
    /\ \/ ParseOk(cmd) /\ request' = Parse(cmd) /\ Go("arguments")
       \/ ~ParseOk(cmd) /\ Reject("argument", "arguments") /\ UNCHANGED request
    /\ UNCHANGED <<cmd, registry, world, changes, requires, line, rows, judge>>

GraderProtocols == {"builtin", "http-json", "stdio-jsonl"}

\* Slip: the fields a Grader says it requires are taken as they are.
GraderShaped(g) ==
    /\ g.id /\ g.version /\ g.protocol \in GraderProtocols /\ g.entry # ""
    /\ g.declared /\ IsInjective(g.requires)

\* GraderSpec.validate: structure only.  The fields are declared, if none, and no field twice.
GraderValid(g) ==
    /\ g.id /\ g.version /\ g.protocol \in GraderProtocols /\ g.entry # ""
    /\ g.declared /\ ToSet(g.requires) \subseteq Fields /\ IsInjective(g.requires)

\* EvalRequest.Validate, with what it asks of the Grader and of the Judge.
RequestValid(req) ==
    /\ req.specVersion = "ours"
    /\ req.task # "" /\ req.dataset # "" /\ req.output # ""
    /\ GraderValid(req.grader)
    /\ req.grader.judge => req.judge.there
    /\ req.judge.there => JudgeValid(req.judge)
    /\ req.concurrency >= 0

CheckArguments ==
    /\ step = "arguments"
    /\ IF RequestValid(request) THEN Go("output_dir") ELSE Reject("argument", "arguments")
    /\ UNCHANGED <<cmd, registry, world, changes, request, requires, line, rows, judge>>

DirFree == world.dir \in {"absent", "empty"}

\* Slip: any directory will do.
CheckOutputIsDir ==
    /\ step = "output_dir"
    /\ IF world.dir # "file" THEN Go("grader") ELSE Reject("output", "output_dir_conflict")
    /\ UNCHANGED <<cmd, registry, world, changes, request, requires, line, rows, judge>>

\* checkOutputDir.
CheckOutputDir ==
    /\ step = "output_dir"
    /\ IF DirFree THEN Go("grader") ELSE Reject("output", "output_dir_conflict")
    /\ UNCHANGED <<cmd, registry, world, changes, request, requires, line, rows, judge>>

\* resolveDeclaration: the registry builds the Grader to ask it, without a Judge; an entry
\* it does not have is looked up in the table.
Resolves(g) == IF g.entry \in registry THEN Buildable(g.entry, g.params) ELSE g.entry \in Builtin

\* sameFields: in any order.  No field is in either of them twice.
SameFields(listed, fields) == ToSet(listed) = fields /\ IsInjective(listed)

\* A built-in Grader's configuration has to agree with its declaration.
DeclarationAgrees(g) ==
    /\ Resolves(g)
    /\ ParamsValid(g.entry, g.params)
    /\ SameFields(g.requires, EffectiveRequires(g.entry, g.params))
    /\ g.judge = RequiresJudge(g.entry)

\* checkGraderDeclaration: an external Grader is taken at its word.
CheckGrader ==
    /\ step = "grader"
    /\ LET g == request.grader
       IN \/ /\ g.protocol = "builtin" /\ ~DeclarationAgrees(g)
             /\ Reject("precheck", "grader_declaration")
             /\ UNCHANGED requires
          \/ /\ g.protocol # "builtin" \/ DeclarationAgrees(g)
             /\ requires' = ToSet(g.requires)
             /\ Go("judge")
    /\ UNCHANGED <<cmd, registry, world, changes, request, line, rows, judge>>

\* Slip: the Judge is not tried, only looked for.
JudgeThere(spec) == spec.there /\ spec.endpoint

\* The endpoint, the credential, and judge.Checker, which builds a Judge.
JudgeUsable(spec) ==
    /\ spec.there /\ spec.endpoint
    /\ spec.auth = "bearer_env" => world.key
    /\ NewJudge(spec, world)

\* checkJudgeModel.
CheckJudge ==
    /\ step = "judge"
    /\ IF request.grader.judge => JudgeUsable(request.judge)
       THEN Go("dataset") ELSE Reject("precheck", "judge_model")
    /\ UNCHANGED <<cmd, registry, world, changes, request, requires, line, rows, judge>>

\* Session.UnmarshalJSON and the scanner: what is no row and no blank line is an error.
IsRow(l) == l.kind = "row"
IsBlank(l) == l.kind = "blank"

\* Slip: a field that is null is as good as absent.
MissingOrNull(l) == {f \in requires : f \notin DOMAIN l.fields \/ l.fields[f] = "null"}

MissingFields(l) == requires \ DOMAIN l.fields

\* MemoryIndex.Add.
Duplicate(l) == \E i \in DOMAIN rows : rows[i].id = l.id

\* Slip: a case_id may come again.
AcceptsRepeated(l) == MissingFields(l) = {}

Accepted(l) == ~Duplicate(l) /\ MissingFields(l) = {}

AtEnd == line > Len(world.dataset.lines)
Current == world.dataset.lines[line]

\* The first line is read once the file could be opened.
Unopened == line = 1 /\ ~world.dataset.there

\* checkDataset: one line in each step.  Blank lines are no rows; the first line that does
\* not parse, repeats a case_id or lacks a field ends it.
ReadLine ==
    /\ step = "dataset" /\ ~Unopened /\ ~AtEnd
    /\ line' = line + 1
    /\ \/ /\ IsBlank(Current)
          /\ Go("dataset") /\ UNCHANGED rows
       \/ /\ IsRow(Current) /\ Accepted(Current)
          /\ rows' = Append(rows, Current)
          /\ Go("dataset")
       \/ /\ IsRow(Current) /\ ~Accepted(Current) /\ UNCHANGED rows
          /\ Reject("precheck", IF Duplicate(Current) THEN "dataset_parse" ELSE "session_requires")
       \/ /\ ~IsRow(Current) /\ ~IsBlank(Current) /\ UNCHANGED rows
          /\ Reject("precheck", "dataset_parse")
    /\ UNCHANGED <<cmd, registry, world, changes, request, requires, judge>>

OpenFails ==
    /\ step = "dataset" /\ Unopened
    /\ Reject("precheck", "dataset_parse")
    /\ UNCHANGED <<cmd, registry, world, changes, request, requires, line, rows, judge>>

DatasetEnds ==
    /\ step = "dataset" /\ ~Unopened /\ AtEnd
    /\ Go("redact")
    /\ UNCHANGED <<cmd, registry, world, changes, request, requires, line, rows, judge>>

\* scan: credential shapes anywhere in the request.
Secrets(req) ==
    \/ \E n \in DOMAIN req.grader.params : req.grader.params[n] = "secret"
    \/ req.judge.there /\ \E n \in DOMAIN req.judge.params : req.judge.params[n] = "secret"

\* redact.Request: the snapshot, or an error of the arguments.
Redact ==
    /\ step = "redact"
    /\ IF Secrets(request) THEN Reject("argument", "arguments") ELSE Go("build_judge")
    /\ UNCHANGED <<cmd, registry, world, changes, request, requires, line, rows, judge>>

\* buildJudge: a judge_model is built whether or not the Grader wants one.
BuildJudge ==
    /\ step = "build_judge"
    /\ \/ ~request.judge.there /\ Go("build_grader") /\ UNCHANGED judge
       \/ /\ request.judge.there /\ NewJudge(request.judge, world)
          /\ judge' = TRUE /\ Go("build_grader")
       \/ /\ request.judge.there /\ ~NewJudge(request.judge, world)
          /\ Reject("precheck", "judge_model") /\ UNCHANGED judge
    /\ UNCHANGED <<cmd, registry, world, changes, request, requires, line, rows>>

CanBuild(g) ==
    CASE g.protocol = "http-json"   -> TRUE
      [] g.protocol = "stdio-jsonl" -> world.program
      [] OTHER                      -> g.entry \in registry /\ Buildable(g.entry, g.params)

BuildGrader ==
    /\ step = "build_grader"
    /\ IF CanBuild(request.grader) THEN Go("ready") ELSE Reject("precheck", "grader_declaration")
    /\ UNCHANGED <<cmd, registry, world, changes, request, requires, line, rows, judge>>

\* Somebody fills the directory, unsets the variable, removes the program or rewrites the
\* dataset.
Change ==
    /\ step \notin {"command", "ready", "rejected"} /\ changes < MaxChanges
    /\ changes' = changes + 1
    /\ \/ world' = [world EXCEPT !.dir = "full"]
       \/ world' = [world EXCEPT !.key = FALSE]
       \/ world' = [world EXCEPT !.program = FALSE]
       \/ \E d \in Datasets : world' = [world EXCEPT !.dataset = d]
    /\ UNCHANGED <<cmd, registry, step, request, requires, line, rows, judge, verdict>>

Decided == step \in {"ready", "rejected"}
Terminating == Decided /\ UNCHANGED vars

Next ==
    \/ ParseCommand \/ CheckArguments \/ CheckOutputDir \/ CheckGrader \/ CheckJudge
    \/ ReadLine \/ OpenFails \/ DatasetEnds \/ Redact \/ BuildJudge \/ BuildGrader
    \/ Change \/ Terminating

Spec == Init /\ [][Next]_vars

-----------------------------------------------------------------------------
(* Properties *)

\* The parameters of a file, and after the overrides: the last one of a name is the one that
\* counts, no other name is changed, and none is added.
LastOneWins(given, file, run) ==
    /\ DOMAIN run = DOMAIN file \cup {given[i].key : i \in DOMAIN given}
    /\ \A i \in DOMAIN given : (\A j \in DOMAIN given : given[j].key = given[i].key => j <= i) =>
           run[given[i].key] = Scalar(given[i].raw)
    /\ \A n \in DOMAIN file : (\A i \in DOMAIN given : given[i].key # n) => run[n] = file[n]

\* The Grader and the Judge as their files say.
GraderFile(c) == IF c.grader.there THEN c.grader.content ELSE FromFile(c).grader
JudgeFile(c) == IF c.judge.there THEN c.judge.content ELSE FromFile(c).judge

\* cli.go:197 ("flags winning"), and its order of the overrides: whatever a flag or a later
\* override says is what is run, and whatever none says is as its file says.  Not claimed
\* of the values that stand for an absent flag, 0 and false.
FlagsWin ==
    (step # "command" /\ verdict.during # "command") =>
        /\ \A p \in {"task", "dataset", "output"} :
               request[p] = IF p \in cmd.paths THEN "flag" ELSE FromFile(cmd)[p]
        /\ cmd.concurrency # 0 => request.concurrency = cmd.concurrency
        /\ request.grader = [GraderFile(cmd) EXCEPT !.params = request.grader.params]
        /\ LastOneWins(cmd.graderParams, GraderFile(cmd).params, request.grader.params)
        /\ IF cmd.judgeParams = << >> THEN request.judge = JudgeFile(cmd)
           ELSE /\ request.judge = [JudgeFile(cmd) EXCEPT !.params = request.judge.params]
                /\ LastOneWins(cmd.judgeParams, JudgeFile(cmd).params, request.judge.params)

\* validate.go:101-102 and :113-115, grader.go on step 3 and 4: the error is that of the
\* first step of the six that has anything to object to; a directory conflict wins over
\* every later one, and a Judge that is not usable is reported as such.
FirstObjectionIsReported ==
    (step = "rejected" /\ changes = 0 /\ verdict.during # "command") =>
        LET agrees == request.grader.protocol = "builtin" => DeclarationAgrees(request.grader)
            judged == request.grader.judge => JudgeUsable(request.judge)
        IN IF ~RequestValid(request) THEN verdict.kind = "argument"
           ELSE IF ~DirFree THEN verdict.kind = "output"
           ELSE IF ~agrees THEN verdict.at = "grader_declaration"
           ELSE IF ~judged THEN verdict.at = "judge_model"
           ELSE verdict.during \in {"dataset", "redact", "build_judge", "build_grader"}

\* validate.go:328-336, declaration.go, llm_judge.go:326-329: a row that is admitted has every
\* field that Grade will look at, after all overrides, so that an absent field is never
\* taken for null; a rule Grader that comes to no verdict on it has found a reference to object to;
\* and a Grader that requires a Judge has one (grader.go:61-63).
AdmittedIsGraded ==
    LET g == request.grader
    IN step = "ready" =>
        /\ g.judge => judge
        /\ g.protocol = "builtin" => \A i \in DOMAIN rows :
            /\ Reads(g.entry, g.params) \subseteq DOMAIN rows[i].fields
            /\ (/\ g.entry \in RuleGraders
                /\ "insufficient_evidence" \in RuleVerdicts(g.entry, g.params, rows[i].fields)) =>
                   "reference" \in DOMAIN rows[i].fields

\* The rows are the lines before line n that are not blank, in their order.
RowsBefore(n) ==
    LET lines == world.dataset.lines
        kept == {m \in DOMAIN lines : m < n /\ ~IsBlank(lines[m])}
    IN \E at \in [DOMAIN rows -> kept] :
           /\ \A i, j \in DOMAIN rows : i < j => at[i] < at[j]
           /\ \A m \in kept : \E i \in DOMAIN rows : at[i] = m
           /\ \A i \in DOMAIN rows : rows[i] = lines[at[i]]

\* dataset.go:60-66, result.go on counts: the rows counted are the lines that are not blank,
\* in their order, and no case_id is counted twice.
RowsAreTheLines ==
    /\ \A i, j \in DOMAIN rows : rows[i].id = rows[j].id => i = j
    /\ (step = "ready" /\ changes = 0) => RowsBefore(Len(world.dataset.lines) + 1)

\* Line n, seen with the whole dataset and not with the rows read so far.
Line(n) == world.dataset.lines[n]
Repeats(n) == \E m \in 1..(n - 1) : IsRow(Line(m)) /\ Line(m).id = Line(n).id
GoodLine(n) ==
    \/ IsBlank(Line(n))
    \/ IsRow(Line(n)) /\ ~Repeats(n) /\ requires \subseteq DOMAIN Line(n).fields

\* validate.go:318-336: a dataset is refused for the first line that is not good, and for
\* what is wrong with it, and a dataset that passes has none.  A null field is there.
FirstBadLineIsReported ==
    changes = 0 =>
        /\ step = "ready" => world.dataset.there /\ \A n \in DOMAIN world.dataset.lines : GoodLine(n)
        /\ (verdict.during = "dataset" /\ world.dataset.there) =>
               \E n \in DOMAIN world.dataset.lines :
                   /\ ~GoodLine(n) /\ \A m \in 1..(n - 1) : GoodLine(m)
                   /\ verdict.at = IF IsRow(Line(n)) /\ ~Repeats(n) THEN "session_requires"
                                   ELSE "dataset_parse"

\* evalexec.go:156-158: "a failure here would mean the environment changed mid-run".  Of a
\* Judge that is required, and of a Grader that is registered and runs in this process.
LateFailureMeansChange ==
    verdict.during \in {"build_judge", "build_grader"} =>
        \/ changes > 0
        \/ verdict.during = "build_judge" /\ ~request.grader.judge
        \/ verdict.during = "build_grader" /\ (request.grader.protocol = "stdio-jsonl"
                                               \/ request.grader.entry \notin registry)
=============================================================================
