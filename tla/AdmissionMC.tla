---------------------------- MODULE AdmissionMC ----------------------------
(***************************************************************************)
(* Instances of Admission for TLC: commands around every Grader and every  *)
(* Judge protocol, sound ones and ones with a flaw, from flags, from a     *)
(* request file, or from both.                                             *)
(***************************************************************************)
EXTENDS Admission, TLC

IO == <<"input", "output">>
IOReference == <<"output", "reference", "input">>
Grader(entry, req, jud, params) ==
    [id |-> TRUE, version |-> TRUE, protocol |-> "builtin", entry |-> entry, requires |-> req,
     declared |-> TRUE, judge |-> jud, params |-> params]
External(protocol, jud) == [Grader("peer", <<"output">>, jud, << >>) EXCEPT !.protocol = protocol]

Exact == Grader("exact_match", IOReference, FALSE, << >>)
Substring == Grader("contains", IOReference, FALSE, "case_sensitive" :> "true")
Pattern == Grader("regex", IO, FALSE, "pattern" :> "text")
Llm == Grader("llm_judge", IO, TRUE, "rubric" :> "text")
LlmReference == [Llm EXCEPT !.requires = IOReference]

SoundGraders == {Exact, Substring, Pattern, Llm, External("http-json", TRUE), External("stdio-jsonl", FALSE),
                 Grader("json_schema", IO, FALSE, "schema" :> "schema"),
                 Grader("custom", <<"output">>, FALSE, "any" :> "object"),
                 [Exact EXCEPT !.params = "reference_path" :> "blank"],
                 [External("http-json", FALSE) EXCEPT !.requires = <<"output", "criteria">>],
                 [LlmReference EXCEPT !.params = @ @@ ("use_reference" :> "true")]}
FlawedGraders == {[Exact EXCEPT !.requires = IO], [Exact EXCEPT !.params = "reference_path" :> "whole"],
                  [Exact EXCEPT !.params = "reference_path" :> "secret"],
                  [Pattern EXCEPT !.params = "pattern" :> "broken"], [Pattern EXCEPT !.entry = "unknown"],
                  [Llm EXCEPT !.judge = FALSE], [Llm EXCEPT !.params = << >>],
                  [Llm EXCEPT !.declared = FALSE], [Llm EXCEPT !.protocol = "grpc"],
                  [External("http-json", FALSE) EXCEPT !.requires = <<"output", "score">>],
                  [External("http-json", FALSE) EXCEPT !.requires = <<"output", "output">>],
                  [Pattern EXCEPT !.version = FALSE]}

Judge(protocol, auth, params) ==
    [there |-> TRUE, protocol |-> protocol, endpoint |-> TRUE, auth |-> auth,
     env |-> auth = "bearer_env", timeout |-> 0, params |-> params]
Model == "model" :> "text"
HttpJudge == Judge("http-json", "bearer_env", Model)
SoundJudges == {HttpJudge, Judge("stdio-jsonl", "none", Model @@ ("stop" :> "texts")),
                Judge("openai-chat", "none", Model @@ ("temperature" :> "fraction"))}
FlawedJudges == {[HttpJudge EXCEPT !.endpoint = FALSE], [HttpJudge EXCEPT !.env = FALSE],
                 [HttpJudge EXCEPT !.timeout = -1],
                 [HttpJudge EXCEPT !.params = << >>], [HttpJudge EXCEPT !.params = @ @@ ("seed" :> "whole")],
                 [HttpJudge EXCEPT !.params = @ @@ ("max_tokens" :> "fraction")],
                 [HttpJudge EXCEPT !.params = @ @@ ("reasoning_effort" :> "secret")]}

Sound == [slips |-> {}, paths |-> {"task", "dataset", "output"}, file |-> NoFile, grader |-> NoFile,
          judge |-> NoFile, graderParams |-> << >>, judgeParams |-> << >>, concurrency |-> 0,
          failFast |-> FALSE]

\* All by flags and component files, or all by a request file.
ByFlags(g, j) == [Sound EXCEPT !.grader = File(g), !.judge = IF j.there THEN File(j) ELSE NoFile,
                               !.concurrency = 2]
ByFile(g, j) == [Sound EXCEPT !.paths = {"output"}, !.file = File(
    [EmptyRequest EXCEPT !.task = "file", !.dataset = "file", !.output = "file", !.concurrency = 3,
                         !.grader = g, !.judge = j])]

Pair(key, raw) == [key |-> key, raw |-> raw]
TriedOverrides == {<<Pair("use_reference", "true")>>, <<Pair("rubric", "blank"), Pair("rubric", "bareword")>>,
              <<Pair("use_trajectory", "bareword")>>}

MCCommands ==
    {ByFlags(g, j) : g \in SoundGraders \cup FlawedGraders, j \in {NoJudge, HttpJudge}}
    \cup {ByFile(g, j) : g \in {Llm, Pattern}, j \in SoundJudges \cup FlawedJudges \cup {NoJudge}}
    \cup {[ByFlags(g, HttpJudge) EXCEPT !.graderParams = o] : g \in {Llm, LlmReference}, o \in TriedOverrides}
    \cup {[ByFile(Exact, NoJudge) EXCEPT !.grader = File(Llm), !.judge = File(HttpJudge), !.concurrency = c,
                                         !.judgeParams = <<Pair("model", r)>>] :
              c \in {0, 2}, r \in {"bareword", "blank", "array"}}
    \cup {[ByFile(Pattern, NoJudge) EXCEPT !.file.content.specVersion = v] : v \in {"ours", "other"}}
    \cup {[ByFile(Llm, NoJudge) EXCEPT !.judgeParams = <<Pair("model", "text")>>],
          [ByFlags(Exact, NoJudge) EXCEPT !.file = Unreadable], [ByFlags(Exact, NoJudge) EXCEPT !.concurrency = -1],
          [ByFlags(Exact, NoJudge) EXCEPT !.paths = {"task"}], [ByFlags(Exact, NoJudge) EXCEPT !.slips = {"twice"}]}

Row(id, fields) == [kind |-> "row", id |-> id, fields |-> fields]
Full == [f \in Fields |-> "doc"]
Bare == [f \in {"input", "output"} |-> "null"]
File1(lines) == [there |-> TRUE, lines |-> lines]
SoundData == File1(<<Row(1, Full), [kind |-> "blank"], Row(2, [Full EXCEPT !["reference"] = "other"]),
                     Row(3, [Full EXCEPT !["reference"] = "vague"])>>)

MCDatasets == {SoundData, File1(<< >>), [there |-> FALSE, lines |-> << >>],
               File1(<<Row(1, Full), Row(2, Bare)>>), File1(<<Row(1, Bare), [kind |-> "malformed"]>>),
               File1(<<Row(1, Full), Row(1, Full)>>), File1(<<[kind |-> "no_case_id"]>>),
               File1(<<[kind |-> "too_long"]>>), File1(<<[kind |-> "malformed"]>>)}

World(dir, key, program, data) == [dir |-> dir, key |-> key, program |-> program, dataset |-> data]

MCWorlds == {World("absent", TRUE, TRUE, d) : d \in MCDatasets}
            \cup {World(dir, key, program, SoundData) :
                      dir \in {"empty", "full", "file"}, key \in BOOLEAN, program \in BOOLEAN}
            \cup {World("full", TRUE, TRUE, File1(<<[kind |-> "malformed"]>>))}

MCRegistries == {Builtin, Entries \ {"contains"}}
=============================================================================
