--------------------------- MODULE GraderConfig ---------------------------
(***************************************************************************)
(* What a Grader says it needs, and what it then uses: the declarations    *)
(* and parameter checks of the grader package, the registry, and the       *)
(* built-in Graders of internal/grader/builtin.                            *)
(*                                                                         *)
(* A parameter or a field has a kind in place of a value: what the checks  *)
(* tell apart.  A definition introduced by "Slip:" is the one after it     *)
(* with a plausible mistake, and no part of the model.                     *)
(***************************************************************************)
EXTENDS FiniteSets

Fields == {"input", "output", "trajectory", "reference", "context", "criteria", "metadata"}

Texts == {"text",       \* any text
          "blank",      \* the empty text
          "broken",     \* no regular expression
          "secret"}     \* has the shape of a credential
Bools == {"true", "false"}
Numbers == {"whole", "fraction"}
Kinds == Texts \cup Bools \cup Numbers \cup
         {"null", "texts", "object", "schema"}     \* a schema is an object that compiles

\* Parameters: a kind for each name that is given.
Given(params, name) == name \in DOMAIN params /\ params[name] # "null"

\* StringParam and BoolParam, with or without a value.
StringOk(params, name) == Given(params, name) => params[name] \in Texts
BoolOk(params, name) == Given(params, name) => params[name] \in Bools
IsTrue(params, name) == Given(params, name) /\ params[name] = "true"

CompilePattern(params) ==
    /\ Given(params, "pattern") /\ params["pattern"] \in Texts \ {"blank", "broken"}
    /\ BoolOk(params, "case_sensitive")

CompileSchema(params) == Given(params, "schema") /\ params["schema"] = "schema"

-----------------------------------------------------------------------------
(* Declarations *)

Builtin == {"exact_match", "contains", "regex", "json_schema", "llm_judge"}
Custom == {"custom"}            \* what a program that embeds evalexec registers
Entries == Builtin \cup Custom

\* Slip: the declaration of exact_match leaves out what it compares with.
RequiresOutputOnly(entry) ==
    IF entry = "custom" THEN {"output"}
    ELSE {"input", "output"} \cup (IF entry = "contains" THEN {"reference"} ELSE {})

Requires(entry) ==
    IF entry = "custom" THEN {"output"}
    ELSE {"input", "output"} \cup (IF entry \in {"exact_match", "contains"} THEN {"reference"} ELSE {})

RequiresJudge(entry) == entry = "llm_judge"

\* The names a declaration accepts: a custom one that declares none accepts all.
Accepts(entry, name) ==
    CASE entry = "exact_match" -> name = "reference_path"
      [] entry = "contains"    -> name \in {"reference_path", "case_sensitive"}
      [] entry = "regex"       -> name \in {"pattern", "case_sensitive"}
      [] entry = "json_schema" -> name = "schema"
      [] entry = "llm_judge"   -> name \in {"rubric", "min_score", "max_score", "use_reference",
                                            "use_trajectory", "structured_output"}
      [] OTHER                 -> TRUE

\* The parameters that add a field.
Optional(entry) == IF entry = "llm_judge" THEN {"use_reference", "use_trajectory"} ELSE {}
Adds(name) == IF name = "use_reference" THEN "reference" ELSE "trajectory"

\* checkParams, ValidateParams and the types of the optional ones.
ParamsValid(entry, params) ==
    /\ \A name \in DOMAIN params : Accepts(entry, name)
    /\ entry = "regex" => CompilePattern(params)
    /\ entry = "json_schema" => CompileSchema(params)
    /\ \A name \in Optional(entry) : BoolOk(params, name)

EffectiveRequires(entry, params) ==
    Requires(entry) \cup {Adds(name) : name \in {n \in Optional(entry) : IsTrue(params, n)}}

-----------------------------------------------------------------------------
(* The Graders themselves *)

\* The factories.  None of them needs a Judge to be built.
NewExactMatch(params) == StringOk(params, "reference_path")
NewContains(params) == StringOk(params, "reference_path") /\ BoolOk(params, "case_sensitive")
NewRegex(params) == CompilePattern(params)
NewJSONSchema(params) == CompileSchema(params)
NewLLMJudge(params) ==
    /\ Given(params, "rubric") /\ params["rubric"] \in Texts \ {"blank"}
    /\ \A n \in {"use_reference", "use_trajectory", "structured_output"} : BoolOk(params, n)

Buildable(entry, params) ==
    CASE entry = "exact_match" -> NewExactMatch(params)
      [] entry = "contains"    -> NewContains(params)
      [] entry = "regex"       -> NewRegex(params)
      [] entry = "json_schema" -> NewJSONSchema(params)
      [] entry = "llm_judge"   -> NewLLMJudge(params)
      [] OTHER                 -> TRUE

\* The fields of the call that Grade looks at, llm_judge in its userPrompt.
Reads(entry, params) ==
    CASE entry \in {"exact_match", "contains"} -> {"reference", "output"}
      [] entry \in {"regex", "json_schema"}    -> {"output"}
      [] entry = "llm_judge" ->
            {"input", "output"} \cup (IF IsTrue(params, "use_reference") THEN {"reference"} ELSE {})
                                \cup (IF IsTrue(params, "use_trajectory") THEN {"trajectory"} ELSE {})
      [] OTHER -> {"output"}

\* What is looked for in a field, which is null, a document in which it is there, one in which
\* it is there but names nothing to look for, or one without it.
Contents == {"null", "doc", "vague", "other"}

\* NewGradeCall leaves an absent field out, and decode takes no bytes for null.
Decode(row, field) == IF field \in DOMAIN row THEN row[field] ELSE "null"

\* The root of the reference, whose other name is "$", is there whatever it is, null included.
AtRoot(params) == Given(params, "reference_path") /\ params["reference_path"] = "blank"

\* exact_match compares with whatever is at the path, and contains wants texts there.  The
\* others look at the output only, in which a pattern or a schema may accept anything.
Conclusive(entry, params, row) ==
    CASE entry = "exact_match" -> AtRoot(params) \/ Decode(row, "reference") \in {"doc", "vague"}
      [] entry = "contains"    -> Decode(row, "reference") = "doc"
      [] OTHER                 -> TRUE

\* The verdicts that a rule Grader may come to on a row; which of them is the comparison's.
RuleVerdicts(entry, params, row) ==
    IF ~Conclusive(entry, params, row) THEN {"insufficient_evidence"}
    ELSE IF entry = "json_schema" THEN {"valid", "invalid"} ELSE {"match", "mismatch"}

RuleGraders == {"exact_match", "contains", "regex", "json_schema"}
=============================================================================
