---------------------------- MODULE JudgeConfig ----------------------------
(***************************************************************************)
(* judge.New: what a judge_model must be for a Judge to be built of it.    *)
(* The same function is the check of step 4 and, later, the construction.  *)
(***************************************************************************)
EXTENDS GraderConfig, Integers

Protocols == {"openai-chat", "anthropic-messages", "http-json", "stdio-jsonl"}
AuthTypes == {"bearer_env", "none"}

\* judge_model.parameters; null is as good as not given.
JudgeParams == {"model", "temperature", "max_completion_tokens", "max_tokens", "top_p", "top_k",
                "stop", "reasoning_effort", "parallel_tool_calls", "response_format"}

\* stringOf, floatOf, intOf and stringsOf: a value of the right type, or none.  A number that
\* is to be whole is not truncated.
TextOf(params, name) == Given(params, name) => params[name] \in Texts
NumberOf(params, name) == Given(params, name) => params[name] \in Numbers
WholeOf(params, name) == Given(params, name) => params[name] = "whole"
TextsOf(params, name) == Given(params, name) => params[name] \in Texts \cup {"texts"}

\* parseParameters.
ParseParameters(params) ==
    /\ DOMAIN params \subseteq JudgeParams
    /\ \A n \in {"model", "reasoning_effort"} : TextOf(params, n)
    /\ \A n \in {"temperature", "top_p"} : NumberOf(params, n)
    /\ \A n \in {"max_completion_tokens", "max_tokens", "top_k"} : WholeOf(params, n)
    /\ TextsOf(params, "stop")
    /\ BoolOk(params, "parallel_tool_calls")

\* JudgeModelSpec.validate: structure only.
JudgeValid(spec) ==
    /\ spec.protocol \in Protocols
    /\ spec.auth \in AuthTypes
    /\ spec.auth = "bearer_env" <=> spec.env        \* an environment variable is named
    /\ spec.timeout >= 0

\* credential: the key has to be there now.
Credential(spec, world) == spec.auth = "none" \/ (spec.auth = "bearer_env" /\ world.key)

\* transportFor and the providers: what each needs of the endpoint.  The providers of the
\* client library have an endpoint of their own when none is given.
Transport(spec, world) ==
    /\ spec.protocol = "http-json" => spec.endpoint
    /\ spec.protocol = "stdio-jsonl" => spec.endpoint /\ world.program

NewJudge(spec, world) ==
    /\ spec.protocol \in Protocols
    /\ ParseParameters(spec.params)
    /\ Given(spec.params, "model") /\ spec.params["model"] # "blank"
    /\ Credential(spec, world)
    /\ Transport(spec, world)
=============================================================================
