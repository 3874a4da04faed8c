------------------------------ MODULE Judging ------------------------------
(***************************************************************************)
(* What one Grade call that asks somebody else makes of what it gets back: *)
(* from the transport's reply or error, through the Judge's provider and   *)
(* client, to the verdict the runner records.  judge/judge.go,             *)
(* internal/judge/provider, internal/grader/builtin/llm_judge.go and       *)
(* internal/grader/external; there is no state here.                       *)
(***************************************************************************)

\* What is asked: a Judge by llm_judge, or an external Grader, by HTTP or by a pipe.
Peers == {"http_judge", "stdio_judge", "http_grader", "stdio_grader"}
IsJudge(peer) == peer \in {"http_judge", "stdio_judge"}
HasBody(peer) == peer \in {"http_judge", "http_grader"}     \* headers come before the body

\* The texts a Judge may give as its content ...
Texts == {"scored",     \* a score or a label
          "declined",   \* insufficient_evidence
          "unscored",   \* neither a score nor a label
          "prose",      \* no JSON object in it
          "malformed"}  \* an object that does not decode
\* ... and the replies that have no content, or that are no reply of a Judge at all.
Failures == {"blank",   \* an empty content
             "error",   \* the Judge's own error object
             "status",  \* a status other than 2xx
             "cut"}     \* ends before it is complete

\* Errors of the transport: the two of a context that has ended, and any other.
TransportErrors == {"canceled", "deadline", "broken"}

Codes == {"timeout", "judge_error", "protocol_error", "insufficient_evidence", "internal_error"}

\* What an external Grader may answer, apart from the last two failures: a success, a failure
\* with any code that can classify one, or what is no valid evaluation.
Evaluations == {"success", "invalid"} \cup Codes

Replies(peer) == IF IsJudge(peer) THEN Texts \cup Failures
                                  ELSE Evaluations \cup {"status", "cut"}

Results == {"success", "canceled"} \cup Codes

-----------------------------------------------------------------------------
(* The Judge *)

\* ParseChatResponse, or ParseErrorResponse when the status says so: a text, or an error.
ParseReply(reply) ==
    CASE reply \in Texts             -> [text |-> reply, err |-> "nil"]
      [] reply \in {"error", "status"} -> [text |-> "", err |-> "api"]
      [] reply = "blank"             -> [text |-> "", err |-> "empty"]
      [] reply = "cut"               -> [text |-> "", err |-> "decode"]

\* Slip: a cancelled call is a failed call like any other.
ClassifyAsTimeout(err) == IF err \in {"canceled", "deadline"} THEN "timeout" ELSE "judge_error"

\* Classify and CodeOf: the context's two errors, everything else is the Judge's.
Classify(err) ==
    CASE err = "canceled" -> "canceled"
      [] err = "deadline" -> "timeout"
      [] OTHER            -> "judge_error"

\* llmJudge.interpret of what parseVerdict finds in the text.
Interpret(text) ==
    CASE text = "scored"                             -> "success"
      [] text = "declined"                           -> "insufficient_evidence"
      [] text \in {"unscored", "prose", "malformed"} -> "protocol_error"

\* client.Complete and llmJudge.Grade, once the transport has answered or has failed.
Complete(c) == IF c.err = "nil" THEN Interpret(c.text) ELSE Classify(c.err)

-----------------------------------------------------------------------------
(* An external Grader *)

\* The errors of client.Do, or of Call, in the order they are looked at.
ClassifyExchange(err) ==
    CASE err = "canceled" -> "canceled"
      [] err = "deadline" -> "timeout"
      [] OTHER            -> "protocol_error"

\* Slip: an evaluation is adopted without a look at it.
AdoptUnchecked(reply) ==
    IF reply \in {"status", "cut"} THEN "protocol_error" ELSE reply

\* HTTPJSON.interpret and decodeEvaluation: a valid evaluation is adopted with whichever
\* code it carries; the rest is a protocol_error.
Adopt(reply) == IF reply \in {"invalid", "status", "cut"} THEN "protocol_error" ELSE reply

-----------------------------------------------------------------------------

\* What the call comes to when the transport gives a reply, and when it gives an error.
Replied(peer, reply) == IF IsJudge(peer) THEN Complete(ParseReply(reply)) ELSE Adopt(reply)
Failed(peer, err) ==
    IF IsJudge(peer) THEN Complete([text |-> "", err |-> err]) ELSE ClassifyExchange(err)
=============================================================================
