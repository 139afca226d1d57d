------------------------------- MODULE KieChat -------------------------------
(***************************************************************************)
(* One question to a language model (backend/internal/ai: kie.go,          *)
(* openai.go): the primary model as a stream, then as plain requests with  *)
(* retries, then the fallback model the same way; or one request to OpenAI *)
(* where kie.ai is not configured.                                         *)
(*                                                                         *)
(* One action is the outcome of one HTTP request.  The caller's deadline   *)
(* is the caller's (CutShort); the timeout of a single request is here.    *)
(***************************************************************************)
EXTENDS Naturals

CONSTANTS Callers,   \* those who ask
          Attempts   \* plain requests to one model: 3 in the code

ASSUME AttemptsAssumption == Attempts \in Nat \ {0}

VARIABLES provider,  \* which of the two is configured
          chat       \* chat[c]: how far the question of c has got

Streams == {"claude_stream", "codex_stream"}
Plains == {"claude_plain", "codex_plain"}
Underway == Streams \cup Plains \cup {"openai"}

\* 429 or 5xx, and in a plain request the network; another 4xx; 530; an answer
\* without text, not JSON or broken off; the timeout of the HTTP client.
Failures == {"busy", "refused", "gone", "empty", "late"}

\* late: the primary model ran into the timeout; seconded: the fallback was asked.
Quiet == [at |-> "quiet", attempt |-> 1, late |-> FALSE, seconded |-> FALSE]

Chats == [at : Underway \cup {"quiet", "failed"}, attempt : 1 .. Attempts,
          late : BOOLEAN, seconded : BOOLEAN]

ChatInit ==
    /\ provider \in {"kie", "openai"}
    /\ chat = [c \in Callers |-> Quiet]
-------------------------------------------------------------------------------
Asked == [Quiet EXCEPT !.at = IF provider = "kie" THEN "claude_stream" ELSE "openai"]

Fallback(c) ==
    [chat[c] EXCEPT !.at = "codex_stream", !.attempt = 1, !.seconded = TRUE]
Plainly(c, at) == [chat[c] EXCEPT !.at = at]
Failed(c) == [chat[c] EXCEPT !.at = "failed"]

\* A stream is not retried: 530 says that the route is down, after anything else
\* the plain form is tried.
StreamFails(c, failure) ==
    /\ chat[c].at \in Streams
    /\ chat' = [chat EXCEPT ![c] =
                  IF chat[c].at = "codex_stream" THEN Plainly(c, "codex_plain")
                  ELSE IF failure = "gone" THEN Fallback(c)
                  ELSE Plainly(c, "claude_plain")]
    /\ UNCHANGED provider

Again(c, failure) == failure = "busy" /\ chat[c].attempt < Attempts

\* post: a pause and the next attempt.
PlainRetried(c, failure) ==
    /\ chat[c].at \in Plains
    /\ Again(c, failure)
    /\ chat' = [chat EXCEPT ![c].attempt = @ + 1]
    /\ UNCHANGED provider

\* The mutant does not ask the fallback where the gateway refuses the primary.
OnlyWhenBusy(c, failure) ==
    IF chat[c].at = "claude_plain" /\ failure \in {"busy", "gone", "empty"}
    THEN Fallback(c)
    ELSE [Failed(c) EXCEPT !.late = chat[c].at = "claude_plain" /\ failure = "late"]

\* The timeout of a request counts as the deadline of the caller, so that nobody
\* asks the fallback after it.
AfterPlain(c, failure) ==
    IF chat[c].at = "claude_plain" /\ failure # "late"
    THEN Fallback(c)
    ELSE [Failed(c) EXCEPT !.late = @ \/ chat[c].at = "claude_plain"]

PlainFails(c, failure) ==
    /\ chat[c].at \in Plains
    /\ ~Again(c, failure)
    /\ chat' = [chat EXCEPT ![c] = AfterPlain(c, failure)]
    /\ UNCHANGED provider

OpenAIFails(c) ==
    /\ chat[c].at = "openai"
    /\ chat' = [chat EXCEPT ![c] = Failed(c)]
    /\ UNCHANGED provider

\* With the caller's context over, no further request is sent.
CutShort(c) ==
    /\ chat[c].at \in Underway
    /\ chat' = [chat EXCEPT ![c] = Failed(c)]
    /\ UNCHANGED provider

Fails(c) ==
    \/ \E failure \in Failures :
           \/ StreamFails(c, failure)
           \/ PlainRetried(c, failure)
           \/ PlainFails(c, failure)
    \/ OpenAIFails(c)

\* The mutant leaves the question open.
AnswersOpen(c) ==
    /\ chat[c].at \in Underway
    /\ chat' = chat
    /\ UNCHANGED provider

\* A text is the end of the question; what it says is the caller's.
Answers(c) ==
    /\ chat[c].at \in Underway
    /\ chat' = [chat EXCEPT ![c] = Quiet]
    /\ UNCHANGED provider
===============================================================================
