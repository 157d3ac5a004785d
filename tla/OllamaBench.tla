---------------------------- MODULE OllamaBench -----------------------------
(***************************************************************************)
(* bench/runner.py over adapters/ollama.py: a benchmark whose prompts are  *)
(* answered by Ollama, with the timing it reports, or fail as an HTTP      *)
(* exchange may.                                                           *)
(***************************************************************************)
EXTENDS BenchRunner, OllamaAdapter

CONSTANTS Replies,    \* what Ollama may report of a generation
          Failures    \* exchanges that raise

ASSUME RepliesAssumption == Replies \subseteq Reply
ASSUME FailuresAssumption == \A o \in Failures : raises(o)

VARIABLE replies      \* ghost: the replies so far

benchVars == <<runnerVars, replies>>

BenchInit == RunnerInit /\ replies = << >>

OutOfMemory == "out of memory"
_OOM_KEYWORDS == {OutOfMemory}

\* A prompt is answered.
Answered(d, reply) ==
  /\ RunReturns(d, tokens_per_sec(reply))
  /\ replies' = Append(replies, reply)

\* The exchange raises: is_oom is looked for in the message.
Failed(o) ==
  /\ RunRaises(message(o) \cap _OOM_KEYWORDS # {})
  /\ UNCHANGED replies

BenchNext ==
  \/ \E d \in Durations, reply \in Replies : Answered(d, reply)
  \/ \E o \in Failures : Failed(o)
  \/ Finish /\ UNCHANGED replies

-----------------------------------------------------------------------------
Timed == {reply \in Range(replies) : reply.eval_count > 0 /\ reply.eval_duration > 0}

\* The throughput that the tuning compares was really generated: it lies between
\* the slowest and the fastest generation that Ollama timed, to the hundredth it
\* is rounded to, whatever the answers without timing; and when there is none,
\* no generation was timed, or they were all too slow for two decimals.
RateIsMeasured ==
  \A b \in Range(result) : Succeeded(b) =>
    LET tooSlow(reply) ==
          200 * reply.eval_count * Second <= reply.eval_duration
    IN  IF b.tps = 0 THEN \A reply \in Timed : tooSlow(reply)
        ELSE \E lo, hi \in Timed :
               /\ 100 * lo.eval_count * Second <= (b.tps + 1) * lo.eval_duration
               /\ (2 * b.tps - 1) * hi.eval_duration <= 200 * hi.eval_count * Second
=============================================================================
