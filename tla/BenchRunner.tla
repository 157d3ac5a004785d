---------------------------- MODULE BenchRunner -----------------------------
(***************************************************************************)
(* bench/runner.py, run_benchmark: the fixed prompts are sent to the       *)
(* runtime one after the other; the first exception ends the run with a    *)
(* partial result.  The runtime (RuntimeAdapter.run) may answer with any   *)
(* duration and rate, report no rate, or raise, with a message that does   *)
(* or does not hold one of _OOM_KEYWORDS.                                  *)
(***************************************************************************)
EXTENDS BenchMetrics, Functions

CONSTANTS NPrompts,     \* len(BENCHMARK_PROMPTS)
          Durations,    \* total_duration_s of an answer
          Rates         \* tokens_per_sec of an answer; 0 for None or 0.0

ASSUME PromptsAssumption == NPrompts \in Nat \ {0}
ASSUME SamplesAssumption == Durations \subseteq Nat /\ Rates \subseteq Nat

VARIABLES attempted, latencies, samples,
          result        \* << >> while the run goes on, then <<BenchmarkResult>>

runnerVars == <<attempted, latencies, samples, result>>

RunnerInit ==
  /\ attempted = 0
  /\ latencies = << >>
  /\ samples = << >>
  /\ result = << >>

Running == result = << >>

-----------------------------------------------------------------------------
\* adapter.run returns.  "if result.get('tokens_per_sec')" drops None and 0.
RunReturns(d, r) ==
  /\ Running /\ attempted < NPrompts
  /\ attempted' = attempted + 1
  /\ latencies' = Append(latencies, d)
  /\ samples' = IF r > 0 THEN Append(samples, r) ELSE samples
  /\ UNCHANGED result

\* Mutant: a partial result that carries neither the error nor the failed prompt.
RunRaisesUnmarked(oom) ==
  /\ Running /\ attempted < NPrompts
  /\ UNCHANGED <<attempted, latencies, samples>>
  /\ result' = <<[error |-> FALSE, oom |-> oom, tps |-> 0,
                  p50 |-> NoLatency, p95 |-> NoLatency,
                  completed |-> Len(latencies), attempted |-> attempted]>>

\* adapter.run raises: the partial result.
RunRaises(oom) ==
  /\ Running /\ attempted < NPrompts
  /\ attempted' = attempted + 1
  /\ UNCHANGED <<latencies, samples>>
  /\ result' = <<[error |-> TRUE, oom |-> oom, tps |-> 0,
                  p50 |-> NoLatency, p95 |-> NoLatency,
                  completed |-> Len(latencies), attempted |-> attempted + 1]>>

\* sum(...).
Total(s) ==
  LET upTo[n \in 0..Len(s)] == IF n = 0 THEN 0 ELSE upTo[n - 1] + s[n]
  IN  upTo[Len(s)]

\* The mean rate, rounded down to the unit of Rates.
MeanRate == IF samples = << >> THEN 0 ELSE Total(samples) \div Len(samples)

Finish ==
  /\ Running /\ attempted = NPrompts
  /\ result' = <<[error |-> FALSE, oom |-> FALSE, tps |-> MeanRate,
                  p50 |-> percentile(latencies, 50),
                  p95 |-> percentile(latencies, 95),
                  completed |-> Len(latencies), attempted |-> attempted]>>
  /\ UNCHANGED <<attempted, latencies, samples>>

\* Over any runtime.
RunnerNext ==
  \/ \E d \in Durations, r \in Rates : RunReturns(d, r)
  \/ \E oom \in BOOLEAN : RunRaises(oom)
  \/ Finish

-----------------------------------------------------------------------------
\* What pick_best, is_meaningful_improvement and needs_rollback rely on when
\* they test only some of the fields: a result counts as a success exactly
\* when every prompt was answered, an out-of-memory run never does, and a
\* success has latencies (evaluator.py never ranks a None).
SuccessIsAFullRun ==
  \A b \in Range(result) :
    /\ Succeeded(b) <=> Len(latencies) = NPrompts
    /\ b.oom => ~Succeeded(b)
    /\ Succeeded(b) => b.p50 # NoLatency /\ b.p95 # NoLatency
    /\ ~Succeeded(b) => b.completed < b.attempted

\* "Nearest-rank percentile" (metrics.py): the least sample such that at least
\* pct percent of the samples are no larger.
NearestRank(s, pct) ==
  CHOOSE v \in Range(s) :
    /\ 100 * CountUpTo(s, v) >= pct * Len(s)
    /\ \A w \in Range(s) : 100 * CountUpTo(s, w) >= pct * Len(s) => v <= w

\* The latencies a successful run reports are the nearest-rank percentiles of
\* the samples: for so few prompts p95 is the slowest one.
PercentilesAreNearestRank ==
  \A b \in Range(result) : Succeeded(b) =>
    /\ b.p50 = NearestRank(latencies, 50)
    /\ b.p95 = NearestRank(latencies, 95)
    /\ \A d \in Range(latencies) : d <= b.p95
=============================================================================
