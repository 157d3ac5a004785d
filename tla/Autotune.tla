------------------------------ MODULE Autotune ------------------------------
(***************************************************************************)
(* The pure decisions of the autotuner: which configs to try (search.py),  *)
(* which one wins (evaluator.py), when and where to roll back              *)
(* (rollback.py).  A config dict is the value of its one key, num_ctx;     *)
(* EmptyConfig stands for {} (the runtime's own default).  None of these   *)
(* functions has state or I/O.                                             *)
(***************************************************************************)
EXTENDS BenchMetrics

EmptyConfig == 0
NoConfig == -1             \* None, where a config may be missing

CtxFloor == 512
CtxCeiling == 8192
DefaultBaselineCtx == 2048

\* The configs the system saves by itself: every one is a candidate, and a
\* candidate of such a config (or of {}) is one again.
TunableCtx == CtxFloor..CtxCeiling
Baselines == TunableCtx \cup {EmptyConfig}

-----------------------------------------------------------------------------
\* Mutant: the step down is not bounded by the floor.
generate_candidatesNoFloor(cfg) ==
  LET ctx   == IF cfg = EmptyConfig THEN DefaultBaselineCtx ELSE cfg
      upper == IF ctx * 2 > CtxCeiling THEN CtxCeiling ELSE ctx * 2
  IN  {ctx, ctx \div 2, upper}

\* search.py.  The Python list is sorted: its order is the order on integers.
generate_candidates(cfg) ==
  LET ctx   == IF cfg = EmptyConfig THEN DefaultBaselineCtx ELSE cfg
      lower == IF ctx \div 2 < CtxFloor THEN CtxFloor ELSE ctx \div 2
      upper == IF ctx * 2 > CtxCeiling THEN CtxCeiling ELSE ctx * 2
  IN  {ctx, lower, upper}

-----------------------------------------------------------------------------
\* evaluator.py
Viable(b) == Succeeded(b) /\ ~b.oom

LowerLatency(x, y) == x # NoLatency /\ (y = NoLatency \/ x < y)

\* score(a) > score(b): (tokens_per_sec, -p95) compared lexicographically.
Better(a, b) == \/ a.tps > b.tps
                \/ a.tps = b.tps /\ LowerLatency(a.p95, b.p95)

\* max() returns the first of the best, and the candidates are in ascending
\* order: among equals the smallest context wins.
IsBest(results, c) ==
  /\ Viable(results[c])
  /\ \A d \in DOMAIN results : Viable(results[d]) =>
       /\ ~Better(results[d], results[c])
       /\ d < c => Better(results[c], results[d])

\* results is a function from the candidate configs to their BenchmarkResult.
pick_best(results) ==
  IF \E c \in DOMAIN results : Viable(results[c])
  THEN CHOOSE c \in DOMAIN results : IsBest(results, c)
  ELSE NoConfig

MinImprovementPct == 5

\* Mutant: any candidate that works is an improvement.
is_meaningful_improvementAnyViable(c, b) == Viable(c)

\* Mutant: a broken baseline is compared by its (missing) throughput.
is_meaningful_improvementNoBroken(c, b) ==
  /\ Viable(c)
  /\ IF b.tps = 0 THEN c.tps > 0
     ELSE 100 * (c.tps - b.tps) >= MinImprovementPct * b.tps

\* The candidate's benchmark against the baseline's; the float comparison
\* (c - b) / b * 100 >= 5.0 is taken over the integers.
is_meaningful_improvement(c, b) ==
  /\ Viable(c)
  /\ IF ~Succeeded(b) THEN TRUE
     ELSE IF b.tps = 0 THEN c.tps > 0
     ELSE 100 * (c.tps - b.tps) >= MinImprovementPct * b.tps

-----------------------------------------------------------------------------
\* engine.py, the end of tune_once.  base and bb: the baseline config and its
\* benchmark; best: what pick_best returned for the candidates' results.
decide(base, bb, best, results) ==
  IF /\ best # NoConfig
     /\ best # base
     /\ is_meaningful_improvement(results[best], bb)
  THEN [outcome |-> "accepted_new",  winner |-> best, ok |-> Viable(results[best])]
  ELSE [outcome |-> "kept_baseline", winner |-> base, ok |-> Viable(bb)]

\* A whole pass over base in which the benchmark of each config c comes out as
\* meas[c]: tune_once as one step.
Outcome(base, meas) ==
  LET results == [c \in generate_candidates(base) |-> meas[c]]
  IN  decide(base, meas[base], pick_best(results), results)

-----------------------------------------------------------------------------
\* rollback.py
needs_rollback(b) == b.oom \/ ~Succeeded(b)

\* history: [config, ok] from oldest to newest, ok iff the benchmark of that
\* entry is Viable, which is all that is read of it.
RollbackIndices(cfg, history) ==
  {i \in 1..Len(history) : history[i].config # cfg /\ history[i].ok}

\* Mutant: an entry that failed is taken too.
rollback_targetUnproven(cfg, history) ==
  LET good == {i \in 1..Len(history) : history[i].config # cfg}
  IN  IF good = {} THEN NoConfig
      ELSE history[CHOOSE i \in good : \A j \in good : j <= i].config

rollback_target(cfg, history) ==
  LET good == RollbackIndices(cfg, history)
  IN  IF good = {} THEN NoConfig
      ELSE history[CHOOSE i \in good : \A j \in good : j <= i].config
=============================================================================
