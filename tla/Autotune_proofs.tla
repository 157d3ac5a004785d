-------------------------- MODULE Autotune_proofs ---------------------------
(***************************************************************************)
(* What the pure decisions of Autotune.tla return, for every input: facts  *)
(* about operators, cited by the proofs about the processes that call them.*)
(***************************************************************************)
EXTENDS Autotune, TLAPS, WellFoundedInduction

\* The configs the system saves by itself, as numbers.
LEMMA TunableRange ==
  /\ \A x \in TunableCtx : x \in Int /\ 512 <= x /\ x <= 8192
  /\ \A x \in Int : 512 <= x /\ x <= 8192 => x \in TunableCtx
  /\ Baselines = TunableCtx \cup {0}
<1>1. TunableCtx = 512..8192
  BY DEF TunableCtx, CtxFloor, CtxCeiling
<1>2. /\ \A x \in 512..8192 : x \in Int /\ 512 <= x /\ x <= 8192
      /\ \A x \in Int : 512 <= x /\ x <= 8192 => x \in 512..8192
  OBVIOUS
<1>3. Baselines = TunableCtx \cup {0}
  BY DEF Baselines, EmptyConfig
<1>. QED  BY <1>1, <1>2, <1>3

\* A config is never the None that stands for a missing one.
LEMMA BaselinesAreConfigs == NoConfig \notin Baselines /\ TunableCtx \subseteq Baselines
<1>1. ~ 512 <= NoConfig /\ NoConfig # 0
  BY DEF NoConfig
<1>. QED  BY <1>1, TunableRange

\* search.py: the candidates of a config the system works with are configs it
\* works with, and a config that is set is one of its own candidates.
LEMMA CandidatesTunable ==
  ASSUME NEW cfg \in Baselines
  PROVE  /\ generate_candidates(cfg) \subseteq TunableCtx
         /\ cfg # EmptyConfig => cfg \in generate_candidates(cfg)
<1>1. PICK ctx \in Int : /\ ctx = IF cfg = EmptyConfig THEN DefaultBaselineCtx ELSE cfg
                         /\ 512 <= ctx /\ ctx <= 8192
  BY TunableRange DEF EmptyConfig, DefaultBaselineCtx
<1>2. PICK lower \in Int :
        /\ lower = IF ctx \div 2 < CtxFloor THEN CtxFloor ELSE ctx \div 2
        /\ 512 <= lower /\ lower <= 8192
  <2>1. \A n \in Int : 512 <= n /\ n <= 8192 => n \div 2 \in Int /\ n \div 2 <= 8192
    OBVIOUS
  <2>2. 512 <= ctx /\ ctx <= 8192
    BY <1>1
  <2>3. ctx \div 2 \in Int /\ ctx \div 2 <= 8192
    BY ONLY <2>1, <2>2, ctx \in Int
  <2>. QED  BY <2>3 DEF CtxFloor
<1>3. PICK upper \in Int :
        /\ upper = IF ctx * 2 > CtxCeiling THEN CtxCeiling ELSE ctx * 2
        /\ 512 <= upper /\ upper <= 8192
  <2>1. PICK twice \in Int : twice = ctx * 2 /\ 512 <= twice
    BY <1>1
  <2>. QED  BY <2>1 DEF CtxCeiling
<1>4. generate_candidates(cfg) = {ctx, lower, upper}
  BY <1>1, <1>2, <1>3 DEF generate_candidates
<1>5. ctx \in TunableCtx /\ lower \in TunableCtx /\ upper \in TunableCtx
  <2>1. ctx \in TunableCtx
    BY <1>1, TunableRange
  <2>2. lower \in TunableCtx
    BY <1>2, TunableRange
  <2>3. upper \in TunableCtx
    BY <1>3, TunableRange
  <2>. QED  BY <2>1, <2>2, <2>3
<1>6. cfg # EmptyConfig => cfg = ctx
  BY <1>1
<1>. QED  BY <1>4, <1>5, <1>6

-----------------------------------------------------------------------------
\* The order in which pick_best ranks viable candidates: a better score first,
\* then the smaller context.
Beats(results, c, d) ==
  \/ Better(results[c], results[d])
  \/ ~Better(results[d], results[c]) /\ c < d

\* What the ranking compares is numbers.
LEMMA ResultTypes ==
  ASSUME NEW b \in BenchmarkResult
  PROVE  b.tps \in Int /\ b.p95 \in Int
BY DEF BenchmarkResult, NoLatency

\* The ranking is total on different candidates.
LEMMA BeatsTotal ==
  ASSUME NEW S \in SUBSET TunableCtx, NEW results \in [S -> BenchmarkResult],
         NEW c \in S, NEW d \in S, c # d
  PROVE  Beats(results, c, d) \/ Beats(results, d, c)
<1>1. c \in Int /\ d \in Int
  BY TunableRange
<1>. QED  BY <1>1 DEF Beats

\* The ranking is transitive.
LEMMA BeatsTransitive ==
  ASSUME NEW S \in SUBSET TunableCtx, NEW results \in [S -> BenchmarkResult],
         NEW c \in S, NEW d \in S, NEW e \in S,
         Beats(results, c, d), Beats(results, d, e)
  PROVE  Beats(results, c, e)
<1>1. c \in Int /\ d \in Int /\ e \in Int
  BY TunableRange
<1>2. PICK ct \in Int, cp \in Int : results[c].tps = ct /\ results[c].p95 = cp
  BY ResultTypes
<1>3. PICK dt \in Int, dp \in Int : results[d].tps = dt /\ results[d].p95 = dp
  BY ResultTypes
<1>4. PICK et \in Int, ep \in Int : results[e].tps = et /\ results[e].p95 = ep
  BY ResultTypes
<1>. QED  BY <1>1, <1>2, <1>3, <1>4 DEF Beats, Better, LowerLatency, NoLatency

\* A viable candidate that beats every other viable one is what max() returns.
LEMMA UnbeatenIsBest ==
  ASSUME NEW S \in SUBSET TunableCtx, NEW results \in [S -> BenchmarkResult],
         NEW c \in S, Viable(results[c]),
         \A d \in S : Viable(results[d]) /\ d # c => Beats(results, c, d)
  PROVE  IsBest(results, c)
<1>1. SUFFICES ASSUME NEW d \in S, Viable(results[d])
               PROVE  /\ ~Better(results[d], results[c])
                      /\ d < c => Better(results[c], results[d])
  BY DEF IsBest
<1>2. c \in Int /\ d \in Int
  BY TunableRange
<1>3. PICK ct \in Int, cp \in Int : results[c].tps = ct /\ results[c].p95 = cp
  BY ResultTypes
<1>4. PICK dt \in Int, dp \in Int : results[d].tps = dt /\ results[d].p95 = dp
  BY ResultTypes
<1>5. CASE d = c
  BY <1>2, <1>3, <1>5 DEF Better, LowerLatency
<1>6. CASE d # c
  <2>1. Beats(results, c, d)
    BY <1>1, <1>6
  <2>. QED  BY <2>1, <1>2, <1>3, <1>4 DEF Beats, Better, LowerLatency
<1>. QED  BY <1>5, <1>6

\* evaluator.py, pick_best: whenever some candidate is viable it returns a best
\* one, never None; the three candidates of a pass always have one.
LEMMA PickBestReturnsBest ==
  ASSUME NEW cfg \in Baselines,
         NEW results \in [generate_candidates(cfg) -> BenchmarkResult],
         NEW v \in generate_candidates(cfg), Viable(results[v])
  PROVE  /\ pick_best(results) \in generate_candidates(cfg)
         /\ IsBest(results, pick_best(results))
<1>. DEFINE S == generate_candidates(cfg)
<1>1. PICK x, y, z : S = {x, y, z}
  BY DEF generate_candidates
<1>2. S \in SUBSET TunableCtx
  BY CandidatesTunable
<1>. HIDE DEF S
<1>3. \A c, d \in S : c # d => Beats(results, c, d) \/ Beats(results, d, c)
  BY <1>2, BeatsTotal DEF S
<1>4. \A c, d, e \in S : Beats(results, c, d) /\ Beats(results, d, e) => Beats(results, c, e)
  BY <1>2, BeatsTransitive DEF S
<1>5. \E c \in S : /\ Viable(results[c])
                   /\ \A d \in S : Viable(results[d]) /\ d # c => Beats(results, c, d)
  BY <1>1, <1>3, <1>4 DEF S
<1>6. PICK c \in S : IsBest(results, c)
  BY <1>2, <1>5, UnbeatenIsBest DEF S
<1>7. pick_best(results) = CHOOSE k \in S : IsBest(results, k)
  BY DEF pick_best, S
<1>. QED  BY <1>6, <1>7 DEF S

-----------------------------------------------------------------------------
\* engine.py, the end of tune_once: the winner is the baseline or the best
\* candidate; whatever is marked ok was measured viable in this pass, and so is
\* every accepted config.
LEMMA DecideIsMeasured ==
  ASSUME NEW base \in Baselines,
         NEW meas \in [generate_candidates(base) \cup {base} -> BenchmarkResult],
         NEW results, results = [c \in generate_candidates(base) |-> meas[c]],
         NEW s, s = decide(base, meas[base], pick_best(results), results)
  PROVE  /\ s.winner \in Baselines /\ s.winner \in DOMAIN meas
         /\ s.ok \in BOOLEAN
         /\ s.ok => Viable(meas[s.winner])
         /\ s.outcome = "accepted_new" => s.ok /\ s.winner \in TunableCtx
<1>1. results \in [generate_candidates(base) -> BenchmarkResult]
  OBVIOUS
<1>2. pick_best(results) # NoConfig =>
        /\ pick_best(results) \in generate_candidates(base)
        /\ Viable(results[pick_best(results)])
  <2>1. ASSUME pick_best(results) # NoConfig
        PROVE  \E v \in generate_candidates(base) : Viable(results[v])
    BY <2>1 DEF pick_best
  <2>. QED  BY <2>1, <1>1, PickBestReturnsBest DEF IsBest
<1>3. pick_best(results) # NoConfig => pick_best(results) \in TunableCtx
  BY <1>2, CandidatesTunable
<1>. QED  BY <1>2, <1>3, BaselinesAreConfigs DEF decide, Viable, Succeeded

-----------------------------------------------------------------------------
\* A set of positions in a sequence that is not empty has a last one.
LEMMA LastIndex ==
  ASSUME NEW n \in Nat, NEW I \in SUBSET (1..n), I # {}
  PROVE  \E i \in I : \A j \in I : j <= i
<1>. DEFINE D == {n - i : i \in I}
<1>1. D # {} /\ D \in SUBSET Nat
  <2>1. ASSUME NEW i \in I  PROVE n - i \in Nat
    <3>1. i \in 1..n
      OBVIOUS
    <3>. QED  BY <3>1
  <2>. QED  BY <2>1
<1>2. PICK k \in D : \A j \in D : ~(<<j, k>> \in OpToRel(<, Nat))
  BY <1>1, NatLessThanWellFounded, WFMin
<1>3. PICK i \in I : k = n - i
  BY <1>2
<1>4. ASSUME NEW j \in I  PROVE j <= i
  <2>1. n - j \in D /\ n - j \in Nat /\ k \in Nat
    BY <1>1
  <2>2. ~(n - j < k)
    BY <2>1, <1>2 DEF OpToRel
  <2>. QED  BY <2>2, <1>3
<1>. QED  BY <1>4

\* rollback.py, rollback_target: what it returns is None, or a config that was
\* ok in an entry of the history and is not the one rolled back from.
LEMMA RollbackTarget ==
  ASSUME NEW cfg, NEW history \in Seq([config : Baselines, ok : BOOLEAN]),
         rollback_target(cfg, history) # NoConfig
  PROVE  \E i \in 1..Len(history) :
           /\ history[i].ok
           /\ history[i].config = rollback_target(cfg, history)
           /\ history[i].config # cfg
<1>. DEFINE good == RollbackIndices(cfg, history)
            last == CHOOSE i \in good : \A j \in good : j <= i
<1>1. good # {} /\ good \in SUBSET (1..Len(history)) /\ Len(history) \in Nat
  BY DEF rollback_target, RollbackIndices
<1>2. \E i \in good : \A j \in good : j <= i
  BY <1>1, LastIndex
<1>3. last \in good
  BY <1>2
<1>4. rollback_target(cfg, history) = history[last].config
  BY <1>1 DEF rollback_target
<1>. QED  BY <1>1, <1>3, <1>4 DEF RollbackIndices
=============================================================================
