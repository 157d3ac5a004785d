--------------------------- MODULE TuneOnce_proofs --------------------------
(***************************************************************************)
(* A pass of tune_once, for every set of benchmark results and every       *)
(* baseline: the running maximum of pick_best is the best candidate, the   *)
(* config accepted beats whatever was measured, a broken baseline goes as  *)
(* soon as anything works, and the steps of a pass come to what Autopilot  *)
(* takes as one step.                                                      *)
(*                                                                         *)
(* The invariant PassInv says of the scan what a loop invariant says: the  *)
(* candidates looked at are a prefix of the sorted list, and the best so   *)
(* far beats every other viable one of them.                               *)
(***************************************************************************)
EXTENDS TuneOnce, Autotune_proofs

Measuring == {"candidates", "pick", "returned"}
Labels == {"check", "raised", "baseline"} \cup Measuring

\* There is a baseline from the moment the runtime answered, and its benchmark
\* once it was run.
BaselineInv ==
  /\ pc \in Labels
  /\ base \in Baselines \cup {NoConfig}
  /\ pc \notin {"check", "raised"} => base \in Baselines
  /\ pc \in Measuring => \E b \in BenchResults : bb = <<b>>

\* What was benchmarked is a candidate, and the baseline only once.
ResultsInv ==
  /\ results \in [DOMAIN results -> BenchResults]
  /\ pc \notin Measuring => DOMAIN results = {}
  /\ pc = "candidates" => DOMAIN results \subseteq Candidates
  /\ pc \in {"pick", "returned"} => DOMAIN results = Candidates
  /\ base \in DOMAIN results => results[base] = bb[1]

\* The best of the candidates in S is best1, by the order of pick_best.
BestOf(res, S, best1) ==
  /\ best1 = NoConfig => \A c \in S : ~Viable(res[c])
  /\ best1 # NoConfig =>
       /\ best1 \in S /\ Viable(res[best1])
       /\ \A d \in S : Viable(res[d]) /\ d # best1 => Beats(res, best1, d)

ScanInv ==
  /\ pc \notin {"pick", "returned"} => scanned = {} /\ best = NoConfig
  /\ pc \in {"pick", "returned"} =>
       /\ scanned \subseteq Candidates
       /\ \A c \in scanned, d \in Candidates : d < c => d \in scanned
       /\ BestOf(results, scanned, best)

SessionInv ==
  /\ pc # "returned" => session = << >>
  /\ pc = "returned" => /\ scanned = Candidates
                        /\ session = <<decide(base, bb[1], best, results)>>

PassInv == BaselineInv /\ ResultsInv /\ ScanInv /\ SessionInv

-----------------------------------------------------------------------------
(* The three candidates and their order. *)

\* Of some of the candidates of a config one is the smallest.
LEMMA Smallest ==
  ASSUME NEW cfg \in Baselines, NEW T \in SUBSET generate_candidates(cfg), T # {}
  PROVE  Min(T) \in T /\ \A y \in T : Min(T) <= y
<1>1. T \subseteq TunableCtx
  BY CandidatesTunable
<1>2. \A x \in T : x \in Int
  BY <1>1, TunableRange
<1>3. PICK x, y, z : generate_candidates(cfg) = {x, y, z}
  BY DEF generate_candidates
<1>4. \E m \in T : \A n \in T : m <= n
  <2>1. CASE x \in T
    <3>1. CASE y \in T /\ y < x
      BY <1>2, <1>3, <2>1, <3>1
    <3>2. CASE ~(y \in T /\ y < x)
      BY <1>2, <1>3, <2>1, <3>2
    <3>. QED  BY <3>1, <3>2
  <2>2. CASE x \notin T
    BY <1>2, <1>3, <2>2
  <2>. QED  BY <2>1, <2>2
<1>. QED  BY <1>4 DEF Min

\* The scan of pick_best: the next candidate, which is larger than all that were
\* looked at, replaces the best so far only when its score is greater.
LEMMA ScanNext ==
  ASSUME NEW S \in SUBSET TunableCtx, NEW res \in [S -> BenchmarkResult],
         NEW T \in SUBSET S, NEW c \in S, \A d \in T : d < c,
         NEW best1 \in T \cup {NoConfig}, BestOf(res, T, best1)
  PROVE  BestOf(res, T \cup {c},
                IF Viable(res[c]) /\ (best1 = NoConfig \/ Better(res[c], res[best1]))
                THEN c ELSE best1)
<1>1. c # NoConfig /\ \A d \in S : d # NoConfig /\ d \in Int
  BY TunableRange, BaselinesAreConfigs
<1>2. CASE ~Viable(res[c])
  BY <1>2 DEF BestOf
<1>3. CASE Viable(res[c]) /\ best1 = NoConfig
  BY <1>1, <1>3 DEF BestOf
<1>4. CASE Viable(res[c]) /\ best1 # NoConfig /\ Better(res[c], res[best1])
  <2>1. best1 \in T /\ best1 \in S /\ Beats(res, c, best1)
    BY <1>4 DEF Beats
  <2>2. ASSUME NEW d \in T, Viable(res[d])  PROVE Beats(res, c, d)
    <3>1. CASE d = best1
      BY <2>1, <3>1
    <3>2. CASE d # best1
      <4>1. Beats(res, best1, d)
        BY <1>4, <2>2, <3>2 DEF BestOf
      <4>. QED  BY <2>1, <4>1, BeatsTransitive
    <3>. QED  BY <3>1, <3>2
  <2>. QED  BY <1>1, <1>4, <2>2 DEF BestOf
<1>5. CASE Viable(res[c]) /\ best1 # NoConfig /\ ~Better(res[c], res[best1])
  <2>1. best1 \in T /\ Viable(res[best1])
    BY <1>5 DEF BestOf
  <2>2. Beats(res, best1, c)
    BY <1>5, <2>1 DEF Beats
  <2>. QED  BY <1>5, <2>1, <2>2 DEF BestOf
<1>. QED  BY <1>2, <1>3, <1>4, <1>5

\* Two different configs cannot both be the one that max() returns.
LEMMA OneBest ==
  ASSUME NEW S \in SUBSET TunableCtx, NEW res \in [S -> BenchmarkResult],
         NEW c \in S, NEW d \in S, IsBest(res, c), IsBest(res, d)
  PROVE  c = d
<1>1. c \in Int /\ d \in Int
  BY TunableRange
<1>2. ~ c < d /\ ~ d < c
  BY DEF IsBest
<1>. QED  BY <1>1, <1>2

\* A best one of all candidates is what pick_best returns.
LEMMA BestIsPicked ==
  ASSUME NEW cfg \in Baselines, NEW res \in [generate_candidates(cfg) -> BenchmarkResult],
         NEW best1, BestOf(res, generate_candidates(cfg), best1)
  PROVE  best1 = pick_best(res)
<1>. DEFINE S == generate_candidates(cfg)
<1>1. S \subseteq TunableCtx /\ DOMAIN res = S
  BY CandidatesTunable
<1>2. CASE best1 = NoConfig
  BY <1>1, <1>2 DEF BestOf, pick_best
<1>3. CASE best1 # NoConfig
  <2>1. best1 \in S /\ Viable(res[best1])
    BY <1>3 DEF BestOf
  <2>2. IsBest(res, best1)
    <3>1. \A d \in S : Viable(res[d]) /\ d # best1 => Beats(res, best1, d)
      BY <1>3 DEF BestOf
    <3>. HIDE DEF S
    <3>. QED  BY <1>1, <2>1, <3>1, UnbeatenIsBest DEF S
  <2>3. pick_best(res) \in S /\ IsBest(res, pick_best(res))
    BY <2>1, PickBestReturnsBest
  <2>. HIDE DEF S
  <2>. QED  BY <1>1, <2>1, <2>2, <2>3, OneBest DEF S
<1>. QED  BY <1>2, <1>3

-----------------------------------------------------------------------------
(* The steps of a pass. *)

\* What the results of a pass are made of.
LEMMA ResultsAreMeasured ==
  ASSUME PassInv, pc \in {"pick", "returned"}
  PROVE  /\ base \in Baselines /\ Candidates \subseteq TunableCtx
         /\ results \in [Candidates -> BenchmarkResult]
         /\ bb[1] \in BenchResults /\ bb[1] \in BenchmarkResult
<1>1. base \in Baselines /\ \E b \in BenchResults : bb = <<b>>
  BY DEF PassInv, BaselineInv, Measuring
<1>2. Candidates \subseteq TunableCtx
  BY <1>1, CandidatesTunable DEF Candidates
<1>3. results \in [Candidates -> BenchResults]
  BY DEF PassInv, ResultsInv
<1>4. BenchResults \subseteq BenchmarkResult
  BY BenchAssumption DEF BenchmarkOfARun
<1>. QED  BY <1>1, <1>2, <1>3, <1>4

LEMMA BenchCandidateStep ==
  ASSUME PassInv, NEW b \in BenchResults, BenchCandidate(b)
  PROVE  PassInv'
<1>. DEFINE c == Min(Untried)
<1>1. /\ pc = "candidates" /\ Untried # {} /\ (c = base => b = bb[1])
      /\ results' = AddResult(c, b) /\ UNCHANGED <<pc, base, bb, scanned, best, session>>
  BY DEF BenchCandidate
<1>2. base \in Baselines /\ DOMAIN results \subseteq Candidates
  BY <1>1 DEF PassInv, BaselineInv, ResultsInv
<1>3. c \in Untried
  BY <1>1, <1>2, Smallest DEF Untried, Candidates
<1>. HIDE DEF c
<1>4. /\ DOMAIN results' = DOMAIN results \cup {c} /\ results'[c] = b
      /\ \A d \in DOMAIN results \ {c} : results'[d] = results[d]
      /\ results' \in [DOMAIN results' -> BenchResults]
  BY <1>1 DEF AddResult, PassInv, ResultsInv
<1>5. Candidates' = Candidates
  BY <1>1 DEF Candidates
<1>6. ResultsInv'
  <2>1. base \in DOMAIN results' => results'[base] = bb[1]
    <3>1. CASE base = c
      BY <1>1, <1>4, <3>1
    <3>2. CASE base # c
      BY <1>1, <1>4, <3>2 DEF PassInv, ResultsInv
    <3>. QED  BY <3>1, <3>2
  <2>2. DOMAIN results' \subseteq Candidates
    BY <1>2, <1>3, <1>4 DEF Untried
  <2>. QED  BY <1>1, <1>4, <1>5, <2>1, <2>2 DEF ResultsInv, Measuring
<1>7. BaselineInv' /\ ScanInv' /\ SessionInv'
  BY <1>1 DEF PassInv, BaselineInv, ScanInv, SessionInv, Measuring, Labels
<1>. QED  BY <1>6, <1>7 DEF PassInv

LEMMA PickNextStep ==
  ASSUME PassInv, PickNext
  PROVE  PassInv'
<1>. DEFINE rest == Candidates \ scanned
            c == Min(rest)
            better == IF Viable(results[c])
                         /\ (best = NoConfig \/ Better(results[c], results[best]))
                      THEN c ELSE best
<1>1. /\ pc = "pick" /\ rest # {} /\ scanned' = scanned \cup {c} /\ best' = better
      /\ UNCHANGED <<pc, base, bb, results, session>>
  BY DEF PickNext
<1>2. /\ base \in Baselines /\ Candidates \subseteq TunableCtx
      /\ results \in [Candidates -> BenchmarkResult]
  BY <1>1, ResultsAreMeasured
<1>3. /\ scanned \subseteq Candidates
      /\ \A d \in scanned, e \in Candidates : e < d => e \in scanned
      /\ BestOf(results, scanned, best)
  BY <1>1 DEF PassInv, ScanInv
<1>4. c \in rest /\ \A d \in rest : c <= d
  BY <1>1, <1>2, Smallest DEF Candidates
<1>5. \A d \in Candidates : d \in Int
  BY <1>2, TunableRange
<1>. HIDE DEF c
<1>6. \A d \in scanned : d < c
  BY <1>3, <1>4, <1>5
<1>7. BestOf(results, scanned \cup {c}, better)
  <2>1. best \in scanned \cup {NoConfig} /\ c \in Candidates
    BY <1>3, <1>4 DEF BestOf
  <2>. QED  BY <1>2, <1>3, <1>6, <2>1, ScanNext
<1>8. \A d \in scanned \cup {c}, e \in Candidates : e < d => e \in scanned \cup {c}
  BY <1>3, <1>4, <1>5
<1>9. Candidates' = Candidates
  BY <1>1 DEF Candidates
<1>. HIDE DEF rest, better
<1>10. ScanInv'
  <2>1. scanned \cup {c} \subseteq Candidates
    BY <1>3, <1>4 DEF rest
  <2>2. BestOf(results', scanned', best')
    BY <1>1, <1>7
  <2>. QED  BY <1>1, <1>8, <1>9, <2>1, <2>2 DEF ScanInv
<1>11. BaselineInv' /\ ResultsInv' /\ SessionInv'
  BY <1>1, <1>9 DEF PassInv, BaselineInv, ResultsInv, SessionInv, Measuring, Labels
<1>. QED  BY <1>10, <1>11 DEF PassInv

LEMMA PassStep == PassInv /\ [Next]_vars => PassInv'
<1>. SUFFICES ASSUME PassInv, [Next]_vars  PROVE PassInv'
  OBVIOUS
<1>. USE DEF PassInv
<1>1. CASE Unavailable
  BY <1>1 DEF Unavailable, BaselineInv, ResultsInv, ScanInv, SessionInv, Measuring, Labels
<1>2. CASE Begin
  <2>1. /\ pc = "check" /\ pc' = "baseline" /\ UNCHANGED <<bb, results, scanned, best, session>>
        /\ base' \in Baselines
    BY <1>2, BaselineAssumption DEF Begin, BaselineInv
  <2>2. DOMAIN results = {}
    BY <2>1 DEF ResultsInv, Measuring
  <2>. QED  BY <2>1, <2>2 DEF BaselineInv, ResultsInv, ScanInv, SessionInv, Measuring, Labels
<1>3. ASSUME NEW b \in BenchResults, BenchBaseline(b)  PROVE PassInv'
  <2>1. /\ pc = "baseline" /\ pc' = "candidates" /\ bb' = <<b>>
        /\ UNCHANGED <<base, results, scanned, best, session>>
    BY <1>3 DEF BenchBaseline
  <2>2. DOMAIN results = {}
    BY <2>1 DEF ResultsInv, Measuring
  <2>. QED  BY <2>1, <2>2 DEF BaselineInv, ResultsInv, ScanInv, SessionInv, Measuring, Labels
<1>4. ASSUME NEW b \in BenchResults, BenchCandidate(b)  PROVE PassInv'
  BY <1>4, BenchCandidateStep
<1>5. CASE BeginPick
  <2>1. /\ pc = "candidates" /\ pc' = "pick" /\ Untried = {}
        /\ UNCHANGED <<base, bb, results, scanned, best, session>>
    BY <1>5 DEF BeginPick
  <2>2. DOMAIN results = Candidates /\ Candidates' = Candidates
    BY <2>1 DEF ResultsInv, Untried, Candidates
  <2>3. scanned = {} /\ best = NoConfig
    BY <2>1 DEF ScanInv
  <2>4. ScanInv'
    BY <2>1, <2>3 DEF ScanInv, BestOf
  <2>. QED  BY <2>1, <2>2, <2>4 DEF BaselineInv, ResultsInv, SessionInv, Measuring, Labels
<1>6. CASE PickNext
  BY <1>6, PickNextStep
<1>7. CASE Return
  <2>1. /\ pc = "pick" /\ scanned = Candidates /\ pc' = "returned"
        /\ session' = <<decide(base, bb[1], best, results)>>
        /\ UNCHANGED <<base, bb, results, scanned, best>>
    BY <1>7 DEF Return
  <2>2. Candidates' = Candidates
    BY <2>1 DEF Candidates
  <2>3. ScanInv'
    BY <2>1, <2>2 DEF ScanInv
  <2>4. SessionInv'
    BY <2>1, <2>2 DEF SessionInv
  <2>. QED  BY <2>1, <2>2, <2>3, <2>4 DEF BaselineInv, ResultsInv, Measuring, Labels
<1>8. CASE UNCHANGED vars
  BY <1>8 DEF vars, BaselineInv, ResultsInv, ScanInv, SessionInv, Candidates
<1>. QED  BY <1>1, <1>2, <1>3, <1>4, <1>5, <1>6, <1>7, <1>8 DEF Next

\* The invariant holds of every pass.
THEOREM Passes == Spec => []PassInv
<1>1. Init => PassInv
  BY BaselineAssumption
     DEF Init, PassInv, BaselineInv, ResultsInv, ScanInv, SessionInv, Measuring, Labels
<1>. QED  BY <1>1, PassStep, PTL DEF Spec

-----------------------------------------------------------------------------
(* What a pass returns. *)

LEMMA ScanReturnsBest == PassInv => ScanIsPickBest
<1>. SUFFICES ASSUME PassInv, pc = "returned"  PROVE best = pick_best(results)
  BY DEF ScanIsPickBest
<1>1. base \in Baselines /\ results \in [generate_candidates(base) -> BenchmarkResult]
  BY ResultsAreMeasured DEF Candidates
<1>2. BestOf(results, generate_candidates(base), best)
  BY DEF PassInv, ScanInv, SessionInv, Candidates
<1>. QED  BY <1>1, <1>2, BestIsPicked

\* Once there is a session, it is what decide makes of the best candidate.
LEMMA SessionIsDecided ==
  ASSUME PassInv, NEW s \in Range(session)
  PROVE  /\ pc = "returned" /\ s = decide(base, bb[1], best, results)
         /\ base \in Baselines /\ Candidates \subseteq TunableCtx
         /\ results \in [Candidates -> BenchmarkResult]
         /\ BestOf(results, Candidates, best)
         /\ bb[1] \in BenchResults /\ bb[1] \in BenchmarkResult
         /\ base \in Candidates => results[base] = bb[1]
<1>1. session # << >>
  BY DEF Range
<1>2. pc = "returned"
  BY <1>1 DEF PassInv, SessionInv
<1>3. session = <<decide(base, bb[1], best, results)>>
  BY <1>2 DEF PassInv, SessionInv
<1>4. s = decide(base, bb[1], best, results)
  <2>. DEFINE d == decide(base, bb[1], best, results)
  <2>. HIDE DEF d
  <2>1. session = <<d>>
    BY <1>3 DEF d
  <2>2. s = d
    BY <2>1 DEF Range
  <2>. QED  BY <2>2 DEF d
<1>5. BestOf(results, Candidates, best)
  BY <1>2 DEF PassInv, ScanInv, SessionInv
<1>6. base \in Candidates => results[base] = bb[1]
  BY <1>2 DEF PassInv, ResultsInv
<1>. QED  BY <1>2, <1>4, <1>5, <1>6, ResultsAreMeasured

\* An improvement on a baseline that works is a better score.
LEMMA ImprovementIsBetter ==
  ASSUME NEW c \in BenchmarkResult, NEW b \in BenchmarkResult,
         is_meaningful_improvement(c, b), Succeeded(b)
  PROVE  ~Better(b, c)
<1>1. c.tps \in Nat /\ b.tps \in Nat
  BY DEF BenchmarkResult
<1>2. PICK x \in Nat, y \in Nat : x = c.tps /\ y = b.tps
  BY <1>1
<1>3. IF y = 0 THEN x > 0 ELSE 100 * (x - y) >= 5 * y
  BY <1>2 DEF is_meaningful_improvement, MinImprovementPct
<1>4. x > y
  <2>1. CASE y = 0
    BY <1>3, <2>1
  <2>2. CASE y # 0
    <3>1. 100 * (x - y) >= 5 * y /\ y > 0
      BY <1>3, <2>2
    <3>. QED  BY <3>1
  <2>. QED  BY <2>1, <2>2
<1>. QED  BY <1>2, <1>4 DEF Better

LEMMA AcceptedIsBest == PassInv => AcceptedBeatsAllMeasured
<1>. SUFFICES ASSUME PassInv, NEW s \in Range(session), s.outcome = "accepted_new"
              PROVE  /\ s.winner # base
                     /\ Viable(results[s.winner])
                     /\ \A c \in DOMAIN results :
                          Viable(results[c]) => ~Better(results[c], results[s.winner])
                     /\ Succeeded(bb[1]) => ~Better(bb[1], results[s.winner])
  BY DEF AcceptedBeatsAllMeasured
<1>1. /\ s = decide(base, bb[1], best, results) /\ DOMAIN results = Candidates
      /\ BestOf(results, Candidates, best) /\ Candidates \subseteq TunableCtx
      /\ results \in [Candidates -> BenchmarkResult] /\ bb[1] \in BenchmarkResult
  BY SessionIsDecided
<1>2. /\ best # NoConfig /\ best # base /\ s.winner = best
      /\ is_meaningful_improvement(results[best], bb[1])
  BY <1>1 DEF decide
<1>3. best \in Candidates /\ Viable(results[best])
  BY <1>1, <1>2 DEF BestOf
<1>4. IsBest(results, best)
  <2>1. \A d \in Candidates : Viable(results[d]) /\ d # best => Beats(results, best, d)
    BY <1>1, <1>2 DEF BestOf
  <2>. QED  BY <1>1, <1>3, <2>1, UnbeatenIsBest
<1>5. \A c \in DOMAIN results : Viable(results[c]) => ~Better(results[c], results[best])
  BY <1>4 DEF IsBest
<1>6. Succeeded(bb[1]) => ~Better(bb[1], results[best])
  BY <1>1, <1>2, <1>3, ImprovementIsBetter
<1>. QED  BY <1>2, <1>3, <1>5, <1>6

LEMMA BrokenIsReplaced == PassInv => BrokenBaselineIsReplaced
<1>. SUFFICES ASSUME PassInv, NEW s \in Range(session), ~Viable(bb[1]),
                     NEW c \in DOMAIN results, Viable(results[c])
              PROVE  s.outcome = "accepted_new" /\ s.ok
  BY DEF BrokenBaselineIsReplaced
<1>1. /\ s = decide(base, bb[1], best, results) /\ DOMAIN results = Candidates
      /\ BestOf(results, Candidates, best) /\ bb[1] \in BenchResults
      /\ base \in Candidates => results[base] = bb[1]
  BY SessionIsDecided
<1>2. best # NoConfig /\ best \in Candidates /\ Viable(results[best])
  BY <1>1 DEF BestOf
<1>3. best # base
  BY <1>1, <1>2
<1>4. ~Succeeded(bb[1])
  BY <1>1, BenchAssumption DEF Viable, BenchmarkOfARun
<1>5. is_meaningful_improvement(results[best], bb[1])
  BY <1>2, <1>4 DEF is_meaningful_improvement
<1>. QED  BY <1>1, <1>2, <1>3, <1>5 DEF decide

LEMMA StepsAreOutcome == PassInv => PassIsOneStep
<1>. SUFFICES ASSUME PassInv, NEW s \in Range(session)
              PROVE  s = Outcome(base, [c \in DOMAIN results \cup {base} |->
                                          IF c = base THEN bb[1] ELSE results[c]])
  BY DEF PassIsOneStep
<1>. DEFINE meas == [c \in DOMAIN results \cup {base} |-> IF c = base THEN bb[1] ELSE results[c]]
            res == [c \in generate_candidates(base) |-> meas[c]]
<1>1. /\ s = decide(base, bb[1], best, results) /\ DOMAIN results = generate_candidates(base)
      /\ results \in [generate_candidates(base) -> BenchmarkResult]
      /\ base \in generate_candidates(base) => results[base] = bb[1]
      /\ pc = "returned"
  BY SessionIsDecided DEF Candidates
<1>2. meas[base] = bb[1] /\ \A c \in generate_candidates(base) : meas[c] = results[c]
  BY <1>1
<1>. HIDE DEF meas
<1>3. res = results
  BY <1>1, <1>2
<1>4. best = pick_best(results)
  BY <1>1, ScanReturnsBest DEF ScanIsPickBest
<1>5. Outcome(base, meas) = decide(base, meas[base], pick_best(res), res)
  BY DEF Outcome
<1>6. s = Outcome(base, meas)
  BY <1>1, <1>2, <1>3, <1>4, <1>5
<1>. QED  BY <1>6 DEF meas

\* evaluator.py: the running maximum of pick_best, ties and all, is the viable
\* candidate with the highest throughput, then the lowest p95, then the smallest
\* context, for every result the benchmarks may have.
THEOREM ScanIsRight == Spec => []ScanIsPickBest
BY Passes, ScanReturnsBest, PTL

\* engine.py, "apply whichever performs best": nothing that was measured in the
\* pass, candidate or baseline, does better than the config accepted.
THEOREM AcceptedIsRight == Spec => []AcceptedBeatsAllMeasured
BY Passes, AcceptedIsBest, PTL

\* evaluator.py, "Anything that works beats a baseline that's currently broken".
THEOREM BrokenBaselineGoes == Spec => []BrokenBaselineIsReplaced
BY Passes, BrokenIsReplaced, PTL

\* The step that Autopilot.tla takes for a pass is what the steps of the pass come
\* to.
THEOREM OneStepIsRight == Spec => []PassIsOneStep
BY Passes, StepsAreOutcome, PTL
=============================================================================
