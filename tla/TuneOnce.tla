------------------------------ MODULE TuneOnce ------------------------------
(***************************************************************************)
(* engine.py, tune_once: one pass of measure -> adjust -> evaluate ->      *)
(* accept.  The baseline is benchmarked first, then every candidate in     *)
(* ascending order (a candidate that is the baseline is not run again),    *)
(* and pick_best scans the list for its maximum.  The benchmark of a       *)
(* config may come out as any member of BenchResults.                      *)
(***************************************************************************)
EXTENDS Autotune, Functions, FiniteSetsExt

CONSTANTS GivenBaselines,      \* the baseline_config argument; NoConfig for None
          HardwareBaselines,   \* what build_run_config may compute
          BenchResults         \* what run_benchmark may return

ASSUME BaselineAssumption == /\ GivenBaselines \subseteq Baselines \cup {NoConfig}
                             /\ HardwareBaselines \subseteq Baselines

ASSUME BenchAssumption == \A b \in BenchResults : BenchmarkOfARun(b)

VARIABLES pc,
          base,       \* baseline_config
          bb,         \* << >>, then <<baseline.benchmark>>
          results,    \* the candidates benchmarked so far
          scanned,    \* the candidates pick_best has looked at
          best,       \* the best of them, or NoConfig
          session     \* << >>, then <<the session returned>>

vars == <<pc, base, bb, results, scanned, best, session>>

Init == /\ pc = "check"
        /\ base \in GivenBaselines
        /\ bb = << >> /\ session = << >>
        /\ results = [c \in {} |-> 0]
        /\ scanned = {} /\ best = NoConfig

Candidates == generate_candidates(base)
Untried == Candidates \ DOMAIN results

-----------------------------------------------------------------------------
\* is_available() is False: RuntimeUnavailableError.
Unavailable == /\ pc = "check"
               /\ pc' = "raised"
               /\ UNCHANGED <<base, bb, results, scanned, best, session>>

\* The runtime answers; a missing baseline is computed from the hardware.
Begin == /\ pc = "check"
         /\ pc' = "baseline"
         /\ IF base = NoConfig THEN base' \in HardwareBaselines
                               ELSE base' = base
         /\ UNCHANGED <<bb, results, scanned, best, session>>

BenchBaseline(b) == /\ pc = "baseline"
                    /\ pc' = "candidates"
                    /\ bb' = <<b>>
                    /\ UNCHANGED <<base, results, scanned, best, session>>

AddResult(c, b) == [d \in DOMAIN results \cup {c} |-> IF d = c THEN b ELSE results[d]]

\* Mutant: the baseline is benchmarked again when it is a candidate.
BenchCandidateAgain(b) ==
  /\ pc = "candidates" /\ Untried # {}
  /\ results' = AddResult(Min(Untried), b)
  /\ UNCHANGED <<pc, base, bb, scanned, best, session>>

\* The next candidate of the sorted list; the baseline's result is reused.
BenchCandidate(b) ==
  /\ pc = "candidates" /\ Untried # {}
  /\ Min(Untried) = base => b = bb[1]
  /\ results' = AddResult(Min(Untried), b)
  /\ UNCHANGED <<pc, base, bb, scanned, best, session>>

BeginPick == /\ pc = "candidates" /\ Untried = {}
             /\ pc' = "pick"
             /\ UNCHANGED <<base, bb, results, scanned, best, session>>

\* Mutant of the scan: >= instead of >.
PickNextLast ==
  /\ pc = "pick" /\ Candidates \ scanned # {}
  /\ LET c == Min(Candidates \ scanned) IN
       /\ scanned' = scanned \cup {c}
       /\ best' = IF Viable(results[c])
                     /\ (best = NoConfig \/ ~Better(results[best], results[c]))
                  THEN c ELSE best
  /\ UNCHANGED <<pc, base, bb, results, session>>

\* max(viable, key=score): the next viable candidate replaces the best so far
\* only when its score is greater.
PickNext ==
  /\ pc = "pick" /\ Candidates \ scanned # {}
  /\ LET c == Min(Candidates \ scanned) IN
       /\ scanned' = scanned \cup {c}
       /\ best' = IF Viable(results[c])
                     /\ (best = NoConfig \/ Better(results[c], results[best]))
                  THEN c ELSE best
  /\ UNCHANGED <<pc, base, bb, results, session>>

Return == /\ pc = "pick" /\ scanned = Candidates
          /\ pc' = "returned"
          /\ session' = <<decide(base, bb[1], best, results)>>
          /\ UNCHANGED <<base, bb, results, scanned, best>>

Next == \/ Unavailable \/ Begin \/ BeginPick \/ PickNext \/ Return
        \/ \E b \in BenchResults : BenchBaseline(b) \/ BenchCandidate(b)

Spec == Init /\ [][Next]_vars

-----------------------------------------------------------------------------
\* The scan returns what evaluator.py promises: the viable candidate with the
\* highest throughput, ties broken by the lower p95 latency and then by the
\* smaller context, and None only when no candidate is viable.
ScanIsPickBest ==
  pc = "returned" => best = pick_best(results)

\* An accepted config works, is not the one already in use, and no config
\* measured in the pass, the baseline included (which is NOT a candidate when it
\* is {}), did better: "apply whichever performs best" (cli.py, tune).
AcceptedBeatsAllMeasured ==
  \A s \in Range(session) : s.outcome = "accepted_new" =>
    /\ s.winner # base
    /\ Viable(results[s.winner])
    /\ \A c \in DOMAIN results : Viable(results[c]) => ~Better(results[c], results[s.winner])
    /\ Succeeded(bb[1]) => ~Better(bb[1], results[s.winner])

\* "Anything that works beats a baseline that's currently broken": a pass over a
\* broken baseline ends with a working config whenever it has measured one.
BrokenBaselineIsReplaced ==
  \A s \in Range(session) :
    ~Viable(bb[1]) /\ (\E c \in DOMAIN results : Viable(results[c])) =>
      s.outcome = "accepted_new" /\ s.ok

\* A pass is one function of its benchmarks, each config measured once: what the
\* steps return is Outcome, the single step by which Autopilot.tla takes a pass.
PassIsOneStep ==
  \A s \in Range(session) :
    s = Outcome(base, [c \in DOMAIN results \cup {base} |->
                         IF c = base THEN bb[1] ELSE results[c]])
=============================================================================
