---------------------------- MODULE BenchMetrics ----------------------------
(***************************************************************************)
(* bench/metrics.py: the shape of a BenchmarkResult, what "succeeded"      *)
(* means, and the percentile of a list of latencies.  Latencies and rates  *)
(* are natural numbers of some fixed unit; a rate of 0 stands for None     *)
(* (the runner never keeps a zero rate) and a latency of NoLatency for     *)
(* None.                                                                   *)
(***************************************************************************)
EXTENDS Integers, Sequences, FiniteSets

NoLatency == -1

BenchmarkResult ==
  [error : BOOLEAN,               \* error is not None
   oom   : BOOLEAN,               \* oom_occurred
   tps   : Nat,                   \* tokens_per_sec, 0 for None
   p50   : Nat \cup {NoLatency},
   p95   : Nat \cup {NoLatency},
   completed : Nat,
   attempted : Nat]

Succeeded(b) == ~b.error /\ b.completed = b.attempted

\* All that the tuning relies on in what run_benchmark returns.
BenchmarkOfARun(b) ==
  /\ b \in BenchmarkResult
  /\ b.oom => ~Succeeded(b)
  /\ Succeeded(b) => b.p95 # NoLatency

-----------------------------------------------------------------------------
\* Python's round() of n/100 for n \in Nat: to nearest, halves to even.
RoundHundredths(n) ==
  LET q == n \div 100
      r == n % 100
  IN  IF 2 * r < 100 \/ (2 * r = 100 /\ q % 2 = 0) THEN q ELSE q + 1

CountBelow(s, v)  == Cardinality({i \in 1..Len(s) : s[i] < v})
CountUpTo(s, v)   == Cardinality({i \in 1..Len(s) : s[i] <= v})

\* sorted(s)[k], counting from 0: the value with at most k smaller elements
\* and more than k that are no larger.
SortedAt(s, k) == CHOOSE v \in {s[i] : i \in 1..Len(s)} :
                    CountBelow(s, v) <= k /\ k < CountUpTo(s, v)

\* Mutant: the index rounded down.
PercentileIndexFloor(n, pct) == (pct * (n - 1)) \div 100

PercentileIndex(n, pct) ==
  LET i == RoundHundredths(pct * (n - 1))
  IN  IF i > n - 1 THEN n - 1 ELSE i

percentile(s, pct) == SortedAt(s, PercentileIndex(Len(s), pct))
=============================================================================
