----------------------------- MODULE MCTuneOnce -----------------------------
(* TuneOnce with the benchmarks that the decisions tell apart: two failures,  *)
(* no rate at all, and rates of 100, 104 (below the 5% bar), 105 (on it) and  *)
(* 200, of which 100 and 105 come with two latencies each.                    *)
EXTENDS TuneOnce

Failed(oom) == [error |-> TRUE, oom |-> oom, tps |-> 0,
                p50 |-> NoLatency, p95 |-> NoLatency,
                completed |-> 1, attempted |-> 2]

Worked(tps, p95) == [error |-> FALSE, oom |-> FALSE, tps |-> tps,
                     p50 |-> 1, p95 |-> p95,
                     completed |-> 3, attempted |-> 3]

MCBenchResults == {Failed(TRUE), Failed(FALSE), Worked(0, 1)}
                    \cup {Worked(t, 2) : t \in {100, 104, 105, 200}}
                    \cup {Worked(100, 1), Worked(105, 1)}

MCGivenBaselines == {NoConfig, EmptyConfig, 512, 1024, 8192}
MCHardwareBaselines == {EmptyConfig, 4096}
=============================================================================
