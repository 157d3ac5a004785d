---------------------------- MODULE MCAutopilot -----------------------------
(* Autopilot on one model, with the benchmarks its decisions tell apart: a     *)
(* failure, a rate, and a rate that clears the 5% bar over it.                 *)
EXTENDS Autopilot

CONSTANTS m, p1, t1

Failed(oom) == [error |-> TRUE, oom |-> oom, tps |-> 0,
                p50 |-> NoLatency, p95 |-> NoLatency,
                completed |-> 0, attempted |-> 1]

Worked(tps) == [error |-> FALSE, oom |-> FALSE, tps |-> tps, p50 |-> 1, p95 |-> 1,
                completed |-> 3, attempted |-> 3]

MCBenchResults == {Failed(FALSE), Worked(100), Worked(200)}

MCModels == {m}
MCModelOf == [p \in Procs |-> m]
MCHardwareBaselines == {EmptyConfig}
FloorBaseline == {CtxFloor}

None == {}
OnePilot == {p1}
OneTuner == {t1}

=============================================================================
