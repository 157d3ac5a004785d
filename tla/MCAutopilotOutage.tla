------------------------- MODULE MCAutopilotOutage --------------------------
(* AutopilotOutage with the benchmarks and the model of MCAutopilot. *)
EXTENDS AutopilotOutage

CONSTANTS m, p1, t1

Failed(oom) == [error |-> TRUE, oom |-> oom, tps |-> 0,
                p50 |-> NoLatency, p95 |-> NoLatency,
                completed |-> 0, attempted |-> 1]

Worked(tps) == [error |-> FALSE, oom |-> FALSE, tps |-> tps, p50 |-> 1, p95 |-> 1,
                completed |-> 3, attempted |-> 3]

MCBenchResults == {Failed(FALSE), Worked(100), Worked(200)}

MCModels == {m}
MCModelOf == [p \in Procs |-> m]
FloorBaseline == {CtxFloor}

OnePilot == {p1}
OneTuner == {t1}
=============================================================================
