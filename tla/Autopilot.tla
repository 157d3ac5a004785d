----------------------------- MODULE Autopilot ------------------------------
(***************************************************************************)
(* engine.py's TuningEngine at work: `llm-max autopilot enable` processes  *)
(* (Pilots), one-shot `llm-max tune` commands and POST /models/{id}/tune   *)
(* requests (Tuners) and the operator's `autopilot disable` share one      *)
(* store.  Each process is sequential; its steps are the calls it makes to *)
(* the store, and between two of them anything may happen: another         *)
(* process writes, time passes, the runtime stops answering, the process   *)
(* is interrupted.  A pass's benchmarks touch nothing that is shared and   *)
(* are one step; TuneOnce.tla has their inside.                            *)
(***************************************************************************)
EXTENDS Autotune

CONSTANTS Pilots, Tuners,
          Models, ModelOf,       \* the model each process works on
          HardwareBaselines,     \* what _default_baseline_config may compute
          BenchResults,          \* what run_benchmark may return
          Interval,              \* interval_seconds
          Window,                \* the 86400 seconds of the rate limit
          MaxAdjustmentsPerDay,  \* max_adjustments_per_day; NoCap for None
          MaxIterations,         \* max_iterations
          MaxRuns,               \* bound: starts of each process
          MaxTime,               \* bound: time that passes while nobody sleeps
          Faults                 \* which of the faults below may happen

NoCap == -1

\* crash: Ctrl+C or the end of the process; log: a failed event insert;
\* storage: an exception from a store call; runtime: Ollama stops answering.
AllFaults == {"crash", "log", "storage", "runtime"}

Procs == Pilots \cup Tuners

ASSUME ProcsAssumption == /\ Pilots \cap Tuners = {}
                          /\ ModelOf \in [Procs -> Models]
ASSUME ConfigAssumption == HardwareBaselines \subseteq Baselines
ASSUME BenchAssumption == \A b \in BenchResults : BenchmarkOfARun(b)
ASSUME TimeAssumption == /\ Interval \in Nat /\ Window \in Nat /\ MaxTime \in Nat
                         /\ MaxAdjustmentsPerDay \in Nat \cup {NoCap}
ASSUME BoundsAssumption == MaxIterations \in Nat \ {0} /\ MaxRuns \in Nat
ASSUME FaultsAssumption == Faults \subseteq AllFaults

VARIABLES
  cur,        \* the tuned config of each model, as get_tuned_config returns it
  events,     \* the autopilot_events table
  up,         \* does the runtime answer?
  now,        \* the clock
  pc,         \* what each process does next
  seen,       \* baseline_config, from the top of the loop; NoConfig for None
  target,     \* the config about to be saved or logged
  history,    \* history: [config, ok], oldest first
  stamps,     \* adjustment_timestamps
  iter,       \* iteration
  wake,       \* when the current sleep ends
  run,        \* how many times the process was started
  measured,   \* ghost: the configs found viable since the process started
  changes     \* ghost: every tuned config saved, in order

shared == <<cur, events, changes>>
world  == <<up, now>>
local  == <<seen, target, history, stamps, iter, wake, run, measured>>
vars   == <<shared, world, pc, local>>

Store == INSTANCE TunedConfigApi WITH Configs <- Baselines

Stopped == {"off", "done", "error"}

Init == /\ cur = [m \in Models |-> Store!NoRow]
        /\ events = << >> /\ changes = << >>
        /\ up = TRUE /\ now = 0
        /\ pc = [p \in Procs |-> "off"]
        /\ seen = [p \in Procs |-> NoConfig]
        /\ target = [p \in Procs |-> NoConfig]
        /\ history = [p \in Procs |-> << >>]
        /\ stamps = [p \in Procs |-> << >>]
        /\ iter = [p \in Procs |-> 0]
        /\ wake = [p \in Procs |-> 0]
        /\ run = [p \in Procs |-> 0]
        /\ measured = [p \in Procs |-> {}]

-----------------------------------------------------------------------------
\* Helpers.
Goto(p, l) == pc' = [pc EXCEPT ![p] = l]

\* Mutant: > instead of >=, one adjustment too many.
RateLimitedLate(p) ==
  /\ MaxAdjustmentsPerDay # NoCap
  /\ Cardinality({i \in 1..Len(stamps[p]) : stamps[p][i] >= now - Window})
       > MaxAdjustmentsPerDay

\* _rate_limited(): the stamps of the last Window, both ends included.
RateLimited(p) ==
  /\ MaxAdjustmentsPerDay # NoCap
  /\ Cardinality({i \in 1..Len(stamps[p]) : stamps[p][i] >= now - Window})
       >= MaxAdjustmentsPerDay

\* What the pass leaves when it yields: one more iteration, then a sleep unless
\* it was the last.  A one-shot tune ends here.
EndPass(p) ==
  /\ iter' = [iter EXCEPT ![p] = @ + 1]
  /\ IF p \in Pilots /\ iter[p] + 1 < MaxIterations
     THEN Goto(p, "sleep") /\ wake' = [wake EXCEPT ![p] = now + Interval]
     ELSE Goto(p, "done")  /\ UNCHANGED wake

\* storage.save_tuned_config(TunedConfig(model_id, config)): is_locked is left
\* at its default, False.
Save(p, kind) ==
  /\ Store!save_tuned_config(ModelOf[p], target[p], FALSE)
  /\ changes' = Append(changes, [by |-> p, run |-> run[p], event_type |-> kind,
                                 model |-> ModelOf[p], config |-> target[p],
                                 at |-> now])

\* _log_event: the insert, or an exception that is swallowed.
LogEvent(p, kind) ==
  \/ events' = Append(events, [model |-> ModelOf[p], event_type |-> kind,
                               config |-> target[p]])
  \/ "log" \in Faults /\ UNCHANGED events

-----------------------------------------------------------------------------
\* A process starts with nothing but what the store holds.
Start(p, l) ==
  /\ pc[p] \in Stopped /\ run[p] < MaxRuns
  /\ Goto(p, l)
  /\ run' = [run EXCEPT ![p] = @ + 1]
  /\ iter' = [iter EXCEPT ![p] = 0]
  /\ history' = [history EXCEPT ![p] = << >>]
  /\ stamps' = [stamps EXCEPT ![p] = << >>]
  /\ measured' = [measured EXCEPT ![p] = {}]
  /\ UNCHANGED <<shared, world, seen, target, wake>>

\* autopilot enable: the loop, without initial_history.
Enable(p) == p \in Pilots /\ Start(p, "loop")

\* tune, POST /models/{id}/tune: one pass from the hardware's baseline,
\* whatever the store holds (seen stays NoConfig).
Tune(p) == p \in Tuners /\ Start(p, "tune")

\* Mutants: the lock is not looked at; the config is read in the first pass only.
ReadConfigIgnoresLock(p) ==
  /\ pc[p] = "loop"
  /\ LET row == Store!get_tuned_config(ModelOf[p]) IN
       /\ seen' = [seen EXCEPT ![p] = IF row.found THEN row.config ELSE NoConfig]
       /\ Goto(p, IF row.found /\ history[p] # << >> THEN "probe" ELSE "tune")
  /\ UNCHANGED <<shared, world, target, history, stamps, iter, wake, run, measured>>

ReadConfigOnce(p) ==
  /\ pc[p] = "loop"
  /\ LET row == Store!get_tuned_config(ModelOf[p]) IN
       /\ seen' = IF seen[p] = NoConfig /\ row.found
                  THEN [seen EXCEPT ![p] = row.config] ELSE seen
       /\ Goto(p, IF row.found /\ history[p] # << >> THEN "probe" ELSE "tune")
  /\ UNCHANGED <<shared, world, target, history, stamps, iter, wake, run, measured>>

\* The top of the loop: get_tuned_config, and the lock check.
ReadConfig(p) ==
  /\ pc[p] = "loop"
  /\ LET row == Store!get_tuned_config(ModelOf[p]) IN
       IF row.found /\ row.locked
          THEN /\ target' = [target EXCEPT ![p] = row.config]
               /\ Goto(p, "logLock")
               /\ UNCHANGED seen
          ELSE /\ seen' = [seen EXCEPT ![p] = IF row.found THEN row.config ELSE NoConfig]
               /\ Goto(p, IF row.found /\ history[p] # << >> THEN "probe" ELSE "tune")
               /\ UNCHANGED target
  /\ UNCHANGED <<shared, world, history, stamps, iter, wake, run, measured>>

\* The "lock" event, the LOCKED session and the return.
LogLock(p) ==
  /\ pc[p] = "logLock"
  /\ LogEvent(p, "lock")
  /\ Goto(p, "done")
  /\ UNCHANGED <<cur, changes, world, local>>

\* One benchmark of the active config.  Without a runtime it comes out as an
\* error: is_available() is not asked here.
Probe(p) ==
  /\ pc[p] = "probe"
  /\ \E b \in BenchResults :
       /\ ~up => b.error /\ ~b.oom
       /\ LET back == rollback_target(seen[p], history[p]) IN
            IF needs_rollback(b) /\ back # NoConfig
            THEN Goto(p, "saveRollback") /\ target' = [target EXCEPT ![p] = back]
            ELSE Goto(p, "tune") /\ UNCHANGED target
  /\ UNCHANGED <<shared, world, seen, history, stamps, iter, wake, run, measured>>

SaveRollback(p) ==
  /\ pc[p] = "saveRollback"
  /\ Save(p, "rollback")
  /\ stamps' = [stamps EXCEPT ![p] = Append(@, now)]
  /\ Goto(p, "logRollback")
  /\ UNCHANGED <<events, world, seen, target, history, iter, wake, run, measured>>

\* Mutant: the rollback is not logged.
LogRollbackForgotten(p) ==
  /\ pc[p] = "logRollback"
  /\ EndPass(p)
  /\ UNCHANGED <<shared, world, seen, target, history, stamps, run, measured>>

LogRollback(p) ==
  /\ pc[p] = "logRollback"
  /\ LogEvent(p, "rollback")
  /\ EndPass(p)
  /\ UNCHANGED <<cur, changes, world, seen, target, history, stamps, run, measured>>

\* Mutant: the pass waits for the runtime instead of raising.
TuneUnavailableWaits(p) ==
  /\ pc[p] = "tune" /\ ~up
  /\ Goto(p, "tune")
  /\ UNCHANGED <<shared, world, local>>

\* RuntimeUnavailableError from tune_once ends the process.
TuneUnavailable(p) ==
  /\ pc[p] = "tune" /\ ~up
  /\ Goto(p, "error")
  /\ UNCHANGED <<shared, world, local>>

\* The configs a pass may start from.
StartingPoints(p) == IF seen[p] = NoConfig THEN HardwareBaselines ELSE {seen[p]}

\* What follows from the session of a pass.  In the loop the winner (or, when
\* the rate limit holds it back, the baseline) joins the history before it is
\* applied; a dry run ends where an accepted config would be applied.
Conclude(p, base, meas) ==
  LET s == Outcome(base, meas)
      accepted == s.outcome = "accepted_new"
      limited == accepted /\ p \in Pilots /\ RateLimited(p)
      past == IF limited THEN [config |-> base, ok |-> Viable(meas[base])]
                         ELSE [config |-> s.winner, ok |-> s.ok]
  IN  /\ measured' = [measured EXCEPT ![p] = @ \cup {c \in DOMAIN meas : Viable(meas[c])}]
      /\ history' = [history EXCEPT ![p] = Append(@, past)]
      /\ \/ /\ accepted
            /\ target' = [target EXCEPT ![p] = s.winner]
            /\ Goto(p, IF limited THEN "logLimited" ELSE "saveAdjust")
            /\ UNCHANGED <<iter, wake>>
         \/ /\ ~accepted \/ p \in Tuners
            /\ EndPass(p)
            /\ UNCHANGED target

\* tune_once while the runtime answers, up to the decision what to do with it.
TuneOnce(p) ==
  /\ pc[p] = "tune" /\ up
  /\ \E base \in StartingPoints(p) :
     \E meas \in [generate_candidates(base) \cup {base} -> BenchResults] :
       Conclude(p, base, meas)
  /\ UNCHANGED <<shared, world, seen, stamps, run>>

\* apply(), then _record_adjustment().
SaveAdjust(p) ==
  /\ pc[p] = "saveAdjust"
  /\ Save(p, "adjust")
  /\ Goto(p, "logAdjust")
  /\ UNCHANGED <<events, world, local>>

LogAdjust(p) ==
  /\ pc[p] = "logAdjust"
  /\ LogEvent(p, "adjust")
  /\ stamps' = [stamps EXCEPT ![p] = Append(@, now)]
  /\ EndPass(p)
  /\ UNCHANGED <<cur, changes, world, seen, target, history, run, measured>>

LogLimited(p) ==
  /\ pc[p] = "logLimited"
  /\ LogEvent(p, "rate_limited")
  /\ EndPass(p)
  /\ UNCHANGED <<cur, changes, world, seen, target, history, stamps, run, measured>>

\* sleep_fn(interval_seconds) returns.
Wake(p) ==
  /\ pc[p] = "sleep"
  /\ now' = IF now < wake[p] THEN wake[p] ELSE now
  /\ Goto(p, "loop")
  /\ UNCHANGED <<shared, up, local>>

-----------------------------------------------------------------------------
\* Mutant: the event is written although the save failed.
StoreRaisesLogged(p) ==
  /\ "storage" \in Faults
  /\ pc[p] \in {"saveRollback", "saveAdjust"}
  /\ LogEvent(p, IF pc[p] = "saveAdjust" THEN "adjust" ELSE "rollback")
  /\ Goto(p, "error")
  /\ UNCHANGED <<cur, changes, world, local>>

\* Faults.  A store call that raises ends the process; a save that raises may
\* have been committed before.
StoreRaises(p) ==
  /\ "storage" \in Faults
  /\ \/ pc[p] = "loop" /\ UNCHANGED <<cur, changes>>
     \/ pc[p] \in {"saveRollback", "saveAdjust"}
        /\ \/ UNCHANGED <<cur, changes>>
           \/ Save(p, IF pc[p] = "saveAdjust" THEN "adjust" ELSE "rollback")
  /\ Goto(p, "error")
  /\ UNCHANGED <<events, world, local>>

Crash(p) ==
  /\ "crash" \in Faults
  /\ pc[p] \notin Stopped
  /\ Goto(p, "off")
  /\ UNCHANGED <<shared, world, local>>

RuntimeStopsOrStarts ==
  /\ "runtime" \in Faults
  /\ up' = ~up
  /\ UNCHANGED <<shared, now, pc, local>>

\* autopilot disable, POST /autopilot/{id}/disable: lock the current config; a
\* model without one is left alone.
Disable(m) ==
  /\ Store!get_tuned_config(m).found
  /\ Store!lock_config(m)
  /\ UNCHANGED <<events, changes, world, pc, local>>

Tick == /\ now < MaxTime
        /\ now' = now + 1
        /\ UNCHANGED <<shared, up, pc, local>>

Step(p) == \/ ReadConfig(p) \/ LogLock(p)
           \/ Probe(p) \/ SaveRollback(p) \/ LogRollback(p)
           \/ TuneUnavailable(p) \/ TuneOnce(p)
           \/ SaveAdjust(p) \/ LogAdjust(p) \/ LogLimited(p)
           \/ Wake(p)

Next == \/ \E p \in Procs : \/ Enable(p) \/ Tune(p) \/ Step(p)
                            \/ StoreRaises(p) \/ Crash(p)
        \/ \E m \in Models : Disable(m)
        \/ RuntimeStopsOrStarts \/ Tick

Spec == Init /\ [][Next]_vars

\* What a process does without waiting for the runtime: is_available() has a time
\* limit, and a runtime that is gone has closed its connections.  A benchmark that
\* a runtime has begun has none (requests.post with timeout=None), and may never
\* return.
OwnStep(p) == \/ ReadConfig(p) \/ LogLock(p)
              \/ Probe(p) /\ ~up
              \/ SaveRollback(p) \/ LogRollback(p)
              \/ TuneUnavailable(p)
              \/ SaveAdjust(p) \/ LogAdjust(p) \/ LogLimited(p)
              \/ Wake(p)

\* A process that runs goes on running, the store answers or raises, and a sleep
\* ends.
FairSpec == Spec /\ \A p \in Procs : WF_vars(OwnStep(p))

-----------------------------------------------------------------------------
EventTypes == {"adjust", "rollback", "rate_limited", "lock"}

Labels == Stopped \cup
          {"loop", "logLock", "probe", "saveRollback", "logRollback", "tune",
           "saveAdjust", "logAdjust", "logLimited", "sleep"}

Event == [model : Models, event_type : EventTypes, config : Baselines]

Change == [by : Procs, run : Nat, event_type : {"adjust", "rollback"},
           model : Models, config : Baselines, at : Nat]

TypeOK ==
  /\ Store!TypeOK
  /\ events \in Seq(Event)
  /\ changes \in Seq(Change)
  /\ up \in BOOLEAN /\ now \in Nat
  /\ pc \in [Procs -> Labels]
  /\ seen \in [Procs -> Baselines \cup {NoConfig}]
  /\ target \in [Procs -> Baselines \cup {NoConfig}]
  /\ history \in [Procs -> Seq([config : Baselines, ok : BOOLEAN])]
  /\ stamps \in [Procs -> Seq(Nat)]
  /\ iter \in [Procs -> Nat] /\ wake \in [Procs -> Nat] /\ run \in [Procs -> Nat]
  /\ measured \in [Procs -> SUBSET Baselines]

-----------------------------------------------------------------------------
(* Safety. *)

\* Nothing unproven is ever put in place: a config that a process makes the
\* active one, as an accepted winner or as a rollback target taken from the
\* history of earlier passes, was measured viable by that same process since it
\* was started.
SavedWasMeasured ==
  \A i \in 1..Len(changes) :
    LET c == changes[i] IN c.run = run[c.by] => c.config \in measured[c.by]

Of(s, kind, m, cfg) ==
  {i \in 1..Len(s) : s[i].model = m /\ s[i].event_type = kind /\ s[i].config = cfg}

\* The audit trail never claims what did not happen: there are no more "adjust"
\* and "rollback" events about a config than there were such changes, whatever
\* fails or crashes in between.
AuditNeverLies ==
  \A m \in Models, cfg \in {events[i].config : i \in 1..Len(events)},
     kind \in {"adjust", "rollback"} :
    Cardinality(Of(events, kind, m, cfg)) <= Cardinality(Of(changes, kind, m, cfg))

Accepts(p, r) == {i \in 1..Len(changes) : /\ changes[i].by = p /\ changes[i].run = r
                                          /\ changes[i].event_type = "adjust"}

\* max_adjustments_per_day, by the times at which the configs were really
\* saved: one run of the loop never accepts more than that many new configs
\* within a Window, though the limit is tested before the save and the stamp is
\* taken after it.
AcceptsWithinCap ==
  MaxAdjustmentsPerDay # NoCap =>
    \A p \in Pilots, r \in 1..MaxRuns : \A i \in Accepts(p, r) :
      Cardinality({j \in Accepts(p, r) : j <= i /\ changes[j].at >= changes[i].at - Window})
        <= MaxAdjustmentsPerDay

\* The store holds what the loop read, a config or none.
Holds(p) == LET row == Store!get_tuned_config(ModelOf[p])
            IN  seen[p] = IF row.found THEN row.config ELSE NoConfig

SavesOf(m) == {i \in 1..Len(changes) : changes[i].model = m}

\* The last config saved for the model of p came from another process.
Overtaken(p) == \E i \in SavesOf(ModelOf[p]) :
                  /\ changes[i].by # p
                  /\ \A j \in SavesOf(ModelOf[p]) : j <= i

\* "Autopilot only switches configs when the improvement clears this bar"
\* (evaluator.py), with any number of processes on one model, locks, faults and
\* restarts: the config that an accepted one is about to replace is the one it was
\* compared with, or else another process's save, which nobody compares it with.
\* It is never one of the loop's own earlier ones.
OnlyOthersAreOverwritten ==
  \A p \in Pilots : pc[p] = "saveAdjust" => Holds(p) \/ Overtaken(p)

\* A rollback answers a config that is not a runtime that is down.
RollbackOnlyWhileUp ==
  [][\A p \in Pilots : pc[p] = "probe" /\ pc'[p] = "saveRollback" => up]_vars

\* The inductive invariant behind SavedWasMeasured, in named parts: a config
\* on its way to the store or to the audit trail is one, ...
Carrying == {"logLock", "saveRollback", "logRollback", "saveAdjust", "logAdjust", "logLimited"}
TargetIsConfig == \A p \in Procs : pc[p] \in Carrying => target[p] \in Baselines

\* ... one about to be saved was measured in this run, ...
Saving == {"saveRollback", "saveAdjust"}
TargetIsMeasured == \A p \in Procs : pc[p] \in Saving => target[p] \in measured[p]

\* ... so was every one the history calls ok, ...
HistoryIsMeasured ==
  \A p \in Procs : \A i \in 1..Len(history[p]) :
    history[p][i].ok => history[p][i].config \in measured[p]

\* ... and no change belongs to a run that has yet to begin.
ChangesArePast == \A i \in 1..Len(changes) : changes[i].run <= run[changes[i].by]

IInv == /\ TypeOK /\ TargetIsConfig /\ TargetIsMeasured
        /\ HistoryIsMeasured /\ ChangesArePast /\ SavedWasMeasured

-----------------------------------------------------------------------------
(* Locking. *)

Locked(m) == Store!Locked(m)

\* "Locked. Autopilot will skip {model_id} until unlocked": a lock, once set, is
\* there to stay (no command unlocks).
LockSticks == [][\A m \in Models : Locked(m) => Locked(m)']_vars

Quiet == Stopped \cup {"loop", "logLock", "sleep"}

\* Locked while no pass over the model is under way.
QuietlyLocked(m) ==
  Locked(m) /\ \A p \in Procs : ModelOf[p] = m => pc[p] \in Quiet

\* What does hold of it: a lock set while no pass over the model is under way
\* stays, and no autopilot begins another pass, however often it is started
\* again; only a tune command can.
QuietLockSticks ==
  [][\A m \in Models : QuietlyLocked(m) =>
       /\ Locked(m)'
       /\ \A p \in Pilots : ModelOf[p] = m => pc'[p] \in Quiet]_vars

-----------------------------------------------------------------------------
(* Liveness. *)

\* p waits for ever for a benchmark, of a runtime that is there.
Hangs(p) == <>[](pc[p] \in {"probe", "tune"}) /\ []<>up

\* max_iterations bounds the loop whatever the passes come to (the rollback branch
\* leaves it by a `continue` of its own), and whatever is raised, locked or down:
\* every start comes to an end, unless one benchmark never returns.
RunEnds == \A p \in Procs : []<>(pc[p] \in Stopped) \/ Hangs(p)
=============================================================================
