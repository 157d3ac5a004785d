# llm-max: a verification project

llm-max finds the configuration in which a local language model runs best on
the machine at hand, keeps it, and goes on tuning it in the background. This
directory holds TLA+ models of that machinery, the TLC configurations that
check them on small instances, and proofs, checked by TLAPS, of the properties
that matter most for every size.

    tlc -config AutopilotFaults.cfg MCAutopilot.tla     # a run
    tlapm Autopilot_proofs.tla                          # a proof

## 1. The system

| Part | Source | State it keeps | Operations |
|---|---|---|---|
| Autopilot loop | `core/llm_max/autotune/engine.py` `autopilot_loop`, `apply`, `_log_event` | per process: `history`, `adjustment_timestamps`, `iteration`, the config read at the top of the pass | read and check the lock, probe, roll back, tune, apply, sleep |
| One tuning pass | `engine.py` `tune_once` | candidates and their benchmarks | benchmark the baseline and each candidate, pick, compare |
| Decisions | `autotune/search.py`, `evaluator.py`, `rollback.py` | none | `generate_candidates`, `pick_best`, `is_meaningful_improvement`, `needs_rollback`, `rollback_target` |
| Benchmark runner | `bench/runner.py`, `bench/metrics.py` | latencies and rates of one benchmark | one prompt after the other, percentiles, mean rate |
| Tuned config storage | `storage/sqlite_store.py`, `storage/mysql_client.py`, `storage/base.py` | table `tuned_configs` | save (insert), get (latest row), lock (update the latest row) |
| History and audit trail | the same stores | tables `run_records`, `autopilot_events` | insert, list most recent first |
| Fallback storage | `storage/resilient.py` | two stores, `last_used_fallback` | every call goes to MySQL, and to SQLite when that raises |
| Status cache | `storage/redis_client.py` | one key with a 300 s lifetime | get, set, both soft-failing |
| Launcher | `launcher/service.py`, `config_builder.py` | none | pull, run a prompt and save its record |
| Compatibility, catalog | `compatibility/`, `catalog/` | none | classify a model against the hardware |
| Profiler | `profiler/` | none | NVML and psutil, empty answers when they fail |
| Runtime adapter | `adapters/ollama.py` | none (Ollama is a server of its own) | `is_available`, `run`, `pull` over HTTP |
| agentd | `agentd/app/` | none | the same operations as HTTP routes |
| webui backend | `webui/backend/` | none | a gateway in front of agentd: timeouts, status codes |
| CLI | `core/llm_max/cli.py` | none | starts all of the above |
| Streaming, contracts, frontend, deployment | `streaming/`, `contracts/`, `webui/frontend`, `docker/` | none | empty placeholders, pages that show what the backend answers, container files |

Everything meets in the store. `llm-max autopilot enable` is a foreground
process that loops for days; `llm-max tune` and agentd's
`POST /models/{id}/tune` write the same rows; `autopilot disable` locks the row
that the loop is about to read. None of them takes a lock or a transaction
longer than one SQL statement, and between a loop's read of the current config
and its save lie minutes of benchmarks. Behind each process is a runtime
(Ollama) that may stop, run out of memory or answer without a rate.

What is hard, then: interleavings of processes on the same model; decisions
taken on what was read before a benchmark; a crash between a save and its audit
event, or between a save and the response; a runtime that disappears in the
middle of a pass or never answers; state (the rate limit's stamps, the rollback
history) that a restart forgets; saves of the same second; a store call that
raises after it has committed; a database that comes and goes; a cache older
than the machine's memory; a timeout in front of work that goes on; a download
whose failure is a line of a response that began with 200; threads that share
one NVML. `PROJECT.json`
lists each at its line under "hazards", with the properties that would notice.

What makes each part correct:

* storage: a save is what the next read returns, whatever the rows before it
  and however many saves share a second; a lock marks that row and no other;
  lists are newest first, and a limit cuts off the oldest;
* fallback: while MySQL's availability does not change, what is written is what
  is read; a record is where its note says it is;
* benchmark: only a full run counts as a success, and the reported latencies
  and rate are those of the samples;
* pass: the winner is the best of everything measured, and a broken baseline is
  replaced by anything that works;
* autopilot: nothing is put in place that was not measured; the config replaced
  is the one that was compared, or else another process's save; what one start
  accepts stays within the daily cap; the audit trail claims nothing that did not happen and misses nothing unless
  something failed; a lock set between passes is respected; every start ends
  unless a benchmark never returns;
* scans and advice: a scan finds every GPU or reports none, what is shown was
  true lately, a status is shown whatever Redis does, and what `models` promises
  of a machine is what `run` does on it;
* downloads: the outcome can be told from the response;
* requests: a status code means what it says about the store, nothing is done
  twice, what was answered is seen, and everyone gets an answer.

## 2. The modules

| Module | Models | Checked by |
|---|---|---|
| `TunedConfigApi` | what `Storage` promises: one register per model | refined by `SqlTunedConfigs`, used by `Autopilot` |
| `SqlTunedConfigs` | the `tuned_configs` table of both SQL stores | run and proofs |
| `FallbackStorage` | `resilient.py`, with the record and event tables, for several hosts and one MySQL | run and proofs |
| `BenchMetrics` | `BenchmarkResult`, `percentile` | through `BenchRunner` |
| `BenchRunner` | `run_benchmark`, one action per answer of the runtime | run `Adapters`, proofs |
| `OllamaAdapter` | `is_available`, the outcome of an HTTP exchange, `tokens_per_sec` | through the next two |
| `OllamaBench` | `run_benchmark` over the Ollama adapter | run `Adapters`, proofs |
| `PullStream` | `pull`, from Ollama's lines to the CLI's bars or agentd's response | run `Adapters`, proofs |
| `NvidiaProvider` | GPU scans by several threads over one NVML | run `Adapters`, proofs |
| `Adapters` | the three above and a benchmark over any runtime, one kind of work to a behaviour | run and proofs |
| `Autotune` | the pure decisions, and a pass as one function (`Outcome`) | through `TuneOnce`, `Autopilot`; proofs |
| `TuneOnce` | one pass, benchmark by benchmark, and the scan of `pick_best` | run and proofs |
| `Autopilot` | the processes on one store | four runs; proofs |
| `AutopilotOutage` | the same processes over the fallback storage | run and proofs |
| `Compatibility` | `classify`, `build_run_config` | through `StatusCache`, `RunOptions` |
| `StatusCache` | `scan_hardware` and the Redis cache, several commands | run and proofs |
| `RunOptions` | `tune` and `run` on one machine | run |
| `RequestApi` | what the web backend promises of a request | refined by `Gateway` |
| `Gateway` | requests through the web backend to agentd's handlers | run and proofs |

`MC*` modules give constants their values for TLC; `*_proofs` modules hold the
theorems. A definition that a mutated form stands above ("Mutant: ...") is one
that a plausible bug would change; the mutated forms are used by nothing else.

How they compose. `SqlTunedConfigs` implements `TunedConfigApi`
(`ImplementsApi`, a refinement with `cur <- get_tuned_config`), and `Autopilot`
uses that register as its store (`Store == INSTANCE TunedConfigApi`) rather than
the table: what the loop sees of the table is the register. `TuneOnce` and
`Autopilot` both extend `Autotune`; `Autopilot` takes a pass's benchmarks in one
step, since they touch nothing that is shared, and `TuneOnce`, which has their
inside, shows that they come to that step (`PassIsOneStep`, with the `Outcome`
that `Autopilot` uses). What both assume of a benchmark (`BenchAssumption`, that
it is a `BenchmarkOfARun`: a success has latencies, an out-of-memory run is none)
is a theorem about `BenchRunner` (`BenchmarksAreAsAssumed`); `OllamaBench` puts
the adapter's rates under it. `AutopilotOutage` extends
`Autopilot` with a second place: `cur` and `events` are what the place in use
holds, and an outage exchanges them with the other's. `FallbackStorage` has the
same two databases for several hosts, and keeps a register per place by the
refinement of `SqlTunedConfigs`. `StatusCache` and `RunOptions` extend
`Compatibility`, whose operators are the advice and the options of a run.
`Gateway` implements `RequestApi` (`answer <- web`, `times <-` the number of rows
a request has inserted).

### State and actions

* **SqlTunedConfigs.** `table` is the rows in id order, `clock` the database's
  seconds. `save_tuned_config` appends a row stamped with the clock,
  `lock_config` updates the row its subquery picks, `get_tuned_config` is an
  operator (`ORDER BY created_at DESC, id DESC LIMIT 1`), `Tick` lets a second
  pass. Each is one SQL transaction in the code and one action here.
* **BenchRunner.** `RunReturns`, `RunRaises` are the turns of the loop over the
  prompts, `Finish` computes the result. Durations and rates are small integers;
  the mean of the rates is the integer part. In **OllamaBench** a turn is
  `Answered`, with the timing Ollama reports, or `Failed`, with the HTTP exchange
  that raises; `replies` is a ghost.
* **PullStream.** `ollama` is what the server is doing, `sent` what it has
  written, `stage` where the reader is. `Ask` is the test of `is_available()`,
  `Post` the request, `Read` one line (`Show` in the CLI, `Relay` in agentd),
  `End` the end of the stream or the loss of the connection.
* **NvidiaProvider.** `pc[s]` is the next NVML call of scan `s`, `inits` NVML's
  own count of `nvmlInit` against `nvmlShutdown`; `CallFails` is every `except`
  of the file.
* **RunOptions.** `Tune` saves a candidate, `Run` computes the options,
  `MemoryChanges` gives the next scan another result.
* **TuneOnce.** `Unavailable`/`Begin` are the test of `is_available()` and the
  choice of the baseline, `BenchBaseline`/`BenchCandidate` one benchmark each,
  `BeginPick`/`PickNext` the scan of `max`, `Return` the three returns.
* **Autopilot.** `pc[p]` is the next call of process `p`: `loop` (read the
  config, look at the lock), `probe` (the benchmark of the current config),
  `saveRollback`, `logRollback`, `tune` (the pass), `saveAdjust`, `logAdjust`,
  `logLimited`, `sleep`. `history`, `stamps`, `iter`, `seen` are
  the loop's local variables; `Start` resets them, as a new process does.
  `Crash` (Ctrl+C, the end of the process) may come between any two.
* **AutopilotOutage.** `ProcStep(p)` is a step of `Autopilot` with what
  `_call` adds to it: a save or an event that MySQL commits and does not
  confirm is in the other place too. `DisableReads`/`DisableLocks` are the two
  calls of `autopilot disable`, `Outage` the exchange of the places.
* **FallbackStorage.** `WritesTo(h)` is `_call` for a write: with MySQL up, it
  takes effect there, or there and, because the answer got lost after the
  commit, in the host's SQLite too; with MySQL down, in SQLite only.
  `ReadsFrom(h)` is `_call` for a read, `select` the two `SELECT`s, with `InOrder`
  for their `ORDER BY`. `expect` and `told` are ghosts: what a read must return,
  and what `run` printed about its record.
* **StatusCache.** A command goes through `get` (cache), `gpus` (one provider
  after the other, each of which may raise), `ram`, `set` and `show`.
  `GetLastScan` and `SetLastScan` are the two calls to Redis with an answer,
  `GetFails` and `SetFails` those that raise inside (refused, or not answered in
  time); a `set` whose answer is late has had its effect, or none.
  `HardwareChanges`, `RedisRestarts` (without its keys) and `Tick` are the world's steps.
* **Gateway.** `web[r]` is the request at the backend, `agent[r]` the stage of
  its handler in agentd, `reply[r]` what it will answer. `ReadTimeout` answers
  502 and leaves the handler alone; `Crash` ends all handlers and closes their
  connections; a handler needs one of `Threads` threads.

## 3. The runs

Twelve runs, each under five minutes with two workers. Nine pass:

| Run | Question | Bounds, and why they are enough |
|---|---|---|
| `SqlTunedConfigs` | does the table behave as one register per model? | 2 models, 2 configs, 3 rows, clock up to 2: two rows of one second and one of a later, with another model's between |
| `FallbackStorage` | what survives a MySQL that comes and goes? | 2 hosts, 1 model, 2 configs, 2 records, 2 saves, clock up to 1: every pair of writes on the same or different hosts and sides of an outage; hosts are symmetric |
| `Adapters` | what does llm-max make of the outside, however it answers or fails? | benchmarks: the 3 prompts of `bench/prompts.py`, 4 durations, 8 timings (none, empty, too slow for two decimals, whole and broken hundredths), 4 failures. Downloads: 3 lines of Ollama's choice and its last one, 3 layers of which two share a key. Scans: 3 threads, 2 GPUs, 2 failing calls. One kind of work to a behaviour: they share no state |
| `TuneOnce` | does a pass choose well? | every list of up to 4 benchmarks out of failures, no rate, rates below, on and above the 5% bar, and ties; baselines inside, at and outside the range of the search |
| `AutopilotRestarts` | restarts, the cap, locks | 1 pilot, 3 iterations, 2 starts, a cap of 1 in a window of 1, one unit of time that may pass at any step |
| `AutopilotFaults` | what is saved, replaced and logged under every fault, and does it end? | 1 pilot (3 iterations: a pass, a rollback or another pass, and one more that reads what became of it) and 1 tune of the same model, all faults, under fairness |
| `AutopilotOutage` | what do saves, trails and locks in two databases come to? | 1 pilot of 2 iterations and 1 tune of the same model, 2 changes of MySQL's availability at any step, answers lost after a commit: the second pass reads in one place what the first or the tune saved in the other, or in both |
| `StatusCache` | cached scans and the advice from them | 2 commands, 1 provider, two states of the GPUs and of the RAM and models for which they are at or just below each threshold, a lifetime of 1 and a clock up to 3: an entry can be written, read and expire, with a change of memory anywhere; under fairness |
| `Gateway` | what does an answer mean? | 3 requests, 2 threads: a write, another write and a request that has to see them, with one of them waiting for a thread |

What each shows:

* `SqlTunedConfigs`: `ImplementsApi` (refinement of `TunedConfigApi`),
  `SaveBecomesCurrent`, `OnlyLatestRowIsLocked`. It rests on a clock that does not
  go back.
* `FallbackStorage`: `SteadyReads`, `RecordsAreWhereNoted`,
  `HistoryIsNewestFirst`.
* `Adapters`: `SuccessIsAFullRun`, `PercentilesAreNearestRank` (against the
  definition of nearest rank), `OllamaRateIsMeasured`; `ClientLearnsOutcome`,
  `BarsFollowTheStream`, `PullEnds`; `AllOrNone`, `ScansDoNotDisturb`,
  `InitsAreReturned`.
* `TuneOnce`: `ScanIsPickBest` (the scan against the declarative winner),
  `AcceptedBeatsAllMeasured`, `BrokenBaselineIsReplaced`, `PassIsOneStep`.
* `AutopilotRestarts`: `AcceptsWithinCap` (per start of the loop),
  `QuietLockSticks`.
* `AutopilotFaults`: `SavedWasMeasured`, `AuditNeverLies`,
  `OnlyOthersAreOverwritten` (what an accepted config replaces without having been
  compared with it is another process's save, never one of the loop's own earlier
  ones), `RunEnds`.
* `AutopilotOutage`: `AuditCompleteTogether` (no crash, no failed insert),
  `ComparedSomewhere` (the config compared with is still what one of the two
  databases holds, or another process has saved one), `LockedInBothSticks`.
* `StatusCache`: `ShownWasTrue`, `AdviceMatchesRun`, `StaleAdviceIsOneSided`,
  `StatusIsShown`.
* `Gateway`: `ImplementsRequestApi` (refinement of `RequestApi`: a request is
  carried out at most once, and an answer other than 502 is the last word),
  `OkMeansDone`, `AnsweredIsSeen`, `EveryRequestIsAnswered`.

Three find a violation, each of something the repository says of the program:

| Run | The code | The statement |
|---|---|---|
| `LockIsLost` | a pass under way when the operator locks the config saves a new row, not locked | `cli.py:399`: "Locked. Autopilot will skip {model_id} until unlocked." |
| `RollbackWithoutRuntime` | the probe of a stopped runtime fails, and a config that is not broken is rolled back | `engine.py:209`: "checks whether the *currently active* config is newly broken" |
| `TunedIsNotRun` | `run` takes its options from the hardware and reads no tuned config | `cli.py:330`: "Saved. {model_id} will now run with {session.winner.config}." |

### Fairness

`AutopilotFaults` has weak fairness of `OwnStep`, the steps that a running process
takes without waiting for the runtime, and of nothing else: nobody has to start a
process, the runtime need not come back, no fault need happen or stop. A
benchmark is among them only when the runtime is gone: then its connections are
closed and the request raises. `adapter.run` has no timeout (`ollama.py:75`), so
that a benchmark begun by a runtime that is there may never return; `RunEnds`
names that case (`Hangs`) and claims the end of every other start. The store's
calls return or raise.

`Adapters` has it of `OwnRead`, where there is a download at all: the availability
test has a timeout, lines that were written are read, and the end of a stream or
of Ollama is noticed. Neither the answer to the request nor another line is
presumed (`timeout=None`, `ollama.py:54`); a download that Ollama leaves hanging
hangs, and `PullEnds` is about those that have ended for Ollama. A behaviour with
another kind of work is subject to no fairness.

`StatusCache` has it of `Local`: the scan and the printing of a command, and its
two calls to Redis failing. Redis itself need not answer: the client's
`socket_connect_timeout` and `socket_timeout` of a second
(`redis_client.py:34`) end each call.

`Gateway` is fair only to the backend's read timeouts, which a timer of its
socket brings about whatever agentd does; no handler is presumed to end. The
other runs have safety properties only, and no fairness.

### Abstractions

* A tuned config is its `num_ctx`, with `EmptyConfig` for `{}`: the search
  produces nothing else.
* Rates, durations and times are integers; the 5% bar and the 70% floor are
  compared as products of integers, which agrees with the floats on integers.
* `max_iterations` is always given (`None` only removes the end of the loop).
* The clock of a database and of a loop does not go back.
* `autopilot disable` is one step in `Autopilot` (its read and its update with
  nothing in between) and two in `AutopilotOutage`, `FallbackStorage` and
  `Gateway`.
* In `AutopilotOutage` all processes are on one host, and the runtime answers.
* In `PullStream` a line of Ollama is one of a few records: texts, layers, blank,
  and the line `{"error": ...}`, whose missing fields the stand-in status "error"
  represents (so that no text of `Statuses` is that one).
* Ollama's durations are in units of which `Second` make a second, rates in
  hundredths of a token per second: what `round(..., 2)` keeps.
* `MaxTime` bounds the time that passes outside of sleeps, `MaxClock`,
  `MaxRows`, `MaxSaves`, `MaxRuns`, `MaxChanges`, `MaxRequests`, `MaxOutages`,
  `MaxLines`, `MaxFailures` the counters of their names; `MaxBusy` is how long a scan and its `set` may take, without
  which a process could put an arbitrarily old scan into the cache.
* In `Gateway`, agentd takes waiting handlers in any order, `is_available()` is
  true or false at will, and the requests are about one model. A save that
  raises may or may not have inserted its row. A restart of the backend itself
  loses its users' connections and is left out.
* A MySQL call either takes effect or raises, or, with the connection lost after
  the commit, both; a call whose statement is lost before is one with MySQL
  down.

## 4. The proofs

TLAPS checks, for all values of the constants that satisfy their assumptions:

| Theorem | Statement |
|---|---|
| `SqlTunedConfigs_proofs!TypeCorrect` | `TypeOK` |
| `SqlTunedConfigs_proofs!Refinement` | the table implements `TunedConfigApi` |
| `SqlTunedConfigs_proofs!SavedIsCurrent`, `OnlyLatestLocked` | `SaveBecomesCurrent`, `OnlyLatestRowIsLocked` |
| `FallbackStorage_proofs!TypeCorrect` | `TypeOK` |
| `FallbackStorage_proofs!ReadsAreSteady`, `RecordsAreFound` | `SteadyReads`, `RecordsAreWhereNoted` |
| `FallbackStorage_proofs!HistoryIsInOrder` | `HistoryIsNewestFirst` |
| `Autotune_proofs!PickBestReturnsBest`, `RollbackTarget` | what the decisions return, for every benchmark |
| `TuneOnce_proofs!ScanIsRight`, `AcceptedIsRight` | `ScanIsPickBest`, `AcceptedBeatsAllMeasured` |
| `TuneOnce_proofs!BrokenBaselineGoes`, `OneStepIsRight` | `BrokenBaselineIsReplaced`, `PassIsOneStep` |
| `Autopilot_proofs!TypeCorrect`, `OnlyMeasuredIsSaved` | `TypeOK`, `SavedWasMeasured` |
| `Autopilot_proofs!QuietLocksStick` | `QuietLockSticks` |
| `Autopilot_proofs!AuditIsHonest` | `AuditNeverLies` |
| `Autopilot_proofs!CapIsKept` | `AcceptsWithinCap` |
| `Autopilot_proofs!ComparedOrOvertaken` | `OnlyOthersAreOverwritten` |
| `Autopilot_proofs!OutageMeasured`, `BothTrailsAreHonest`, `BothLocksStick` | of `OutageSpec`: `SavedWasMeasured`, `AuditNeverLies`, `LockedInBothSticks`, if no insert of an event fails (`"log" \notin Faults`) |
| `Autopilot_proofs!ComparedInOnePlace` | of `OutageSpec`: `ComparedSomewhere`, if `"log" \notin Faults` |
| `Autopilot_proofs!AuditIsComplete` | of `OutageSpec`: `AuditCompleteTogether`, if no process is killed and no insert fails |
| `Adapters_proofs!ReportsAllOrNone`, `NotDisturbed` | `AllOrNone`, `ScansDoNotDisturb` |
| `Adapters_proofs!CountIsBounded` | `InitsAreReturned` |
| `Adapters_proofs!SuccessMeansFullRun` | `SuccessIsAFullRun`, over any runtime and over Ollama |
| `Adapters_proofs!PercentilesOfThree` | `PercentilesAreNearestRank`, of three prompts |
| `Adapters_proofs!RateWasMeasured`, `OllamaRateWasMeasured` | `RateIsMeasured` of `BenchSpec`, `OllamaRateIsMeasured` of `AdaptersSpec` |
| `Adapters_proofs!BenchmarksAreAsAssumed` | every result is a `BenchmarkOfARun`, over any runtime and over Ollama |
| `Adapters_proofs!ClientLearns`, `BarsFollow` | `ClientLearnsOutcome`, `BarsFollowTheStream` |
| `Adapters_proofs!WorkIsSafe` | the above, but for the percentiles and the rate, of `AdaptersSpec` |
| `StatusCache_proofs!ProfilesAreReal` | every profile has a largest GPU, if it has any |
| `StatusCache_proofs!AdviceIsFollowed`, `StaleAdvice` | `AdviceMatchesRun`, `StaleAdviceIsOneSided` |
| `StatusCache_proofs!ShownIsTrue` | `ShownWasTrue` |
| `Gateway_proofs!TypeCorrect` | the state has its types |
| `Gateway_proofs!OkMeansDoneHolds`, `AnsweredIsSeenHolds` | `OkMeansDone`, `AnsweredIsSeen` |
| `Gateway_proofs!Refinement` | the gateway implements `RequestApi` |

From the named assumptions of the modules: the bounds are naturals, the sets of
processes are disjoint, MySQL is no host, what a benchmark may return is a
`BenchmarkOfARun` (which `BenchmarksAreAsAssumed` proves of `BenchRunner`), the
stand-in for an error is no status of Ollama's, a catalog model passed its validation, a
machine has finitely many GPUs, and a process finitely many threads. Hypotheses
that a theorem has of its own are in the table, and the runs that check its
property satisfy them. None of them limits how many processes work on
one model. The outage theorems leave failed inserts of events out because
`AutopilotOutage` is written for inserts that take place: what a call that commits and raises adds to
the other trail (`LoggedAsideToo`) is the event just inserted. Of four prompts
p50 is no nearest rank any more, since `percentile` rounds its index: the theorem
is about the three of `prompts.py`.

The arguments:

* *SqlTunedConfigs.* `IInv` adds to the types that ids and times agree and that
  each model's rows have a latest one (`LatestExists`). The row a save appends
  is that row, because none is ahead of the clock and the tie goes to the
  larger id; `CHOOSE` in `get_tuned_config` is then that row by uniqueness.
  Every step maps to a step of the register or to a stutter.
* *Autopilot.* `SavedWasMeasured` is not inductive: a rollback saves what the
  history calls ok, passes after it was measured. `IInv` follows a config from
  the benchmark through the history (`HistoryIsMeasured`) and through the steps
  between the decision and the save (`TargetIsMeasured`), and says that no
  change belongs to a start yet to come (`ChangesArePast`), so that clearing
  `measured` at a start harms nothing. `measured` is a ghost: no guard reads it.
* *FallbackStorage.* `SteadyReads` is inductive with the types: a write reaches
  the place a host reads from exactly if the host is one of its seers
  (`SeersRead`). `RecordsAreWhereNoted` needs `NumbersInUse`: no store holds a
  number that is not yet given.
  `HistoryIsNewestFirst` needs `OrderInv`: in each store, a later row has a higher
  number and no earlier time, because the clock does not go back and a number is
  given once. On such a table `ORDER BY created_at DESC, id DESC` is the order of
  the inserts reversed (`OrderIsReversed`), which rests on there being a list that
  satisfies the `CHOOSE` of `InOrder`: each id is put as far down as there are ids
  that are not less (`Descending`). What a limit cuts off is then older than what
  it leaves.
* *Autopilot, the audit trail.* `AuditNeverLies` counts events against changes. It
  is inductive once each process between a save and its event owes the trail one:
  events and debts together are no more than the changes of a kind. A failed save
  owes nothing, a crash only forgives.
* *Autopilot, the cap.* The loop tests the number of stamps of the last window,
  then saves, then stamps. For every moment `t`, the accepts since `t` are at most
  the stamps since `t` plus the one that is not stamped yet, and what the test
  found of the window goes on to hold while time passes, since stamps only leave
  it.
* *Autopilot, the comparison.* `HoldsOrOvertaken`: from the read at the top of a
  pass to its save, the store holds what the process read, or the last save of the
  model came from another process. A save by another process makes it the last one
  (`SaveOvertakes`), a lock leaves the config (`LockKeepsConfig`), and the process
  itself saves nothing in between; at the read the first alternative is restored.
* *AutopilotOutage.* A process step is one of `Autopilot` plus what `_call` adds to
  the other place; an outage exchanges the places. What is said of the store is
  therefore said of both places, and the two trails are counted together for
  completeness, each by itself for honesty, and a config compared with is looked
  for in both.
* *TuneOnce.* `PassInv` is a loop invariant: the candidates looked at are a prefix
  of the list, and `best` beats every other viable one of them. `Better` is a
  total order on benchmarks of different contexts, so that the last `best` is what
  `CHOOSE` picks.
* *BenchRunner.* `RunnerInv`: as long as the run goes on, there is a latency for
  each prompt sent; a result is that of a failure or of a full run. That a full run
  has latencies needs `SortedAtIsRanked`: for every list and every `k` below its
  length, some sample has at most `k` smaller ones and more than `k` that are no
  larger, namely the least number with more than `k` samples up to it.
* *The mean rate.* `Total` is a recursive function; that it exists and is unique
  (`RecursionExists`, `RecursionUnique`) makes its equations usable, and by the
  least counterexample the sum of `n` samples lies between `n` times some sample
  and `n` times another (`TotalBounds`). So does the mean between the two, after
  rounding down. Each sample is the rate of a reply (`RatesInv`), at most half a
  hundredth away from what was timed (`RateTells`), and no zero, for those the
  loop drops.
* *PullStream.* What is shown is `Only` of the lines taken: a line read appends at
  most one element to each such list (`OnlyOfNext`), and lines written later leave
  those already taken as they are (`TakenGrows`). `StreamInv` says that an error
  line is the last of an Ollama that has failed for good, so that a reader who has
  come to the end of the lines knows. For the bars: a key's first line makes the
  only bar with that key, and a later one moves it and no other (`BarFollows`).
* *NvidiaProvider.* NVML's count is compared with the number of scans that rely
  on it (`Holding`): each step of a scan moves both by the same amount, except
  that one that gives up leaves the count behind, and is then in `spoiled`, where
  it counts once because it is over (`SpoiledIsOver`). So the count is positive
  whenever a scan reads, no call fails for want of another thread's `nvmlInit`,
  and what is read is read in order (`ReadInOrder`, `Progress`).
* *StatusCache.* `ScanInv` says that every profile under construction, cached
  or shown has a largest GPU, since the union of two that do has one; the tiers
  and the contexts are then monotone by arithmetic. `TruthInv` gives each profile
  the moment since when it may claim to have been true: a scan's since it began,
  and it lasts no more than `MaxBusy`; the cache entry's since `MaxBusy + TTL`
  before it expires; so that what is shown is no older than the sum.
* *Gateway.* What an answer stands for is decided by the handler, while others go
  on writing and the user may have had his 502. `IInv` makes a handler keep what it
  has decided (`Promised`), which nothing undoes since rows are only added or
  locked, and says that an answer other than 502 leaves no handler behind. The
  same facts map every step to a step of `RequestApi` or to a stutter.

Only model-checked, and why:

* liveness under fairness (`RunEnds`, `PullEnds`, `EveryRequestIsAnswered`,
  `StatusIsShown`), which TLAPS does not treat;
* the three violations, which are counterexamples.

Every other property of the nine passing runs is a theorem.

## 5. Where documents and code differ

Met while modelling; the models follow the code. Those of the three runs above
are not repeated.

* `engine.py:217` says that the cap limits accepted configs and rollbacks; by
  `engine.py:291` a rollback is exempt. It is never held back, but it is counted
  and uses up the room of later accepts, so a day may hold more changes than the
  cap when some of them are rollbacks.
* A restart forgets the stamps of the cap (`engine.py:234`), which `engine.py:217`
  promises for "any rolling 24-hour window": the cap is per start of the loop. It
  forgets the history as well: the first pass of a start does not probe the config
  it finds and has nothing to roll back to.
* A broken config without a rollback target falls through to a tuning pass over
  it, although `rollback.py:26` asks to stop autopilot for the model and alert
  the user.
* `autopilot disable` writes no event, although `domain.py:99` lists one; the
  event "locked" comes from the loop that meets the lock.
* `{}` as a baseline is not among its own candidates, where the comment
  `engine.py:125` says "every candidate (including baseline)".
* `cli.py:186` says that a record "was saved to local SQLite instead"; when the
  answer to a committed insert was lost it is in MySQL as well.
* `history --limit -1` is an error for MySQL: the local file answers, with the
  note that MySQL was unreachable (`cli.py:201`).
* `autopilot disable` may print "Locked." (`cli.py:399`) for a lock that landed
  in the other store than its read, where there may be no config to lock.
* `redis_client.py:5` promises the most recent scan; of two concurrent ones the
  last to be written stays.
* An outage hides a lock: the loop reads the place in use, and the other's lock
  is not there (`resilient.py:36`). A lock holds when it was set in both
  (`LockedInBothSticks`).
* `evaluator.py:13` says that a switch clears the 5% bar. A tune saved while a pass
  is under way is overwritten by a winner that was never compared with it
  (`engine.py:393`), and so is, even with one autopilot alone, what the other
  database holds when MySQL goes or comes back in between. `OnlyOthersAreOverwritten`
  and `ComparedSomewhere` are what is left of the statement.
* `base.py:30` calls the config that is read the most recent one; after the
  clock of the database is set back it is not, for `created_at` is ordered before
  the id (`sqlite_store.py:137`).
* `runner.py:16` looks for out-of-memory words in the exception's message; the
  Ollama adapter's `raise_for_status()` puts the status and the URL there, not
  the body that has them (`message` in `OllamaAdapter`), so that no refusal by
  Ollama counts as out of memory.
* A failed download is the line `{"error": ...}`, which `llm-max pull` passes
  over and then prints "Done." (`cli.py:140`, `cli.py:149`). agentd relays the
  line, so that its client can tell (`ClientLearnsOutcome`).
* `service.py:46` promises `RuntimeUnavailableError`; a runtime that goes between
  `is_available()` and the request raises what `requests` does.
* The first, small GPU of a machine makes a model's tier worse than the same
  machine without one.
* `HardwareController.java:37` throws NOT_FOUND, which
  `GlobalExceptionHandler.java:54` turns into 500.

## 6. Not modelled

HTTP and JSON beyond status and outcome; SQL drivers and connection pools;
argument parsing and rendering; the inside of NVML, psutil, MySQL, Redis and
Ollama (external: any answer or failure the code handles); migrations other than
the three tables; the sorting of the list of `models`; which `.env` file is found
from the current directory (`config.py:24`: commands started inside and outside
the repository may use different stores); `initial_history` of the loop, which
only tests pass; `list_installed`, which nobody calls; request ids and CORS; the
empty placeholders under `streaming/`, `contracts/` and of the other adapters;
the pages of `webui/frontend`; containers and pipelines. The `Storage` of
`Autopilot` and `Gateway` is one store; `AutopilotOutage` and `FallbackStorage`
have what becomes of it with two.

## 7. Plan

Done: the storage, the fallback, the benchmark and its adapter, the download, the
scans, the pass, the loop with one and with two databases, the cache, the advice
and the gateway with its abstract specification. Proved: every safety property
and refinement of the passing runs (section 4).

Left, should the code grow: the other runtime adapters, once they are more than
placeholders, as further readers of `BenchRunner`; and, for `RunOptions`, the
statement that the options of a run depend on the hardware alone, once `run` reads
what `tune` saved and there is something other than the counterexample of
`TunedIsNotRun` to say.
