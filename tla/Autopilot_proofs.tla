-------------------------- MODULE Autopilot_proofs --------------------------
(***************************************************************************)
(* For any number of autopilots and one-shot tunes, any models, any        *)
(* benchmarks and any faults: the state stays well-typed, no process ever  *)
(* puts a config in place that it has not measured itself, the audit trail *)
(* claims nothing that did not happen, and a run accepts no more configs   *)
(* in a Window than it may.  An accepted config replaces the one that it   *)
(* was compared with, or another process's save.                           *)
(*                                                                         *)
(* IInv has to follow a config from the benchmark that proved it to the    *)
(* save: through the history, where a later rollback may find it, and      *)
(* through the steps between the decision and the call of the store.  The  *)
(* audit trail needs what the processes still owe it, and the limit the    *)
(* save that is not stamped yet.  At the end, the same of AutopilotOutage: *)
(* MySQL goes and comes back, and each of the two places has a trail.      *)
(***************************************************************************)
EXTENDS AutopilotOutage, Autotune_proofs, SequenceTheorems, FiniteSetTheorems

-----------------------------------------------------------------------------
(* What the pieces of a step do. *)

\* A save puts down a config and remembers the change.
LEMMA SaveTypes ==
  ASSUME TypeOK, NEW p \in Procs, target[p] \in Baselines,
         NEW kind \in {"adjust", "rollback"}, Save(p, kind)
  PROVE  /\ cur' \in [Models -> Store!TunedRow \cup {Store!NoRow}]
         /\ changes' \in Seq(Change)
<1>1. ModelOf[p] \in Models
  BY ProcsAssumption
<1>2. cur' \in [Models -> Store!TunedRow \cup {Store!NoRow}]
  BY <1>1 DEF Save, Store!save_tuned_config, Store!TunedRow, TypeOK, Store!TypeOK
<1>3. [by |-> p, run |-> run[p], event_type |-> kind,
       model |-> ModelOf[p], config |-> target[p], at |-> now] \in Change
  BY <1>1 DEF TypeOK, Change
<1>4. changes' \in Seq(Change)
  BY <1>3 DEF Save, TypeOK
<1>. QED  BY <1>2, <1>4

\* An event is appended or lost.
LEMMA LogEventTypes ==
  ASSUME TypeOK, NEW p \in Procs, target[p] \in Baselines,
         NEW kind \in EventTypes, LogEvent(p, kind)
  PROVE  events' \in Seq(Event)
<1>1. [model |-> ModelOf[p], event_type |-> kind, config |-> target[p]]
        \in Event
  BY ProcsAssumption DEF Event
<1>2. events \in Seq(Event)
  BY DEF TypeOK
<1>3. CASE events' = Append(events, [model |-> ModelOf[p], event_type |-> kind,
                                    config |-> target[p]])
  BY <1>1, <1>2, <1>3
<1>4. CASE events' = events
  BY <1>2, <1>4
<1>. QED  BY <1>3, <1>4 DEF LogEvent

\* A pass that ends counts, and goes to sleep or stops.
LEMMA EndPassTypes ==
  ASSUME TypeOK, NEW p \in Procs, EndPass(p)
  PROVE  /\ pc' \in [Procs -> Labels] /\ pc'[p] \in {"sleep", "done"}
         /\ \A q \in Procs \ {p} : pc'[q] = pc[q]
         /\ iter' \in [Procs -> Nat] /\ wake' \in [Procs -> Nat]
<1>1. iter' \in [Procs -> Nat]
  BY DEF EndPass, TypeOK
<1>2. CASE Goto(p, "sleep") /\ wake' = [wake EXCEPT ![p] = now + Interval]
  BY <1>1, <1>2, TimeAssumption DEF Goto, TypeOK, Labels
<1>3. CASE Goto(p, "done") /\ UNCHANGED wake
  BY <1>1, <1>3 DEF Goto, TypeOK, Labels, Stopped
<1>. QED  BY <1>2, <1>3 DEF EndPass

\* engine.py, from the session of tune_once to the end of the pass: the entry
\* that joins the history, and the config that is on its way to the store, were
\* measured in this pass.
LEMMA ConcludeMeasured ==
  ASSUME TypeOK, NEW p \in Procs, NEW base \in Baselines,
         NEW meas \in [generate_candidates(base) \cup {base} -> BenchResults],
         Conclude(p, base, meas)
  PROVE  /\ measured' \in [Procs -> SUBSET Baselines]
         /\ \A q \in Procs : measured[q] \subseteq measured'[q]
         /\ \E e \in [config : Baselines, ok : BOOLEAN] :
              /\ history' = [history EXCEPT ![p] = Append(@, e)]
              /\ e.ok => e.config \in measured'[p]
         /\ pc' \in [Procs -> Labels] /\ \A q \in Procs \ {p} : pc'[q] = pc[q]
         /\ iter' \in [Procs -> Nat] /\ wake' \in [Procs -> Nat]
         /\ target' \in [Procs -> Baselines \cup {NoConfig}]
         /\ \A q \in Procs \ {p} : target'[q] = target[q]
         /\ \/ pc'[p] \in {"sleep", "done"}
            \/ /\ pc'[p] = "saveAdjust"
               /\ target'[p] \in Baselines /\ target'[p] \in measured'[p]
            \/ pc'[p] = "logLimited" /\ target'[p] \in Baselines
<1>. DEFINE s == Outcome(base, meas)
            results == [c \in generate_candidates(base) |-> meas[c]]
            viable == {c \in DOMAIN meas : Viable(meas[c])}
            limited == s.outcome = "accepted_new" /\ p \in Pilots /\ RateLimited(p)
            past == IF limited THEN [config |-> base, ok |-> Viable(meas[base])]
                               ELSE [config |-> s.winner, ok |-> s.ok]
<1>1. meas \in [generate_candidates(base) \cup {base} -> BenchmarkResult]
  BY BenchAssumption DEF BenchmarkOfARun
<1>2. s = decide(base, meas[base], pick_best(results), results)
  BY DEF Outcome
<1>. HIDE DEF s, results
<1>3. /\ s.winner \in Baselines /\ s.winner \in DOMAIN meas
      /\ s.ok \in BOOLEAN
      /\ s.ok => Viable(meas[s.winner])
      /\ s.outcome = "accepted_new" => s.ok /\ s.winner \in TunableCtx
  BY <1>1, <1>2, DecideIsMeasured DEF results
<1>4. viable \in SUBSET Baselines
  BY CandidatesTunable, BaselinesAreConfigs
<1>5. measured' = [measured EXCEPT ![p] = @ \cup viable]
  BY DEF Conclude
<1>6. /\ measured' \in [Procs -> SUBSET Baselines]
      /\ \A q \in Procs : measured[q] \subseteq measured'[q]
      /\ viable \subseteq measured'[p]
  BY <1>4, <1>5 DEF TypeOK
<1>7. past \in [config : Baselines, ok : BOOLEAN] /\ (past.ok => past.config \in viable)
  <2>1. base \in DOMAIN meas /\ Viable(meas[base]) \in BOOLEAN
    BY DEF Viable, Succeeded
  <2>. QED  BY <1>3, <2>1
<1>8. history' = [history EXCEPT ![p] = Append(@, past)]
  BY DEF Conclude, s
<1>9. CASE /\ s.outcome = "accepted_new"
           /\ target' = [target EXCEPT ![p] = s.winner]
           /\ Goto(p, IF limited THEN "logLimited" ELSE "saveAdjust")
           /\ UNCHANGED <<iter, wake>>
  <2>1. s.winner \in viable
    BY <1>3, <1>9
  <2>2. /\ target' \in [Procs -> Baselines \cup {NoConfig}] /\ target'[p] = s.winner
        /\ \A q \in Procs \ {p} : target'[q] = target[q]
    BY <1>3, <1>9 DEF TypeOK
  <2>3. /\ pc' \in [Procs -> Labels] /\ \A q \in Procs \ {p} : pc'[q] = pc[q]
        /\ pc'[p] \in {"logLimited", "saveAdjust"}
    BY <1>9 DEF Goto, TypeOK, Labels
  <2>4. iter' \in [Procs -> Nat] /\ wake' \in [Procs -> Nat]
    BY <1>9 DEF TypeOK
  <2>. QED  BY <1>3, <1>6, <1>7, <1>8, <2>1, <2>2, <2>3, <2>4
<1>10. CASE EndPass(p) /\ UNCHANGED target
  <2>1. target' \in [Procs -> Baselines \cup {NoConfig}] /\ \A q \in Procs : target'[q] = target[q]
    BY <1>10 DEF TypeOK
  <2>. QED  BY <1>6, <1>7, <1>8, <1>10, <2>1, EndPassTypes
<1>. QED  BY <1>9, <1>10 DEF Conclude, s
-----------------------------------------------------------------------------
(* What a step leaves alone. *)

\* A step that touches neither the changes nor what the history and the
\* measurements say keeps the parts of the invariant about them.
LEMMA PastKept ==
  ASSUME IInv, UNCHANGED <<changes, run, history, measured>>
  PROVE  HistoryIsMeasured' /\ ChangesArePast' /\ SavedWasMeasured'
BY DEF IInv, HistoryIsMeasured, ChangesArePast, SavedWasMeasured

\* A step of one process leaves the targets of the others; its own is sound
\* when it is no longer needed or was not disturbed.
LEMMA TargetsKept ==
  ASSUME IInv, NEW p \in Procs,
         \A q \in Procs \ {p} : pc'[q] = pc[q] /\ target'[q] = target[q],
         \A q \in Procs \ {p} : measured[q] \subseteq measured'[q],
         pc'[p] \in Carrying => target'[p] \in Baselines,
         pc'[p] \in Saving => target'[p] \in measured'[p]
  PROVE  TargetIsConfig' /\ TargetIsMeasured'
BY DEF IInv, TargetIsConfig, TargetIsMeasured

-----------------------------------------------------------------------------
(* Each action preserves the invariant. *)

\* A start forgets what was measured before, and no change was made in the new
\* run yet.
LEMMA StartIInv ==
  ASSUME IInv, NEW p \in Procs, NEW l \in {"loop", "tune"}, Start(p, l)
  PROVE  IInv'
<1>1. TypeOK'
  <2>1. Store!TypeOK' /\ (events \in Seq(Event))' /\ (changes \in Seq(Change))'
    BY DEF IInv, TypeOK, Start, shared, Store!TypeOK
  <2>2. /\ pc' \in [Procs -> Labels] /\ run' \in [Procs -> Nat] /\ iter' \in [Procs -> Nat]
        /\ measured' \in [Procs -> SUBSET Baselines]
        /\ stamps' \in [Procs -> Seq(Nat)]
        /\ history' \in [Procs -> Seq([config : Baselines, ok : BOOLEAN])]
    <3>1. pc' \in [Procs -> Labels]
      BY DEF IInv, TypeOK, Start, Goto, Labels
    <3>2. run' \in [Procs -> Nat] /\ iter' \in [Procs -> Nat]
      BY DEF IInv, TypeOK, Start
    <3>3. measured' \in [Procs -> SUBSET Baselines]
      BY DEF IInv, TypeOK, Start
    <3>4. /\ stamps' \in [Procs -> Seq(Nat)]
          /\ history' \in [Procs -> Seq([config : Baselines, ok : BOOLEAN])]
      <4>1. \A S : << >> \in Seq(S)
        OBVIOUS
      <4>2. /\ stamps' = [stamps EXCEPT ![p] = << >>]
            /\ history' = [history EXCEPT ![p] = << >>]
        BY DEF Start
      <4>. QED  BY <4>1, <4>2 DEF IInv, TypeOK
    <3>. QED  BY <3>1, <3>2, <3>3, <3>4
  <2>. QED  BY <2>1, <2>2 DEF IInv, TypeOK, Start, world
<1>2. TargetIsConfig' /\ TargetIsMeasured'
  <2>1. /\ \A q \in Procs \ {p} : pc'[q] = pc[q] /\ target'[q] = target[q]
        /\ \A q \in Procs \ {p} : measured'[q] = measured[q]
        /\ pc'[p] = l
    BY DEF Start, Goto, IInv, TypeOK
  <2>. QED  BY <2>1, TargetsKept DEF Carrying, Saving
<1>3. HistoryIsMeasured'
  <2>1. history'[p] = << >> /\ \A q \in Procs \ {p} : history'[q] = history[q] /\ measured'[q] = measured[q]
    BY DEF Start, IInv, TypeOK
  <2>. QED  BY <2>1 DEF HistoryIsMeasured, IInv
<1>4. ASSUME NEW i \in 1..Len(changes)
      PROVE  /\ changes[i].by \in Procs
             /\ changes[i].run <= run'[changes[i].by]
             /\ changes[i].by = p => changes[i].run # run'[p]
             /\ changes[i].by # p => /\ run'[changes[i].by] = run[changes[i].by]
                                     /\ measured'[changes[i].by] = measured[changes[i].by]
  <2>1. changes[i] \in Change
    BY DEF IInv, TypeOK
  <2>2. changes[i].by \in Procs /\ changes[i].run \in Nat
    BY <2>1 DEF Change
  <2>3. changes[i].run <= run[changes[i].by]
    BY DEF IInv, ChangesArePast
  <2>4. /\ run'[p] = run[p] + 1 /\ run[p] \in Nat
        /\ \A q \in Procs \ {p} : run'[q] = run[q] /\ measured'[q] = measured[q]
    BY DEF Start, IInv, TypeOK
  <2>. QED  BY <2>2, <2>3, <2>4
<1>5. changes' = changes
  BY DEF Start, shared
<1>6. ChangesArePast'
  BY <1>4, <1>5 DEF ChangesArePast
<1>7. SavedWasMeasured'
  BY <1>4, <1>5 DEF SavedWasMeasured, IInv
<1>. QED  BY <1>1, <1>2, <1>3, <1>6, <1>7 DEF IInv

\* The top of the loop reads a config, and a locked one is only logged.
LEMMA ReadConfigIInv ==
  ASSUME IInv, NEW p \in Procs, ReadConfig(p)
  PROVE  IInv'
<1>. DEFINE row == Store!get_tuned_config(ModelOf[p])
<1>1. row = Store!NoRow \/ row \in Store!TunedRow
  <2>1. cur \in [Models -> Store!TunedRow \cup {Store!NoRow}]
    BY DEF IInv, TypeOK, Store!TypeOK
  <2>2. ModelOf[p] \in Models /\ row = cur[ModelOf[p]]
    BY ProcsAssumption DEF Store!get_tuned_config
  <2>. QED  BY <2>1, <2>2
<1>2. row.found => row.config \in Baselines
  <2>1. CASE row = Store!NoRow
    BY <2>1 DEF Store!NoRow
  <2>2. CASE row \in Store!TunedRow
    BY <2>2 DEF Store!TunedRow
  <2>. QED  BY <1>1, <2>1, <2>2
<1>3. TypeOK' /\ TargetIsConfig' /\ TargetIsMeasured'
  <2>1. CASE row.found /\ row.locked
    <3>1. /\ target' = [target EXCEPT ![p] = row.config] /\ seen' = seen
          /\ pc' = [pc EXCEPT ![p] = "logLock"]
      BY <2>1 DEF ReadConfig, Goto
    <3>2. TypeOK'
      BY <1>2, <2>1, <3>1
      DEF ReadConfig, IInv, TypeOK, Store!TypeOK, Store!TunedRow, Store!NoRow, Labels, shared, world
    <3>3. /\ \A q \in Procs \ {p} : pc'[q] = pc[q] /\ target'[q] = target[q]
          /\ pc'[p] = "logLock" /\ target'[p] = row.config /\ measured' = measured
      BY <3>1 DEF ReadConfig, IInv, TypeOK
    <3>. QED  BY <1>2, <2>1, <3>2, <3>3, TargetsKept DEF Saving
  <2>2. CASE ~(row.found /\ row.locked)
    <3>1. /\ seen' = [seen EXCEPT ![p] = IF row.found THEN row.config ELSE NoConfig]
          /\ \E l \in {"probe", "tune"} : pc' = [pc EXCEPT ![p] = l]
          /\ target' = target
      BY <2>2 DEF ReadConfig, Goto
    <3>2. TypeOK'
      BY <1>2, <3>1
      DEF ReadConfig, IInv, TypeOK, Store!TypeOK, Store!TunedRow, Store!NoRow, Labels, shared, world
    <3>3. /\ \A q \in Procs \ {p} : pc'[q] = pc[q] /\ target'[q] = target[q]
          /\ pc'[p] \in {"probe", "tune"} /\ measured' = measured
      BY <3>1 DEF ReadConfig, IInv, TypeOK
    <3>. QED  BY <3>2, <3>3, TargetsKept DEF Carrying, Saving
  <2>. QED  BY <2>1, <2>2
<1>4. HistoryIsMeasured' /\ ChangesArePast' /\ SavedWasMeasured'
  BY PastKept DEF ReadConfig, shared
<1>. QED  BY <1>3, <1>4 DEF IInv

\* The probe of a broken config finds its way back in the history, where what
\* is ok was measured.
LEMMA ProbeIInv ==
  ASSUME IInv, NEW p \in Procs, Probe(p)
  PROVE  IInv'
<1>. DEFINE back == rollback_target(seen[p], history[p])
<1>1. PICK b \in BenchResults :
        IF needs_rollback(b) /\ back # NoConfig
           THEN Goto(p, "saveRollback") /\ target' = [target EXCEPT ![p] = back]
           ELSE Goto(p, "tune") /\ UNCHANGED target
  BY DEF Probe
<1>2. /\ history[p] \in Seq([config : Baselines, ok : BOOLEAN])
      /\ \A i \in 1..Len(history[p]) : history[p][i].ok => history[p][i].config \in measured[p]
      /\ measured[p] \in SUBSET Baselines
  BY DEF IInv, TypeOK, HistoryIsMeasured
<1>3. back # NoConfig => back \in measured[p] /\ back \in Baselines
  <2>1. SUFFICES ASSUME back # NoConfig  PROVE back \in measured[p] /\ back \in Baselines
    OBVIOUS
  <2>2. PICK i \in 1..Len(history[p]) : history[p][i].ok /\ history[p][i].config = back
    <3>1. history[p] \in Seq([config : Baselines, ok : BOOLEAN])
      BY <1>2
    <3>2. rollback_target(seen[p], history[p]) # NoConfig
      BY <2>1
    <3>3. \E i \in 1..Len(history[p]) :
            /\ history[p][i].ok
            /\ history[p][i].config = rollback_target(seen[p], history[p])
            /\ history[p][i].config # seen[p]
      BY <3>1, <3>2, RollbackTarget
    <3>. QED  BY <3>3
  <2>. QED  BY <1>2, <2>2
<1>4. /\ pc' \in [Procs -> Labels] /\ \A q \in Procs \ {p} : pc'[q] = pc[q]
      /\ pc'[p] \in {"saveRollback", "tune"}
  BY <1>1 DEF Goto, IInv, TypeOK, Labels
<1>5. /\ target' \in [Procs -> Baselines \cup {NoConfig}]
      /\ \A q \in Procs \ {p} : target'[q] = target[q]
      /\ pc'[p] = "saveRollback" => target'[p] = back /\ back # NoConfig
  BY <1>1, <1>3 DEF Goto, IInv, TypeOK
<1>7. TypeOK'
  BY <1>4, <1>5 DEF IInv, TypeOK, Store!TypeOK, Probe, shared, world
<1>8. TargetIsConfig' /\ TargetIsMeasured'
  <2>1. measured' = measured
    BY DEF Probe
  <2>. QED  BY <1>3, <1>4, <1>5, <2>1, TargetsKept DEF Carrying, Saving
<1>9. HistoryIsMeasured' /\ ChangesArePast' /\ SavedWasMeasured'
  BY PastKept DEF Probe, shared
<1>. QED  BY <1>7, <1>8, <1>9 DEF IInv

\* tune_once: what it measured joins measured, and only that goes further.
LEMMA TuneOnceIInv ==
  ASSUME IInv, NEW p \in Procs, TuneOnce(p)
  PROVE  IInv'
<1>1. StartingPoints(p) \in SUBSET Baselines
  BY ConfigAssumption DEF StartingPoints, IInv, TypeOK
<1>2. PICK base \in StartingPoints(p) :
        \E meas \in [generate_candidates(base) \cup {base} -> BenchResults] :
          Conclude(p, base, meas)
  BY DEF TuneOnce
<1>3. PICK meas \in [generate_candidates(base) \cup {base} -> BenchResults] :
        Conclude(p, base, meas)
  BY <1>2
<1>4. TypeOK /\ base \in Baselines
  BY <1>1 DEF IInv
<1>5. PICK e \in [config : Baselines, ok : BOOLEAN] :
        /\ history' = [history EXCEPT ![p] = Append(@, e)]
        /\ e.ok => e.config \in measured'[p]
  BY <1>3, <1>4, ConcludeMeasured
<1>6. /\ measured' \in [Procs -> SUBSET Baselines]
      /\ \A q \in Procs : measured[q] \subseteq measured'[q]
      /\ pc' \in [Procs -> Labels] /\ \A q \in Procs \ {p} : pc'[q] = pc[q]
      /\ iter' \in [Procs -> Nat] /\ wake' \in [Procs -> Nat]
      /\ target' \in [Procs -> Baselines \cup {NoConfig}]
      /\ \A q \in Procs \ {p} : target'[q] = target[q]
  BY <1>3, <1>4, ConcludeMeasured
<1>7. \/ pc'[p] \in {"sleep", "done"}
      \/ /\ pc'[p] = "saveAdjust"
         /\ target'[p] \in Baselines /\ target'[p] \in measured'[p]
      \/ pc'[p] = "logLimited" /\ target'[p] \in Baselines
  BY <1>3, <1>4, ConcludeMeasured
<1>8. history' \in [Procs -> Seq([config : Baselines, ok : BOOLEAN])]
  <2>1. history \in [Procs -> Seq([config : Baselines, ok : BOOLEAN])]
    BY DEF IInv, TypeOK
  <2>2. Append(history[p], e) \in Seq([config : Baselines, ok : BOOLEAN])
    <3>1. history[p] \in Seq([config : Baselines, ok : BOOLEAN])
      BY <2>1
    <3>. QED  BY <3>1, AppendProperties
  <2>. QED  BY <1>5, <2>1, <2>2
<1>9. TypeOK'
  BY <1>6, <1>8 DEF IInv, TypeOK, Store!TypeOK, TuneOnce, shared, world
<1>10. TargetIsConfig' /\ TargetIsMeasured'
  BY <1>6, <1>7, TargetsKept DEF Carrying, Saving
<1>11. HistoryIsMeasured'
  <2>1. SUFFICES ASSUME NEW q \in Procs, NEW i \in 1..Len(history'[q]), history'[q][i].ok
                 PROVE  history'[q][i].config \in measured'[q]
    BY DEF HistoryIsMeasured
  <2>2. CASE q # p
    BY <1>5, <1>6, <2>1, <2>2 DEF IInv, TypeOK, HistoryIsMeasured
  <2>3. CASE q = p
    <3>1. history[p] \in Seq([config : Baselines, ok : BOOLEAN])
      BY DEF IInv, TypeOK
    <3>2. history'[p] = Append(history[p], e)
      BY <1>5 DEF IInv, TypeOK
    <3>3. CASE i = Len(history[p]) + 1
      BY <1>5, <2>1, <2>3, <3>1, <3>2, <3>3
    <3>4. CASE i \in 1..Len(history[p])
      <4>1. history'[p][i] = history[p][i]
        BY <3>1, <3>2, <3>4
      <4>2. history[p][i].ok => history[p][i].config \in measured[p]
        BY <3>4 DEF IInv, HistoryIsMeasured
      <4>. QED  BY <1>6, <2>1, <2>3, <4>1, <4>2
    <3>. QED  BY <2>3, <3>1, <3>2, <3>3, <3>4
  <2>. QED  BY <2>2, <2>3
<1>12. ChangesArePast'
  BY DEF TuneOnce, shared, IInv, ChangesArePast
<1>13. SavedWasMeasured'
  <2>1. changes' = changes /\ run' = run
    BY DEF TuneOnce, shared
  <2>2. ASSUME NEW i \in 1..Len(changes)  PROVE changes[i].by \in Procs
    <3>1. changes[i] \in Change
      BY DEF IInv, TypeOK
    <3>. QED  BY <3>1 DEF Change
  <2>. QED  BY <1>6, <2>1, <2>2 DEF IInv, SavedWasMeasured
<1>. QED  BY <1>9, <1>10, <1>11, <1>12, <1>13 DEF IInv

\* A save adds a change of the present run, of a config that was measured in it.
LEMMA SavePast ==
  ASSUME IInv, NEW p \in Procs, pc[p] \in Saving,
         NEW kind \in {"adjust", "rollback"}, Save(p, kind),
         UNCHANGED <<history, run, measured>>
  PROVE  HistoryIsMeasured' /\ ChangesArePast' /\ SavedWasMeasured'
<1>. DEFINE c == [by |-> p, run |-> run[p], event_type |-> kind,
                  model |-> ModelOf[p], config |-> target[p], at |-> now]
<1>1. changes' = Append(changes, c) /\ changes \in Seq(Change)
  BY DEF Save, IInv, TypeOK
<1>2. c.by = p /\ c.run = run[p] /\ c.config = target[p]
  OBVIOUS
<1>3. target[p] \in measured[p] /\ run[p] \in Nat
  BY DEF IInv, TypeOK, TargetIsMeasured
<1>. HIDE DEF c
<1>4. ASSUME NEW i \in 1..Len(changes')
      PROVE  (i \in 1..Len(changes) /\ changes'[i] = changes[i]) \/ changes'[i] = c
  BY <1>1
<1>5. HistoryIsMeasured'
  BY DEF IInv, HistoryIsMeasured
<1>6. ChangesArePast'
  BY <1>2, <1>3, <1>4 DEF IInv, ChangesArePast
<1>7. SavedWasMeasured'
  BY <1>2, <1>3, <1>4 DEF IInv, SavedWasMeasured
<1>. QED  BY <1>5, <1>6, <1>7

\* Both saves; the rollback's stamp is taken in the same step.
LEMMA SaveIInv ==
  ASSUME IInv, NEW p \in Procs, SaveRollback(p) \/ SaveAdjust(p)
  PROVE  IInv'
<1>1. /\ pc[p] \in Saving
      /\ \E kind \in {"adjust", "rollback"} : Save(p, kind)
      /\ \E l \in {"logRollback", "logAdjust"} : pc' = [pc EXCEPT ![p] = l]
      /\ UNCHANGED <<events, world, seen, target, history, iter, wake, run, measured>>
  BY DEF SaveRollback, SaveAdjust, Goto, Saving, local
<1>2. target[p] \in Baselines
  BY <1>1 DEF IInv, TargetIsConfig, Saving, Carrying
<1>3. /\ cur' \in [Models -> Store!TunedRow \cup {Store!NoRow}]
      /\ changes' \in Seq(Change)
  BY <1>1, <1>2, SaveTypes DEF IInv
<1>4. stamps' \in [Procs -> Seq(Nat)]
  <2>1. stamps \in [Procs -> Seq(Nat)] /\ now \in Nat
    BY DEF IInv, TypeOK
  <2>2. Append(stamps[p], now) \in Seq(Nat)
    BY <2>1
  <2>3. stamps' = [stamps EXCEPT ![p] = Append(@, now)] \/ stamps' = stamps
    BY DEF SaveRollback, SaveAdjust, local
  <2>. QED  BY <2>1, <2>2, <2>3
<1>5. /\ pc' \in [Procs -> Labels] /\ \A q \in Procs \ {p} : pc'[q] = pc[q]
      /\ pc'[p] \in {"logRollback", "logAdjust"}
  BY <1>1 DEF IInv, TypeOK, Labels
<1>6. TypeOK'
  BY <1>1, <1>3, <1>4, <1>5 DEF IInv, TypeOK, Store!TypeOK, world
<1>7. TargetIsConfig' /\ TargetIsMeasured'
  BY <1>1, <1>2, <1>5, TargetsKept DEF Saving
<1>8. HistoryIsMeasured' /\ ChangesArePast' /\ SavedWasMeasured'
  BY <1>1, SavePast
<1>. QED  BY <1>6, <1>7, <1>8 DEF IInv

\* The steps that write an event: they end the pass or the process.
LEMMA LogIInv ==
  ASSUME IInv, NEW p \in Procs,
         LogLock(p) \/ LogRollback(p) \/ LogAdjust(p) \/ LogLimited(p)
  PROVE  IInv'
<1>1. /\ pc[p] \in Carrying
      /\ \E kind \in EventTypes : LogEvent(p, kind)
      /\ \/ EndPass(p)
         \/ pc' = [pc EXCEPT ![p] = "done"] /\ UNCHANGED <<iter, wake>>
      /\ UNCHANGED <<cur, changes, world, seen, target, history, run, measured>>
  BY DEF LogLock, LogRollback, LogAdjust, LogLimited, EventTypes, Carrying, Goto, local
<1>2. TypeOK /\ target[p] \in Baselines
  BY <1>1 DEF IInv, TargetIsConfig
<1>3. events' \in Seq(Event)
  BY <1>1, <1>2, LogEventTypes
<1>4. stamps' \in [Procs -> Seq(Nat)]
  <2>1. stamps \in [Procs -> Seq(Nat)] /\ now \in Nat
    BY DEF IInv, TypeOK
  <2>2. Append(stamps[p], now) \in Seq(Nat)
    BY <2>1
  <2>3. stamps' = [stamps EXCEPT ![p] = Append(@, now)] \/ stamps' = stamps
    BY DEF LogLock, LogRollback, LogAdjust, LogLimited, local
  <2>. QED  BY <2>1, <2>2, <2>3
<1>5. /\ pc' \in [Procs -> Labels] /\ \A q \in Procs \ {p} : pc'[q] = pc[q]
      /\ pc'[p] \in {"sleep", "done"}
      /\ iter' \in [Procs -> Nat] /\ wake' \in [Procs -> Nat]
  <2>1. CASE EndPass(p)
    BY <1>2, <2>1, EndPassTypes
  <2>2. CASE pc' = [pc EXCEPT ![p] = "done"] /\ UNCHANGED <<iter, wake>>
    BY <1>2, <2>2 DEF TypeOK, Labels, Stopped
  <2>. QED  BY <1>1, <2>1, <2>2
<1>6. TypeOK'
  BY <1>1, <1>3, <1>4, <1>5 DEF IInv, TypeOK, Store!TypeOK, world
<1>7. TargetIsConfig' /\ TargetIsMeasured'
  BY <1>1, <1>5, TargetsKept DEF Carrying, Saving
<1>8. HistoryIsMeasured' /\ ChangesArePast' /\ SavedWasMeasured'
  BY <1>1, PastKept
<1>. QED  BY <1>6, <1>7, <1>8 DEF IInv

\* The steps that only move a process on: the end of a sleep, a runtime that is
\* not there, a crash.
LEMMA MoveIInv ==
  ASSUME IInv, NEW p \in Procs, Wake(p) \/ TuneUnavailable(p) \/ Crash(p)
  PROVE  IInv'
<1>1. /\ \E l \in {"loop", "error", "off"} : pc' = [pc EXCEPT ![p] = l]
      /\ UNCHANGED <<shared, up, local>>
  BY DEF Wake, TuneUnavailable, Crash, Goto, world
<1>2. now' \in Nat
  BY DEF Wake, TuneUnavailable, Crash, world, IInv, TypeOK
<1>3. /\ pc' \in [Procs -> Labels] /\ \A q \in Procs \ {p} : pc'[q] = pc[q]
      /\ pc'[p] \in {"loop", "error", "off"}
  BY <1>1 DEF IInv, TypeOK, Labels, Stopped
<1>4. TypeOK'
  BY <1>1, <1>2, <1>3 DEF IInv, TypeOK, Store!TypeOK, shared, local
<1>5. TargetIsConfig' /\ TargetIsMeasured'
  <2>1. target' = target /\ measured' = measured
    BY <1>1 DEF local
  <2>. QED  BY <1>3, <2>1, TargetsKept DEF Carrying, Saving
<1>6. HistoryIsMeasured' /\ ChangesArePast' /\ SavedWasMeasured'
  BY <1>1, PastKept DEF shared, local
<1>. QED  BY <1>4, <1>5, <1>6 DEF IInv

\* A store call that raises: a save may have happened before.
LEMMA StoreRaisesIInv ==
  ASSUME IInv, NEW p \in Procs, StoreRaises(p)
  PROVE  IInv'
<1>1. /\ pc' = [pc EXCEPT ![p] = "error"]
      /\ UNCHANGED <<events, world, local>>
  BY DEF StoreRaises, Goto
<1>2. /\ pc' \in [Procs -> Labels] /\ \A q \in Procs \ {p} : pc'[q] = pc[q]
      /\ pc'[p] = "error"
  BY <1>1 DEF IInv, TypeOK, Labels, Stopped
<1>3. TargetIsConfig' /\ TargetIsMeasured'
  <2>1. target' = target /\ measured' = measured
    BY <1>1 DEF local
  <2>. QED  BY <1>2, <2>1, TargetsKept DEF Carrying, Saving
<1>4. CASE UNCHANGED <<cur, changes>>
  <2>1. TypeOK'
    BY <1>1, <1>2, <1>4 DEF IInv, TypeOK, Store!TypeOK, world, local
  <2>2. HistoryIsMeasured' /\ ChangesArePast' /\ SavedWasMeasured'
    BY <1>1, <1>4, PastKept DEF local
  <2>. QED  BY <1>3, <2>1, <2>2 DEF IInv
<1>5. CASE /\ pc[p] \in Saving
           /\ Save(p, IF pc[p] = "saveAdjust" THEN "adjust" ELSE "rollback")
  <2>1. PICK kind \in {"adjust", "rollback"} : Save(p, kind)
    BY <1>5
  <2>2. target[p] \in Baselines
    BY <1>5 DEF IInv, TargetIsConfig, Saving, Carrying
  <2>3. /\ cur' \in [Models -> Store!TunedRow \cup {Store!NoRow}]
        /\ changes' \in Seq(Change)
    BY <2>1, <2>2, SaveTypes DEF IInv
  <2>4. TypeOK'
    BY <1>1, <1>2, <2>3 DEF IInv, TypeOK, Store!TypeOK, world, local
  <2>5. HistoryIsMeasured' /\ ChangesArePast' /\ SavedWasMeasured'
    BY <1>1, <1>5, <2>1, SavePast DEF local
  <2>. QED  BY <1>3, <2>4, <2>5 DEF IInv
<1>. QED  BY <1>4, <1>5 DEF StoreRaises, Saving

\* disable changes the lock of a row and nothing else.
LEMMA DisableIInv ==
  ASSUME IInv, NEW m \in Models, Disable(m)
  PROVE  IInv'
<1>1. cur \in [Models -> Store!TunedRow \cup {Store!NoRow}]
  BY DEF IInv, TypeOK, Store!TypeOK
<1>2. cur[m] \in Store!TunedRow
  <2>1. cur[m].found
    BY DEF Disable, Store!get_tuned_config
  <2>2. cur[m] # Store!NoRow
    BY <2>1 DEF Store!NoRow
  <2>. QED  BY <1>1, <2>2
<1>3. [found |-> TRUE, config |-> cur[m].config, locked |-> TRUE] \in Store!TunedRow
  BY <1>2 DEF Store!TunedRow
<1>4. cur' \in [Models -> Store!TunedRow \cup {Store!NoRow}]
  BY <1>1, <1>3 DEF Disable, Store!lock_config
<1>5. UNCHANGED <<events, changes, world, pc, local>>
  BY DEF Disable
<1>6. TypeOK'
  BY <1>4, <1>5 DEF IInv, TypeOK, Store!TypeOK, world, local
<1>7. TargetIsConfig' /\ TargetIsMeasured'
  BY <1>5 DEF IInv, TargetIsConfig, TargetIsMeasured, local
<1>8. HistoryIsMeasured' /\ ChangesArePast' /\ SavedWasMeasured'
  BY <1>5, PastKept DEF local
<1>. QED  BY <1>6, <1>7, <1>8 DEF IInv

\* The runtime, the clock and a stuttering step touch no process.
LEMMA WorldIInv ==
  ASSUME IInv, RuntimeStopsOrStarts \/ Tick \/ UNCHANGED vars
  PROVE  IInv'
<1>1. UNCHANGED <<shared, pc, local>>
  BY DEF RuntimeStopsOrStarts, Tick, vars
<1>2. up' \in BOOLEAN /\ now' \in Nat
  <2>1. up \in BOOLEAN /\ now \in Nat
    BY DEF IInv, TypeOK
  <2>2. up' = ~up \/ up' = up
    BY DEF RuntimeStopsOrStarts, Tick, vars, world
  <2>3. now' = now + 1 \/ now' = now
    BY DEF RuntimeStopsOrStarts, Tick, vars, world
  <2>4. up' \in BOOLEAN
    BY <2>1, <2>2
  <2>5. now' \in Nat
    BY <2>1, <2>3
  <2>. QED  BY <2>4, <2>5
<1>3. TypeOK'
  BY <1>1, <1>2 DEF IInv, TypeOK, Store!TypeOK, shared, local
<1>4. TargetIsConfig' /\ TargetIsMeasured'
  BY <1>1 DEF IInv, TargetIsConfig, TargetIsMeasured, local
<1>5. HistoryIsMeasured' /\ ChangesArePast' /\ SavedWasMeasured'
  BY <1>1, PastKept DEF shared, local
<1>. QED  BY <1>3, <1>4, <1>5 DEF IInv

\* No process has started: nothing is saved, measured or on its way.
LEMMA InitIInv == Init => IInv
<1>. SUFFICES ASSUME Init PROVE IInv
  OBVIOUS
<1>1. TypeOK
  <2>1. \A S : << >> \in Seq(S)
    OBVIOUS
  <2>2. Store!TypeOK
    BY DEF Init, Store!TypeOK
  <2>3. /\ pc \in [Procs -> Labels]
        /\ seen \in [Procs -> Baselines \cup {NoConfig}]
        /\ target \in [Procs -> Baselines \cup {NoConfig}]
    BY DEF Init, Labels, Stopped
  <2>4. /\ iter \in [Procs -> Nat] /\ wake \in [Procs -> Nat] /\ run \in [Procs -> Nat]
        /\ measured \in [Procs -> SUBSET Baselines]
    BY DEF Init
  <2>5. /\ history \in [Procs -> Seq([config : Baselines, ok : BOOLEAN])]
        /\ stamps \in [Procs -> Seq(Nat)]
        /\ events \in Seq(Event) /\ changes \in Seq(Change)
    BY <2>1 DEF Init
  <2>. QED  BY <2>2, <2>3, <2>4, <2>5 DEF TypeOK, Init
<1>2. TargetIsConfig /\ TargetIsMeasured
  BY DEF Init, TargetIsConfig, TargetIsMeasured, Carrying, Saving
<1>3. HistoryIsMeasured /\ ChangesArePast /\ SavedWasMeasured
  BY DEF Init, HistoryIsMeasured, ChangesArePast, SavedWasMeasured
<1>. QED  BY <1>1, <1>2, <1>3 DEF IInv

-----------------------------------------------------------------------------
\* Every step preserves the invariant.
LEMMA NextIInv ==
  ASSUME IInv, [Next]_vars
  PROVE  IInv'
<1>1. ASSUME NEW p \in Procs, Enable(p) \/ Tune(p)  PROVE IInv'
  BY <1>1, StartIInv DEF Enable, Tune
<1>2. ASSUME NEW p \in Procs, Step(p)  PROVE IInv'
  BY <1>2, ReadConfigIInv, LogIInv, ProbeIInv, SaveIInv, MoveIInv, TuneOnceIInv DEF Step
<1>3. ASSUME NEW p \in Procs, StoreRaises(p) \/ Crash(p)  PROVE IInv'
  BY <1>3, StoreRaisesIInv, MoveIInv
<1>4. ASSUME NEW m \in Models, Disable(m)  PROVE IInv'
  BY <1>4, DisableIInv
<1>5. CASE RuntimeStopsOrStarts \/ Tick \/ UNCHANGED vars
  BY <1>5, WorldIInv
<1>. QED  BY <1>1, <1>2, <1>3, <1>4, <1>5 DEF Next

\* The invariant holds of every state that can be reached, whatever fails.
THEOREM Inductive == Spec => []IInv
BY InitIInv, NextIInv, PTL DEF Spec

\* The state of the store and of every process is always well-typed: in
\* particular, only configs that the search can produce are ever saved.
THEOREM TypeCorrect == Spec => []TypeOK
<1>1. IInv => TypeOK
  BY DEF IInv
<1>. QED  BY <1>1, Inductive, PTL

\* engine.py: a config that autopilot or tune puts in place, as an accepted
\* winner or as the target of a rollback, was measured viable by that process
\* since it was started, whatever the other processes save and whatever fails.
THEOREM OnlyMeasuredIsSaved == Spec => []SavedWasMeasured
<1>1. IInv => SavedWasMeasured
  BY DEF IInv
<1>. QED  BY <1>1, Inductive, PTL

-----------------------------------------------------------------------------
(* Locking. *)

\* A save by a process of another model leaves the lock alone.
LEMMA SaveElsewhere ==
  ASSUME TypeOK, NEW m \in Models, Locked(m),
         NEW p \in Procs, ModelOf[p] # m, NEW kind, Save(p, kind)
  PROVE  Locked(m)'
<1>1. cur \in [Models -> Store!TunedRow \cup {Store!NoRow}]
  BY DEF TypeOK, Store!TypeOK
<1>2. cur'[m] = cur[m]
  BY <1>1 DEF Save, Store!save_tuned_config
<1>. QED  BY <1>2 DEF Locked, Store!Locked

\* One step of a process, seen from a model that is quietly locked.
LEMMA QuietStep ==
  ASSUME TypeOK, NEW m \in Models, QuietlyLocked(m), NEW p \in Procs,
         Enable(p) \/ Tune(p) \/ Step(p) \/ StoreRaises(p) \/ Crash(p)
  PROVE  /\ Locked(m)'
         /\ \A q \in Pilots : ModelOf[q] = m => pc'[q] \in Quiet
<1>. USE DEF Quiet, Stopped
<1>1. \A q \in Procs : ModelOf[q] = m => pc[q] \in Quiet
  BY DEF QuietlyLocked
<1>2. Locked(m) /\ cur[m].found /\ cur[m].locked
  BY DEF QuietlyLocked, Locked, Store!Locked
<1>3. ASSUME cur' = cur  PROVE Locked(m)'
  BY <1>2, <1>3 DEF Locked, Store!Locked
<1>4. ASSUME NEW l, pc' = [pc EXCEPT ![p] = l], ModelOf[p] # m \/ p \notin Pilots \/ l \in Quiet
      PROVE  \A q \in Pilots : ModelOf[q] = m => pc'[q] \in Quiet
  BY <1>1, <1>4 DEF TypeOK, Procs
<1>5. PICK l : pc' = [pc EXCEPT ![p] = l]
  BY DEF Enable, Tune, Start, Step, ReadConfig, LogLock, Probe, SaveRollback, LogRollback,
         TuneUnavailable, TuneOnce, Conclude, SaveAdjust, LogAdjust, LogLimited, Wake,
         EndPass, StoreRaises, Crash, Goto
<1>6. CASE ModelOf[p] # m
  <2>1. Locked(m)'
    <3>1. cur' = cur \/ \E kind : Save(p, kind)
      BY DEF Enable, Tune, Start, Step, ReadConfig, LogLock, Probe, SaveRollback, LogRollback,
             TuneUnavailable, TuneOnce, SaveAdjust, LogAdjust, LogLimited, Wake,
             StoreRaises, Crash, shared
    <3>. QED  BY <1>2, <1>3, <1>6, <3>1, SaveElsewhere
  <2>. QED  BY <1>4, <1>5, <1>6, <2>1
<1>7. CASE ModelOf[p] = m
  <2>1. pc[p] \in Quiet
    BY <1>1, <1>7
  <2>2. CASE Enable(p) \/ Tune(p)
    <3>1. cur' = cur /\ (pc' = [pc EXCEPT ![p] = "loop"] \/ p \in Tuners)
      BY <2>2 DEF Enable, Tune, Start, Goto, shared
    <3>2. p \in Tuners => p \notin Pilots
      BY ProcsAssumption
    <3>. QED  BY <1>3, <1>4, <1>5, <3>1, <3>2
  <2>3. CASE ReadConfig(p)
    <3>1. cur' = cur /\ pc' = [pc EXCEPT ![p] = "logLock"]
      BY <1>2, <1>7, <2>3 DEF ReadConfig, Store!get_tuned_config, Goto, shared
    <3>. QED  BY <1>3, <1>4, <3>1
  <2>4. CASE LogLock(p) \/ Wake(p) \/ Crash(p)
    <3>1. /\ cur' = cur
          /\ \E k \in {"done", "loop", "off"} : pc' = [pc EXCEPT ![p] = k]
      BY <2>4 DEF LogLock, Wake, Crash, Goto, shared
    <3>. QED  BY <1>3, <1>4, <3>1
  <2>5. CASE StoreRaises(p)
    <3>1. cur' = cur /\ pc' = [pc EXCEPT ![p] = "error"]
      BY <2>1, <2>5 DEF StoreRaises, Goto
    <3>. QED  BY <1>3, <1>4, <3>1
  <2>6. CASE \/ Probe(p) \/ SaveRollback(p) \/ LogRollback(p) \/ TuneUnavailable(p)
             \/ TuneOnce(p) \/ SaveAdjust(p) \/ LogAdjust(p) \/ LogLimited(p)
    BY <2>1, <2>6 DEF Probe, SaveRollback, LogRollback, TuneUnavailable,
                      TuneOnce, SaveAdjust, LogAdjust, LogLimited
  <2>. QED  BY <2>2, <2>3, <2>4, <2>5, <2>6 DEF Step
<1>. QED  BY <1>6, <1>7

\* cli.py, autopilot disable: a lock set while no pass over the model is under
\* way is not lost, and no autopilot begins another pass over that model; for
\* any number of autopilots of it, crashes and restarts included.
THEOREM QuietLocksStick == Spec => QuietLockSticks
<1>1. ASSUME TypeOK, [Next]_vars, NEW m \in Models, QuietlyLocked(m)
      PROVE  /\ Locked(m)'
             /\ \A p \in Pilots : ModelOf[p] = m => pc'[p] \in Quiet
  <2>1. ASSUME pc' = pc, cur' = cur \/ \E k \in Models : Disable(k)
        PROVE  /\ Locked(m)'
               /\ \A p \in Pilots : ModelOf[p] = m => pc'[p] \in Quiet
    <3>1. \A p \in Pilots : ModelOf[p] = m => pc'[p] \in Quiet
      BY <1>1, <2>1 DEF QuietlyLocked, Procs
    <3>2. cur \in [Models -> Store!TunedRow \cup {Store!NoRow}] /\ Locked(m)
      BY <1>1 DEF TypeOK, Store!TypeOK, QuietlyLocked
    <3>3. CASE cur' = cur
      BY <3>1, <3>2, <3>3 DEF Locked, Store!Locked
    <3>4. ASSUME NEW k \in Models, Disable(k)  PROVE Locked(m)'
      <4>1. cur' = [cur EXCEPT ![k] = [found |-> TRUE, config |-> cur[k].config, locked |-> TRUE]]
        BY <3>4 DEF Disable, Store!lock_config, Store!get_tuned_config
      <4>2. CASE k = m
        <5>1. cur'[m] = [found |-> TRUE, config |-> cur[m].config, locked |-> TRUE]
          BY <3>2, <4>1, <4>2
        <5>. QED  BY <5>1 DEF Locked, Store!Locked
      <4>3. CASE k # m
        <5>1. cur'[m] = cur[m]
          BY <3>2, <4>1, <4>3
        <5>. QED  BY <3>2, <5>1 DEF Locked, Store!Locked
      <4>. QED  BY <4>2, <4>3
    <3>. QED  BY <2>1, <3>1, <3>3, <3>4
  <2>2. CASE \E p \in Procs : Enable(p) \/ Tune(p) \/ Step(p) \/ StoreRaises(p) \/ Crash(p)
    BY <1>1, <2>2, QuietStep
  <2>3. CASE RuntimeStopsOrStarts \/ Tick \/ UNCHANGED vars
    <3>1. pc' = pc /\ cur' = cur
      BY <2>3 DEF RuntimeStopsOrStarts, Tick, vars, shared
    <3>. QED  BY <2>1, <3>1
  <2>4. CASE \E k \in Models : Disable(k)
    <3>1. pc' = pc
      BY <2>4 DEF Disable
    <3>. QED  BY <2>1, <2>4, <3>1
  <2>. QED  BY <1>1, <2>2, <2>3, <2>4 DEF Next
<1>2. TypeOK /\ [Next]_vars =>
        [\A m \in Models : QuietlyLocked(m) =>
           /\ Locked(m)'
           /\ \A p \in Pilots : ModelOf[p] = m => pc'[p] \in Quiet]_vars
  BY <1>1
<1>. QED  BY <1>2, TypeCorrect, PTL DEF Spec, QuietLockSticks

-----------------------------------------------------------------------------
(* Counting: the audit trail and the changes. *)

\* Counting a set that may gain or lose one element.
LEMMA OneMoved ==
  ASSUME NEW S, NEW T, NEW x, IsFiniteSet(S), S \ {x} = T \ {x}
  PROVE  /\ IsFiniteSet(T) /\ Cardinality(S) \in Nat /\ Cardinality(T) \in Nat
         /\ Cardinality(T) + (IF x \in S THEN 1 ELSE 0)
              = Cardinality(S) + (IF x \in T THEN 1 ELSE 0)
<1>. DEFINE U == S \ {x}
<1>1. IsFiniteSet(U) /\ Cardinality(U) \in Nat
  BY FS_RemoveElement, FS_CardinalityType
<1>2. IsFiniteSet(U \cup {x}) /\ Cardinality(U \cup {x}) = Cardinality(U) + 1
  BY <1>1, FS_AddElement
<1>3. /\ S = IF x \in S THEN U \cup {x} ELSE U
      /\ T = IF x \in T THEN U \cup {x} ELSE U
  OBVIOUS
<1>. HIDE DEF U
<1>4. Cardinality(S) = Cardinality(U) + (IF x \in S THEN 1 ELSE 0)
  <2>1. CASE x \in S
    <3>1. S = U \cup {x}
      BY <1>3, <2>1
    <3>. QED  BY <1>2, <2>1, <3>1
  <2>2. CASE x \notin S
    <3>1. S = U
      BY <1>3, <2>2
    <3>. QED  BY <1>1, <2>2, <3>1
  <2>. QED  BY <2>1, <2>2
<1>5. /\ IsFiniteSet(T)
      /\ Cardinality(T) = Cardinality(U) + (IF x \in T THEN 1 ELSE 0)
  <2>1. CASE x \in T
    <3>1. T = U \cup {x}
      BY <1>3, <2>1
    <3>. QED  BY <1>2, <2>1, <3>1
  <2>2. CASE x \notin T
    <3>1. T = U
      BY <1>3, <2>2
    <3>. QED  BY <1>1, <2>2, <3>1
  <2>. QED  BY <2>1, <2>2
<1>. QED  BY <1>1, <1>4, <1>5

\* Some entries of a table can be counted.
LEMMA SomeEntries ==
  ASSUME NEW n \in Nat, NEW S \in SUBSET (1..n)
  PROVE  IsFiniteSet(S) /\ Cardinality(S) \in Nat
<1>1. IsFiniteSet(1..n)
  BY FS_Interval
<1>. QED  BY <1>1, FS_Subset, FS_CardinalityType

\* Counting the entries of a table that is one longer.
LEMMA OneMore ==
  ASSUME NEW n \in Nat, NEW S \in SUBSET (1..n), NEW T, T \ {n + 1} = S
  PROVE  /\ IsFiniteSet(S) /\ Cardinality(S) \in Nat
         /\ Cardinality(T) = Cardinality(S) + (IF n + 1 \in T THEN 1 ELSE 0)
<1>1. IsFiniteSet(S) /\ Cardinality(S) \in Nat
  BY SomeEntries
<1>2. n + 1 \notin S /\ S \ {n + 1} = T \ {n + 1}
  OBVIOUS
<1>3. Cardinality(T) \in Nat /\ Cardinality(T) = Cardinality(S) + (IF n + 1 \in T THEN 1 ELSE 0)
  BY <1>1, <1>2, OneMoved
<1>. QED  BY <1>1, <1>3

\* A longer table has one entry more of what was appended, and no other.
LEMMA OfAppend ==
  ASSUME NEW S, NEW s \in Seq(S), NEW e, NEW kind, NEW m, NEW cfg
  PROVE  /\ Cardinality(Of(s, kind, m, cfg)) \in Nat
         /\ Cardinality(Of(Append(s, e), kind, m, cfg))
              = Cardinality(Of(s, kind, m, cfg))
                + (IF e.model = m /\ e.event_type = kind /\ e.config = cfg THEN 1 ELSE 0)
<1>. DEFINE n == Len(s)
            O == Of(s, kind, m, cfg)
            P == Of(Append(s, e), kind, m, cfg)
<1>1. /\ n \in Nat /\ Len(Append(s, e)) = n + 1 /\ Append(s, e)[n + 1] = e
      /\ \A i \in 1..n : Append(s, e)[i] = s[i]
  OBVIOUS
<1>2. O \in SUBSET (1..n) /\ P \ {n + 1} = O
  BY <1>1 DEF Of
<1>3. n + 1 \in P <=> e.model = m /\ e.event_type = kind /\ e.config = cfg
  BY <1>1 DEF Of
<1>4. Cardinality(O) \in Nat /\ Cardinality(P) = Cardinality(O) + (IF n + 1 \in P THEN 1 ELSE 0)
  <2>. HIDE DEF n, O, P
  <2>. QED  BY <1>1, <1>2, OneMore
<1>. QED  BY <1>3, <1>4

\* A process that has saved a config and not yet written the event owes it.
Debtor == {"logAdjust", "logRollback"}
DebtOf(kind) == IF kind = "adjust" THEN "logAdjust" ELSE "logRollback"

\* A trail and the events that are still owed never exceed the changes.
CoveredBy(trail, kind, m, cfg) ==
  /\ IsFiniteSet(Logging(kind, m, cfg))
  /\ Cardinality(Of(trail, kind, m, cfg)) + Cardinality(Logging(kind, m, cfg))
       <= Cardinality(Of(changes, kind, m, cfg))

Covered(trail) ==
  \A kind \in {"adjust", "rollback"}, m \in Models, cfg \in Baselines :
    CoveredBy(trail, kind, m, cfg)

\* What a process does with its debts: a save incurs one, writing the event or
\* giving up settles it, and the other steps neither have nor get one.
LEMMA Bookkeeping ==
  ASSUME TypeOK, NEW p \in Procs, Enable(p) \/ Tune(p) \/ Step(p) \/ StoreRaises(p) \/ Crash(p)
  PROVE  /\ \A q \in Procs \ {p} : pc'[q] = pc[q] /\ target'[q] = target[q]
         /\ \/ /\ UNCHANGED changes /\ pc'[p] \notin Debtor
               /\ \/ UNCHANGED events
                  \/ \E kind \in EventTypes :
                       /\ LogEvent(p, kind)
                       /\ kind \in {"adjust", "rollback"} => pc[p] = DebtOf(kind)
            \/ /\ UNCHANGED <<events, target>> /\ pc[p] \notin Debtor
               /\ \E kind \in {"adjust", "rollback"} :
                    Save(p, kind) /\ pc'[p] \in {"error", DebtOf(kind)}
<1>. USE DEF Debtor
<1>1. ASSUME UNCHANGED target \/ \E x : target' = [target EXCEPT ![p] = x]
      PROVE  \A q \in Procs \ {p} : target'[q] = target[q]
  BY <1>1 DEF TypeOK
<1>2. ASSUME NEW l, pc' = [pc EXCEPT ![p] = l]
      PROVE  pc'[p] = l /\ \A q \in Procs \ {p} : pc'[q] = pc[q]
  BY <1>2 DEF TypeOK
<1>3. ASSUME EndPass(p)
      PROVE  \E l \in {"sleep", "done"} : pc' = [pc EXCEPT ![p] = l]
  BY <1>3 DEF EndPass, Goto
<1>4. CASE Enable(p) \/ Tune(p) \/ ReadConfig(p) \/ Probe(p) \/ TuneUnavailable(p) \/ Wake(p)
           \/ Crash(p)
  <2>1. UNCHANGED <<changes, events>>
    BY <1>4 DEF Enable, Tune, Start, ReadConfig, Probe, TuneUnavailable, Wake, Crash, shared
  <2>2. UNCHANGED target \/ \E x : target' = [target EXCEPT ![p] = x]
    BY <1>4 DEF Enable, Tune, Start, ReadConfig, Probe, TuneUnavailable, Wake, Crash, local
  <2>3. \E l \in {"loop", "tune", "logLock", "probe", "saveRollback", "error", "off"} :
          pc' = [pc EXCEPT ![p] = l]
    BY <1>4 DEF Enable, Tune, Start, ReadConfig, Probe, TuneUnavailable, Wake, Crash, Goto
  <2>. QED  BY <1>1, <1>2, <2>1, <2>2, <2>3
<1>5. CASE TuneOnce(p)
  <2>1. PICK base \in StartingPoints(p) :
          \E meas \in [generate_candidates(base) \cup {base} -> BenchResults] :
            Conclude(p, base, meas)
    BY <1>5 DEF TuneOnce
  <2>2. PICK meas \in [generate_candidates(base) \cup {base} -> BenchResults] :
          Conclude(p, base, meas)
    BY <2>1
  <2>3. \/ /\ \E x : target' = [target EXCEPT ![p] = x]
           /\ \E l \in {"logLimited", "saveAdjust"} : pc' = [pc EXCEPT ![p] = l]
        \/ EndPass(p) /\ UNCHANGED target
    BY <2>2 DEF Conclude, Goto
  <2>4. UNCHANGED <<changes, events>>
    BY <1>5 DEF TuneOnce, shared
  <2>. QED  BY <1>1, <1>2, <1>3, <2>3, <2>4
<1>6. CASE LogLock(p) \/ LogRollback(p) \/ LogAdjust(p) \/ LogLimited(p)
  <2>1. /\ UNCHANGED <<changes, target>>
        /\ \E kind \in EventTypes :
             LogEvent(p, kind) /\ (kind \in {"adjust", "rollback"} => pc[p] = DebtOf(kind))
    BY <1>6 DEF LogLock, LogRollback, LogAdjust, LogLimited, EventTypes, DebtOf, local
  <2>2. \E l \in {"sleep", "done"} : pc' = [pc EXCEPT ![p] = l]
    BY <1>3, <1>6 DEF LogLock, LogRollback, LogAdjust, LogLimited, Goto
  <2>. QED  BY <1>1, <1>2, <2>1, <2>2
<1>7. CASE SaveRollback(p) \/ SaveAdjust(p)
  <2>1. /\ UNCHANGED <<events, target>> /\ pc[p] \notin Debtor
        /\ \E kind \in {"adjust", "rollback"} :
             Save(p, kind) /\ pc' = [pc EXCEPT ![p] = DebtOf(kind)]
    BY <1>7 DEF SaveRollback, SaveAdjust, DebtOf, Goto, local
  <2>. QED  BY <1>1, <1>2, <2>1
<1>8. CASE StoreRaises(p)
  <2>1. UNCHANGED <<events, target>> /\ pc[p] \notin Debtor /\ pc' = [pc EXCEPT ![p] = "error"]
    BY <1>8 DEF StoreRaises, Goto, local
  <2>2. UNCHANGED changes \/ \E kind \in {"adjust", "rollback"} : Save(p, kind)
    BY <1>8 DEF StoreRaises
  <2>. QED  BY <1>1, <1>2, <2>1, <2>2
<1>. QED  BY <1>4, <1>5, <1>6, <1>7, <1>8 DEF Step

\* The debts that a step of p incurs or settles are p's.
LEMMA LoggingMoves ==
  ASSUME NEW p \in Procs, NEW kind, NEW m, NEW cfg, IsFiniteSet(Logging(kind, m, cfg)),
         \A q \in Procs \ {p} : pc'[q] = pc[q] /\ target'[q] = target[q]
  PROVE  /\ IsFiniteSet(Logging(kind, m, cfg)')
         /\ Cardinality(Logging(kind, m, cfg)) \in Nat
         /\ Cardinality(Logging(kind, m, cfg)') \in Nat
         /\ Cardinality(Logging(kind, m, cfg)') + (IF p \in Logging(kind, m, cfg) THEN 1 ELSE 0)
              = Cardinality(Logging(kind, m, cfg))
                + (IF p \in Logging(kind, m, cfg)' THEN 1 ELSE 0)
<1>1. Logging(kind, m, cfg) \ {p} = Logging(kind, m, cfg)' \ {p}
  BY DEF Logging
<1>. QED  BY <1>1, OneMoved

\* Whether the event is written or not, a trail that was covered stays so.
LEMMA DebtSettled ==
  ASSUME TypeOK, NEW p \in Procs, NEW kind \in {"adjust", "rollback"}, NEW m, NEW cfg,
         NEW t \in Seq(Event), NEW u, CoveredBy(t, kind, m, cfg),
         \A q \in Procs \ {p} : pc'[q] = pc[q] /\ target'[q] = target[q],
         UNCHANGED changes, pc'[p] \notin Debtor,
         \/ u = t
         \/ \E k \in EventTypes :
              /\ u = Append(t, [model |-> ModelOf[p], event_type |-> k, config |-> target[p]])
              /\ k \in {"adjust", "rollback"} => pc[p] = DebtOf(k)
  PROVE  /\ IsFiniteSet(Logging(kind, m, cfg)')
         /\ Cardinality(Of(u, kind, m, cfg)) + Cardinality(Logging(kind, m, cfg)')
              <= Cardinality(Of(changes', kind, m, cfg))
<1>. DEFINE L == Logging(kind, m, cfg)
            c == Cardinality(Of(changes, kind, m, cfg))
            o == Cardinality(Of(t, kind, m, cfg))
<1>1. /\ IsFiniteSet(L') /\ Cardinality(L) \in Nat /\ Cardinality(L') \in Nat
      /\ Cardinality(L') + (IF p \in L THEN 1 ELSE 0)
           = Cardinality(L) + (IF p \in L' THEN 1 ELSE 0)
  BY LoggingMoves DEF CoveredBy
<1>2. p \notin L'
  BY DEF Logging, Debtor
<1>3. c \in Nat /\ o \in Nat /\ o + Cardinality(L) <= c /\ Of(changes', kind, m, cfg) = Of(changes, kind, m, cfg)
  BY OfAppend DEF CoveredBy, TypeOK
<1>4. CASE u = t
  <2>. HIDE DEF L, c, o
  <2>1. o + Cardinality(L') <= c
    BY <1>1, <1>2, <1>3
  <2>. QED  BY <1>1, <1>3, <1>4, <2>1 DEF L, c, o
<1>5. ASSUME NEW k \in EventTypes, k \in {"adjust", "rollback"} => pc[p] = DebtOf(k),
             u = Append(t, [model |-> ModelOf[p], event_type |-> k, config |-> target[p]])
      PROVE  Cardinality(Of(u, kind, m, cfg)) + Cardinality(L') <= c
  <2>1. Cardinality(Of(u, kind, m, cfg))
          = o + (IF ModelOf[p] = m /\ k = kind /\ target[p] = cfg THEN 1 ELSE 0)
    BY <1>5, OfAppend
  <2>2. ModelOf[p] = m /\ k = kind /\ target[p] = cfg => p \in L
    BY <1>5 DEF Logging, DebtOf
  <2>. HIDE DEF L, c, o
  <2>. QED  BY <1>1, <1>2, <1>3, <2>1, <2>2
<1>. QED  BY <1>1, <1>3, <1>4, <1>5

\* A save is a change, for which an event is owed at most.
LEMMA DebtIncurred ==
  ASSUME TypeOK, NEW p \in Procs, NEW kind \in {"adjust", "rollback"}, NEW m, NEW cfg,
         NEW t \in Seq(Event), CoveredBy(t, kind, m, cfg),
         \A q \in Procs \ {p} : pc'[q] = pc[q] /\ target'[q] = target[q],
         UNCHANGED target, pc[p] \notin Debtor,
         NEW k \in {"adjust", "rollback"}, Save(p, k), pc'[p] \in {"error", DebtOf(k)}
  PROVE  /\ IsFiniteSet(Logging(kind, m, cfg)')
         /\ Cardinality(Of(t, kind, m, cfg)) + Cardinality(Logging(kind, m, cfg)')
              <= Cardinality(Of(changes', kind, m, cfg))
<1>. DEFINE L == Logging(kind, m, cfg)
            c == Cardinality(Of(changes, kind, m, cfg))
            d == Cardinality(Of(changes', kind, m, cfg))
            o == Cardinality(Of(t, kind, m, cfg))
            mine == ModelOf[p] = m /\ k = kind /\ target[p] = cfg
<1>1. /\ IsFiniteSet(L') /\ Cardinality(L) \in Nat /\ Cardinality(L') \in Nat
      /\ Cardinality(L') + (IF p \in L THEN 1 ELSE 0)
           = Cardinality(L) + (IF p \in L' THEN 1 ELSE 0)
  BY LoggingMoves DEF CoveredBy
<1>2. p \notin L
  BY DEF Logging, Debtor
<1>3. c \in Nat /\ o \in Nat /\ o + Cardinality(L) <= c
  BY OfAppend DEF CoveredBy, TypeOK
<1>4. d = c + (IF mine THEN 1 ELSE 0)
  <2>. DEFINE e == [by |-> p, run |-> run[p], event_type |-> k,
                    model |-> ModelOf[p], config |-> target[p], at |-> now]
  <2>1. changes' = Append(changes, e) /\ changes \in Seq(Change)
    BY DEF Save, TypeOK
  <2>2. e.model = ModelOf[p] /\ e.event_type = k /\ e.config = target[p]
    OBVIOUS
  <2>. HIDE DEF e
  <2>. QED  BY <2>1, <2>2, OfAppend
<1>5. p \in L' => mine
  BY DEF Logging, DebtOf
<1>6. o + Cardinality(L') <= d
  <2>. HIDE DEF L, c, d, o, mine
  <2>. QED  BY <1>1, <1>2, <1>3, <1>4, <1>5
<1>. QED  BY <1>1, <1>6

\* No step of a process leaves a trail that says more than what was changed.
LEMMA ProcessCovered ==
  ASSUME TypeOK, Covered(events), NEW p \in Procs,
         Enable(p) \/ Tune(p) \/ Step(p) \/ StoreRaises(p) \/ Crash(p)
  PROVE  Covered(events)'
<1>. SUFFICES ASSUME NEW kind \in {"adjust", "rollback"}, NEW m \in Models, NEW cfg \in Baselines
              PROVE  CoveredBy(events, kind, m, cfg)'
  BY DEF Covered
<1>1. CoveredBy(events, kind, m, cfg) /\ events \in Seq(Event)
  BY DEF Covered, TypeOK
<1>2. \A q \in Procs \ {p} : pc'[q] = pc[q] /\ target'[q] = target[q]
  BY Bookkeeping
<1>3. CASE /\ UNCHANGED changes /\ pc'[p] \notin Debtor
           /\ \/ UNCHANGED events
              \/ \E k \in EventTypes :
                   LogEvent(p, k) /\ (k \in {"adjust", "rollback"} => pc[p] = DebtOf(k))
  <2>1. \/ events' = events
        \/ \E k \in EventTypes :
             /\ events' = Append(events, [model |-> ModelOf[p], event_type |-> k,
                                          config |-> target[p]])
             /\ k \in {"adjust", "rollback"} => pc[p] = DebtOf(k)
    BY <1>3 DEF LogEvent
  <2>2. /\ IsFiniteSet(Logging(kind, m, cfg)')
        /\ Cardinality(Of(events', kind, m, cfg)) + Cardinality(Logging(kind, m, cfg)')
             <= Cardinality(Of(changes', kind, m, cfg))
    BY <1>1, <1>2, <1>3, <2>1, DebtSettled
  <2>. QED  BY <2>2 DEF CoveredBy
<1>4. ASSUME UNCHANGED <<events, target>>, pc[p] \notin Debtor, NEW k \in {"adjust", "rollback"},
             Save(p, k), pc'[p] \in {"error", DebtOf(k)}
      PROVE  CoveredBy(events, kind, m, cfg)'
  <2>1. /\ IsFiniteSet(Logging(kind, m, cfg)')
        /\ Cardinality(Of(events, kind, m, cfg)) + Cardinality(Logging(kind, m, cfg)')
             <= Cardinality(Of(changes', kind, m, cfg))
    BY <1>1, <1>2, <1>4, DebtIncurred
  <2>. QED  BY <1>4, <2>1 DEF CoveredBy
<1>. QED  BY <1>3, <1>4, Bookkeeping

\* What is true of the trail that is in use, from its counting.
LEMMA CoveredIsHonest ==
  ASSUME TypeOK, Covered(events)
  PROVE  AuditNeverLies
<1>. SUFFICES ASSUME NEW m \in Models, NEW i \in 1..Len(events), NEW kind \in {"adjust", "rollback"}
              PROVE  Cardinality(Of(events, kind, m, events[i].config))
                       <= Cardinality(Of(changes, kind, m, events[i].config))
  BY DEF AuditNeverLies
<1>. DEFINE cfg == events[i].config
            L == Logging(kind, m, cfg)
            o == Cardinality(Of(events, kind, m, cfg))
            c == Cardinality(Of(changes, kind, m, cfg))
<1>1. cfg \in Baselines
  <2>1. events[i] \in Event
    BY DEF TypeOK
  <2>. QED  BY <2>1 DEF Event
<1>. HIDE DEF cfg
<1>2. o \in Nat /\ c \in Nat /\ Cardinality(L) \in Nat /\ o + Cardinality(L) <= c
  BY <1>1, OfAppend, FS_CardinalityType DEF TypeOK, Covered, CoveredBy
<1>3. o <= c
  <2>. HIDE DEF o, c, L
  <2>. QED  BY <1>2
<1>. QED  BY <1>3 DEF cfg

\* engine.py: however many processes write to the trail, and whatever fails or is
\* interrupted between a save and its event, the trail claims no adjust and no
\* rollback that did not happen.
THEOREM AuditIsHonest == Spec => []AuditNeverLies
<1>1. Init => Covered(events)
  <2>. SUFFICES ASSUME Init, NEW kind \in {"adjust", "rollback"}, NEW m \in Models,
                       NEW cfg \in Baselines
                PROVE  CoveredBy(events, kind, m, cfg)
    BY DEF Covered
  <2>1. Logging(kind, m, cfg) = {}
    BY DEF Init, Logging
  <2>2. Of(events, kind, m, cfg) = {} /\ Of(changes, kind, m, cfg) = {}
    BY DEF Init, Of
  <2>. QED  BY <2>1, <2>2, FS_EmptySet DEF CoveredBy
<1>2. TypeOK /\ Covered(events) /\ [Next]_vars => Covered(events)'
  <2>. SUFFICES ASSUME TypeOK, Covered(events), [Next]_vars  PROVE Covered(events)'
    OBVIOUS
  <2>1. CASE \E p \in Procs : Enable(p) \/ Tune(p) \/ Step(p) \/ StoreRaises(p) \/ Crash(p)
    BY <2>1, ProcessCovered
  <2>2. CASE (\E m \in Models : Disable(m)) \/ RuntimeStopsOrStarts \/ Tick \/ UNCHANGED vars
    <3>1. UNCHANGED <<events, changes, pc, target>>
      BY <2>2 DEF Disable, RuntimeStopsOrStarts, Tick, vars, shared, local
    <3>2. ASSUME NEW kind \in {"adjust", "rollback"}, NEW m \in Models, NEW cfg \in Baselines
          PROVE  CoveredBy(events, kind, m, cfg)'
      <4>1. Logging(kind, m, cfg)' = Logging(kind, m, cfg)
        BY <3>1 DEF Logging
      <4>. QED  BY <3>1, <4>1 DEF Covered, CoveredBy
    <3>. QED  BY <3>2 DEF Covered
  <2>. QED  BY <2>1, <2>2 DEF Next
<1>3. TypeOK /\ Covered(events) => AuditNeverLies
  BY CoveredIsHonest
<1>. QED  BY <1>1, <1>2, <1>3, TypeCorrect, PTL DEF Spec

-----------------------------------------------------------------------------
(* The config that an accepted one replaces. *)

\* From the loop's read to its save, the store holds the config that was read,
\* unless another process has saved one.
Comparing == {"probe", "tune", "saveAdjust"}
HoldsOrOvertaken == \A p \in Pilots : pc[p] \in Comparing => Holds(p) \/ Overtaken(p)

\* A save by another process overtakes a pass over the same model, and no save by
\* another process undoes that.
LEMMA SaveOvertakes ==
  ASSUME changes \in Seq(Change), NEW p \in Procs, NEW q \in Procs, p # q,
         NEW kind, Save(p, kind)
  PROVE  /\ ModelOf[p] = ModelOf[q] => Overtaken(q)'
         /\ Overtaken(q) => Overtaken(q)'
<1>. DEFINE c == [by |-> p, run |-> run[p], event_type |-> kind, model |-> ModelOf[p],
                  config |-> target[p], at |-> now]
            n == Len(changes)
            m == ModelOf[q]
<1>1. changes' = Append(changes, c) /\ c.by = p /\ c.model = ModelOf[p]
  BY DEF Save
<1>. HIDE DEF c
<1>2. /\ n \in Nat /\ Len(changes') = n + 1 /\ changes'[n + 1] = c
      /\ \A i \in 1..n : changes'[i] = changes[i]
  BY <1>1
<1>3. /\ 1..n + 1 = (1..n) \cup {n + 1}
      /\ \A i \in 1..n : i <= n + 1 /\ i # n + 1
      /\ n + 1 <= n + 1
  BY <1>2
<1>. HIDE DEF n, m
<1>4. CASE ModelOf[p] = m
  <2>1. n + 1 \in SavesOf(m)' /\ \A j \in SavesOf(m)' : j <= n + 1
    BY <1>1, <1>2, <1>3, <1>4 DEF SavesOf
  <2>2. Overtaken(q)'
    BY <1>1, <1>2, <2>1 DEF Overtaken, m
  <2>. QED  BY <2>2
<1>5. CASE ModelOf[p] # m
  <2>1. SavesOf(m)' = SavesOf(m) /\ SavesOf(m) \subseteq 1..n
    BY <1>1, <1>2, <1>3, <1>5 DEF SavesOf, n
  <2>2. Overtaken(q) => Overtaken(q)'
    BY <1>2, <2>1 DEF Overtaken, m
  <2>. QED  BY <1>5, <2>2 DEF m
<1>. QED  BY <1>4, <1>5

\* A step of a process either lets a pass compare with what is there, or overtakes
\* it, or leaves what the pass has read and what is there alone.
LEMMA ComparedStep ==
  ASSUME TypeOK, NEW p \in Procs,
         Enable(p) \/ Tune(p) \/ Step(p) \/ StoreRaises(p) \/ Crash(p),
         NEW q \in Pilots, pc'[q] \in Comparing
  PROVE  \/ Holds(q)' \/ Overtaken(q)'
         \/ /\ pc[q] \in Comparing
            /\ UNCHANGED <<cur[ModelOf[q]], seen[q]>>
            /\ Overtaken(q) => Overtaken(q)'
<1>. USE DEF Comparing
<1>1. /\ \A r \in Procs \ {p} : pc'[r] = pc[r] /\ target'[r] = target[r]
      /\ q \in Procs /\ cur \in [Models -> Store!TunedRow \cup {Store!NoRow}]
      /\ seen \in [Procs -> Baselines \cup {NoConfig}] /\ ModelOf \in [Procs -> Models]
      /\ changes \in Seq(Change)
  BY Bookkeeping, ProcsAssumption DEF TypeOK, Store!TypeOK, Procs
<1>2. CASE q # p
  <2>1. seen'[q] = seen[q]
    <3>1. seen' = seen \/ \E x : seen' = [seen EXCEPT ![p] = x]
      BY DEF Enable, Tune, Start, Step, ReadConfig, LogLock, Probe, SaveRollback, LogRollback,
             TuneUnavailable, TuneOnce, SaveAdjust, LogAdjust, LogLimited, Wake,
             StoreRaises, Crash, local
    <3>. QED  BY <1>1, <1>2, <3>1
  <2>2. UNCHANGED <<cur, changes>> \/ \E kind : Save(p, kind)
    BY DEF Enable, Tune, Start, Step, ReadConfig, LogLock, Probe, SaveRollback, LogRollback,
           TuneUnavailable, TuneOnce, SaveAdjust, LogAdjust, LogLimited, Wake,
           StoreRaises, Crash, shared
  <2>3. CASE UNCHANGED <<cur, changes>>
    BY <1>1, <1>2, <2>1, <2>3 DEF Overtaken, SavesOf
  <2>4. ASSUME NEW kind, Save(p, kind), ModelOf[p] # ModelOf[q]
        PROVE  UNCHANGED cur[ModelOf[q]]
    BY <1>1, <2>4 DEF Save, Store!save_tuned_config
  <2>5. ASSUME NEW kind, Save(p, kind)
        PROVE  /\ ModelOf[p] = ModelOf[q] => Overtaken(q)'
               /\ Overtaken(q) => Overtaken(q)'
    BY <1>1, <1>2, <2>5, SaveOvertakes
  <2>. QED  BY <1>1, <1>2, <2>1, <2>2, <2>3, <2>4, <2>5
<1>3. CASE q = p
  <2>. p \in Pilots /\ p \notin Tuners
    BY <1>3, ProcsAssumption
  <2>1. CASE ReadConfig(p)
    <3>1. pc'[p] # "logLock"
      BY <1>3
    <3>2. ~(cur[ModelOf[p]].found /\ cur[ModelOf[p]].locked)
      BY <2>1, <3>1 DEF ReadConfig, Store!get_tuned_config, Goto, TypeOK
    <3>3. /\ seen' = [seen EXCEPT ![p] = IF cur[ModelOf[p]].found
                                        THEN cur[ModelOf[p]].config ELSE NoConfig]
          /\ cur' = cur
      BY <2>1, <3>2 DEF ReadConfig, Store!get_tuned_config, shared
    <3>. QED  BY <1>1, <1>3, <3>3 DEF Holds, Store!get_tuned_config
  <2>2. CASE Probe(p) \/ TuneUnavailable(p) \/ TuneOnce(p)
    <3>1. pc[p] \in Comparing /\ UNCHANGED <<cur, seen, changes>>
      BY <2>2 DEF Probe, TuneUnavailable, TuneOnce, shared, local
    <3>. QED  BY <1>3, <3>1 DEF Overtaken, SavesOf
  <2>3. CASE \/ Enable(p) \/ Tune(p) \/ LogLock(p) \/ SaveRollback(p) \/ LogRollback(p)
             \/ SaveAdjust(p) \/ LogAdjust(p) \/ LogLimited(p) \/ Wake(p)
             \/ StoreRaises(p) \/ Crash(p)
    <3>1. EndPass(p) => pc'[p] \in {"sleep", "done"}
      BY EndPassTypes
    <3>2. ~Tune(p)
      BY DEF Tune
    <3>3. \/ EndPass(p)
          \/ \E l \in {"loop", "done", "error", "off", "logRollback", "logAdjust"} :
               pc' = [pc EXCEPT ![p] = l]
      BY <2>3, <3>2 DEF Enable, Start, LogLock, SaveRollback, LogRollback, SaveAdjust, LogAdjust,
                        LogLimited, Wake, StoreRaises, Crash, Goto
    <3>4. pc'[p] \notin Comparing
      BY <3>1, <3>3 DEF TypeOK
    <3>. QED  BY <1>3, <3>4
  <2>. QED  BY <2>1, <2>2, <2>3 DEF Step
<1>. QED  BY <1>2, <1>3

\* A lock leaves the config as it is.
SameConfig(row1, row2) == /\ row1.found = row2.found
                          /\ row2.found => row1.config = row2.config

LEMMA LockKeepsConfig ==
  ASSUME cur \in [Models -> Store!TunedRow \cup {Store!NoRow}],
         NEW m \in Models, NEW k \in Models, Store!lock_config(m)
  PROVE  SameConfig(cur'[k], cur[k])
<1>1. cur[m].found \in BOOLEAN
  <2>1. CASE cur[m] = Store!NoRow
    BY <2>1 DEF Store!NoRow
  <2>2. CASE cur[m] \in Store!TunedRow
    BY <2>2 DEF Store!TunedRow
  <2>. QED  BY <2>1, <2>2
<1>. QED  BY <1>1 DEF Store!lock_config, SameConfig

\* autotune/engine.py, "Autopilot only switches configs when the improvement clears
\* this bar": with any number of autopilots, tunes and locks on one model, and
\* whatever fails, what an accepted config replaces uncompared is another process's
\* save.
THEOREM ComparedOrOvertaken == Spec => []OnlyOthersAreOverwritten
<1>1. Init => HoldsOrOvertaken
  BY DEF Init, HoldsOrOvertaken, Comparing, Procs
<1>2. TypeOK /\ HoldsOrOvertaken /\ [Next]_vars => HoldsOrOvertaken'
  <2>. SUFFICES ASSUME TypeOK, HoldsOrOvertaken, [Next]_vars,
                       NEW q \in Pilots, pc'[q] \in Comparing
                PROVE  Holds(q)' \/ Overtaken(q)'
    BY DEF HoldsOrOvertaken
  <2>1. CASE \E p \in Procs : Enable(p) \/ Tune(p) \/ Step(p) \/ StoreRaises(p) \/ Crash(p)
    <3>1. \/ Holds(q)' \/ Overtaken(q)'
          \/ /\ pc[q] \in Comparing
             /\ UNCHANGED <<cur[ModelOf[q]], seen[q]>>
             /\ Overtaken(q) => Overtaken(q)'
      BY <2>1, ComparedStep
    <3>. QED  BY <3>1 DEF HoldsOrOvertaken, Holds, Store!get_tuned_config
  <2>2. CASE RuntimeStopsOrStarts \/ Tick \/ UNCHANGED vars
    <3>1. UNCHANGED <<cur, pc, seen, changes>>
      BY <2>2 DEF RuntimeStopsOrStarts, Tick, vars, shared, local
    <3>. QED
      BY <3>1 DEF HoldsOrOvertaken, Holds, Overtaken, SavesOf, Store!get_tuned_config
  <2>3. ASSUME NEW m \in Models, Disable(m)  PROVE Holds(q)' \/ Overtaken(q)'
    <3>1. UNCHANGED <<pc, seen, changes>> /\ Store!lock_config(m)
      BY <2>3 DEF Disable, local
    <3>2. SameConfig(cur'[ModelOf[q]], cur[ModelOf[q]])
      <4>1. /\ cur \in [Models -> Store!TunedRow \cup {Store!NoRow}]
            /\ ModelOf[q] \in Models
        BY ProcsAssumption DEF TypeOK, Store!TypeOK, Procs
      <4>. QED  BY <3>1, <4>1, LockKeepsConfig
    <3>. QED
      BY <3>1, <3>2 DEF SameConfig, HoldsOrOvertaken, Holds, Overtaken, SavesOf,
                        Store!get_tuned_config
  <2>. QED  BY <2>1, <2>2, <2>3 DEF Next
<1>3. HoldsOrOvertaken => OnlyOthersAreOverwritten
  BY DEF HoldsOrOvertaken, Comparing, OnlyOthersAreOverwritten
<1>. QED  BY <1>1, <1>2, <1>3, TypeCorrect, PTL DEF Spec

-----------------------------------------------------------------------------
(* The cap on adjustments. *)

\* The stamps not older than t, and the configs accepted by a run since t.
Stamped(s, t) == {i \in 1..Len(s) : s[i] >= t}
AcceptedSince(s, p, r, t) ==
  {i \in 1..Len(s) : /\ s[i].by = p /\ s[i].run = r /\ s[i].event_type = "adjust"
                     /\ s[i].at >= t}

LEMMA StampedAppend ==
  ASSUME NEW s \in Seq(Nat), NEW x \in Nat, NEW t
  PROVE  /\ Cardinality(Stamped(s, t)) \in Nat
         /\ Cardinality(Stamped(Append(s, x), t))
              = Cardinality(Stamped(s, t)) + (IF x >= t THEN 1 ELSE 0)
<1>. DEFINE n == Len(s)
            O == Stamped(s, t)
            P == Stamped(Append(s, x), t)
<1>1. /\ n \in Nat /\ Len(Append(s, x)) = n + 1 /\ Append(s, x)[n + 1] = x
      /\ \A i \in 1..n : Append(s, x)[i] = s[i]
  OBVIOUS
<1>2. O \in SUBSET (1..n) /\ P \ {n + 1} = O /\ (n + 1 \in P <=> x >= t)
  BY <1>1 DEF Stamped
<1>3. Cardinality(O) \in Nat /\ Cardinality(P) = Cardinality(O) + (IF n + 1 \in P THEN 1 ELSE 0)
  <2>. HIDE DEF n, O, P
  <2>. QED  BY <1>1, <1>2, OneMore
<1>. QED  BY <1>2, <1>3

LEMMA AcceptedAppend ==
  ASSUME NEW S, NEW s \in Seq(S), NEW e, NEW p, NEW r, NEW t
  PROVE  /\ Cardinality(AcceptedSince(s, p, r, t)) \in Nat
         /\ Cardinality(AcceptedSince(Append(s, e), p, r, t))
              = Cardinality(AcceptedSince(s, p, r, t))
                + (IF e.by = p /\ e.run = r /\ e.event_type = "adjust" /\ e.at >= t
                   THEN 1 ELSE 0)
<1>. DEFINE n == Len(s)
            O == AcceptedSince(s, p, r, t)
            P == AcceptedSince(Append(s, e), p, r, t)
<1>1. /\ n \in Nat /\ Len(Append(s, e)) = n + 1 /\ Append(s, e)[n + 1] = e
      /\ \A i \in 1..n : Append(s, e)[i] = s[i]
  OBVIOUS
<1>2. O \in SUBSET (1..n) /\ P \ {n + 1} = O
  BY <1>1 DEF AcceptedSince
<1>3. n + 1 \in P <=> e.by = p /\ e.run = r /\ e.event_type = "adjust" /\ e.at >= t
  BY <1>1 DEF AcceptedSince
<1>4. Cardinality(O) \in Nat /\ Cardinality(P) = Cardinality(O) + (IF n + 1 \in P THEN 1 ELSE 0)
  <2>. HIDE DEF n, O, P
  <2>. QED  BY <1>1, <1>2, OneMore
<1>. QED  BY <1>3, <1>4

\* The change that a save may yet have to be stamped for; a process that is
\* stopped will stamp nothing more, nor will it save.
Unstamped(p) == IF pc[p] \in Stopped \cup {"logAdjust"} THEN 1 ELSE 0

\* No change is dated in the future, ...
ChangesAreDated == \A i \in 1..Len(changes) : changes[i].at <= now

\* ... the changes that a run has accepted since t are stamped since t, ...
AcceptsAreStamped ==
  \A p \in Pilots, t \in Int :
    Cardinality(AcceptedSince(changes, p, run[p], t))
      <= Cardinality(Stamped(stamps[p], t)) + Unstamped(p)

\* ... and what the limit allowed before the save it still allows at the save.
SavesAreAllowed == \A p \in Pilots : pc[p] = "saveAdjust" => ~RateLimited(p)

CapInv == IInv /\ ChangesAreDated /\ AcceptsAreStamped /\ SavesAreAllowed /\ AcceptsWithinCap

\* How the steps of a process treat its clock, its stamps and its changes.
LEMMA Stamping ==
  ASSUME TypeOK, NEW p \in Procs, Enable(p) \/ Tune(p) \/ Step(p) \/ StoreRaises(p) \/ Crash(p)
  PROVE  /\ \A q \in Procs \ {p} : pc'[q] = pc[q] /\ stamps'[q] = stamps[q] /\ run'[q] = run[q]
         /\ now' \in Nat /\ now <= now'
         /\ \/ /\ UNCHANGED <<changes, now>> /\ run'[p] = run[p] + 1 /\ stamps'[p] = << >>
               /\ pc'[p] # "saveAdjust"
            \/ /\ run'[p] = run[p] /\ UNCHANGED now
               /\ pc[p] = "saveAdjust" /\ Save(p, "adjust") /\ stamps'[p] = stamps[p]
               /\ pc'[p] \in {"logAdjust", "error"}
            \/ /\ run'[p] = run[p] /\ UNCHANGED now
               /\ pc[p] = "saveRollback" /\ Save(p, "rollback")
               /\ stamps'[p] \in {stamps[p], Append(stamps[p], now)}
               /\ pc'[p] \in {"logRollback", "error"}
            \/ /\ run'[p] = run[p] /\ UNCHANGED <<changes, now>>
               /\ pc[p] = "logAdjust" /\ stamps'[p] = Append(stamps[p], now)
               /\ pc'[p] \in {"sleep", "done"}
            \/ /\ run'[p] = run[p] /\ UNCHANGED changes /\ stamps'[p] = stamps[p]
               /\ Unstamped(p) <= Unstamped(p)'
               /\ pc'[p] = "saveAdjust" => now' = now /\ (p \in Tuners \/ ~RateLimited(p))
<1>. USE DEF Stopped
<1>1. /\ pc \in [Procs -> Labels] /\ stamps \in [Procs -> Seq(Nat)] /\ run \in [Procs -> Nat]
      /\ now \in Nat /\ wake \in [Procs -> Nat]
      /\ \A q \in Procs \ {p} : pc'[q] = pc[q]
  BY Bookkeeping DEF TypeOK
<1>2. EndPass(p) => pc'[p] \in {"sleep", "done"}
  BY EndPassTypes
<1>3. ASSUME UNCHANGED run  PROVE run'[p] = run[p] /\ \A q \in Procs \ {p} : run'[q] = run[q]
  BY <1>3
<1>4. ASSUME UNCHANGED stamps
      PROVE  stamps'[p] = stamps[p] /\ \A q \in Procs \ {p} : stamps'[q] = stamps[q]
  BY <1>4
<1>5. ASSUME stamps' = [stamps EXCEPT ![p] = Append(@, now)]
      PROVE  /\ stamps'[p] = Append(stamps[p], now)
             /\ \A q \in Procs \ {p} : stamps'[q] = stamps[q]
  BY <1>1, <1>5
<1>6. CASE Enable(p) \/ Tune(p)
  <2>1. /\ run' = [run EXCEPT ![p] = @ + 1] /\ stamps' = [stamps EXCEPT ![p] = << >>]
        /\ UNCHANGED <<changes, now>> /\ \E l \in {"loop", "tune"} : pc' = [pc EXCEPT ![p] = l]
    BY <1>6 DEF Enable, Tune, Start, Goto, shared, world
  <2>. QED  BY <1>1, <2>1
<1>7. CASE SaveAdjust(p)
  <2>1. /\ UNCHANGED <<run, stamps, now>> /\ pc[p] = "saveAdjust" /\ Save(p, "adjust")
        /\ pc' = [pc EXCEPT ![p] = "logAdjust"]
    BY <1>7 DEF SaveAdjust, Goto, local, world
  <2>. QED  BY <1>1, <1>3, <1>4, <2>1
<1>8. CASE SaveRollback(p)
  <2>1. /\ UNCHANGED <<run, now>> /\ stamps' = [stamps EXCEPT ![p] = Append(@, now)]
        /\ pc[p] = "saveRollback" /\ Save(p, "rollback")
        /\ pc' = [pc EXCEPT ![p] = "logRollback"]
    BY <1>8 DEF SaveRollback, Goto, world
  <2>. QED  BY <1>1, <1>3, <1>5, <2>1
<1>9. CASE LogAdjust(p)
  <2>1. /\ UNCHANGED <<changes, run, now>> /\ stamps' = [stamps EXCEPT ![p] = Append(@, now)]
        /\ pc[p] = "logAdjust" /\ EndPass(p)
    BY <1>9 DEF LogAdjust, world
  <2>. QED  BY <1>1, <1>2, <1>3, <1>5, <2>1
<1>10. CASE StoreRaises(p)
  <2>1. /\ UNCHANGED <<run, stamps, now>> /\ pc' = [pc EXCEPT ![p] = "error"]
        /\ \/ UNCHANGED changes
           \/ pc[p] = "saveAdjust" /\ Save(p, "adjust")
           \/ pc[p] = "saveRollback" /\ Save(p, "rollback")
    BY <1>10 DEF StoreRaises, Goto, local, world
  <2>2. pc'[p] = "error"
    BY <1>1, <2>1
  <2>3. Unstamped(p) <= Unstamped(p)'
    BY <2>2 DEF Unstamped
  <2>. QED  BY <1>1, <1>3, <1>4, <2>1, <2>2, <2>3
<1>11. CASE Wake(p)
  <2>1. /\ UNCHANGED <<changes, run, stamps>> /\ pc[p] = "sleep" /\ pc' = [pc EXCEPT ![p] = "loop"]
        /\ now' = IF now < wake[p] THEN wake[p] ELSE now
    BY <1>11 DEF Wake, Goto, local, shared
  <2>2. now' \in Nat /\ now <= now' /\ pc'[p] = "loop"
    BY <1>1, <2>1
  <2>3. Unstamped(p) <= Unstamped(p)'
    BY <2>1, <2>2 DEF Unstamped
  <2>. QED  BY <1>1, <1>3, <1>4, <2>1, <2>2, <2>3
<1>12. CASE TuneOnce(p)
  <2>1. UNCHANGED <<changes, run, stamps, now>> /\ pc[p] = "tune"
    BY <1>12 DEF TuneOnce, shared, world
  <2>2. pc'[p] = "saveAdjust" => p \in Tuners \/ ~RateLimited(p)
    <3>1. PICK base \in StartingPoints(p) :
            \E meas \in [generate_candidates(base) \cup {base} -> BenchResults] :
              Conclude(p, base, meas)
      BY <1>12 DEF TuneOnce
    <3>2. PICK meas \in [generate_candidates(base) \cup {base} -> BenchResults] :
            Conclude(p, base, meas)
      BY <3>1
    <3>3. \/ EndPass(p)
          \/ pc' = [pc EXCEPT ![p] = IF p \in Pilots /\ RateLimited(p)
                                     THEN "logLimited" ELSE "saveAdjust"]
      BY <3>2 DEF Conclude, Goto
    <3>. QED  BY <1>1, <1>2, <3>3 DEF Procs
  <2>3. Unstamped(p) <= Unstamped(p)'
    BY <2>1 DEF Unstamped
  <2>. QED  BY <1>1, <1>3, <1>4, <2>1, <2>2, <2>3
<1>13. CASE \/ ReadConfig(p) \/ Probe(p) \/ TuneUnavailable(p) \/ Crash(p)
            \/ LogLock(p) \/ LogRollback(p) \/ LogLimited(p)
  <2>1. UNCHANGED <<changes, run, stamps, now>>
    BY <1>13 DEF ReadConfig, Probe, TuneUnavailable, Crash, LogLock, LogRollback, LogLimited,
                 shared, world, local
  <2>2. \/ EndPass(p)
        \/ \E l \in {"logLock", "probe", "tune", "saveRollback", "error", "off", "done"} :
             pc' = [pc EXCEPT ![p] = l]
    BY <1>13 DEF ReadConfig, Probe, TuneUnavailable, Crash, LogLock, LogRollback, LogLimited, Goto
  <2>3. pc'[p] # "saveAdjust"
    BY <1>1, <1>2, <2>2
  <2>4. Unstamped(p) <= Unstamped(p)'
    <3>1. CASE Crash(p)
      <4>1. pc'[p] = "off"
        BY <1>1, <3>1 DEF Crash, Goto
      <4>. QED  BY <4>1 DEF Unstamped
    <3>2. CASE ~Crash(p)
      <4>1. pc[p] \in {"loop", "probe", "tune", "logLock", "logRollback", "logLimited"}
        BY <1>13, <3>2 DEF ReadConfig, Probe, TuneUnavailable, LogLock, LogRollback, LogLimited
      <4>. QED  BY <4>1 DEF Unstamped
    <3>. QED  BY <3>1, <3>2
  <2>. QED  BY <1>1, <1>3, <1>4, <2>1, <2>3, <2>4
<1>. QED  BY <1>6, <1>7, <1>8, <1>9, <1>10, <1>11, <1>12, <1>13 DEF Step

\* A save of p dates a change in p's run and at the present time.
LEMMA SaveDated ==
  ASSUME TypeOK, NEW p \in Procs, NEW kind, Save(p, kind)
  PROVE  /\ Len(changes) \in Nat /\ Len(changes') = Len(changes) + 1
         /\ \A i \in 1..Len(changes) : changes'[i] = changes[i]
         /\ LET c == changes'[Len(changes) + 1]
            IN  c.by = p /\ c.run = run[p] /\ c.event_type = kind /\ c.at = now
         /\ \A q, r, t : Cardinality(AcceptedSince(changes', q, r, t))
              = Cardinality(AcceptedSince(changes, q, r, t))
                + (IF p = q /\ run[p] = r /\ kind = "adjust" /\ now >= t THEN 1 ELSE 0)
<1>. DEFINE c == [by |-> p, run |-> run[p], event_type |-> kind,
                  model |-> ModelOf[p], config |-> target[p], at |-> now]
<1>1. changes' = Append(changes, c) /\ changes \in Seq(Change)
  BY DEF Save, TypeOK
<1>2. c.by = p /\ c.run = run[p] /\ c.event_type = kind /\ c.at = now
  OBVIOUS
<1>. HIDE DEF c
<1>3. /\ Len(changes) \in Nat /\ Len(changes') = Len(changes) + 1
      /\ \A i \in 1..Len(changes) : changes'[i] = changes[i]
      /\ changes'[Len(changes) + 1] = c
  BY <1>1
<1>4. ASSUME NEW q, NEW r, NEW t
      PROVE  Cardinality(AcceptedSince(changes', q, r, t))
              = Cardinality(AcceptedSince(changes, q, r, t))
                + (IF p = q /\ run[p] = r /\ kind = "adjust" /\ now >= t THEN 1 ELSE 0)
  BY <1>1, <1>2, AcceptedAppend
<1>. QED  BY <1>2, <1>3, <1>4

\* What the limit allows it goes on allowing while time passes.
LEMMA LimitPasses ==
  ASSUME NEW q, stamps[q] \in Seq(Nat), now \in Nat, ~RateLimited(q),
         stamps'[q] = stamps[q], now' \in Nat, now <= now'
  PROVE  ~RateLimited(q)'
<1>. DEFINE S == Stamped(stamps[q], now - Window)
            T == Stamped(stamps[q], now' - Window)
<1>1. Window \in Nat /\ MaxAdjustmentsPerDay \in Nat \cup {NoCap}
  BY TimeAssumption
<1>2. T \in SUBSET S
  <2>1. \A i \in 1..Len(stamps[q]) : stamps[q][i] \in Nat
    OBVIOUS
  <2>. QED  BY <1>1, <2>1 DEF Stamped
<1>3. IsFiniteSet(S) /\ Cardinality(S) \in Nat /\ Cardinality(T) \in Nat
  <2>1. S \in SUBSET (1..Len(stamps[q])) /\ Len(stamps[q]) \in Nat
    BY DEF Stamped
  <2>2. T \in SUBSET (1..Len(stamps[q]))
    BY <1>2, <2>1
  <2>. HIDE DEF S, T
  <2>. QED  BY <2>1, <2>2, SomeEntries
<1>4. Cardinality(T) <= Cardinality(S)
  BY <1>2, <1>3, FS_Subset
<1>5. MaxAdjustmentsPerDay # NoCap => ~(Cardinality(S) >= MaxAdjustmentsPerDay)
  BY DEF RateLimited, Stamped
<1>6. MaxAdjustmentsPerDay # NoCap => ~(Cardinality(T) >= MaxAdjustmentsPerDay)
  <2>. HIDE DEF S, T
  <2>. QED  BY <1>1, <1>3, <1>4, <1>5
<1>. QED  BY <1>6 DEF RateLimited, Stamped

\* The parts of the invariant, one by one.
LEMMA DatedStep ==
  ASSUME CapInv, NEW p \in Procs, Enable(p) \/ Tune(p) \/ Step(p) \/ StoreRaises(p) \/ Crash(p)
  PROVE  ChangesAreDated'
<1>1. TypeOK /\ ChangesAreDated /\ now \in Nat
  BY DEF CapInv, IInv, TypeOK
<1>2. now' \in Nat /\ now <= now' /\ (UNCHANGED changes \/ \E kind : Save(p, kind))
  BY <1>1, Stamping
<1>3. ASSUME NEW i \in 1..Len(changes)  PROVE changes[i].at \in Nat /\ changes[i].at <= now
  <2>1. changes[i] \in Change
    BY <1>1 DEF TypeOK
  <2>. QED  BY <1>1, <2>1 DEF Change, ChangesAreDated
<1>4. CASE UNCHANGED changes
  BY <1>1, <1>2, <1>3, <1>4 DEF ChangesAreDated
<1>5. ASSUME NEW kind, Save(p, kind)  PROVE ChangesAreDated'
  <2>1. /\ Len(changes) \in Nat /\ Len(changes') = Len(changes) + 1
        /\ \A i \in 1..Len(changes) : changes'[i] = changes[i]
        /\ changes'[Len(changes) + 1].at = now
    BY <1>1, <1>5, SaveDated
  <2>. QED  BY <1>1, <1>2, <1>3, <2>1 DEF ChangesAreDated
<1>. QED  BY <1>2, <1>4, <1>5

LEMMA AllowedStep ==
  ASSUME CapInv, NEW p \in Procs, Enable(p) \/ Tune(p) \/ Step(p) \/ StoreRaises(p) \/ Crash(p)
  PROVE  SavesAreAllowed'
<1>1. TypeOK /\ SavesAreAllowed /\ stamps \in [Procs -> Seq(Nat)] /\ now \in Nat
  BY DEF CapInv, IInv, TypeOK
<1>. SUFFICES ASSUME NEW q \in Pilots, pc'[q] = "saveAdjust"  PROVE ~RateLimited(q)'
  BY DEF SavesAreAllowed
<1>2. q \in Procs /\ q \notin Tuners
  BY ProcsAssumption DEF Procs
<1>3. ~RateLimited(q) /\ stamps'[q] = stamps[q] /\ now' \in Nat /\ now <= now'
  BY <1>1, <1>2, Stamping DEF SavesAreAllowed, Stopped, Unstamped
<1>. QED  BY <1>1, <1>2, <1>3, LimitPasses

LEMMA StampedStep ==
  ASSUME CapInv, NEW p \in Procs, Enable(p) \/ Tune(p) \/ Step(p) \/ StoreRaises(p) \/ Crash(p)
  PROVE  AcceptsAreStamped'
<1>1. /\ TypeOK /\ AcceptsAreStamped /\ ChangesAreDated /\ ChangesArePast /\ now \in Nat
      /\ stamps \in [Procs -> Seq(Nat)] /\ run \in [Procs -> Nat] /\ changes \in Seq(Change)
  BY DEF CapInv, IInv, TypeOK
<1>. SUFFICES ASSUME NEW q \in Pilots, NEW t \in Int
              PROVE  Cardinality(AcceptedSince(changes', q, run'[q], t))
                       <= Cardinality(Stamped(stamps'[q], t)) + Unstamped(q)'
  BY DEF AcceptsAreStamped
<1>2. q \in Procs
  BY DEF Procs
<1>. DEFINE a == Cardinality(AcceptedSince(changes, q, run[q], t))
            b == Cardinality(Stamped(stamps[q], t))
            a1 == Cardinality(AcceptedSince(changes', q, run[q], t))
            b1 == Cardinality(Stamped(stamps'[q], t))
<1>3. a \in Nat /\ b \in Nat /\ a <= b + Unstamped(q)
  BY <1>1, <1>2, AcceptedAppend, StampedAppend DEF AcceptsAreStamped
<1>4. ASSUME stamps'[q] = Append(stamps[q], now)
      PROVE  b1 = b + (IF now >= t THEN 1 ELSE 0)
  BY <1>1, <1>2, <1>4, StampedAppend
<1>5. Unstamped(q) \in {0, 1} /\ Unstamped(q)' \in {0, 1}
  BY DEF Unstamped
<1>6. CASE q # p
  <2>1. run'[q] = run[q] /\ stamps'[q] = stamps[q] /\ Unstamped(q)' = Unstamped(q)
    <3>1. pc'[q] = pc[q] /\ run'[q] = run[q] /\ stamps'[q] = stamps[q]
      BY <1>1, <1>2, <1>6, Stamping
    <3>. QED  BY <3>1 DEF Unstamped
  <2>2. a1 = a
    <3>1. UNCHANGED changes \/ \E kind : Save(p, kind)
      BY <1>1, Stamping
    <3>2. ASSUME NEW kind, Save(p, kind)  PROVE a1 = a
      <4>1. a1 = a + (IF p = q /\ run[p] = run[q] /\ kind = "adjust" /\ now >= t THEN 1 ELSE 0)
        BY <1>1, <3>2, SaveDated
      <4>. QED  BY <1>3, <1>6, <4>1
    <3>. QED  BY <3>1, <3>2
  <2>. QED  BY <1>3, <2>1, <2>2
<1>7. CASE q = p
  <2>1. CASE UNCHANGED <<changes, now>> /\ run'[p] = run[p] + 1 /\ stamps'[p] = << >>
    <3>1. AcceptedSince(changes', q, run'[q], t) = {}
      <4>1. ASSUME NEW i \in 1..Len(changes), changes[i].by = p, changes[i].run = run[p] + 1
            PROVE  FALSE
        <5>1. changes[i].run <= run[p] /\ run[p] \in Nat
          BY <1>1, <4>1 DEF ChangesArePast
        <5>. QED  BY <4>1, <5>1
      <4>. QED  BY <1>7, <2>1, <4>1 DEF AcceptedSince
    <3>2. Stamped(stamps'[q], t) = {}
      BY <1>7, <2>1 DEF Stamped
    <3>. QED  BY <1>5, <3>1, <3>2, FS_EmptySet
  <2>2. CASE /\ run'[p] = run[p] /\ pc[p] = "saveAdjust" /\ Save(p, "adjust")
             /\ stamps'[p] = stamps[p] /\ pc'[p] \in {"logAdjust", "error"}
    <3>1. a1 = a + (IF now >= t THEN 1 ELSE 0)
      BY <1>1, <1>7, <2>2, SaveDated
    <3>2. Unstamped(q) = 0 /\ Unstamped(q)' = 1 /\ b1 = b
      BY <1>7, <2>2 DEF Unstamped, Stopped
    <3>3. a1 <= b1 + Unstamped(q)'
      <4>. HIDE DEF a, b, a1, b1
      <4>. QED  BY <1>3, <3>1, <3>2
    <3>. QED  BY <1>7, <2>2, <3>3
  <2>3. CASE /\ run'[p] = run[p] /\ pc[p] = "saveRollback" /\ Save(p, "rollback")
             /\ stamps'[p] \in {stamps[p], Append(stamps[p], now)}
    <3>1. a1 = a + (IF p = q /\ run[p] = run[q] /\ "rollback" = "adjust" /\ now >= t
                    THEN 1 ELSE 0)
      BY <1>1, <2>3, SaveDated
    <3>2. b1 \in {b, b + 1} /\ Unstamped(q) = 0
      BY <1>3, <1>4, <1>7, <2>3 DEF Unstamped, Stopped
    <3>3. a1 <= b1 + Unstamped(q)'
      <4>. HIDE DEF a, b, a1, b1
      <4>. QED  BY <1>3, <1>5, <3>1, <3>2
    <3>. QED  BY <1>7, <2>3, <3>3
  <2>4. CASE /\ run'[p] = run[p] /\ UNCHANGED changes /\ pc[p] = "logAdjust"
             /\ stamps'[p] = Append(stamps[p], now)
    <3>1. a1 = a /\ Unstamped(q) = 1 /\ b1 = b + (IF now >= t THEN 1 ELSE 0)
      BY <1>4, <1>7, <2>4 DEF Unstamped
    <3>2. CASE now >= t
      <4>1. a1 <= b1 + Unstamped(q)'
        <5>. HIDE DEF a, b, a1, b1
        <5>. QED  BY <1>3, <1>5, <3>1, <3>2
      <4>. QED  BY <1>7, <2>4, <4>1
    <3>3. CASE ~(now >= t)
      <4>1. AcceptedSince(changes', q, run'[q], t) = {}
        <5>1. ASSUME NEW i \in 1..Len(changes)  PROVE ~(changes[i].at >= t)
          <6>1. changes[i] \in Change
            BY <1>1
          <6>2. changes[i].at \in Nat /\ changes[i].at <= now
            BY <1>1, <6>1 DEF Change, ChangesAreDated
          <6>. QED  BY <1>1, <3>3, <6>2
        <5>. QED  BY <2>4, <5>1 DEF AcceptedSince
      <4>. QED  BY <1>3, <1>5, <3>1, <3>3, <4>1, FS_EmptySet
    <3>. QED  BY <3>2, <3>3
  <2>5. CASE /\ run'[p] = run[p] /\ UNCHANGED changes /\ stamps'[p] = stamps[p]
             /\ Unstamped(p) <= Unstamped(p)'
    <3>1. a1 = a /\ b1 = b /\ Unstamped(q) <= Unstamped(q)'
      BY <1>7, <2>5
    <3>2. a1 <= b1 + Unstamped(q)'
      <4>. HIDE DEF a, b, a1, b1
      <4>. QED  BY <1>3, <1>5, <3>1
    <3>. QED  BY <1>7, <2>5, <3>2
  <2>. QED  BY <1>1, <2>1, <2>2, <2>3, <2>4, <2>5, Stamping
<1>. QED  BY <1>6, <1>7

LEMMA WithinCapStep ==
  ASSUME CapInv, NEW p \in Procs, Enable(p) \/ Tune(p) \/ Step(p) \/ StoreRaises(p) \/ Crash(p)
  PROVE  AcceptsWithinCap'
<1>. DEFINE Near(s, q, r, i) ==
              {j \in {k \in 1..Len(s) : s[k].by = q /\ s[k].run = r /\ s[k].event_type = "adjust"} :
                 j <= i /\ s[j].at >= s[i].at - Window}
            n == Len(changes)
<1>1. /\ TypeOK /\ AcceptsWithinCap /\ AcceptsAreStamped /\ SavesAreAllowed /\ now \in Nat
      /\ Window \in Nat /\ MaxAdjustmentsPerDay \in Nat \cup {NoCap}
      /\ stamps \in [Procs -> Seq(Nat)] /\ changes \in Seq(Change) /\ n \in Nat
  <2>1. TypeOK /\ AcceptsWithinCap /\ AcceptsAreStamped /\ SavesAreAllowed
    BY DEF CapInv, IInv
  <2>2. Window \in Nat /\ MaxAdjustmentsPerDay \in Nat \cup {NoCap}
    BY TimeAssumption
  <2>3. now \in Nat /\ stamps \in [Procs -> Seq(Nat)] /\ changes \in Seq(Change)
    BY <2>1 DEF TypeOK
  <2>. QED  BY <2>1, <2>2, <2>3
<1>. SUFFICES ASSUME MaxAdjustmentsPerDay # NoCap, NEW q \in Pilots, NEW r \in 1..MaxRuns,
                     NEW i \in 1..Len(changes'), changes'[i].by = q, changes'[i].run = r,
                     changes'[i].event_type = "adjust"
              PROVE  Cardinality(Near(changes', q, r, i)) <= MaxAdjustmentsPerDay
  BY DEF AcceptsWithinCap, Accepts
<1>2. ASSUME i \in 1..n, changes[i] = changes'[i]
      PROVE  Cardinality(Near(changes, q, r, i)) <= MaxAdjustmentsPerDay
  BY <1>1, <1>2 DEF AcceptsWithinCap, Accepts
<1>3. CASE UNCHANGED changes
  BY <1>2, <1>3
<1>4. ASSUME NEW kind, Save(p, kind), kind = "adjust" => pc[p] = "saveAdjust"
      PROVE  Cardinality(Near(changes', q, r, i)) <= MaxAdjustmentsPerDay
  <2>1. /\ Len(changes') = n + 1 /\ \A j \in 1..n : changes'[j] = changes[j]
        /\ changes'[n + 1].by = p /\ changes'[n + 1].run = run[p]
        /\ changes'[n + 1].event_type = kind /\ changes'[n + 1].at = now
    BY <1>1, <1>4, SaveDated
  <2>2. CASE i \in 1..n
    <3>1. Near(changes', q, r, i) = Near(changes, q, r, i)
      BY <1>1, <2>1, <2>2
    <3>. QED  BY <1>2, <2>1, <2>2, <3>1
  <2>3. CASE i = n + 1
    <3>. DEFINE t == now - Window
                a == Cardinality(AcceptedSince(changes, p, run[p], t))
                b == Cardinality(Stamped(stamps[p], t))
    <3>1. q = p /\ r = run[p] /\ kind = "adjust" /\ p \in Pilots
      BY <2>1, <2>3
    <3>2. Near(changes', q, r, i) = AcceptedSince(changes', p, run[p], t)
      BY <1>1, <2>1, <2>3, <3>1 DEF AcceptedSince
    <3>3. Cardinality(AcceptedSince(changes', p, run[p], t))
            = a + (IF now >= t THEN 1 ELSE 0)
      BY <1>1, <1>4, <3>1, SaveDated
    <3>4. a \in Nat /\ b \in Nat
      BY <1>1, AcceptedAppend, StampedAppend
    <3>5. t \in Int
      BY <1>1
    <3>6. a <= b + Unstamped(p)
      BY <1>1, <3>1, <3>5 DEF AcceptsAreStamped
    <3>7. Unstamped(p) = 0
      BY <1>4, <3>1 DEF Unstamped, Stopped
    <3>8. ~(b >= MaxAdjustmentsPerDay)
      BY <1>1, <1>4, <3>1 DEF SavesAreAllowed, RateLimited, Stamped
    <3>9. a + (IF now >= t THEN 1 ELSE 0) <= MaxAdjustmentsPerDay
      <4>1. MaxAdjustmentsPerDay \in Nat
        BY <1>1
      <4>. HIDE DEF a, b, t
      <4>. QED  BY <3>4, <3>6, <3>7, <3>8, <4>1
    <3>. QED  BY <3>2, <3>3, <3>9
  <2>. QED  BY <1>1, <2>1, <2>2, <2>3
<1>5. UNCHANGED changes \/ \E kind : Save(p, kind) /\ (kind = "adjust" => pc[p] = "saveAdjust")
  BY <1>1, Stamping
<1>. QED  BY <1>3, <1>4, <1>5

\* engine.py, max_adjustments_per_day: one run of the loop accepts no more configs
\* within a Window than that, whatever time passes between the test of the limit,
\* the save and the stamp, and whichever of them a fault cuts off.
THEOREM CapIsKept == Spec => []AcceptsWithinCap
<1>1. Init => ChangesAreDated /\ AcceptsAreStamped /\ SavesAreAllowed /\ AcceptsWithinCap
  <2>. SUFFICES ASSUME Init
                PROVE  ChangesAreDated /\ AcceptsAreStamped /\ SavesAreAllowed /\ AcceptsWithinCap
    OBVIOUS
  <2>1. ChangesAreDated /\ SavesAreAllowed /\ AcceptsWithinCap
    BY DEF Init, ChangesAreDated, SavesAreAllowed, AcceptsWithinCap, Accepts, Procs
  <2>2. ASSUME NEW p \in Pilots, NEW t \in Int
        PROVE  Cardinality(AcceptedSince(changes, p, run[p], t))
                 <= Cardinality(Stamped(stamps[p], t)) + Unstamped(p)
    <3>1. AcceptedSince(changes, p, run[p], t) = {} /\ Stamped(stamps[p], t) = {}
      BY DEF Init, AcceptedSince, Stamped, Procs
    <3>2. Unstamped(p) = 1
      BY DEF Init, Unstamped, Stopped, Procs
    <3>. QED  BY <3>1, <3>2, FS_EmptySet
  <2>. QED  BY <2>1, <2>2 DEF AcceptsAreStamped
<1>2. CapInv /\ IInv' /\ [Next]_vars => CapInv'
  <2>. SUFFICES ASSUME CapInv, IInv', [Next]_vars  PROVE CapInv'
    OBVIOUS
  <2>1. CASE \E p \in Procs : Enable(p) \/ Tune(p) \/ Step(p) \/ StoreRaises(p) \/ Crash(p)
    BY <2>1, DatedStep, StampedStep, AllowedStep, WithinCapStep DEF CapInv
  <2>2. CASE (\E m \in Models : Disable(m)) \/ RuntimeStopsOrStarts \/ Tick \/ UNCHANGED vars
    <3>1. UNCHANGED <<changes, pc, run, stamps>> /\ now \in Nat /\ now' \in {now, now + 1}
      BY <2>2 DEF Disable, RuntimeStopsOrStarts, Tick, vars, shared, world, local,
                  CapInv, IInv, TypeOK
    <3>2. ChangesAreDated'
      <4>1. ASSUME NEW i \in 1..Len(changes)  PROVE changes[i].at \in Nat /\ changes[i].at <= now
        <5>1. changes[i] \in Change
          BY DEF CapInv, IInv, TypeOK
        <5>. QED  BY <5>1 DEF Change, CapInv, ChangesAreDated
      <4>. QED  BY <3>1, <4>1 DEF ChangesAreDated
    <3>3. AcceptsAreStamped' /\ AcceptsWithinCap'
      <4>1. \A p \in Pilots : Unstamped(p)' = Unstamped(p)
        BY <3>1 DEF Unstamped
      <4>2. AcceptsAreStamped'
        BY <3>1, <4>1 DEF CapInv, AcceptsAreStamped
      <4>3. changes' = changes
        BY <3>1
      <4>4. AcceptsWithinCap'
        BY <4>3 DEF CapInv, AcceptsWithinCap, Accepts
      <4>. QED  BY <4>2, <4>4
    <3>4. SavesAreAllowed'
      <4>1. \A p \in Pilots : stamps[p] \in Seq(Nat)
        BY DEF CapInv, IInv, TypeOK, Procs
      <4>. QED  BY <3>1, <4>1, LimitPasses DEF CapInv, SavesAreAllowed
    <3>. QED  BY <3>2, <3>3, <3>4 DEF CapInv
  <2>. QED  BY <2>1, <2>2 DEF Next
<1>3. CapInv => AcceptsWithinCap
  BY DEF CapInv
<1>4. Spec => []CapInv
  <2>1. IInv /\ ChangesAreDated /\ AcceptsAreStamped /\ SavesAreAllowed /\ AcceptsWithinCap
          => CapInv
    BY DEF CapInv
  <2>. QED  BY <1>1, <1>2, <2>1, InitIInv, Inductive, PTL DEF Spec
<1>. QED  BY <1>3, <1>4, PTL

-----------------------------------------------------------------------------
(* MySQL going and coming back (AutopilotOutage.tla). *)

\* The other place is of the same kind as the one in use.
OutageInv ==
  /\ IInv
  /\ aside \in [Models -> Store!TunedRow \cup {Store!NoRow}]
  /\ asideEvents \in Seq(Event)
  /\ outages \in Nat

\* A step of a process is one that it could have taken without outages.
LEMMA ProcStepActs ==
  ASSUME NEW p \in Procs, ProcStep(p)
  PROVE  /\ Enable(p) \/ Tune(p) \/ Step(p) \/ StoreRaises(p) \/ Crash(p)
         /\ Next /\ UNCHANGED <<mysqlUp, disabling, outages>>
BY DEF ProcStep, Saves, Logs, Computes, Step, Next

\* A lock is one that Disable could have set, or finds nothing to lock.
LEMMA DisableLocksActs ==
  ASSUME NEW m \in Models, DisableLocks(m)
  PROVE  [Next]_vars /\ UNCHANGED <<events, changes, pc, local, outages, asideEvents>>
<1>1. UNCHANGED <<events, changes, world, pc, local, outages, asideEvents>>
  BY DEF DisableLocks
<1>2. CASE cur[m].found
  BY <1>1, <1>2 DEF DisableLocks, Disable, Next, Store!get_tuned_config
<1>3. CASE ~cur[m].found
  <2>1. cur' = cur
    BY <1>3 DEF DisableLocks, Store!lock_config
  <2>. QED  BY <1>1, <2>1 DEF vars, shared
<1>. QED  BY <1>1, <1>2, <1>3

\* Without a failed insert, the event is the last one of the trail.
LEMMA LogsAppend ==
  ASSUME "log" \notin Faults, TypeOK, NEW p \in Procs, Logs(p)
  PROVE  \E k \in EventTypes :
           LET e == [model |-> ModelOf[p], event_type |-> k, config |-> target[p]]
           IN  /\ events' = Append(events, e) /\ events'[Len(events')] = e
               /\ k \in {"adjust", "rollback"} <=> pc[p] \in Debtor
               /\ k \in {"adjust", "rollback"} => pc[p] = DebtOf(k)
<1>1. PICK k \in EventTypes :
        LogEvent(p, k) /\ (k \in {"adjust", "rollback"} <=> pc[p] \in Debtor)
                       /\ (k \in {"adjust", "rollback"} => pc[p] = DebtOf(k))
  BY DEF Logs, LogLock, LogRollback, LogAdjust, LogLimited, EventTypes, Debtor, DebtOf
<1>. DEFINE e == [model |-> ModelOf[p], event_type |-> k, config |-> target[p]]
<1>2. events' = Append(events, e) /\ events \in Seq(Event)
  BY <1>1 DEF LogEvent, TypeOK
<1>3. events'[Len(events')] = e
  <2>. HIDE DEF e
  <2>. QED  BY <1>2
<1>. QED  BY <1>1, <1>2, <1>3

\* Whatever MySQL does, the invariant of the processes stays.
LEMMA OutageNextInv ==
  ASSUME "log" \notin Faults, OutageInv, [OutageNext]_outVars
  PROVE  OutageInv'
<1>1. /\ IInv /\ TypeOK /\ cur \in [Models -> Store!TunedRow \cup {Store!NoRow}]
      /\ outages \in Nat
  BY DEF OutageInv, IInv, TypeOK, Store!TypeOK
<1>2. ASSUME NEW p \in Procs, ProcStep(p)  PROVE OutageInv'
  <2>1. IInv'
    BY <1>1, <1>2, ProcStepActs, NextIInv
  <2>2. cur' \in [Models -> Store!TunedRow \cup {Store!NoRow}] /\ ModelOf[p] \in Models
    BY <2>1, ProcsAssumption DEF IInv, TypeOK, Store!TypeOK
  <2>3. aside' \in [Models -> Store!TunedRow \cup {Store!NoRow}]
    BY <1>2, <2>2 DEF ProcStep, SavedAsideToo, LoggedAsideToo, other, OutageInv
  <2>4. asideEvents' \in Seq(Event)
    <3>1. CASE Logs(p) /\ LoggedAsideToo
      <4>1. Len(events') \in 1..Len(events') /\ events' \in Seq(Event)
        <5>1. \E e : events' = Append(events, e)
          BY <1>1, <3>1, LogsAppend
        <5>2. events \in Seq(Event) /\ events' \in Seq(Event)
          BY <1>1, <2>1 DEF IInv, TypeOK
        <5>. QED  BY <5>1, <5>2
      <4>2. events'[Len(events')] \in Event
        BY <4>1
      <4>3. asideEvents \in Seq(Event)
        BY DEF OutageInv
      <4>4. \A e \in Event : Append(asideEvents, e) \in Seq(Event)
        BY <4>3
      <4>. QED  BY <3>1, <4>2, <4>3, <4>4 DEF LoggedAsideToo
    <3>2. CASE UNCHANGED asideEvents
      BY <3>2 DEF OutageInv
    <3>. QED  BY <1>2, <3>1, <3>2 DEF ProcStep, SavedAsideToo, other
  <2>5. outages' = outages
    BY <1>2 DEF ProcStep
  <2>. QED  BY <1>1, <2>1, <2>3, <2>4, <2>5 DEF OutageInv
<1>3. ASSUME NEW m \in Models, DisableLocks(m)  PROVE OutageInv'
  <2>1. IInv'
    BY <1>1, <1>3, DisableLocksActs, NextIInv
  <2>2. aside' \in [Models -> Store!TunedRow \cup {Store!NoRow}]
    <3>1. aside \in [Models -> Store!TunedRow \cup {Store!NoRow}]
      BY DEF OutageInv
    <3>2. LockRow(aside[m]) \in Store!TunedRow \cup {Store!NoRow}
      <4>1. CASE aside[m] = Store!NoRow
        BY <4>1 DEF LockRow, Store!NoRow
      <4>2. CASE aside[m] \in Store!TunedRow
        BY <4>2 DEF LockRow, Store!TunedRow
      <4>. QED  BY <3>1, <4>1, <4>2
    <3>. QED  BY <1>3, <3>1, <3>2 DEF DisableLocks
  <2>. QED  BY <1>3, <2>1, <2>2, DisableLocksActs DEF OutageInv
<1>4. CASE Outage
  <2>1. /\ cur' = aside /\ aside' = cur /\ events' = asideEvents /\ asideEvents' = events
        /\ UNCHANGED <<changes, world, pc, local>> /\ outages' = outages + 1
    BY <1>4 DEF Outage
  <2>2. TypeOK'
    BY <2>1 DEF OutageInv, IInv, TypeOK, Store!TypeOK, world, local
  <2>3. TargetIsConfig' /\ TargetIsMeasured' /\ HistoryIsMeasured' /\ ChangesArePast'
        /\ SavedWasMeasured'
    BY <2>1 DEF OutageInv, IInv, TargetIsConfig, TargetIsMeasured, HistoryIsMeasured,
                ChangesArePast, SavedWasMeasured, local
  <2>4. outages' \in Nat
    BY <1>1, <2>1
  <2>. QED  BY <1>1, <2>1, <2>2, <2>3, <2>4 DEF OutageInv, IInv, TypeOK
<1>5. CASE (\E m \in Models : DisableReads(m)) \/ UNCHANGED outVars
  <2>1. UNCHANGED <<vars, aside, asideEvents, outages>>
    BY <1>5 DEF DisableReads, outVars, other
  <2>2. IInv'
    BY <1>1, <2>1, NextIInv
  <2>. QED  BY <2>1, <2>2 DEF OutageInv
<1>. QED  BY <1>2, <1>3, <1>4, <1>5 DEF OutageNext

LEMMA OutageInitInv == OutageInit => OutageInv
<1>1. OutageInit => IInv
  BY InitIInv DEF OutageInit
<1>2. << >> \in Seq(Event)
  OBVIOUS
<1>. QED  BY <1>1, <1>2 DEF OutageInit, OutageInv

\* With MySQL going and coming back at any moment: still no process puts a config
\* in place that it has not measured.
THEOREM OutageMeasured == "log" \notin Faults => (OutageSpec => [](OutageInv /\ SavedWasMeasured))
<1>. SUFFICES ASSUME "log" \notin Faults
              PROVE  OutageSpec => [](OutageInv /\ SavedWasMeasured)
  OBVIOUS
<1>1. OutageInv => OutageInv /\ SavedWasMeasured
  BY DEF OutageInv, IInv
<1>2. OutageInv /\ [OutageNext]_outVars => OutageInv'
  BY OutageNextInv
<1>. QED  BY <1>1, <1>2, OutageInitInv, PTL DEF OutageSpec

\* engine.py and storage/resilient.py: with any number of processes on one model,
\* and MySQL gone or come back any number of times since the loop read its config,
\* the config that an accepted one was compared with is still in one of the two
\* places, or another process has saved one.
THEOREM ComparedInOnePlace == "log" \notin Faults => (OutageSpec => []ComparedSomewhere)
<1>. SUFFICES ASSUME "log" \notin Faults  PROVE OutageSpec => []ComparedSomewhere
  OBVIOUS
<1>. DEFINE Kept(q) == Holds(q) \/ HoldsAside(q) \/ Overtaken(q)
            Inv == \A q \in Pilots : pc[q] \in Comparing => Kept(q)
<1>1. OutageInit => Inv
  BY DEF OutageInit, Init, Comparing, Procs
<1>2. OutageInv /\ Inv /\ [OutageNext]_outVars => Inv'
  <2>. SUFFICES ASSUME OutageInv, Inv, [OutageNext]_outVars,
                       NEW q \in Pilots, pc'[q] \in Comparing
                PROVE  Kept(q)'
    OBVIOUS
  <2>1. /\ q \in Procs /\ TypeOK /\ ModelOf \in [Procs -> Models]
        /\ cur \in [Models -> Store!TunedRow \cup {Store!NoRow}]
        /\ aside \in [Models -> Store!TunedRow \cup {Store!NoRow}]
        /\ changes \in Seq(Change)
    BY ProcsAssumption DEF Procs, OutageInv, IInv, TypeOK, Store!TypeOK
  <2>2. ASSUME NEW p \in Procs, ProcStep(p)  PROVE Kept(q)'
    <3>1. Enable(p) \/ Tune(p) \/ Step(p) \/ StoreRaises(p) \/ Crash(p)
      BY <2>2, ProcStepActs
    <3>2. \/ Holds(q)' \/ Overtaken(q)'
          \/ /\ pc[q] \in Comparing
             /\ UNCHANGED <<cur[ModelOf[q]], seen[q]>>
             /\ Overtaken(q) => Overtaken(q)'
      BY <2>1, <3>1, ComparedStep
    <3>3. Overtaken(q)' \/ UNCHANGED aside[ModelOf[q]]
      <4>1. CASE Saves(p) /\ SavedAsideToo(ModelOf[p])
        <5>1. \E kind : Save(p, kind)
          BY <4>1 DEF Saves, SaveRollback, SaveAdjust
        <5>2. CASE p = q
          <6>1. pc'[p] \in {"logRollback", "logAdjust"}
            BY <2>1, <4>1 DEF Saves, SaveRollback, SaveAdjust, Goto, TypeOK
          <6>. QED  BY <5>2, <6>1 DEF Comparing
        <5>3. CASE p # q /\ ModelOf[p] = ModelOf[q]
          BY <2>1, <5>1, <5>3, SaveOvertakes
        <5>4. CASE ModelOf[p] # ModelOf[q]
          BY <2>1, <4>1, <5>4 DEF SavedAsideToo
        <5>. QED  BY <5>2, <5>3, <5>4
      <4>2. CASE UNCHANGED aside
        BY <4>2
      <4>. QED  BY <2>2, <4>1, <4>2 DEF ProcStep, LoggedAsideToo, other
    <3>. QED  BY <3>2, <3>3 DEF Holds, HoldsAside, Store!get_tuned_config
  <2>3. ASSUME NEW m \in Models, DisableLocks(m)  PROVE Kept(q)'
    <3>1. UNCHANGED <<pc, seen, changes>> /\ Store!lock_config(m)
      BY <2>3 DEF DisableLocks, local
    <3>2. SameConfig(cur'[ModelOf[q]], cur[ModelOf[q]])
      BY <2>1, <3>1, LockKeepsConfig
    <3>3. SameConfig(aside'[ModelOf[q]], aside[ModelOf[q]])
      <4>1. \A row \in Store!TunedRow \cup {Store!NoRow} : SameConfig(LockRow(row), row)
        BY DEF SameConfig, LockRow, Store!TunedRow, Store!NoRow
      <4>2. \A k \in Models : aside'[k] \in {aside[k], LockRow(aside[k])}
        BY <2>1, <2>3 DEF DisableLocks
      <4>3. SameConfig(aside[ModelOf[q]], aside[ModelOf[q]])
        BY DEF SameConfig
      <4>. QED  BY <2>1, <4>1, <4>2, <4>3
    <3>. QED
      BY <3>1, <3>2, <3>3 DEF SameConfig, Holds, HoldsAside, Overtaken, SavesOf,
                              Store!get_tuned_config
  <2>4. CASE Outage
    <3>1. cur' = aside /\ aside' = cur /\ UNCHANGED <<pc, seen, changes>>
      BY <2>4 DEF Outage, local
    <3>. QED  BY <3>1 DEF Holds, HoldsAside, Overtaken, SavesOf, Store!get_tuned_config
  <2>5. CASE (\E m \in Models : DisableReads(m)) \/ UNCHANGED outVars
    <3>1. UNCHANGED <<cur, aside, pc, seen, changes>>
      BY <2>5 DEF DisableReads, outVars, other, vars, shared, local
    <3>. QED  BY <3>1 DEF Holds, HoldsAside, Overtaken, SavesOf, Store!get_tuned_config
  <2>. QED  BY <2>2, <2>3, <2>4, <2>5 DEF OutageNext
<1>3. Inv => ComparedSomewhere
  BY DEF Comparing, ComparedSomewhere
<1>4. OutageInv /\ [OutageNext]_outVars => OutageInv'
  BY OutageNextInv
<1>. QED  BY <1>1, <1>2, <1>3, <1>4, OutageInitInv, PTL DEF OutageSpec

\* No step makes what is owed and what the two trails hold less than what was changed.
CompleteBy(kind, m, cfg) ==
  /\ IsFiniteSet(Logging(kind, m, cfg))
  /\ Cardinality(Of(changes, kind, m, cfg))
       <= Cardinality(Of(events, kind, m, cfg)) + Cardinality(Of(asideEvents, kind, m, cfg))
            + Cardinality(Logging(kind, m, cfg))

LEMMA CompleteStep ==
  ASSUME {"crash", "log"} \cap Faults = {}, OutageInv, NEW p \in Procs, ProcStep(p),
         NEW kind \in {"adjust", "rollback"}, NEW m, NEW cfg, CompleteBy(kind, m, cfg)
  PROVE  CompleteBy(kind, m, cfg)'
<1>. DEFINE L == Logging(kind, m, cfg)
            c == Cardinality(Of(changes, kind, m, cfg))
            c1 == Cardinality(Of(changes', kind, m, cfg))
            e == Cardinality(Of(events, kind, m, cfg))
            e1 == Cardinality(Of(events', kind, m, cfg))
            a == Cardinality(Of(asideEvents, kind, m, cfg))
            a1 == Cardinality(Of(asideEvents', kind, m, cfg))
            mine == ModelOf[p] = m /\ target[p] = cfg
<1>1. TypeOK /\ events \in Seq(Event) /\ asideEvents \in Seq(Event) /\ changes \in Seq(Change)
  BY DEF OutageInv, IInv, TypeOK
<1>2. \A q \in Procs \ {p} : pc'[q] = pc[q] /\ target'[q] = target[q]
  BY <1>1, ProcStepActs, Bookkeeping
<1>3. /\ IsFiniteSet(L') /\ Cardinality(L) \in Nat /\ Cardinality(L') \in Nat
      /\ Cardinality(L') + (IF p \in L THEN 1 ELSE 0)
           = Cardinality(L) + (IF p \in L' THEN 1 ELSE 0)
  BY <1>2, LoggingMoves DEF CompleteBy
<1>4. c \in Nat /\ e \in Nat /\ a \in Nat /\ c <= e + a + Cardinality(L)
  BY <1>1, OfAppend DEF CompleteBy
<1>5. CASE Saves(p) /\ SavedAsideToo(ModelOf[p])
  <2>1. PICK k \in {"adjust", "rollback"} :
          Save(p, k) /\ pc' = [pc EXCEPT ![p] = DebtOf(k)] /\ pc[p] \notin Debtor
          /\ UNCHANGED <<target, events, asideEvents>>
    BY <1>5 DEF Saves, SaveAdjust, SaveRollback, SavedAsideToo, DebtOf, Debtor, Goto, local
  <2>2. c1 = c + (IF mine /\ k = kind THEN 1 ELSE 0)
    <3>. DEFINE d == [by |-> p, run |-> run[p], event_type |-> k,
                      model |-> ModelOf[p], config |-> target[p], at |-> now]
    <3>1. changes' = Append(changes, d)
      BY <2>1 DEF Save
    <3>2. d.model = ModelOf[p] /\ d.event_type = k /\ d.config = target[p]
      OBVIOUS
    <3>. HIDE DEF d
    <3>. QED  BY <1>1, <3>1, <3>2, OfAppend
  <2>3. pc'[p] = DebtOf(k)
    BY <1>1, <2>1 DEF TypeOK
  <2>4. p \notin L /\ (p \in L' <=> mine /\ k = kind)
    BY <2>1, <2>3 DEF Logging, Debtor, DebtOf
  <2>5. e1 = e /\ a1 = a
    BY <2>1
  <2>6. c1 <= e1 + a1 + Cardinality(L')
    <3>. HIDE DEF L, c, c1, e, e1, a, a1, mine
    <3>. QED  BY <1>3, <1>4, <2>2, <2>4, <2>5
  <2>. QED  BY <1>3, <2>6 DEF CompleteBy
<1>6. CASE Logs(p) /\ LoggedAsideToo
  <2>. DEFINE d(k) == [model |-> ModelOf[p], event_type |-> k, config |-> target[p]]
  <2>1. PICK k \in EventTypes :
          /\ events' = Append(events, d(k)) /\ events'[Len(events')] = d(k)
          /\ k \in {"adjust", "rollback"} <=> pc[p] \in Debtor
          /\ k \in {"adjust", "rollback"} => pc[p] = DebtOf(k)
    BY <1>1, <1>6, LogsAppend
  <2>2. e1 = e + (IF mine /\ k = kind THEN 1 ELSE 0)
    BY <1>1, <2>1, OfAppend
  <2>3. a1 \in {a, a + 1}
    <3>1. ASSUME NEW x, asideEvents' = Append(asideEvents, x)  PROVE a1 \in {a, a + 1}
      BY <1>1, <1>4, <3>1, OfAppend
    <3>2. CASE UNCHANGED asideEvents
      BY <3>2
    <3>. QED  BY <1>6, <3>1, <3>2 DEF LoggedAsideToo
  <2>4. p \in L => mine /\ k = kind
    BY <2>1 DEF Logging, Debtor, DebtOf
  <2>5. UNCHANGED changes
    BY <1>6 DEF Logs, LogLock, LogRollback, LogAdjust, LogLimited
  <2>6. c1 <= e1 + a1 + Cardinality(L')
    <3>1. c1 = c
      BY <2>5
    <3>. HIDE DEF L, c, c1, e, e1, a, a1, mine
    <3>. QED  BY <1>3, <1>4, <2>2, <2>3, <2>4, <3>1
  <2>. QED  BY <1>3, <2>6 DEF CompleteBy
<1>7. CASE Computes(p) /\ UNCHANGED other
  <2>1. UNCHANGED <<changes, events, asideEvents>> /\ pc[p] \notin Debtor
    BY <1>7 DEF ReadConfig, Computes, Enable, Tune, Start, Probe, TuneUnavailable, TuneOnce, Wake,
                Crash, shared, other, Debtor, Stopped
  <2>2. p \notin L
    BY <2>1 DEF Logging, Debtor
  <2>3. c1 <= e1 + a1 + Cardinality(L')
    <3>1. c1 = c /\ e1 = e /\ a1 = a
      BY <2>1
    <3>. HIDE DEF L, c, c1, e, e1, a, a1, mine
    <3>. QED  BY <1>3, <1>4, <2>2, <3>1
  <2>. QED  BY <1>3, <2>3 DEF CompleteBy
<1>. QED  BY <1>5, <1>6, <1>7 DEF ProcStep

\* domain.py, "Every adjust, rollback, lock, enable, or disable gets one": as long as
\* no process is killed and no insert fails, no change is missing from both trails,
\* wherever MySQL was when the config and when its event were written.
THEOREM AuditIsComplete ==
  {"crash", "log"} \cap Faults = {} => (OutageSpec => []AuditCompleteTogether)
<1>. SUFFICES ASSUME {"crash", "log"} \cap Faults = {}
              PROVE  OutageSpec => []AuditCompleteTogether
  OBVIOUS
<1>. DEFINE Inv == \A kind \in {"adjust", "rollback"}, m \in Models, cfg \in Baselines :
                     CompleteBy(kind, m, cfg)
<1>1. OutageInit => Inv
  <2>. SUFFICES ASSUME OutageInit, NEW kind \in {"adjust", "rollback"}, NEW m \in Models,
                       NEW cfg \in Baselines
                PROVE  CompleteBy(kind, m, cfg)
    OBVIOUS
  <2>1. Logging(kind, m, cfg) = {}
    BY DEF OutageInit, Init, Logging
  <2>2. /\ Of(events, kind, m, cfg) = {} /\ Of(changes, kind, m, cfg) = {}
        /\ Of(asideEvents, kind, m, cfg) = {}
    BY DEF OutageInit, Init, Of
  <2>. QED  BY <2>1, <2>2, FS_EmptySet DEF CompleteBy
<1>2. OutageInv /\ Inv /\ [OutageNext]_outVars => Inv'
  <2>. SUFFICES ASSUME OutageInv, [OutageNext]_outVars,
                       NEW kind \in {"adjust", "rollback"}, NEW m \in Models,
                       NEW cfg \in Baselines, CompleteBy(kind, m, cfg)
                PROVE  CompleteBy(kind, m, cfg)'
    OBVIOUS
  <2>1. CASE \E p \in Procs : ProcStep(p)
    BY <2>1, CompleteStep
  <2>2. CASE (\E k \in Models : DisableReads(k) \/ DisableLocks(k)) \/ UNCHANGED outVars
    <3>1. UNCHANGED <<changes, events, asideEvents, pc, target>>
      BY <2>2, DisableLocksActs DEF DisableReads, outVars, vars, shared, local, other
    <3>2. Logging(kind, m, cfg)' = Logging(kind, m, cfg)
      BY <3>1 DEF Logging
    <3>. QED  BY <3>1, <3>2 DEF CompleteBy
  <2>3. CASE Outage
    <3>1. UNCHANGED <<changes, pc, target>> /\ events' = asideEvents /\ asideEvents' = events
      BY <2>3 DEF Outage, local
    <3>2. Logging(kind, m, cfg)' = Logging(kind, m, cfg)
      BY <3>1 DEF Logging
    <3>3. /\ Cardinality(Of(events, kind, m, cfg)) \in Nat
          /\ Cardinality(Of(asideEvents, kind, m, cfg)) \in Nat
      BY OfAppend DEF OutageInv, IInv, TypeOK
    <3>. QED  BY <3>1, <3>2, <3>3 DEF CompleteBy
  <2>. QED  BY <2>1, <2>2, <2>3 DEF OutageNext
<1>3. OutageInv /\ Inv => AuditCompleteTogether
  <2>. SUFFICES ASSUME OutageInv, Inv, NEW m \in Models, NEW i \in 1..Len(changes),
                       NEW kind \in {"adjust", "rollback"}
                PROVE  CompleteBy(kind, m, changes[i].config)
    BY DEF AuditCompleteTogether, CompleteBy
  <2>1. changes[i] \in Change
    BY DEF OutageInv, IInv, TypeOK
  <2>. QED  BY <2>1 DEF Change
<1>4. OutageInv /\ [OutageNext]_outVars => OutageInv'
  BY OutageNextInv
<1>. QED  BY <1>1, <1>2, <1>3, <1>4, OutageInitInv, PTL DEF OutageSpec

\* A lock in both places stays in both places, and no autopilot begins another
\* pass over the model, whether MySQL is there or not: for any number of
\* autopilots, models and outages.
THEOREM BothLocksStick == "log" \notin Faults => (OutageSpec => LockedInBothSticks)
<1>. SUFFICES ASSUME "log" \notin Faults  PROVE OutageSpec => LockedInBothSticks
  OBVIOUS
<1>1. ASSUME OutageInv, [OutageNext]_outVars, NEW m \in Models, QuietlyLocked(m), LockedAside(m)
      PROVE  /\ Locked(m)' /\ LockedAside(m)'
             /\ \A p \in Pilots : ModelOf[p] = m => pc'[p] \in Quiet
  <2>1. /\ TypeOK /\ aside \in [Models -> Store!TunedRow \cup {Store!NoRow}]
        /\ cur \in [Models -> Store!TunedRow \cup {Store!NoRow}]
        /\ cur[m].found /\ cur[m].locked /\ aside[m].found /\ aside[m].locked
    BY <1>1 DEF OutageInv, IInv, TypeOK, Store!TypeOK, QuietlyLocked, Locked, Store!Locked,
                LockedAside
  <2>2. ASSUME UNCHANGED pc
        PROVE  \A p \in Pilots : ModelOf[p] = m => pc'[p] \in Quiet
    BY <1>1, <2>2 DEF QuietlyLocked, Procs
  <2>3. ASSUME NEW p \in Procs, ProcStep(p)
        PROVE  /\ Locked(m)' /\ LockedAside(m)'
               /\ \A q \in Pilots : ModelOf[q] = m => pc'[q] \in Quiet
    <3>1. /\ Locked(m)'
          /\ \A q \in Pilots : ModelOf[q] = m => pc'[q] \in Quiet
      BY <1>1, <2>1, <2>3, ProcStepActs, QuietStep
    <3>2. aside'[m] = aside[m]
      <4>1. CASE UNCHANGED aside
        BY <4>1
      <4>2. CASE Saves(p) /\ aside' = [aside EXCEPT ![ModelOf[p]] = cur'[ModelOf[p]]]
        <5>1. pc[p] \in {"saveRollback", "saveAdjust"}
          BY <4>2 DEF Saves, SaveRollback, SaveAdjust
        <5>2. ModelOf[p] # m
          BY <1>1, <5>1 DEF QuietlyLocked, Quiet, Stopped
        <5>. QED  BY <2>1, <4>2, <5>2
      <4>. QED  BY <2>3, <4>1, <4>2 DEF ProcStep, SavedAsideToo, LoggedAsideToo, other
    <3>. QED  BY <2>1, <3>1, <3>2 DEF LockedAside
  <2>4. ASSUME NEW k \in Models, DisableLocks(k)
        PROVE  Locked(m)' /\ LockedAside(m)'
    <3>1. cur'[m].found /\ cur'[m].locked
      <4>1. \/ cur' = cur
            \/ cur' = [cur EXCEPT ![k] = [found |-> TRUE, config |-> cur[k].config,
                                          locked |-> TRUE]]
        BY <2>4 DEF DisableLocks, Store!lock_config
      <4>. QED  BY <2>1, <4>1
    <3>2. aside'[m].found /\ aside'[m].locked
      <4>1. CASE aside' = aside
        BY <2>1, <4>1
      <4>2. CASE aside' = [aside EXCEPT ![k] = LockRow(@)]
        <5>1. CASE k # m
          BY <2>1, <4>2, <5>1
        <5>2. CASE k = m
          <6>1. aside[m] \in Store!TunedRow
            <7>1. aside[m] # Store!NoRow
              BY <2>1 DEF Store!NoRow
            <7>. QED  BY <2>1, <7>1
          <6>2. LockRow(aside[m]).found /\ LockRow(aside[m]).locked
            BY <6>1 DEF LockRow, Store!TunedRow
          <6>. QED  BY <2>1, <4>2, <5>2, <6>2
        <5>. QED  BY <5>1, <5>2
      <4>. QED  BY <2>4, <4>1, <4>2 DEF DisableLocks
    <3>. QED  BY <3>1, <3>2 DEF Locked, Store!Locked, LockedAside
  <2>5. CASE Outage
    <3>1. cur' = aside /\ aside' = cur /\ UNCHANGED pc
      BY <2>5 DEF Outage
    <3>. QED  BY <2>1, <2>2, <3>1 DEF Locked, Store!Locked, LockedAside
  <2>6. CASE (\E k \in Models : DisableReads(k)) \/ UNCHANGED outVars
    <3>1. UNCHANGED <<cur, aside, pc>>
      BY <2>6 DEF DisableReads, outVars, vars, shared, other
    <3>. QED  BY <2>1, <2>2, <3>1 DEF Locked, Store!Locked, LockedAside
  <2>7. \A k \in Models : DisableLocks(k) => UNCHANGED pc
    BY DEF DisableLocks
  <2>. QED  BY <1>1, <2>2, <2>3, <2>4, <2>5, <2>6, <2>7 DEF OutageNext
<1>2. OutageInv /\ [OutageNext]_outVars =>
        [\A m \in Models : QuietlyLocked(m) /\ LockedAside(m) =>
           /\ Locked(m)' /\ LockedAside(m)'
           /\ \A p \in Pilots : ModelOf[p] = m => pc'[p] \in Quiet]_outVars
  BY <1>1
<1>3. OutageInv /\ [OutageNext]_outVars => OutageInv'
  BY OutageNextInv
<1>. QED  BY <1>2, <1>3, OutageInitInv, PTL DEF OutageSpec, LockedInBothSticks

\* No step of a process makes the trail that is aside say more than was changed.
LEMMA AsideCovered ==
  ASSUME "log" \notin Faults, OutageInv, Covered(asideEvents), NEW p \in Procs, ProcStep(p)
  PROVE  Covered(asideEvents)'
<1>. SUFFICES ASSUME NEW kind \in {"adjust", "rollback"}, NEW m \in Models, NEW cfg \in Baselines
              PROVE  CoveredBy(asideEvents, kind, m, cfg)'
  BY DEF Covered
<1>1. CoveredBy(asideEvents, kind, m, cfg) /\ asideEvents \in Seq(Event) /\ TypeOK
  BY DEF Covered, OutageInv, IInv
<1>2. /\ Enable(p) \/ Tune(p) \/ Step(p) \/ StoreRaises(p) \/ Crash(p)
      /\ \A q \in Procs \ {p} : pc'[q] = pc[q] /\ target'[q] = target[q]
  BY <1>1, ProcStepActs, Bookkeeping
<1>3. CASE Saves(p) /\ SavedAsideToo(ModelOf[p])
  <2>1. PICK k \in {"adjust", "rollback"} :
          Save(p, k) /\ pc' = [pc EXCEPT ![p] = DebtOf(k)] /\ pc[p] \notin Debtor
          /\ UNCHANGED <<target, asideEvents>>
    BY <1>3 DEF Saves, SaveAdjust, SaveRollback, SavedAsideToo, DebtOf, Debtor, Goto, local
  <2>2. pc'[p] \in {"error", DebtOf(k)}
    BY <1>1, <2>1 DEF TypeOK
  <2>3. /\ IsFiniteSet(Logging(kind, m, cfg)')
        /\ Cardinality(Of(asideEvents, kind, m, cfg)) + Cardinality(Logging(kind, m, cfg)')
             <= Cardinality(Of(changes', kind, m, cfg))
    BY <1>1, <1>2, <2>1, <2>2, DebtIncurred
  <2>. QED  BY <2>1, <2>3 DEF CoveredBy
<1>4. CASE \/ Logs(p) /\ LoggedAsideToo
           \/ Computes(p) /\ UNCHANGED other
  <2>1. UNCHANGED changes /\ pc'[p] \notin Debtor
    <3>1. UNCHANGED changes
      <4>1. CASE Logs(p)
        BY <4>1 DEF Logs, LogLock, LogRollback, LogAdjust, LogLimited
      <4>2. CASE Computes(p)
        BY <4>2 DEF ReadConfig, Computes, Enable, Tune, Start, Probe, TuneUnavailable, TuneOnce,
                    Wake, Crash, shared
      <4>. QED  BY <1>4, <4>1, <4>2
    <3>2. ASSUME EndPass(p) \/ \E l \in Labels \ Debtor : pc' = [pc EXCEPT ![p] = l]
          PROVE  pc'[p] \notin Debtor
      BY <1>1, <3>2 DEF EndPass, Goto, TypeOK, Debtor
    <3>3. CASE Logs(p)
      <4>1. EndPass(p) \/ pc' = [pc EXCEPT ![p] = "done"]
        BY <3>3 DEF Logs, LogLock, LogRollback, LogAdjust, LogLimited, Goto
      <4>2. "done" \in Labels \ Debtor
        BY DEF Labels, Stopped, Debtor
      <4>. QED  BY <3>1, <3>2, <4>1, <4>2
    <3>4. CASE TuneOnce(p)
      <4>1. PICK base \in StartingPoints(p) :
              \E meas \in [generate_candidates(base) \cup {base} -> BenchResults] :
                Conclude(p, base, meas)
        BY <3>4 DEF TuneOnce
      <4>2. EndPass(p) \/ \E l \in {"logLimited", "saveAdjust"} : pc' = [pc EXCEPT ![p] = l]
        BY <4>1 DEF Conclude, Goto
      <4>3. {"logLimited", "saveAdjust"} \subseteq Labels \ Debtor
        BY DEF Labels, Stopped, Debtor
      <4>. QED  BY <3>1, <3>2, <4>2, <4>3
    <3>5. CASE \/ Enable(p) \/ Tune(p) \/ ReadConfig(p) \/ Probe(p) \/ TuneUnavailable(p)
               \/ Wake(p) \/ Crash(p)
      <4>1. \E l \in {"loop", "tune", "logLock", "probe", "saveRollback", "error", "off"} :
              pc' = [pc EXCEPT ![p] = l]
        BY <3>5 DEF Enable, Tune, Start, ReadConfig, Probe, TuneUnavailable, Wake, Crash, Goto
      <4>2. {"loop", "tune", "logLock", "probe", "saveRollback", "error", "off"}
              \subseteq Labels \ Debtor
        BY DEF Labels, Stopped, Debtor
      <4>. QED  BY <3>1, <3>2, <4>1, <4>2
    <3>. QED  BY <1>4, <3>1, <3>3, <3>4, <3>5 DEF Computes
  <2>2. \/ asideEvents' = asideEvents
        \/ \E k \in EventTypes :
             /\ asideEvents' = Append(asideEvents, [model |-> ModelOf[p], event_type |-> k,
                                                    config |-> target[p]])
             /\ k \in {"adjust", "rollback"} => pc[p] = DebtOf(k)
    <3>1. CASE Logs(p) /\ LoggedAsideToo
      BY <1>1, <3>1, LogsAppend DEF LoggedAsideToo
    <3>2. CASE UNCHANGED asideEvents
      BY <3>2
    <3>. QED  BY <1>4, <3>1, <3>2 DEF other
  <2>3. /\ IsFiniteSet(Logging(kind, m, cfg)')
        /\ Cardinality(Of(asideEvents', kind, m, cfg)) + Cardinality(Logging(kind, m, cfg)')
             <= Cardinality(Of(changes', kind, m, cfg))
    BY <1>1, <1>2, <2>1, <2>2, DebtSettled
  <2>. QED  BY <2>3 DEF CoveredBy
<1>. QED  BY <1>3, <1>4 DEF ProcStep

\* Each of the two trails is covered by the changes, though a change may be
\* reported in both of them.
THEOREM BothTrailsAreHonest == "log" \notin Faults => (OutageSpec => []AuditNeverLies)
<1>. SUFFICES ASSUME "log" \notin Faults  PROVE OutageSpec => []AuditNeverLies
  OBVIOUS
<1>1. OutageInit => Covered(events) /\ Covered(asideEvents)
  <2>. SUFFICES ASSUME OutageInit, NEW kind \in {"adjust", "rollback"}, NEW m \in Models,
                       NEW cfg \in Baselines
                PROVE  CoveredBy(events, kind, m, cfg) /\ CoveredBy(asideEvents, kind, m, cfg)
    BY DEF Covered
  <2>1. Logging(kind, m, cfg) = {}
    BY DEF OutageInit, Init, Logging
  <2>2. /\ Of(events, kind, m, cfg) = {} /\ Of(changes, kind, m, cfg) = {}
        /\ Of(asideEvents, kind, m, cfg) = {}
    BY DEF OutageInit, Init, Of
  <2>. QED  BY <2>1, <2>2, FS_EmptySet DEF CoveredBy
<1>2. OutageInv /\ Covered(events) /\ Covered(asideEvents) /\ [OutageNext]_outVars
        => Covered(events)' /\ Covered(asideEvents)'
  <2>. SUFFICES ASSUME OutageInv, Covered(events), Covered(asideEvents), [OutageNext]_outVars
                PROVE  Covered(events)' /\ Covered(asideEvents)'
    OBVIOUS
  <2>1. TypeOK
    BY DEF OutageInv, IInv
  <2>2. ASSUME NEW p \in Procs, ProcStep(p)  PROVE Covered(events)' /\ Covered(asideEvents)'
    BY <2>1, <2>2, ProcStepActs, ProcessCovered, AsideCovered
  <2>3. CASE (\E k \in Models : DisableReads(k) \/ DisableLocks(k)) \/ UNCHANGED outVars
    <3>1. UNCHANGED <<changes, events, asideEvents, pc, target>>
      BY <2>3, DisableLocksActs DEF DisableReads, outVars, vars, shared, local, other
    <3>2. ASSUME NEW kind \in {"adjust", "rollback"}, NEW m \in Models, NEW cfg \in Baselines
          PROVE  CoveredBy(events, kind, m, cfg)' /\ CoveredBy(asideEvents, kind, m, cfg)'
      <4>1. Logging(kind, m, cfg)' = Logging(kind, m, cfg)
        BY <3>1 DEF Logging
      <4>. QED  BY <3>1, <4>1 DEF Covered, CoveredBy
    <3>. QED  BY <3>2 DEF Covered
  <2>4. CASE Outage
    <3>1. UNCHANGED <<changes, pc, target>> /\ events' = asideEvents /\ asideEvents' = events
      BY <2>4 DEF Outage, local
    <3>2. ASSUME NEW kind \in {"adjust", "rollback"}, NEW m \in Models, NEW cfg \in Baselines
          PROVE  CoveredBy(events, kind, m, cfg)' /\ CoveredBy(asideEvents, kind, m, cfg)'
      <4>1. Logging(kind, m, cfg)' = Logging(kind, m, cfg)
        BY <3>1 DEF Logging
      <4>. QED  BY <3>1, <4>1 DEF Covered, CoveredBy
    <3>. QED  BY <3>2 DEF Covered
  <2>. QED  BY <2>2, <2>3, <2>4 DEF OutageNext
<1>3. OutageInv /\ Covered(events) => AuditNeverLies
  BY CoveredIsHonest DEF OutageInv, IInv
<1>4. OutageInv /\ [OutageNext]_outVars => OutageInv'
  BY OutageNextInv
<1>. QED  BY <1>1, <1>2, <1>3, <1>4, OutageInitInv, PTL DEF OutageSpec
=============================================================================
