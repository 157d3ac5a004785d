--------------------------- MODULE FallbackStorage --------------------------
(***************************************************************************)
(* storage/resilient.py at work: several hosts share one MySQL server, and *)
(* each falls back to a SQLite file of its own, call by call, whenever     *)
(* MySQL raises.  Per place there is a tuned config for each model (the    *)
(* register of TunedConfigApi, which SqlTunedConfigs implements) and the   *)
(* insert-only tables run_records and autopilot_events.  The commands are  *)
(* those of the CLI and of agentd's routes: `run` saves a record, autopilot*)
(* saves an event, `tune` saves a config, `autopilot disable` reads and    *)
(* then locks one, in two calls.                                           *)
(***************************************************************************)
EXTENDS Integers, Sequences, FiniteSets

CONSTANTS Hosts, MySql, Models, Configs,
          MaxRows,     \* bound: rows inserted
          MaxSaves,    \* bound: tuned configs saved
          MaxClock     \* bound: value of the clock

ASSUME PlacesAssumption == MySql \notin Hosts
ASSUME BoundsAssumption == MaxRows \in Nat /\ MaxSaves \in Nat /\ MaxClock \in Nat

VARIABLES up,       \* does MySQL answer?
          config,   \* config[p][m]: the current tuned config of m at place p
          rows,     \* rows[p]: the inserts at p, in id order
          clock,    \* datetime('now') / CURRENT_TIMESTAMP, in seconds
          pc,       \* the disable under way on each host, between its two calls
          told,     \* ghost: where each record is, by what `run` printed
          saves,    \* how many configs were saved
          expect    \* ghost: what the next read of a model on a host must return

vars == <<up, config, rows, clock, pc, told, saves, expect>>

Places   == Hosts \cup {MySql}
NoRow    == [found |-> FALSE]
TunedRow == [found : {TRUE}, config : Configs, locked : BOOLEAN]
Kinds    == {"run", "event"}
Idle     == [disabling |-> FALSE]
Unknown  == [known |-> FALSE]

\* A row: its table, model, created_at, and its number among all that were saved.
Row  == [kind : Kinds, model : Models, at : 0..MaxClock, rec : 1..MaxRows]
Note == [host : Hosts, fallback : BOOLEAN]

TypeOK ==
  /\ up \in BOOLEAN
  /\ config \in [Places -> [Models -> TunedRow \cup {NoRow}]]
  /\ rows \in [Places -> Seq(Row)]
  /\ clock \in 0..MaxClock
  /\ pc \in [Hosts -> [disabling : {TRUE}, model : Models] \cup {Idle}]
  /\ told \in Seq(Note)
  /\ saves \in 0..MaxSaves
  /\ expect \in [Hosts -> [Models -> TunedRow \cup {NoRow, Unknown}]]

Init == /\ up = TRUE
        /\ config = [p \in Places |-> [m \in Models |-> NoRow]]
        /\ rows = [p \in Places |-> << >>]
        /\ clock = 0
        /\ pc = [h \in Hosts |-> Idle]
        /\ told = << >>
        /\ saves = 0
        /\ expect = [h \in Hosts |-> [m \in Models |-> NoRow]]

-----------------------------------------------------------------------------
(* FallbackStorage._call *)

\* Mutant: once it has fallen back, it does not try MySQL again.
ReadsFromSticky(h) ==
  IF up /\ \A i \in 1..Len(told) : told[i].host = h => ~told[i].fallback
  THEN MySql ELSE h

\* Where a read is answered.
ReadsFrom(h) == IF up THEN MySql ELSE h

\* Mutant: the exception is swallowed, and the fallback is not called.
WritesToSwallowed(h) ==
  IF up THEN {[at |-> {MySql}, fallback |-> FALSE]}
        ELSE {[at |-> {}, fallback |-> TRUE]}

\* Where a write takes effect, and last_used_fallback after it.  With MySQL up,
\* the call may still raise after its commit (the connection is lost before the
\* row is read back): then the fallback is called as well.
WritesTo(h) ==
  IF up THEN {[at |-> {MySql},    fallback |-> FALSE],
              [at |-> {MySql, h}, fallback |-> TRUE]}
        ELSE {[at |-> {h},        fallback |-> TRUE]}

\* The hosts whose next read sees a write made at these places.
Seers(h, at) == IF MySql \in at THEN Hosts ELSE {h}

get_tuned_config(h, m) == config[ReadsFrom(h)][m]

-----------------------------------------------------------------------------
(* The tables run_records and autopilot_events. *)

\* Mutant: of two rows of the same second the older one comes first.
BeforeNoTieBreak(t, i, j) ==
  t[i].at > t[j].at \/ (t[i].at = t[j].at /\ i < j)

\* ORDER BY created_at DESC, id DESC
Before(t, i, j) == t[i].at > t[j].at \/ (t[i].at = t[j].at /\ i > j)

\* Those rows of table t as the ORDER BY lists them.
InOrder(t, ids) ==
  CHOOSE s \in [1..Cardinality(ids) -> ids] :
    \A i, j \in DOMAIN s : i < j => Before(t, s[i], s[j])

\* SELECT ... WHERE model_id = m ORDER BY ... LIMIT limit, at place p.
select(p, kind, m, limit) ==
  LET t      == rows[p]
      ids    == {i \in 1..Len(t) : t[i].kind = kind /\ t[i].model = m}
      sorted == InOrder(t, ids)
      listed == IF limit < 0 \/ limit > Len(sorted) THEN sorted
                                                    ELSE SubSeq(sorted, 1, limit)
  IN  [n \in 1..Len(listed) |-> t[listed[n]]]

\* `history` and `autopilot status`: MySQL rejects a negative limit, so the
\* answer is SQLite's, for which it means no limit.
ListedFrom(h, limit) == IF limit < 0 THEN h ELSE ReadsFrom(h)

list_runs(h, m, limit) == select(ListedFrom(h, limit), "run", m, limit)
list_autopilot_events(h, m, limit) == select(ListedFrom(h, limit), "event", m, limit)

\* Mutant: created_at rounded up to the next second.
InsertRoundedUp(h, kind, m) ==
  /\ Len(told) < MaxRows
  /\ \E w \in WritesTo(h) :
       /\ rows' = [p \in Places |->
                     IF p \in w.at
                     THEN Append(rows[p], [kind |-> kind, model |-> m, at |-> clock + 1,
                                           rec |-> Len(told) + 1])
                     ELSE rows[p]]
       /\ told' = Append(told, [host |-> h, fallback |-> w.fallback])
  /\ UNCHANGED <<up, config, clock, pc, saves, expect>>

\* An INSERT into one of the two tables, through _call.
Insert(h, kind, m) ==
  /\ Len(told) < MaxRows
  /\ \E w \in WritesTo(h) :
       /\ rows' = [p \in Places |->
                     IF p \in w.at
                     THEN Append(rows[p], [kind |-> kind, model |-> m, at |-> clock,
                                           rec |-> Len(told) + 1])
                     ELSE rows[p]]
       /\ told' = Append(told, [host |-> h, fallback |-> w.fallback])
  /\ UNCHANGED <<up, config, clock, pc, saves, expect>>

\* `run` saves its record, the autopilot its events.
save_run(h, m) == Insert(h, "run", m)
save_autopilot_event(h, m) == Insert(h, "event", m)

-----------------------------------------------------------------------------
(* Tuned configs. *)

\* `tune` and the autopilot: engine.apply saves an unlocked config.
save_tuned_config(h, m, c) ==
  LET new == [found |-> TRUE, config |-> c, locked |-> FALSE]
  IN  /\ saves < MaxSaves
      /\ saves' = saves + 1
      /\ \E w \in WritesTo(h) :
           /\ config' = [p \in Places |-> IF p \in w.at
                                          THEN [config[p] EXCEPT ![m] = new]
                                          ELSE config[p]]
           /\ expect' = [g \in Hosts |-> IF g \in Seers(h, w.at)
                                         THEN [expect[g] EXCEPT ![m] = new]
                                         ELSE expect[g]]
      /\ UNCHANGED <<up, rows, clock, pc, told>>

\* The UPDATE of lock_config, which matches no row when there is none.
Lock(row) == IF row.found
             THEN [found |-> TRUE, config |-> row.config, locked |-> TRUE]
             ELSE row

\* `autopilot disable`, first call: with no config it prints so and ends.
DisableReads(h, m) ==
  /\ ~pc[h].disabling
  /\ get_tuned_config(h, m) # NoRow
  /\ pc' = [pc EXCEPT ![h] = [disabling |-> TRUE, model |-> m]]
  /\ UNCHANGED <<up, config, rows, clock, told, saves, expect>>

\* Its second call, which may land elsewhere than the first.
DisableLocks(h) ==
  LET m == pc[h].model IN
  /\ pc[h].disabling
  /\ pc' = [pc EXCEPT ![h] = Idle]
  /\ \E w \in WritesTo(h) :
       /\ config' = [p \in Places |-> IF p \in w.at
                                      THEN [config[p] EXCEPT ![m] = Lock(config[p][m])]
                                      ELSE config[p]]
       /\ expect' =
            [g \in Hosts |->
               IF g \in Seers(h, w.at) /\ expect[g][m] \notin {Unknown, NoRow}
               THEN [expect[g] EXCEPT ![m] = [found  |-> TRUE,
                                              config |-> expect[g][m].config,
                                              locked |-> TRUE]]
               ELSE expect[g]]
  /\ UNCHANGED <<up, rows, clock, told, saves>>

-----------------------------------------------------------------------------
\* MySQL goes away or comes back, and every host reads from elsewhere.
Toggle ==
  /\ up' = ~up
  /\ expect' = [h \in Hosts |-> [m \in Models |-> Unknown]]
  /\ UNCHANGED <<config, rows, clock, pc, told, saves>>

Tick == /\ clock < MaxClock
        /\ clock' = clock + 1
        /\ UNCHANGED <<up, config, rows, pc, told, saves, expect>>

Next == \/ \E h \in Hosts, m \in Models :
             \/ save_run(h, m)
             \/ save_autopilot_event(h, m)
             \/ \E c \in Configs : save_tuned_config(h, m, c)
             \/ DisableReads(h, m)
        \/ \E h \in Hosts : DisableLocks(h)
        \/ Toggle
        \/ Tick

Spec == Init /\ [][Next]_vars

-----------------------------------------------------------------------------
\* The fallback hides nothing while MySQL's availability does not change: a
\* host reads the config last saved or locked, by itself or, while MySQL is up,
\* by any host, whether or not the writer's call was answered.  Nothing is
\* promised across a change of availability: the stores are never merged.
SteadyReads ==
  \A h \in Hosts, m \in Models :
    expect[h][m] # Unknown => get_tuned_config(h, m) = expect[h][m]

Has(p, r) == \E i \in 1..Len(rows[p]) : rows[p][i].rec = r

\* What `llm-max run` prints about its record is where the record is: in the
\* host's SQLite file if it says that the fallback was used, else in MySQL; and
\* it is in no store twice, nor on another host.
RecordsAreWhereNoted ==
  \A r \in 1..Len(told) :
    /\ Has(IF told[r].fallback THEN told[r].host ELSE MySql, r)
    /\ \A p \in Places : Has(p, r) =>
         /\ p \in {told[r].host, MySql}
         /\ \A i, j \in 1..Len(rows[p]) :
              rows[p][i].rec = r /\ rows[p][j].rec = r => i = j

\* `history` and `autopilot status` show the most recent rows, in the reverse of
\* the order in which they were saved, also within a second: whatever is shown
\* is newer than what is shown below it and than what the limit cuts off, and no
\* fewer are shown than the limit allows.
HistoryIsNewestFirst ==
  \A h \in Hosts, kind \in Kinds, m \in Models, limit \in -1..2 :
    LET shown == IF kind = "run" THEN list_runs(h, m, limit)
                                 ELSE list_autopilot_events(h, m, limit)
        all   == {r \in 1..Len(told) :
                    \E p \in {ListedFrom(h, limit)} : \E i \in 1..Len(rows[p]) :
                      /\ rows[p][i].rec = r
                      /\ rows[p][i].kind = kind /\ rows[p][i].model = m}
        seen  == {shown[i].rec : i \in 1..Len(shown)}
    IN  /\ \A i, j \in 1..Len(shown) : i < j => shown[i].rec > shown[j].rec
        /\ seen \subseteq all
        /\ \A r \in all \ seen : \A s \in seen : s > r
        /\ seen = all \/ (limit >= 0 /\ Len(shown) = limit)

=============================================================================
