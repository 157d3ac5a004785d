------------------------ MODULE FallbackStorage_proofs -----------------------
(***************************************************************************)
(* What the fallback may be trusted with, for any number of hosts, models, *)
(* configs and calls.  SteadyReads is inductive once the state is typed:   *)
(* what a write changes is what its seers read next, because MySQL is no   *)
(* host's own store.  RecordsAreWhereNoted needs NumbersInUse besides: no  *)
(* store holds a record that has not been saved yet, so that the next one  *)
(* is new everywhere.  HistoryIsNewestFirst needs OrderInv on top of that: *)
(* a store's rows are in the order of their numbers and of their times, so *)
(* that the ORDER BY of a read is the order of the inserts reversed.       *)
(***************************************************************************)
EXTENDS FallbackStorage, SequenceTheorems, FiniteSetTheorems, TLAPS

\* Where a write may land: the store that is read from is always among them, and
\* no other host's store is.
LEMMA WritesToPlaces ==
  ASSUME NEW h \in Hosts, NEW w \in WritesTo(h)
  PROVE  /\ w.at \subseteq {MySql, h} /\ ReadsFrom(h) \in w.at
         /\ w.fallback \in BOOLEAN
         /\ (IF w.fallback THEN h ELSE MySql) \in w.at
<1>1. \/ up /\ w = [at |-> {MySql}, fallback |-> FALSE]
      \/ up /\ w = [at |-> {MySql, h}, fallback |-> TRUE]
      \/ ~up /\ w = [at |-> {h}, fallback |-> TRUE]
  BY DEF WritesTo
<1>2. CASE up /\ w = [at |-> {MySql}, fallback |-> FALSE]
  <2>1. w.at = {MySql} /\ w.fallback = FALSE
    BY <1>2
  <2> QED BY <1>2, <2>1 DEF ReadsFrom
<1>3. CASE up /\ w = [at |-> {MySql, h}, fallback |-> TRUE]
  <2>1. w.at = {MySql, h} /\ w.fallback = TRUE
    BY <1>3
  <2> QED BY <1>3, <2>1 DEF ReadsFrom
<1>4. CASE ~up /\ w = [at |-> {h}, fallback |-> TRUE]
  <2>1. w.at = {h} /\ w.fallback = TRUE
    BY <1>4
  <2> QED BY <1>4, <2>1 DEF ReadsFrom
<1> QED BY <1>1, <1>2, <1>3, <1>4

\* Which hosts read from a place that is written to.
LEMMA SeersRead ==
  ASSUME NEW h \in Hosts, NEW w \in WritesTo(h), NEW g \in Hosts
  PROVE  ReadsFrom(g) \in w.at <=> g \in Seers(h, w.at)
BY PlacesAssumption DEF WritesTo, ReadsFrom, Seers

-----------------------------------------------------------------------------
\* Configs and expectations have their types in every step that changes them.
Typed ==
  /\ up \in BOOLEAN
  /\ config \in [Places -> [Models -> TunedRow \cup {NoRow}]]
  /\ pc \in [Hosts -> [disabling : {TRUE}, model : Models] \cup {Idle}]
  /\ expect \in [Hosts -> [Models -> TunedRow \cup {NoRow, Unknown}]]

\* What is locked is a tuned row again.
LEMMA LockType ==
  ASSUME NEW row \in TunedRow \cup {NoRow}
  PROVE  /\ Lock(row) \in TunedRow \cup {NoRow}
         /\ row = NoRow => Lock(row) = NoRow
         /\ row # NoRow => Lock(row) = [found |-> TRUE, config |-> row.config, locked |-> TRUE]
<1>1. CASE row = NoRow
  BY <1>1 DEF Lock, NoRow
<1>2. CASE row \in TunedRow
  <2>1. row.found = TRUE /\ row.config \in Configs
    BY <1>2 DEF TunedRow
  <2>2. row # NoRow
    BY <2>1 DEF NoRow
  <2>3. [found |-> TRUE, config |-> row.config, locked |-> TRUE] \in TunedRow
    BY <2>1 DEF TunedRow
  <2> QED BY <2>1, <2>2, <2>3 DEF Lock
<1> QED BY <1>1, <1>2

\* The three kinds of an expectation exclude each other.
LEMMA KindsDiffer ==
  /\ NoRow # Unknown
  /\ \A row \in TunedRow : row # NoRow /\ row # Unknown
<1>1. NoRow # Unknown
  BY DEF NoRow, Unknown
<1>2. ASSUME NEW row \in TunedRow PROVE row # NoRow /\ row # Unknown
  <2>1. row.found = TRUE /\ DOMAIN row = {"found", "config", "locked"}
    BY DEF TunedRow
  <2>2. "found" \notin DOMAIN Unknown
    BY DEF Unknown
  <2> QED BY <2>1, <2>2 DEF NoRow
<1> QED BY <1>1, <1>2

\* A save keeps the types, and its seers read it.
LEMMA SaveSteady ==
  ASSUME Typed, SteadyReads, NEW h \in Hosts, NEW m \in Models, NEW c \in Configs,
         save_tuned_config(h, m, c)
  PROVE  Typed' /\ SteadyReads'
<1> DEFINE new == [found |-> TRUE, config |-> c, locked |-> FALSE]
<1>1. new \in TunedRow
  BY DEF TunedRow
<1> HIDE DEF new
<1>2. PICK w \in WritesTo(h) :
        /\ config' = [p \in Places |-> IF p \in w.at
                                       THEN [config[p] EXCEPT ![m] = new]
                                       ELSE config[p]]
        /\ expect' = [g \in Hosts |-> IF g \in Seers(h, w.at)
                                      THEN [expect[g] EXCEPT ![m] = new]
                                      ELSE expect[g]]
  BY DEF save_tuned_config, new
<1>3. up' = up /\ pc' = pc
  BY DEF save_tuned_config
<1>4. Typed'
  BY <1>1, <1>2, <1>3 DEF Typed
<1>5. ASSUME NEW g \in Hosts, NEW n \in Models, (expect[g][n] # Unknown)'
      PROVE  (get_tuned_config(g, n) = expect[g][n])'
  <2>1. ReadsFrom(g)' = ReadsFrom(g) /\ ReadsFrom(g) \in Places
    BY <1>3 DEF ReadsFrom, Places
  <2>2. CASE g \in Seers(h, w.at) /\ n = m
    <3>1. config'[ReadsFrom(g)][n] = new
      BY <1>2, <2>1, <2>2, SeersRead DEF Typed
    <3>2. expect'[g][n] = new
      BY <1>2, <2>2 DEF Typed
    <3> QED BY <2>1, <3>1, <3>2 DEF get_tuned_config
  <2>3. CASE ~(g \in Seers(h, w.at) /\ n = m)
    <3>1. config'[ReadsFrom(g)][n] = config[ReadsFrom(g)][n]
      BY <1>2, <2>1, <2>3, SeersRead DEF Typed
    <3>2. expect'[g][n] = expect[g][n]
      BY <1>2, <2>3 DEF Typed
    <3> QED BY <1>5, <2>1, <3>1, <3>2 DEF get_tuned_config, SteadyReads
  <2> QED BY <2>2, <2>3
<1> QED BY <1>4, <1>5 DEF SteadyReads

\* A lock keeps the types, and its seers read it.
LEMMA LockSteady ==
  ASSUME Typed, SteadyReads, NEW h \in Hosts, DisableLocks(h)
  PROVE  Typed' /\ SteadyReads'
<1> DEFINE m == pc[h].model
           locked(row) == [found |-> TRUE, config |-> row.config, locked |-> TRUE]
<1>1. pc[h].disabling
  BY DEF DisableLocks
<1>2. m \in Models
  <2>1. pc[h] \in [disabling : {TRUE}, model : Models] \cup {Idle}
    BY DEF Typed
  <2>2. pc[h] # Idle
    BY <1>1 DEF Idle
  <2> QED BY <2>1, <2>2
<1> HIDE DEF m
<1>3. PICK w \in WritesTo(h) :
        /\ config' = [p \in Places |-> IF p \in w.at
                                       THEN [config[p] EXCEPT ![m] = Lock(config[p][m])]
                                       ELSE config[p]]
        /\ expect' = [g \in Hosts |->
                        IF g \in Seers(h, w.at) /\ expect[g][m] \notin {Unknown, NoRow}
                        THEN [expect[g] EXCEPT ![m] = locked(expect[g][m])]
                        ELSE expect[g]]
  BY DEF DisableLocks, m
<1>4. up' = up /\ pc' = [pc EXCEPT ![h] = Idle]
  BY DEF DisableLocks
<1>5. \A p \in Places : config[p][m] \in TunedRow \cup {NoRow}
  BY <1>2 DEF Typed
<1>6. \A g \in Hosts : expect[g][m] \notin {Unknown, NoRow}
                         => locked(expect[g][m]) \in TunedRow
  <2> SUFFICES ASSUME NEW g \in Hosts, expect[g][m] \notin {Unknown, NoRow}
               PROVE  locked(expect[g][m]) \in TunedRow
    OBVIOUS
  <2>1. expect[g][m] \in TunedRow
    BY <1>2 DEF Typed
  <2>2. expect[g][m].config \in Configs
    BY <2>1 DEF TunedRow
  <2> QED BY <2>2 DEF TunedRow
<1> HIDE DEF locked
<1>7. config' \in [Places -> [Models -> TunedRow \cup {NoRow}]]
  <2>1. \A p \in Places : Lock(config[p][m]) \in TunedRow \cup {NoRow}
    BY <1>5, LockType
  <2> QED BY <1>2, <1>3, <2>1 DEF Typed
<1>8. expect' \in [Hosts -> [Models -> TunedRow \cup {NoRow, Unknown}]]
  BY <1>2, <1>3, <1>6 DEF Typed
<1>9. Typed'
  BY <1>4, <1>7, <1>8 DEF Typed
<1>10. ASSUME NEW g \in Hosts, NEW n \in Models, (expect[g][n] # Unknown)'
       PROVE  (get_tuned_config(g, n) = expect[g][n])'
  <2> DEFINE at == ReadsFrom(g)
  <2>1. ReadsFrom(g)' = at /\ at \in Places
    BY <1>4 DEF ReadsFrom, Places
  <2> HIDE DEF at
  <2>2. at \in w.at <=> g \in Seers(h, w.at)
    BY SeersRead DEF at
  <2>3. expect[g][n] # Unknown => config[at][n] = expect[g][n]
    BY DEF SteadyReads, get_tuned_config, at
  <2>4. CASE ~(g \in Seers(h, w.at) /\ n = m)
    <3>1. config'[at][n] = config[at][n]
      BY <1>2, <1>3, <2>1, <2>2, <2>4 DEF Typed
    <3>2. expect'[g][n] = expect[g][n]
      BY <1>2, <1>3, <2>4 DEF Typed
    <3> QED BY <1>10, <2>1, <2>3, <3>1, <3>2 DEF get_tuned_config
  <2>5. CASE g \in Seers(h, w.at) /\ n = m /\ expect[g][m] \in {Unknown, NoRow}
    <3>1. expect'[g][n] = expect[g][n]
      BY <1>2, <1>3, <2>5 DEF Typed
    <3>2. expect[g][m] = NoRow /\ config[at][m] = NoRow
      BY <1>10, <2>3, <2>5, <3>1
    <3>3. config'[at][n] = Lock(config[at][m])
      BY <1>2, <1>3, <2>1, <2>2, <2>5 DEF Typed
    <3>4. Lock(config[at][m]) = NoRow
      BY <1>5, <2>1, <3>2, LockType
    <3> QED BY <2>1, <2>5, <3>1, <3>2, <3>3, <3>4 DEF get_tuned_config
  <2>6. CASE g \in Seers(h, w.at) /\ n = m /\ expect[g][m] \notin {Unknown, NoRow}
    <3>1. expect'[g][n] = locked(expect[g][m])
      BY <1>2, <1>3, <2>6 DEF Typed
    <3>2. config'[at][n] = Lock(config[at][m])
      BY <1>2, <1>3, <2>1, <2>2, <2>6 DEF Typed
    <3>3. config[at][m] = expect[g][m]
      BY <2>3, <2>6
    <3>4. Lock(config[at][m]) = locked(config[at][m])
      BY <1>5, <2>1, <2>6, <3>3, LockType DEF locked
    <3> QED BY <2>1, <3>1, <3>2, <3>3, <3>4 DEF get_tuned_config
  <2> QED BY <2>4, <2>5, <2>6
<1> QED BY <1>9, <1>10 DEF SteadyReads

\* No step disturbs what the next read must return.
LEMMA SteadyIsInductive == Typed /\ SteadyReads /\ [Next]_vars => Typed' /\ SteadyReads'
<1> SUFFICES ASSUME Typed, SteadyReads, [Next]_vars PROVE Typed' /\ SteadyReads'
  OBVIOUS
<1> DEFINE Same == UNCHANGED <<up, config, expect>>
<1>1. ASSUME Same, pc' \in [Hosts -> [disabling : {TRUE}, model : Models] \cup {Idle}]
      PROVE  Typed' /\ SteadyReads'
  BY <1>1 DEF Typed, SteadyReads, get_tuned_config, ReadsFrom
<1>2. ASSUME NEW h \in Hosts, NEW m \in Models, save_run(h, m) \/ save_autopilot_event(h, m)
      PROVE  Typed' /\ SteadyReads'
  BY <1>1, <1>2 DEF save_run, save_autopilot_event, Insert, Typed
<1>3. ASSUME NEW h \in Hosts, NEW m \in Models, NEW c \in Configs, save_tuned_config(h, m, c)
      PROVE  Typed' /\ SteadyReads'
  BY <1>3, SaveSteady
<1>4. ASSUME NEW h \in Hosts, NEW m \in Models, DisableReads(h, m)
      PROVE  Typed' /\ SteadyReads'
  BY <1>1, <1>4 DEF DisableReads, Typed
<1>5. ASSUME NEW h \in Hosts, DisableLocks(h)
      PROVE  Typed' /\ SteadyReads'
  BY <1>5, LockSteady
<1>6. ASSUME Toggle
      PROVE  Typed' /\ SteadyReads'
  <2>1. Typed'
    BY <1>6 DEF Toggle, Typed
  <2>2. SteadyReads'
    BY <1>6 DEF Toggle, SteadyReads
  <2> QED BY <2>1, <2>2
<1>7. ASSUME Tick
      PROVE  Typed' /\ SteadyReads'
  BY <1>1, <1>7 DEF Tick, Typed
<1>8. ASSUME UNCHANGED vars
      PROVE  Typed' /\ SteadyReads'
  BY <1>1, <1>8 DEF vars, Typed
<1> QED BY <1>2, <1>3, <1>4, <1>5, <1>6, <1>7, <1>8 DEF Next

\* With nothing saved anywhere, every read returns nothing.
LEMMA SteadyInit == Init => Typed /\ SteadyReads
<1> SUFFICES ASSUME Init PROVE Typed /\ SteadyReads
  OBVIOUS
<1>1. Typed
  BY DEF Init, Typed
<1>2. SteadyReads
  BY DEF Init, SteadyReads, get_tuned_config, ReadsFrom, Places
<1> QED BY <1>1, <1>2

\* While MySQL's availability does not change, a host reads what was last saved
\* or locked where it reads, by whichever host and whether or not the writer's
\* call was answered: FallbackStorage hides nothing.
THEOREM ReadsAreSteady == Spec => []SteadyReads
BY SteadyInit, SteadyIsInductive, PTL DEF Spec

-----------------------------------------------------------------------------
\* The tables and what was told have their types, and no table holds a record
\* that is yet to be saved.
Counted ==
  /\ rows \in [Places -> Seq(Row)]
  /\ told \in Seq(Note) /\ Len(told) <= MaxRows
  /\ clock \in 0..MaxClock

NumbersInUse ==
  \A p \in Places : \A i \in 1..Len(rows[p]) :
    rows[p][i].rec \in Nat /\ rows[p][i].rec <= Len(told)

\* An insert adds one row, numbered like no row before it, to the tables it
\* lands in, and leaves every other row where it was.
LEMMA InsertEffect ==
  ASSUME Counted, NEW h \in Hosts, NEW kind \in Kinds, NEW m \in Models,
         Insert(h, kind, m)
  PROVE  \E w \in WritesTo(h) :
           /\ Len(told) \in Nat /\ Len(told') = Len(told) + 1 /\ Counted'
           /\ told'[Len(told) + 1] = [host |-> h, fallback |-> w.fallback]
           /\ \A r \in 1..Len(told) : told'[r] = told[r]
           /\ \A p \in Places : Len(rows[p]) \in Nat
           /\ \A p \in Places : p \in w.at =>
                /\ Len(rows'[p]) = Len(rows[p]) + 1
                /\ \A i \in 1..Len(rows[p]) : rows'[p][i] = rows[p][i]
                /\ rows'[p][Len(rows[p]) + 1].rec = Len(told) + 1
                /\ rows'[p][Len(rows[p]) + 1].at = clock
           /\ \A p \in Places : p \notin w.at => rows'[p] = rows[p]
<1> DEFINE row == [kind |-> kind, model |-> m, at |-> clock, rec |-> Len(told) + 1]
<1>1. Len(told) \in Nat /\ Len(told) < MaxRows /\ MaxRows \in Nat
  BY BoundsAssumption DEF Counted, Insert
<1>2. row \in Row /\ row.rec = Len(told) + 1 /\ row.at = clock
  BY <1>1 DEF Row, Counted
<1> HIDE DEF row
<1>3. PICK w \in WritesTo(h) :
        /\ rows' = [p \in Places |-> IF p \in w.at THEN Append(rows[p], row) ELSE rows[p]]
        /\ told' = Append(told, [host |-> h, fallback |-> w.fallback])
  BY DEF Insert, row
<1>4. [host |-> h, fallback |-> w.fallback] \in Note
  BY WritesToPlaces DEF Note
<1>5. /\ Len(told') = Len(told) + 1 /\ told' \in Seq(Note)
      /\ told'[Len(told) + 1] = [host |-> h, fallback |-> w.fallback]
      /\ \A r \in 1..Len(told) : told'[r] = told[r]
  BY <1>3, <1>4, AppendProperties DEF Counted
<1>6. ASSUME NEW p \in Places
      PROVE  rows[p] \in Seq(Row) /\ Len(rows[p]) \in Nat
  BY DEF Counted
<1>7. ASSUME NEW p \in Places, p \in w.at
      PROVE  /\ rows'[p] \in Seq(Row)
             /\ Len(rows'[p]) = Len(rows[p]) + 1
             /\ \A i \in 1..Len(rows[p]) : rows'[p][i] = rows[p][i]
             /\ rows'[p][Len(rows[p]) + 1].rec = Len(told) + 1
             /\ rows'[p][Len(rows[p]) + 1].at = clock
  <2>1. rows'[p] = Append(rows[p], row)
    BY <1>3, <1>7
  <2> QED BY <1>2, <1>6, <2>1, AppendProperties
<1>8. ASSUME NEW p \in Places, p \notin w.at PROVE rows'[p] = rows[p]
  BY <1>3, <1>8
<1>9. rows' \in [Places -> Seq(Row)]
  <2>1. \A p \in Places : rows'[p] \in Seq(Row)
    BY <1>6, <1>7, <1>8
  <2> QED BY <1>3, <2>1
<1>10. Counted'
  <2>1. clock' = clock
    BY DEF Insert
  <2> QED BY <1>1, <1>5, <1>9, <2>1 DEF Counted
<1> QED BY <1>1, <1>3, <1>5, <1>6, <1>7, <1>8, <1>10

\* The new record is where its note says, and the old ones stay where they were.
LEMMA InsertKeepsRecords ==
  ASSUME Counted, NumbersInUse, RecordsAreWhereNoted,
         NEW h \in Hosts, NEW kind \in Kinds, NEW m \in Models, Insert(h, kind, m)
  PROVE  Counted' /\ NumbersInUse' /\ RecordsAreWhereNoted'
<1> DEFINE n == Len(told) + 1
           Has1(p, r) == \E i \in 1..Len(rows'[p]) : rows'[p][i].rec = r
           Noted(r) == /\ Has1(IF told'[r].fallback THEN told'[r].host ELSE MySql, r)
                       /\ \A p \in Places : Has1(p, r) =>
                            /\ p \in {told'[r].host, MySql}
                            /\ \A i, j \in 1..Len(rows'[p]) :
                                 rows'[p][i].rec = r /\ rows'[p][j].rec = r => i = j
<1>1. PICK w \in WritesTo(h) :
           /\ Len(told) \in Nat /\ Len(told') = n /\ Counted'
           /\ told'[n] = [host |-> h, fallback |-> w.fallback]
           /\ \A r \in 1..Len(told) : told'[r] = told[r]
           /\ \A p \in Places : Len(rows[p]) \in Nat
           /\ \A p \in Places : p \in w.at =>
                /\ Len(rows'[p]) = Len(rows[p]) + 1
                /\ \A i \in 1..Len(rows[p]) : rows'[p][i] = rows[p][i]
                /\ rows'[p][Len(rows[p]) + 1].rec = n
           /\ \A p \in Places : p \notin w.at => rows'[p] = rows[p]
  BY InsertEffect
<1>n. n \in Nat /\ n = Len(told) + 1 /\ \A r \in 1..Len(told) : r # n
  BY <1>1
<1> HIDE DEF n
<1>2. ASSUME NEW p \in Places, NEW i \in 1..Len(rows'[p])
      PROVE  \/ i \in 1..Len(rows[p]) /\ rows'[p][i] = rows[p][i]
             \/ p \in w.at /\ i = Len(rows[p]) + 1 /\ rows'[p][i].rec = n
  <2>1. CASE p \in w.at
    BY <1>1, <1>2, <2>1
  <2>2. CASE p \notin w.at
    BY <1>1, <1>2, <2>2
  <2> QED BY <2>1, <2>2
<1>3. \A p \in Places : \A i \in 1..Len(rows[p]) :
        i \in 1..Len(rows'[p]) /\ rows'[p][i] = rows[p][i]
  BY <1>1
<1>4. NumbersInUse'
  <2> SUFFICES ASSUME NEW p \in Places, NEW i \in 1..Len(rows'[p])
               PROVE  rows'[p][i].rec \in Nat /\ rows'[p][i].rec <= Len(told')
    BY DEF NumbersInUse
  <2>1. CASE i \in 1..Len(rows[p]) /\ rows'[p][i] = rows[p][i]
    <3>1. rows[p][i].rec \in Nat /\ rows[p][i].rec <= Len(told)
      BY <2>1 DEF NumbersInUse
    <3> QED BY <1>1, <1>n, <2>1, <3>1
  <2>2. CASE rows'[p][i].rec = n
    BY <1>1, <1>n, <2>2
  <2> QED BY <1>2, <2>1, <2>2
<1>5. ASSUME NEW p \in Places, NEW r \in 1..Len(told)
      PROVE  /\ Has1(p, r) <=> Has(p, r)
             /\ \A i \in 1..Len(rows'[p]) : rows'[p][i].rec = r =>
                   i \in 1..Len(rows[p]) /\ rows[p][i].rec = r
  <2>1. \A i \in 1..Len(rows'[p]) : rows'[p][i].rec = r =>
                   i \in 1..Len(rows[p]) /\ rows[p][i].rec = r
    BY <1>2, <1>n
  <2> QED BY <1>3, <2>1 DEF Has
<1>6. ASSUME NEW p \in Places
      PROVE  /\ Has1(p, n) <=> p \in w.at
             /\ \A i \in 1..Len(rows'[p]) : rows'[p][i].rec = n => i = Len(rows[p]) + 1
  <2>1. \A i \in 1..Len(rows[p]) : rows[p][i].rec # n
    BY <1>1, <1>n DEF NumbersInUse
  <2>2. \A i \in 1..Len(rows'[p]) : rows'[p][i].rec = n =>
           p \in w.at /\ i = Len(rows[p]) + 1
    BY <1>2, <2>1
  <2>3. ASSUME p \in w.at
        PROVE  /\ Len(rows[p]) + 1 \in 1..Len(rows'[p])
               /\ rows'[p][Len(rows[p]) + 1].rec = n
    BY <1>1, <2>3
  <2> QED BY <2>2, <2>3
<1>7. ASSUME NEW r \in 1..Len(told)
      PROVE  Noted(r)
  <2> DEFINE place == IF told[r].fallback THEN told[r].host ELSE MySql
  <2>1. told'[r] = told[r] /\ told[r] \in Note
    BY <1>1 DEF Counted
  <2>2. place \in Places
    BY <2>1 DEF Note, Places
  <2> HIDE DEF place
  <2>3. Has(place, r)
    BY DEF RecordsAreWhereNoted, place
  <2>4. Has1(place, r)
    BY <1>5, <2>2, <2>3
  <2>5. ASSUME NEW p \in Places, Has1(p, r)
        PROVE  /\ p \in {told[r].host, MySql}
               /\ \A i, j \in 1..Len(rows'[p]) :
                     rows'[p][i].rec = r /\ rows'[p][j].rec = r => i = j
    <3>1. Has(p, r)
      BY <1>5, <2>5
    <3>2. /\ p \in {told[r].host, MySql}
          /\ \A i, j \in 1..Len(rows[p]) :
                rows[p][i].rec = r /\ rows[p][j].rec = r => i = j
      BY <3>1 DEF RecordsAreWhereNoted
    <3>3. \A i \in 1..Len(rows'[p]) : rows'[p][i].rec = r =>
            i \in 1..Len(rows[p]) /\ rows[p][i].rec = r
      BY <1>5
    <3> QED BY <3>2, <3>3
  <2> QED BY <2>1, <2>4, <2>5 DEF place
<1>8. Noted(n)
  <2>1. told'[n].fallback = w.fallback /\ told'[n].host = h
    BY <1>1
  <2>2. (IF w.fallback THEN h ELSE MySql) \in Places
    BY DEF Places
  <2>3. (IF w.fallback THEN h ELSE MySql) \in w.at /\ w.at \subseteq {MySql, h}
    BY WritesToPlaces
  <2>4. Has1(IF w.fallback THEN h ELSE MySql, n)
    BY <1>6, <2>2, <2>3
  <2> QED BY <1>6, <2>1, <2>3, <2>4
<1> HIDE DEF Noted
<1>9. RecordsAreWhereNoted'
  <2>1. \A r \in 1..Len(told') : r \in 1..Len(told) \/ r = n
    BY <1>1, <1>n
  <2>2. ASSUME NEW r \in 1..Len(told')
        PROVE  Noted(r)
    <3>1. CASE r \in 1..Len(told)
      BY <1>7, <3>1
    <3>2. CASE r = n
      BY <1>8, <3>2
    <3> QED BY <2>1, <3>1, <3>2
  <2> QED BY <2>2 DEF RecordsAreWhereNoted, Has, Noted
<1> QED BY <1>1, <1>4, <1>9

\* No other step touches the tables or what was told.
LEMMA RecordsInductive ==
  Counted /\ NumbersInUse /\ RecordsAreWhereNoted /\ [Next]_vars
    => Counted' /\ NumbersInUse' /\ RecordsAreWhereNoted'
<1> SUFFICES ASSUME Counted, NumbersInUse, RecordsAreWhereNoted, [Next]_vars
             PROVE  Counted' /\ NumbersInUse' /\ RecordsAreWhereNoted'
  OBVIOUS
<1>1. ASSUME UNCHANGED <<rows, told>>, clock' \in 0..MaxClock
      PROVE  Counted' /\ NumbersInUse' /\ RecordsAreWhereNoted'
  BY <1>1 DEF Counted, NumbersInUse, RecordsAreWhereNoted, Has
<1>2. ASSUME NEW h \in Hosts, NEW m \in Models, save_run(h, m) \/ save_autopilot_event(h, m)
      PROVE  Counted' /\ NumbersInUse' /\ RecordsAreWhereNoted'
  <2>1. PICK kind \in Kinds : Insert(h, kind, m)
    BY <1>2 DEF save_run, save_autopilot_event, Kinds
  <2> QED BY <2>1, InsertKeepsRecords
<1>3. ASSUME NEW h \in Hosts, NEW m \in Models, NEW c \in Configs, save_tuned_config(h, m, c)
      PROVE  UNCHANGED <<rows, told, clock>>
  BY <1>3 DEF save_tuned_config
<1>4. ASSUME NEW h \in Hosts, NEW m \in Models, DisableReads(h, m)
      PROVE  UNCHANGED <<rows, told, clock>>
  BY <1>4 DEF DisableReads
<1>5. ASSUME NEW h \in Hosts, DisableLocks(h)
      PROVE  UNCHANGED <<rows, told, clock>>
  BY <1>5 DEF DisableLocks
<1>6. ASSUME Toggle
      PROVE  UNCHANGED <<rows, told, clock>>
  BY <1>6 DEF Toggle
<1>7. ASSUME Tick
      PROVE  UNCHANGED <<rows, told>> /\ clock' \in 0..MaxClock
  BY <1>7, BoundsAssumption DEF Tick, Counted
<1>8. ASSUME UNCHANGED vars
      PROVE  UNCHANGED <<rows, told, clock>>
  BY <1>8 DEF vars
<1>9. UNCHANGED <<rows, told, clock>> => UNCHANGED <<rows, told>> /\ clock' \in 0..MaxClock
  BY DEF Counted
<1> QED BY <1>1, <1>2, <1>3, <1>4, <1>5, <1>6, <1>7, <1>8, <1>9 DEF Next

\* Nothing is saved or told yet.
LEMMA RecordsInit == Init => Counted /\ NumbersInUse /\ RecordsAreWhereNoted
<1> SUFFICES ASSUME Init PROVE Counted /\ NumbersInUse /\ RecordsAreWhereNoted
  OBVIOUS
<1>1. << >> \in Seq(Row) /\ << >> \in Seq(Note) /\ Len(<< >>) = 0
  OBVIOUS
<1>2. Counted
  BY <1>1, BoundsAssumption DEF Init, Counted
<1>3. NumbersInUse
  BY DEF Init, NumbersInUse
<1>4. RecordsAreWhereNoted
  BY DEF Init, RecordsAreWhereNoted
<1> QED BY <1>2, <1>3, <1>4

\* Every record is where `run` said it is, in no store twice and on no other
\* host, however often MySQL goes, comes back or loses an answer.
THEOREM RecordsAreFound == Spec => []RecordsAreWhereNoted
BY RecordsInit, RecordsInductive, PTL DEF Spec

\* The count of the saves stays within its bound.
SavesTyped == saves \in 0..MaxSaves

\* The stores, the tables and the commands under way are well-typed, whatever
\* fails in between.
THEOREM TypeCorrect == Spec => []TypeOK
<1>1. Init => SavesTyped
  BY BoundsAssumption DEF Init, SavesTyped
<1>2. SavesTyped /\ [Next]_vars => SavesTyped'
  <2> SUFFICES ASSUME SavesTyped, [Next]_vars PROVE SavesTyped'
    OBVIOUS
  <2>1. ASSUME NEW h \in Hosts, NEW m \in Models, NEW c \in Configs, save_tuned_config(h, m, c)
        PROVE  SavesTyped'
    BY <2>1, BoundsAssumption DEF save_tuned_config, SavesTyped
  <2>2. ASSUME NEW h \in Hosts, NEW m \in Models,
               save_run(h, m) \/ save_autopilot_event(h, m) \/ DisableReads(h, m)
        PROVE  saves' = saves
    BY <2>2 DEF save_run, save_autopilot_event, Insert, DisableReads
  <2>3. ASSUME NEW h \in Hosts, DisableLocks(h) PROVE saves' = saves
    BY <2>3 DEF DisableLocks
  <2>4. ASSUME Toggle \/ Tick \/ UNCHANGED vars PROVE saves' = saves
    BY <2>4 DEF Toggle, Tick, vars
  <2> QED BY <2>1, <2>2, <2>3, <2>4 DEF Next, SavesTyped
<1>3. Typed /\ Counted /\ SavesTyped => TypeOK
  BY DEF Typed, Counted, SavesTyped, TypeOK
<1> QED BY <1>1, <1>2, <1>3, SteadyInit, SteadyIsInductive, RecordsInit, RecordsInductive,
           PTL DEF Spec

-----------------------------------------------------------------------------
(* HistoryIsNewestFirst: the rows of a table are in the order in which they  *)
(* were saved, so that ORDER BY created_at DESC, id DESC is that order       *)
(* reversed.                                                                 *)

\* In every table a later row has a higher number and no earlier time.
OrderInv ==
  \A p \in Places :
    /\ \A i \in 1..Len(rows[p]) : rows[p][i].at <= clock
    /\ \A i, j \in 1..Len(rows[p]) : i < j =>
         rows[p][i].rec < rows[p][j].rec /\ rows[p][i].at <= rows[p][j].at

\* Some numbers can be listed in descending order: each is as far down the list
\* as there are numbers that are not less.
LEMMA Descending ==
  ASSUME NEW n \in Nat, NEW S \in SUBSET (1..n)
  PROVE  /\ IsFiniteSet(S) /\ Cardinality(S) \in Nat
         /\ \E f \in [1..Cardinality(S) -> S] :
              \A i, j \in 1..Cardinality(S) : i < j => f[i] > f[j]
<1>1. IsFiniteSet(S)
  <2>1. IsFiniteSet(1..n)
    BY FS_Interval
  <2>. QED  BY <2>1, FS_Subset
<1>2. PICK k \in Nat : k = Cardinality(S)
  BY <1>1, FS_CardinalityType
<1>. DEFINE Above(s) == {x \in S : x >= s}
            rank == [s \in S |-> Cardinality(Above(s))]
<1>3. \A s \in S : s \in Int
  OBVIOUS
<1>4. ASSUME NEW s \in S
      PROVE  IsFiniteSet(Above(s)) /\ rank[s] = Cardinality(Above(s)) /\ rank[s] \in 1..k
  <2>1. Above(s) \in SUBSET S /\ s \in Above(s)
    BY <1>3
  <2>. HIDE DEF Above
  <2>2. IsFiniteSet(Above(s)) /\ Cardinality(Above(s)) <= k
    BY <1>1, <1>2, <2>1, FS_Subset
  <2>3. Cardinality(Above(s)) \in Nat /\ Cardinality(Above(s)) # 0
    BY <2>1, <2>2, FS_CardinalityType, FS_EmptySet
  <2>. QED  BY <1>2, <2>2, <2>3
<1>5. ASSUME NEW s \in S, NEW u \in S, s < u
      PROVE  rank[u] < rank[s]
  <2>0. s \in Int /\ u \in Int
    BY <1>3
  <2>1. Above(u) \in SUBSET Above(s) /\ s \in Above(s) /\ s \notin Above(u)
    <3>1. ASSUME NEW x \in Above(u)  PROVE x \in Above(s)
      <4>1. x \in S /\ x \in Int /\ x >= u
        BY <1>3
      <4>2. x >= s
        BY <1>5, <2>0, <4>1
      <4>. QED  BY <4>1, <4>2
    <3>2. s \in Above(s) /\ s \notin Above(u)
      BY <1>5, <2>0
    <3>. QED  BY <3>1, <3>2
  <2>2. IsFiniteSet(Above(s)) /\ rank[s] = Cardinality(Above(s)) /\ rank[s] \in Int
    BY <1>4
  <2>3. rank[u] = Cardinality(Above(u)) /\ rank[u] \in Int
    BY <1>4
  <2>. HIDE DEF Above, rank
  <2>4. Cardinality(Above(u)) <= Cardinality(Above(s))
        /\ Cardinality(Above(u)) # Cardinality(Above(s))
    BY <2>1, <2>2, FS_Subset
  <2>. QED  BY <2>2, <2>3, <2>4
<1>6. rank \in Injection(S, 1..k)
  <2>1. rank \in [S -> 1..k]
    BY <1>4
  <2>2. ASSUME NEW s \in S, NEW u \in S, rank[s] = rank[u]  PROVE s = u
    <3>1. rank[s] \in Int /\ s \in Int /\ u \in Int
      BY <1>3, <1>4
    <3>2. ~ s < u /\ ~ u < s
      BY <1>5, <2>2, <3>1
    <3>. QED  BY <3>1, <3>2
  <2>. HIDE DEF rank
  <2>. QED  BY <2>1, <2>2 DEF Injection, IsInjective
<1>. HIDE DEF rank, Above
<1>7. rank \in Surjection(S, 1..k)
  <2>1. IsFiniteSet(1..k) /\ Cardinality(1..k) = k
    BY <1>2, FS_Interval
  <2>. QED  BY <1>2, <1>6, <2>1, FS_Injection
<1>. DEFINE f == [i \in 1..k |-> CHOOSE s \in S : rank[s] = i]
<1>8. ASSUME NEW i \in 1..k  PROVE f[i] \in S /\ rank[f[i]] = i
  <2>1. \E s \in S : rank[s] = i
    BY <1>7 DEF Surjection
  <2>. QED  BY <2>1
<1>9. f \in [1..k -> S]
  BY <1>8
<1>. HIDE DEF f
<1>10. ASSUME NEW i \in 1..k, NEW j \in 1..k, i < j  PROVE f[i] > f[j]
  <2>1. f[i] \in S /\ f[j] \in S /\ f[i] \in Int /\ f[j] \in Int /\ rank[f[i]] = i /\ rank[f[j]] = j
    BY <1>3, <1>8
  <2>2. f[i] # f[j] /\ ~ f[i] < f[j]
    BY <1>5, <1>10, <2>1
  <2>. QED  BY <2>1, <2>2
<1>. QED  BY <1>1, <1>2, <1>9, <1>10

\* q lists the k members of S, each once, in descending order.
Lists(q, k, S) ==
  /\ k \in Nat /\ q \in [1..k -> S]
  /\ \A i, j \in 1..k : i < j => q[i] > q[j]
  /\ \A x \in S : \E i \in 1..k : q[i] = x

\* A table whose times never decrease: its rows by time and number are its rows
\* from the last to the first, all of those asked for.
LEMMA OrderIsReversed ==
  ASSUME NEW n \in Nat, NEW t, \A i \in 1..n : t[i].at \in Nat,
         \A i, j \in 1..n : i < j => t[i].at <= t[j].at,
         NEW S \in SUBSET (1..n)
  PROVE  Lists(InOrder(t, S), Cardinality(S), S)
<1>1. PICK k \in Nat : k = Cardinality(S) /\ IsFiniteSet(S)
  BY Descending
<1>2. ASSUME NEW x \in 1..n, NEW y \in 1..n  PROVE Before(t, x, y) <=> x > y
  <2>1. t[x].at \in Nat /\ t[y].at \in Nat /\ x \in Int /\ y \in Int
    OBVIOUS
  <2>2. CASE x > y
    <3>1. t[y].at <= t[x].at
      BY <2>1, <2>2
    <3>. QED  BY <2>1, <2>2, <3>1 DEF Before
  <2>3. CASE x = y
    BY <2>1, <2>3 DEF Before
  <2>4. CASE x < y
    <3>1. t[x].at <= t[y].at
      BY <2>4
    <3>. QED  BY <2>1, <2>4, <3>1 DEF Before
  <2>. QED  BY <2>1, <2>2, <2>3, <2>4
<1>. DEFINE Sorted(s) == \A i, j \in DOMAIN s : i < j => Before(t, s[i], s[j])
            q == InOrder(t, S)
<1>3. q \in [1..k -> S] /\ Sorted(q)
  <2>1. PICK f \in [1..k -> S] : \A i, j \in 1..k : i < j => f[i] > f[j]
    BY <1>1, Descending
  <2>2. Sorted(f)
    BY <1>2, <2>1
  <2>. HIDE DEF Sorted
  <2>3. q = CHOOSE s \in [1..k -> S] : Sorted(s)
    BY <1>1 DEF InOrder, Sorted
  <2>. QED  BY <2>1, <2>2, <2>3
<1>4. \A i, j \in 1..k : i < j => q[i] > q[j]
  BY <1>2, <1>3
<1>. HIDE DEF q
<1>5. q \in Injection(1..k, S)
  <2>1. ASSUME NEW i \in 1..k, NEW j \in 1..k, q[i] = q[j]  PROVE i = j
    <3>1. q[i] \in Int /\ q[j] \in Int
      <4>1. \A x \in S : x \in Int
        OBVIOUS
      <4>2. q[i] \in S /\ q[j] \in S
        BY <1>3
      <4>. QED  BY <4>1, <4>2
    <3>2. ~ i < j /\ ~ j < i
      BY <1>4, <2>1, <3>1
    <3>. QED  BY <3>2
  <2>. QED  BY <1>3, <2>1 DEF Injection, IsInjective
<1>6. q \in Surjection(1..k, S)
  <2>1. Cardinality(1..k) = k
    BY <1>1, FS_Interval
  <2>. QED  BY <1>1, <1>5, <2>1, FS_Injection
<1>7. \A x \in S : \E i \in 1..k : q[i] = x
  BY <1>6 DEF Surjection
<1>. QED  BY <1>1, <1>3, <1>4, <1>7 DEF q, Lists

\* What is inserted comes after every row of its table, in number and in time.
LEMMA InsertKeepsOrder ==
  ASSUME Counted, NumbersInUse, OrderInv,
         NEW h \in Hosts, NEW kind \in Kinds, NEW m \in Models, Insert(h, kind, m)
  PROVE  OrderInv'
<1>1. PICK w \in WritesTo(h) :
           /\ \A p \in Places : Len(rows[p]) \in Nat
           /\ \A p \in Places : p \in w.at =>
                /\ Len(rows'[p]) = Len(rows[p]) + 1
                /\ \A i \in 1..Len(rows[p]) : rows'[p][i] = rows[p][i]
                /\ rows'[p][Len(rows[p]) + 1].rec = Len(told) + 1
                /\ rows'[p][Len(rows[p]) + 1].at = clock
           /\ \A p \in Places : p \notin w.at => rows'[p] = rows[p]
  BY InsertEffect
<1>2. clock' = clock /\ clock \in Int /\ Len(told) \in Nat
  BY BoundsAssumption DEF Insert, Counted
<1>3. ASSUME NEW p \in Places, p \in w.at
      PROVE  /\ \A i \in 1..Len(rows'[p]) : rows'[p][i].at <= clock
             /\ \A i, j \in 1..Len(rows'[p]) : i < j =>
                  /\ rows'[p][i].rec < rows'[p][j].rec
                  /\ rows'[p][i].at <= rows'[p][j].at
  <2>1. PICK n \in Nat : n = Len(rows[p]) /\ Len(rows'[p]) = n + 1
    BY <1>1, <1>3
  <2>2. ASSUME NEW i \in 1..n
        PROVE  /\ rows'[p][i] = rows[p][i] /\ rows[p][i].at <= clock
               /\ rows[p][i].rec \in Nat /\ rows[p][i].rec <= Len(told)
    BY <1>1, <1>3, <2>1 DEF OrderInv, NumbersInUse
  <2>3. rows'[p][n + 1].rec = Len(told) + 1 /\ rows'[p][n + 1].at = clock
    BY <1>1, <1>3, <2>1
  <2>4. ASSUME NEW i \in 1..(n + 1)  PROVE rows'[p][i].at <= clock
    <3>1. i \in 1..n \/ i = n + 1
      OBVIOUS
    <3>. QED  BY <1>2, <2>2, <2>3, <3>1
  <2>5. ASSUME NEW i \in 1..(n + 1), NEW j \in 1..(n + 1), i < j
        PROVE  rows'[p][i].rec < rows'[p][j].rec /\ rows'[p][i].at <= rows'[p][j].at
    <3>1. i \in 1..n /\ (j \in 1..n \/ j = n + 1)
      BY <2>5
    <3>2. CASE j \in 1..n
      <4>1. rows[p][i].rec < rows[p][j].rec /\ rows[p][i].at <= rows[p][j].at
        BY <2>1, <2>5, <3>1, <3>2 DEF OrderInv
      <4>. QED  BY <2>2, <3>1, <3>2, <4>1
    <3>3. CASE j = n + 1
      <4>1. rows'[p][i] = rows[p][i] /\ rows[p][i].at <= clock
            /\ rows[p][i].rec < Len(told) + 1
        BY <1>2, <2>2, <3>1
      <4>. QED  BY <2>3, <3>3, <4>1
    <3>. QED  BY <3>1, <3>2, <3>3
  <2>. QED  BY <2>1, <2>4, <2>5
<1>4. ASSUME NEW p \in Places, p \notin w.at
      PROVE  /\ \A i \in 1..Len(rows'[p]) : rows'[p][i].at <= clock
             /\ \A i, j \in 1..Len(rows'[p]) : i < j =>
                  /\ rows'[p][i].rec < rows'[p][j].rec
                  /\ rows'[p][i].at <= rows'[p][j].at
  <2>1. rows'[p] = rows[p]
    BY <1>1, <1>4
  <2>. QED  BY <2>1 DEF OrderInv
<1>. QED  BY <1>2, <1>3, <1>4 DEF OrderInv

\* No other step touches a table, and the clock is never set back.
LEMMA OrderInductive ==
  Counted /\ NumbersInUse /\ OrderInv /\ [Next]_vars => OrderInv'
<1> SUFFICES ASSUME Counted, NumbersInUse, OrderInv, [Next]_vars PROVE OrderInv'
  OBVIOUS
<1>1. ASSUME UNCHANGED <<rows, clock>>  PROVE OrderInv'
  BY <1>1 DEF OrderInv
<1>2. ASSUME NEW h \in Hosts, NEW m \in Models, save_run(h, m) \/ save_autopilot_event(h, m)
      PROVE  OrderInv'
  <2>1. PICK kind \in Kinds : Insert(h, kind, m)
    BY <1>2 DEF save_run, save_autopilot_event, Kinds
  <2>. QED  BY <2>1, InsertKeepsOrder
<1>3. ASSUME NEW h \in Hosts, NEW m \in Models, NEW c \in Configs, save_tuned_config(h, m, c)
      PROVE  OrderInv'
  BY <1>1, <1>3 DEF save_tuned_config
<1>4. ASSUME NEW h \in Hosts, NEW m \in Models, DisableReads(h, m)
      PROVE  OrderInv'
  BY <1>1, <1>4 DEF DisableReads
<1>5. ASSUME NEW h \in Hosts, DisableLocks(h)
      PROVE  OrderInv'
  BY <1>1, <1>5 DEF DisableLocks
<1>6. ASSUME Toggle
      PROVE  OrderInv'
  BY <1>1, <1>6 DEF Toggle
<1>7. ASSUME Tick
      PROVE  OrderInv'
  <2>1. rows' = rows /\ clock' = clock + 1 /\ clock \in Int
    BY <1>7, BoundsAssumption DEF Tick, Counted
  <2>2. ASSUME NEW p \in Places, NEW i \in 1..Len(rows[p])  PROVE rows[p][i].at <= clock + 1
    <3>1. rows[p][i].at <= clock /\ rows[p][i].at \in Int
      <4>1. rows[p][i] \in Row
        BY ElementOfSeq DEF Counted
      <4>. QED  BY <4>1, BoundsAssumption DEF Row, OrderInv
    <3>. QED  BY <2>1, <3>1
  <2>. QED  BY <2>1, <2>2 DEF OrderInv
<1>8. ASSUME UNCHANGED vars
      PROVE  OrderInv'
  BY <1>1, <1>8 DEF vars
<1>. QED  BY <1>2, <1>3, <1>4, <1>5, <1>6, <1>7, <1>8 DEF Next

\* shown is what q lists of the table t, for the rows of m in this kind, up to the
\* limit: L rows out of K.
Shows(shown, t, kind, m, limit, L, K, q) ==
  /\ L \in Nat /\ K \in Nat /\ L <= K /\ (L = K \/ (limit >= 0 /\ L = limit))
  /\ q \in [1..K -> 1..Len(t)]
  /\ \A i, j \in 1..K : i < j => q[i] > q[j]
  /\ \A x \in 1..Len(t) : (\E i \in 1..K : q[i] = x) <=> t[x].kind = kind /\ t[x].model = m
  /\ shown = [i \in 1..L |-> t[q[i]]] /\ Len(shown) = L

\* What a SELECT returns: the rows asked for from the last to the first, all of
\* them or as many as the limit allows.
LEMMA SelectIsReversed ==
  ASSUME Counted, OrderInv, NEW p \in Places, NEW kind, NEW m, NEW limit \in Int
  PROVE  \E L, K, q : Shows(select(p, kind, m, limit), rows[p], kind, m, limit, L, K, q)
<1>1. PICK t : t = rows[p] /\ t \in Seq(Row)
  BY DEF Counted
<1>2. PICK n \in Nat : n = Len(t)
  BY <1>1
<1>. DEFINE ids == {i \in 1..Len(t) : t[i].kind = kind /\ t[i].model = m}
            q == InOrder(t, ids)
<1>3. ids \in SUBSET (1..n)
  BY <1>2
<1>4. \A i \in 1..n : t[i].at \in Nat
  <2> SUFFICES ASSUME NEW i \in 1..n PROVE t[i].at \in Nat
    OBVIOUS
  <2>1. t[i] \in Row
    BY <1>1, <1>2, ElementOfSeq
  <2>. QED  BY <2>1, BoundsAssumption DEF Row
<1>5. \A i, j \in 1..n : i < j => t[i].at <= t[j].at
  BY <1>1, <1>2 DEF OrderInv
<1>6. \A x \in 1..n : x \in ids <=> t[x].kind = kind /\ t[x].model = m
  BY <1>2
<1>. HIDE DEF ids
<1>7. Lists(q, Cardinality(ids), ids)
  BY <1>3, <1>4, <1>5, OrderIsReversed
<1>. HIDE DEF q
<1>8. PICK K : K = Cardinality(ids)
  OBVIOUS
<1>9. /\ K \in Nat /\ q \in [1..K -> ids] /\ q \in Seq(ids) /\ Len(q) = K
      /\ \A i, j \in 1..K : i < j => q[i] > q[j]
      /\ \A x \in ids : \E i \in 1..K : q[i] = x
  <2>1. /\ K \in Nat /\ q \in [1..K -> ids]
        /\ \A i, j \in 1..K : i < j => q[i] > q[j]
        /\ \A x \in ids : \E i \in 1..K : q[i] = x
    BY <1>7, <1>8 DEF Lists
  <2>2. q \in Seq(ids)
    BY <2>1, SeqDef
  <2>3. Len(q) = K
    BY <2>1, <2>2, LenProperties
  <2>. QED  BY <2>1, <2>2, <2>3
<1>. DEFINE whole  == limit < 0 \/ limit > Len(q)
            listed == IF whole THEN q ELSE SubSeq(q, 1, limit)
            L      == IF whole THEN K ELSE limit
<1>10. L \in Nat /\ L <= K /\ (L = K \/ (limit >= 0 /\ L = limit))
  BY <1>9
<1>11. Len(listed) = L /\ \A i \in 1..L : listed[i] = q[i]
  <2>1. CASE whole
    BY <1>9, <2>1
  <2>2. CASE ~whole
    <3>1. limit \in 0..Len(q)
      BY <1>9, <2>2
    <3>2. limit \in Int /\ limit - 1 + 1 = limit /\ \A i \in 1..limit : q[i] \in ids
      <4>1. \A i \in 1..limit : i \in 1..K
        BY <1>9, <3>1
      <4>. QED  BY <1>9, <4>1
    <3>3. /\ Len(SubSeq(q, 1, limit)) = IF 1 <= limit THEN limit - 1 + 1 ELSE 0
          /\ \A i \in 1..(limit - 1 + 1) : SubSeq(q, 1, limit)[i] = q[1 + i - 1]
      BY <3>2, SubSeqProperties
    <3>4. Len(SubSeq(q, 1, limit)) = limit
      BY <3>1, <3>3
    <3>5. \A i \in 1..limit : SubSeq(q, 1, limit)[i] = q[i]
      BY <3>2, <3>3
    <3>. QED  BY <2>2, <3>4, <3>5
  <2>. QED  BY <2>1, <2>2
<1>12. select(p, kind, m, limit) = [i \in 1..Len(listed) |-> t[listed[i]]]
  BY <1>1 DEF select, ids, q
<1>. HIDE DEF whole, listed, L
<1>13. select(p, kind, m, limit) = [i \in 1..L |-> t[q[i]]]
  BY <1>11, <1>12
<1>14. Len(select(p, kind, m, limit)) = L
  <2>1. select(p, kind, m, limit) \in Seq({t[q[i]] : i \in 1..L})
    BY <1>10, <1>13, SeqDef
  <2>2. DOMAIN select(p, kind, m, limit) = 1..L
    BY <1>13
  <2>. QED  BY <1>10, <2>1, <2>2, LenProperties
<1>15. q \in [1..K -> 1..n] /\ \A x \in 1..n : (\E i \in 1..K : q[i] = x) <=> x \in ids
  <2>1. q \in [1..K -> 1..n] /\ \A i \in 1..K : q[i] \in ids
    BY <1>3, <1>9
  <2>. QED  BY <1>9, <2>1
<1>16. \A x \in 1..n : (\E i \in 1..K : q[i] = x) <=> t[x].kind = kind /\ t[x].model = m
  BY <1>6, <1>15
<1>17. Shows(select(p, kind, m, limit), t, kind, m, limit, L, K, q)
  BY <1>2, <1>9, <1>10, <1>13, <1>14, <1>15, <1>16 DEF Shows
<1>. QED  BY <1>1, <1>17

\* What HistoryIsNewestFirst says of one answer.
NewestFirst(shown, all, seen, limit) ==
  /\ \A i, j \in 1..Len(shown) : i < j => shown[i].rec > shown[j].rec
  /\ seen \subseteq all
  /\ \A r \in all \ seen : \A s \in seen : s > r
  /\ seen = all \/ (limit >= 0 /\ Len(shown) = limit)

\* The records of m in the table of this kind at p.
Asked(p, kind, m) ==
  {r \in 1..Len(told) : \E i \in 1..Len(rows[p]) :
     /\ rows[p][i].rec = r
     /\ rows[p][i].kind = kind /\ rows[p][i].model = m}

\* One history: what is shown descends, is asked for, and misses only older rows.
LEMMA OneHistory ==
  ASSUME Counted, NumbersInUse, OrderInv, NEW p \in Places, NEW kind \in Kinds,
         NEW m \in Models, NEW limit \in Int, NEW shown, NEW all, NEW seen,
         shown = select(p, kind, m, limit), all = Asked(p, kind, m),
         seen = {shown[i].rec : i \in 1..Len(shown)}
  PROVE  NewestFirst(shown, all, seen, limit)
<1>1. PICK t : t = rows[p] /\ t \in Seq(Row)
  BY DEF Counted
<1>2. PICK L, K, q : Shows(shown, t, kind, m, limit, L, K, q)
  BY <1>1, SelectIsReversed
<1>3. /\ L \in Nat /\ K \in Nat /\ L <= K /\ (L = K \/ (limit >= 0 /\ L = limit))
      /\ q \in [1..K -> 1..Len(t)]
      /\ \A i, j \in 1..K : i < j => q[i] > q[j]
      /\ \A x \in 1..Len(t) : (\E i \in 1..K : q[i] = x) <=> t[x].kind = kind /\ t[x].model = m
      /\ shown = [i \in 1..L |-> t[q[i]]] /\ Len(shown) = L
  BY <1>2 DEF Shows
<1>4. PICK n \in Nat : n = Len(t)
  BY <1>1
<1>5. Len(told) \in Nat
  BY DEF Counted
<1>6. ASSUME NEW x \in 1..n
      PROVE  t[x].rec \in 1..Len(told)
  <2>1. t[x] \in Row
    BY <1>1, <1>4, ElementOfSeq
  <2>2. t[x].rec \in 1..MaxRows
    BY <2>1 DEF Row
  <2>3. t[x].rec \in Nat /\ t[x].rec <= Len(told)
    BY <1>1, <1>4 DEF NumbersInUse
  <2>. QED  BY <1>5, <2>2, <2>3, BoundsAssumption
<1>7. \A x, y \in 1..n : x < y => t[x].rec < t[y].rec
  BY <1>1, <1>4 DEF OrderInv
<1>8. ASSUME NEW a \in 1..K  PROVE q[a] \in 1..n /\ q[a] \in Int
  <2>1. q[a] \in 1..n
    BY <1>3, <1>4
  <2>. QED  BY <2>1
<1>9. ASSUME NEW a \in 1..K, NEW b \in 1..K, a < b
      PROVE  t[q[a]].rec > t[q[b]].rec
  <2>1. q[a] \in 1..n /\ q[b] \in 1..n /\ q[b] < q[a]
    BY <1>3, <1>8, <1>9
  <2>2. t[q[b]].rec < t[q[a]].rec
    BY <1>7, <2>1
  <2>. QED  BY <1>5, <1>6, <2>1, <2>2
<1>10. ASSUME NEW i \in 1..L  PROVE i \in 1..K /\ shown[i] = t[q[i]]
  BY <1>3
<1>11. ASSUME NEW i \in 1..Len(shown), NEW j \in 1..Len(shown), i < j
       PROVE  shown[i].rec > shown[j].rec
  BY <1>3, <1>9, <1>10, <1>11
<1>12. ASSUME NEW r \in all
       PROVE  \E a \in 1..K : t[q[a]].rec = r
  <2>1. PICK x \in 1..n : t[x].rec = r /\ t[x].kind = kind /\ t[x].model = m
    BY <1>1, <1>4 DEF Asked
  <2>2. PICK a \in 1..K : q[a] = x
    BY <1>3, <1>4, <2>1
  <2>. QED  BY <2>1, <2>2
<1>13. ASSUME NEW s \in seen
       PROVE  s \in all /\ \E b \in 1..L : t[q[b]].rec = s
  <2>1. PICK b \in 1..L : t[q[b]].rec = s
    BY <1>3, <1>10
  <2>2. b \in 1..K /\ q[b] \in 1..n
    BY <1>8, <1>10
  <2>3. t[q[b]].kind = kind /\ t[q[b]].model = m
    BY <1>3, <1>4, <2>2
  <2>4. t[q[b]].rec \in 1..Len(told)
    BY <1>6, <2>2
  <2>5. s \in all
    BY <1>1, <1>4, <2>1, <2>2, <2>3, <2>4 DEF Asked
  <2>. QED  BY <2>1, <2>5
<1>14. ASSUME NEW a \in 1..L  PROVE t[q[a]].rec \in seen
  BY <1>3, <1>10
<1>15. ASSUME NEW r \in all \ seen, NEW s \in seen
       PROVE  s > r
  <2>1. PICK a \in 1..K : t[q[a]].rec = r
    BY <1>12
  <2>2. PICK b \in 1..L : t[q[b]].rec = s
    BY <1>13
  <2>3. a \notin 1..L
    BY <1>14, <2>1
  <2>4. b \in 1..K /\ b < a
    BY <1>3, <1>10, <2>3
  <2>5. t[q[b]].rec > t[q[a]].rec
    BY <1>9, <2>4
  <2>. QED  BY <2>1, <2>2, <2>5
<1>16. CASE L = K
  <2>1. \A r \in all : r \in seen
    BY <1>12, <1>14, <1>16
  <2>. QED  BY <1>11, <1>13, <1>15, <2>1 DEF NewestFirst
<1>17. CASE limit >= 0 /\ L = limit
  BY <1>3, <1>11, <1>13, <1>15, <1>17 DEF NewestFirst
<1>. QED  BY <1>3, <1>16, <1>17

\* A well-ordered state shows a history that is the newest first.
LEMMA OrderImpliesHistory ==
  Counted /\ NumbersInUse /\ OrderInv => HistoryIsNewestFirst
<1>1. ASSUME Counted, NumbersInUse, OrderInv, NEW h \in Hosts, NEW kind \in Kinds,
             NEW m \in Models, NEW limit \in -1..2
      PROVE  LET shown == IF kind = "run" THEN list_runs(h, m, limit)
                                          ELSE list_autopilot_events(h, m, limit)
                 all   == {r \in 1..Len(told) :
                             \E p \in {ListedFrom(h, limit)} : \E i \in 1..Len(rows[p]) :
                               /\ rows[p][i].rec = r
                               /\ rows[p][i].kind = kind /\ rows[p][i].model = m}
                 seen  == {shown[i].rec : i \in 1..Len(shown)}
             IN  /\ \A i, j \in 1..Len(shown) : i < j => shown[i].rec > shown[j].rec
                 /\ seen \subseteq all
                 /\ \A r \in all \ seen : \A s \in seen : s > r
                 /\ seen = all \/ (limit >= 0 /\ Len(shown) = limit)
  <2>. DEFINE p     == ListedFrom(h, limit)
              shown == IF kind = "run" THEN list_runs(h, m, limit)
                                       ELSE list_autopilot_events(h, m, limit)
              all   == {r \in 1..Len(told) :
                          \E x \in {p} : \E i \in 1..Len(rows[x]) :
                            /\ rows[x][i].rec = r
                            /\ rows[x][i].kind = kind /\ rows[x][i].model = m}
              seen  == {shown[i].rec : i \in 1..Len(shown)}
  <2>1. p \in Places /\ limit \in Int
    BY DEF ListedFrom, ReadsFrom, Places
  <2>2. shown = select(p, kind, m, limit)
    BY DEF Kinds, list_runs, list_autopilot_events
  <2>. HIDE DEF p
  <2>3. all = Asked(p, kind, m)
    BY DEF Asked
  <2>4. seen = {shown[i].rec : i \in 1..Len(shown)}
    OBVIOUS
  <2>. HIDE DEF shown, all, seen
  <2>5. NewestFirst(shown, all, seen, limit)
    BY <1>1, <2>1, <2>2, <2>3, <2>4, OneHistory
  <2>. QED  BY <2>5 DEF p, shown, all, seen, NewestFirst
<1>. QED  BY <1>1 DEF HistoryIsNewestFirst

\* Nothing is listed yet.
LEMMA OrderInit == Init => OrderInv
BY DEF Init, OrderInv

\* `history` and `autopilot status` list a store's rows in the reverse of the
\* order in which they were saved, the newest ones that the limit allows, however
\* many rows share a second and whatever became of MySQL meanwhile.
THEOREM HistoryIsInOrder == Spec => []HistoryIsNewestFirst
BY RecordsInit, RecordsInductive, OrderInit, OrderInductive, OrderImpliesHistory,
   PTL DEF Spec
=============================================================================
