--------------------------- MODULE SqlTunedConfigs --------------------------
(***************************************************************************)
(* The tuned_configs table behind SqliteStore and MySqlStore.  A save is   *)
(* an INSERT (no row is ever replaced or deleted), created_at is the       *)
(* server's clock in whole seconds, and the current row of a model is the  *)
(* first one ORDER BY created_at DESC, id DESC.  AUTOINCREMENT ids grow in *)
(* insertion order, so a row's index in the sequence stands for its id.    *)
(* Each operation is one transaction on its own connection and is atomic.  *)
(***************************************************************************)
EXTENDS Integers, Sequences

CONSTANTS Models, Configs,
          MaxRows,     \* bound: rows inserted
          MaxClock     \* bound: value of the clock

ASSUME BoundsAssumption == MaxRows \in Nat /\ MaxClock \in Nat

VARIABLES table,       \* the rows, in id order
          clock        \* datetime('now') / CURRENT_TIMESTAMP, in seconds

vars == <<table, clock>>

Row == [model : Models, config : Configs, locked : BOOLEAN, at : Nat]

TypeOK == /\ table \in Seq(Row)
          /\ clock \in Nat

Init == table = << >> /\ clock = 0

-----------------------------------------------------------------------------
RowsOf(m) == {i \in 1..Len(table) : table[i].model = m}

\* Mutant: the id tie-break the wrong way round, so that of two rows saved
\* within the same second the older one is current.
AtLeastAsRecentNoTieBreak(i, j) ==
  \/ table[j].at < table[i].at
  \/ table[j].at = table[i].at /\ i <= j

\* Row j comes no later than row i in ORDER BY created_at DESC, id DESC
\* read backwards: i is at least as recent as j.
AtLeastAsRecent(i, j) == \/ table[j].at < table[i].at
                         \/ table[j].at = table[i].at /\ j <= i

IsLatest(m, i) == /\ i \in RowsOf(m)
                  /\ \A j \in RowsOf(m) : AtLeastAsRecent(i, j)

LatestId(m) == CHOOSE i \in RowsOf(m) : IsLatest(m, i)

\* What get_tuned_config returns: None, or the model's latest row.
get_tuned_config(m) ==
  IF RowsOf(m) = {}
  THEN [found |-> FALSE]
  ELSE [found  |-> TRUE,
        config |-> table[LatestId(m)].config,
        locked |-> table[LatestId(m)].locked]

\* Mutant: created_at left a second behind.
save_tuned_configBehind(m, c, l) ==
  /\ Len(table) < MaxRows
  /\ table' = Append(table, [model |-> m, config |-> c, locked |-> l, at |-> clock - 1])
  /\ UNCHANGED clock

save_tuned_config(m, c, l) ==
  /\ Len(table) < MaxRows
  /\ table' = Append(table, [model |-> m, config |-> c, locked |-> l, at |-> clock])
  /\ UNCHANGED clock

\* Mutants: the UPDATE without its WHERE, and without its
\* "AND id = (SELECT ... LIMIT 1)".
lock_configEveryModel(m) ==
  /\ table' = [i \in 1..Len(table) |-> [table[i] EXCEPT !.locked = TRUE]]
  /\ UNCHANGED clock

lock_configWholeModel(m) ==
  /\ table' = [i \in 1..Len(table) |->
                 IF table[i].model = m THEN [table[i] EXCEPT !.locked = TRUE]
                                       ELSE table[i]]
  /\ UNCHANGED clock

lock_config(m) ==
  /\ table' = IF RowsOf(m) = {}
              THEN table
              ELSE [table EXCEPT ![LatestId(m)].locked = TRUE]
  /\ UNCHANGED clock

Tick == /\ clock < MaxClock
        /\ clock' = clock + 1
        /\ UNCHANGED table

Next == \/ \E m \in Models :
             \/ \E c \in Configs, l \in BOOLEAN : save_tuned_config(m, c, l)
             \/ lock_config(m)
        \/ Tick

\* The clock never goes backwards: a wall clock set back would make an older row
\* the current one.
Spec == Init /\ [][Next]_vars

-----------------------------------------------------------------------------
\* A part of the inductive invariant: created_at follows the ids, and is never ahead
\* of the clock.
TimesFollowIds ==
  /\ \A i, j \in 1..Len(table) : i < j => table[i].at <= table[j].at
  /\ \A i \in 1..Len(table) : table[i].at <= clock

\* ORDER BY ... LIMIT 1 has an answer for every model that has rows.
LatestExists == \A m \in Models : RowsOf(m) # {} => \E i \in RowsOf(m) : IsLatest(m, i)

IInv == TypeOK /\ TimesFollowIds /\ LatestExists

\* The table, read through get_tuned_config, is the register per model that
\* storage/base.py promises: saving makes the saved config the current one
\* ("the current (most recent) tuned config"), locking marks that one, and
\* neither disturbs another model.
Api == INSTANCE TunedConfigApi
         WITH cur <- [m \in Models |-> get_tuned_config(m)]

ImplementsApi == Api!Spec

\* "The current (most recent) tuned config": the row a save has just inserted
\* is the one the next get_tuned_config returns.  The refinement alone does not
\* say so, since a save that changes nothing for its readers is a stutter there.
SaveBecomesCurrent ==
  [][\A m \in Models :
       Len(table') > Len(table) /\ table'[Len(table')].model = m =>
         get_tuned_config(m)' = [found  |-> TRUE,
                                 config |-> table'[Len(table')].config,
                                 locked |-> table'[Len(table')].locked]]_vars

\* Saved configs are history: lock_config's UPDATE touches the model's latest
\* row and no other (its "AND id = (SELECT ... LIMIT 1)"), sets nothing but
\* is_locked, and no operation removes or rewrites a row.
OnlyLatestRowIsLocked ==
  [][/\ Len(table') >= Len(table)
     /\ \A i \in 1..Len(table) :
          \/ table'[i] = table[i]
          \/ /\ IsLatest(table[i].model, i)
             /\ table'[i] = [table[i] EXCEPT !.locked = TRUE]]_vars

=============================================================================
