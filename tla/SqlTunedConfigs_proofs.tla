----------------------- MODULE SqlTunedConfigs_proofs -----------------------
(***************************************************************************)
(* The table is the register of TunedConfigApi for every set of models and *)
(* configs and every bound.  The inductive invariant IInv carries          *)
(* LatestExists, that each model's rows have a latest one, from step to    *)
(* step: the row a save inserts is the latest of its model because no row  *)
(* is ahead of the clock.                                                  *)
(***************************************************************************)
EXTENDS SqlTunedConfigs, SequenceTheorems, TLAPS

\* The rows and their fields have their types.
LEMMA RowTypes ==
  ASSUME TypeOK
  PROVE  /\ Len(table) \in Nat
         /\ \A i \in 1..Len(table) :
              /\ table[i] \in Row
              /\ table[i].at \in Nat /\ table[i].model \in Models
              /\ table[i].config \in Configs /\ table[i].locked \in BOOLEAN
<1>1. table \in Seq(Row)
  BY DEF TypeOK
<1>2. \A i \in 1..Len(table) : table[i] \in Row
  BY <1>1
<1> QED BY <1>1, <1>2 DEF Row

\* Of two rows of a model only one can be the latest.
LEMMA LatestIsUnique ==
  ASSUME TypeOK, NEW m, NEW i, NEW j, IsLatest(m, i), IsLatest(m, j)
  PROVE  i = j
<1>1. i \in 1..Len(table) /\ j \in 1..Len(table)
  BY DEF IsLatest, RowsOf
<1>2. table[i].at \in Nat /\ table[j].at \in Nat
  BY <1>1, RowTypes
<1>3. AtLeastAsRecent(i, j) /\ AtLeastAsRecent(j, i)
  BY DEF IsLatest
<1> QED BY <1>1, <1>2, <1>3 DEF AtLeastAsRecent

\* Hence LatestId is that row.
LEMMA LatestIdIs ==
  ASSUME TypeOK, NEW m, NEW i, IsLatest(m, i)
  PROVE  LatestId(m) = i
<1>1. \E k \in RowsOf(m) : IsLatest(m, k)
  BY DEF IsLatest
<1>2. IsLatest(m, LatestId(m))
  BY <1>1 DEF LatestId
<1> QED BY <1>2, LatestIsUnique

\* A save inserts one row, the latest of its model, and leaves the other
\* models' rows and their latest ones alone.
SaveEffect(m, c, l) ==
  /\ Len(table') = Len(table) + 1
  /\ \A i \in 1..Len(table) : table'[i] = table[i]
  /\ table'[Len(table')] = [model |-> m, config |-> c, locked |-> l, at |-> clock]
  /\ IsLatest(m, Len(table))'
  /\ \A n \in Models \ {m} : /\ RowsOf(n)' = RowsOf(n)
                             /\ \A i : IsLatest(n, i)' <=> IsLatest(n, i)

\* Every save has that effect.
LEMMA SaveLatest ==
  ASSUME IInv, NEW m \in Models, NEW c \in Configs, NEW l \in BOOLEAN,
         save_tuned_config(m, c, l)
  PROVE  SaveEffect(m, c, l)
<1> DEFINE r == [model |-> m, config |-> c, locked |-> l, at |-> clock]
<1>0. TypeOK /\ TimesFollowIds /\ table \in Seq(Row) /\ clock \in Nat
  BY DEF IInv, TypeOK
<1>1. /\ clock' = clock
      /\ Len(table') = Len(table) + 1
      /\ Len(table) \in Nat
      /\ \A i \in 1..Len(table) : table'[i] = table[i]
      /\ table'[Len(table')] = r
  BY <1>0 DEF save_tuned_config
<1>2. IsLatest(m, Len(table))'
  <2>1. Len(table') \in RowsOf(m)'
    BY <1>1 DEF RowsOf
  <2>2. ASSUME NEW j \in RowsOf(m)'
        PROVE  AtLeastAsRecent(Len(table), j)'
    <3>1. j \in 1..Len(table')
      BY DEF RowsOf
    <3>2. CASE j = Len(table')
      BY <1>0, <1>1, <3>2 DEF AtLeastAsRecent
    <3>3. CASE j \in 1..Len(table)
      <4>1. table[j].at <= clock /\ table[j].at \in Nat
        BY <3>3, <1>0, RowTypes DEF TimesFollowIds
      <4> QED BY <4>1, <1>0, <1>1, <3>3 DEF AtLeastAsRecent
    <3> QED BY <1>1, <3>1, <3>2, <3>3
  <2> QED BY <2>1, <2>2 DEF IsLatest
<1>3. ASSUME NEW n \in Models \ {m}
      PROVE  /\ RowsOf(n)' = RowsOf(n)
             /\ \A i : IsLatest(n, i)' <=> IsLatest(n, i)
  <2>1. RowsOf(n)' = RowsOf(n)
    <3>1. 1..Len(table') = 1..Len(table) \cup {Len(table')}
      BY <1>1
    <3> QED BY <1>1, <3>1 DEF RowsOf
  <2>2. \A i, j \in RowsOf(n) : AtLeastAsRecent(i, j)' <=> AtLeastAsRecent(i, j)
    BY <1>1 DEF AtLeastAsRecent, RowsOf
  <2> QED BY <2>1, <2>2 DEF IsLatest
<1> QED BY <1>1, <1>2, <1>3 DEF SaveEffect

\* A lock sets is_locked of one row, the latest of its model, and changes no
\* model's rows or latest row; without rows it does nothing.
LEMMA LockLatest ==
  ASSUME IInv, NEW m \in Models, lock_config(m)
  PROVE  /\ Len(table') = Len(table) /\ table' \in Seq(Row) /\ clock' = clock
         /\ \A i \in 1..Len(table) :
              IF RowsOf(m) # {} /\ i = LatestId(m)
              THEN IsLatest(m, i) /\ table'[i] = [table[i] EXCEPT !.locked = TRUE]
              ELSE table'[i] = table[i]
         /\ \A n \in Models : /\ RowsOf(n)' = RowsOf(n)
                              /\ \A i : IsLatest(n, i)' <=> IsLatest(n, i)
<1>0. TypeOK /\ LatestExists /\ table \in Seq(Row)
  BY DEF IInv, TypeOK
<1>1. /\ Len(table') = Len(table) /\ table' \in Seq(Row) /\ clock' = clock
      /\ \A i \in 1..Len(table) :
           IF RowsOf(m) # {} /\ i = LatestId(m)
           THEN IsLatest(m, i) /\ table'[i] = [table[i] EXCEPT !.locked = TRUE]
           ELSE table'[i] = table[i]
  <2>1. CASE RowsOf(m) = {}
    BY <1>0, <2>1 DEF lock_config
  <2>2. CASE RowsOf(m) # {}
    <3> DEFINE k == LatestId(m)
    <3>1. IsLatest(m, k) /\ k \in 1..Len(table)
      BY <1>0, <2>2 DEF LatestExists, LatestId, IsLatest, RowsOf
    <3>2. clock' = clock /\ table' = [table EXCEPT ![k] = [table[k] EXCEPT !.locked = TRUE]]
      BY <2>2 DEF lock_config
    <3>3. table[k] \in Row /\ [table[k] EXCEPT !.locked = TRUE] \in Row
      BY <3>1, <1>0, RowTypes DEF Row
    <3> HIDE DEF k
    <3>4. table' \in Seq(Row) /\ Len(table') = Len(table)
      BY <3>1, <3>2, <3>3, <1>0, ExceptSeq
    <3>5. \A i \in 1..Len(table) :
            table'[i] = IF i = k THEN [table[k] EXCEPT !.locked = TRUE] ELSE table[i]
      BY <3>1, <3>2, <1>0
    <3> QED BY <3>1, <3>2, <3>4, <3>5, <2>2 DEF k
  <2> QED BY <2>1, <2>2
<1>2. \A i \in 1..Len(table) : table'[i].at = table[i].at /\ table'[i].model = table[i].model
  BY <1>0, <1>1, RowTypes DEF Row
<1>3. ASSUME NEW n \in Models
      PROVE  /\ RowsOf(n)' = RowsOf(n)
             /\ \A i : IsLatest(n, i)' <=> IsLatest(n, i)
  <2>1. RowsOf(n)' = RowsOf(n)
    BY <1>1, <1>2 DEF RowsOf
  <2>2. \A i, j \in RowsOf(n) : AtLeastAsRecent(i, j)' <=> AtLeastAsRecent(i, j)
    BY <1>2 DEF AtLeastAsRecent, RowsOf
  <2> QED BY <2>1, <2>2 DEF IsLatest
<1> QED BY <1>1, <1>3

-----------------------------------------------------------------------------
\* The inductive invariant holds of an empty table.
LEMMA InitIInv == Init => IInv
BY DEF Init, IInv, TypeOK, TimesFollowIds, LatestExists, RowsOf

\* A save preserves the inductive invariant: the new row is stamped with the
\* clock, behind which no row is, and becomes its model's latest.
LEMMA SaveIInv ==
  ASSUME IInv, NEW m \in Models, NEW c \in Configs, NEW l \in BOOLEAN,
         save_tuned_config(m, c, l)
  PROVE  IInv'
<1>0. TypeOK /\ TimesFollowIds /\ LatestExists /\ table \in Seq(Row) /\ clock \in Nat
  BY DEF IInv, TypeOK
<1>s. SaveEffect(m, c, l) /\ clock' = clock /\ Len(table) \in Nat
  BY <1>0, SaveLatest DEF save_tuned_config
<1>1. TypeOK'
  BY <1>0 DEF save_tuned_config, TypeOK, Row
<1>2. TimesFollowIds'
  <2>1. \A i \in 1..Len(table) : table[i].at <= clock /\ table[i].at \in Nat
    BY <1>0, RowTypes DEF TimesFollowIds
  <2>2. \A i \in 1..Len(table') : table'[i].at <= clock
    BY <1>0, <1>s, <2>1 DEF SaveEffect
  <2>3. ASSUME NEW i \in 1..Len(table'), NEW j \in 1..Len(table'), i < j
        PROVE  table'[i].at <= table'[j].at
    <3>1. CASE j \in 1..Len(table)
      <4>1. table'[i] = table[i] /\ table'[j] = table[j] /\ i \in 1..Len(table)
        BY <1>s, <2>3, <3>1 DEF SaveEffect
      <4> QED BY <1>0, <2>3, <3>1, <4>1 DEF TimesFollowIds
    <3>2. CASE j = Len(table')
      <4>1. table'[j].at = clock
        BY <1>s, <3>2 DEF SaveEffect
      <4> QED BY <2>2, <4>1
    <3> QED BY <1>s, <3>1, <3>2 DEF SaveEffect
  <2> QED BY <1>s, <2>2, <2>3 DEF TimesFollowIds
<1>3. LatestExists'
  <2> SUFFICES ASSUME NEW n \in Models, RowsOf(n)' # {}
               PROVE  (\E i \in RowsOf(n) : IsLatest(n, i))'
    BY DEF LatestExists
  <2>1. CASE n = m
    <3>1. PICK k : k = Len(table')
      OBVIOUS
    <3>2. k \in RowsOf(m)' /\ \A j \in RowsOf(m)' : AtLeastAsRecent(k, j)'
      BY <3>1, <1>s DEF SaveEffect, IsLatest, AtLeastAsRecent
    <3> QED BY <2>1, <3>2 DEF IsLatest
  <2>2. CASE n # m
    BY <1>0, <1>s, <2>2 DEF SaveEffect, LatestExists
  <2> QED BY <2>1, <2>2
<1> QED BY <1>1, <1>2, <1>3 DEF IInv

\* A lock preserves the inductive invariant: it changes no time and no model.
LEMMA LockIInv ==
  ASSUME IInv, NEW m \in Models, lock_config(m)
  PROVE  IInv'
<1>0. TypeOK /\ TimesFollowIds /\ LatestExists /\ clock \in Nat
  BY DEF IInv, TypeOK
<1>1. TypeOK'
  BY <1>0, LockLatest DEF TypeOK
<1>2. TimesFollowIds'
  <2>1. \A i \in 1..Len(table) : table'[i].at = table[i].at
    BY <1>0, RowTypes, LockLatest DEF Row
  <2> QED BY <1>0, <2>1, LockLatest DEF TimesFollowIds
<1>3. LatestExists'
  BY <1>0, LockLatest DEF LatestExists
<1> QED BY <1>1, <1>2, <1>3 DEF IInv

\* What is latest depends on the table alone: a step that leaves the table alone
\* leaves every model's latest row where it was.
LEMMA SameTable == ASSUME table' = table, LatestExists PROVE LatestExists'
<1>1. \A m \in Models : RowsOf(m)' = RowsOf(m)
  BY DEF RowsOf
<1>2. \A i, j : AtLeastAsRecent(i, j)' <=> AtLeastAsRecent(i, j)
  BY DEF AtLeastAsRecent
<1>3. \A m \in Models : \A i : IsLatest(m, i)' <=> IsLatest(m, i)
  BY <1>1, <1>2 DEF IsLatest
<1> QED BY <1>1, <1>3, Zenon DEF LatestExists

\* The clock's tick preserves the inductive invariant.
LEMMA TickIInv == IInv /\ Tick => IInv'
<1> SUFFICES ASSUME IInv, Tick PROVE IInv'
  OBVIOUS
<1>0. TypeOK /\ TimesFollowIds /\ LatestExists /\ clock' = clock + 1 /\ table' = table
  BY DEF IInv, Tick
<1>1. TypeOK'
  BY <1>0 DEF TypeOK
<1>2. TimesFollowIds'
  BY <1>0, RowTypes DEF TimesFollowIds, TypeOK
<1>3. LatestExists'
  BY <1>0, SameTable
<1> QED BY <1>1, <1>2, <1>3 DEF IInv

\* The inductive invariant: types, timestamps in the order of the ids and none
\* ahead of the clock, and a latest row for every model with rows.
THEOREM Inductive == Spec => []IInv
<1>1. IInv /\ [Next]_vars => IInv'
  <2> SUFFICES ASSUME IInv, [Next]_vars PROVE IInv'
    OBVIOUS
  <2>1. CASE Next
    BY <2>1, SaveIInv, LockIInv, TickIInv DEF Next
  <2>2. CASE UNCHANGED vars
    BY <2>2, SameTable DEF vars, IInv, TypeOK, TimesFollowIds
  <2> QED BY <2>1, <2>2
<1> QED BY InitIInv, <1>1, PTL DEF Spec

\* The type invariant holds for every set of models and configs.
THEOREM TypeCorrect == Spec => []TypeOK
BY Inductive, PTL DEF IInv

-----------------------------------------------------------------------------
\* get_tuned_config of a model whose latest row is known.
LEMMA GetLatest ==
  ASSUME TypeOK, NEW m, NEW i, IsLatest(m, i)
  PROVE  get_tuned_config(m) = [found  |-> TRUE,
                                config |-> table[i].config,
                                locked |-> table[i].locked]
<1>1. RowsOf(m) # {} /\ LatestId(m) = i
  BY LatestIdIs DEF IsLatest
<1> QED BY <1>1 DEF get_tuned_config

\* get_tuned_config of a model without rows is None.
LEMMA GetNone ==
  ASSUME NEW m, RowsOf(m) = {}
  PROVE  get_tuned_config(m) = [found |-> FALSE]
BY DEF get_tuned_config

\* The same two facts of the next state.
LEMMA GetLatestNext ==
  ASSUME TypeOK', NEW m, NEW i, IsLatest(m, i)'
  PROVE  get_tuned_config(m)' = [found  |-> TRUE,
                                 config |-> table'[i].config,
                                 locked |-> table'[i].locked]
<1>1. \A j : IsLatest(m, j)' => j = i
  <2> SUFFICES ASSUME NEW j, IsLatest(m, j)' PROVE j = i
    OBVIOUS
  <2>1. i \in 1..Len(table') /\ j \in 1..Len(table')
    BY DEF IsLatest, RowsOf
  <2>2. table' \in Seq(Row)
    BY DEF TypeOK
  <2>3. table'[i].at \in Nat /\ table'[j].at \in Nat
    <3>1. table'[i] \in Row /\ table'[j] \in Row
      BY <2>1, <2>2
    <3> QED BY <3>1 DEF Row
  <2>4. AtLeastAsRecent(i, j)' /\ AtLeastAsRecent(j, i)'
    BY DEF IsLatest
  <2> QED BY <2>1, <2>3, <2>4 DEF AtLeastAsRecent
<1>2. RowsOf(m)' # {} /\ LatestId(m)' = i
  BY <1>1 DEF LatestId, IsLatest
<1> QED BY <1>2 DEF get_tuned_config

\* What save_tuned_config stored is what the next get_tuned_config returns.
LEMMA SaveReadBack ==
  ASSUME IInv, NEW m \in Models, NEW c \in Configs, NEW l \in BOOLEAN,
         save_tuned_config(m, c, l)
  PROVE  get_tuned_config(m)' = [found |-> TRUE, config |-> c, locked |-> l]
<1>1. TypeOK'
  BY SaveIInv DEF IInv
<1>2. SaveEffect(m, c, l)
  BY SaveLatest
<1>3. get_tuned_config(m)' = [found  |-> TRUE,
                              config |-> table'[Len(table')].config,
                              locked |-> table'[Len(table')].locked]
  <2>0. PICK k : k = Len(table')
    OBVIOUS
  <2>1. IsLatest(m, k)'
    BY <1>2, <2>0 DEF SaveEffect, IsLatest, AtLeastAsRecent
  <2> QED BY <1>1, <2>0, <2>1, GetLatestNext
<1> QED BY <1>2, <1>3 DEF SaveEffect

\* A step that leaves a model's latest row as it was leaves what is read of it.
LEMMA SameRowsReadTheSame ==
  ASSUME IInv, TypeOK', NEW n \in Models,
         RowsOf(n)' = RowsOf(n),
         \A i : IsLatest(n, i)' <=> IsLatest(n, i),
         \A i \in RowsOf(n) : table'[i] = table[i]
  PROVE  get_tuned_config(n)' = get_tuned_config(n)
<1>1. CASE RowsOf(n) = {}
  BY <1>1 DEF get_tuned_config
<1>2. CASE RowsOf(n) # {}
  <2>1. PICK i \in RowsOf(n) : IsLatest(n, i)
    BY <1>2 DEF IInv, LatestExists
  <2>2. get_tuned_config(n) = [found  |-> TRUE,
                               config |-> table[i].config,
                               locked |-> table[i].locked]
    BY <2>1, GetLatest DEF IInv
  <2>3. get_tuned_config(n)' = [found  |-> TRUE,
                                config |-> table'[i].config,
                                locked |-> table'[i].locked]
    BY <2>1, GetLatestNext
  <2> QED BY <2>1, <2>2, <2>3
<1> QED BY <1>1, <1>2

\* A save of one model leaves what is read of every other as it was.
LEMMA SaveKeepsOthers ==
  ASSUME IInv, NEW m \in Models, NEW c \in Configs, NEW l \in BOOLEAN,
         save_tuned_config(m, c, l), NEW n \in Models \ {m}
  PROVE  get_tuned_config(n)' = get_tuned_config(n)
<1>1. TypeOK'
  BY SaveIInv DEF IInv
<1>2. SaveEffect(m, c, l)
  BY SaveLatest
<1>3. \A i \in RowsOf(n) : table'[i] = table[i]
  BY <1>2 DEF SaveEffect, RowsOf
<1>4. RowsOf(n)' = RowsOf(n) /\ \A i : IsLatest(n, i)' <=> IsLatest(n, i)
  BY <1>2 DEF SaveEffect
<1> QED BY <1>1, <1>3, <1>4, SameRowsReadTheSame

\* What a lock does to what is read: the model's own config is locked, nothing
\* else changes.
LEMMA LockReadBack ==
  ASSUME IInv, NEW m \in Models, lock_config(m), NEW n \in Models
  PROVE  get_tuned_config(n)' =
           IF n = m /\ get_tuned_config(m).found
           THEN [found  |-> TRUE,
                 config |-> get_tuned_config(m).config,
                 locked |-> TRUE]
           ELSE get_tuned_config(n)
<1>0. TypeOK /\ LatestExists /\ TypeOK'
  BY LockIInv DEF IInv
<1>1. /\ RowsOf(n)' = RowsOf(n)
      /\ \A i : IsLatest(n, i)' <=> IsLatest(n, i)
      /\ \A i \in 1..Len(table) :
           IF RowsOf(m) # {} /\ i = LatestId(m)
           THEN IsLatest(m, i) /\ table'[i] = [table[i] EXCEPT !.locked = TRUE]
           ELSE table'[i] = table[i]
  BY LockLatest
<1>2. CASE n = m /\ RowsOf(m) # {}
  <2>1. PICK i \in RowsOf(m) : IsLatest(m, i)
    BY <1>0, <1>2 DEF LatestExists
  <2>2. get_tuned_config(m) = [found  |-> TRUE,
                               config |-> table[i].config,
                               locked |-> table[i].locked]
    BY <1>0, <2>1, GetLatest
  <2>3. get_tuned_config(m)' = [found  |-> TRUE,
                                config |-> table'[i].config,
                                locked |-> table'[i].locked]
    BY <1>0, <1>1, <1>2, <2>1, GetLatestNext
  <2>4. i \in 1..Len(table) /\ i = LatestId(m)
    BY <1>0, <2>1, LatestIdIs DEF RowsOf
  <2>5. table'[i] = [table[i] EXCEPT !.locked = TRUE]
    BY <1>1, <1>2, <2>4
  <2>6. table[i] \in Row
    BY <1>0, <2>4, RowTypes
  <2>7. table'[i].config = table[i].config /\ table'[i].locked = TRUE
    BY <2>5, <2>6 DEF Row
  <2>8. get_tuned_config(m).found /\ get_tuned_config(m).config = table[i].config
    BY <2>2
  <2>9. get_tuned_config(m)' = [found  |-> TRUE,
                                config |-> get_tuned_config(m).config,
                                locked |-> TRUE]
    BY <2>3, <2>7, <2>8
  <2> QED BY <1>2, <2>8, <2>9
<1>3. CASE RowsOf(m) = {}
  <2>1. \A i \in RowsOf(n) : table'[i] = table[i]
    BY <1>1, <1>3 DEF RowsOf
  <2>2. get_tuned_config(n)' = get_tuned_config(n)
    BY <1>0, <1>1, <2>1, SameRowsReadTheSame
  <2>3. ~get_tuned_config(m).found
    BY <1>3 DEF get_tuned_config
  <2> QED BY <2>2, <2>3
<1>4. CASE n # m /\ RowsOf(m) # {}
  <2>1. LatestId(m) \in RowsOf(m)
    <3>1. PICK i \in RowsOf(m) : IsLatest(m, i)
      BY <1>0, <1>4 DEF LatestExists
    <3> QED BY <1>0, <3>1, LatestIdIs
  <2>2. \A i \in RowsOf(n) : i # LatestId(m) /\ i \in 1..Len(table)
    BY <1>4, <2>1 DEF RowsOf
  <2>3. \A i \in RowsOf(n) : table'[i] = table[i]
    BY <1>1, <2>2
  <2>4. get_tuned_config(n)' = get_tuned_config(n)
    BY <1>0, <1>1, <2>3, SameRowsReadTheSame
  <2> QED BY <1>4, <2>4
<1> QED BY <1>2, <1>3, <1>4

-----------------------------------------------------------------------------
\* Storage's promise, kept by the table: read through get_tuned_config it is
\* one register per model (TunedConfigApi), whatever is saved and locked in
\* whatever order and within the same second or not.
THEOREM Refinement == Spec => ImplementsApi
<1>1. Init => Api!Init
  BY DEF Init, Api!Init, Api!NoRow, get_tuned_config, RowsOf
<1>2. IInv /\ [Next]_vars => [Api!Next]_([m \in Models |-> get_tuned_config(m)])
  <2> SUFFICES ASSUME IInv, [Next]_vars
               PROVE  [Api!Next]_([m \in Models |-> get_tuned_config(m)])
    OBVIOUS
  <2>1. ASSUME NEW m \in Models, NEW c \in Configs, NEW l \in BOOLEAN,
               save_tuned_config(m, c, l)
        PROVE  Api!save_tuned_config(m, c, l)
    BY <2>1, SaveReadBack, SaveKeepsOthers DEF Api!save_tuned_config
  <2>2. ASSUME NEW m \in Models, lock_config(m)
        PROVE  Api!lock_config(m)
    BY <2>2, LockReadBack DEF Api!lock_config
  <2>3. CASE Tick \/ UNCHANGED vars
    <3>1. table' = table
      BY <2>3 DEF Tick, vars
    <3> QED BY <3>1 DEF get_tuned_config, LatestId, IsLatest, AtLeastAsRecent, RowsOf
  <2> QED BY <2>1, <2>2, <2>3 DEF Next, Api!Next
<1> QED BY <1>1, <1>2, Inductive, PTL DEF Spec, ImplementsApi, Api!Spec

\* The row just saved is the one read next, for every model, config and bound.
THEOREM SavedIsCurrent == Spec => SaveBecomesCurrent
<1>1. IInv /\ [Next]_vars =>
        [\A m \in Models :
           Len(table') > Len(table) /\ table'[Len(table')].model = m =>
             get_tuned_config(m)' = [found  |-> TRUE,
                                     config |-> table'[Len(table')].config,
                                     locked |-> table'[Len(table')].locked]]_vars
  <2> SUFFICES ASSUME IInv, [Next]_vars,
                      NEW m \in Models, Len(table') > Len(table),
                      table'[Len(table')].model = m
               PROVE  get_tuned_config(m)' = [found  |-> TRUE,
                                              config |-> table'[Len(table')].config,
                                              locked |-> table'[Len(table')].locked]
    OBVIOUS
  <2>0. Len(table) \in Nat
    BY RowTypes DEF IInv
  <2>1. ASSUME NEW n \in Models, NEW c \in Configs, NEW l \in BOOLEAN,
               save_tuned_config(n, c, l)
        PROVE  get_tuned_config(m)' = [found  |-> TRUE,
                                       config |-> table'[Len(table')].config,
                                       locked |-> table'[Len(table')].locked]
    <3>1. SaveEffect(n, c, l)
      BY <2>1, SaveLatest
    <3>2. n = m
      BY <3>1 DEF SaveEffect
    <3>3. get_tuned_config(n)' = [found |-> TRUE, config |-> c, locked |-> l]
      BY <2>1, SaveReadBack
    <3> QED BY <3>1, <3>2, <3>3 DEF SaveEffect
  <2>2. ASSUME NEW n \in Models, lock_config(n)
        PROVE  FALSE
    <3>1. Len(table') = Len(table)
      BY <2>2, LockLatest
    <3> QED BY <2>0, <3>1
  <2>3. CASE Tick \/ UNCHANGED vars
    <3>1. table' = table
      BY <2>3 DEF Tick, vars
    <3> QED BY <2>0, <3>1
  <2> QED BY <2>1, <2>2, <2>3 DEF Next
<1> QED BY <1>1, Inductive, PTL DEF Spec, SaveBecomesCurrent

\* History is kept: no step but a lock rewrites a row, and a lock only the
\* latest one of its model.
THEOREM OnlyLatestLocked == Spec => OnlyLatestRowIsLocked
<1>1. IInv /\ [Next]_vars =>
        [/\ Len(table') >= Len(table)
         /\ \A i \in 1..Len(table) :
              \/ table'[i] = table[i]
              \/ /\ IsLatest(table[i].model, i)
                 /\ table'[i] = [table[i] EXCEPT !.locked = TRUE]]_vars
  <2> SUFFICES ASSUME IInv, [Next]_vars
               PROVE  /\ Len(table') >= Len(table)
                      /\ \A i \in 1..Len(table) :
                           \/ table'[i] = table[i]
                           \/ /\ IsLatest(table[i].model, i)
                              /\ table'[i] = [table[i] EXCEPT !.locked = TRUE]
    OBVIOUS
  <2>0. Len(table) \in Nat
    BY RowTypes DEF IInv
  <2>1. ASSUME NEW m \in Models, NEW c \in Configs, NEW l \in BOOLEAN,
               save_tuned_config(m, c, l)
        PROVE  Len(table') >= Len(table) /\ \A i \in 1..Len(table) : table'[i] = table[i]
    <3>1. SaveEffect(m, c, l)
      BY <2>1, SaveLatest
    <3> QED BY <2>0, <3>1 DEF SaveEffect
  <2>2. ASSUME NEW m \in Models, lock_config(m), NEW i \in 1..Len(table)
        PROVE  /\ Len(table') >= Len(table)
               /\ \/ table'[i] = table[i]
                  \/ /\ IsLatest(table[i].model, i)
                     /\ table'[i] = [table[i] EXCEPT !.locked = TRUE]
    <3>1. /\ Len(table') = Len(table)
          /\ IF RowsOf(m) # {} /\ i = LatestId(m)
             THEN IsLatest(m, i) /\ table'[i] = [table[i] EXCEPT !.locked = TRUE]
             ELSE table'[i] = table[i]
      BY <2>2, LockLatest
    <3>2. IsLatest(m, i) => table[i].model = m
      BY DEF IsLatest, RowsOf
    <3> QED BY <2>0, <3>1, <3>2
  <2>3. ASSUME NEW m \in Models, lock_config(m)
        PROVE  Len(table') >= Len(table)
    <3>1. Len(table') = Len(table)
      BY <2>3, LockLatest
    <3> QED BY <2>0, <3>1
  <2>4. CASE Tick \/ UNCHANGED vars
    <3>1. table' = table
      BY <2>4 DEF Tick, vars
    <3> QED BY <2>0, <3>1
  <2> QED BY <2>1, <2>2, <2>3, <2>4 DEF Next
<1> QED BY <1>1, Inductive, PTL DEF Spec, OnlyLatestRowIsLocked
=============================================================================
