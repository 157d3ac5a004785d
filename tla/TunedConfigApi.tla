--------------------------- MODULE TunedConfigApi ---------------------------
(***************************************************************************)
(* What the Storage interface (storage/base.py) promises its callers about *)
(* tuned configs.  A caller can only ever see the CURRENT config of a      *)
(* model, so the promise is one register per model:                        *)
(*   - save_tuned_config makes the given config the current one,           *)
(*   - lock_config marks the current one locked, and does nothing when the *)
(*     model has none,                                                     *)
(*   - get_tuned_config reads the register.                                *)
(* testing/fakes/fake_storage.py keeps the same promise with a list.       *)
(***************************************************************************)
CONSTANTS Models,    \* the model ids that are tuned
          Configs    \* the config dicts that may be saved

VARIABLE cur         \* cur[m]: the current tuned config of model m, or NoRow

\* get_tuned_config's None.
NoRow == [found |-> FALSE]

TunedRow == [found : {TRUE}, config : Configs, locked : BOOLEAN]

TypeOK == cur \in [Models -> TunedRow \cup {NoRow}]

-----------------------------------------------------------------------------
get_tuned_config(m) == cur[m]

Locked(m) == cur[m].found /\ cur[m].locked

save_tuned_config(m, c, l) ==
  cur' = [cur EXCEPT ![m] = [found |-> TRUE, config |-> c, locked |-> l]]

lock_config(m) ==
  cur' = IF cur[m].found
         THEN [cur EXCEPT ![m] = [found  |-> TRUE,
                                  config |-> cur[m].config,
                                  locked |-> TRUE]]
         ELSE cur

-----------------------------------------------------------------------------
Init == cur = [m \in Models |-> NoRow]

Next == \E m \in Models :
          \/ \E c \in Configs, l \in BOOLEAN : save_tuned_config(m, c, l)
          \/ lock_config(m)

Spec == Init /\ [][Next]_cur
=============================================================================
