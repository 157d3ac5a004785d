----------------------------- MODULE RunOptions ------------------------------
(***************************************************************************)
(* Two commands about one machine: `llm-max tune` measures and saves a     *)
(* config, `llm-max run` chooses the options of a run                      *)
(* (launcher/service.py).  Do they agree?  The benchmarks of a tune are in *)
(* TuneOnce: here it accepts any of the candidates.  Memory is taken and   *)
(* freed between the commands.                                             *)
(***************************************************************************)
EXTENDS Compatibility, Autotune

CONSTANTS Machines,    \* the hardware profiles that a scan may return
          Used         \* bound: the models that are tuned and run

\* A model that the catalog does not have is tuned and run all the same.
NoSpec == [in_catalog |-> FALSE]

VARIABLES cur,      \* the tuned config of each model
          hw,       \* what scan_hardware returns
          options   \* the num_ctx given to the last run of each model, or NoConfig

vars == <<cur, hw, options>>

Store == INSTANCE TunedConfigApi WITH Models <- Used, Configs <- Baselines

Init == /\ Store!Init
        /\ hw \in Machines
        /\ options = [m \in Used |-> NoConfig]

-----------------------------------------------------------------------------
\* built or None: RuntimeDefault and EmptyConfig are the same empty dict.
ContextFor(m) == IF m = NoSpec THEN RuntimeDefault ELSE build_run_config(m, hw)

\* tune without --dry-run: _default_baseline_config is the context of a run; an
\* accepted candidate is saved, and the model "will now run with" it.
Tune(m) ==
  /\ \E c \in generate_candidates(ContextFor(m)) \ {ContextFor(m)} :
       Store!save_tuned_config(m, c, FALSE)
  /\ options' = [options EXCEPT ![m] = NoConfig]
  /\ UNCHANGED hw

\* LauncherService.run: the options come from the scan alone.
Run(m) ==
  /\ options' = [options EXCEPT ![m] = ContextFor(m)]
  /\ UNCHANGED <<cur, hw>>

MemoryChanges == hw' \in Machines /\ UNCHANGED <<cur, options>>

Next == MemoryChanges \/ \E m \in Used : Tune(m) \/ Run(m)

Spec == Init /\ [][Next]_vars

-----------------------------------------------------------------------------
\* "Saved. {model_id} will now run with {config}" (cli.py, tune): a run after a
\* tune uses the config that the tune saved.
TunedIsRun ==
  \A m \in Used :
    Store!get_tuned_config(m).found /\ options[m] # NoConfig
      => options[m] = Store!get_tuned_config(m).config
=============================================================================
