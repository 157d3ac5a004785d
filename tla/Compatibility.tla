---------------------------- MODULE Compatibility ---------------------------
(***************************************************************************)
(* Which model fits which machine (compatibility/) and the context size a  *)
(* run is given there (launcher/config_builder.py): two files with one set *)
(* of thresholds between them.  A hardware profile is the free VRAM of its *)
(* GPUs and its available RAM, in MB; a model is its three requirements.   *)
(* `reason` and the rest of both records are for display only.             *)
(***************************************************************************)
EXTENDS Integers

IsLargest(free, gpus) == free \in gpus /\ \A other \in gpus : other <= free

\* A profile lists finitely many GPUs, so that one has most free VRAM.
HardwareProfile ==
  {hw \in [gpus : SUBSET Nat, available_ram_mb : Nat] :
     hw.gpus # {} => \E free \in hw.gpus : IsLargest(free, hw.gpus)}

\* What validate_catalog_entries lets through: load_catalog raises otherwise.
\* The ids' uniqueness is the callers' use of a model as its own id.
ModelSpec == {s \in [min_vram_mb : Nat, recommended_vram_mb : Nat, min_ram_mb : Nat] :
                s.recommended_vram_mb >= s.min_vram_mb}

has_gpu(hw) == hw.gpus # {}

\* max(hw.gpus, key=free_vram_mb): several GPUs do not add up.
FreeVram(hw) == CHOOSE free \in hw.gpus : IsLargest(free, hw.gpus)

-----------------------------------------------------------------------------
CPU_ONLY_RAM_HEADROOM_MB == 4000

\* The position of a tier in TIER_SORT_ORDER, the best first.
GREAT_FIT == 0
WILL_RUN == 1
MAY_BE_SLOW == 2
NOT_RECOMMENDED == 3
Tiers == GREAT_FIT..NOT_RECOMMENDED

\* Mutant: strictly more than recommended is a great fit.
_classify_gpuStrict(s, free) ==
  IF free > s.recommended_vram_mb THEN GREAT_FIT
  ELSE IF free >= s.min_vram_mb THEN WILL_RUN
  ELSE IF 10 * free >= 7 * s.min_vram_mb THEN MAY_BE_SLOW
  ELSE NOT_RECOMMENDED

\* Mutant: the floor of 70% compared the wrong way round.
_classify_gpuFloor(s, free) ==
  IF free >= s.recommended_vram_mb THEN GREAT_FIT
  ELSE IF free >= s.min_vram_mb THEN WILL_RUN
  ELSE IF 10 * free <= 7 * s.min_vram_mb THEN MAY_BE_SLOW
  ELSE NOT_RECOMMENDED

\* min_vram_mb * 0.7 is a float just below or at the exact product: comparing an
\* integer with it is comparing with the product.
_classify_gpu(s, free) ==
  IF free >= s.recommended_vram_mb THEN GREAT_FIT
  ELSE IF free >= s.min_vram_mb THEN WILL_RUN
  ELSE IF 10 * free >= 7 * s.min_vram_mb THEN MAY_BE_SLOW
  ELSE NOT_RECOMMENDED

_classify_cpu_only(s, ram) ==
  IF ram >= s.min_ram_mb + CPU_ONLY_RAM_HEADROOM_MB THEN MAY_BE_SLOW
                                                    ELSE NOT_RECOMMENDED

classify(s, hw) == IF has_gpu(hw) THEN _classify_gpu(s, FreeVram(hw))
                                  ELSE _classify_cpu_only(s, hw.available_ram_mb)

-----------------------------------------------------------------------------
GENEROUS_CTX == 4096
MODERATE_CTX == 2048
CONSERVATIVE_CTX == 1024
RuntimeDefault == 0        \* {}: no num_ctx is passed

build_run_config(s, hw) ==
  IF ~has_gpu(hw) THEN RuntimeDefault
  ELSE IF FreeVram(hw) >= s.recommended_vram_mb THEN GENEROUS_CTX
  ELSE IF FreeVram(hw) >= s.min_vram_mb THEN MODERATE_CTX
  ELSE CONSERVATIVE_CTX

-----------------------------------------------------------------------------
\* What `models` promises about a machine is what `run` asks of it: a model
\* called a great fit runs with the generous context and no other does, one that
\* "will run" with the moderate one, and without a GPU nothing is guessed.
TierMatchesContext(s, hw) ==
  LET tier == classify(s, hw)
      ctx  == build_run_config(s, hw)
  IN  /\ tier = GREAT_FIT <=> ctx = GENEROUS_CTX
      /\ tier = WILL_RUN <=> ctx = MODERATE_CTX
      /\ ctx = RuntimeDefault <=> ~has_gpu(hw)

\* hw2 is hw1 with resources freed or a GPU added to those it has.
NoLessFree(hw1, hw2) ==
  /\ has_gpu(hw1) <=> has_gpu(hw2)
  /\ has_gpu(hw1) => FreeVram(hw1) <= FreeVram(hw2)
  /\ hw1.available_ram_mb <= hw2.available_ram_mb

\* Freeing memory, or adding a GPU to others, never makes a model fit worse nor
\* its context smaller.  (The first GPU of a machine may: a machine that would
\* run a model slowly on its RAM is judged by a small GPU alone.)
NeverWorse(s, hw1, hw2) ==
  NoLessFree(hw1, hw2) => /\ classify(s, hw2) <= classify(s, hw1)
                          /\ build_run_config(s, hw2) >= build_run_config(s, hw1)
=============================================================================
