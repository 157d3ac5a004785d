---------------------------- MODULE MCRunOptions ----------------------------
(* RunOptions with a model of the catalog and one that it lacks, and a        *)
(* machine whose free VRAM, or lack of a GPU, puts the first into every tier. *)
EXTENDS RunOptions

MCUsed == {[min_vram_mb |-> 6, recommended_vram_mb |-> 8, min_ram_mb |-> 8], NoSpec}

Gpu(free) == [gpus |-> {free}, available_ram_mb |-> 0]
NoGpu(ram) == [gpus |-> {}, available_ram_mb |-> ram]
MCMachines == {Gpu(f) : f \in {4, 6, 9}} \cup {NoGpu(ram) : ram \in {0, 4008}}
=============================================================================
