--------------------------- MODULE MCStatusCache ----------------------------
(* Two states of the GPUs, and models for which they are at or just below each *)
(* threshold: 70% of the minimum, the minimum, what is recommended, and what a *)
(* run on the CPU needs.                                                       *)
EXTENDS StatusCache

CONSTANTS p1, p2, nvidia

MCGpuStates == {{4200}, {6000, 8000}}
MCRamStates == {11999, 12000}

Model(min, recommended, min_ram) ==
  [min_vram_mb |-> min, recommended_vram_mb |-> recommended, min_ram_mb |-> min_ram]

MCCatalog == {Model(6000, 8000, 8000), Model(6001, 8001, 7999),
              Model(4200, 4201, 8000), Model(4201, 6000, 8000),
              Model(4000, 4200, 8000), Model(9000, 9000, 8000)}
=============================================================================
