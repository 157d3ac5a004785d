-------------------------- MODULE MCFallbackStorage -------------------------
(* Two hosts and one MySQL server. *)
EXTENDS FallbackStorage, TLC

HostSymmetry == Permutations(Hosts)
=============================================================================
