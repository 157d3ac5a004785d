-------------------------- MODULE MCSqlTunedConfigs --------------------------
(* SqlTunedConfigs on two models and two configs. *)
EXTENDS SqlTunedConfigs

CONSTANTS m1, m2, c1, c2

MCModels  == {m1, m2}
MCConfigs == {c1, c2}
=============================================================================
