------------------------- MODULE MCPluginSupervisor -------------------------
(* Small instances of PluginSupervisor for TLC. *)
EXTENDS PluginSupervisor, TLC

CmdSymmetry == Permutations(Cmd)
=============================================================================
