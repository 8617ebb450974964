--------------------------- MODULE MCRelayTasks ---------------------------
(* RelayTasks for TLC: interchangeable agents and processes. *)
EXTENDS RelayTasks, TLC

Symmetry == Permutations(Agents) \cup Permutations(Procs)
===========================================================================
