------------------------------ MODULE MCUpgrade ------------------------------
(* Symmetry of the upgraders, for the runs without liveness.               *)
EXTENDS Upgrade, TLC

Pids == Permutations(Procs)
==============================================================================
