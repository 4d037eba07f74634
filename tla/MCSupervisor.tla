------------------------------- MODULE MCSupervisor -------------------------------
(* The supervisor for TLC: no property tells one process from another.        *)
EXTENDS Supervisor, TLC

Symmetry == Permutations(Pid)
==================================================================================
