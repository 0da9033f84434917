------------------------------ MODULE MCEventLog ------------------------------
(* EventLog with a few concurrent jobs. *)
EXTENDS EventLog

Symmetry == Permutations(Jobs)
===============================================================================
