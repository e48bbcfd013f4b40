----------------------------- MODULE MCCpuTables -----------------------------
(* Three application processors, interchangeable.                          *)
EXTENDS CpuTables, TLC

Symmetry == Permutations(Aps)
==============================================================================
