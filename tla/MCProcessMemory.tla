---------------------------- MODULE MCProcessMemory ----------------------------
(* Constants of the TLC runs of ProcessMemory.                             *)
EXTENDS ProcessMemory, TLC

CONSTANTS p1, p2, t1, t2, s1, s2

Symmetry == Permutations(Processes) \cup Permutations(Threads) \cup Permutations(Blocks)
=============================================================================
