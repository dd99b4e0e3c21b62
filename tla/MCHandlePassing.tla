--------------------------- MODULE MCHandlePassing ---------------------------
(* Constants of the TLC runs of HandlePassing.                             *)
EXTENDS HandlePassing

CONSTANTS p1, p2, o1, o2

Symmetry == Permutations(Processes) \cup Permutations(KernelObjects)
=============================================================================
