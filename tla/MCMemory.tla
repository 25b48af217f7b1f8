------------------------------ MODULE MCMemory ------------------------------
(***************************************************************************)
(* Model checking the memory of the kernel.                                *)
(***************************************************************************)
EXTENDS Memory, TLC

\* Processes differ only in what they own.
Symmetry == Permutations(Procs)
=============================================================================
