------------------------------- MODULE MCHeap -------------------------------
(***************************************************************************)
(* Model checking the kernel heap.                                         *)
(***************************************************************************)
EXTENDS Heap
=============================================================================
