------------------------ MODULE MCAllocationCapture ------------------------
(***************************************************************************)
(* AllocationCapture model-checked.                                        *)
(***************************************************************************)
EXTENDS AllocationCapture, TLC

\* Threads are interchangeable.
ThreadSymmetry == Permutations(Threads)
============================================================================
