---------------------------- MODULE MCCollector ----------------------------
(***************************************************************************)
(* Collector model-checked.                                                *)
(***************************************************************************)
EXTENDS Collector, TLC

\* Threads are interchangeable.
ThreadSymmetry == Permutations(Threads)

============================================================================
