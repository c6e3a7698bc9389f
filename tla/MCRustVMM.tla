----------------------------- MODULE MCRustVMM -----------------------------
(* RustVMM for TLC: the threads are interchangeable.                       *)
EXTENDS RustVMM, TLC

Symmetry == Permutations(Threads)
=============================================================================
