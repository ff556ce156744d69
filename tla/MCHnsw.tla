------------------------------- MODULE MCHnsw -------------------------------
(***************************************************************************)
(* Hnsw for TLC: goroutines are interchangeable.                           *)
(***************************************************************************)
EXTENDS Hnsw, TLC

Symmetry == Permutations(Workers)
=============================================================================
