---------------------------- MODULE MCDiskvMerge ----------------------------
(***************************************************************************)
(* DiskvMerge on small instances.                                          *)
(***************************************************************************)
EXTENDS DiskvMerge, TLC

Symmetry == Permutations(Keys) \cup Permutations(Values) \cup Permutations(Merges)

=============================================================================
