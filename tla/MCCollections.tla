---------------------------- MODULE MCCollections ----------------------------
(* Instances of Collections: "b" is how the name "ab" ends. *)
EXTENDS Collections, TLC

CONSTANTS a, ab, b

\* Every name matches its own keys, and "b_" those of "ab" too.
Overlapping == [n \in Names |-> IF n = b THEN {b, ab} \cap Names ELSE {n}]

Interchangeable == Permutations(Workers) \cup Permutations(Keys) \cup Permutations(Tags)

\* A bound on both kinds of calls: many of one, or of the other.
Bounded == count.admin <= 2 \/ count.changes <= 2
=============================================================================
