--------------------------- MODULE MCVectorStores ---------------------------
(* Instances of VectorStores. *)
EXTENDS VectorStores, TLC

Interchangeable == Permutations(Workers)

\* A bound on what follows a value that cannot be a key, or a lock that edge lost.
Bounded ==
  (\/ \E s \in DOMAIN spaces : mode = "edge" /\ spaces[s].leaked # {}
   \/ \E s \in DOMAIN spaces : \E v \in spaces[s].vertices : v.tag \in Lists
   \/ \E w \in Workers : Busy(w) /\ work[w].vertex # NoVertex /\ work[w].vertex.tag \in Lists)
  => count.admin + count.changes <= 4
=============================================================================
