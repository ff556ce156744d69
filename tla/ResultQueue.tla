----------------------------- MODULE ResultQueue -----------------------------
(***************************************************************************)
(* The bounded queue that a search of edge or experimental collects its    *)
(* items in.  It is a heap with the smallest score on top: what does not   *)
(* fit is taken from there, so that the items of the greatest scores stay. *)
(***************************************************************************)
EXTENDS Naturals, FiniteSets, FiniteSetsExt

CONSTANTS
  Score,   \* item -> the score it is pushed with
  Size     \* maxSize

\* Mutant of Least: the other heap, NewMaxPriorityQueue, is taken.
Greatest(Q) == CHOOSE x \in Q : \A y \in Q : Score[y] <= Score[x]

\* The top of the heap; items of the same score come in any order.
Least(Q) == CHOOSE x \in Q : \A y \in Q : Score[x] <= Score[y]

\* PriorityQueue.Add.
Add(Q, x) ==
  LET all == Q \cup {x} IN
  IF Cardinality(all) > Size THEN all \ {Least(all)} ELSE all

\* One item of S after the other, as the range over a map has them: in any order,
\* since what Add keeps does not depend on it.
AddAll(Q, S) == FoldSet(LAMBDA x, q : Add(q, x), Q, S)

\* What a full scan may answer: Size items of S, or all there are, and none
\* that is left out has a greater score than one that is not.
IsTop(Q, S) ==
  /\ Q \subseteq S /\ Cardinality(Q) <= Size
  /\ \A x \in S \ Q : /\ Cardinality(Q) = Size
                      /\ \A y \in Q : Score[x] <= Score[y]

=============================================================================
