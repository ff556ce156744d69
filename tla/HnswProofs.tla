----------------------------- MODULE HnswProofs -----------------------------
(***************************************************************************)
(* Proofs about Hnsw for any points, bounds and number of goroutines: no   *)
(* vertex has links on a level it has not; without overlaps, degrees are   *)
(* bounded and a small index is exact; a snapshot keeps every answer.      *)
(*                                                                         *)
(* The walks of a search are recursive functions.  That they have values   *)
(* follows by induction, on the distance that every hop shortens, on the   *)
(* level, or on the number of steps, and so does what they can return: a   *)
(* walk never leaves a set of vertices whose links do not lead out of it,  *)
(* and a search of a level meets the least such set.  The invariants below *)
(* name such sets: the vertices of a level, and those that are live.       *)
(***************************************************************************)
EXTENDS Hnsw, FiniteSetTheorems, WellFoundedInduction, TLAPS

-----------------------------------------------------------------------------
(* Numbers: the provers take no predicate for an induction, but a set      *)

\* A set of numbers that is not empty has a least one.
LEMMA HasLeast ==
  ASSUME NEW S \in SUBSET Nat, S # {}
  PROVE  \E n \in S : \A m \in S : n <= m
<1>1. PICK n \in S : \A m \in S : <<m, n>> \notin OpToRel(<, Nat)
  BY NatLessThanWellFounded, WFMin
<1>2. \A m \in S : ~ (m < n)
  BY <1>1 DEF OpToRel
<1> QED BY <1>2

\* A set of numbers that has 0, and with each number up to N the next, has all up to N.
LEMMA UpTo ==
  ASSUME NEW N \in Nat, NEW S, 0 \in S, \A n \in 0 .. N : n \in S /\ n < N => n + 1 \in S
  PROVE  \A n \in 0 .. N : n \in S
<1> DEFINE T == {n \in 0 .. N : n \notin S}
<1>1. SUFFICES ASSUME T # {} PROVE FALSE
  OBVIOUS
<1>2. PICK n \in T : \A m \in T : n <= m
  <2>1. T \in SUBSET Nat
    OBVIOUS
  <2> HIDE DEF T
  <2> QED BY <1>1, <2>1, HasLeast
<1>3. n # 0 /\ n - 1 \in 0 .. N /\ n - 1 < N /\ n - 1 \notin T
  BY <1>2
<1>4. (n - 1) + 1 \in S
  BY <1>3
<1> QED BY <1>2, <1>4

\* A function on 1 .. N into the numbers has a bound.
LEMMA HasBound ==
  ASSUME NEW N \in Nat, NEW f, \A i \in 1 .. N : f[i] \in Nat
  PROVE  \E b \in Nat : \A i \in 1 .. N : f[i] <= b
<1> DEFINE S == {n \in 0 .. N : \E b \in Nat : \A i \in 1 .. n : f[i] <= b}
<1>1. 0 \in S
  OBVIOUS
<1>2. ASSUME NEW n \in 0 .. N, n \in S, n < N PROVE n + 1 \in S
  <2>1. PICK b \in Nat : \A i \in 1 .. n : f[i] <= b
    BY <1>2
  <2>2. n + 1 \in 1 .. N /\ f[n + 1] \in Nat
    BY <1>2
  <2> DEFINE c == b + f[n + 1]
  <2>3. c \in Nat /\ \A i \in 1 .. n + 1 : f[i] <= c
    <3>1. ASSUME NEW i \in 1 .. n + 1 PROVE f[i] <= c
      <4>1. CASE i = n + 1
        BY <2>2, <4>1
      <4>2. CASE i # n + 1
        <5>1. i \in 1 .. n /\ i \in 1 .. N
          BY <4>2, <2>2
        <5> QED BY <2>1, <2>2, <5>1
      <4> QED BY <4>1, <4>2
    <3> QED BY <2>2, <3>1
  <2> QED BY <2>2, <2>3
<1> HIDE DEF S
<1>3. N \in S
  <2>1. N \in 0 .. N
    OBVIOUS
  <2> QED BY <1>1, <1>2, <2>1, UpTo
<1> QED BY <1>3 DEF S

-----------------------------------------------------------------------------
(* Distances *)

\* As much of the types as a search needs.
GraphTyped == /\ pos \in [Nodes -> Nat] /\ level \in [Nodes -> Levels]
              /\ \A n \in Nodes, l \in Levels : edges[n][l] \subseteq Nodes

\* A distance is a number.
LEMMA DistanceNat ==
  ASSUME NEW p \in Nat, NEW q \in Nat
  PROVE  Distance(p, q) \in Nat
BY DEF Distance

\* There are finitely many vertices.
LEMMA NodesFinite == IsFiniteSet(Nodes)
<1>1. MaxNodes \in Int /\ 1 \in Int
  BY HnswAssumption
<1> QED BY <1>1, FS_Interval DEF Nodes

\* The nearest vertex of a set is of the set, and none of the set is nearer.
LEMMA NearestIs == \A S \in SUBSET Nodes, p \in Nat : GraphTyped /\ S # {} =>
  /\ NearestOf(S, p) \in S
  /\ \A t \in S : Distance(p, pos[NearestOf(S, p)]) <= Distance(p, pos[t])
<1> SUFFICES ASSUME NEW S \in SUBSET Nodes, NEW p \in Nat, GraphTyped, S # {}
             PROVE  /\ NearestOf(S, p) \in S
                    /\ \A t \in S : Distance(p, pos[NearestOf(S, p)]) <= Distance(p, pos[t])
  OBVIOUS
<1> DEFINE d(t)      == Distance(p, pos[t])
           Nearer(s) == {t \in S : d(t) < d(s)}
<1>1. \A t \in S : d(t) \in Nat
  BY DistanceNat DEF GraphTyped
<1>2. IsFiniteSet(S)
  BY NodesFinite, FS_Subset
<1>3. \A s \in S : s \in Nearest(S, p, 1) <=> Nearer(s) = {}
  <2> TAKE s \in S
  <2>1. IsFiniteSet(Nearer(s))
    BY <1>2, FS_Subset
  <2>2. Cardinality(Nearer(s)) \in Nat /\ (Cardinality(Nearer(s)) = 0 <=> Nearer(s) = {})
    BY <2>1, FS_CardinalityType, FS_EmptySet
  <2>3. s \in Nearest(S, p, 1) <=> Cardinality(Nearer(s)) < 1
    BY DEF Nearest
  <2> QED BY <2>2, <2>3
<1>4. \E s \in S : Nearer(s) = {}
  <2> DEFINE D == {d(t) : t \in S}
  <2>1. D \in SUBSET Nat /\ D # {}
    BY <1>1
  <2>2. PICK n \in D : \A m \in D : n <= m
    <3> HIDE DEF D
    <3> QED BY <2>1, HasLeast
  <2>3. PICK s \in S : n = d(s)
    BY <2>2
  <2>4. \A t \in S : d(s) <= d(t)
    BY <2>2, <2>3
  <2>5. Nearer(s) = {}
    <3> HIDE DEF d
    <3> QED BY <1>1, <2>4
  <2> QED BY <2>5
<1>5. NearestOf(S, p) \in S /\ NearestOf(S, p) \in Nearest(S, p, 1)
  <2>1. \E s \in S : s \in Nearest(S, p, 1)
    BY <1>3, <1>4
  <2> QED BY <2>1 DEF NearestOf
<1>6. Nearer(NearestOf(S, p)) = {}
  BY <1>3, <1>5
<1> HIDE DEF d
<1>7. \A t \in S : d(NearestOf(S, p)) <= d(t)
  BY <1>1, <1>5, <1>6
<1> QED BY <1>5, <1>7 DEF d

-----------------------------------------------------------------------------
(* The greedy walk *)

Closer(p, n, l) == {m \in Neighbors(n, l) : Distance(p, pos[m]) < Distance(p, pos[n])}

\* Where the walk goes from n.
Hop(p, n, l) == NearestOf(Closer(p, n, l), p)

\* The equation that Greedy solves.
IsWalk(walk, p, l) ==
  walk = [n \in Nodes |-> IF Closer(p, n, l) = {} THEN n ELSE walk[Hop(p, n, l)]]

\* A hop leads to a neighbor that is closer.
LEMMA HopIs == \A p \in Nat, n \in Nodes, l \in Levels : GraphTyped /\ Closer(p, n, l) # {} =>
  /\ Hop(p, n, l) \in Nodes /\ Hop(p, n, l) \in Neighbors(n, l)
  /\ Distance(p, pos[Hop(p, n, l)]) < Distance(p, pos[n])
<1> SUFFICES ASSUME NEW p \in Nat, NEW n \in Nodes, NEW l \in Levels, GraphTyped, Closer(p, n, l) # {}
             PROVE  /\ Hop(p, n, l) \in Nodes /\ Hop(p, n, l) \in Neighbors(n, l)
                    /\ Distance(p, pos[Hop(p, n, l)]) < Distance(p, pos[n])
  OBVIOUS
<1>1. Closer(p, n, l) \in SUBSET Nodes
  BY DEF Closer, Neighbors, GraphTyped
<1>2. Hop(p, n, l) \in Closer(p, n, l)
  BY <1>1, NearestIs DEF Hop
<1> QED BY <1>1, <1>2 DEF Closer

\* The equation has a solution: every hop shortens the distance.
LEMMA WalkExists == \A p \in Nat, l \in Levels : GraphTyped => \E walk : IsWalk(walk, p, l)
<1> SUFFICES ASSUME NEW p \in Nat, NEW l \in Levels, GraphTyped PROVE \E walk : IsWalk(walk, p, l)
  OBVIOUS
<1> DEFINE d(n)     == Distance(p, pos[n])
           Ok(w, n) == w[n] = IF Closer(p, n, l) = {} THEN n ELSE w[Hop(p, n, l)]
           Upto(k)  == \E w \in [Nodes -> Nodes] : \A n \in Nodes : d(n) < k => Ok(w, n)
<1>1. \A n \in Nodes : d(n) \in Nat
  BY DistanceNat DEF GraphTyped
<1>2. PICK b \in Nat : \A n \in Nodes : d(n) <= b
  <2> DEFINE f == [n \in Nodes |-> d(n)]
  <2> HIDE DEF d
  <2>1. \A i \in 1 .. MaxNodes : f[i] \in Nat
    BY <1>1 DEF Nodes
  <2>2. PICK b \in Nat : \A i \in 1 .. MaxNodes : f[i] <= b
    <3> HIDE DEF f
    <3> QED BY <2>1, HasBound, HnswAssumption
  <2> QED BY <2>2 DEF Nodes
<1> DEFINE S == {k \in 0 .. b + 1 : Upto(k)}
<1>3. 0 \in S
  <2>1. \A n \in Nodes : ~ (d(n) < 0)
    <3> HIDE DEF d
    <3> QED BY <1>1
  <2>2. [n \in Nodes |-> n] \in [Nodes -> Nodes]
    OBVIOUS
  <2>3. Upto(0)
    <3> HIDE DEF Ok, d
    <3> QED BY <2>1, <2>2
  <2>4. 0 \in 0 .. b + 1
    BY <1>2
  <2> HIDE DEF Upto
  <2> QED BY <2>3, <2>4
<1>4. ASSUME NEW k \in 0 .. b + 1, k \in S, k < b + 1 PROVE k + 1 \in S
  <2>1. PICK w \in [Nodes -> Nodes] : \A n \in Nodes : d(n) < k => Ok(w, n)
    BY <1>4
  <2> DEFINE v == [n \in Nodes |-> IF d(n) < k THEN w[n]
                                   ELSE IF Closer(p, n, l) = {} \/ d(n) > k THEN n ELSE w[Hop(p, n, l)]]
  <2>2. v \in [Nodes -> Nodes]
    BY HopIs
  <2>3. ASSUME NEW n \in Nodes, d(n) < k + 1 PROVE Ok(v, n)
    <3>1. CASE Closer(p, n, l) = {}
      <4>1. d(n) < k => w[n] = n
        BY <2>1, <3>1
      <4> QED BY <3>1, <4>1
    <3>2. CASE Closer(p, n, l) # {}
      <4>1. Hop(p, n, l) \in Nodes /\ d(Hop(p, n, l)) < d(n)
        BY <3>2, HopIs
      <4> HIDE DEF d
      <4>2. d(Hop(p, n, l)) < k /\ ~ (d(n) > k) /\ d(n) \in Nat
        BY <1>1, <2>3, <4>1
      <4>3. v[Hop(p, n, l)] = w[Hop(p, n, l)]
        BY <4>1, <4>2
      <4>4. v[n] = w[Hop(p, n, l)]
        BY <2>1, <3>2, <4>2
      <4> QED BY <3>2, <4>3, <4>4
    <3> QED BY <3>1, <3>2
  <2>4. k + 1 \in 0 .. b + 1
    BY <1>2, <1>4
  <2> HIDE DEF v, Ok, d
  <2> QED BY <2>2, <2>3, <2>4
<1>5. b + 1 \in S
  <2> HIDE DEF S
  <2>1. b + 1 \in Nat /\ b + 1 \in 0 .. b + 1
    BY <1>2
  <2> QED BY <1>3, <1>4, <2>1, UpTo
<1>6. PICK w \in [Nodes -> Nodes] : \A n \in Nodes : Ok(w, n)
  <2>1. \A n \in Nodes : d(n) < b + 1
    <3> HIDE DEF d
    <3> QED BY <1>1, <1>2
  <2> HIDE DEF Ok, d
  <2> QED BY <1>5, <2>1
<1>7. IsWalk(w, p, l)
  BY <1>6 DEF IsWalk
<1> QED BY <1>7

\* So Greedy is where the hops end.
LEMMA GreedyIs == \A p \in Nat, n \in Nodes, l \in Levels : GraphTyped =>
  Greedy(p, n, l) = IF Closer(p, n, l) = {} THEN n ELSE Greedy(p, Hop(p, n, l), l)
<1> SUFFICES ASSUME NEW p \in Nat, NEW n \in Nodes, NEW l \in Levels, GraphTyped
             PROVE  Greedy(p, n, l) = IF Closer(p, n, l) = {} THEN n ELSE Greedy(p, Hop(p, n, l), l)
  OBVIOUS
<1> DEFINE walk == CHOOSE walk : IsWalk(walk, p, l)
<1>1. IsWalk(walk, p, l)
  BY WalkExists, Zenon
<1>2. \A m : Greedy(p, m, l) = walk[m]
  BY DEF Greedy, IsWalk, Closer, Hop
<1> HIDE DEF walk
<1>3. walk[n] = IF Closer(p, n, l) = {} THEN n ELSE walk[Hop(p, n, l)]
  BY <1>1 DEF IsWalk
<1> QED BY <1>2, <1>3

\* A set that the walk begins in, and no link of its vertices leaves, is where it ends.
LEMMA GreedyStays == \A p \in Nat, l \in Levels, S \in SUBSET Nodes :
  GraphTyped /\ (\A n \in S : Neighbors(n, l) \subseteq S) => \A n \in S : Greedy(p, n, l) \in S
<1> SUFFICES ASSUME NEW p \in Nat, NEW l \in Levels, NEW S \in SUBSET Nodes, GraphTyped,
                    \A n \in S : Neighbors(n, l) \subseteq S
             PROVE  \A n \in S : Greedy(p, n, l) \in S
  OBVIOUS
<1> DEFINE d(n) == Distance(p, pos[n])
           Bad  == {n \in S : Greedy(p, n, l) \notin S}
           D    == {d(n) : n \in Bad}
<1>1. \A n \in S : d(n) \in Nat
  BY DistanceNat DEF GraphTyped
<1>2. SUFFICES ASSUME Bad # {} PROVE FALSE
  OBVIOUS
<1>3. D \in SUBSET Nat /\ D # {}
  BY <1>1, <1>2
<1>4. PICK k \in D : \A m \in D : k <= m
  <2> HIDE DEF D
  <2> QED BY <1>3, HasLeast
<1>5. PICK n \in Bad : k = d(n)
  BY <1>4
<1>6. Closer(p, n, l) # {}
  BY <1>5, GreedyIs
<1>7. Hop(p, n, l) \in S /\ d(Hop(p, n, l)) < d(n)
  BY <1>5, <1>6, HopIs
<1>8. Greedy(p, n, l) = Greedy(p, Hop(p, n, l), l)
  BY <1>5, <1>6, GreedyIs
<1>9. Hop(p, n, l) \in Bad
  BY <1>5, <1>7, <1>8
<1>10. d(n) <= d(Hop(p, n, l))
  BY <1>4, <1>5, <1>9
<1> HIDE DEF d
<1> QED BY <1>1, <1>5, <1>7, <1>10

-----------------------------------------------------------------------------
(* The descent *)

\* The equation of the descent for one level.
IsDown(down, p, start, l) ==
  down[l] = IF l >= level[start] THEN start ELSE Greedy(p, down[l + 1], l + 1)

\* The equations have a solution, and the descent is where it arrives.
LEMMA DescendIs == \A p \in Nat, start \in Nodes, bottom \in Levels : GraphTyped =>
  \E down : /\ \A l \in bottom .. MaxLevel : IsDown(down, p, start, l)
            /\ Descend(p, start, bottom) = down[bottom]
<1> SUFFICES ASSUME NEW p \in Nat, NEW start \in Nodes, NEW bottom \in Levels, GraphTyped
             PROVE  \E down : /\ \A l \in bottom .. MaxLevel : IsDown(down, p, start, l)
                              /\ Descend(p, start, bottom) = down[bottom]
  OBVIOUS
<1> DEFINE Ls        == bottom .. MaxLevel
           Solves(f) == f = [l \in Ls |-> IF l >= level[start] THEN start ELSE Greedy(p, f[l + 1], l + 1)]
           Upto(k)   == \E f \in [Ls -> Nodes] : \A l \in Ls : l + k >= MaxLevel => IsDown(f, p, start, l)
           S         == {k \in 0 .. MaxLevel : Upto(k)}
<1>1. MaxLevel \in Nat /\ bottom \in Nat /\ bottom <= MaxLevel /\ level[start] \in Nat /\ level[start] <= MaxLevel
  BY HnswAssumption DEF Levels, GraphTyped
<1>2. \A n \in Nodes, l \in Levels : Greedy(p, n, l) \in Nodes
  <2>1. \A n \in Nodes, l \in Levels : Neighbors(n, l) \subseteq Nodes
    BY DEF Neighbors, GraphTyped
  <2> QED BY <2>1, GreedyStays
<1>3. Upto(0)
  <2>1. [l \in Ls |-> start] \in [Ls -> Nodes]
    OBVIOUS
  <2>2. ASSUME NEW l \in Ls, l + 0 >= MaxLevel PROVE IsDown([m \in Ls |-> start], p, start, l)
    BY <1>1, <2>2 DEF IsDown
  <2> HIDE DEF Ls
  <2> QED BY <2>1, <2>2
<1>4. ASSUME NEW k \in 0 .. MaxLevel, Upto(k), k < MaxLevel PROVE Upto(k + 1)
  <2>1. PICK f \in [Ls -> Nodes] : \A l \in Ls : l + k >= MaxLevel => IsDown(f, p, start, l)
    BY <1>4
  <2> DEFINE g == [l \in Ls |-> IF l + k >= MaxLevel THEN f[l]
                                ELSE IF l >= level[start] THEN start ELSE Greedy(p, f[l + 1], l + 1)]
  <2>2. ASSUME NEW l \in Ls, ~ (l >= level[start])
        PROVE  l + 1 \in Ls /\ l + 1 \in Levels /\ l \in Nat
    BY <1>1, <2>2 DEF Levels
  <2>3. g \in [Ls -> Nodes]
    <3> HIDE DEF Ls
    <3> QED BY <1>2, <2>2
  <2>4. ASSUME NEW l \in Ls, l + (k + 1) >= MaxLevel PROVE IsDown(g, p, start, l)
    <3>1. CASE l >= level[start]
      <4>1. l + k >= MaxLevel => f[l] = start
        BY <2>1, <3>1 DEF IsDown
      <4> QED BY <3>1, <4>1 DEF IsDown
    <3>2. CASE ~ (l >= level[start])
      <4>1. l + 1 \in Ls /\ (l + 1) + k >= MaxLevel
        BY <1>1, <2>2, <2>4, <3>2
      <4>2. g[l + 1] = f[l + 1]
        BY <4>1
      <4>3. g[l] = Greedy(p, f[l + 1], l + 1)
        BY <2>1, <3>2 DEF IsDown
      <4> QED BY <3>2, <4>2, <4>3 DEF IsDown
    <3> QED BY <3>1, <3>2
  <2> HIDE DEF g, Ls
  <2> QED BY <2>3, <2>4
<1>5. Upto(MaxLevel)
  <2> HIDE DEF Upto
  <2>1. 0 \in S /\ \A k \in 0 .. MaxLevel : k \in S /\ k < MaxLevel => k + 1 \in S
    BY <1>1, <1>3, <1>4
  <2> HIDE DEF S
  <2>2. MaxLevel \in 0 .. MaxLevel
    BY <1>1
  <2>3. MaxLevel \in S
    BY <1>1, <2>1, <2>2, UpTo
  <2> QED BY <2>3 DEF S
<1>6. \E f : Solves(f)
  <2>1. PICK f \in [Ls -> Nodes] : \A l \in Ls : l + MaxLevel >= MaxLevel => IsDown(f, p, start, l)
    BY <1>5
  <2>2. \A l \in Ls : l + MaxLevel >= MaxLevel
    BY <1>1
  <2>3. Solves(f)
    <3> HIDE DEF Ls
    <3> QED BY <2>1, <2>2 DEF IsDown
  <2> QED BY <2>3
<1> DEFINE down == CHOOSE f : Solves(f)
<1>7. Solves(down)
  <2> HIDE DEF Solves
  <2> QED BY <1>6, Zenon
<1>8. Descend(p, start, bottom) = down[bottom]
  BY <1>1 DEF Descend
<1>9. \A l \in Ls : IsDown(down, p, start, l)
  <2> HIDE DEF down
  <2> QED BY <1>7 DEF IsDown
<1> HIDE DEF down
<1> QED BY <1>8, <1>9

\* A descent through sets that no link of their levels leaves ends in the set of its level.
LEMMA DescendStays == \A p \in Nat, start \in Nodes, bottom \in Levels, T \in [Levels -> SUBSET Nodes] :
  /\ GraphTyped
  /\ \A l \in Levels : \A n \in T[l] : Neighbors(n, l) \subseteq T[l]
  /\ \A l, m \in Levels : l <= m => T[m] \subseteq T[l]
  /\ start \in T[level[start]]
  => Descend(p, start, bottom) \in T[bottom] \cup {start}
<1> SUFFICES ASSUME NEW p \in Nat, NEW start \in Nodes, NEW bottom \in Levels,
                    NEW T \in [Levels -> SUBSET Nodes], GraphTyped,
                    \A l \in Levels : \A n \in T[l] : Neighbors(n, l) \subseteq T[l],
                    \A l, m \in Levels : l <= m => T[m] \subseteq T[l],
                    start \in T[level[start]]
             PROVE  Descend(p, start, bottom) \in T[bottom] \cup {start}
  OBVIOUS
<1>1. MaxLevel \in Nat /\ bottom \in Nat /\ bottom <= MaxLevel /\ level[start] \in Nat /\ level[start] <= MaxLevel
  BY HnswAssumption DEF Levels, GraphTyped
<1>2. PICK down : /\ \A l \in bottom .. MaxLevel : IsDown(down, p, start, l)
                  /\ Descend(p, start, bottom) = down[bottom]
  BY DescendIs
<1>3. CASE bottom >= level[start]
  <2>1. bottom \in bottom .. MaxLevel
    BY <1>1
  <2>2. down[bottom] = start
    BY <1>2, <1>3, <2>1 DEF IsDown
  <2> QED BY <1>2, <2>2
<1>4. CASE ~ (bottom >= level[start])
  <2> DEFINE top == level[start]
             N   == top - bottom
             S   == {k \in 0 .. N : down[top - k] \in T[top - k]}
  <2>1. N \in Nat /\ top \in Nat /\ top \in bottom .. MaxLevel
    BY <1>1, <1>4
  <2>2. 0 \in S
    <3>1. down[top] = start
      BY <1>1, <1>2, <2>1 DEF IsDown
    <3>2. top - 0 = top /\ 0 \in 0 .. N
      BY <2>1
    <3> QED BY <3>1, <3>2
  <2>3. ASSUME NEW k \in 0 .. N, k \in S, k < N PROVE k + 1 \in S
    <3> DEFINE l == top - (k + 1)
    <3>1. /\ l \in bottom .. MaxLevel /\ ~ (l >= top) /\ l + 1 = top - k
          /\ l \in Levels /\ l + 1 \in Levels /\ l <= l + 1
      <4>1. k \in Nat /\ k < top - bottom /\ top \in Nat /\ top <= MaxLevel
        BY <1>1, <2>1, <2>3
      <4> HIDE DEF top
      <4>2. l \in Nat /\ bottom <= l /\ l < top /\ l + 1 = top - k
        BY <1>1, <4>1
      <4> HIDE DEF l
      <4> QED BY <1>1, <4>1, <4>2 DEF Levels
    <3>2. down[l] = Greedy(p, down[l + 1], l + 1)
      BY <1>2, <3>1 DEF IsDown
    <3>3. down[l + 1] \in T[l + 1]
      BY <2>3, <3>1
    <3>4. Greedy(p, down[l + 1], l + 1) \in T[l + 1]
      BY <3>1, <3>3, GreedyStays
    <3>5. down[l] \in T[l]
      <4> HIDE DEF l
      <4> QED BY <3>1, <3>2, <3>4
    <3>6. k + 1 \in 0 .. N
      BY <2>1, <2>3
    <3> QED BY <3>5, <3>6
  <2>4. N \in S
    <3> HIDE DEF S, N
    <3>1. N \in 0 .. N
      BY <2>1
    <3> QED BY <2>1, <2>2, <2>3, <3>1, UpTo
  <2>5. top - N = bottom
    BY <1>1
  <2>6. down[bottom] \in T[bottom]
    BY <2>4, <2>5
  <2> QED BY <1>2, <2>6
<1> QED BY <1>3, <1>4

-----------------------------------------------------------------------------
(* The search of a level *)

Wider(S, l) == S \cup UNION {Neighbors(n, l) : n \in S}
IsReach(reach, start, l) ==
  reach = [i \in 0 .. MaxNodes |-> IF i = 0 THEN {start} ELSE Wider(reach[i - 1], l)]

\* Widening a set of vertices gives one.
LEMMA WiderType == \A S \in SUBSET Nodes, l \in Levels : GraphTyped => Wider(S, l) \in SUBSET Nodes
BY DEF Wider, Neighbors, GraphTyped

\* The search widens a set, step by step.
LEMMA SearchIs == \A start \in Nodes, l \in Levels : GraphTyped =>
  \E reach \in [0 .. MaxNodes -> SUBSET Nodes] :
    IsReach(reach, start, l) /\ SearchLevel(start, l) = reach[MaxNodes]
<1> SUFFICES ASSUME NEW start \in Nodes, NEW l \in Levels, GraphTyped
             PROVE  \E reach \in [0 .. MaxNodes -> SUBSET Nodes] :
                      IsReach(reach, start, l) /\ SearchLevel(start, l) = reach[MaxNodes]
  OBVIOUS
<1> DEFINE Is       == 0 .. MaxNodes
           Ok(f, i) == f[i] = IF i = 0 THEN {start} ELSE Wider(f[i - 1], l)
           Upto(k)  == \E f \in [Is -> SUBSET Nodes] : \A i \in Is : i <= k => Ok(f, i)
           S        == {k \in Is : Upto(k)}
<1>1. MaxNodes \in Nat
  BY HnswAssumption
<1>2. Upto(0)
  <2>1. [i \in Is |-> {start}] \in [Is -> SUBSET Nodes]
    OBVIOUS
  <2>2. ASSUME NEW i \in Is, i <= 0 PROVE Ok([j \in Is |-> {start}], i)
    BY <1>1, <2>2
  <2> HIDE DEF Is, Ok
  <2> QED BY <2>1, <2>2
<1>3. ASSUME NEW k \in Is, Upto(k), k < MaxNodes PROVE Upto(k + 1)
  <2>1. PICK f \in [Is -> SUBSET Nodes] : \A i \in Is : i <= k => Ok(f, i)
    BY <1>3
  <2> DEFINE g == [f EXCEPT ![k + 1] = Wider(f[k], l)]
  <2>2. k + 1 \in Is /\ g \in [Is -> SUBSET Nodes]
    BY <1>1, <1>3, WiderType
  <2>3. ASSUME NEW i \in Is, i <= k + 1 PROVE Ok(g, i)
    <3>1. CASE i = k + 1
      <4>1. i # 0 /\ i - 1 = k /\ k # k + 1
        BY <1>1, <3>1
      <4>2. g[i] = Wider(f[k], l) /\ g[k] = f[k]
        BY <2>2, <3>1, <4>1
      <4> QED BY <4>1, <4>2
    <3>2. CASE i # k + 1
      <4>1. i <= k /\ (i # 0 => i - 1 \in Is /\ i - 1 # k + 1)
        BY <1>1, <2>3, <3>2
      <4>2. g[i] = f[i] /\ (i # 0 => g[i - 1] = f[i - 1])
        BY <2>2, <3>2, <4>1
      <4> QED BY <2>1, <4>1, <4>2
    <3> QED BY <3>1, <3>2
  <2> HIDE DEF g, Is, Ok
  <2> QED BY <2>2, <2>3
<1>4. Upto(MaxNodes)
  <2> HIDE DEF Upto
  <2>1. 0 \in S /\ \A k \in 0 .. MaxNodes : k \in S /\ k < MaxNodes => k + 1 \in S
    BY <1>1, <1>2, <1>3
  <2> HIDE DEF S
  <2>2. MaxNodes \in 0 .. MaxNodes
    BY <1>1
  <2>3. MaxNodes \in S
    BY <1>1, <2>1, <2>2, UpTo
  <2> QED BY <2>3 DEF S
<1>5. \E f : IsReach(f, start, l)
  <2>1. PICK f \in [Is -> SUBSET Nodes] : \A i \in Is : i <= MaxNodes => Ok(f, i)
    BY <1>4
  <2>2. \A i \in Is : i <= MaxNodes
    BY <1>1
  <2>3. IsReach(f, start, l)
    BY <2>1, <2>2 DEF IsReach
  <2> QED BY <2>3
<1> DEFINE reach == CHOOSE f : IsReach(f, start, l)
<1>6. IsReach(reach, start, l)
  BY <1>5, Zenon
<1>7. SearchLevel(start, l) = reach[MaxNodes]
  BY DEF SearchLevel, IsReach, Wider
<1> HIDE DEF reach
<1>8. \A i \in Is : reach[i] \in SUBSET Nodes
  <2> DEFINE R == {i \in Is : reach[i] \in SUBSET Nodes}
  <2>1. 0 \in R
    BY <1>1, <1>6 DEF IsReach
  <2>2. ASSUME NEW i \in Is, i \in R, i < MaxNodes PROVE i + 1 \in R
    <3>1. i + 1 \in Is /\ i + 1 # 0 /\ (i + 1) - 1 = i
      BY <1>1, <2>2
    <3>2. reach[i + 1] = Wider(reach[i], l)
      BY <1>6, <3>1 DEF IsReach
    <3> QED BY <2>2, <3>1, <3>2, WiderType
  <2> HIDE DEF R
  <2>3. \A i \in Is : i \in R
    BY <1>1, <2>1, <2>2, UpTo
  <2> QED BY <2>3 DEF R
<1>9. reach \in [0 .. MaxNodes -> SUBSET Nodes]
  BY <1>6, <1>8 DEF IsReach
<1> QED BY <1>6, <1>7, <1>9

\* Vertices that no link leaves hold all that is reached from them.
LEMMA SearchStays == \A start \in Nodes, l \in Levels, S \in SUBSET Nodes :
  GraphTyped /\ start \in S /\ (\A n \in S : Neighbors(n, l) \subseteq S) => SearchLevel(start, l) \subseteq S
<1> SUFFICES ASSUME NEW start \in Nodes, NEW l \in Levels, NEW S \in SUBSET Nodes, GraphTyped,
                    start \in S, \A n \in S : Neighbors(n, l) \subseteq S
             PROVE  SearchLevel(start, l) \subseteq S
  OBVIOUS
<1>1. PICK reach \in [0 .. MaxNodes -> SUBSET Nodes] :
        IsReach(reach, start, l) /\ SearchLevel(start, l) = reach[MaxNodes]
  BY SearchIs
<1> DEFINE R == {i \in 0 .. MaxNodes : reach[i] \subseteq S}
<1>2. MaxNodes \in Nat
  BY HnswAssumption
<1>3. 0 \in R
  BY <1>1, <1>2 DEF IsReach
<1>4. ASSUME NEW i \in 0 .. MaxNodes, i \in R, i < MaxNodes PROVE i + 1 \in R
  <2>1. i + 1 \in 0 .. MaxNodes /\ i + 1 # 0 /\ (i + 1) - 1 = i
    BY <1>2, <1>4
  <2>2. reach[i + 1] = Wider(reach[i], l)
    BY <1>1, <2>1 DEF IsReach
  <2>3. Wider(reach[i], l) \subseteq S
    BY <1>4 DEF Wider
  <2> QED BY <2>1, <2>2, <2>3
<1>5. MaxNodes \in R
  <2> HIDE DEF R
  <2>1. MaxNodes \in 0 .. MaxNodes
    BY <1>2
  <2> QED BY <1>2, <1>3, <1>4, <2>1, UpTo
<1> QED BY <1>1, <1>5

\* What is reached are vertices, the start among them, and no link leaves them.
LEMMA SearchCloses == \A start \in Nodes, l \in Levels : GraphTyped =>
  /\ SearchLevel(start, l) \in SUBSET Nodes /\ start \in SearchLevel(start, l)
  /\ \A n \in SearchLevel(start, l) : Neighbors(n, l) \subseteq SearchLevel(start, l)
<1> SUFFICES ASSUME NEW start \in Nodes, NEW l \in Levels, GraphTyped
             PROVE  /\ SearchLevel(start, l) \in SUBSET Nodes /\ start \in SearchLevel(start, l)
                    /\ \A n \in SearchLevel(start, l) : Neighbors(n, l) \subseteq SearchLevel(start, l)
  OBVIOUS
<1>1. PICK reach \in [0 .. MaxNodes -> SUBSET Nodes] :
        IsReach(reach, start, l) /\ SearchLevel(start, l) = reach[MaxNodes]
  BY SearchIs
<1> DEFINE Shut(i) == \A n \in reach[i] : Neighbors(n, l) \subseteq reach[i]
           R       == {i \in 0 .. MaxNodes : /\ start \in reach[i]
                                             /\ Shut(i) \/ Cardinality(reach[i]) >= i + 1}
<1>2. MaxNodes \in Nat
  BY HnswAssumption
<1>3. \A i \in 0 .. MaxNodes : /\ reach[i] \in SUBSET Nodes /\ IsFiniteSet(reach[i])
                                /\ Cardinality(reach[i]) \in Nat
  <2>1. \A i \in 0 .. MaxNodes : reach[i] \in SUBSET Nodes
    OBVIOUS
  <2> QED BY <2>1, NodesFinite, FS_Subset, FS_CardinalityType
<1>4. 0 \in R
  <2>1. reach[0] = {start}
    BY <1>1, <1>2 DEF IsReach
  <2>2. Cardinality({start}) = 1
    BY FS_Singleton
  <2> QED BY <1>2, <2>1, <2>2
<1>5. ASSUME NEW i \in 0 .. MaxNodes, i \in R, i < MaxNodes PROVE i + 1 \in R
  <2>1. i + 1 \in 0 .. MaxNodes /\ i + 1 # 0 /\ (i + 1) - 1 = i /\ i \in Nat
    BY <1>2, <1>5
  <2>2. reach[i + 1] = Wider(reach[i], l)
    BY <1>1, <2>1 DEF IsReach
  <2>3. CASE Shut(i)
    <3>1. reach[i + 1] = reach[i]
      BY <2>2, <2>3 DEF Wider
    <3> QED BY <1>5, <2>1, <2>3, <3>1
  <2>4. CASE ~ Shut(i)
    <3>1. PICK m \in reach[i + 1] : m \notin reach[i]
      BY <2>2, <2>4 DEF Wider
    <3>2. reach[i] \subseteq reach[i + 1] /\ reach[i] # reach[i + 1] /\ start \in reach[i + 1]
      BY <1>5, <2>2, <3>1 DEF Wider
    <3>3. Cardinality(reach[i]) < Cardinality(reach[i + 1])
      <4>1. PICK A, B : A = reach[i] /\ B = reach[i + 1]
        OBVIOUS
      <4>2. IsFiniteSet(B) /\ A \in SUBSET B /\ A # B
        BY <1>3, <2>1, <3>2, <4>1
      <4>3. Cardinality(A) <= Cardinality(B) /\ Cardinality(A) # Cardinality(B)
        BY <4>2, FS_Subset
      <4>4. Cardinality(A) \in Nat /\ Cardinality(B) \in Nat
        BY <1>3, <2>1, <4>1
      <4> QED BY <4>1, <4>3, <4>4
    <3>4. Cardinality(reach[i]) >= i + 1
      BY <1>5, <2>4
    <3>5. Cardinality(reach[i + 1]) >= (i + 1) + 1
      BY <1>3, <2>1, <3>3, <3>4
    <3> QED BY <2>1, <3>2, <3>5
  <2> QED BY <2>3, <2>4
<1>6. MaxNodes \in R
  <2> HIDE DEF R
  <2>1. MaxNodes \in 0 .. MaxNodes
    BY <1>2
  <2> QED BY <1>2, <1>4, <1>5, <2>1, UpTo
<1>7. ~ (Cardinality(reach[MaxNodes]) >= MaxNodes + 1)
  <2>1. reach[MaxNodes] \in SUBSET Nodes /\ MaxNodes \in 0 .. MaxNodes
    BY <1>2, <1>3
  <2>2. Cardinality(Nodes) = MaxNodes
    <3>1. Cardinality(1 .. MaxNodes) = IF 1 > MaxNodes THEN 0 ELSE MaxNodes - 1 + 1
      BY <1>2, FS_Interval
    <3> QED BY <1>2, <3>1 DEF Nodes
  <2>3. Cardinality(reach[MaxNodes]) <= Cardinality(Nodes)
    BY <2>1, NodesFinite, FS_Subset
  <2>4. Cardinality(reach[MaxNodes]) \in Nat
    BY <1>3, <2>1
  <2> QED BY <1>2, <2>2, <2>3, <2>4
<1>8. Shut(MaxNodes) /\ start \in reach[MaxNodes]
  BY <1>6, <1>7
<1>9. reach[MaxNodes] \in SUBSET Nodes
  BY <1>2, <1>3
<1> QED BY <1>1, <1>8, <1>9

-----------------------------------------------------------------------------
(* Types, and the levels of links *)

Ops      == {"idle", "claim", "enter", "link", "compare", "raise", "reenter", "unlink"}
Activity == [op : Ops, node : Nodes \cup {NoNode}, at : Nodes \cup {NoNode}, lvl : Levels]

TypeInv ==
  /\ made \in 0 .. MaxNodes
  /\ pos \in [Nodes -> Points \cup {0}] /\ level \in [Nodes -> Levels]
  /\ deleted \subseteq 1 .. made
  /\ edges \in [Nodes -> [Levels -> SUBSET Nodes]]
  /\ entrypoint \in 0 .. made
  /\ work \in [Workers -> Activity]

\* Vertices that were made and have level l.
Tall(l) == {n \in 1 .. made : level[n] >= l}

\* What a worker has in hand was made, and the level it is at is one of both ends.
InHand(a) == /\ a.op = "idle" => a.node = NoNode
             /\ a.op # "idle" => a.node \in 1 .. made
             /\ a.op = "link" => a.at \in Tall(a.lvl) /\ a.node \in Tall(a.lvl)
             /\ a.op \in {"reenter", "unlink"} => a.node \in deleted /\ a.lvl <= level[a.node]

\* Links join vertices on levels that both have.
FitInv == /\ \A n \in Nodes, l \in Levels : edges[n][l] # {} => n \in Tall(l) /\ edges[n][l] \subseteq Tall(l)
          /\ \A w \in Workers : InHand(work[w])

\* The numbers of the model.
LEMMA Numbers ==
  /\ M \in Nat /\ M # 0 /\ MMax \in Nat /\ MMax0 \in Nat /\ M <= MMax /\ M <= MMax0
  /\ MaxNodes \in Nat /\ MaxLevel \in Nat /\ MaxRemoved \in Nat /\ MaxOverlaps \in Nat /\ 0 \in Levels
  /\ Levels \subseteq Nat /\ Nodes \subseteq Nat /\ Points \subseteq Nat /\ NoNode \notin Nodes
  /\ \A l \in Levels : l # 0 => l - 1 \in Levels /\ l - 1 <= l
BY HnswAssumption DEF Levels, Nodes, NoNode

\* The types of the model are those of a search.
LEMMA Typed ==
  ASSUME TypeInv
  PROVE  /\ GraphTyped
         /\ 1 .. made \subseteq Nodes /\ made \in Nat
         /\ \A n \in Nodes : pos[n] \in Nat /\ level[n] \in Levels
         /\ \A l \in Levels : Tall(l) \subseteq Nodes
<1>1. 1 .. made \subseteq Nodes /\ made \in Nat
  BY Numbers DEF TypeInv, Nodes
<1>2. \A n \in Nodes : pos[n] \in Nat /\ level[n] \in Levels
  BY Numbers DEF TypeInv
<1>3. GraphTyped
  BY <1>2 DEF TypeInv, GraphTyped
<1> QED BY <1>1, <1>2, <1>3 DEF Tall

\* A step that changes but one worker and the entrypoint.
LEMMA WorkStep ==
  ASSUME TypeInv, FitInv, NEW w \in Workers, NEW a \in Activity, InHand(a),
         UNCHANGED <<made, pos, level, deleted, edges>>, entrypoint' \in 0 .. made,
         work' = [work EXCEPT ![w] = a]
  PROVE  TypeInv' /\ FitInv'
<1>1. TypeInv'
  BY DEF TypeInv
<1>2. \A l : Tall(l)' = Tall(l)
  BY DEF Tall
<1>3. \A b : InHand(b) <=> InHand(b)'
  BY <1>2 DEF InHand
<1>4. \A v \in Workers : work'[v] = IF v = w THEN a ELSE work[v]
  BY DEF TypeInv
<1>5. \A v \in Workers : InHand(work'[v])
  BY <1>4 DEF FitInv
<1>6. \A n \in Nodes, l \in Levels : edges'[n][l] # {} => n \in Tall(l)' /\ edges'[n][l] \subseteq Tall(l)'
  BY <1>2 DEF FitInv
<1>7. \A v \in Workers : InHand(work[v])'
  BY <1>3, <1>5
<1> QED BY <1>1, <1>6, <1>7 DEF FitInv

\* So is one that takes links away, or adds links that fit.
LEMMA EdgeStep ==
  ASSUME TypeInv, FitInv, NEW w \in Workers, NEW a \in Activity, InHand(a),
         UNCHANGED <<made, pos, level, deleted>>, entrypoint' \in 0 .. made,
         work' = [work EXCEPT ![w] = a] \/ work' = work,
         edges' \in [Nodes -> [Levels -> SUBSET Nodes]],
         \A n \in Nodes, l \in Levels : \/ edges'[n][l] \subseteq edges[n][l]
                                        \/ n \in Tall(l) /\ edges'[n][l] \subseteq Tall(l)
  PROVE  TypeInv' /\ FitInv'
<1>1. TypeInv'
  BY DEF TypeInv
<1>2. \A l : Tall(l)' = Tall(l)
  BY DEF Tall
<1>3. \A b : InHand(b) <=> InHand(b)'
  BY <1>2 DEF InHand
<1>4. \A v \in Workers : work'[v] = a \/ work'[v] = work[v]
  BY DEF TypeInv
<1>5. \A v \in Workers : InHand(work'[v])
  BY <1>4 DEF FitInv
<1>6. ASSUME NEW n \in Nodes, NEW l \in Levels, edges'[n][l] # {}
      PROVE  n \in Tall(l) /\ edges'[n][l] \subseteq Tall(l)
  BY <1>6 DEF FitInv
<1>7. \A v \in Workers : InHand(work[v])'
  BY <1>3, <1>5
<1> QED BY <1>1, <1>2, <1>6, <1>7 DEF FitInv

\* A worker that does nothing has nothing in hand.
LEMMA IdleFits == Idle \in Activity /\ InHand(Idle)
BY Numbers DEF Idle, Activity, Ops, InHand

\* The fields of what a worker does.
LEMMA WorkTyped ==
  ASSUME TypeInv, FitInv, NEW w \in Workers
  PROVE  /\ work[w] \in Activity /\ InHand(work[w])
         /\ work[w].op # "idle" => work[w].node \in Nodes /\ work[w].node \in 1 .. made
         /\ work[w].lvl \in Levels
<1>1. work[w] \in Activity /\ InHand(work[w])
  BY DEF TypeInv, FitInv
<1> QED BY <1>1, Typed DEF Activity, InHand

\* The links of a level lead to vertices that have it.
LEMMA TallCloses ==
  ASSUME TypeInv, FitInv
  PROVE  /\ \A l \in Levels : \A n \in Tall(l) : Neighbors(n, l) \subseteq Tall(l)
         /\ \A l, m \in Levels : l <= m => Tall(m) \subseteq Tall(l)
<1>1. \A l \in Levels : \A n \in Tall(l) : Neighbors(n, l) \subseteq Tall(l)
  BY Typed DEF FitInv, Neighbors
<1>2. ASSUME NEW l \in Levels, NEW m \in Levels, l <= m, NEW n \in Tall(m) PROVE n \in Tall(l)
  <2>1. n \in 1 .. made /\ level[n] >= m /\ level[n] \in Nat /\ l \in Nat /\ m \in Nat
    BY Typed, Numbers DEF Tall
  <2> QED BY <1>2, <2>1 DEF Tall
<1> QED BY <1>1, <1>2

\* The greedy descent arrives at a vertex that was made and has the level, unless the
\* entrypoint has not.
LEMMA DescendFits ==
  ASSUME TypeInv, FitInv, NEW n \in Nodes, entrypoint # NoNode, NEW l \in Levels
  PROVE  /\ Descend(pos[n], entrypoint, l) \in Tall(0)
         /\ Descend(pos[n], entrypoint, l) \in Tall(l) \cup {entrypoint}
<1> DEFINE T == [m \in Levels |-> Tall(m)]
<1>1. GraphTyped /\ pos[n] \in Nat /\ entrypoint \in 1 .. made /\ entrypoint \in Nodes
  BY Typed, Numbers DEF TypeInv, NoNode
<1>2. T \in [Levels -> SUBSET Nodes]
  BY Typed
<1>3. /\ \A m \in Levels : \A x \in T[m] : Neighbors(x, m) \subseteq T[m]
      /\ \A m, k \in Levels : m <= k => T[k] \subseteq T[m]
  BY TallCloses
<1>4. level[entrypoint] \in Levels /\ level[entrypoint] \in Nat
  BY <1>1, Typed, Numbers
<1>5. entrypoint \in T[level[entrypoint]]
  BY <1>1, <1>4 DEF Tall
<1>6. Descend(pos[n], entrypoint, l) \in T[l] \cup {entrypoint}
  <2> HIDE DEF T
  <2> QED BY <1>1, <1>2, <1>3, <1>5, DescendStays
<1>7. entrypoint \in Tall(0) /\ Tall(l) \subseteq Tall(0)
  BY <1>1, <1>4, Numbers, TallCloses DEF Tall
<1> QED BY <1>6, <1>7

\* The lesser of two numbers is one of them.
LEMMA LesserOf ==
  ASSUME NEW a \in Nat, NEW b \in Nat
  PROVE  Min({a, b}) \in {a, b} /\ Min({a, b}) <= a /\ Min({a, b}) <= b
<1>1. \E x \in {a, b} : \A y \in {a, b} : x <= y
  OBVIOUS
<1> QED BY <1>1 DEF Min

\* So is the greater.
LEMMA GreaterOf ==
  ASSUME NEW a \in Nat, NEW b \in Nat
  PROVE  Max({a, b}) \in {a, b} /\ Max({a, b}) >= a /\ Max({a, b}) >= b
<1>1. \E x \in {a, b} : \A y \in {a, b} : x >= y
  OBVIOUS
<1> QED BY <1>1 DEF Max

\* The types and the levels hold of an empty index.
LEMMA InitFits == Init => TypeInv /\ FitInv
<1> SUFFICES ASSUME Init PROVE TypeInv /\ FitInv
  OBVIOUS
<1>1. TypeInv
  <2>1. made \in 0 .. MaxNodes /\ deleted \subseteq 1 .. made /\ entrypoint \in 0 .. made
    BY Numbers DEF Init, NoNode
  <2>2. pos \in [Nodes -> Points \cup {0}] /\ level \in [Nodes -> Levels] /\ work \in [Workers -> Activity]
    BY Numbers, IdleFits DEF Init
  <2>3. edges \in [Nodes -> [Levels -> SUBSET Nodes]]
    BY DEF Init
  <2> QED BY <2>1, <2>2, <2>3 DEF TypeInv
<1>2. FitInv
  BY IdleFits DEF Init, FitInv
<1> QED BY <1>1, <1>2

\* A new vertex has no links, and changes nobody's level.
LEMMA StoreFits ==
  ASSUME TypeInv, FitInv, NEW w \in Workers, NEW p \in Points, NEW lvl \in Levels, InsertStore(w, p, lvl)
  PROVE  TypeInv' /\ FitInv'
<1> DEFINE n == made + 1
           a == [Idle EXCEPT !.op = IF entrypoint = NoNode THEN "claim" ELSE "enter", !.node = n]
<1>1. /\ made' = n /\ made < MaxNodes /\ made \in Nat /\ n \in Nodes /\ n \notin 1 .. made /\ n \in 1 .. n
      /\ n \in 0 .. MaxNodes /\ 1 .. made \subseteq 1 .. n /\ 0 .. made \subseteq 0 .. n
  BY Numbers DEF InsertStore, TypeInv, Nodes
<1>2. /\ pos' = [pos EXCEPT ![n] = p]
      /\ level' = [level EXCEPT ![n] = IF entrypoint = NoNode THEN 0 ELSE lvl]
      /\ work' = [work EXCEPT ![w] = a]
      /\ UNCHANGED <<deleted, edges, entrypoint>>
  BY DEF InsertStore
<1>3. a \in Activity /\ a.op \in {"claim", "enter"} /\ a.node = n
  BY <1>1, Numbers DEF Idle, Activity, Ops
<1> HIDE DEF a
<1>4. TypeInv'
  <2>1. pos' \in [Nodes -> Points \cup {0}]
    BY <1>2 DEF TypeInv
  <2>2. level' \in [Nodes -> Levels]
    BY <1>2, Numbers DEF TypeInv
  <2>3. work' \in [Workers -> Activity]
    BY <1>2, <1>3 DEF TypeInv
  <2> HIDE DEF n
  <2> QED BY <1>1, <1>2, <2>1, <2>2, <2>3 DEF TypeInv
<1>5. \A m \in 1 .. made : level'[m] = level[m]
  BY <1>1, <1>2, Typed DEF TypeInv
<1>6. \A l : Tall(l) \subseteq Tall(l)'
  BY <1>1, <1>5 DEF Tall
<1>7. \A l : n \notin Tall(l)
  BY <1>1 DEF Tall
<1>8. \A m \in Nodes, l \in Levels : edges'[m][l] # {} => m \in Tall(l)' /\ edges'[m][l] \subseteq Tall(l)'
  BY <1>2, <1>6 DEF FitInv
<1>9. ASSUME NEW v \in Workers PROVE InHand(work[v])'
  <2>1. CASE v = w
    <3>1. work'[v] = a
      BY <1>2, <2>1 DEF TypeInv
    <3> QED BY <1>1, <1>3, <3>1 DEF InHand
  <2>2. CASE v # w
    <3>1. work'[v] = work[v] /\ InHand(work[v])
      BY <1>2, <2>2 DEF TypeInv, FitInv
    <3>2. deleted' = deleted /\ deleted \subseteq 1 .. made
      BY <1>2 DEF TypeInv
    <3>3. work[v].op \in {"reenter", "unlink"} => level'[work[v].node] = level[work[v].node]
      BY <1>5, <3>1, <3>2 DEF InHand
    <3> HIDE DEF n
    <3> QED BY <1>1, <1>6, <3>1, <3>2, <3>3 DEF InHand
  <2> QED BY <2>1, <2>2
<1> QED BY <1>4, <1>8, <1>9 DEF FitInv

\* The entrypoint that is claimed was made.
LEMMA ClaimFits ==
  ASSUME TypeInv, FitInv, NEW w \in Workers, InsertClaim(w)
  PROVE  TypeInv' /\ FitInv'
<1>1. /\ work[w].op = "claim" /\ UNCHANGED <<made, pos, level, deleted, edges>>
  BY DEF InsertClaim
<1>2. work[w] \in Activity /\ InHand(work[w]) /\ work[w].node \in 1 .. made
  BY <1>1, WorkTyped
<1>3. CASE entrypoint = NoNode
  <2>1. entrypoint' = work[w].node /\ work' = [work EXCEPT ![w] = Idle]
    BY <1>3 DEF InsertClaim
  <2>2. entrypoint' \in 0 .. made
    BY <1>2, <2>1, Typed
  <2> QED BY <1>1, <2>1, <2>2, IdleFits, WorkStep
<1>4. CASE entrypoint # NoNode
  <2> DEFINE a == [work[w] EXCEPT !.op = "enter"]
  <2>1. entrypoint' = entrypoint /\ work' = [work EXCEPT ![w] = a]
    BY <1>4 DEF InsertClaim
  <2>2. a \in Activity /\ InHand(a)
    BY <1>2 DEF Activity, Ops, InHand
  <2>3. entrypoint' \in 0 .. made
    BY <2>1 DEF TypeInv
  <2> HIDE DEF a
  <2> QED BY <1>1, <2>1, <2>2, <2>3, WorkStep
<1> QED BY <1>3, <1>4

\* The level that linking begins on is one of both vertices.
LEMMA EnterFits ==
  ASSUME TypeInv, FitInv, NEW w \in Workers, InsertEnter(w)
  PROVE  TypeInv' /\ FitInv'
<1> DEFINE n  == work[w].node
           at == Descend(pos[n], entrypoint, level[n])
           a  == [work[w] EXCEPT !.op = "link", !.at = at, !.lvl = TopLevel(at, n)]
<1>1. /\ work[w].op = "enter" /\ entrypoint # NoNode /\ UNCHANGED <<made, pos, level, deleted, edges, entrypoint>>
      /\ work' = [work EXCEPT ![w] = a]
  BY DEF InsertEnter, graph
<1>2. work[w] \in Activity /\ n \in 1 .. made /\ n \in Nodes
  BY <1>1, WorkTyped
<1>3. level[n] \in Levels
  BY <1>2, Typed
<1>4. at \in Tall(0)
  BY <1>1, <1>2, <1>3, DescendFits
<1>5. at \in Nodes /\ level[at] \in Levels /\ at \in 1 .. made
  BY <1>4, Typed DEF Tall
<1> HIDE DEF at, n
<1>6. TopLevel(at, n) \in {level[at], level[n]} /\ TopLevel(at, n) <= level[at] /\ TopLevel(at, n) <= level[n]
  BY <1>3, <1>5, LesserOf, Numbers DEF TopLevel
<1>7. TopLevel(at, n) \in Levels /\ at \in Tall(TopLevel(at, n)) /\ n \in Tall(TopLevel(at, n))
  BY <1>2, <1>3, <1>5, <1>6, Numbers DEF Tall
<1>8. a \in Activity /\ a.op = "link" /\ a.at = at /\ a.lvl = TopLevel(at, n) /\ a.node = n
  BY <1>2, <1>5, <1>7 DEF Activity, Ops, n
<1> HIDE DEF a
<1>9. InHand(a)
  BY <1>2, <1>7, <1>8 DEF InHand
<1>10. entrypoint' \in 0 .. made
  BY <1>1 DEF TypeInv
<1> QED BY <1>1, <1>8, <1>9, <1>10, WorkStep

\* The vertex that takes the place of a removed entrypoint is a neighbor, if there is one.
LEMMA SuccessorIs ==
  ASSUME TypeInv, FitInv, NEW n \in Nodes
  PROVE  /\ Successor(n) \in 0 .. made
         /\ \/ Successor(n) = NoNode /\ \A l \in 0 .. level[n] : edges[n][l] = {}
            \/ \E l \in 0 .. level[n] : l \in Levels /\ Successor(n) \in edges[n][l]
<1> DEFINE tops == {l \in 0 .. level[n] : edges[n][l] # {}}
<1>1. level[n] \in Levels /\ level[n] \in Nat /\ level[n] <= MaxLevel /\ 0 .. level[n] \subseteq Levels
  BY Typed, Numbers DEF Levels
<1>2. CASE tops = {}
  BY <1>2, Typed DEF Successor, NoNode
<1>3. CASE tops # {}
  <2> DEFINE top == Max(tops)
  <2>1. \E x \in tops : \A y \in tops : x >= y
    <3> DEFINE D == {level[n] - l : l \in tops}
    <3>1. D \in SUBSET Nat /\ D # {}
      BY <1>1, <1>3
    <3>2. PICK k \in D : \A m \in D : k <= m
      <4> HIDE DEF D
      <4> QED BY <3>1, HasLeast
    <3>3. PICK x \in tops : k = level[n] - x
      BY <3>2
    <3>4. \A y \in tops : level[n] - x <= level[n] - y
      BY <3>2, <3>3
    <3>5. \A y \in tops : x >= y
      BY <1>1, <3>4
    <3> QED BY <3>5
  <2>2. top \in tops
    <3> HIDE DEF tops
    <3> QED BY <2>1 DEF Max
  <2>3. top \in 0 .. level[n] /\ top \in Levels /\ edges[n][top] # {} /\ edges[n][top] \in SUBSET Nodes
    <3> HIDE DEF top
    <3> QED BY <1>1, <2>2 DEF TypeInv
  <2>4. Successor(n) = NearestOf(edges[n][top], pos[n])
    BY <1>3 DEF Successor
  <2> HIDE DEF top
  <2>5. Successor(n) \in edges[n][top]
    BY <2>3, <2>4, Typed, NearestIs
  <2>6. edges[n][top] \subseteq 1 .. made
    BY <2>3 DEF FitInv, Tall
  <2>7. Successor(n) \in 0 .. made
    BY <2>5, <2>6, Typed
  <2> QED BY <2>3, <2>5, <2>7
<1> QED BY <1>2, <1>3

\* Steps that end a call, or go on with the same vertex.
LEMMA OtherFits ==
  ASSUME TypeInv, FitInv, NEW w \in Workers,
         InsertPanics(w) \/ InsertCompare(w) \/ InsertRaise(w) \/ RemoveReenter(w)
  PROVE  TypeInv' /\ FitInv'
<1>1. work[w] \in Activity /\ InHand(work[w]) /\ work[w].node \in 1 .. made /\ work[w].node \in Nodes
  BY WorkTyped DEF InsertPanics, InsertCompare, InsertRaise, RemoveReenter
<1>2. CASE InsertPanics(w)
  <2>1. UNCHANGED <<made, pos, level, deleted, edges>> /\ entrypoint' \in 0 .. made /\ work' = [work EXCEPT ![w] = Idle]
    BY <1>2 DEF InsertPanics, graph, TypeInv
  <2> QED BY <2>1, IdleFits, WorkStep
<1>3. CASE InsertCompare(w)
  <2> DEFINE a == [work[w] EXCEPT !.op = "raise"]
  <2>1. UNCHANGED <<made, pos, level, deleted, edges>> /\ entrypoint' \in 0 .. made
    BY <1>3 DEF InsertCompare, graph, TypeInv
  <2>2. work' = [work EXCEPT ![w] = a] \/ work' = [work EXCEPT ![w] = Idle]
    BY <1>3 DEF InsertCompare
  <2>3. a \in Activity /\ a.op = "raise" /\ a.node = work[w].node
    BY <1>1 DEF Activity, Ops
  <2> HIDE DEF a
  <2>4. InHand(a)
    BY <1>1, <2>3 DEF InHand
  <2> QED BY <2>1, <2>2, <2>3, <2>4, IdleFits, WorkStep
<1>4. CASE InsertRaise(w)
  <2>1. UNCHANGED <<made, pos, level, deleted, edges>> /\ entrypoint' = work[w].node /\ work' = [work EXCEPT ![w] = Idle]
    BY <1>4 DEF InsertRaise
  <2>2. entrypoint' \in 0 .. made
    BY <1>1, <2>1, Typed
  <2> QED BY <2>1, <2>2, IdleFits, WorkStep
<1>5. CASE RemoveReenter(w)
  <2> DEFINE a == [work[w] EXCEPT !.op = "unlink"]
             n == work[w].node
  <2>1. UNCHANGED <<made, pos, level, deleted, edges>> /\ work' = [work EXCEPT ![w] = a]
    BY <1>5 DEF RemoveReenter
  <2>2. work[w].op = "reenter" /\ entrypoint' = IF entrypoint = n THEN Successor(n) ELSE entrypoint
    BY <1>5 DEF RemoveReenter
  <2>3. a \in Activity /\ InHand(a)
    BY <1>1, <2>2 DEF Activity, Ops, InHand
  <2>4. Successor(n) \in 0 .. made
    BY <1>1, SuccessorIs
  <2>5. entrypoint' \in 0 .. made
    BY <2>2, <2>4 DEF TypeInv
  <2> HIDE DEF a
  <2> QED BY <2>1, <2>3, <2>5, WorkStep
<1> QED BY <1>2, <1>3, <1>4, <1>5

\* Of some vertices, the nearest k, if k is not 0, are some.
LEMMA NearestSome ==
  ASSUME GraphTyped, NEW S \in SUBSET Nodes, S # {}, NEW p \in Nat, NEW k \in Nat, k # 0
  PROVE  Nearest(S, p, k) # {} /\ Nearest(S, p, k) \in SUBSET Nodes /\ Nearest(S, p, k) \subseteq S
<1> DEFINE s == NearestOf(S, p)
           T == {t \in S : Distance(p, pos[t]) < Distance(p, pos[s])}
<1>1. s \in S /\ \A t \in S : Distance(p, pos[s]) <= Distance(p, pos[t])
  BY NearestIs
<1>2. \A t \in S : Distance(p, pos[t]) \in Nat
  BY DistanceNat DEF GraphTyped
<1>3. T = {}
  <2> HIDE DEF s
  <2> QED BY <1>1, <1>2
<1>4. Cardinality(T) = 0
  BY <1>3, FS_EmptySet
<1>5. s \in Nearest(S, p, k)
  BY <1>1, <1>4 DEF Nearest
<1> QED BY <1>5 DEF Nearest

\* What a vertex keeps of its neighbors was among them.
LEMMA PrunedIs == \A x, l, S : Pruned(x, S, l) \subseteq S \ deleted
BY DEF Pruned, Nearest

\* A vertex gets at most the one new neighbor.
LEMMA LinkedIs == \A x, n, l : Linked(x, n, l) \subseteq edges[x][l] \cup {n}
BY PrunedIs DEF Linked

\* What is linked on a level was found on it, and so was where the next is entered.
LEMMA LinkFits ==
  ASSUME TypeInv, FitInv, NEW w \in Workers, InsertLink(w)
  PROVE  TypeInv' /\ FitInv'
<1> DEFINE n == work[w].node
           l == work[w].lvl
           R == SearchLevel(work[w].at, l)
           S == Nearest(R, pos[n], M)
           a == IF l = 0 THEN [Idle EXCEPT !.op = "compare", !.node = n]
                         ELSE [work[w] EXCEPT !.at = NearestOf(S, pos[n]), !.lvl = l - 1]
<1>1. /\ work[w].op = "link" /\ UNCHANGED <<made, pos, level, deleted, entrypoint>>
      /\ work' = [work EXCEPT ![w] = a]
      /\ edges' = [x \in Nodes |->
                     IF x = n THEN [edges[n] EXCEPT ![l] = @ \cup S]
                     ELSE IF x \in S THEN [edges[x] EXCEPT ![l] = Linked(x, n, l)]
                     ELSE edges[x]]
  BY DEF InsertLink
<1>2. /\ work[w] \in Activity /\ n \in 1 .. made /\ n \in Nodes /\ l \in Levels
      /\ work[w].at \in Tall(l) /\ n \in Tall(l) /\ work[w].at \in Nodes
  BY <1>1, WorkTyped, Typed DEF InHand, Tall
<1>3. R # {} /\ R \subseteq Tall(l) /\ R \in SUBSET Nodes
  <2>1. GraphTyped /\ Tall(l) \in SUBSET Nodes
    BY <1>2, Typed
  <2>2. \A x \in Tall(l) : Neighbors(x, l) \subseteq Tall(l)
    BY <1>2, TallCloses
  <2>3. SearchLevel(work[w].at, l) \subseteq Tall(l)
    BY <1>2, <2>1, <2>2, SearchStays
  <2>4. work[w].at \in SearchLevel(work[w].at, l)
    BY <1>2, <2>1, SearchCloses
  <2> QED BY <2>1, <2>3, <2>4
<1> HIDE DEF R
<1>4. S # {} /\ S \subseteq R /\ S \subseteq Tall(l) /\ S \in SUBSET Nodes /\ NearestOf(S, pos[n]) \in S
  <2>1. GraphTyped /\ pos[n] \in Nat
    BY <1>2, Typed
  <2>2. S # {} /\ S \subseteq R /\ S \in SUBSET Nodes
    BY <1>3, <2>1, NearestSome, Numbers
  <2> QED BY <1>3, <2>1, <2>2, NearestIs
<1> HIDE DEF S
<1>5. \A x \in Nodes : edges[x] \in [Levels -> SUBSET Nodes]
  BY DEF TypeInv
<1>6. \A x \in Nodes : Linked(x, n, l) \in SUBSET Nodes
  <2>1. \A x \in Nodes : edges[x][l] \in SUBSET Nodes
    BY <1>2, <1>5
  <2> QED BY <1>2, <2>1, LinkedIs
<1> DEFINE m == NearestOf(S, pos[n])
<1>7. m \in Tall(l) /\ m \in Nodes
  BY <1>4
<1> HIDE DEF n, l, m
<1>8. edges' \in [Nodes -> [Levels -> SUBSET Nodes]]
  BY <1>1, <1>2, <1>4, <1>5, <1>6
<1>9. \A x \in Nodes, k \in Levels : \/ edges'[x][k] \subseteq edges[x][k]
                                     \/ x \in Tall(k) /\ edges'[x][k] \subseteq Tall(k)
  <2> SUFFICES ASSUME NEW x \in Nodes, NEW k \in Levels
               PROVE  \/ edges'[x][k] \subseteq edges[x][k]
                      \/ x \in Tall(k) /\ edges'[x][k] \subseteq Tall(k)
    OBVIOUS
  <2>1. edges[x][k] \subseteq Tall(k)
    BY DEF FitInv
  <2>2. CASE k # l
    <3>1. edges'[x][k] = edges[x][k]
      BY <1>1, <1>2, <1>5, <2>2
    <3> QED BY <3>1
  <2>3. CASE k = l /\ x = n
    <3>1. edges'[x][k] = edges[x][k] \cup S
      BY <1>1, <1>2, <1>5, <2>3
    <3> QED BY <1>2, <1>4, <2>1, <2>3, <3>1
  <2>4. CASE k = l /\ x # n /\ x \in S
    <3>1. edges'[x][k] = Linked(x, n, l)
      BY <1>1, <1>2, <1>5, <2>4
    <3> QED BY <1>2, <1>4, <2>1, <2>4, <3>1, LinkedIs
  <2>5. CASE x # n /\ x \notin S
    <3>1. edges'[x][k] = edges[x][k]
      BY <1>1, <2>5
    <3> QED BY <3>1
  <2> QED BY <2>2, <2>3, <2>4, <2>5
<1>10. a \in Activity /\ InHand(a)
  <2>1. CASE l = 0
    <3>1. a.op = "compare" /\ a.node = n /\ a \in Activity
      BY <1>2, <2>1, Numbers DEF Idle, Activity, Ops
    <3> QED BY <1>2, <3>1 DEF InHand
  <2>2. CASE l # 0
    <3>1. l - 1 \in Levels /\ l - 1 <= l
      BY <1>2, <2>2, Numbers
    <3>2. m \in Tall(l - 1) /\ n \in Tall(l - 1)
      BY <1>2, <1>7, <3>1, TallCloses
    <3>3. /\ a \in Activity /\ a.op = "link" /\ a.node = n /\ a.at = m /\ a.lvl = l - 1
      <4>1. a = [work[w] EXCEPT !.at = m, !.lvl = l - 1]
        BY <2>2 DEF m
      <4> HIDE DEF a
      <4> QED BY <1>1, <1>2, <1>7, <3>1, <4>1 DEF Activity, n
    <3> HIDE DEF a
    <3> QED BY <1>2, <3>2, <3>3 DEF InHand
  <2> QED BY <2>1, <2>2
<1>11. entrypoint' \in 0 .. made
  BY <1>1 DEF TypeInv
<1> HIDE DEF a
<1> QED BY <1>1, <1>8, <1>9, <1>10, <1>11, EdgeStep

\* A removal changes no link yet.
LEMMA RemoveFits ==
  ASSUME TypeInv, FitInv, NEW w \in Workers, NEW n \in Nodes, RemoveVertex(w, n)
  PROVE  TypeInv' /\ FitInv'
<1> DEFINE a == [Idle EXCEPT !.op = "reenter", !.node = n, !.lvl = level[n]]
<1>1. /\ n \in Live /\ deleted' = deleted \cup {n} /\ UNCHANGED <<made, pos, level, edges, entrypoint>>
      /\ work' = [work EXCEPT ![w] = a]
  BY DEF RemoveVertex
<1>2. n \in 1 .. made /\ level[n] \in Levels /\ level[n] \in Nat
  BY <1>1, Typed, Numbers DEF Live
<1>3. a \in Activity /\ a.op = "reenter" /\ a.node = n /\ a.lvl = level[n]
  BY <1>2, Numbers DEF Idle, Activity, Ops
<1> HIDE DEF a
<1>4. TypeInv'
  BY <1>1, <1>2, <1>3 DEF TypeInv
<1>5. \A l : Tall(l)' = Tall(l)
  BY <1>1 DEF Tall
<1>6. ASSUME NEW v \in Workers PROVE InHand(work[v])'
  <2>1. CASE v = w
    <3>1. work'[v] = a
      BY <1>1, <2>1 DEF TypeInv
    <3> QED BY <1>1, <1>2, <1>3, <3>1 DEF InHand
  <2>2. CASE v # w
    <3>1. work'[v] = work[v] /\ InHand(work[v])
      BY <1>1, <2>2 DEF TypeInv, FitInv
    <3> QED BY <1>1, <1>5, <3>1 DEF InHand
  <2> QED BY <2>1, <2>2
<1> QED BY <1>1, <1>4, <1>5, <1>6 DEF FitInv

\* To unlink takes links away.
LEMMA UnlinkFits ==
  ASSUME TypeInv, FitInv, NEW w \in Workers, RemoveUnlink(w)
  PROVE  TypeInv' /\ FitInv'
<1> DEFINE n == work[w].node
           l == work[w].lvl
           a == IF l = 0 THEN Idle ELSE [work[w] EXCEPT !.lvl = l - 1]
<1>1. /\ work[w].op = "unlink" /\ UNCHANGED <<made, pos, level, deleted, entrypoint>>
      /\ edges' = [x \in Nodes |->
                 IF x \in edges[n][l]
                   THEN [edges[x] EXCEPT ![l] = Pruned(x, edges[x][l] \ {n}, l)] ELSE edges[x]]
      /\ work' = [work EXCEPT ![w] = a]
  BY DEF RemoveUnlink
<1>2. work[w] \in Activity /\ InHand(work[w]) /\ n \in Nodes /\ l \in Levels /\ n \in 1 .. made
  BY <1>1, WorkTyped
<1>3. a \in Activity /\ InHand(a)
  <2>1. CASE l = 0
    BY <2>1, IdleFits
  <2>2. CASE l # 0
    <3> DEFINE b == [work[w] EXCEPT !.lvl = l - 1]
    <3>1. l - 1 \in Levels /\ l - 1 <= l /\ l \in Nat /\ level[n] \in Nat
      BY <1>2, <2>2, Typed, Numbers
    <3>2. b \in Activity /\ b.op = "unlink" /\ b.node = n /\ b.lvl = l - 1
      BY <1>1, <1>2, <3>1 DEF Activity
    <3>3. n \in deleted /\ l <= level[n]
      BY <1>1, <1>2 DEF InHand
    <3> HIDE DEF b, n, l
    <3>4. b.lvl <= level[n]
      BY <3>1, <3>2, <3>3, Numbers
    <3>5. InHand(b)
      BY <1>2, <3>2, <3>3, <3>4 DEF InHand
    <3> QED BY <2>2, <3>2, <3>5 DEF b
  <2> QED BY <2>1, <2>2
<1>4. \A x \in Nodes : edges[x] \in [Levels -> SUBSET Nodes]
  BY DEF TypeInv
<1> HIDE DEF a, n, l
<1>5. \A x \in Nodes, k \in Levels : edges'[x][k] \subseteq edges[x][k]
  BY <1>1, <1>2, <1>4, PrunedIs
<1>6. \A x \in Nodes : edges'[x] \in [Levels -> SUBSET Nodes]
  <2> TAKE x \in Nodes
  <2>1. edges'[x] \in [Levels -> SUBSET Nodes] \/ edges'[x] = [edges[x] EXCEPT ![l] = Pruned(x, edges[x][l] \ {n}, l)]
    BY <1>1, <1>4
  <2>2. Pruned(x, edges[x][l] \ {n}, l) \in SUBSET Nodes
    <3>1. edges[x][l] \in SUBSET Nodes
      BY <1>2, <1>4
    <3> QED BY <3>1, PrunedIs
  <2> QED BY <1>2, <1>4, <2>1, <2>2
<1>7. edges' \in [Nodes -> [Levels -> SUBSET Nodes]]
  <2>1. edges' = [x \in Nodes |-> edges'[x]]
    BY <1>1
  <2> QED BY <1>6, <2>1
<1>8. entrypoint' \in 0 .. made
  BY <1>1 DEF TypeInv
<1> QED BY <1>1, <1>3, <1>5, <1>7, <1>8, EdgeStep

\* A snapshot that is read back has some of the links.
LEMMA ReloadFits == TypeInv /\ FitInv /\ Reload => TypeInv' /\ FitInv'
<1> SUFFICES ASSUME TypeInv, FitInv, Reload PROVE TypeInv' /\ FitInv'
  OBVIOUS
<1>1. /\ edges' = [n \in Nodes |-> [l \in Levels |-> Saved(n, l)]]
      /\ entrypoint' = IF entrypoint \in Live THEN entrypoint ELSE NoNode
      /\ UNCHANGED <<made, pos, level, deleted, work>>
  BY DEF Reload
<1>2. \A n \in Nodes, l \in Levels : Saved(n, l) \subseteq edges[n][l] /\ Saved(n, l) \in SUBSET Nodes
  BY DEF Saved, Neighbors, TypeInv
<1>3. edges' \in [Nodes -> [Levels -> SUBSET Nodes]]
  BY <1>1, <1>2
<1>4. \A n \in Nodes, l \in Levels : edges'[n][l] \subseteq edges[n][l]
  BY <1>1, <1>2
<1>5. entrypoint' \in 0 .. made
  BY <1>1, Typed DEF TypeInv, NoNode
<1>6. TypeInv'
  BY <1>1, <1>3, <1>5 DEF TypeInv
<1>7. \A l : Tall(l)' = Tall(l)
  BY <1>1 DEF Tall
<1>8. \A v \in Workers : InHand(work[v])'
  BY <1>1, <1>7 DEF InHand, FitInv
<1>9. \A n \in Nodes, l \in Levels : edges'[n][l] # {} => n \in Tall(l) /\ edges'[n][l] \subseteq Tall(l)
  BY <1>4 DEF FitInv
<1> QED BY <1>6, <1>7, <1>8, <1>9 DEF FitInv

\* Whatever the index does, links join vertices on levels that both have.
LEMMA NextFits == TypeInv /\ FitInv /\ [Next]_vars => TypeInv' /\ FitInv'
<1> SUFFICES ASSUME TypeInv, FitInv, [Next]_vars PROVE TypeInv' /\ FitInv'
  OBVIOUS
<1>1. CASE Reload
  BY <1>1, ReloadFits
<1>2. ASSUME NEW w \in Workers, Insert(w) PROVE TypeInv' /\ FitInv'
  <2>1. ASSUME NEW p \in Points, NEW lvl \in Levels, InsertStore(w, p, lvl) PROVE TypeInv' /\ FitInv'
    BY <2>1, StoreFits
  <2>2. CASE InsertClaim(w)
    BY <2>2, ClaimFits
  <2>3. CASE InsertEnter(w)
    BY <2>3, EnterFits
  <2>4. CASE InsertLink(w)
    BY <2>4, LinkFits
  <2>5. CASE InsertPanics(w) \/ InsertCompare(w) \/ InsertRaise(w)
    BY <2>5, OtherFits
  <2> QED BY <1>2, <2>1, <2>2, <2>3, <2>4, <2>5 DEF Insert
<1>3. ASSUME NEW w \in Workers, Remove(w) PROVE TypeInv' /\ FitInv'
  <2>1. ASSUME NEW n \in Nodes, RemoveVertex(w, n) PROVE TypeInv' /\ FitInv'
    BY <2>1, RemoveFits
  <2>2. CASE RemoveReenter(w)
    BY <2>2, OtherFits
  <2>3. CASE RemoveUnlink(w)
    BY <2>3, UnlinkFits
  <2> QED BY <1>3, <2>1, <2>2, <2>3 DEF Remove
<1>4. CASE UNCHANGED vars
  <2>1. UNCHANGED <<made, pos, level, deleted, edges, entrypoint, work>>
    BY <1>4 DEF vars, graph
  <2>2. \A l : Tall(l)' = Tall(l)
    BY <2>1 DEF Tall
  <2>3. \A v \in Workers : InHand(work[v])'
    BY <2>1, <2>2 DEF InHand, FitInv
  <2>4. TypeInv'
    BY <2>1 DEF TypeInv
  <2> QED BY <2>1, <2>2, <2>3, <2>4 DEF FitInv
<1> QED BY <1>1, <1>2, <1>3, <1>4 DEF Next

\* So they always do.
LEMMA AlwaysFits == Spec => [](TypeInv /\ FitInv)
BY InitFits, NextFits, PTL DEF Spec

\* Every variable of the index stays in its type, whatever overlaps.
THEOREM HnswTypes == Spec => []TypeOK
<1>1. TypeInv /\ FitInv => TypeOK
  <2> SUFFICES ASSUME TypeInv, FitInv PROVE TypeOK
    OBVIOUS
  <2>1. \A w \in Workers : work[w].node \in 0 .. made /\ work[w].lvl \in Levels
    <3> TAKE w \in Workers
    <3>1. work[w] \in Activity /\ InHand(work[w])
      BY WorkTyped
    <3> QED BY <3>1, Typed DEF InHand, Activity, NoNode
  <2> QED BY <2>1 DEF TypeInv, TypeOK
<1> QED BY <1>1, AlwaysFits, PTL

\* No vertex has links on a level it has not.
THEOREM LinksFitLevels == Spec => []EdgesFit
<1>1. TypeInv /\ FitInv => EdgesFit
  BY DEF FitInv, EdgesFit, Tall
<1> QED BY <1>1, AlwaysFits, PTL

-----------------------------------------------------------------------------
(* Degrees *)

\* Every vertex has a vector of its own.
PosInv == /\ \A n \in 1 .. made : pos[n] \in Points
          /\ \A m, n \in 1 .. made : pos[m] = pos[n] => m = n

\* No vertex has too many neighbors.
Slim == \A n \in Nodes, l \in Levels : Cardinality(edges[n][l]) <= MaxDegree(l)

\* What is yet to be linked has no links.
Fresh(a) == /\ a.op \in {"claim", "enter"} => \A l \in Levels : edges[a.node][l] = {}
            /\ a.op = "link" => \A l \in Levels : l <= a.lvl => edges[a.node][l] = {}

\* One change at a time.
Alone == \A v, w \in Workers : work[v].op # "idle" /\ work[w].op # "idle" => v = w

DegInv == /\ PosInv /\ overlaps \in Nat
          /\ overlaps = 0 => Slim /\ Alone /\ \A w \in Workers : Fresh(work[w])

\* No bound on degrees is below m.
LEMMA MaxDegreeIs == \A l : MaxDegree(l) \in Nat /\ M <= MaxDegree(l)
BY Numbers DEF MaxDegree

\* Two vertices are never equally far from a point.
LEMMA DistancesDiffer ==
  ASSUME TypeInv, PosInv, NEW p \in Points, NEW s \in 1 .. made, NEW t \in 1 .. made, s # t
  PROVE  /\ Distance(p, pos[s]) # Distance(p, pos[t])
         /\ Distance(p, pos[s]) \in Nat /\ Distance(p, pos[t]) \in Nat
<1>1. \E q, r \in Points : q = pos[s] /\ r = pos[t] /\ q # r
  BY DEF PosInv
<1>2. PICK q \in Points, r \in Points : q = pos[s] /\ r = pos[t] /\ q # r
  BY <1>1
<1>3. p \in Nat /\ q \in Nat /\ r \in Nat
  BY Numbers
<1>4. q < p /\ p < r => p - q # r - p
  BY <1>2, <1>3, HnswAssumption
<1>5. r < p /\ p < q => p - r # q - p
  BY <1>2, <1>3, HnswAssumption
<1>6. Distance(p, q) # Distance(p, r)
  BY <1>2, <1>3, <1>4, <1>5 DEF Distance
<1> QED BY <1>2, <1>3, <1>6, DistanceNat

\* The nearest k are at most k.
LEMMA NearestFew ==
  ASSUME TypeInv, PosInv, NEW S \in SUBSET (1 .. made), NEW p \in Points, NEW k \in Nat
  PROVE  Cardinality(Nearest(S, p, k)) <= k
<1> DEFINE d(t) == Distance(p, pos[t])
           N    == Nearest(S, p, k)
           Nearer(s) == {t \in S : d(t) < d(s)}
<1>1. S \in SUBSET Nodes /\ N \subseteq S /\ IsFiniteSet(S) /\ IsFiniteSet(N)
  <2>1. S \in SUBSET Nodes /\ N \subseteq S
    BY Typed DEF Nearest
  <2> HIDE DEF N
  <2> QED BY <2>1, NodesFinite, FS_Subset
<1>2. CASE N = {}
  BY <1>2, FS_EmptySet
<1>3. CASE N # {}
  <2>1. \A t \in S : d(t) \in Nat
    BY <1>1, Typed, Numbers, DistanceNat
  <2>2. \A s, t \in S : s # t => d(s) # d(t)
    BY DistancesDiffer
  <2>3. PICK s \in N : \A t \in N : d(t) <= d(s)
    <3> DEFINE f == [t \in Nodes |-> IF t \in S THEN d(t) ELSE 0]
    <3>1. PICK b \in Nat : \A t \in S : d(t) <= b
      <4> HIDE DEF d
      <4>1. \A i \in 1 .. MaxNodes : f[i] \in Nat
        BY <2>1 DEF Nodes
      <4>2. PICK b \in Nat : \A i \in 1 .. MaxNodes : f[i] <= b
        <5> HIDE DEF f
        <5> QED BY <4>1, HasBound, Numbers
      <4> QED BY <1>1, <4>2 DEF Nodes
    <3> DEFINE D == {b - d(t) : t \in N}
    <3> HIDE DEF d, N
    <3>2. D \in SUBSET Nat /\ D # {}
      <4>1. ASSUME NEW t \in N PROVE b - d(t) \in Nat
        <5>1. d(t) \in Nat /\ d(t) <= b
          BY <1>1, <2>1, <3>1
        <5> QED BY <5>1
      <4> QED BY <1>3, <4>1
    <3>3. PICK e \in D : \A m \in D : e <= m
      <4> HIDE DEF D
      <4> QED BY <3>2, HasLeast
    <3>4. PICK s \in N : e = b - d(s)
      BY <3>3
    <3>5. \A t \in N : b - d(s) <= b - d(t)
      BY <3>3, <3>4
    <3> QED BY <1>1, <2>1, <3>1, <3>5
  <2>4. Cardinality(Nearer(s)) < k /\ IsFiniteSet(Nearer(s))
    <3>1. IsFiniteSet(Nearer(s))
      BY <1>1, FS_Subset
    <3> QED BY <3>1 DEF Nearest
  <2> HIDE DEF d, N
  <2>5. N \ {s} \subseteq Nearer(s)
    BY <1>1, <2>1, <2>2, <2>3
  <2>6. Cardinality(N \ {s}) <= Cardinality(Nearer(s)) /\ Cardinality(Nearer(s)) \in Nat /\ Cardinality(N \ {s}) \in Nat
    <3> HIDE DEF Nearer
    <3> QED BY <2>4, <2>5, FS_Subset, FS_CardinalityType
  <2>7. Cardinality(N \ {s}) = Cardinality(N) - 1 /\ Cardinality(N) \in Nat
    BY <1>1, FS_RemoveElement, FS_CardinalityType
  <2> HIDE DEF Nearer
  <2>8. Cardinality(N) <= k
    BY <2>4, <2>6, <2>7
  <2> QED BY <2>8 DEF N
<1> QED BY <1>2, <1>3

\* What remains of few is few.
LEMMA FewerStill ==
  ASSUME NEW B \in SUBSET Nodes, NEW A \in SUBSET B, NEW k \in Nat, Cardinality(B) <= k
  PROVE  Cardinality(A) <= k
<1>1. IsFiniteSet(B) /\ IsFiniteSet(A)
  BY NodesFinite, FS_Subset
<1>2. Cardinality(A) <= Cardinality(B) /\ Cardinality(A) \in Nat /\ Cardinality(B) \in Nat
  BY <1>1, FS_Subset, FS_CardinalityType
<1> QED BY <1>2

\* What is pruned is not more than allowed.
LEMMA PrunedFew ==
  ASSUME TypeInv, PosInv, NEW x \in 1 .. made, NEW S \in SUBSET (1 .. made), NEW l \in Levels
  PROVE  Cardinality(Pruned(x, S, l)) <= MaxDegree(l)
<1>1. pos[x] \in Points /\ S \ deleted \in SUBSET (1 .. made) /\ MaxDegree(l) \in Nat
  BY MaxDegreeIs DEF PosInv
<1> QED BY <1>1, NearestFew DEF Pruned

\* Neighbors were made.
LEMMA NeighborsMade ==
  ASSUME TypeInv, FitInv, NEW n \in Nodes, NEW l \in Levels
  PROVE  edges[n][l] \subseteq 1 .. made /\ edges[n][l] \in SUBSET Nodes
BY DEF TypeInv, FitInv, Tall

\* A step of a call that is in progress.
LEMMA SlimStep ==
  ASSUME TypeInv, DegInv, NEW w \in Workers, NEW a, work[w].op # "idle",
         UNCHANGED <<made, pos, overlaps>>, work' = [work EXCEPT ![w] = a],
         overlaps = 0 => Slim' /\ Fresh(a)'
  PROVE  DegInv'
<1>1. PosInv' /\ overlaps' \in Nat
  BY DEF DegInv, PosInv
<1>2. ASSUME overlaps' = 0 PROVE Alone' /\ \A v \in Workers : Fresh(work[v])'
  <2>1. \A v \in Workers : IF v = w THEN work'[v] = a ELSE work'[v] = work[v] /\ work[v].op = "idle"
    BY <1>2 DEF TypeInv, DegInv, Alone
  <2>2. Alone'
    BY <2>1 DEF Alone
  <2>3. ASSUME NEW v \in Workers PROVE Fresh(work[v])'
    <3>1. CASE v = w
      BY <1>2, <2>1, <3>1 DEF Fresh
    <3>2. CASE v # w
      BY <2>1, <3>2 DEF Fresh
    <3> QED BY <3>1, <3>2
  <2> QED BY <2>2, <2>3
<1> QED BY <1>1, <1>2 DEF DegInv

\* A worker that does nothing asks nothing of the links.
LEMMA IdleFresh == Fresh(Idle) /\ Fresh(Idle)' /\ Idle.op = "idle"
BY DEF Fresh, Idle

\* An empty index has no neighbors.
LEMMA InitSlim == Init => DegInv
<1> SUFFICES ASSUME Init PROVE DegInv
  OBVIOUS
<1>1. PosInv /\ overlaps \in Nat
  BY Numbers DEF Init, PosInv
<1>2. \A n \in Nodes, l \in Levels : edges[n][l] = {}
  BY DEF Init
<1>3. Slim
  BY <1>2, FS_EmptySet, MaxDegreeIs DEF Slim
<1>4. \A w \in Workers : work[w] = Idle
  BY DEF Init
<1> QED BY <1>1, <1>3, <1>4, IdleFresh DEF DegInv, Alone

\* A new vertex has none, and lies where no other does.
LEMMA StoreSlim ==
  ASSUME TypeInv, FitInv, DegInv, NEW w \in Workers, NEW p \in Points, NEW lvl \in Levels,
         InsertStore(w, p, lvl)
  PROVE  DegInv'
<1> DEFINE n == made + 1
           a == [Idle EXCEPT !.op = IF entrypoint = NoNode THEN "claim" ELSE "enter", !.node = n]
<1>1. made' = n /\ made \in Nat /\ n \in Nodes /\ n \notin 1 .. made /\ 1 .. n = (1 .. made) \cup {n}
  <2>1. made \in Nat /\ made < MaxNodes /\ made' = made + 1
    BY Numbers DEF InsertStore, TypeInv
  <2>2. n \in Nodes /\ n \notin 1 .. made
    BY <2>1, Numbers DEF Nodes
  <2>3. 1 .. n = (1 .. made) \cup {n}
    BY <2>1
  <2> QED BY <2>1, <2>2, <2>3
<1>2. /\ pos' = [pos EXCEPT ![n] = p] /\ \A m \in 1 .. made : pos[m] # p
      /\ work' = [work EXCEPT ![w] = a] /\ edges' = edges
      /\ overlaps' = IF Quiet THEN overlaps ELSE overlaps + 1
  BY DEF InsertStore, Begins
<1>3. a.op \in {"claim", "enter"} /\ a.node = n
  BY DEF Idle
<1>4. \A l \in Levels : edges[n][l] = {}
  BY <1>1 DEF FitInv, Tall
<1>5. pos'[n] = p /\ \A m \in 1 .. made : pos'[m] = pos[m]
  BY <1>1, <1>2, Typed DEF TypeInv
<1> HIDE DEF n, a
<1>6. PosInv'
  BY <1>1, <1>2, <1>5 DEF DegInv, PosInv
<1>7. overlaps' \in Nat /\ (overlaps' = 0 => overlaps = 0 /\ Quiet)
  BY <1>2 DEF DegInv
<1>8. ASSUME overlaps' = 0 PROVE Slim' /\ Alone' /\ \A v \in Workers : Fresh(work[v])'
  <2>1. \A v \in Workers : IF v = w THEN work'[v] = a ELSE work'[v] = work[v] /\ work[v].op = "idle"
    BY <1>2, <1>7, <1>8 DEF TypeInv, Quiet
  <2>2. Slim'
    BY <1>2, <1>7, <1>8 DEF DegInv, Slim, MaxDegree
  <2>3. Alone'
    BY <2>1 DEF Alone
  <2>4. \A v \in Workers : Fresh(work[v])'
    BY <1>2, <1>3, <1>4, <2>1 DEF Fresh
  <2> QED BY <2>2, <2>3, <2>4
<1> QED BY <1>6, <1>7, <1>8 DEF DegInv

\* A removal that begins changes no link.
LEMMA RemoveSlim ==
  ASSUME TypeInv, DegInv, NEW w \in Workers, NEW n \in Nodes, RemoveVertex(w, n)
  PROVE  DegInv'
<1> DEFINE a == [Idle EXCEPT !.op = "reenter", !.node = n, !.lvl = level[n]]
<1>1. /\ UNCHANGED <<made, pos, edges>> /\ work' = [work EXCEPT ![w] = a]
      /\ overlaps' = IF Quiet THEN overlaps ELSE overlaps + 1
  BY DEF RemoveVertex, Begins
<1>2. a.op = "reenter"
  BY DEF Idle
<1> HIDE DEF a
<1>3. PosInv'
  BY <1>1 DEF DegInv, PosInv
<1>4. overlaps' \in Nat /\ (overlaps' = 0 => overlaps = 0 /\ Quiet)
  BY <1>1 DEF DegInv
<1>5. ASSUME overlaps' = 0 PROVE Slim' /\ Alone' /\ \A v \in Workers : Fresh(work[v])'
  <2>1. \A v \in Workers : IF v = w THEN work'[v] = a ELSE work'[v] = work[v] /\ work[v].op = "idle"
    BY <1>1, <1>4, <1>5 DEF TypeInv, Quiet
  <2>2. Slim'
    BY <1>1, <1>4, <1>5 DEF DegInv, Slim, MaxDegree
  <2>3. Alone'
    BY <2>1 DEF Alone
  <2>4. \A v \in Workers : Fresh(work[v])'
    BY <1>2, <2>1 DEF Fresh
  <2> QED BY <2>2, <2>3, <2>4
<1> QED BY <1>3, <1>4, <1>5 DEF DegInv

\* Steps that change no link.
LEMMA CallSlim ==
  ASSUME TypeInv, DegInv, NEW w \in Workers,
         InsertClaim(w) \/ InsertEnter(w) \/ InsertPanics(w) \/ InsertCompare(w) \/ InsertRaise(w) \/ RemoveReenter(w)
  PROVE  DegInv'
<1>1. work[w].op # "idle" /\ UNCHANGED <<made, pos, edges, overlaps>>
  BY DEF InsertClaim, InsertEnter, InsertPanics, InsertCompare, InsertRaise, RemoveReenter, graph
<1>2. overlaps = 0 => Slim'
  BY <1>1 DEF DegInv, Slim, MaxDegree
<1>3. \A a : Fresh(a) => Fresh(a)'
  BY <1>1 DEF Fresh
<1>4. work[w] \in Activity
  BY DEF TypeInv
<1> DEFINE n  == work[w].node
           at == Descend(pos[n], entrypoint, level[n])
           b  == [work[w] EXCEPT !.op = "enter"]
           c  == [work[w] EXCEPT !.op = "link", !.at = at, !.lvl = TopLevel(at, n)]
           d  == [work[w] EXCEPT !.op = "raise"]
           e  == [work[w] EXCEPT !.op = "unlink"]
<1>5. CASE work' = [work EXCEPT ![w] = Idle]
  BY <1>1, <1>2, <1>5, IdleFresh, SlimStep
<1>6. CASE work[w].op = "claim" /\ work' = [work EXCEPT ![w] = b]
  <2>1. b.op = "enter" /\ b.node = n
    BY <1>4 DEF Activity
  <2> HIDE DEF b
  <2>2. overlaps = 0 => Fresh(b)
    BY <1>6, <2>1 DEF DegInv, Fresh
  <2> QED BY <1>1, <1>2, <1>3, <1>6, <2>2, SlimStep
<1>7. CASE work[w].op = "enter" /\ work' = [work EXCEPT ![w] = c]
  <2>1. c.op = "link" /\ c.node = n
    BY <1>4 DEF Activity
  <2> HIDE DEF c
  <2>2. overlaps = 0 => Fresh(c)
    BY <1>7, <2>1 DEF DegInv, Fresh
  <2> QED BY <1>1, <1>2, <1>3, <1>7, <2>2, SlimStep
<1>8. CASE work' = [work EXCEPT ![w] = d] \/ work' = [work EXCEPT ![w] = e]
  <2>1. Fresh(d) /\ Fresh(e)
    BY <1>4 DEF Activity, Fresh
  <2> HIDE DEF d, e
  <2> QED BY <1>1, <1>2, <1>3, <1>8, <2>1, SlimStep
<1>9. \/ work' = [work EXCEPT ![w] = Idle]
      \/ work[w].op = "claim" /\ work' = [work EXCEPT ![w] = b]
      \/ work[w].op = "enter" /\ work' = [work EXCEPT ![w] = c]
      \/ work' = [work EXCEPT ![w] = d] \/ work' = [work EXCEPT ![w] = e]
  BY DEF InsertClaim, InsertEnter, InsertPanics, InsertCompare, InsertRaise, RemoveReenter
<1> QED BY <1>5, <1>6, <1>7, <1>8, <1>9

\* The vertex that is linked gets m neighbors, and its neighbors are pruned.
LEMMA LinkSlim ==
  ASSUME TypeInv, FitInv, DegInv, NEW w \in Workers, InsertLink(w)
  PROVE  DegInv'
<1> DEFINE n == work[w].node
           l == work[w].lvl
           R == SearchLevel(work[w].at, l)
           S == Nearest(R, pos[n], M)
<1> PICK a : a = IF l = 0 THEN [Idle EXCEPT !.op = "compare", !.node = n]
                          ELSE [work[w] EXCEPT !.at = NearestOf(S, pos[n]), !.lvl = l - 1]
  OBVIOUS
<1>1. /\ work[w].op = "link" /\ UNCHANGED <<made, pos, overlaps>>
      /\ work' = [work EXCEPT ![w] = a]
      /\ edges' = [x \in Nodes |->
                     IF x = n THEN [edges[n] EXCEPT ![l] = @ \cup S]
                     ELSE IF x \in S THEN [edges[x] EXCEPT ![l] = Linked(x, n, l)]
                     ELSE edges[x]]
  BY DEF InsertLink
<1>2. /\ work[w] \in Activity /\ n \in 1 .. made /\ n \in Nodes /\ l \in Levels
      /\ work[w].at \in Tall(l) /\ work[w].at \in Nodes
  BY <1>1, WorkTyped, Typed DEF InHand, Tall
<1>3. R \subseteq 1 .. made
  <2>1. GraphTyped /\ Tall(l) \in SUBSET Nodes
    BY <1>2, Typed
  <2>2. \A x \in Tall(l) : Neighbors(x, l) \subseteq Tall(l)
    BY <1>2, TallCloses
  <2>3. SearchLevel(work[w].at, l) \subseteq Tall(l)
    BY <1>2, <2>1, <2>2, SearchStays
  <2> QED BY <2>3 DEF Tall
<1> HIDE DEF R
<1>4. S \subseteq 1 .. made
  BY <1>3 DEF Nearest
<1>5. Cardinality(S) <= M
  <2>1. PosInv /\ pos[n] \in Points /\ M \in Nat
    BY <1>2, Numbers DEF DegInv, PosInv
  <2> QED BY <1>3, <2>1, NearestFew
<1>6. \A x \in Nodes : edges[x] \in [Levels -> SUBSET Nodes]
  BY DEF TypeInv
<1> HIDE DEF S
<1>7. SUFFICES ASSUME overlaps = 0 PROVE Slim' /\ Fresh(a)'
  BY <1>1, SlimStep
<1>8. \A k \in Levels : k <= l => edges[n][k] = {}
  BY <1>1, <1>7 DEF DegInv, Fresh
<1>9. \A x \in 1 .. made : Cardinality(Linked(x, n, l)) <= MaxDegree(l)
  <2> TAKE x \in 1 .. made
  <2> DEFINE T == edges[x][l] \cup {n}
  <2>1. T \subseteq 1 .. made /\ IsFiniteSet(T)
    <3>1. T \subseteq 1 .. made
      BY <1>2, Typed, NeighborsMade
    <3> HIDE DEF T
    <3> QED BY <3>1, Typed, NodesFinite, FS_Subset
  <2>2. Cardinality(Pruned(x, T, l)) <= MaxDegree(l)
    <3> HIDE DEF T
    <3> QED BY <1>2, <2>1, PrunedFew DEF DegInv
  <2>3. Cardinality(T) \in Nat /\ MaxDegree(l) \in Nat
    BY <2>1, FS_CardinalityType, MaxDegreeIs
  <2>4. Linked(x, n, l) = IF Cardinality(T) > MaxDegree(l) THEN Pruned(x, T, l) ELSE T
    BY DEF Linked
  <2> HIDE DEF T
  <2> QED BY <2>2, <2>3, <2>4
<1>10. MaxDegree(l) \in Nat /\ M \in Nat /\ M <= MaxDegree(l)
  BY MaxDegreeIs, Numbers
<1>11. Cardinality(S) \in Nat
  <2>1. IsFiniteSet(S)
    BY <1>4, Typed, NodesFinite, FS_Subset
  <2> QED BY <2>1, FS_CardinalityType
<1>12. l <= l
  <2>1. l \in Nat
    BY <1>2, Numbers
  <2> HIDE DEF l
  <2> QED BY <2>1
<1>13. ASSUME NEW x \in Nodes, NEW k \in Levels PROVE Cardinality(edges'[x][k]) <= MaxDegree(k)
  <2>1. CASE x = n /\ k = l
    <3>1. edges'[x][k] = edges[x][k] \cup S
      BY <1>1, <1>2, <1>6, <2>1
    <3>2. edges'[x][k] = S
      BY <1>8, <1>12, <2>1, <3>1
    <3> HIDE DEF n, l
    <3> QED BY <1>5, <1>10, <1>11, <2>1, <3>2
  <2>2. CASE x # n /\ x \in S /\ k = l
    <3>1. edges'[x][k] = Linked(x, n, l)
      BY <1>1, <1>2, <1>6, <2>2
    <3> QED BY <1>4, <1>9, <2>2, <3>1
  <2>3. CASE (x # n /\ x \notin S) \/ k # l
    <3>1. edges'[x][k] = edges[x][k]
      BY <1>1, <1>2, <1>6, <2>3
    <3> QED BY <1>7, <3>1 DEF DegInv, Slim
  <2> QED BY <2>1, <2>2, <2>3
<1>14. Slim'
  BY <1>13 DEF Slim, MaxDegree
<1>15. Fresh(a)'
  <2>1. CASE l = 0
    <3>1. a.op = "compare"
      BY <2>1 DEF Idle
    <3> QED BY <3>1 DEF Fresh
  <2>2. CASE l # 0
    <3>1. a.op = "link" /\ a.node = n /\ a.lvl = l - 1
      BY <1>1, <1>2, <2>2 DEF Activity
    <3> HIDE DEF n, l
    <3>2. ASSUME NEW k \in Levels, k <= l - 1 PROVE edges'[n][k] = {}
      <4>1. k <= l /\ k # l
        BY <1>2, <3>2, Numbers
      <4> QED BY <1>1, <1>2, <1>6, <1>8, <4>1
    <3>3. ASSUME NEW k \in Levels, k <= a.lvl PROVE edges'[a.node][k] = {}
      BY <3>1, <3>2, <3>3
    <3> QED BY <3>1, <3>3 DEF Fresh
  <2> QED BY <2>1, <2>2
<1> QED BY <1>14, <1>15

\* Who loses a neighbor is pruned.
LEMMA UnlinkSlim ==
  ASSUME TypeInv, FitInv, DegInv, NEW w \in Workers, RemoveUnlink(w)
  PROVE  DegInv'
<1> DEFINE n == work[w].node
           l == work[w].lvl
<1> PICK a : a = IF l = 0 THEN Idle ELSE [work[w] EXCEPT !.lvl = l - 1]
  OBVIOUS
<1>1. /\ work[w].op = "unlink" /\ UNCHANGED <<made, pos, overlaps>>
      /\ edges' = [x \in Nodes |->
                 IF x \in edges[n][l]
                   THEN [edges[x] EXCEPT ![l] = Pruned(x, edges[x][l] \ {n}, l)] ELSE edges[x]]
      /\ work' = [work EXCEPT ![w] = a]
  BY DEF RemoveUnlink
<1>2. work[w] \in Activity /\ n \in Nodes /\ l \in Levels
  BY <1>1, WorkTyped
<1>3. a.op \in {"idle", "unlink"}
  BY <1>1, <1>2 DEF Idle, Activity
<1>4. Fresh(a)'
  BY <1>3 DEF Fresh
<1>5. \A x \in Nodes : edges[x] \in [Levels -> SUBSET Nodes]
  BY DEF TypeInv
<1> HIDE DEF n, l
<1>6. ASSUME overlaps = 0 PROVE Slim'
  <2>1. ASSUME NEW x \in Nodes, NEW k \in Levels PROVE Cardinality(edges'[x][k]) <= MaxDegree(k)
    <3>1. CASE x \in edges[n][l] /\ k = l
      <4>1. edges'[x][k] = Pruned(x, edges[x][l] \ {n}, l)
        BY <1>1, <1>2, <1>5, <3>1
      <4>2. x \in 1 .. made /\ edges[x][l] \ {n} \subseteq 1 .. made
        BY <1>2, <3>1, NeighborsMade
      <4> QED BY <1>2, <3>1, <4>1, <4>2, PrunedFew DEF DegInv
    <3>2. CASE x \notin edges[n][l] \/ k # l
      <4>1. edges'[x][k] = edges[x][k]
        BY <1>1, <1>2, <1>5, <3>2
      <4> QED BY <1>6, <4>1 DEF DegInv, Slim
    <3> QED BY <3>1, <3>2
  <2> QED BY <2>1 DEF Slim, MaxDegree
<1> QED BY <1>1, <1>4, <1>6, SlimStep

\* A snapshot that is read back has no more links than before.
LEMMA ReloadSlim == TypeInv /\ DegInv /\ Reload => DegInv'
<1> SUFFICES ASSUME TypeInv, DegInv, Reload PROVE DegInv'
  OBVIOUS
<1>1. /\ edges' = [n \in Nodes |-> [l \in Levels |-> Saved(n, l)]] /\ Quiet
      /\ UNCHANGED <<made, pos, work, overlaps>>
  BY DEF Reload
<1>2. \A n \in Nodes, l \in Levels : edges'[n][l] \subseteq edges[n][l] /\ edges[n][l] \in SUBSET Nodes
  BY <1>1 DEF Saved, Neighbors, TypeInv
<1>3. overlaps = 0 => Slim'
  <2> SUFFICES ASSUME overlaps = 0, NEW n \in Nodes, NEW l \in Levels
               PROVE  Cardinality(edges'[n][l]) <= MaxDegree(l)
    BY DEF Slim, MaxDegree
  <2>1. Cardinality(edges[n][l]) <= MaxDegree(l)
    BY DEF DegInv, Slim
  <2> QED BY <1>2, <2>1, FewerStill, MaxDegreeIs
<1>4. \A w \in Workers : work'[w].op = "idle"
  BY <1>1 DEF Quiet
<1>5. Alone' /\ \A w \in Workers : Fresh(work[w])'
  BY <1>4 DEF Alone, Fresh
<1>6. PosInv'
  BY <1>1 DEF PosInv, DegInv
<1> QED BY <1>1, <1>3, <1>5, <1>6 DEF DegInv

\* No step that does not overlap makes too many.
LEMMA NextSlim == TypeInv /\ FitInv /\ DegInv /\ [Next]_vars => DegInv'
<1> SUFFICES ASSUME TypeInv, FitInv, DegInv, [Next]_vars PROVE DegInv'
  OBVIOUS
<1>1. CASE Reload
  BY <1>1, ReloadSlim
<1>2. ASSUME NEW w \in Workers, Insert(w) PROVE DegInv'
  <2>1. ASSUME NEW p \in Points, NEW lvl \in Levels, InsertStore(w, p, lvl) PROVE DegInv'
    BY <2>1, StoreSlim
  <2>2. CASE InsertLink(w)
    BY <2>2, LinkSlim
  <2>3. CASE InsertClaim(w) \/ InsertEnter(w) \/ InsertPanics(w) \/ InsertCompare(w) \/ InsertRaise(w)
    BY <2>3, CallSlim
  <2> QED BY <1>2, <2>1, <2>2, <2>3 DEF Insert
<1>3. ASSUME NEW w \in Workers, Remove(w) PROVE DegInv'
  <2>1. ASSUME NEW n \in Nodes, RemoveVertex(w, n) PROVE DegInv'
    BY <2>1, RemoveSlim
  <2>2. CASE RemoveReenter(w)
    BY <2>2, CallSlim
  <2>3. CASE RemoveUnlink(w)
    BY <2>3, UnlinkSlim
  <2> QED BY <1>3, <2>1, <2>2, <2>3 DEF Remove
<1>4. CASE UNCHANGED vars
  <2>1. UNCHANGED <<made, pos, edges, work, overlaps>>
    BY <1>4 DEF vars, graph
  <2> QED BY <2>1 DEF DegInv, PosInv, Slim, MaxDegree, Alone, Fresh
<1> QED BY <1>1, <1>2, <1>3, <1>4 DEF Next

\* While no changes overlap, no vertex has more neighbors on a level than is allowed.
THEOREM DegreesBounded == Spec => []DegreeBounded
<1>1. Spec => [](TypeInv /\ FitInv /\ DegInv)
  BY AlwaysFits, InitSlim, NextSlim, PTL DEF Spec
<1>2. TypeInv /\ FitInv /\ DegInv => DegreeBounded
  BY Typed DEF DegInv, Slim, DegreeBounded, Live
<1> QED BY <1>1, <1>2, PTL

-----------------------------------------------------------------------------
(* Snapshots: what is not linked to is not met *)

\* Where a walk goes, as facts that hold before and after a step.
HopFact == \A p \in Nat, n \in Nodes, l \in Levels, m \in Nodes :
  GraphTyped /\ Closer(p, n, l) # {} /\ m = Hop(p, n, l) =>
    m \in Closer(p, n, l) /\ \A t \in Closer(p, n, l) : Distance(p, pos[m]) <= Distance(p, pos[t])
GreedyFact == \A p \in Nat, n \in Nodes, l \in Levels : GraphTyped =>
  /\ Hop(p, n, l) \in Nodes \/ Closer(p, n, l) = {}
  /\ Closer(p, n, l) = {} => Greedy(p, n, l) = n
  /\ Closer(p, n, l) # {} => \A m \in Nodes : m = Hop(p, n, l) => Greedy(p, n, l) = Greedy(p, m, l)
DownFact == \A p \in Nat, start \in Nodes, bottom \in Levels : GraphTyped =>
  \E down : /\ \A l \in bottom .. MaxLevel : IsDown(down, p, start, l)
            /\ Descend(p, start, bottom) = down[bottom]
ReachFact == \A start \in Nodes, l \in Levels : GraphTyped =>
  /\ SearchLevel(start, l) \in SUBSET Nodes /\ start \in SearchLevel(start, l)
  /\ \A n \in SearchLevel(start, l) : Neighbors(n, l) \subseteq SearchLevel(start, l)
  /\ \A S \in SUBSET Nodes :
       start \in S /\ (\A n \in S : Neighbors(n, l) \subseteq S) => SearchLevel(start, l) \subseteq S
MetFact == \A p, e, a : entrypoint = e /\ e # NoNode /\ a = Descend(p, e, 0) => Met(p) = SearchLevel(a, 0)

\* They hold in every state.
LEMMA Facts == HopFact /\ GreedyFact /\ DownFact /\ ReachFact /\ MetFact
<1>1. HopFact
  <2> SUFFICES ASSUME NEW p \in Nat, NEW n \in Nodes, NEW l \in Levels, GraphTyped, Closer(p, n, l) # {}
               PROVE  LET m == Hop(p, n, l) IN
                      m \in Closer(p, n, l) /\ \A t \in Closer(p, n, l) : Distance(p, pos[m]) <= Distance(p, pos[t])
    BY DEF HopFact
  <2>1. Closer(p, n, l) \in SUBSET Nodes
    BY DEF Closer, Neighbors, GraphTyped
  <2> QED BY <2>1, NearestIs DEF Hop
<1>2. GreedyFact
  BY HopIs, GreedyIs DEF GreedyFact
<1>3. DownFact
  BY DescendIs DEF DownFact
<1>4. ReachFact
  <2> SUFFICES ASSUME NEW start \in Nodes, NEW l \in Levels, GraphTyped
               PROVE  /\ SearchLevel(start, l) \in SUBSET Nodes /\ start \in SearchLevel(start, l)
                      /\ \A n \in SearchLevel(start, l) : Neighbors(n, l) \subseteq SearchLevel(start, l)
                      /\ \A S \in SUBSET Nodes : start \in S /\ (\A n \in S : Neighbors(n, l) \subseteq S)
                                                 => SearchLevel(start, l) \subseteq S
    BY DEF ReachFact
  <2>1. \A S \in SUBSET Nodes : start \in S /\ (\A n \in S : Neighbors(n, l) \subseteq S)
                                => SearchLevel(start, l) \subseteq S
    BY SearchStays
  <2> QED BY <2>1, SearchCloses
<1>5. MetFact
  BY DEF MetFact, Met
<1> QED BY <1>1, <1>2, <1>3, <1>4, <1>5

\* Two graphs in which the vertices of Live have the same links to one another.
Alike == /\ UNCHANGED <<made, pos, level, deleted, entrypoint>> /\ GraphTyped /\ GraphTyped'
         /\ \A n \in Live, l \in Levels : Neighbors(n, l)' = Neighbors(n, l) /\ Neighbors(n, l) \subseteq Live

\* In them, walks from the same vertex end in the same.
LEMMA GreedySame ==
  ASSUME TypeInv, PosInv, Alike, NEW p \in Points, NEW l \in Levels
  PROVE  \A n \in Live : Greedy(p, n, l)' = Greedy(p, n, l) /\ Greedy(p, n, l) \in Live
<1> DEFINE d(n) == Distance(p, pos[n])
           Bad  == {n \in Live : Greedy(p, n, l)' # Greedy(p, n, l)}
           D    == {d(n) : n \in Bad}
<1>1. /\ HopFact /\ GreedyFact
      /\ p \in Nat /\ GraphTyped /\ GraphTyped' /\ pos' = pos /\ Live \in SUBSET Nodes /\ Live \subseteq 1 .. made
  BY Facts, Numbers, Typed DEF Alike, Live
<1>2. HopFact' /\ GreedyFact'
  BY Facts, PTL
<1>3. \A n \in Live : d(n) \in Nat
  BY <1>1, Typed, DistanceNat
<1>4. \A n \in Live : Greedy(p, n, l) \in Live
  BY <1>1, GreedyStays DEF Alike
<1>5. SUFFICES ASSUME Bad # {} PROVE FALSE
  BY <1>4
<1>6. D \in SUBSET Nat /\ D # {}
  BY <1>3, <1>5
<1>7. PICK k \in D : \A m \in D : k <= m
  <2> HIDE DEF D
  <2> QED BY <1>6, HasLeast
<1>8. PICK n \in Bad : k = d(n)
  BY <1>7
<1>9. n \in Live /\ n \in Nodes
  BY <1>1, <1>8
<1>10. Closer(p, n, l)' = Closer(p, n, l) /\ Closer(p, n, l) \subseteq Live
  <2>1. Neighbors(n, l)' = Neighbors(n, l) /\ Neighbors(n, l) \subseteq Live
    BY <1>9 DEF Alike
  <2> QED BY <1>1, <2>1 DEF Closer, Distance
<1>11. CASE Closer(p, n, l) = {}
  <2>1. Greedy(p, n, l) = n
    BY <1>1, <1>9, <1>11 DEF GreedyFact
  <2>2. Greedy(p, n, l)' = n
    BY <1>1, <1>2, <1>9, <1>10, <1>11 DEF GreedyFact
  <2> QED BY <1>8, <2>1, <2>2
<1>12. CASE Closer(p, n, l) # {}
  <2>1. PICK m \in Nodes : m = Hop(p, n, l)
    BY <1>1, <1>9, <1>12 DEF GreedyFact
  <2>2. PICK k2 \in Nodes : k2 = Hop(p, n, l)'
    BY <1>1, <1>2, <1>9, <1>10, <1>12 DEF GreedyFact
  <2>3. m \in Closer(p, n, l) /\ \A t \in Closer(p, n, l) : d(m) <= d(t)
    BY <1>1, <1>9, <1>12, <2>1 DEF HopFact
  <2>4. k2 \in Closer(p, n, l) /\ \A t \in Closer(p, n, l) : d(k2) <= d(t)
    <3>1. k2 \in Closer(p, n, l)' /\ \A t \in Closer(p, n, l)' : Distance(p, pos'[k2]) <= Distance(p, pos'[t])
      BY <1>1, <1>2, <1>9, <1>10, <1>12, <2>2 DEF HopFact
    <3> QED BY <1>1, <1>10, <3>1
  <2>5. m = k2
    <3>1. d(m) <= d(k2) /\ d(k2) <= d(m) /\ d(m) \in Nat /\ d(k2) \in Nat
      BY <1>3, <1>10, <2>3, <2>4
    <3>2. d(m) = d(k2)
      <4> HIDE DEF d
      <4> QED BY <3>1
    <3>3. m \in 1 .. made /\ k2 \in 1 .. made
      BY <1>1, <1>10, <2>3, <2>4
    <3> QED BY <3>2, <3>3, DistancesDiffer
  <2>6. Greedy(p, n, l) = Greedy(p, m, l)
    BY <1>1, <1>9, <1>12, <2>1 DEF GreedyFact
  <2>7. Greedy(p, n, l)' = Greedy(p, m, l)'
    BY <1>1, <1>2, <1>9, <1>10, <1>12, <2>2, <2>5 DEF GreedyFact
  <2>8. m \in Live /\ d(m) < d(n)
    BY <1>10, <2>3 DEF Closer
  <2>9. m \in Bad
    BY <1>8, <2>6, <2>7, <2>8
  <2>10. d(n) <= d(m) /\ d(n) \in Nat /\ d(m) \in Nat
    BY <1>3, <1>7, <1>8, <2>8, <2>9
  <2> HIDE DEF d
  <2> QED BY <2>8, <2>10
<1> QED BY <1>11, <1>12

\* So do descents.
LEMMA DescendSame ==
  ASSUME TypeInv, PosInv, Alike, NEW p \in Points, NEW start \in Live
  PROVE  Descend(p, start, 0)' = Descend(p, start, 0) /\ Descend(p, start, 0) \in Live
<1> DEFINE top == level[start]
<1>1. /\ p \in Nat /\ GraphTyped /\ GraphTyped' /\ level' = level /\ start \in Nodes
      /\ 0 \in Levels /\ MaxLevel \in Nat /\ top \in 0 .. MaxLevel
  BY Numbers, Typed DEF Alike, Live, Levels
<1>2. DownFact /\ DownFact'
  BY Facts, PTL
<1>3. PICK f : (\A l \in 0 .. MaxLevel : IsDown(f, p, start, l)) /\ Descend(p, start, 0) = f[0]
  BY <1>1, <1>2 DEF DownFact
<1>4. PICK g : (\A l \in 0 .. MaxLevel : IsDown(g, p, start, l)') /\ Descend(p, start, 0)' = g[0]
  BY <1>1, <1>2 DEF DownFact
<1> DEFINE S == {k \in 0 .. top : f[top - k] = g[top - k] /\ f[top - k] \in Live}
<1>5. 0 \in S
  <2>1. f[top] = start /\ g[top] = start /\ top - 0 = top
    BY <1>1, <1>3, <1>4 DEF IsDown
  <2> QED BY <1>1, <2>1
<1>6. ASSUME NEW k \in 0 .. top, k \in S, k < top PROVE k + 1 \in S
  <2>1. PICK l : l = top - (k + 1)
    OBVIOUS
  <2>2. l \in 0 .. MaxLevel /\ ~ (l >= top) /\ l + 1 = top - k /\ l + 1 \in Levels
    BY <1>1, <1>6, <2>1 DEF Levels
  <2>3. PICK n : n = f[l + 1] /\ n = g[l + 1] /\ n \in Live
    BY <1>6, <2>2
  <2>4. f[l] = Greedy(p, n, l + 1)
    BY <1>3, <2>2, <2>3 DEF IsDown
  <2>5. g[l] = Greedy(p, n, l + 1)'
    BY <1>1, <1>4, <2>2, <2>3 DEF IsDown
  <2>6. f[l] = g[l] /\ f[l] \in Live
    <3>1. PICK j \in Levels : j = l + 1
      BY <2>2
    <3>2. Greedy(p, n, j)' = Greedy(p, n, j) /\ Greedy(p, n, j) \in Live
      BY <2>3, <3>1, GreedySame
    <3> QED BY <2>4, <2>5, <3>1, <3>2
  <2> QED BY <1>1, <1>6, <2>1, <2>6
<1>7. top \in S
  <2> HIDE DEF S, top
  <2>1. top \in Nat /\ top \in 0 .. top
    BY <1>1
  <2> QED BY <1>5, <1>6, <2>1, UpTo
<1>8. f[0] = g[0] /\ f[0] \in Live
  <2>1. top - top = 0
    BY <1>1
  <2> QED BY <1>7, <2>1
<1> QED BY <1>3, <1>4, <1>8

\* And searches meet the same vertices.
LEMMA SearchSame ==
  ASSUME TypeInv, Alike, NEW start \in Live, NEW l \in Levels
  PROVE  SearchLevel(start, l)' = SearchLevel(start, l)
<1>1. /\ ReachFact /\ GraphTyped /\ GraphTyped' /\ Live \in SUBSET Nodes /\ start \in Nodes
  BY Facts, Typed DEF Alike, Live
<1>2. ReachFact'
  BY Facts, PTL
<1>3. PICK A, B : A = SearchLevel(start, l) /\ B = SearchLevel(start, l)'
  OBVIOUS
<1>4. \A n \in Live : Neighbors(n, l)' = Neighbors(n, l) /\ Neighbors(n, l) \subseteq Live
  BY DEF Alike
<1>5. /\ A \in SUBSET Nodes /\ start \in A /\ \A n \in A : Neighbors(n, l) \subseteq A
      /\ \A S \in SUBSET Nodes : start \in S /\ (\A n \in S : Neighbors(n, l) \subseteq S) => A \subseteq S
  BY <1>1, <1>3 DEF ReachFact
<1>6. /\ B \in SUBSET Nodes /\ start \in B /\ \A n \in B : Neighbors(n, l)' \subseteq B
      /\ \A S \in SUBSET Nodes : start \in S /\ (\A n \in S : Neighbors(n, l)' \subseteq S) => B \subseteq S
  BY <1>1, <1>2, <1>3 DEF ReachFact
<1>7. A \subseteq Live /\ B \subseteq Live
  BY <1>1, <1>4, <1>5, <1>6
<1>8. \A n \in A \cup B : Neighbors(n, l)' = Neighbors(n, l)
  BY <1>4, <1>7
<1>9. A \subseteq B
  BY <1>5, <1>6, <1>8
<1>10. B \subseteq A
  BY <1>5, <1>6, <1>8
<1> QED BY <1>3, <1>9, <1>10

\* A snapshot keeps the links of the vertices that are written.
LEMMA ReloadAlike ==
  ASSUME TypeInv, FitInv, Reload, entrypoint \in Live
  PROVE  Alike
<1>1. /\ edges' = [n \in Nodes |-> [l \in Levels |-> Saved(n, l)]]
      /\ entrypoint' = entrypoint /\ UNCHANGED <<made, pos, level, deleted>>
  BY DEF Reload
<1>2. GraphTyped /\ Live \subseteq Nodes
  BY Typed DEF Live
<1>3. \A n \in Nodes, l \in Levels : edges'[n][l] = Saved(n, l) /\ Saved(n, l) \subseteq Nodes
  BY <1>1 DEF Saved, Neighbors, TypeInv
<1>4. GraphTyped'
  BY <1>1, <1>2, <1>3 DEF GraphTyped
<1>5. \A n \in Live, l \in Levels : Neighbors(n, l) \subseteq Live
  BY <1>2, NeighborsMade DEF Neighbors, Live
<1>6. \A n \in Live, l \in Levels : Neighbors(n, l)' = Neighbors(n, l)
  BY <1>1, <1>2, <1>3 DEF Saved, Neighbors
<1> QED BY <1>1, <1>2, <1>4, <1>5, <1>6 DEF Alike

\* An index that is read back from a snapshot answers as before, unless its entrypoint was
\* removed.
THEOREM SnapshotsKeepAnswers == Spec => ReloadKeepsAnswers
<1>1. Spec => [](TypeInv /\ FitInv /\ DegInv)
  BY AlwaysFits, InitSlim, NextSlim, PTL DEF Spec
<1>2. ASSUME TypeInv, FitInv, DegInv, Reload, entrypoint \in Live, NEW p \in Points
      PROVE  Met(p)' = Met(p)
  <2>1. Alike /\ PosInv
    BY <1>2, ReloadAlike DEF DegInv
  <2>2. MetFact /\ MetFact'
    BY Facts, PTL
  <2>3. PICK e \in Live : e = entrypoint /\ e = entrypoint'
    BY <1>2, <2>1 DEF Alike
  <2>4. PICK a \in Live : a = Descend(p, e, 0) /\ a = Descend(p, e, 0)'
    <3>1. Descend(p, e, 0)' = Descend(p, e, 0) /\ Descend(p, e, 0) \in Live
      BY <1>2, <2>1, DescendSame
    <3> QED BY <3>1
  <2>5. e # NoNode
    BY <2>3 DEF Live, NoNode
  <2>6. Met(p) = SearchLevel(a, 0)
    BY <2>2, <2>3, <2>4, <2>5 DEF MetFact
  <2>7. Met(p)' = SearchLevel(a, 0)'
    BY <2>2, <2>3, <2>4, <2>5 DEF MetFact
  <2>8. SearchLevel(a, 0)' = SearchLevel(a, 0)
    BY <1>2, <2>1, SearchSame, Numbers
  <2> QED BY <2>6, <2>7, <2>8
<1>3. TypeInv /\ FitInv /\ DegInv => (Reload /\ entrypoint \in Live => \A p \in Points : Met(p)' = Met(p))
  BY <1>2
<1> QED BY <1>1, <1>3, PTL DEF ReloadKeepsAnswers

-----------------------------------------------------------------------------
(* Small indexes *)

Small == overlaps = 0 /\ peak <= M + 1

\* The vertices that are linked, or being removed.
Settled(a) == IF a.op \in {"claim", "enter", "link"} THEN Live \ {a.node} ELSE Live

\* Links go both ways,
Mutual    == \A x, y \in Live, l \in Levels : y \in edges[x][l] => x \in edges[y][l] /\ x # y
\* any two vertices are linked on level 0,
Joined(a) == \A x, y \in Settled(a) : x # y => y \in edges[x][0]
\* a removed vertex is forgotten level by level,
Clean(a)  == \A x \in Live, y \in deleted, l \in Levels : y \in edges[x][l] =>
               a.op \in {"reenter", "unlink"} /\ y = a.node /\ l <= a.lvl /\ x \in edges[y][l]
\* the search has somewhere to begin,
Entered(a) == a.op # "reenter" => entrypoint \in Settled(a) \/ (entrypoint = NoNode /\ Settled(a) = {})
\* and what a worker has read is still so.
Ready(a) ==
  /\ a.op \in {"claim", "enter", "link", "compare", "raise"} => a.node \in Live
  /\ a.op = "claim" => entrypoint = NoNode
  /\ a.op \in {"enter", "link"} => entrypoint # NoNode
  /\ a.op = "link" => a.at \in Settled(a)
  /\ a.op = "reenter" => /\ entrypoint \in Live \cup {a.node}
                         /\ Live \subseteq edges[a.node][0] /\ \A l \in Levels : edges[a.node][l] \subseteq Live

SmallAt(a) == Mutual /\ Joined(a) /\ Clean(a) /\ Entered(a) /\ Ready(a)

SmallInv == /\ peak \in Nat /\ Cardinality(Live) <= peak
            /\ Small => /\ Quiet => SmallAt(Idle)
                        /\ \A w \in Workers : work[w].op # "idle" => SmallAt(work[w])

\* Of few vertices, all are the nearest.
LEMMA NearestAll ==
  ASSUME GraphTyped, NEW S \in SUBSET Nodes, NEW p \in Nat, NEW k \in Nat, Cardinality(S) <= k
  PROVE  Nearest(S, p, k) = S
<1> SUFFICES ASSUME NEW s \in S
             PROVE  Cardinality({t \in S : Distance(p, pos[t]) < Distance(p, pos[s])}) < k
  BY DEF Nearest
<1> DEFINE T == {t \in S : Distance(p, pos[t]) < Distance(p, pos[s])}
<1>1. IsFiniteSet(S) /\ IsFiniteSet(S \ {s}) /\ T \subseteq S /\ IsFiniteSet(T)
  <2>1. S \ {s} \in SUBSET Nodes /\ T \in SUBSET Nodes /\ T \subseteq S
    OBVIOUS
  <2> HIDE DEF T
  <2> QED BY <2>1, NodesFinite, FS_Subset
<1>2. T \subseteq S \ {s}
  <2>1. Distance(p, pos[s]) \in Nat
    BY DistanceNat DEF GraphTyped
  <2> QED BY <2>1
<1> HIDE DEF T
<1>3. Cardinality(T) <= Cardinality(S \ {s}) /\ Cardinality(T) \in Nat /\ Cardinality(S \ {s}) \in Nat
  BY <1>1, <1>2, FS_Subset, FS_CardinalityType
<1>4. Cardinality(S \ {s}) = Cardinality(S) - 1 /\ Cardinality(S) \in Nat
  BY <1>1, FS_RemoveElement, FS_CardinalityType
<1>5. Cardinality(T) < k
  BY <1>3, <1>4
<1> QED BY <1>5 DEF T

\* A set of live vertices without one of them has at most m.
LEMMA FewLive ==
  ASSUME TypeInv, SmallInv, Small, NEW x \in Live, NEW S \in SUBSET (Live \ {x})
  PROVE  Cardinality(S) <= M /\ S \in SUBSET Nodes
<1>1. Live \in SUBSET Nodes /\ IsFiniteSet(Live) /\ IsFiniteSet(Live \ {x})
  <2>1. Live \in SUBSET Nodes /\ Live \ {x} \in SUBSET Nodes
    BY Typed DEF Live
  <2> QED BY <2>1, NodesFinite, FS_Subset
<1>2. Cardinality(Live) <= M + 1 /\ Cardinality(Live) \in Nat
  <2>1. Cardinality(Live) \in Nat
    BY <1>1, FS_CardinalityType
  <2> QED BY <2>1, Numbers DEF SmallInv, Small
<1>3. Cardinality(Live \ {x}) = Cardinality(Live) - 1
  BY <1>1, FS_RemoveElement
<1>4. Cardinality(S) <= Cardinality(Live \ {x}) /\ Cardinality(S) \in Nat
  BY <1>1, FS_Subset, FS_CardinalityType
<1> QED BY <1>1, <1>2, <1>3, <1>4, Numbers

\* Nothing that is live is pruned.
LEMMA PrunedAll ==
  ASSUME TypeInv, SmallInv, Small, NEW x \in Live, NEW S, S \ deleted \subseteq Live \ {x}, NEW l \in Levels
  PROVE  Pruned(x, S, l) = S \ deleted
<1>1. Cardinality(S \ deleted) <= M /\ S \ deleted \in SUBSET Nodes
  BY FewLive
<1>2. IsFiniteSet(S \ deleted) /\ Cardinality(S \ deleted) \in Nat
  BY <1>1, NodesFinite, FS_Subset, FS_CardinalityType
<1>3. MaxDegree(l) \in Nat /\ Cardinality(S \ deleted) <= MaxDegree(l)
  BY <1>1, <1>2, MaxDegreeIs, Numbers
<1>4. GraphTyped /\ pos[x] \in Nat
  BY Typed DEF Live
<1> QED BY <1>1, <1>3, <1>4, NearestAll DEF Pruned

\* Nor when a link is added.
LEMMA LinkedAll ==
  ASSUME TypeInv, SmallInv, Small, NEW x \in Live, NEW n \in Live, n # x, NEW l \in Levels,
         edges[x][l] \subseteq Live \ {x}
  PROVE  Linked(x, n, l) = edges[x][l] \cup {n}
<1> DEFINE S == edges[x][l] \cup {n}
<1>1. S \subseteq Live \ {x}
  OBVIOUS
<1> HIDE DEF S
<1>2. Cardinality(S) <= M /\ S \in SUBSET Nodes
  BY <1>1, FewLive
<1>3. IsFiniteSet(S) /\ Cardinality(S) \in Nat
  BY <1>2, NodesFinite, FS_Subset, FS_CardinalityType
<1>4. ~ (Cardinality(S) > MaxDegree(l))
  BY <1>2, <1>3, MaxDegreeIs, Numbers
<1> QED BY <1>4 DEF Linked, S

\* No link leads from a vertex that is linked to one that is not yet.
LEMMA SettledCloses ==
  ASSUME TypeInv, FitInv, DegInv, SmallInv, Small, NEW w \in Workers, work[w].op \in {"enter", "link"},
         NEW l \in Levels, work[w].op = "enter" \/ l <= work[w].lvl
  PROVE  /\ Settled(work[w]) \in SUBSET Nodes /\ Settled(work[w]) = Live \ {work[w].node}
         /\ \A x \in Settled(work[w]) : /\ edges[x][l] \subseteq Settled(work[w])
                                        /\ Neighbors(x, l) \subseteq Settled(work[w])
<1> DEFINE a == work[w]
<1>1. a.op # "idle" /\ SmallAt(a) /\ a.node \in Live /\ Fresh(a) /\ Settled(a) = Live \ {a.node}
  BY DEF SmallInv, SmallAt, Ready, DegInv, Small, Settled
<1>2. Live \in SUBSET Nodes
  BY Typed DEF Live
<1>3. edges[a.node][l] = {}
  BY <1>1 DEF Fresh
<1>4. ASSUME NEW x \in Settled(a), NEW y \in edges[x][l] PROVE y \in Settled(a)
  <2>1. x \in Live /\ y \in 1 .. made
    BY <1>1, <1>2, NeighborsMade
  <2>2. y \notin deleted
    BY <1>1, <2>1 DEF SmallAt, Clean
  <2>3. y \in Live
    BY <2>1, <2>2 DEF Live
  <2>4. y # a.node
    BY <1>1, <1>3, <2>1, <2>3 DEF SmallAt, Mutual
  <2> QED BY <1>1, <2>3, <2>4
<1> QED BY <1>1, <1>2, <1>4 DEF Neighbors

\* A step of a call that is in progress.
LEMMA SmallStep ==
  ASSUME TypeInv, DegInv, SmallInv, NEW w \in Workers, NEW a, work[w].op # "idle", a.op = "idle" => a = Idle,
         UNCHANGED <<made, deleted, peak, overlaps>>, work' = [work EXCEPT ![w] = a],
         Small /\ SmallAt(work[w]) => SmallAt(a)'
  PROVE  SmallInv'
<1>1. peak' \in Nat /\ Cardinality(Live)' <= peak' /\ (Small' <=> Small)
  BY DEF SmallInv, Small, Live
<1>2. ASSUME Small PROVE (Quiet => SmallAt(Idle))' /\ \A v \in Workers : work'[v].op # "idle" => SmallAt(work[v])'
  <2>1. SmallAt(a)'
    BY <1>2 DEF SmallInv
  <2>2. \A v \in Workers : IF v = w THEN work'[v] = a ELSE work'[v].op = "idle"
    BY <1>2 DEF TypeInv, DegInv, Alone, Small
  <2>3. Quiet' => a = Idle
    BY <2>2 DEF Quiet
  <2>4. (Quiet => SmallAt(Idle))'
    BY <2>1, <2>3
  <2>5. ASSUME NEW v \in Workers, work'[v].op # "idle" PROVE SmallAt(work[v])'
    <3>1. work'[v] = a
      BY <2>2, <2>5
    <3> QED BY <2>1, <3>1
  <2> QED BY <2>4, <2>5
<1> QED BY <1>1, <1>2 DEF SmallInv

\* What has no links yet can be entered anywhere.
LEMMA InitSmall == Init => SmallInv
<1> SUFFICES ASSUME Init PROVE SmallInv
  OBVIOUS
<1>1. Live = {} /\ Cardinality(Live) = 0 /\ deleted = {}
  <2>1. Live = {}
    BY DEF Init, Live
  <2> QED BY <2>1, FS_EmptySet DEF Init
<1>2. SmallAt(Idle)
  BY <1>1 DEF Init, SmallAt, Mutual, Joined, Clean, Entered, Ready, Settled, Idle
<1>3. \A w \in Workers : work[w] = Idle
  BY DEF Init
<1> QED BY <1>1, <1>2, <1>3, IdleFresh DEF SmallInv, Init

\* A new vertex is not linked yet, and all others still are.
LEMMA StoreSmall ==
  ASSUME TypeInv, FitInv, DegInv, SmallInv, NEW w \in Workers, NEW p \in Points, NEW lvl \in Levels,
         InsertStore(w, p, lvl)
  PROVE  SmallInv'
<1> DEFINE n == made + 1
<1> PICK a : a = [Idle EXCEPT !.op = IF entrypoint = NoNode THEN "claim" ELSE "enter", !.node = n]
  OBVIOUS
<1>1. /\ made' = n /\ made \in Nat /\ n \in Nodes /\ n \notin 1 .. made /\ 1 .. n = (1 .. made) \cup {n}
  <2>1. made \in Nat /\ made < MaxNodes /\ made' = made + 1
    BY Numbers DEF InsertStore, TypeInv
  <2>2. n \in Nodes /\ n \notin 1 .. made
    BY <2>1, Numbers DEF Nodes
  <2>3. 1 .. n = (1 .. made) \cup {n}
    BY <2>1
  <2> QED BY <2>1, <2>2, <2>3
<1>2. /\ peak' = Max({peak, Cardinality(Live) + 1}) /\ UNCHANGED <<deleted, edges, entrypoint>>
      /\ work' = [work EXCEPT ![w] = a]
      /\ overlaps' = IF Quiet THEN overlaps ELSE overlaps + 1
  BY DEF InsertStore, Begins
<1>3. /\ a.node = n /\ a.op \in {"claim", "enter"} /\ (a.op = "claim" <=> entrypoint = NoNode)
  BY DEF Idle
<1> HIDE DEF n
<1>4. Live' = Live \cup {n} /\ n \notin Live /\ deleted \subseteq 1 .. made /\ Live \subseteq 1 .. made
  BY <1>1, <1>2 DEF Live, TypeInv
<1>5. peak' \in Nat /\ peak <= peak' /\ Cardinality(Live)' <= peak'
  <2>1. IsFiniteSet(Live) /\ Cardinality(Live) \in Nat
    <3>1. Live \in SUBSET Nodes
      BY Typed DEF Live
    <3> QED BY <3>1, NodesFinite, FS_Subset, FS_CardinalityType
  <2>2. Cardinality(Live \cup {n}) = Cardinality(Live) + 1
    BY <1>4, <2>1, FS_AddElement
  <2>3. peak \in Nat /\ Cardinality(Live) + 1 \in Nat
    BY <2>1 DEF SmallInv
  <2>4. peak' \in {peak, Cardinality(Live) + 1} /\ peak' >= peak /\ peak' >= Cardinality(Live) + 1
    BY <1>2, <2>3, GreaterOf
  <2> QED BY <1>4, <2>2, <2>3, <2>4
<1>6. ASSUME Small' PROVE SmallAt(a)' /\ \A v \in Workers : IF v = w THEN work'[v] = a ELSE work'[v].op = "idle"
  <2>1. Small /\ Quiet
    BY <1>2, <1>5, <1>6, Numbers DEF Small, DegInv, SmallInv
  <2>2. SmallAt(Idle)
    BY <2>1 DEF SmallInv
  <2>3. Idle.op = "idle"
    BY DEF Idle
  <2>4. \A l \in Levels : edges[n][l] = {}
    BY <1>1 DEF FitInv, Tall
  <2>5. \A x \in Live, l \in Levels : edges[x][l] \subseteq Live
    <3>1. \A x \in Live, l \in Levels : edges[x][l] \subseteq 1 .. made
      BY <1>4, Typed, NeighborsMade
    <3> QED BY <2>2, <2>3, <3>1 DEF SmallAt, Clean, Live
  <2>6. Settled(a)' = Live /\ Settled(Idle) = Live
    BY <1>3, <1>4, <2>3 DEF Settled
  <2>7. Mutual'
    BY <1>2, <1>4, <2>2, <2>4, <2>5 DEF SmallAt, Mutual
  <2>8. Joined(a)'
    BY <1>2, <2>2, <2>6 DEF SmallAt, Joined
  <2>9. Clean(a)'
    BY <1>2, <1>4, <2>4, <2>5 DEF Clean, Live
  <2>10. Entered(a)'
    BY <1>2, <2>2, <2>3, <2>6 DEF SmallAt, Entered
  <2>11. Ready(a)'
    BY <1>2, <1>3, <1>4 DEF Ready
  <2>12. \A v \in Workers : IF v = w THEN work'[v] = a ELSE work'[v].op = "idle"
    BY <1>2, <2>1 DEF TypeInv, Quiet
  <2> QED BY <2>7, <2>8, <2>9, <2>10, <2>11, <2>12 DEF SmallAt
<1>7. ASSUME Small' PROVE (Quiet => SmallAt(Idle))' /\ \A v \in Workers : work'[v].op # "idle" => SmallAt(work[v])'
  <2>1. SmallAt(a)' /\ \A v \in Workers : IF v = w THEN work'[v] = a ELSE work'[v].op = "idle"
    BY <1>6, <1>7
  <2>2. ~ Quiet'
    BY <1>3, <2>1 DEF Quiet
  <2>3. ASSUME NEW v \in Workers, work'[v].op # "idle" PROVE SmallAt(work[v])'
    <3>1. work'[v] = a
      BY <2>1, <2>3
    <3> QED BY <2>1, <3>1
  <2> QED BY <2>2, <2>3
<1> QED BY <1>5, <1>7 DEF SmallInv

\* Who is removed is known to all its neighbors, and knows them.
LEMMA RemoveSmall ==
  ASSUME TypeInv, FitInv, DegInv, SmallInv, NEW w \in Workers, NEW n \in Nodes, RemoveVertex(w, n)
  PROVE  SmallInv'
<1> PICK a : a = [Idle EXCEPT !.op = "reenter", !.node = n, !.lvl = level[n]]
  OBVIOUS
<1>1. /\ UNCHANGED <<made, edges, entrypoint, peak>> /\ work' = [work EXCEPT ![w] = a]
      /\ n \in Live /\ deleted' = deleted \cup {n}
      /\ overlaps' = IF Quiet THEN overlaps ELSE overlaps + 1
  BY DEF RemoveVertex, Begins
<1>2. a.op = "reenter" /\ a.node = n /\ a.lvl = level[n] /\ Idle.op = "idle"
  BY DEF Idle
<1>3. Live' = Live \ {n} /\ Live \in SUBSET Nodes /\ 0 \in Levels
  BY <1>1, Typed, Numbers DEF Live
<1>4. peak' \in Nat /\ Cardinality(Live)' <= peak'
  <2>1. Live \ {n} \in SUBSET Live /\ peak \in Nat /\ Cardinality(Live) <= peak
    BY DEF SmallInv
  <2>2. Cardinality(Live \ {n}) <= peak
    BY <1>3, <2>1, FewerStill
  <2> QED BY <1>1, <1>3, <2>1, <2>2
<1>5. ASSUME Small' PROVE SmallAt(a)' /\ \A v \in Workers : IF v = w THEN work'[v] = a ELSE work'[v].op = "idle"
  <2>1. Small /\ Quiet
    BY <1>1, <1>5 DEF Small, DegInv
  <2>2. SmallAt(Idle)
    BY <2>1 DEF SmallInv
  <2>3. \A x \in Live, l \in Levels : edges[x][l] \subseteq Live
    <3>1. \A x \in Live, l \in Levels : edges[x][l] \subseteq 1 .. made
      BY <1>3, NeighborsMade
    <3> QED BY <1>2, <2>2, <3>1 DEF SmallAt, Clean, Live
  <2>4. Settled(a)' = Live \ {n} /\ Settled(Idle) = Live
    BY <1>2, <1>3 DEF Settled
  <2>5. Mutual'
    BY <1>1, <1>3, <2>2 DEF SmallAt, Mutual
  <2>6. Joined(a)'
    BY <1>1, <2>2, <2>4 DEF SmallAt, Joined
  <2>7. \A x \in Live, l \in Levels : n \in edges[x][l] => l <= level[n] /\ x \in edges[n][l]
    <3> TAKE x \in Live, l \in Levels
    <3>1. n \in edges[x][l] => n \in Tall(l) /\ level[n] \in Nat /\ l \in Nat
      BY <1>3, Typed, Numbers DEF FitInv
    <3> QED BY <1>1, <2>2, <3>1 DEF Tall, SmallAt, Mutual
  <2>8. Clean(a)'
    <3> SUFFICES ASSUME NEW x \in Live \ {n}, NEW y \in deleted \cup {n}, NEW l \in Levels, y \in edges[x][l]
                 PROVE  y = n /\ l <= level[n] /\ x \in edges[y][l]
      BY <1>1, <1>2, <1>3 DEF Clean
    <3>1. y \in Live
      BY <2>3
    <3>2. y = n
      BY <3>1 DEF Live
    <3> QED BY <2>7, <3>2
  <2>9. Entered(a)'
    BY <1>2 DEF Entered
  <2>10. Ready(a)'
    <3>1. entrypoint \in Live
      BY <1>1, <1>2, <2>2, <2>4 DEF SmallAt, Entered
    <3>2. Live \ {n} \subseteq edges[n][0]
      BY <1>1, <1>3, <2>2, <2>4 DEF SmallAt, Joined
    <3>3. \A l \in Levels : edges[n][l] \subseteq Live \ {n}
      BY <1>1, <2>2, <2>3 DEF SmallAt, Mutual
    <3> QED BY <1>1, <1>2, <1>3, <3>1, <3>2, <3>3 DEF Ready
  <2>11. \A v \in Workers : IF v = w THEN work'[v] = a ELSE work'[v].op = "idle"
    BY <1>1, <2>1 DEF TypeInv, Quiet
  <2> QED BY <2>5, <2>6, <2>8, <2>9, <2>10, <2>11 DEF SmallAt
<1>6. ASSUME Small' PROVE (Quiet => SmallAt(Idle))' /\ \A v \in Workers : work'[v].op # "idle" => SmallAt(work[v])'
  <2>1. SmallAt(a)' /\ \A v \in Workers : IF v = w THEN work'[v] = a ELSE work'[v].op = "idle"
    BY <1>5, <1>6
  <2>2. ~ Quiet'
    BY <1>2, <2>1 DEF Quiet
  <2>3. ASSUME NEW v \in Workers, work'[v].op # "idle" PROVE SmallAt(work[v])'
    <3>1. work'[v] = a
      BY <2>1, <2>3
    <3> QED BY <2>1, <3>1
  <2> QED BY <2>2, <2>3
<1> QED BY <1>4, <1>6 DEF SmallInv

\* The first vertex becomes the entrypoint.
LEMMA ClaimSmall ==
  ASSUME TypeInv, FitInv, DegInv, SmallInv, NEW w \in Workers, InsertClaim(w)
  PROVE  SmallInv'
<1>1. work[w].op = "claim" /\ UNCHANGED <<made, deleted, edges, peak, overlaps>>
  BY DEF InsertClaim
<1>2. work[w] \in Activity /\ Idle.op = "idle"
  BY DEF TypeInv, Idle
<1> DEFINE b == [work[w] EXCEPT !.op = "enter"]
<1>3. CASE entrypoint = NoNode
  <2>1. work' = [work EXCEPT ![w] = Idle] /\ entrypoint' = work[w].node
    BY <1>3 DEF InsertClaim
  <2>2. ASSUME Small, SmallAt(work[w]) PROVE SmallAt(Idle)'
    <3>1. Live' = Live /\ Settled(work[w]) = Live \ {work[w].node} /\ Settled(Idle)' = Live /\ NoNode \notin Live
      BY <1>1, <1>2 DEF Live, Settled, NoNode
    <3>2. work[w].node \in Live /\ Live = {work[w].node}
      BY <1>1, <1>3, <2>2, <3>1 DEF SmallAt, Ready, Entered
    <3>3. Joined(Idle)'
      BY <3>1, <3>2 DEF Joined
    <3>4. Entered(Idle)'
      BY <2>1, <3>1, <3>2 DEF Entered, Idle
    <3>5. Mutual' /\ Clean(Idle)'
      BY <1>1, <2>2, <3>1 DEF SmallAt, Mutual, Clean
    <3>6. Ready(Idle)'
      BY <1>2 DEF Ready
    <3> QED BY <3>3, <3>4, <3>5, <3>6 DEF SmallAt
  <2> QED BY <1>1, <2>1, <2>2, SmallStep
<1>4. CASE entrypoint # NoNode
  <2>1. PICK a : a = b
    OBVIOUS
  <2>2. work' = [work EXCEPT ![w] = a] /\ a.op = "enter"
    BY <1>2, <1>4, <2>1 DEF InsertClaim, Activity
  <2>3. Small /\ SmallAt(work[w]) => SmallAt(a)'
    BY <1>1, <1>4 DEF SmallAt, Ready
  <2> QED BY <1>1, <2>2, <2>3, SmallStep
<1> QED BY <1>3, <1>4

\* Linking begins at a vertex that is linked.
LEMMA EnterSmall ==
  ASSUME TypeInv, FitInv, DegInv, SmallInv, NEW w \in Workers, InsertEnter(w)
  PROVE  SmallInv'
<1> DEFINE n  == work[w].node
           at == Descend(pos[n], entrypoint, level[n])
<1>1. work[w].op = "enter" /\ UNCHANGED <<made, deleted, edges, entrypoint, peak, overlaps>> /\ entrypoint # NoNode
  BY DEF InsertEnter, graph
<1>2. work[w] \in Activity /\ n \in Nodes /\ level[n] \in Levels /\ pos[n] \in Nat /\ GraphTyped
  BY <1>1, WorkTyped, Typed
<1>3. PICK a : a = [work[w] EXCEPT !.op = "link", !.at = at, !.lvl = TopLevel(at, n)]
  OBVIOUS
<1>4. work' = [work EXCEPT ![w] = a] /\ a.op = "link" /\ a.at = at /\ a.node = n
  BY <1>2, <1>3 DEF InsertEnter, Activity
<1>5. ASSUME Small, SmallAt(work[w]) PROVE at \in Settled(work[w])
  <2>1. PICK S : S = Settled(work[w])
    OBVIOUS
  <2>2. S \in SUBSET Nodes /\ \A l \in Levels : \A x \in S : Neighbors(x, l) \subseteq S
    BY <1>1, <1>5, <2>1, SettledCloses, Numbers
  <2>3. entrypoint \in S
    BY <1>1, <1>5, <2>1 DEF SmallAt, Entered
  <2>4. PICK T : T = [l \in Levels |-> S]
    OBVIOUS
  <2>5. /\ T \in [Levels -> SUBSET Nodes] /\ \A l \in Levels : T[l] = S
    BY <2>2, <2>4
  <2>6. entrypoint \in Nodes /\ level[entrypoint] \in Levels
    BY <2>2, <2>3, Typed
  <2>7. Descend(pos[n], entrypoint, level[n]) \in T[level[n]] \cup {entrypoint}
    BY <1>2, <2>2, <2>3, <2>5, <2>6, DescendStays
  <2> QED BY <1>2, <2>1, <2>3, <2>5, <2>7
<1> HIDE DEF at
<1>6. ASSUME Small, SmallAt(work[w]) PROVE SmallAt(a)'
  <2>1. Live' = Live /\ Settled(a)' = Settled(work[w])
    BY <1>1, <1>4 DEF Live, Settled
  <2>2. Ready(a)'
    BY <1>1, <1>4, <1>5, <1>6, <2>1 DEF SmallAt, Ready
  <2>3. Mutual' /\ Joined(a)' /\ Clean(a)' /\ Entered(a)'
    BY <1>1, <1>4, <1>6, <2>1 DEF SmallAt, Mutual, Joined, Clean, Entered
  <2> QED BY <2>2, <2>3 DEF SmallAt
<1> QED BY <1>1, <1>4, <1>6, SmallStep

\* Steps after which all that is live is linked.
LEMMA CallSmall ==
  ASSUME TypeInv, FitInv, DegInv, SmallInv, NEW w \in Workers,
         InsertPanics(w) \/ InsertCompare(w) \/ InsertRaise(w)
  PROVE  SmallInv'
<1>1. /\ work[w].op \in {"enter", "compare", "raise"} /\ UNCHANGED <<made, deleted, edges, peak, overlaps>>
      /\ (work[w].op = "enter" => entrypoint = NoNode)
      /\ (entrypoint' = entrypoint \/ (work[w].op = "raise" /\ entrypoint' = work[w].node))
  <2>1. CASE InsertPanics(w)
    BY <2>1 DEF InsertPanics, graph
  <2>2. CASE InsertCompare(w)
    BY <2>2 DEF InsertCompare, graph
  <2>3. CASE InsertRaise(w)
    BY <2>3 DEF InsertRaise
  <2> QED BY <2>1, <2>2, <2>3
<1>2. PICK b : b = [work[w] EXCEPT !.op = "raise"]
  OBVIOUS
<1>3. PICK a : work' = [work EXCEPT ![w] = a] /\ (a = Idle \/ (work[w].op = "compare" /\ a = b))
  <2>1. CASE InsertPanics(w) \/ InsertRaise(w)
    BY <2>1 DEF InsertPanics, InsertRaise
  <2>2. CASE InsertCompare(w)
    BY <1>2, <2>2 DEF InsertCompare
  <2> QED BY <2>1, <2>2
<1>4. work[w] \in Activity /\ Idle.op = "idle" /\ b.op = "raise" /\ b.node = work[w].node
  BY <1>2 DEF TypeInv, Idle, Activity
<1>5. ASSUME Small, SmallAt(work[w]) PROVE SmallAt(a)'
  <2>1. work[w].op # "enter" /\ work[w].node \in Live
    BY <1>1, <1>5 DEF SmallAt, Ready
  <2>2. Live' = Live /\ Settled(a)' = Live /\ Settled(work[w]) = Live
    BY <1>1, <1>3, <1>4, <2>1 DEF Live, Settled
  <2>3. Mutual' /\ Joined(a)' /\ Clean(a)'
    BY <1>1, <1>5, <2>2 DEF SmallAt, Mutual, Joined, Clean
  <2>4. Entered(a)'
    BY <1>1, <1>5, <2>1, <2>2 DEF SmallAt, Entered
  <2>5. Ready(a)'
    BY <1>3, <1>4, <2>1, <2>2 DEF Ready
  <2> QED BY <2>3, <2>4, <2>5 DEF SmallAt
<1>6. a.op = "idle" => a = Idle
  BY <1>3, <1>4
<1> QED BY <1>1, <1>3, <1>5, <1>6, SmallStep

\* The removed entrypoint has a successor, if a vertex is left.
LEMMA ReenterSmall ==
  ASSUME TypeInv, FitInv, DegInv, SmallInv, NEW w \in Workers, RemoveReenter(w)
  PROVE  SmallInv'
<1> DEFINE n == work[w].node
<1>1. /\ work[w].op = "reenter" /\ UNCHANGED <<made, deleted, edges, peak, overlaps>>
      /\ entrypoint' = IF entrypoint = n THEN Successor(n) ELSE entrypoint
  BY DEF RemoveReenter
<1>2. PICK a : a = [work[w] EXCEPT !.op = "unlink"]
  OBVIOUS
<1>3. work' = [work EXCEPT ![w] = a]
  BY <1>2 DEF RemoveReenter
<1>4. work[w] \in Activity /\ n \in Nodes /\ a.op = "unlink" /\ a.node = n /\ a.lvl = work[w].lvl
  BY <1>1, <1>2, WorkTyped DEF Activity
<1>5. ASSUME Small, SmallAt(work[w]) PROVE SmallAt(a)'
  <2>1. Live' = Live /\ Settled(a)' = Live /\ Settled(work[w]) = Live
    BY <1>1, <1>4 DEF Live, Settled
  <2>2. /\ entrypoint \in Live \cup {n} /\ Live \subseteq edges[n][0]
        /\ \A l \in Levels : edges[n][l] \subseteq Live
    BY <1>1, <1>5 DEF SmallAt, Ready
  <2>3. \/ Successor(n) = NoNode /\ Live = {}
        \/ Successor(n) \in Live
    <3>1. 0 \in 0 .. level[n]
      <4>1. level[n] \in Nat
        BY <1>4, Typed, Numbers
      <4> QED BY <4>1
    <3> QED BY <1>4, <2>2, <3>1, SuccessorIs
  <2>4. Entered(a)'
    <3>1. entrypoint' \in Live \/ (entrypoint' = NoNode /\ Live = {})
      BY <1>1, <2>2, <2>3
    <3> QED BY <2>1, <3>1 DEF Entered
  <2>5. Mutual' /\ Joined(a)' /\ Clean(a)'
    BY <1>1, <1>4, <1>5, <2>1 DEF SmallAt, Mutual, Joined, Clean
  <2>6. Ready(a)'
    BY <1>4 DEF Ready
  <2> QED BY <2>4, <2>5, <2>6 DEF SmallAt
<1>6. a.op # "idle"
  BY <1>4
<1> QED BY <1>1, <1>3, <1>5, <1>6, SmallStep

\* The neighbors forget what was removed, and nothing else.
LEMMA UnlinkSmall ==
  ASSUME TypeInv, FitInv, DegInv, SmallInv, NEW w \in Workers, RemoveUnlink(w)
  PROVE  SmallInv'
<1>1. PICK n, l : n = work[w].node /\ l = work[w].lvl
  OBVIOUS
<1>2. PICK a : a = IF l = 0 THEN Idle ELSE [work[w] EXCEPT !.lvl = l - 1]
  OBVIOUS
<1>3. /\ work[w].op = "unlink" /\ UNCHANGED <<made, deleted, entrypoint, peak, overlaps>>
      /\ edges' = [x \in Nodes |->
                 IF x \in edges[n][l]
                   THEN [edges[x] EXCEPT ![l] = Pruned(x, edges[x][l] \ {n}, l)] ELSE edges[x]]
      /\ work' = [work EXCEPT ![w] = a]
  BY <1>1, <1>2 DEF RemoveUnlink
<1>4. work[w] \in Activity /\ n \in Nodes /\ l \in Levels /\ l \in Nat
  BY <1>1, <1>3, WorkTyped, Numbers
<1>5. /\ l = 0 => a = Idle /\ a.op = "idle"
      /\ l # 0 => a.op = "unlink" /\ a.node = n /\ a.lvl = l - 1
  BY <1>1, <1>2, <1>3, <1>4 DEF Idle, Activity
<1>6. \A x \in Nodes : edges[x] \in [Levels -> SUBSET Nodes]
  BY DEF TypeInv
<1>7. ASSUME Small, SmallAt(work[w]) PROVE SmallAt(a)'
  <2>1. Live' = Live /\ Settled(a)' = Live /\ Settled(work[w]) = Live /\ Live \in SUBSET Nodes /\ n \notin Live
    <3>1. n \in deleted
      BY <1>1, <1>3, WorkTyped DEF InHand
    <3> QED BY <1>3, <1>5, <3>1, Typed DEF Live, Settled
  <2>2. ASSUME NEW x \in Live, NEW k \in Levels
        PROVE  edges'[x][k] = IF k = l THEN edges[x][k] \ deleted ELSE edges[x][k]
    <3>1. CASE x \in edges[n][l] /\ k = l
      <4>1. edges'[x][k] = Pruned(x, edges[x][l] \ {n}, l)
        BY <1>3, <1>4, <1>6, <2>1, <3>1
      <4>2. (edges[x][l] \ {n}) \ deleted \subseteq Live \ {x}
        <5>1. edges[x][l] \subseteq 1 .. made
          BY <1>4, <2>1, NeighborsMade
        <5>2. \A y \in edges[x][l] \ deleted : y \in Live /\ y # x
          BY <1>4, <1>7, <5>1 DEF SmallAt, Mutual, Live
        <5> QED BY <5>2
      <4>3. Pruned(x, edges[x][l] \ {n}, l) = (edges[x][l] \ {n}) \ deleted
        BY <1>4, <1>7, <4>2, PrunedAll
      <4>4. n \in deleted
        BY <1>1, <1>3, WorkTyped DEF InHand
      <4> QED BY <3>1, <4>1, <4>3, <4>4
    <3>2. CASE x \notin edges[n][l] /\ k = l
      <4>1. edges'[x][k] = edges[x][k]
        BY <1>3, <2>1, <3>2
      <4>2. \A y \in deleted : y \notin edges[x][l]
        BY <1>1, <1>4, <1>7, <3>2 DEF SmallAt, Clean
      <4> QED BY <3>2, <4>1, <4>2
    <3>3. CASE k # l
      BY <1>3, <1>4, <1>6, <2>1, <3>3
    <3> QED BY <3>1, <3>2, <3>3
  <2>3. \A k \in Levels : k # l => edges'[n][k] = edges[n][k]
    BY <1>3, <1>4, <1>6
  <2>4. Mutual'
    <3> SUFFICES ASSUME NEW x \in Live, NEW y \in Live, NEW k \in Levels, y \in edges'[x][k]
                 PROVE  x \in edges'[y][k] /\ x # y
      BY <2>1 DEF Mutual
    <3>1. y \in edges[x][k]
      BY <2>2
    <3>2. x \in edges[y][k] /\ x # y /\ x \notin deleted
      BY <1>7, <3>1 DEF SmallAt, Mutual, Live
    <3> QED BY <2>2, <3>2
  <2>5. Joined(a)'
    <3> SUFFICES ASSUME NEW x \in Live, NEW y \in Live, x # y PROVE y \in edges'[x][0]
      BY <2>1 DEF Joined
    <3>1. y \in edges[x][0] /\ y \notin deleted
      BY <1>7, <2>1 DEF SmallAt, Joined, Live
    <3> QED BY <2>2, <3>1, Numbers
  <2>6. Clean(a)'
    <3> SUFFICES ASSUME NEW x \in Live, NEW y \in deleted, NEW k \in Levels, y \in edges'[x][k]
                 PROVE  a.op \in {"reenter", "unlink"} /\ y = a.node /\ k <= a.lvl /\ x \in edges'[y][k]
      BY <1>3, <2>1 DEF Clean
    <3>1. k # l /\ y \in edges[x][k]
      BY <2>2
    <3>2. y = n /\ k <= l /\ x \in edges[y][k]
      BY <1>1, <1>7, <3>1 DEF SmallAt, Clean
    <3>3. k \in Nat /\ l # 0 /\ k <= l - 1
      BY <1>4, <3>1, <3>2, Numbers
    <3> QED BY <1>5, <2>3, <3>1, <3>2, <3>3
  <2>7. Entered(a)'
    BY <1>3, <1>7, <2>1 DEF SmallAt, Entered
  <2>8. Ready(a)'
    BY <1>5 DEF Ready
  <2> QED BY <2>4, <2>5, <2>6, <2>7, <2>8 DEF SmallAt
<1>8. a.op = "idle" => a = Idle
  BY <1>5
<1> QED BY <1>3, <1>7, <1>8, SmallStep

\* The vertex that is linked is linked to all, and all to it.
LEMMA LinkSmall ==
  ASSUME TypeInv, FitInv, DegInv, SmallInv, NEW w \in Workers, InsertLink(w)
  PROVE  SmallInv'
<1>1. PICK n, l : n = work[w].node /\ l = work[w].lvl
  OBVIOUS
<1>2. PICK R : R = SearchLevel(work[w].at, l)
  OBVIOUS
<1>3. PICK S : S = Nearest(R, pos[n], M)
  OBVIOUS
<1>4. PICK a : a = IF l = 0 THEN [Idle EXCEPT !.op = "compare", !.node = n]
                   ELSE [work[w] EXCEPT !.at = NearestOf(S, pos[n]), !.lvl = l - 1]
  OBVIOUS
<1>5. /\ work[w].op = "link" /\ UNCHANGED <<made, deleted, entrypoint, peak, overlaps>>
      /\ work' = [work EXCEPT ![w] = a]
      /\ edges' = [x \in Nodes |->
                     IF x = n THEN [edges[n] EXCEPT ![l] = @ \cup S]
                     ELSE IF x \in S THEN [edges[x] EXCEPT ![l] = Linked(x, n, l)]
                     ELSE edges[x]]
  BY <1>1, <1>2, <1>3, <1>4 DEF InsertLink
<1>6. work[w] \in Activity /\ n \in Nodes /\ l \in Levels /\ l \in Nat /\ GraphTyped /\ pos[n] \in Nat
  BY <1>1, <1>5, WorkTyped, Typed, Numbers
<1>7. /\ l = 0 => a.op = "compare" /\ a.node = n
      /\ l # 0 => a.op = "link" /\ a.node = n /\ a.lvl = l - 1 /\ a.at = NearestOf(S, pos[n])
  BY <1>1, <1>4, <1>5, <1>6 DEF Idle, Activity
<1>8. \A x \in Nodes : edges[x] \in [Levels -> SUBSET Nodes]
  BY DEF TypeInv
<1>9. ASSUME Small, SmallAt(work[w]) PROVE SmallAt(a)'
  <2>1. PICK T : T = Settled(work[w])
    OBVIOUS
  <2>2. n \in Live /\ work[w].at \in T /\ entrypoint # NoNode
    BY <1>1, <1>5, <1>9, <2>1 DEF SmallAt, Ready
  <2>3. /\ T \in SUBSET Nodes /\ T = Live \ {n}
        /\ \A x \in T : edges[x][l] \subseteq T /\ Neighbors(x, l) \subseteq T
    BY <1>1, <1>5, <1>6, <1>9, <2>1, SettledCloses
  <2>4. R \subseteq T /\ work[w].at \in R /\ R \in SUBSET Nodes /\ \A x \in R : Neighbors(x, l) \subseteq R
    BY <1>2, <1>6, <2>2, <2>3, SearchStays, SearchCloses
  <2>5. S = R
    <3>1. Cardinality(R) <= M
      BY <1>9, <2>2, <2>3, <2>4, FewLive
    <3> QED BY <1>3, <1>6, <2>4, <3>1, NearestAll, Numbers
  <2>6. edges[n][l] = {}
    <3>1. l <= l
      BY <1>6
    <3> QED BY <1>1, <1>5, <1>6, <1>9, <3>1 DEF DegInv, Fresh, Small
  <2>7. \A x \in T : Linked(x, n, l) = edges[x][l] \cup {n}
    <3> TAKE x \in T
    <3>1. edges[x][l] \subseteq Live \ {x} /\ x \in Live /\ n # x
      BY <1>6, <1>9, <2>3 DEF SmallAt, Mutual
    <3> QED BY <1>6, <1>9, <2>2, <3>1, LinkedAll
  <2>8. /\ edges'[n][l] = S
        /\ \A x \in T : edges'[x][l] = IF x \in S THEN edges[x][l] \cup {n} ELSE edges[x][l]
        /\ \A x \in Nodes, k \in Levels : k # l => edges'[x][k] = edges[x][k]
    <3>1. edges'[n][l] = edges[n][l] \cup S
      BY <1>5, <1>6, <1>8
    <3>2. \A x \in T : edges'[x][l] = IF x \in S THEN Linked(x, n, l) ELSE edges[x][l]
      BY <1>5, <1>6, <1>8, <2>3
    <3>3. \A x \in Nodes, k \in Levels : k # l => edges'[x][k] = edges[x][k]
      BY <1>5, <1>6, <1>8
    <3> QED BY <2>6, <2>7, <3>1, <3>2, <3>3
  <2>9. Live' = Live /\ Live = T \cup {n} /\ n \notin T /\ Live \in SUBSET Nodes /\ S \subseteq T
    BY <1>5, <1>6, <2>2, <2>3, <2>4, <2>5 DEF Live
  <2>10. \A x \in Live, k \in Levels : edges'[x][k] \subseteq Live
    <3> TAKE x \in Live, k \in Levels
    <3>1. CASE k = l
      <4>1. CASE x = n
        BY <2>8, <2>9, <3>1, <4>1
      <4>2. CASE x # n
        <5>1. edges'[x][l] \subseteq edges[x][l] \cup {n} /\ edges[x][l] \subseteq T
          BY <2>3, <2>8, <2>9, <4>2
        <5> QED BY <2>9, <3>1, <5>1
      <4> QED BY <4>1, <4>2
    <3>2. CASE k # l
      <4>1. edges'[x][k] = edges[x][k] /\ edges[x][k] \subseteq 1 .. made
        BY <2>8, <2>9, <3>2, NeighborsMade
      <4>2. \A y \in deleted : y \notin edges[x][k]
        BY <1>5, <1>9 DEF SmallAt, Clean
      <4> QED BY <4>1, <4>2 DEF Live
    <3> QED BY <3>1, <3>2
  <2>11. Mutual'
    <3> SUFFICES ASSUME NEW x \in Live, NEW y \in Live, NEW k \in Levels, y \in edges'[x][k]
                 PROVE  x \in edges'[y][k] /\ x # y
      BY <2>9 DEF Mutual
    <3>1. y \in edges[x][k] => x \in edges[y][k] /\ x # y
      BY <1>9 DEF SmallAt, Mutual
    <3>2. CASE k # l
      BY <2>8, <2>9, <3>1, <3>2
    <3>3. CASE k = l /\ x = n
      BY <2>8, <2>9, <3>3
    <3>4. CASE k = l /\ x # n /\ y = n
      <4>1. x \in T
        BY <2>9, <3>4
      <4>2. x \in S
        BY <2>3, <2>8, <2>9, <3>4, <4>1
      <4> QED BY <2>8, <3>4, <4>2
    <3>5. CASE k = l /\ x # n /\ y # n
      BY <2>8, <2>9, <3>1, <3>5
    <3> QED BY <3>2, <3>3, <3>4, <3>5
  <2>12. Clean(a)'
    BY <1>5, <2>9, <2>10 DEF Clean, Live
  <2>13. Entered(a)'
    BY <1>5, <1>7, <1>9, <2>1, <2>2, <2>3, <2>9 DEF SmallAt, Entered, Settled
  <2>14. CASE l = 0
    <3>1. S = T
      <4>1. \A y \in T : y # work[w].at => y \in Neighbors(work[w].at, 0)
        BY <1>9, <2>1, <2>2, <2>3 DEF SmallAt, Joined, Neighbors, Live
      <4> QED BY <2>4, <2>5, <2>14, <4>1
    <3>2. Settled(a)' = Live
      BY <1>7, <2>9, <2>14 DEF Settled
    <3>3. \A x, y \in T : x # y => y \in edges[x][0]
      BY <1>9, <2>1 DEF SmallAt, Joined
    <3>4. \A x, y \in Live : x # y => y \in edges'[x][0]
      BY <2>8, <2>9, <2>14, <3>1, <3>3
    <3>5. Joined(a)'
      BY <3>2, <3>4 DEF Joined
    <3>6. Ready(a)'
      BY <1>7, <2>9, <2>2, <2>14 DEF Ready
    <3> QED BY <2>11, <2>12, <2>13, <3>5, <3>6 DEF SmallAt
  <2>15. CASE l # 0
    <3>1. Settled(a)' = T
      BY <1>7, <2>3, <2>9, <2>15 DEF Settled
    <3>2. Joined(a)'
      <4>1. \A x \in T : edges'[x][0] = edges[x][0]
        BY <2>3, <2>8, <2>15, Numbers
      <4> QED BY <1>9, <2>1, <3>1, <4>1 DEF SmallAt, Joined
    <3>3. a.at \in T
      <4>1. NearestOf(S, pos[n]) \in S
        BY <1>6, <2>4, <2>5, NearestIs
      <4> QED BY <1>7, <2>9, <2>15, <4>1
    <3>4. Ready(a)'
      BY <1>5, <1>7, <2>2, <2>9, <2>15, <3>1, <3>3 DEF Ready
    <3> QED BY <2>11, <2>12, <2>13, <3>2, <3>4 DEF SmallAt
  <2> QED BY <2>14, <2>15
<1>10. a.op # "idle"
  BY <1>7
<1> QED BY <1>5, <1>9, <1>10, SmallStep

\* A snapshot that is read back has all links of what is live.
LEMMA ReloadSmall == TypeInv /\ FitInv /\ SmallInv /\ Reload => SmallInv'
<1> SUFFICES ASSUME TypeInv, FitInv, SmallInv, Reload PROVE SmallInv'
  OBVIOUS
<1>1. /\ edges' = [n \in Nodes |-> [l \in Levels |-> Saved(n, l)]] /\ Quiet /\ Live # {}
      /\ entrypoint' = IF entrypoint \in Live THEN entrypoint ELSE NoNode
      /\ UNCHANGED <<made, deleted, work, peak, overlaps>>
  BY DEF Reload
<1>2. Live' = Live /\ Live \in SUBSET Nodes /\ Quiet' /\ (Small' <=> Small)
  BY <1>1, Typed DEF Live, Quiet, Small
<1>3. ASSUME Small PROVE SmallAt(Idle)'
  <2>1. SmallAt(Idle) /\ Idle.op = "idle"
    BY <1>1, <1>3 DEF SmallInv, Idle
  <2>2. Settled(Idle) = Live /\ Settled(Idle)' = Live
    BY <1>2, <2>1 DEF Settled
  <2>3. \A x \in Live, l \in Levels : edges'[x][l] = edges[x][l]
    <3> TAKE x \in Live, l \in Levels
    <3>1. edges'[x][l] = edges[x][l] \ deleted
      BY <1>1, <1>2 DEF Saved, Neighbors
    <3>2. \A y \in deleted : y \notin edges[x][l]
      BY <2>1 DEF SmallAt, Clean
    <3> QED BY <3>1, <3>2
  <2>4. entrypoint' = entrypoint
    BY <1>1, <2>1, <2>2 DEF SmallAt, Entered
  <2>5. Mutual' /\ Joined(Idle)' /\ Entered(Idle)'
    <3>1. Mutual'
      BY <1>2, <2>1, <2>3 DEF SmallAt, Mutual
    <3>2. Joined(Idle)'
      BY <1>2, <2>1, <2>2, <2>3, Numbers DEF SmallAt, Joined
    <3>3. Entered(Idle)'
      BY <1>2, <2>1, <2>2, <2>4 DEF SmallAt, Entered, Idle
    <3> QED BY <3>1, <3>2, <3>3
  <2>6. Clean(Idle)'
    <3>1. \A x \in Live, y \in deleted, l \in Levels : y \notin edges'[x][l]
      BY <2>1, <2>3 DEF SmallAt, Clean
    <3> QED BY <1>1, <1>2, <3>1 DEF Clean
  <2>7. Ready(Idle)'
    BY <2>1 DEF Ready
  <2> QED BY <2>5, <2>6, <2>7 DEF SmallAt
<1>4. \A w \in Workers : work'[w].op = "idle"
  BY <1>1 DEF Quiet
<1> QED BY <1>1, <1>2, <1>3, <1>4 DEF SmallInv

\* No step of a change that is alone leaves a vertex behind.
LEMMA NextSmall == TypeInv /\ FitInv /\ DegInv /\ SmallInv /\ [Next]_vars => SmallInv'
<1> SUFFICES ASSUME TypeInv, FitInv, DegInv, SmallInv, [Next]_vars PROVE SmallInv'
  OBVIOUS
<1>1. CASE Reload
  BY <1>1, ReloadSmall
<1>2. ASSUME NEW w \in Workers, Insert(w) PROVE SmallInv'
  <2>1. ASSUME NEW p \in Points, NEW lvl \in Levels, InsertStore(w, p, lvl) PROVE SmallInv'
    BY <2>1, StoreSmall
  <2>2. CASE InsertClaim(w)
    BY <2>2, ClaimSmall
  <2>3. CASE InsertEnter(w)
    BY <2>3, EnterSmall
  <2>4. CASE InsertLink(w)
    BY <2>4, LinkSmall
  <2>5. CASE InsertPanics(w) \/ InsertCompare(w) \/ InsertRaise(w)
    BY <2>5, CallSmall
  <2> QED BY <1>2, <2>1, <2>2, <2>3, <2>4, <2>5 DEF Insert
<1>3. ASSUME NEW w \in Workers, Remove(w) PROVE SmallInv'
  <2>1. ASSUME NEW n \in Nodes, RemoveVertex(w, n) PROVE SmallInv'
    BY <2>1, RemoveSmall
  <2>2. CASE RemoveReenter(w)
    BY <2>2, ReenterSmall
  <2>3. CASE RemoveUnlink(w)
    BY <2>3, UnlinkSmall
  <2> QED BY <1>3, <2>1, <2>2, <2>3 DEF Remove
<1>4. CASE UNCHANGED vars
  <2>1. UNCHANGED <<made, deleted, edges, entrypoint, work, peak, overlaps>>
    BY <1>4 DEF vars, graph
  <2>2. \A a : SmallAt(a)' <=> SmallAt(a)
    BY <2>1 DEF SmallAt, Mutual, Joined, Clean, Entered, Ready, Settled, Live
  <2>3. (Small' <=> Small) /\ (Quiet' <=> Quiet) /\ Live' = Live
    BY <2>1 DEF Small, Quiet, Live
  <2>4. \A w \in Workers : SmallAt(work[w])' <=> SmallAt(work[w])
    BY <2>1 DEF SmallAt, Mutual, Joined, Clean, Entered, Ready, Settled, Live
  <2> QED BY <2>1, <2>2, <2>3, <2>4 DEF SmallInv
<1> QED BY <1>1, <1>2, <1>3, <1>4 DEF Next

\* An index that never held more than m + 1 vertices meets all of them in every search.
THEOREM SmallIsExact == Spec => []ExactWhenSmall
<1>1. Spec => [](TypeInv /\ FitInv /\ DegInv /\ SmallInv)
  BY AlwaysFits, InitSlim, NextSlim, InitSmall, NextSmall, PTL DEF Spec
<1>2. ASSUME TypeInv, FitInv, DegInv, SmallInv, Quiet, Small, NEW p \in Points PROVE Met(p) = Live
  <2>1. SmallAt(Idle) /\ Idle.op = "idle"
    BY <1>2 DEF SmallInv, Idle
  <2>2. Settled(Idle) = Live /\ Live \in SUBSET Nodes /\ GraphTyped /\ p \in Nat /\ 0 \in Levels
    BY <1>2, <2>1, Typed, Numbers DEF Settled, Live
  <2>3. \A x \in Live, l \in Levels : Neighbors(x, l) \subseteq Live
    BY <1>2, <2>2, NeighborsMade DEF Neighbors, Live
  <2>4. CASE entrypoint = NoNode
    <3>1. Live = {}
      BY <2>1, <2>2, <2>4 DEF SmallAt, Entered, NoNode, Live
    <3> QED BY <2>4, <3>1 DEF Met
  <2>5. CASE entrypoint # NoNode
    <3>1. entrypoint \in Live
      BY <2>1, <2>2, <2>5 DEF SmallAt, Entered
    <3>2. PICK T : T = [l \in Levels |-> Live]
      OBVIOUS
    <3>3. T \in [Levels -> SUBSET Nodes] /\ \A l \in Levels : T[l] = Live
      BY <2>2, <3>2
    <3>4. entrypoint \in Nodes /\ level[entrypoint] \in Levels
      BY <1>2, <2>2, <3>1, Typed
    <3>5. Descend(p, entrypoint, 0) \in T[0] \cup {entrypoint}
      BY <2>2, <2>3, <3>1, <3>3, <3>4, DescendStays
    <3>6. PICK d \in Live : d = Descend(p, entrypoint, 0)
      BY <2>2, <3>1, <3>3, <3>5
    <3>7. SearchLevel(d, 0) \subseteq Live
      BY <2>2, <2>3, SearchStays
    <3>8. d \in SearchLevel(d, 0) /\ Neighbors(d, 0) \subseteq SearchLevel(d, 0)
      BY <2>2, SearchCloses
    <3>9. \A y \in Live : y # d => y \in Neighbors(d, 0)
      BY <2>1, <2>2 DEF SmallAt, Joined, Neighbors, Live
    <3>10. SearchLevel(d, 0) = Live
      BY <3>7, <3>8, <3>9
    <3> QED BY <2>5, <3>6, <3>10 DEF Met
  <2> QED BY <2>4, <2>5
<1>3. TypeInv /\ FitInv /\ DegInv /\ SmallInv => ExactWhenSmall
  BY <1>2 DEF ExactWhenSmall, Search, Small
<1> QED BY <1>1, <1>3, PTL
=============================================================================
