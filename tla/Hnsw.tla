-------------------------------- MODULE Hnsw --------------------------------
(***************************************************************************)
(* The vector index of core: a hierarchy of graphs in which an insertion   *)
(* links its vertex to the closest vertices it finds, a removal unlinks    *)
(* one, and a search walks from the entrypoint to the closest vertices.    *)
(* Snapshots write the graph out and read it back.                         *)
(*                                                                         *)
(* A vector is a point of a line, no two pairs of points equally far       *)
(* apart, so that the closest vertices are always determined.  ef is       *)
(* larger than the store: searchLevel then meets all it can reach, and     *)
(* both search algorithms select the closest.  Every vertex has an id of   *)
(* its own: an update counts as a removal and an insertion.  A worker is a *)
(* goroutine of Core.Insert, Update or Delete, which takes no lock across  *)
(* the steps below; the locks of the single vertices are abstracted: the   *)
(* work on one level is one step.                                          *)
(***************************************************************************)
EXTENDS Integers, FiniteSets, FiniteSetsExt

CONSTANTS
  Workers,        \* goroutines that change the graph
  Points,         \* where vectors may lie
  M, MMax, MMax0, \* hnswConfig: links of an insertion, degree above level 0, at it
  MaxNodes,       \* bound: vertices ever made
  MaxRemoved,     \* bound: vertices ever removed
  MaxLevel,       \* bound: RandomLevel
  MaxOverlaps     \* bound: changes that begin while another one is in progress

ASSUME HnswAssumption ==
  /\ Points \subseteq Nat
  /\ \A p, q, r, s \in Points : p < q /\ r < s /\ q - p = s - r => p = r
  /\ M \in Nat \ {0} /\ MMax \in Nat /\ MMax0 \in Nat
  /\ M <= MMax /\ M <= MMax0
  /\ MaxNodes \in Nat /\ MaxRemoved \in Nat /\ MaxLevel \in Nat /\ MaxOverlaps \in Nat

Nodes  == 1 .. MaxNodes
Levels == 0 .. MaxLevel
NoNode == 0     \* the nil pointer

VARIABLES
  made,        \* how many vertices were made
  pos, level,  \* of every vertex: its vector and its level
  deleted,     \* vertices that were removed
  edges,       \* vertex -> level -> neighbors
  entrypoint,
  work,        \* what every worker is doing
  peak,        \* history: the most vertices the index ever held
  overlaps     \* history: changes that began while another one was in progress

graph == <<made, pos, level, deleted, edges, entrypoint>>
vars  == <<graph, work, peak, overlaps>>

-----------------------------------------------------------------------------
(* Searching *)

Live == (1 .. made) \ deleted
Distance(p, q) == IF p < q THEN q - p ELSE p - q

\* The k vertices of S closest to point p, all of S when it has no more.
Nearest(S, p, k) ==
  {s \in S : Cardinality({t \in S : Distance(p, pos[t]) < Distance(p, pos[s])}) < k}
NearestOf(S, p) == CHOOSE s \in S : s \in Nearest(S, p, 1)

MaxDegree(l) == IF l = 0 THEN MMax0 ELSE MMax

Neighbors(n, l) == edges[n][l] \ deleted

\* greedyClosestNeighbor.
Greedy(p, start, l) ==
  LET walk[n \in Nodes] ==
        LET closer == {m \in Neighbors(n, l) : Distance(p, pos[m]) < Distance(p, pos[n])}
        IN  IF closer = {} THEN n ELSE walk[NearestOf(closer, p)]
  IN  walk[start]

\* The greedy descent from the entrypoint to level bottom.
Descend(p, start, bottom) ==
  LET down[l \in bottom .. MaxLevel] ==   \* the vertex that level l is entered at
        IF l >= level[start] THEN start ELSE Greedy(p, down[l + 1], l + 1)
  IN  IF bottom > MaxLevel THEN start ELSE down[bottom]

\* searchLevel: all that is reached from start, which counts even if deleted.
SearchLevel(start, l) ==
  LET reach[i \in 0 .. MaxNodes] ==
        IF i = 0 THEN {start}
        ELSE LET S == reach[i - 1] IN S \cup UNION {Neighbors(n, l) : n \in S}
  IN  reach[MaxNodes]

\* Search: all that is met on level 0, and the k closest of it.
Met(p) ==
  IF entrypoint = NoNode THEN {} ELSE SearchLevel(Descend(p, entrypoint, 0), 0)
Search(p, k) == Nearest(Met(p), p, k)

-----------------------------------------------------------------------------
Idle == [op |-> "idle", node |-> NoNode, at |-> NoNode, lvl |-> 0]

Init ==
  /\ made = 0
  /\ pos = [n \in Nodes |-> 0] /\ level = [n \in Nodes |-> 0]
  /\ deleted = {}
  /\ edges = [n \in Nodes |-> [l \in Levels |-> {}]]
  /\ entrypoint = NoNode
  /\ work = [w \in Workers |-> Idle]
  /\ peak = 0 /\ overlaps = 0

\* No change is in progress.
Quiet == \A w \in Workers : work[w].op = "idle"

\* A worker begins a change, as long as the bound on overlaps allows it.
Begins(w) ==
  /\ work[w].op = "idle"
  /\ overlaps' = IF Quiet THEN overlaps ELSE overlaps + 1
  /\ overlaps' <= MaxOverlaps

-----------------------------------------------------------------------------
(* Insert *)

\* storeVertex.  Into an index without an entrypoint a vertex goes on level 0.
InsertStore(w, p, lvl) ==
  LET n == made + 1 IN
  /\ Begins(w) /\ made < MaxNodes
  /\ \A m \in 1 .. made : pos[m] # p
  /\ made' = n
  /\ pos' = [pos EXCEPT ![n] = p]
  /\ level' = [level EXCEPT ![n] = IF entrypoint = NoNode THEN 0 ELSE lvl]
  /\ work' = [work EXCEPT ![w] = [Idle EXCEPT
                !.op = IF entrypoint = NoNode THEN "claim" ELSE "enter", !.node = n]]
  /\ peak' = Max({peak, Cardinality(Live) + 1})
  /\ UNCHANGED <<deleted, edges, entrypoint>>

\* Mutant of InsertClaim: the entrypoint is stored without a comparison.
InsertClaimStores(w) ==
  /\ work[w].op = "claim"
  /\ entrypoint' = work[w].node /\ work' = [work EXCEPT ![w] = Idle]
  /\ UNCHANGED <<made, pos, level, deleted, edges, peak, overlaps>>

\* The compare-and-swap that makes the vertex the entrypoint if there is none.  The
\* setLevel of the loser makes room for edges: its level remains 0.
InsertClaim(w) ==
  /\ work[w].op = "claim"
  /\ IF entrypoint = NoNode
       THEN entrypoint' = work[w].node /\ work' = [work EXCEPT ![w] = Idle]
       ELSE work' = [work EXCEPT ![w].op = "enter"] /\ UNCHANGED entrypoint
  /\ UNCHANGED <<made, pos, level, deleted, edges, peak, overlaps>>

\* Mutant of TopLevel: the level of the vertex that is entered is not looked at.
TopLevelOfNew(at, n) == level[n]

\* The highest level that n and the vertex at have in common.
TopLevel(at, n) == Min({level[at], level[n]})

\* The entrypoint is read again, and followed down to the level of the vertex.
InsertEnter(w) ==
  LET n  == work[w].node
      at == Descend(pos[n], entrypoint, level[n])
  IN
  /\ work[w].op = "enter" /\ entrypoint # NoNode
  /\ work' = [work EXCEPT ![w].op = "link", ![w].at = at,
                          ![w].lvl = TopLevel(at, n)]
  /\ UNCHANGED <<graph, peak, overlaps>>

\* A nil entrypoint is dereferenced: the vertex stays stored and is not linked.
InsertPanics(w) ==
  /\ work[w].op = "enter" /\ entrypoint = NoNode
  /\ work' = [work EXCEPT ![w] = Idle]
  /\ UNCHANGED <<graph, peak, overlaps>>

\* pruneNeighbors: what vertex x keeps of the neighbors S.
Pruned(x, S, l) == Nearest(S \ deleted, pos[x], MaxDegree(l))

\* Mutant of Linked: prunes one neighbor too late.
LinkedLate(x, n, l) ==
  LET S == edges[x][l] \cup {n} IN
  IF Cardinality(S) > MaxDegree(l) + 1 THEN Pruned(x, S, l) ELSE S

\* Neighbor x of n after n has linked to it.
Linked(x, n, l) ==
  LET S == edges[x][l] \cup {n} IN
  IF Cardinality(S) > MaxDegree(l) THEN Pruned(x, S, l) ELSE S

\* One level: the vertex is linked both ways to the M closest, and the closest of
\* them is where the level below is entered.
InsertLink(w) ==
  LET n == work[w].node
      l == work[w].lvl
      S == Nearest(SearchLevel(work[w].at, l), pos[n], M)
  IN
  /\ work[w].op = "link"
  /\ edges' = [x \in Nodes |->
                 IF x = n THEN [edges[n] EXCEPT ![l] = @ \cup S]
                 ELSE IF x \in S THEN [edges[x] EXCEPT ![l] = Linked(x, n, l)]
                 ELSE edges[x]]
  /\ work' = [work EXCEPT ![w] =
                 IF l = 0 THEN [Idle EXCEPT !.op = "compare", !.node = n]
                          ELSE [@ EXCEPT !.at = NearestOf(S, pos[n]), !.lvl = l - 1]]
  /\ UNCHANGED <<made, pos, level, deleted, entrypoint, peak, overlaps>>

\* Is the vertex above the entrypoint?
InsertCompare(w) ==
  LET n == work[w].node IN
  /\ work[w].op = "compare"
  /\ work' = [work EXCEPT ![w] =
                 IF entrypoint # NoNode /\ level[n] > level[entrypoint]
                   THEN [@ EXCEPT !.op = "raise"] ELSE Idle]
  /\ UNCHANGED <<graph, peak, overlaps>>

\* Then it becomes the entrypoint, whatever that is by now: what the compare-and-swap
\* expects is read when it is called.
InsertRaise(w) ==
  /\ work[w].op = "raise"
  /\ entrypoint' = work[w].node
  /\ work' = [work EXCEPT ![w] = Idle]
  /\ UNCHANGED <<made, pos, level, deleted, edges, peak, overlaps>>

-----------------------------------------------------------------------------
(* Remove *)

\* removeVertex: out of the map, and marked.
RemoveVertex(w, n) ==
  /\ Begins(w) /\ n \in Live /\ Cardinality(deleted) < MaxRemoved
  /\ deleted' = deleted \cup {n}
  /\ work' = [work EXCEPT ![w] = [Idle EXCEPT !.op = "reenter", !.node = n,
                                              !.lvl = level[n]]]
  /\ UNCHANGED <<made, pos, level, edges, entrypoint, peak>>

\* Mutant of Successor: looks on the highest level only.
SuccessorAtTop(n) ==
  IF edges[n][level[n]] = {} THEN NoNode ELSE NearestOf(edges[n][level[n]], pos[n])

\* The closest neighbor on the highest level that has any, removed or not.
Successor(n) ==
  LET tops == {l \in 0 .. level[n] : edges[n][l] # {}} IN
  IF tops = {} THEN NoNode ELSE NearestOf(edges[n][Max(tops)], pos[n])

\* The entrypoint was removed: another one takes its place.
RemoveReenter(w) ==
  LET n == work[w].node IN
  /\ work[w].op = "reenter"
  /\ entrypoint' = IF entrypoint = n THEN Successor(n) ELSE entrypoint
  /\ work' = [work EXCEPT ![w].op = "unlink"]
  /\ UNCHANGED <<made, pos, level, deleted, edges, peak, overlaps>>

\* Mutant of RemoveUnlink: the loop does not end at level 0.
RemoveUnlinkOnce(w) ==
  LET n == work[w].node
      l == work[w].lvl
  IN
  /\ work[w].op = "unlink"
  /\ edges' = [x \in Nodes |->
                 IF x \in edges[n][l]
                   THEN [edges[x] EXCEPT ![l] = Pruned(x, @ \ {n}, l)] ELSE edges[x]]
  /\ work' = [work EXCEPT ![w].lvl = l - 1]
  /\ UNCHANGED <<made, pos, level, deleted, entrypoint, peak, overlaps>>

\* One level: the neighbors of the vertex forget it.
RemoveUnlink(w) ==
  LET n == work[w].node
      l == work[w].lvl
  IN
  /\ work[w].op = "unlink"
  /\ edges' = [x \in Nodes |->
                 IF x \in edges[n][l]
                   THEN [edges[x] EXCEPT ![l] = Pruned(x, @ \ {n}, l)] ELSE edges[x]]
  /\ work' = [work EXCEPT ![w] = IF l = 0 THEN Idle ELSE [@ EXCEPT !.lvl = l - 1]]
  /\ UNCHANGED <<made, pos, level, deleted, entrypoint, peak, overlaps>>

-----------------------------------------------------------------------------
(* Snapshots *)

\* Mutant of Saved: the loop over the levels stops before level 0.
SavedAbove(n, l) == IF n \in Live /\ l > 0 THEN Neighbors(n, l) ELSE {}

\* What is written of the edges of vertex n on level l.
Saved(n, l) == IF n \in Live THEN Neighbors(n, l) ELSE {}

\* Commit writes the vertices in the map and the edges between them, and the id of
\* the entrypoint, which Load looks up in the map.  A snapshot without vertices
\* ends behind its header, and cannot be loaded.
Reload ==
  /\ Quiet /\ Live # {} /\ entrypoint # NoNode
  /\ edges' = [n \in Nodes |-> [l \in Levels |-> Saved(n, l)]]
  /\ entrypoint' = IF entrypoint \in Live THEN entrypoint ELSE NoNode
  /\ UNCHANGED <<made, pos, level, deleted, work, peak, overlaps>>

-----------------------------------------------------------------------------
Insert(w) ==
  \/ \E p \in Points, lvl \in Levels : InsertStore(w, p, lvl)
  \/ InsertClaim(w)
  \/ InsertEnter(w)
  \/ InsertPanics(w)
  \/ InsertLink(w)
  \/ InsertCompare(w)
  \/ InsertRaise(w)

Remove(w) ==
  \/ \E n \in Nodes : RemoveVertex(w, n)
  \/ RemoveReenter(w)
  \/ RemoveUnlink(w)

Next == Reload \/ \E w \in Workers : Insert(w) \/ Remove(w)

Spec == Init /\ [][Next]_vars

-----------------------------------------------------------------------------
(* Properties *)

\* Every variable is in its type.
TypeOK ==
  /\ made \in 0 .. MaxNodes
  /\ pos \in [Nodes -> Points \cup {0}] /\ level \in [Nodes -> Levels]
  /\ deleted \subseteq 1 .. made
  /\ edges \in [Nodes -> [Levels -> SUBSET Nodes]]
  /\ entrypoint \in 0 .. made
  /\ \A w \in Workers : work[w].node \in 0 .. made /\ work[w].lvl \in Levels

\* A vertex has neighbors, and is one, on levels it has: edges[level] and
\* edgeMutexes[level] of either end are never indexed beyond their length (Insert,
\* greedyClosestNeighbor and searchLevel index without a check).
EdgesFit ==
  \A n \in Nodes, l \in Levels : \A m \in edges[n][l] : level[n] >= l /\ level[m] >= l

\* As long as insertions do not overlap, no vertex has more neighbors on a level than
\* mMax or mMax0: Insert prunes the neighbors of the new vertex, which itself has at
\* most m.  (Of two overlapping ones, the vertex of the first can be linked to by the
\* second before it links on that level itself, and nothing prunes it then.)
DegreeBounded ==
  Quiet /\ overlaps = 0 =>
    \A n \in Live, l \in Levels : Cardinality(edges[n][l]) <= MaxDegree(l)

\* An index that never held more than m + 1 vertices answers every Search exactly, as
\* long as changes do not overlap: nothing live is ever pruned, and every vertex can be
\* reached from the entrypoint, which removals hand on.
ExactWhenSmall ==
  Quiet /\ overlaps = 0 /\ peak <= M + 1 =>
    \A p \in Points, k \in 1 .. MaxNodes : Search(p, k) = Nearest(Live, p, k)

\* So does one that no vertex was removed from, even when insertions overlap (removals
\* that do can leave vertices unreachable): every vertex is linked into the part of the
\* graph that the entrypoint is in, although it may be linked to before it links itself.
ExactWhileGrowing ==
  Quiet /\ deleted = {} /\ peak <= M + 1 =>
    \A p \in Points, k \in 1 .. MaxNodes : Search(p, k) = Nearest(Live, p, k)

\* For every query, Search meets the same vertices in an index that was written by
\* Commit and read by Load as it did before, unless the entrypoint is a vertex that
\* was removed.
ReloadKeepsAnswers ==
  [][Reload /\ entrypoint \in Live => \A p \in Points : Met(p)' = Met(p)]_vars
=============================================================================
