----------------------- MODULE VectorStoresPromises -----------------------
(***************************************************************************)
(* The proof that edge and experimental lose nothing they acknowledged or  *)
(* saved, for any collections, handlers, vertices and faults, as long as   *)
(* calls on collections wait for each other.  Every name has memory of its *)
(* own; no call in progress takes what is promised; so a call leaves alone *)
(* all collections but its own, and its own is looked at step by step.     *)
(* Then, that a search answers the best of what it is asked for: what was  *)
(* promised before it and is still, it has counted or has yet to read.     *)
(***************************************************************************)
EXTENDS VectorStoresProofs

-----------------------------------------------------------------------------
(* Spaces and shards are apart: no two names have the same space, no two   *)
(* spaces the same shard, and the space of a name, and its shard, are used *)
(* by calls on that name only                                              *)

SpaceApart(w) == \A n \in Names : work[w].to = space[n] /\ space[n] # 0 => work[w].name = n
ShardApart(w) == /\ work[w].op \in AdminOps \/ work[w].at = "enter" => work[w].shard = 0
                 /\ \A i \in 1 .. Len(spaces) : Column(i) = work[w].shard /\ Column(i) # 0 => i = work[w].to

Apart == /\ \A n, m \in Names : space[n] = space[m] /\ space[n] # 0 => n = m
         /\ \A i, j \in 1 .. Len(spaces) : Column(i) = Column(j) /\ Column(i) # 0 => i = j
         /\ \A w \in Workers : Busy(w) => SpaceApart(w) /\ ShardApart(w)

\* The spaces and the columns as they were, but that one name may get a new
\* space, and one space a new shard.
SpacesMove(n) ==
  /\ Len(spaces) <= Len(spaces')
  /\ \A m \in Names : \/ space'[m] \in {space[m], 0}
                      \/ m = n /\ space'[m] = Len(spaces) + 1
ColumnsMove(s) ==
  \A i \in 1 .. Len(spaces') : \/ i <= Len(spaces) /\ Column(i)' = Column(i)
                               \/ Column(i)' = 0
                               \/ i = s /\ Column(i)' = Len(shards) + 1

\* A call keeps its space, or takes that of its name; and its shard, or takes that of its space.
Stays(w) == /\ Busy(w) /\ Busy(w)' /\ work'[w].op = work[w].op /\ work'[w].name = work[w].name
            /\ work[w].op \in VertexOps => work'[w].at # "enter"
            /\ \/ work'[w].to = work[w].to /\ work'[w].shard = work[w].shard
               \/ /\ work'[w].to = Space(w) /\ work'[w].shard = work[w].shard
                  /\ work[w].op \in AdminOps \/ work[w].at = "enter"
               \/ /\ work'[w].to = work[w].to /\ work[w].op \notin AdminOps
                  /\ \E s \in 1 .. Len(spaces) : s = work[w].to /\ work'[w].shard = Column(s)'

\* Such a step keeps spaces and columns apart.
LEMMA ApartStep ==
  ASSUME TypeInv, TypeInv', Apart, NEW w \in Workers, Others(w), NEW n, SpacesMove(n), NEW s, ColumnsMove(s),
         \/ work'[w] = Idle
         \/ work'[w].to = 0 /\ work'[w].shard = 0
         \/ Stays(w)
  PROVE  Apart'
<1>0. /\ Len(spaces) \in Nat /\ Len(shards) \in Nat /\ Len(spaces') \in Nat /\ Len(shards') \in Nat
      /\ \A m \in Names : space[m] \in 0 .. Len(spaces)
      /\ \A i \in 1 .. Len(spaces) : Column(i) \in Nat /\ Column(i) <= Len(shards)
  <2>1. \A i \in 1 .. Len(spaces) : Column(i) \in Nat
    BY MemoryTyped DEF Column, SpaceType
  <2>2. Len(spaces') \in Nat /\ Len(shards') \in Nat
    BY DEF TypeInv, SpacesTyped, ShardsTyped
  <2> QED BY <2>1, <2>2, MemoryTyped DEF TypeInv, Bounds
<1>1. \A k, m \in Names : space'[k] = space'[m] /\ space'[k] # 0 => k = m
  BY <1>0 DEF Apart, SpacesMove
<1>2. \A i, j \in 1 .. Len(spaces') : Column(i)' = Column(j)' /\ Column(i)' # 0 => i = j
  BY <1>0 DEF Apart, ColumnsMove
<1>3. ASSUME NEW c \in 0 .. Len(spaces), NEW m, \A k \in Names : c = space[k] /\ space[k] # 0 => m = k
      PROVE  \A k \in Names : c = space'[k] /\ space'[k] # 0 => m = k
  BY <1>0, <1>3 DEF SpacesMove
<1>4. ASSUME NEW c \in 0 .. Len(shards), NEW t, \A i \in 1 .. Len(spaces) : Column(i) = c /\ Column(i) # 0 => i = t
      PROVE  \A i \in 1 .. Len(spaces') : Column(i)' = c /\ Column(i)' # 0 => i = t
  BY <1>0, <1>4 DEF ColumnsMove
<1>5. ASSUME NEW v \in Workers, Busy(v)
      PROVE  /\ work[v].to \in 0 .. Len(spaces) /\ work[v].shard \in 0 .. Len(shards)
             /\ SpaceApart(v) /\ ShardApart(v) /\ work[v].name \in Names
  BY <1>0, <1>5, CallTyped DEF TypeInv, Typed, Bounds, Apart
<1>7. ASSUME NEW v \in Workers, Busy(v), work'[v].to = work[v].to, work'[v].name = work[v].name
      PROVE  SpaceApart(v)'
  <2>1. PICK c, m : c = work[v].to /\ m = work[v].name
    OBVIOUS
  <2>2. c \in 0 .. Len(spaces) /\ \A k \in Names : c = space[k] /\ space[k] # 0 => m = k
    BY <1>5, <1>7, <2>1 DEF SpaceApart
  <2>3. \A k \in Names : c = space'[k] /\ space'[k] # 0 => m = k
    BY <1>3, <2>2
  <2> QED BY <1>7, <2>1, <2>3 DEF SpaceApart
<1>6. ASSUME NEW v \in Workers, Busy(v)'
      PROVE  SpaceApart(v)' /\ ShardApart(v)'
  <2>1. ASSUME Busy(v), work'[v].to = work[v].to, work'[v].shard = work[v].shard,
               work'[v].name = work[v].name, work'[v].op = work[v].op, work'[v].at = "enter" => work[v].at = "enter"
        PROVE  SpaceApart(v)' /\ ShardApart(v)'
    <3>1. SpaceApart(v)'
      BY <1>7, <2>1
    <3>2. \A i \in 1 .. Len(spaces') : Column(i)' = work[v].shard /\ Column(i)' # 0 => i = work[v].to
      BY <1>4, <1>5, <2>1 DEF ShardApart
    <3>3. ShardApart(v)'
      BY <1>5, <2>1, <3>2 DEF ShardApart
    <3> QED BY <3>1, <3>3
  <2>2. CASE v # w
    <3>1. work'[v] = work[v] /\ Busy(v)
      BY <1>6, <2>2 DEF Others, Busy
    <3> QED BY <2>1, <3>1
  <2>3. CASE v = w /\ work'[w].to = 0 /\ work'[w].shard = 0
    BY <2>3 DEF SpaceApart, ShardApart
  <2>4. CASE v = w /\ Stays(w)
    <3>1. Busy(w) /\ work'[w].op = work[w].op /\ work'[w].name = work[w].name
      BY <2>4 DEF Stays
    <3>2. work[w].op \in AdminOps \/ work[w].op \in VertexOps
      BY <3>1, CallTyped DEF TypeInv, Typed, Ops, VertexOps
    <3>3. work[w].op \in AdminOps \/ work'[w].at # "enter"
      BY <2>4, <3>2 DEF Stays
    <3>4. CASE work'[w].to = work[w].to /\ work'[w].shard = work[w].shard
      <4>1. SpaceApart(w)'
        BY <1>7, <3>1, <3>4
      <4>2. \A i \in 1 .. Len(spaces') : Column(i)' = work[w].shard /\ Column(i)' # 0 => i = work[w].to
        BY <1>4, <1>5, <3>1 DEF ShardApart
      <4>3. ShardApart(w)'
        BY <1>5, <3>1, <3>3, <3>4, <4>2 DEF ShardApart
      <4> QED BY <2>4, <4>1, <4>3
    <3>5. CASE /\ work'[w].to = Space(w) /\ work'[w].shard = work[w].shard
               /\ work[w].op \in AdminOps \/ work[w].at = "enter"
      <4>1. work'[w].shard = 0
        BY <1>5, <3>1, <3>5 DEF ShardApart
      <4>2. ShardApart(w)'
        BY <4>1 DEF ShardApart
      <4>3. PICK m : m = work[w].name
        OBVIOUS
      <4>4. m \in Names /\ work'[w].to = space[m] /\ space[m] \in 0 .. Len(spaces)
        BY <1>0, <1>5, <3>1, <3>5, <4>3 DEF Space
      <4>5. \A k \in Names : space[m] = space[k] /\ space[k] # 0 => m = k
        BY <4>4 DEF Apart
      <4>6. \A k \in Names : space[m] = space'[k] /\ space'[k] # 0 => m = k
        BY <1>3, <4>4, <4>5
      <4>7. SpaceApart(w)'
        BY <3>1, <4>3, <4>4, <4>6 DEF SpaceApart
      <4> QED BY <2>4, <4>2, <4>7
    <3>6. CASE /\ work'[w].to = work[w].to /\ work[w].op \notin AdminOps
               /\ \E t \in 1 .. Len(spaces) : t = work[w].to /\ work'[w].shard = Column(t)'
      <4>1. SpaceApart(w)'
        BY <1>7, <3>1, <3>6
      <4>2. PICK t \in 1 .. Len(spaces) : t = work[w].to /\ work'[w].shard = Column(t)'
        BY <3>6
      <4>3. t \in 1 .. Len(spaces')
        BY <1>0 DEF SpacesMove
      <4>4. \A i \in 1 .. Len(spaces') : Column(i)' = work'[w].shard /\ Column(i)' # 0 => i = t
        BY <1>2, <4>2, <4>3
      <4>5. ShardApart(w)'
        BY <3>1, <3>3, <3>6, <4>2, <4>4 DEF ShardApart
      <4> QED BY <2>4, <4>1, <4>5
    <3> QED BY <2>4, <3>4, <3>5, <3>6 DEF Stays
  <2> QED BY <1>6, <2>2, <2>3, <2>4 DEF Busy
<1> QED BY <1>1, <1>2, <1>6 DEF Apart

\* A call on a collection keeps its space or takes that of its name.
LEMMA AdminCourse ==
  ASSUME TypeInv, NEW w \in Workers, AdminStep(w)
  PROVE  /\ DOMAIN work' = Workers /\ Others(w)
         /\ \/ work'[w] = Idle
            \/ /\ But(w, {"at", "to", "map", "data"})
               /\ work'[w].to = work[w].to \/ work'[w].to = Space(w)
<1> USE DEF At
<1>1. Busy(w)
  BY AdminPledges
<1>2. ASSUME Return(w) \/ \E at : Go(w, at) \/ NextObject(w, at)
      PROVE  /\ DOMAIN work' = Workers /\ Others(w)
             /\ \/ work'[w] = Idle
                \/ /\ But(w, {"at", "to", "map", "data"})
                   /\ work'[w].to = work[w].to \/ work'[w].to = Space(w)
  <2>1. CASE Return(w)
    BY <2>1, ReturnEnds DEF Ends, TypeInv
  <2>2. CASE \E at : Go(w, at)
    <3>1. But(w, {"at"})
      BY <1>1, <2>2, GoBut DEF TypeInv
    <3> QED BY <3>1 DEF But, CallFields
  <2>3. CASE \E at : NextObject(w, at)
    <3>1. But(w, {"at", "to", "map", "data"}) /\ work'[w].to = Space(w)
      BY <1>1, <2>3, NextBut DEF TypeInv
    <3> QED BY <3>1 DEF But
  <2> QED BY <1>2, <2>1, <2>2, <2>3
<1>3. ASSUME NEW i, NEW d, work' = [work EXCEPT ![w].map = i, ![w].data = d]
      PROVE  /\ DOMAIN work' = Workers /\ Others(w) /\ But(w, {"at", "to", "map", "data"})
             /\ work'[w].to = work[w].to
  <2>1. But(w, {"map", "data"})
    BY <1>1, <1>3, ReadBut DEF TypeInv
  <2> QED BY <2>1 DEF But, CallFields
<1>4. CASE \/ CreateBucket(w) \/ CreateSpace(w) \/ CreateUndoBucket(w) \/ CreateUndoFlags(w)
           \/ DestroySpace(w) \/ SetFlags(w) \/ DeleteFlags(w) \/ DeleteBucket(w)
           \/ LoadFill(w) \/ LoadInverted(w) \/ LoadVertex(w) \/ ReleaseUnflag(w)
  <2>1. Return(w) \/ \E at : Go(w, at)
    BY <1>4 DEF CreateBucket, CreateSpace, CreateUndoBucket, CreateUndoFlags, DestroySpace, SetFlags,
                DeleteFlags, DeleteBucket, LoadFill, LoadInverted, LoadVertex, ReleaseUnflag
  <2> QED BY <1>2, <2>1
<1>5. CASE SaveMeta(w) \/ SaveVertexPut(w) \/ SaveInvertedPut(w)
  <2>1. work[w].op \in Savers
    BY <1>5 DEF SaveMeta, SaveVertexPut, SaveInvertedPut
  <2>2. Saved(w) \/ \E at : NextObject(w, at) \/ Abandon(w, at)
    BY <1>5 DEF SaveMeta, SaveVertexPut, SaveInvertedPut
  <2>3. Return(w) \/ \E at : Go(w, at) \/ NextObject(w, at)
    BY <2>1, <2>2 DEF Saved, Abandon, Savers
  <2> QED BY <1>2, <2>3
<1>6. CASE SaveVertexMap(w) \/ SaveVertexFails(w) \/ SaveInverted(w)
  <2>1. \/ Abandon(w, "") \/ work' = [work EXCEPT ![w].map = MapShards, ![w].data = Unreadable]
        \/ work' = [work EXCEPT ![w].map = work[w].map + 1, ![w].data = work[w].data \cup Part(work[w].to, work[w].map)]
        \/ work' = [work EXCEPT ![w].map = MapShards, ![w].data = Postings(work[w].to)]
    BY <1>6 DEF SaveVertexMap, SaveVertexFails, SaveInverted, TypeInv, WorkTyped
  <2>2. Abandon(w, "") => Return(w) \/ \E at : Go(w, at) \/ NextObject(w, at)
    BY DEF Abandon
  <2> QED BY <1>2, <1>3, <2>1, <2>2
<1> QED BY <1>4, <1>5, <1>6 DEF AdminStep

\* What a call on the collection n does to the spaces and to the shards.
AdminRest(w, n) ==
  /\ Len(spaces) <= Len(spaces') /\ Len(shards) <= Len(shards')
  /\ \A m \in Names \ {n} : space'[m] = space[m]
  /\ \/ space'[n] = space[n] /\ Len(spaces') = Len(spaces)
     \/ DestroySpace(w) /\ space'[n] = 0 /\ Len(spaces') = Len(spaces)
     \/ /\ CreateSpace(w) \/ LoadFill(w)
        /\ space'[n] = Len(spaces) + 1 /\ Len(spaces') = Len(spaces) + 1
  /\ \A i \in 1 .. Len(spaces') : i > Len(spaces) => Column(i)' = 0 /\ spaces'[i].vertices = {}
  /\ \A i \in 1 .. Len(spaces) :
       /\ \/ spaces'[i].vertices = spaces[i].vertices
          \/ /\ LoadVertex(w) /\ i = space[n] /\ Readable(n, "vertex")
             /\ spaces'[i].vertices = bucket[n].vertex
       /\ \/ Column(i)' = Column(i)
          \/ LoadInverted(w) /\ i = space[n] /\ Column(i)' = Len(shards) + 1
  /\ \A c \in 1 .. Len(shards) : shards'[c] = shards[c]
  /\ \/ Len(shards') = Len(shards)
     \/ /\ LoadInverted(w) /\ Readable(n, "inverted")
        /\ Len(shards') = Len(shards) + 1 /\ shards'[Len(shards) + 1] = bucket[n].inverted

\* Every step of a call on a collection is such a step.
LEMMA AdminRests ==
  ASSUME TypeInv, NEW w \in Workers, AdminStep(w), NEW n, n = work[w].name
  PROVE  AdminRest(w, n)
<1> USE DEF memory, At
<1>0. /\ n \in Names /\ Busy(w) /\ SpacesTyped /\ ShardsTyped
      /\ Len(spaces) \in Nat /\ Len(shards) \in Nat /\ space[n] \in 0 .. Len(spaces)
  <2>1. n \in Names /\ Busy(w)
    BY AdminPledges
  <2> QED BY <2>1, MemoryTyped DEF TypeInv
<1>1. CASE UNCHANGED <<space, spaces, shards>>
  BY <1>0, <1>1 DEF AdminRest, Column
<1>2. ASSUME NEW s \in SpaceType, s.column = 0, s.vertices = {}, NewSpace(n, s), shards' = shards,
             CreateSpace(w) \/ LoadFill(w)
      PROVE  AdminRest(w, n)
  <2>1. /\ Len(spaces') = Len(spaces) + 1
        /\ space' = [space EXCEPT ![n] = Len(spaces) + 1] /\ spaces'[Len(spaces) + 1] = s
        /\ \A i \in 1 .. Len(spaces) : spaces'[i] = spaces[i]
    BY <1>0, <1>2, AppendSpace
  <2>2. space'[n] = Len(spaces) + 1 /\ \A m \in Names \ {n} : space'[m] = space[m]
    BY <1>0, <2>1 DEF SpacesTyped
  <2>3. \A i \in 1 .. Len(spaces) : Column(i)' = Column(i) /\ spaces'[i].vertices = spaces[i].vertices
    BY <2>1 DEF Column
  <2>4. \A i \in 1 .. Len(spaces') : i > Len(spaces) => Column(i)' = 0 /\ spaces'[i].vertices = {}
    BY <1>0, <1>2, <2>1 DEF Column
  <2> QED BY <1>0, <1>2, <2>1, <2>2, <2>3, <2>4 DEF AdminRest
<1>3. CASE CreateSpace(w)
  <2>1. shards' = shards /\ (NewSpace(n, Fresh) \/ UNCHANGED <<space, spaces>>)
    BY <1>3 DEF CreateSpace
  <2>2. Fresh \in SpaceType /\ Fresh.column = 0 /\ Fresh.vertices = {}
    BY DEF Fresh, Hollow, SpaceType
  <2> QED BY <1>1, <1>2, <1>3, <2>1, <2>2
<1>4. CASE LoadFill(w)
  <2>1. /\ shards' = shards
        /\ \/ NewSpace(n, Hollow) \/ NewSpace(n, [Hollow EXCEPT !.described = TRUE])
           \/ UNCHANGED <<space, spaces>>
    BY <1>4 DEF LoadFill
  <2>2. Hollow \in SpaceType /\ Hollow.column = 0 /\ Hollow.vertices = {}
    BY DEF Hollow, SpaceType
  <2>3. PICK h : h = [Hollow EXCEPT !.described = TRUE]
    OBVIOUS
  <2>4. h \in SpaceType /\ h.column = 0 /\ h.vertices = {}
    BY <2>3 DEF Hollow, SpaceType
  <2> QED BY <1>1, <1>2, <1>4, <2>1, <2>2, <2>3, <2>4
<1>5. CASE DestroySpace(w)
  <2>1. UNCHANGED <<spaces, shards>> /\ space' = [space EXCEPT ![n] = 0]
    BY <1>5 DEF DestroySpace
  <2>2. space'[n] = 0 /\ \A m \in Names \ {n} : space'[m] = space[m]
    BY <1>0, <2>1 DEF SpacesTyped
  <2> QED BY <1>0, <1>5, <2>1, <2>2 DEF AdminRest, Column
<1>6. ASSUME NEW s, NEW fields, SpaceBut(s, fields), "vertices" \notin fields, "column" \notin fields,
             UNCHANGED <<space, shards>>
      PROVE  AdminRest(w, n)
  BY <1>0, <1>6 DEF SpaceBut, AdminRest, Column
<1>7. CASE SaveVertexFails(w)
  <2>1. UNCHANGED <<space, shards>> /\ work[w].map \in Nat
    <3>1. Typed(work[w]) /\ MapShards \in Nat
      BY <1>0, CallTyped, MemoryTyped DEF TypeInv
    <3>2. UNCHANGED <<space, shards>>
      BY <1>7 DEF SaveVertexFails
    <3> QED BY <3>1, <3>2 DEF Typed
  <2>2. PICK s, i : s = work[w].to /\ i = work[w].map
    OBVIOUS
  <2>3. spaces' = spaces \/ spaces' = [spaces EXCEPT ![s].leaked = spaces[s].leaked \cup {i}]
    BY <1>7, <2>2 DEF SaveVertexFails, KeepLock
  <2>4. CASE spaces' = [spaces EXCEPT ![s].leaked = spaces[s].leaked \cup {i}]
    <3>1. SpaceBut(s, {"leaked"})
      BY <1>0, <2>1, <2>2, <2>4, LeakedPut
    <3> QED BY <1>6, <2>1, <3>1
  <2> QED BY <1>1, <2>1, <2>3, <2>4
<1>8. CASE LoadInverted(w)
  <2>1. CASE /\ Readable(n, "inverted") /\ Space(w) # 0
             /\ shards' = Append(shards, bucket[n].inverted)
             /\ spaces' = [spaces EXCEPT ![Space(w)].indexed = TRUE, ![Space(w)].column = Len(shards) + 1]
    <3>1. PICK s, S, c : s = space[n] /\ S = bucket[n].inverted /\ c = Len(shards) + 1
      OBVIOUS
    <3>2. s \in 1 .. Len(spaces) /\ c \in Nat /\ s = Space(w)
      BY <1>0, <2>1, <3>1 DEF Space
    <3>3. bucket[n] \in Bucket
      BY <1>0, <2>1 DEF Readable, TypeInv, BucketTyped
    <3>4. S \in SUBSET Vertex
      BY <2>1, <3>1, <3>3 DEF Readable, Object, Bucket
    <3>5. SpaceBut(s, {"indexed", "column"}) /\ Column(s)' = c
      BY <1>0, <2>1, <3>1, <3>2, IndexPut
    <3>6. /\ Len(shards') = Len(shards) + 1 /\ shards'[Len(shards) + 1] = S
          /\ \A i \in 1 .. Len(shards) : shards'[i] = shards[i]
      BY <1>0, <2>1, <3>1, <3>4, AppendShard
    <3>7. space' = space /\ Len(spaces') = Len(spaces)
      BY <1>8, <3>5 DEF LoadInverted, SpaceBut
    <3>8. \A i \in 1 .. Len(spaces) : /\ spaces'[i].vertices = spaces[i].vertices
                                      /\ Column(i)' = Column(i) \/ (i = s /\ Column(i)' = c)
      BY <3>5 DEF SpaceBut, Column
    <3>9. /\ space'[n] = space[n] /\ Len(shards') = Len(shards) + 1 /\ Readable(n, "inverted")
          /\ shards'[Len(shards) + 1] = bucket[n].inverted /\ s = space[n] /\ c = Len(shards) + 1
      BY <2>1, <3>1, <3>6, <3>7
    <3>10. \A i \in 1 .. Len(spaces) : \/ Column(i)' = Column(i)
                                       \/ i = space[n] /\ Column(i)' = Len(shards) + 1
      BY <3>1, <3>8
    <3> QED BY <1>0, <1>8, <3>6, <3>7, <3>8, <3>9, <3>10 DEF AdminRest
  <2>2. CASE UNCHANGED <<spaces, shards>>
    BY <1>1, <1>8, <2>2 DEF LoadInverted
  <2> QED BY <1>8, <2>1, <2>2 DEF LoadInverted
<1>9. CASE LoadVertex(w)
  <2>1. CASE /\ Readable(n, "vertex") /\ Space(w) # 0
             /\ spaces' = [spaces EXCEPT ![Space(w)].ready = TRUE, ![Space(w)].vertices = bucket[n].vertex]
    <3>1. PICK s, S : s = space[n] /\ S = bucket[n].vertex
      OBVIOUS
    <3>2. s \in 1 .. Len(spaces) /\ s = Space(w)
      BY <1>0, <2>1, <3>1 DEF Space
    <3>3. bucket[n] \in Bucket
      BY <1>0, <2>1 DEF Readable, TypeInv, BucketTyped
    <3>4. S \subseteq Vertex
      BY <2>1, <3>1, <3>3 DEF Readable, Object, Bucket
    <3>5. SpaceBut(s, {"ready", "vertices"}) /\ spaces'[s].vertices = S
      BY <1>0, <2>1, <3>1, <3>2, <3>4, LoadPut
    <3>6. \A i \in 1 .. Len(spaces) : /\ Column(i)' = Column(i)
                                      /\ \/ spaces'[i].vertices = spaces[i].vertices
                                         \/ i = s /\ spaces'[i].vertices = S
      BY <3>5 DEF SpaceBut, Column
    <3>7. UNCHANGED <<space, shards>> /\ Len(spaces') = Len(spaces)
      BY <1>9, <3>5 DEF LoadVertex, SpaceBut
    <3>8. \A i \in 1 .. Len(spaces) : \/ spaces'[i].vertices = spaces[i].vertices
                                      \/ i = space[n] /\ spaces'[i].vertices = bucket[n].vertex
      BY <3>1, <3>6
    <3>9. Readable(n, "vertex")
      BY <2>1
    <3> QED BY <1>0, <1>9, <3>6, <3>7, <3>8, <3>9 DEF AdminRest
  <2>2. CASE UNCHANGED spaces
    BY <1>1, <1>9, <2>2 DEF LoadVertex
  <2> QED BY <1>9, <2>1, <2>2 DEF LoadVertex
<1>10. ASSUME ~ CreateSpace(w), ~ DestroySpace(w), ~ LoadFill(w), ~ LoadInverted(w), ~ LoadVertex(w),
              ~ SaveVertexFails(w)
       PROVE  UNCHANGED <<space, spaces, shards>>
  BY <1>10 DEF AdminStep, CreateBucket, CreateUndoBucket, CreateUndoFlags, SetFlags, DeleteFlags,
                DeleteBucket, ReleaseUnflag, SaveMeta, SaveVertexMap, SaveVertexPut, SaveInverted,
                SaveInvertedPut
<1> QED BY <1>1, <1>3, <1>4, <1>5, <1>7, <1>8, <1>9, <1>10

\* So they stay apart.
LEMMA AdminApart ==
  ASSUME TypeInv, TypeInv', Apart, NEW w \in Workers, AdminStep(w)
  PROVE  Apart'
<1>1. PICK n : n = work[w].name
  OBVIOUS
<1>2. PICK s : s = space[n]
  OBVIOUS
<1>3. AdminRest(w, n) /\ n \in Names /\ Busy(w) /\ work[w].op \in AdminOps
  BY <1>1, AdminRests, AdminPledges
<1>4. Len(spaces) \in Nat /\ Len(shards) \in Nat /\ Len(spaces') \in Nat
  BY MemoryTyped DEF TypeInv, SpacesTyped
<1>5. SpacesMove(n) /\ ColumnsMove(s)
  <2>1. SpacesMove(n)
    BY <1>3, <1>4 DEF AdminRest, SpacesMove
  <2>2. ColumnsMove(s)
    BY <1>2, <1>3, <1>4 DEF AdminRest, ColumnsMove
  <2> QED BY <2>1, <2>2
<1>6. work[w].op \notin VertexOps
  BY <1>3 DEF AdminOps, VertexOps
<1>7. Others(w) /\ (work'[w] = Idle \/ Stays(w))
  <2>1. ASSUME But(w, {"at", "to", "map", "data"}), work'[w].to = work[w].to \/ work'[w].to = Space(w)
        PROVE  Stays(w)
    BY <1>3, <1>6, <2>1 DEF But, CallFields, Stays
  <2> QED BY <2>1, AdminCourse
<1> QED BY <1>5, <1>7, ApartStep

\* A call on vertices keeps its space once it has entered, and what it is about,
\* but that a removal takes one id after the other.
VertexFields == {"at", "to", "shard", "ids", "vertex", "left", "data"}

\* So every step of such a call goes on, or ends it.
LEMMA VertexCourse ==
  ASSUME TypeInv, TypeInv', NEW w \in Workers, ChangeStep(w) \/ (SearchStep(w) /\ ~ Die)
  PROVE  /\ DOMAIN work' = Workers /\ Others(w)
         /\ \/ work'[w] = Idle
            \/ /\ Stays(w) /\ But(w, VertexFields)
               /\ work[w].at # "enter" => work'[w].to = work[w].to
               /\ work'[w].vertex = work[w].vertex \/ (RemoveNext(w) /\ work'[w].vertex.tag = work[w].vertex.tag)
<1> USE DEF At
<1>0. Busy(w) /\ work[w].op \in VertexOps /\ WorkTyped
  BY VertexPledges DEF TypeInv
<1> DEFINE Done == /\ DOMAIN work' = Workers /\ Others(w)
                   /\ \/ work'[w] = Idle
                      \/ /\ Stays(w) /\ But(w, VertexFields)
                         /\ work[w].at # "enter" => work'[w].to = work[w].to
                         /\ \/ work'[w].vertex = work[w].vertex
                            \/ RemoveNext(w) /\ work'[w].vertex.tag = work[w].vertex.tag
<1>1. work[w].op \notin AdminOps
  BY <1>0 DEF VertexOps, AdminOps
<1>2. Return(w) => Done
  BY <1>0, ReturnEnds DEF Ends
<1>3. ASSUME NEW at, Go(w, at), at # "enter" PROVE Done
  <2>1. But(w, {"at"}) /\ work'[w].at = at
    BY <1>0, <1>3, GoBut
  <2> QED BY <1>3, <2>1 DEF But, CallFields, VertexFields, Stays
<1>4. ASSUME NEW at, at # "enter", work' = [work EXCEPT ![w].to = Space(w), ![w].at = at], work[w].at = "enter"
      PROVE  Done
  <2>1. But(w, {"to", "at"}) /\ work'[w].to = Space(w) /\ work'[w].at = at
    BY <1>0, <1>4, ToBut
  <2> QED BY <1>4, <2>1 DEF But, CallFields, VertexFields, Stays
<1>5. ASSUME NEW at, at # "enter", GetShard(w, at), UNCHANGED space, work[w].at # "enter" PROVE Done
  <2>1. PICK s : s = work[w].to
    OBVIOUS
  <2>2. s \in 1 .. Len(spaces)
    BY <1>0, <1>5, <2>1, HasEntered, PartTyped
  <2>3. s # 0
    BY <2>2, MemoryTyped
  <2>4. But(w, {"shard", "at"}) /\ work'[w].at = at /\ Column(s)' = work'[w].shard
    BY <1>0, <1>5, <2>1, <2>3, GetShardDoes
  <2>5. Stays(w)
    BY <1>1, <1>5, <2>1, <2>2, <2>4 DEF But, CallFields, Stays
  <2> QED BY <2>4, <2>5 DEF But, CallFields, VertexFields
<1>6. ASSUME Sought(w) PROVE Done
  BY <1>1, <1>6 DEF Sought, But, CallFields, VertexFields, Stays
<1>7. CASE SearchStep(w) /\ ~ Die
  <2>1. (\E i \in 0 .. MapShards - 1 : Locks(w, i)) => Return(w)
    BY DEF Locks
  <2> QED BY <1>2, <1>5, <1>6, <1>7, <2>1, SearchMoves
<1>8. CASE Enter(w)
  <2>1. \/ Return(w)
        \/ \E at \in {"store", "lock", "column", "search"} :
             work' = [work EXCEPT ![w].to = Space(w), ![w].at = at] /\ work[w].at = "enter"
    BY <1>8 DEF Enter
  <2> QED BY <1>2, <1>4, <2>1
<1>9. CASE ChangeColumn(w) \/ RemoveColumn(w) \/ RemoveFindColumn(w)
  <2>1. Return(w) \/ \E at \in {"post", "read", "withdraw"} : GetShard(w, at)
    BY <1>9 DEF ChangeColumn, RemoveColumn, RemoveFindColumn
  <2>2. UNCHANGED space /\ work[w].at # "enter"
    BY <1>9 DEF ChangeColumn, RemoveColumn, RemoveFindColumn, UnchangedByIndex
  <2> QED BY <1>2, <1>5, <2>1, <2>2
<1>10. CASE ChangePost(w) \/ ChangePanics(w) \/ ChangeStore(w) \/ RemoveLock(w) \/ RemovePosting(w)
            \/ RemoveColumnShard(w) \/ RemoveErase(w) \/ MultiRemove(w)
  <2>1. Return(w) \/ \E at \in {"store", "find column", "next", "drop column", "erase"} : Go(w, at)
    BY <1>10 DEF ChangePost, ChangePanics, ChangeStore, RemoveLock, RemovePosting, RemoveColumnShard, RemoveErase, MultiRemove
  <2> QED BY <1>2, <1>3, <2>1
<1>11. CASE RemoveSearch(w)
  <2>1. But(w, {"at", "ids"}) /\ work'[w].at = "next"
    BY <1>0, <1>11, SearchBut
  <2> QED BY <2>1 DEF But, CallFields, VertexFields, Stays
<1>12. CASE RemoveNext(w)
  <2>1. /\ work[w].op = "remove"
        /\ \/ Return(w)
           \/ \E id \in work[w].ids :
                work' = [work EXCEPT ![w].at = "lock", ![w].ids = work[w].ids \ {id}, ![w].vertex.id = id]
    BY <1>12 DEF RemoveNext
  <2>2. ASSUME NEW id, work' = [work EXCEPT ![w].at = "lock", ![w].ids = work[w].ids \ {id}, ![w].vertex.id = id]
        PROVE  Done
    <3>1. /\ But(w, {"at", "ids", "vertex"})
          /\ work'[w].at = "lock" /\ work'[w].vertex.tag = work[w].vertex.tag
      BY <1>0, <2>1, <2>2, TurnBut
    <3> QED BY <1>12, <3>1 DEF But, CallFields, VertexFields, Stays
  <2> QED BY <1>2, <2>1, <2>2
<1> QED BY <1>7, <1>8, <1>9, <1>10, <1>11, <1>12 DEF ChangeStep

\* What a call on vertices does to its space s and to the shards.
VertexRest(w, s) ==
  LET id == work[w].vertex.id IN
  /\ space' = space /\ Len(spaces') = Len(spaces) /\ Len(shards) <= Len(shards')
  /\ \A i \in 1 .. Len(spaces) : i # s => spaces'[i].vertices = spaces[i].vertices /\ Column(i)' = Column(i)
  /\ \/ Column(s)' = Column(s) /\ Len(shards') = Len(shards)
     \/ RemoveColumnShard(w) /\ Column(s)' = 0 /\ Len(shards') = Len(shards)
     \/ /\ Column(s) = 0 /\ Column(s)' = Len(shards) + 1
        /\ Len(shards') = Len(shards) + 1 /\ shards'[Len(shards) + 1] = {}
  /\ \/ spaces'[s].vertices = spaces[s].vertices
     \/ RemoveErase(w) /\ spaces'[s].vertices = {y \in spaces[s].vertices : y.id # id}
     \/ MultiRemove(w) /\ spaces'[s].vertices = {y \in spaces[s].vertices : y.id # id}
     \/ ChangeStore(w) /\ spaces'[s].vertices = {y \in spaces[s].vertices : y.id # id} \cup {work[w].vertex}
  /\ \A c \in 1 .. Len(shards) :
       \/ shards'[c] = shards[c]
       \/ ChangePost(w) /\ c = work[w].shard /\ shards'[c] = shards[c] \cup {work[w].vertex}
       \/ RemovePosting(w) /\ c = work[w].shard /\ shards'[c] = {p \in shards[c] : p.id # id}

\* Every step of a call on vertices is such a step.
LEMMA VertexRests ==
  ASSUME TypeInv, NEW w \in Workers, ChangeStep(w) \/ (SearchStep(w) /\ ~ Die), NEW s, s = work[w].to
  PROVE  VertexRest(w, s)
<1> USE DEF At
<1>0. Busy(w) /\ work[w].op \in VertexOps /\ SpacesTyped /\ ShardsTyped
  BY VertexPledges DEF TypeInv
<1>1. Len(spaces) \in Nat /\ Len(shards) \in Nat
  BY MemoryTyped
<1>2. UNCHANGED <<space, spaces, shards>> => VertexRest(w, s)
  BY <1>1 DEF VertexRest, Column
<1>3. work[w].at # "enter" => s # 0 /\ s \in 1 .. Len(spaces)
  <2>1. work[w].at # "enter" => s # 0
    BY <1>0, HasEntered
  <2> QED BY <1>0, <2>1, PartTyped
<1>4. space' = space
  <2>1. CASE ChangeStep(w)
    BY <2>1 DEF ChangeStep, Enter, ChangeColumn, ChangePost, ChangePanics, ChangeStore, RemoveColumn, RemoveSearch,
         RemoveNext, RemoveLock, RemoveFindColumn, RemovePosting, RemoveColumnShard, RemoveErase,
         MultiRemove, UnchangedByIndex, memory
  <2> QED BY <2>1, SearchMoves
<1>5. ASSUME NEW at, GetShard(w, at), work[w].at # "enter"
      PROVE  VertexRest(w, s)
  <2>1. /\ SpaceBut(s, {"column"}) /\ Column(s)' # 0
        /\ \/ Column(s) # 0 /\ spaces' = spaces /\ shards' = shards
           \/ Column(s) = 0 /\ Column(s)' = Len(shards) + 1 /\ shards' = Append(shards, {})
    BY <1>0, <1>3, <1>4, <1>5, GetShardDoes
  <2>2. CASE spaces' = spaces /\ shards' = shards
    BY <1>2, <1>4, <2>2
  <2>3. CASE Column(s) = 0 /\ Column(s)' = Len(shards) + 1 /\ shards' = Append(shards, {})
    <3>1. /\ Len(shards') = Len(shards) + 1 /\ shards'[Len(shards) + 1] = {}
          /\ \A i \in 1 .. Len(shards) : shards'[i] = shards[i]
      BY <1>0, <2>3, AppendShard
    <3>2. /\ Len(spaces') = Len(spaces)
          /\ \A i \in 1 .. Len(spaces) : /\ spaces'[i].vertices = spaces[i].vertices
                                         /\ i # s => Column(i)' = Column(i)
      BY <2>1 DEF SpaceBut, Column
    <3>3. Column(s) = 0 /\ Column(s)' = Len(shards) + 1 /\ spaces'[s].vertices = spaces[s].vertices
      BY <1>3, <1>5, <2>3, <3>2
    <3> QED BY <1>1, <1>4, <3>1, <3>2, <3>3 DEF VertexRest
  <2> QED BY <2>1, <2>2, <2>3
<1>6. ASSUME NEW V, spaces' = [spaces EXCEPT ![s].vertices = V], V \subseteq Vertex, shards' = shards,
             work[w].at # "enter",
             \/ (RemoveErase(w) \/ MultiRemove(w)) /\ V = {y \in spaces[s].vertices : y.id # work[w].vertex.id}
             \/ /\ ChangeStore(w)
                /\ V = {y \in spaces[s].vertices : y.id # work[w].vertex.id} \cup {work[w].vertex}
      PROVE  VertexRest(w, s)
  <2>1. SpaceBut(s, {"vertices"}) /\ spaces'[s].vertices = V
    BY <1>0, <1>3, <1>6, VerticesPut
  <2>2. /\ Len(spaces') = Len(spaces)
        /\ \A i \in 1 .. Len(spaces) : /\ Column(i)' = Column(i)
                                       /\ i # s => spaces'[i].vertices = spaces[i].vertices
    BY <2>1 DEF SpaceBut, Column
  <2>3. Column(s)' = Column(s)
    BY <1>3, <1>6, <2>2
  <2> QED BY <1>1, <1>4, <1>6, <2>1, <2>2, <2>3 DEF VertexRest
<1>7. ASSUME NEW c, NEW S, c = work[w].shard, shards' = [shards EXCEPT ![c] = S], spaces' = spaces,
             \/ ChangePost(w) /\ S = shards[c] \cup {work[w].vertex}
             \/ RemovePosting(w) /\ S = {p \in shards[c] : p.id # work[w].vertex.id}
      PROVE  VertexRest(w, s)
  <2>1. /\ Len(shards') = Len(shards)
        /\ \A i \in 1 .. Len(shards) : shards'[i] = IF i = c THEN S ELSE shards[i]
    BY <1>0, <1>7, ChangedSeq DEF ShardsTyped
  <2>2. Len(spaces') = Len(spaces) /\ Column(s)' = Column(s) /\ spaces'[s].vertices = spaces[s].vertices
        /\ \A i \in 1 .. Len(spaces) : spaces'[i].vertices = spaces[i].vertices /\ Column(i)' = Column(i)
    BY <1>7 DEF Column
  <2>3. ASSUME NEW i \in 1 .. Len(shards)
        PROVE  \/ shards'[i] = shards[i]
               \/ ChangePost(w) /\ i = work[w].shard /\ shards'[i] = shards[i] \cup {work[w].vertex}
               \/ /\ RemovePosting(w) /\ i = work[w].shard
                  /\ shards'[i] = {p \in shards[i] : p.id # work[w].vertex.id}
    BY <1>7, <2>1
  <2> QED BY <1>1, <1>4, <2>1, <2>2, <2>3 DEF VertexRest
<1>7a. ASSUME NEW i \in Nat, Locks(w, i), work[w].at # "enter"
       PROVE  VertexRest(w, s)
  <2>1. SpaceBut(s, {"leaked"}) /\ shards' = shards
    BY <1>7a, LocksSpace DEF Locks
  <2>2. /\ Len(spaces') = Len(spaces)
        /\ \A j \in 1 .. Len(spaces) : /\ Column(j)' = Column(j)
                                       /\ spaces'[j].vertices = spaces[j].vertices
    BY <2>1 DEF SpaceBut, Column
  <2>3. Column(s)' = Column(s) /\ spaces'[s].vertices = spaces[s].vertices
    BY <1>3, <1>7a, <2>2
  <2> QED BY <1>1, <1>4, <2>1, <2>2, <2>3 DEF VertexRest
<1>8. CASE SearchStep(w) /\ ~ Die
  <2>1. (\E i \in 0 .. MapShards - 1 : Locks(w, i)) => \E i \in Nat : Locks(w, i)
    OBVIOUS
  <2>2. (\E i \in 0 .. MapShards - 1 : Locks(w, i)) /\ work[w].at = "scan" => VertexRest(w, s)
    BY <1>7a, <2>1
  <2> QED BY <1>2, <1>4, <1>5, <1>8, <2>2, SearchMoves
<1>8a. CASE ChangePanics(w)
  <2>1. PICK i : i = ShardLock(work[w].shard)
    OBVIOUS
  <2>2. Locks(w, i) /\ i \in 0 .. MapShards + Len(shards) /\ work[w].at # "enter"
    BY <1>8a, <2>1, PanicLocks
  <2>3. i \in Nat
    BY <2>2
  <2> QED BY <1>7a, <2>2, <2>3
<1>9. CASE ChangeColumn(w) \/ RemoveColumn(w) \/ RemoveFindColumn(w)
  <2>1. UNCHANGED <<spaces, shards>> \/ \E at \in {"post", "read", "withdraw"} : GetShard(w, at)
    BY <1>9 DEF ChangeColumn, RemoveColumn, RemoveFindColumn
  <2>2. work[w].at # "enter"
    BY <1>9 DEF ChangeColumn, RemoveColumn, RemoveFindColumn
  <2> QED BY <1>2, <1>4, <1>5, <2>1, <2>2
<1>10. CASE ChangePost(w)
  <2>1. PICK c, S : c = work[w].shard /\ S = shards[c] \cup {work[w].vertex}
    OBVIOUS
  <2>2. shards' = [shards EXCEPT ![c] = S] /\ spaces' = spaces
    BY <1>0, <1>10, <2>1 DEF ChangePost
  <2> QED BY <1>7, <1>10, <2>1, <2>2
<1>11. CASE RemovePosting(w)
  <2>1. PICK c, S : c = work[w].shard /\ S = {p \in shards[c] : p.id # work[w].vertex.id}
    OBVIOUS
  <2>2. shards' = [shards EXCEPT ![c] = S] /\ spaces' = spaces
    BY <1>11, <2>1 DEF RemovePosting
  <2> QED BY <1>7, <1>11, <2>1, <2>2
<1>12. CASE RemoveColumnShard(w)
  <2>1. spaces' = [spaces EXCEPT ![s].column = 0] /\ shards' = shards /\ work[w].at # "enter"
    BY <1>12 DEF RemoveColumnShard
  <2>2. SpaceBut(s, {"column"}) /\ Column(s)' = 0
    BY <1>0, <1>3, <2>1, ColumnPut
  <2>3. /\ Len(spaces') = Len(spaces)
        /\ \A i \in 1 .. Len(spaces) : /\ spaces'[i].vertices = spaces[i].vertices
                                       /\ i # s => Column(i)' = Column(i)
    BY <2>2 DEF SpaceBut, Column
  <2>4. spaces'[s].vertices = spaces[s].vertices
    BY <1>3, <2>1, <2>3
  <2> QED BY <1>1, <1>4, <1>12, <2>1, <2>2, <2>3, <2>4 DEF VertexRest
<1>13. \A i \in 1 .. Len(spaces) : spaces[i].vertices \subseteq Vertex
  BY MemoryTyped DEF SpaceType
<1>14. CASE RemoveErase(w) \/ MultiRemove(w)
  <2>1. PICK V : V = {y \in spaces[s].vertices : y.id # work[w].vertex.id}
    OBVIOUS
  <2>2. UNCHANGED <<spaces, shards>> \/ (spaces' = [spaces EXCEPT ![s].vertices = V] /\ shards' = shards)
    BY <1>0, <1>14, <2>1 DEF RemoveErase, MultiRemove, Erase, Except
  <2>3. work[w].at # "enter"
    BY <1>14 DEF RemoveErase, MultiRemove
  <2>4. V \subseteq Vertex
    BY <1>3, <1>13, <2>1, <2>3
  <2> QED BY <1>2, <1>4, <1>6, <1>14, <2>1, <2>2, <2>3, <2>4
<1>15. CASE ChangeStore(w)
  <2>1. PICK V : V = {y \in spaces[s].vertices : y.id # work[w].vertex.id} \cup {work[w].vertex}
    OBVIOUS
  <2>2. UNCHANGED <<spaces, shards>> \/ (spaces' = [spaces EXCEPT ![s].vertices = V] /\ shards' = shards)
    BY <1>0, <1>15, <2>1 DEF ChangeStore, Except
  <2>3. work[w].at # "enter" /\ work[w].op = "change"
    BY <1>15 DEF ChangeStore
  <2>4. V \subseteq Vertex
    <3>1. work[w].vertex \in Vertex
      BY <1>0, <2>3, CallTyped DEF TypeInv, Typed
    <3> QED BY <1>3, <1>13, <2>1, <2>3, <3>1
  <2> QED BY <1>2, <1>4, <1>6, <1>15, <2>1, <2>2, <2>3, <2>4
<1>16. CASE Enter(w) \/ RemoveSearch(w) \/ RemoveNext(w) \/ RemoveLock(w)
  <2>1. UNCHANGED <<spaces, shards>>
    BY <1>16 DEF Enter, RemoveSearch, RemoveNext, RemoveLock, memory
  <2> QED BY <1>2, <1>4, <2>1
<1> QED BY <1>8, <1>9, <1>10, <1>11, <1>12, <1>14, <1>15, <1>16, <1>8a DEF ChangeStep

\* So they stay apart.
LEMMA VertexApart ==
  ASSUME TypeInv, TypeInv', Apart, NEW w \in Workers, ChangeStep(w) \/ (SearchStep(w) /\ ~ Die)
  PROVE  Apart'
<1>1. PICK s, n : s = work[w].to /\ n = work[w].name
  OBVIOUS
<1>2. VertexRest(w, s)
  BY <1>1, VertexRests
<1>3. Len(spaces) \in Nat /\ Len(shards) \in Nat
  BY MemoryTyped
<1>4. SpacesMove(n)
  BY <1>2, <1>3 DEF VertexRest, SpacesMove
<1>5. ColumnsMove(s)
  BY <1>2, <1>3 DEF VertexRest, ColumnsMove
<1>6. Others(w) /\ (work'[w] = Idle \/ Stays(w))
  BY VertexCourse
<1> QED BY <1>4, <1>5, <1>6, ApartStep

\* All steps.
LEMMA ApartNext ==
  ASSUME TypeInv, TypeInv', Apart, [Next]_vars
  PROVE  Apart'
<1>1. ASSUME NEW w \in Workers, NEW n \in Names, Begin(w, n) PROVE Apart'
  <2>1. /\ UNCHANGED <<space, spaces, shards>>
        /\ \E op, at, v : Starts(w, op, at, n, v)
    BY <1>1, BeginStarts
  <2>2. Others(w) /\ work'[w].to = 0 /\ work'[w].shard = 0
    BY <2>1 DEF Starts
  <2>3. Len(spaces) \in Nat
    BY MemoryTyped
  <2>4. SpacesMove(n) /\ ColumnsMove(0)
    BY <2>1, <2>3 DEF SpacesMove, ColumnsMove, Column
  <2> QED BY <2>2, <2>4, ApartStep
<1>2. ASSUME Forget PROVE Apart'
  <2>1. Len(spaces') = 0 /\ \A n \in Names : space'[n] = 0
    BY <1>2 DEF Forget
  <2>2. \A w \in Workers : ~ Busy(w)'
    BY <1>2 DEF Forget, Busy
  <2> QED BY <2>1, <2>2 DEF Apart
<1>3. CASE CloseBegin \/ Start \/ UNCHANGED vars
  <2>1. UNCHANGED <<work, space, spaces>>
    BY <1>3 DEF CloseBegin, Start, vars, memory
  <2> QED BY <2>1 DEF Apart, Busy, SpaceApart, ShardApart, Column
<1> QED BY <1>1, <1>2, <1>3, AdminApart, VertexApart DEF Next, CloseEnd, Crash, Die

-----------------------------------------------------------------------------
(* In edge an id is of one vertex: whatever a space, a shard, an object or *)
(* a save holds under an id is the vertex of the change that was given it, *)
(* so what a removal takes by its id has the tag it was asked for          *)

Seen(y) ==
  \/ \E i \in 1 .. Len(spaces) : y \in spaces[i].vertices
  \/ \E c \in 1 .. Len(shards) : y \in shards[c]
  \/ \E n \in Names : Readable(n, "vertex") /\ y \in bucket[n].vertex
  \/ \E n \in Names : Readable(n, "inverted") /\ y \in bucket[n].inverted
  \/ \E w \in Workers : Busy(w) /\ work[w].op \in AdminOps /\ work[w].data # Unreadable /\ y \in work[w].data
  \/ \E w \in Workers : Busy(w) /\ work[w].op = "change" /\ y = work[w].vertex

\* What a save reads.
LEMMA AdminReads ==
  ASSUME TypeInv, NEW w \in Workers, AdminStep(w)
  PROVE  \/ work'[w] = Idle
         \/ work'[w].data = work[w].data
         \/ work'[w].data \in {{}, Unreadable}
         \/ /\ SaveVertexMap(w) /\ work'[w].map = work[w].map + 1
            /\ work'[w].data = work[w].data \cup Part(work[w].to, work[w].map)
         \/ SaveInverted(w) /\ work[w].to # 0 /\ work'[w].data = Postings(work[w].to)
<1> USE DEF At
<1>1. Busy(w)
  BY AdminPledges
<1>2. ASSUME Return(w) \/ \E at : Go(w, at) \/ NextObject(w, at)
      PROVE  work'[w] = Idle \/ work'[w].data = work[w].data \/ work'[w].data \in {{}, Unreadable}
  <2>1. CASE Return(w)
    BY <2>1, ReturnEnds DEF Ends, TypeInv
  <2>2. CASE \E at : Go(w, at)
    <3>1. But(w, {"at"})
      BY <1>1, <2>2, GoBut DEF TypeInv
    <3> QED BY <3>1 DEF But, CallFields
  <2>3. CASE \E at : NextObject(w, at)
    BY <1>1, <2>3, NextBut DEF TypeInv
  <2> QED BY <1>2, <2>1, <2>2, <2>3
<1>3. ASSUME NEW i, NEW d, work' = [work EXCEPT ![w].map = i, ![w].data = d]
      PROVE  work'[w].data = d /\ work'[w].map = i
  BY <1>1, <1>3, ReadBut DEF TypeInv
<1>4. CASE \/ CreateBucket(w) \/ CreateSpace(w) \/ CreateUndoBucket(w) \/ CreateUndoFlags(w)
           \/ DestroySpace(w) \/ SetFlags(w) \/ DeleteFlags(w) \/ DeleteBucket(w)
           \/ LoadFill(w) \/ LoadInverted(w) \/ LoadVertex(w) \/ ReleaseUnflag(w)
  <2>1. Return(w) \/ \E at : Go(w, at)
    BY <1>4 DEF CreateBucket, CreateSpace, CreateUndoBucket, CreateUndoFlags, DestroySpace, SetFlags,
                DeleteFlags, DeleteBucket, LoadFill, LoadInverted, LoadVertex, ReleaseUnflag
  <2> QED BY <1>2, <2>1
<1>5. CASE SaveMeta(w) \/ SaveVertexPut(w) \/ SaveInvertedPut(w)
  <2>1. work[w].op \in Savers
    BY <1>5 DEF SaveMeta, SaveVertexPut, SaveInvertedPut
  <2>2. Saved(w) \/ \E at : NextObject(w, at) \/ Abandon(w, at)
    BY <1>5 DEF SaveMeta, SaveVertexPut, SaveInvertedPut
  <2>3. Return(w) \/ \E at : Go(w, at) \/ NextObject(w, at)
    BY <2>1, <2>2 DEF Saved, Abandon, Savers
  <2> QED BY <1>2, <2>3
<1>6. Abandon(w, "") => Return(w) \/ \E at : Go(w, at) \/ NextObject(w, at)
  BY DEF Abandon
<1>7. CASE SaveVertexMap(w)
  <2>1. work' = [work EXCEPT ![w].map = work[w].map + 1, ![w].data = work[w].data \cup Part(work[w].to, work[w].map)]
    BY <1>7 DEF SaveVertexMap, TypeInv, WorkTyped
  <2> QED BY <1>3, <1>7, <2>1
<1>8. CASE SaveVertexFails(w)
  <2>1. Abandon(w, "") \/ work' = [work EXCEPT ![w].map = MapShards, ![w].data = Unreadable]
    BY <1>8 DEF SaveVertexFails
  <2> QED BY <1>2, <1>3, <1>6, <2>1
<1>9. CASE SaveInverted(w)
  <2>1. \/ Abandon(w, "") \/ work' = [work EXCEPT ![w].map = MapShards, ![w].data = Unreadable]
        \/ work[w].to # 0 /\ work' = [work EXCEPT ![w].map = MapShards, ![w].data = Postings(work[w].to)]
    BY <1>9 DEF SaveInverted
  <2> QED BY <1>2, <1>3, <1>6, <1>9, <2>1
<1> QED BY <1>4, <1>5, <1>7, <1>8, <1>9 DEF AdminStep

\* An object that can be read is one that could be, or one that is put.
LEMMA AdminObjects ==
  ASSUME NoRecord, TypeInv, NEW w \in Workers, AdminStep(w), NEW n \in Names,
         NEW object \in {"vertex", "inverted"}, Readable(n, object)'
  PROVE  \/ Readable(n, object) /\ bucket'[n][object] = bucket[n][object]
         \/ /\ SaveVertexPut(w) \/ SaveInvertedPut(w)
            /\ work[w].data # Unreadable /\ bucket'[n][object] = work[w].data /\ n = work[w].name
<1> USE DEF At
<1>0. Busy(w) /\ work[w].name \in Names /\ BucketTyped
  BY AdminPledges DEF TypeInv
<1>1. bucket' = bucket => Readable(n, object) /\ bucket'[n][object] = bucket[n][object]
  BY DEF Readable
<1>2. CASE n # work[w].name
  <2>1. bucket'[n] = bucket[n]
    BY <1>0, <1>2, AdminBucket DEF BucketOf
  <2> QED BY <2>1 DEF Readable
<1>3. ASSUME NEW o \in {"meta", "vertex", "inverted"}, NEW d, Puts(n, o, d)
      PROVE  \/ Readable(n, object) /\ bucket'[n][object] = bucket[n][object]
             \/ d # Unreadable /\ bucket'[n][object] = d /\ o = object
  <2>1. CASE o = object
    BY <1>3, <2>1 DEF Puts, Readable
  <2>2. CASE o # object
    BY <1>3, <2>2 DEF Puts, Readable
  <2> QED BY <2>1, <2>2
<1>4. ASSUME n = work[w].name, SaveMeta(w) \/ SaveVertexPut(w) \/ SaveInvertedPut(w)
      PROVE  \/ Readable(n, object) /\ bucket'[n][object] = bucket[n][object]
             \/ /\ SaveVertexPut(w) \/ SaveInvertedPut(w)
                /\ work[w].data # Unreadable /\ bucket'[n][object] = work[w].data
  BY <1>1, <1>3, <1>4, SavePuts
<1>5. ASSUME n = work[w].name, RemoveBucket(w)
      PROVE  Readable(n, object) /\ bucket'[n][object] = bucket[n][object]
  <2>1. CASE bucket' = [bucket EXCEPT ![n] = NoBucket]
    BY <1>0, <1>5, <2>1 DEF Readable, BucketTyped
  <2>2. ASSUME bucket[n] # NoBucket,
               NEW m \in {bucket[n].meta, FALSE}, NEW v \in {bucket[n].vertex, NoObject},
               NEW i \in {bucket[n].inverted, NoObject},
               bucket' = [bucket EXCEPT ![n] = [meta |-> m, vertex |-> v, inverted |-> i]]
        PROVE  Readable(n, object) /\ bucket'[n][object] = bucket[n][object]
    <3>1. bucket'[n] = [meta |-> m, vertex |-> v, inverted |-> i]
      BY <1>0, <1>5, <2>2 DEF BucketTyped
    <3>2. bucket'[n].vertex = v /\ bucket'[n].inverted = i
      BY <3>1
    <3> QED BY <2>2, <3>2 DEF Readable
  <2> QED BY <1>5, <2>1, <2>2 DEF RemoveBucket
<1>6. ASSUME n = work[w].name, CreateBucket(w)
      PROVE  Readable(n, object) /\ bucket'[n][object] = bucket[n][object]
  <2>1. PICK empty : empty = [meta |-> FALSE, vertex |-> NoObject, inverted |-> NoObject]
    OBVIOUS
  <2>2. bucket' = bucket \/ \E b \in {NoBucket, empty} : bucket' = [bucket EXCEPT ![n] = b]
    BY <1>6, <2>1 DEF CreateBucket
  <2>3. ASSUME NEW b \in {NoBucket, empty}, bucket' = [bucket EXCEPT ![n] = b] PROVE FALSE
    BY <1>0, <1>6, <2>1, <2>3 DEF Readable, BucketTyped
  <2> QED BY <1>1, <2>2, <2>3
<1>7. CASE CreateUndoBucket(w) \/ DeleteBucket(w)
  BY <1>2, <1>5, <1>7 DEF CreateUndoBucket, DeleteBucket
<1>8. ASSUME ~ SaveMeta(w), ~ SaveVertexPut(w), ~ SaveInvertedPut(w), ~ CreateUndoBucket(w),
             ~ DeleteBucket(w), ~ CreateBucket(w)
      PROVE  bucket' = bucket
  BY <1>8 DEF AdminStep, CreateSpace, CreateUndoFlags, DestroySpace, SetFlags, DeleteFlags,
              LoadFill, LoadInverted, LoadVertex, ReleaseUnflag, SaveVertexMap, SaveVertexFails,
              SaveInverted
<1> QED BY <1>1, <1>2, <1>4, <1>6, <1>7, <1>8

\* A call on a collection brings nothing new.
LEMMA AdminSeen ==
  ASSUME NoRecord, TypeInv, NEW w \in Workers, AdminStep(w), NEW y, Seen(y)'
  PROVE  Seen(y)
<1>0. PICK n : n = work[w].name
  OBVIOUS
<1>1. /\ AdminRest(w, n) /\ n \in Names /\ Busy(w) /\ work[w].op \in AdminOps
      /\ Len(spaces) \in Nat /\ Len(shards) \in Nat /\ Len(spaces') \in Nat /\ Len(shards') \in Nat
  <2>1. Len(spaces') \in Nat /\ Len(shards') \in Nat
    BY CoreTyped DEF Next, SpacesTyped, ShardsTyped
  <2> QED BY <1>0, <2>1, AdminRests, AdminPledges, MemoryTyped
<1>2. ASSUME NEW i \in 1 .. Len(spaces'), y \in spaces'[i].vertices PROVE Seen(y)
  <2>1. i \in 1 .. Len(spaces)
    BY <1>1, <1>2 DEF AdminRest
  <2>2. spaces'[i].vertices = spaces[i].vertices
        \/ (Readable(n, "vertex") /\ spaces'[i].vertices = bucket[n].vertex)
    BY <1>1, <2>1 DEF AdminRest
  <2> QED BY <1>1, <1>2, <2>1, <2>2 DEF Seen
<1>3. ASSUME NEW c \in 1 .. Len(shards'), y \in shards'[c] PROVE Seen(y)
  <2>1. CASE c \in 1 .. Len(shards)
    BY <1>1, <1>3, <2>1 DEF AdminRest, Seen
  <2>2. CASE c \notin 1 .. Len(shards)
    <3>1. Readable(n, "inverted") /\ shards'[c] = bucket[n].inverted
      BY <1>1, <2>2 DEF AdminRest
    <3> QED BY <1>1, <1>3, <3>1 DEF Seen
  <2> QED BY <2>1, <2>2
<1>4. ASSUME NEW m \in Names, NEW object \in {"vertex", "inverted"}, Readable(m, object)',
             y \in bucket'[m][object]
      PROVE  Seen(y)
  <2>1. \/ Readable(m, object) /\ y \in bucket[m][object]
        \/ work[w].data # Unreadable /\ y \in work[w].data
    BY <1>4, AdminObjects
  <2> QED BY <1>1, <2>1 DEF Seen
<1>5. ASSUME NEW v \in Workers, Busy(v)', work'[v].op \in AdminOps, work'[v].data # Unreadable,
             y \in work'[v].data
      PROVE  Seen(y)
  <2>1. CASE v # w
    <3>1. work'[v] = work[v] /\ Busy(v)
      BY <1>5, <2>1, AdminCourse DEF Others, Busy
    <3> QED BY <1>5, <3>1 DEF Seen
  <2>2. CASE v = w
    <3>1. work'[w] # Idle
      BY <1>5, <2>2 DEF Busy
    <3>2. CASE work'[w].data = work[w].data
      BY <1>1, <1>5, <2>2, <3>2 DEF Seen
    <3>3. CASE SaveVertexMap(w) /\ work'[w].data = work[w].data \cup Part(work[w].to, work[w].map)
      <4>1. work[w].to \in 1 .. Len(spaces)
        BY <1>1, <3>3, PartTyped DEF SaveVertexMap
      <4>2. work[w].data \in SUBSET Vertex
        <5>1. work[w].at = "vertex" /\ work[w].map < MapShards
          BY <3>3 DEF SaveVertexMap, At
        <5> QED BY <1>1, <5>1, CallTyped DEF TypeInv, Typed
      <4>3. work[w].data # Unreadable
        BY <4>2, ObjectsAssumption
      <4>4. y \in work[w].data \/ y \in spaces[work[w].to].vertices
        BY <1>5, <2>2, <3>3 DEF Part
      <4> QED BY <1>1, <4>1, <4>3, <4>4 DEF Seen
    <3>4. CASE SaveInverted(w) /\ work[w].to # 0 /\ work'[w].data = Postings(work[w].to)
      <4>1. work[w].to \in 1 .. Len(spaces)
        BY <1>1, <3>4, PartTyped
      <4>2. PICK c : c = Column(work[w].to)
        OBVIOUS
      <4>3. c # 0 /\ y \in shards[c]
        BY <1>5, <2>2, <3>4, <4>2 DEF Postings, Column
      <4>4. c \in 1 .. Len(shards)
        <5>1. c \in Nat /\ c <= Len(shards)
          BY <4>1, <4>2, MemoryTyped DEF TypeInv, Bounds, Column, SpaceType
        <5> QED BY <1>1, <4>3, <5>1
      <4> QED BY <4>3, <4>4 DEF Seen
    <3> QED BY <1>5, <2>2, <3>1, <3>2, <3>3, <3>4, AdminReads
  <2> QED BY <2>1, <2>2
<1>6. ASSUME NEW v \in Workers, Busy(v)', work'[v].op = "change", y = work'[v].vertex
      PROVE  Seen(y)
  <2>1. v # w
    <3>1. work'[w] = Idle \/ work'[w].op = work[w].op
      BY AdminCourse DEF But, CallFields
    <3> QED BY <1>1, <1>6, <3>1 DEF Busy, AdminOps
  <2>2. work'[v] = work[v] /\ Busy(v)
    BY <1>6, <2>1, AdminCourse DEF Others, Busy
  <2> QED BY <1>6, <2>2 DEF Seen
<1> QED BY <1>2, <1>3, <1>4, <1>5, <1>6 DEF Seen

\* Nor does one on vertices.
LEMMA VertexSeen ==
  ASSUME TypeInv, TypeInv', NEW w \in Workers, ChangeStep(w) \/ (SearchStep(w) /\ ~ Die), NEW y, Seen(y)'
  PROVE  Seen(y)
<1>0. PICK s : s = work[w].to
  OBVIOUS
<1>1. /\ VertexRest(w, s) /\ Busy(w) /\ work[w].op \in VertexOps
      /\ Len(spaces) \in Nat /\ Len(shards) \in Nat
  BY <1>0, VertexRests, VertexPledges, MemoryTyped
<1>2. (ChangeStore(w) \/ ChangePost(w)) => Seen(work[w].vertex)
  BY <1>1 DEF ChangeStore, ChangePost, At, Seen
<1>3. ASSUME NEW i \in 1 .. Len(spaces'), y \in spaces'[i].vertices PROVE Seen(y)
  <2>1. i \in 1 .. Len(spaces)
    BY <1>1 DEF VertexRest
  <2>2. CASE y \in spaces[i].vertices
    BY <2>1, <2>2 DEF Seen
  <2>3. CASE y \notin spaces[i].vertices
    <3>1. ChangeStore(w) /\ y = work[w].vertex
      BY <1>1, <1>3, <2>1, <2>3 DEF VertexRest
    <3> QED BY <1>2, <3>1
  <2> QED BY <2>2, <2>3
<1>4. ASSUME NEW c \in 1 .. Len(shards'), y \in shards'[c] PROVE Seen(y)
  <2>1. c \in 1 .. Len(shards)
    BY <1>1, <1>4 DEF VertexRest
  <2>2. CASE y \in shards[c]
    BY <2>1, <2>2 DEF Seen
  <2>3. CASE y \notin shards[c]
    <3>1. ChangePost(w) /\ y = work[w].vertex
      BY <1>1, <1>4, <2>1, <2>3 DEF VertexRest
    <3> QED BY <1>2, <3>1
  <2> QED BY <2>2, <2>3
<1>5. bucket' = bucket
  <2>1. CASE ChangeStep(w)
    BY <2>1 DEF ChangeStep, Enter, ChangeColumn, ChangePost, ChangePanics, ChangeStore, RemoveColumn, RemoveSearch,
         RemoveNext, RemoveLock, RemoveFindColumn, RemovePosting, RemoveColumnShard, RemoveErase,
         MultiRemove, UnchangedByIndex
  <2> QED BY <2>1, SearchMoves
<1>6. ASSUME NEW v \in Workers, Busy(v)'
      PROVE  /\ work'[v].op = "change" /\ y = work'[v].vertex => Seen(y)
             /\ work'[v].op \in AdminOps /\ work'[v].data # Unreadable /\ y \in work'[v].data => Seen(y)
  <2>1. CASE v # w
    <3>1. work'[v] = work[v] /\ Busy(v)
      BY <1>6, <2>1, VertexCourse DEF Others, Busy
    <3> QED BY <3>1 DEF Seen
  <2>2. CASE v = w
    <3>1. /\ work'[w].op = work[w].op
          /\ work'[w].vertex = work[w].vertex \/ RemoveNext(w)
      BY <1>6, <2>2, VertexCourse DEF Busy, Stays
    <3>2. RemoveNext(w) => work[w].op = "remove"
      BY DEF RemoveNext, At
    <3>3. work'[w].op \notin AdminOps
      BY <1>1, <3>1 DEF AdminOps, VertexOps
    <3> QED BY <1>1, <2>2, <3>1, <3>2, <3>3 DEF Seen
  <2> QED BY <2>1, <2>2
<1>8. ASSUME NEW n \in Names, NEW object \in {"vertex", "inverted"}, Readable(n, object)'
      PROVE  Readable(n, object) /\ bucket'[n][object] = bucket[n][object]
  BY <1>5, <1>8 DEF Readable
<1> QED BY <1>3, <1>4, <1>6, <1>8 DEF Seen

-----------------------------------------------------------------------------
(* The calls that begin *)

SearchFor(w, n) == \E filter : SearchBegin(w, n, filter)

\* A call on a collection, a search, a change or a removal.
LEMMA BeginKinds ==
  ASSUME TypeInv, NEW w \in Workers, NEW n \in Names, Begin(w, n)
  PROVE  \/ work'[w].op \in AdminOps /\ ~ \E id, t : ChangeBegin(w, n, id, t)
         \/ work'[w].op = "search" /\ SearchFor(w, n)
         \/ \E id \in 1 .. MaxIds : \E t \in Tags :
              ChangeBegin(w, n, id, t) /\ work'[w].op = "change" /\ work'[w].vertex = [id |-> id, tag |-> t]
         \/ \E t \in Tags :
              EdgeRemoveBegin(w, n, t) /\ work'[w].op = "remove" /\ work'[w].vertex = [id |-> 0, tag |-> t]
         \/ \E id \in 1 .. MaxIds :
              MultiRemoveBegin(w, n, id) /\ work'[w].op = "remove" /\ work'[w].vertex.id = id
<1>1. ASSUME NEW o \in AdminOps, NEW a, ~ Busy(w), work' = [work EXCEPT ![w] = Call(o, a, n)]
      PROVE  work'[w].op \in AdminOps
  BY <1>1, AdminStarts DEF Starts
<1>2. ASSUME NEW o, NEW v, BeginChange(w, o, "enter", n, v)
      PROVE  work'[w].op = o /\ work'[w].vertex = v
  BY <1>2, VertexStarts DEF Starts
<1>3. CASE \/ CreateBegin(w, n) \/ DeleteBegin(w, n) \/ LoadBegin(w, n) \/ ReleaseBegin(w, n)
           \/ FlushBegin(w, n) \/ CloseCollection(w, n)
  <2>1. ~ Busy(w) /\ \E o \in AdminOps : \E a : work' = [work EXCEPT ![w] = Call(o, a, n)]
    BY <1>3 DEF CreateBegin, DeleteBegin, LoadBegin, ReleaseBegin, FlushBegin, CloseCollection,
                BeginAdmin, AdminOps
  <2>2. work'[w].op \in AdminOps
    BY <1>1, <2>1
  <2>3. ASSUME NEW id, NEW t, ChangeBegin(w, n, id, t) PROVE FALSE
    BY <1>2, <2>2, <2>3 DEF ChangeBegin, AdminOps
  <2> QED BY <2>2, <2>3
<1>4. ASSUME NEW id \in 1 .. MaxIds, NEW t \in Tags, ChangeBegin(w, n, id, t)
      PROVE  work'[w].op = "change" /\ work'[w].vertex = [id |-> id, tag |-> t]
  BY <1>2, <1>4 DEF ChangeBegin
<1>5. ASSUME NEW filter \in {NoVertex} \cup [id : {0}, tag : Tags \ Odd], SearchBegin(w, n, filter)
      PROVE  work'[w].op = "search" /\ SearchFor(w, n)
  BY <1>2, <1>5 DEF SearchBegin, SearchFor
<1>6. ASSUME NEW t \in Tags, EdgeRemoveBegin(w, n, t)
      PROVE  work'[w].op = "remove" /\ work'[w].vertex = [id |-> 0, tag |-> t]
  BY <1>2, <1>6 DEF EdgeRemoveBegin, RemoveBegin
<1>7. ASSUME NEW id \in 1 .. MaxIds, MultiRemoveBegin(w, n, id)
      PROVE  work'[w].op = "remove" /\ work'[w].vertex.id = id
  <2>1. work'[w].op = "remove" /\ work'[w].vertex = [id |-> id, tag |-> CHOOSE t \in Tags : TRUE]
    BY <1>2, <1>7 DEF MultiRemoveBegin, RemoveBegin
  <2> QED BY <2>1
<1> QED BY <1>3, <1>4, <1>5, <1>6, <1>7 DEF Begin

\* New is the vertex of a change that begins.
New(y) == \E w \in Workers, n \in Names, id \in 1 .. MaxIds, t \in Tags :
            ChangeBegin(w, n, id, t) /\ y = [id |-> id, tag |-> t]

\* No other step makes a vertex that was not there.
LEMMA SeenStep ==
  ASSUME NoRecord, TypeInv, TypeInv', [Next]_vars, NEW y, Seen(y)'
  PROVE  Seen(y) \/ New(y)
<1>1. ASSUME NEW w \in Workers, NEW n \in Names, Begin(w, n) PROVE Seen(y) \/ New(y)
  <2>1. UNCHANGED <<spaces, shards, bucket>>
    BY <1>1, BeginStarts
  <2>2. PICK op \in Ops : \E at : \E v : Starts(w, op, at, n, v)
    BY <1>1, BeginStarts
  <2>3. ASSUME NEW u \in Workers, Busy(u)', u # w
        PROVE  Busy(u) /\ work'[u] = work[u]
    BY <2>2, <2>3 DEF Starts, Others, Busy
  <2>4. work'[w].data = {}
    BY <2>2 DEF Starts
  <2>5. ASSUME work'[w].op = "change"
        PROVE  New(work'[w].vertex)
    <3>1. PICK id \in 1 .. MaxIds : \E t \in Tags :
            ChangeBegin(w, n, id, t) /\ work'[w].vertex = [id |-> id, tag |-> t]
      BY <1>1, <2>5, BeginKinds DEF AdminOps
    <3> QED BY <3>1 DEF New
  <2>6. ASSUME NEW m \in Names, NEW object \in {"vertex", "inverted"}, Readable(m, object)'
        PROVE  Readable(m, object) /\ bucket'[m][object] = bucket[m][object]
    BY <2>1, <2>6 DEF Readable
  <2>7. CASE \/ \E i \in 1 .. Len(spaces') : y \in spaces'[i].vertices
             \/ \E c \in 1 .. Len(shards') : y \in shards'[c]
             \/ \E m \in Names : Readable(m, "vertex")' /\ y \in bucket'[m].vertex
             \/ \E m \in Names : Readable(m, "inverted")' /\ y \in bucket'[m].inverted
    BY <2>1, <2>6, <2>7 DEF Seen
  <2>8. ASSUME NEW u \in Workers, Busy(u)',
               \/ work'[u].op \in AdminOps /\ work'[u].data # Unreadable /\ y \in work'[u].data
               \/ work'[u].op = "change" /\ y = work'[u].vertex
        PROVE  Seen(y) \/ New(y)
    BY <2>3, <2>4, <2>5, <2>8 DEF Seen
  <2> QED BY <2>7, <2>8 DEF Seen
<1>2. ASSUME Forget, bucket' = bucket PROVE Seen(y)
  <2>1. Len(spaces') = 0 /\ Len(shards') = 0 /\ \A w \in Workers : ~ Busy(w)'
    BY <1>2 DEF Forget, Busy
  <2>2. ASSUME NEW m \in Names, NEW object \in {"vertex", "inverted"}, Readable(m, object)'
        PROVE  Readable(m, object) /\ bucket'[m][object] = bucket[m][object]
    BY <1>2, <2>2 DEF Readable
  <2> QED BY <2>1, <2>2 DEF Seen
<1>3. CASE CloseBegin \/ Start \/ UNCHANGED vars
  <2>1. UNCHANGED <<work, spaces, shards, bucket>>
    BY <1>3 DEF CloseBegin, Start, vars, memory
  <2>2. ASSUME NEW m \in Names, NEW object \in {"vertex", "inverted"}, Readable(m, object)'
        PROVE  Readable(m, object) /\ bucket'[m][object] = bucket[m][object]
    BY <2>1, <2>2 DEF Readable
  <2> QED BY <2>1, <2>2 DEF Seen, Busy
<1>4. (CloseEnd \/ Die) => Forget /\ bucket' = bucket
  BY DEF CloseEnd, Die
<1> QED BY <1>1, <1>2, <1>3, <1>4, AdminSeen, VertexSeen DEF Next, Crash

\* What a removal is about.
Aims(a) == a.ids \cup {a.vertex.id}
IsOf(i, t) == /\ i <= lastId
              /\ \A y \in Vertex : Seen(y) /\ y.id = i => y.tag = t

KnownInv == mode = "edge" =>
  /\ \A y \in Vertex : Seen(y) => y.id <= lastId
  /\ \A x, y \in Vertex : Seen(x) /\ Seen(y) /\ x.id = y.id => x = y
  /\ \A w \in Workers : Busy(w) /\ work[w].op = "remove" => \A i \in Aims(work[w]) : IsOf(i, work[w].vertex.tag)

\* The aims of a removal, as a step changes them.
LEMMA AimsStep ==
  ASSUME TypeInv, TypeInv', [Next]_vars, NEW w \in Workers, Busy(w)', work'[w].op = "remove", mode = "edge"
  PROVE  \/ Aims(work'[w]) = {0}
         \/ /\ Busy(w) /\ work[w].op = "remove" /\ work'[w].vertex.tag = work[w].vertex.tag
            /\ \/ Aims(work'[w]) \subseteq Aims(work[w])
               \/ /\ RemoveSearch(w) /\ work[w].shard \in 1 .. Len(shards)
                  /\ Aims(work'[w]) = {p.id : p \in Found(w)} \cup {work[w].vertex.id}
<1>1. ASSUME work'[w] = work[w]
      PROVE  /\ Busy(w) /\ work[w].op = "remove" /\ work'[w].vertex.tag = work[w].vertex.tag
             /\ Aims(work'[w]) \subseteq Aims(work[w])
  BY <1>1 DEF Busy
<1>2. ASSUME NEW v \in Workers, NEW n \in Names, Begin(v, n) PROVE v # w => work'[w] = work[w]
  BY <1>2, BeginStarts DEF Starts, Others
<1>3. ASSUME NEW n \in Names, Begin(w, n) PROVE Aims(work'[w]) = {0}
  <2>1. PICK op \in Ops : \E at : \E v : Starts(w, op, at, n, v)
    BY <1>3, BeginStarts
  <2>2. work'[w].ids = {}
    BY <2>1 DEF Starts
  <2>3. PICK t \in Tags : work'[w].vertex = [id |-> 0, tag |-> t]
    BY <1>3, BeginKinds DEF MultiRemoveBegin, AdminOps
  <2>4. work'[w].vertex.id = 0
    BY <2>3
  <2> QED BY <2>2, <2>4 DEF Aims
<1>4. ASSUME NEW v \in Workers, AdminStep(v) PROVE work'[w] = work[w]
  <2>1. v = w => Busy(v) /\ work[v].op \in AdminOps /\ (work'[v] = Idle \/ work'[v].op = work[v].op)
    BY <1>4, AdminPledges, AdminCourse DEF But, CallFields
  <2>2. v # w
    BY <2>1 DEF Busy, AdminOps
  <2> QED BY <1>4, <2>2, AdminCourse DEF Others
<1>5. ASSUME NEW v \in Workers, v # w, ChangeStep(v) \/ (SearchStep(v) /\ ~ Die) PROVE work'[w] = work[w]
  BY <1>5, VertexCourse DEF Others
<1>6. ASSUME ChangeStep(w) \/ (SearchStep(w) /\ ~ Die)
      PROVE  /\ Busy(w) /\ work[w].op = "remove" /\ work'[w].vertex.tag = work[w].vertex.tag
             /\ \/ Aims(work'[w]) \subseteq Aims(work[w])
                \/ /\ RemoveSearch(w) /\ work[w].shard \in 1 .. Len(shards)
                   /\ Aims(work'[w]) = {p.id : p \in Found(w)} \cup {work[w].vertex.id}
  <2> USE DEF At
  <2>1. /\ Busy(w) /\ work'[w].op = work[w].op /\ WorkTyped
        /\ work'[w].vertex = work[w].vertex \/ (RemoveNext(w) /\ work'[w].vertex.tag = work[w].vertex.tag)
    BY <1>6, VertexCourse DEF Stays, Busy, TypeInv
  <2>2. work[w].op = "remove" /\ work'[w].vertex.tag = work[w].vertex.tag
    BY <2>1
  <2>3. ChangeStep(w)
    <3>1. SearchStep(w) => work[w].op = "search"
      BY SearchMoves
    <3> QED BY <1>6, <2>2, <3>1
  <2>4. CASE RemoveNext(w)
    <3>1. \/ Return(w)
          \/ \E id \in work[w].ids :
               work' = [work EXCEPT ![w].at = "lock", ![w].ids = work[w].ids \ {id}, ![w].vertex.id = id]
      BY <2>4 DEF RemoveNext
    <3>2. ~ Return(w)
      BY <2>1, ReturnEnds DEF Ends, Busy
    <3>3. PICK id \in work[w].ids :
             work' = [work EXCEPT ![w].at = "lock", ![w].ids = work[w].ids \ {id}, ![w].vertex.id = id]
      BY <3>1, <3>2
    <3>4. work'[w].ids = work[w].ids \ {id} /\ work'[w].vertex.id = id
      BY <2>1, <2>2, <3>3, TurnBut
    <3> QED BY <2>1, <2>2, <3>4 DEF Aims
  <2>5. CASE RemoveSearch(w)
    <3>1. work'[w].ids = {p.id : p \in Found(w)} /\ But(w, {"at", "ids"}) /\ work[w].at = "read"
      BY <2>1, <2>5, SearchBut DEF RemoveSearch
    <3>2. work'[w].vertex = work[w].vertex
      BY <3>1 DEF But, CallFields
    <3>3. work[w].shard \in 1 .. Len(shards)
      BY <2>1, <3>1, CallTyped, MemoryTyped DEF Typed, TypeInv, Bounds
    <3> QED BY <2>1, <2>2, <2>5, <3>1, <3>2, <3>3 DEF Aims
  <2>6. ASSUME But(w, {"at"}) \/ But(w, {"to", "at"}) \/ But(w, {"shard", "at"})
        PROVE  Aims(work'[w]) = Aims(work[w])
    BY <2>6 DEF But, CallFields, Aims
  <2>7. CASE RemoveColumn(w) \/ RemoveFindColumn(w)
    <3>1. Return(w) \/ \E at \in {"post", "read", "withdraw"} : GetShard(w, at)
      BY <2>7 DEF RemoveColumn, RemoveFindColumn
    <3>2. UNCHANGED space /\ work[w].at # "enter"
      BY <2>7 DEF RemoveColumn, RemoveFindColumn, UnchangedByIndex
    <3>3. ~ Return(w)
      BY <2>1, ReturnEnds DEF Ends, Busy
    <3>4. work[w].to # 0
      BY <2>1, <2>2, <3>2, HasEntered DEF VertexOps
    <3>5. PICK s : s = work[w].to
      OBVIOUS
    <3>6. But(w, {"shard", "at"})
      BY <2>1, <3>1, <3>2, <3>3, <3>4, <3>5, GetShardDoes
    <3> QED BY <2>1, <2>2, <2>6, <3>6
  <2>8. CASE Enter(w) \/ RemoveLock(w) \/ RemovePosting(w) \/ RemoveColumnShard(w)
             \/ RemoveErase(w) \/ MultiRemove(w)
    <3>1. \/ Return(w)
          \/ \E at \in {"find column", "next", "drop column", "erase"} : Go(w, at)
          \/ \E at : work' = [work EXCEPT ![w].to = Space(w), ![w].at = at]
      BY <2>8 DEF Enter, RemoveLock, RemovePosting, RemoveColumnShard, RemoveErase, MultiRemove
    <3>2. ~ Return(w)
      BY <2>1, ReturnEnds DEF Ends, Busy
    <3>3. But(w, {"at"}) \/ But(w, {"to", "at"})
      BY <2>1, <3>1, <3>2, GoBut, ToBut
    <3> QED BY <2>1, <2>2, <2>6, <3>3
  <2>9. CASE ChangeColumn(w) \/ ChangePost(w) \/ ChangePanics(w) \/ ChangeStore(w)
    BY <2>2, <2>9 DEF ChangeColumn, ChangePost, ChangePanics, ChangeStore
  <2> QED BY <2>3, <2>4, <2>5, <2>7, <2>8, <2>9 DEF ChangeStep
<1>7. Forget => work'[w] = Idle
  BY DEF Forget
<1>8. CASE CloseBegin \/ CloseEnd \/ Crash \/ Die \/ Start \/ UNCHANGED vars
  <2>1. work'[w] = Idle \/ work'[w] = work[w]
    BY <1>7, <1>8 DEF CloseBegin, CloseEnd, Crash, Die, Start, vars
  <2> QED BY <1>1, <2>1 DEF Busy
<1> QED BY <1>1, <1>2, <1>3, <1>4, <1>5, <1>6, <1>8 DEF Next

\* No step makes an id ambiguous.
LEMMA KnownStep ==
  ASSUME NoRecord, TypeInv, TypeInv', KnownInv, [Next]_vars, mode' = mode
  PROVE  KnownInv'
<1> SUFFICES ASSUME mode = "edge"
             PROVE  /\ \A y \in Vertex : Seen(y)' => y.id <= lastId'
                    /\ \A x, y \in Vertex : Seen(x)' /\ Seen(y)' /\ x.id = y.id => x = y
                    /\ \A w \in Workers : Busy(w)' /\ work'[w].op = "remove" =>
                         \A i \in Aims(work'[w]) :
                           /\ i <= lastId'
                           /\ \A y \in Vertex : Seen(y)' /\ y.id = i => y.tag = work'[w].vertex.tag
  BY DEF KnownInv, IsOf, Aims
<1>1. /\ \A y \in Vertex : Seen(y) => y.id <= lastId
      /\ \A x, y \in Vertex : Seen(x) /\ Seen(y) /\ x.id = y.id => x = y
      /\ \A w \in Workers : Busy(w) /\ work[w].op = "remove" =>
           \A i \in Aims(work[w]) : IsOf(i, work[w].vertex.tag)
  BY DEF KnownInv
<1>2. /\ lastId \in Nat /\ lastId' \in Nat
      /\ \A y \in Vertex : y.id \in Nat /\ y.id # 0
  BY MemoryTyped DEF TypeInv, Vertex
<1>3. ASSUME NEW y, New(y)
      PROVE  y.id = lastId + 1 /\ lastId' = lastId + 1
  BY <1>3 DEF New, ChangeBegin
<1>4. lastId <= lastId'
  <2>1. ASSUME NEW w \in Workers, NEW n \in Names, Begin(w, n)
        PROVE  lastId' = lastId \/ lastId' = lastId + 1
    <3>1. ASSUME NEW id \in 1 .. MaxIds, NEW t \in Tags, ChangeBegin(w, n, id, t)
          PROVE  lastId' = lastId + 1
      BY <3>1 DEF ChangeBegin
    <3>2. ASSUME NEW t \in Tags, EdgeRemoveBegin(w, n, t)
          PROVE  lastId' = lastId
      BY <3>2 DEF EdgeRemoveBegin, RemoveBegin
    <3>3. ASSUME NEW filter, SearchBegin(w, n, filter)
          PROVE  lastId' = lastId
      BY <3>3 DEF SearchBegin
    <3>4. ASSUME NEW id \in 1 .. MaxIds, MultiRemoveBegin(w, n, id)
          PROVE  lastId' = lastId
      BY <3>4 DEF MultiRemoveBegin, RemoveBegin
    <3>5. CASE \/ CreateBegin(w, n) \/ DeleteBegin(w, n) \/ LoadBegin(w, n) \/ ReleaseBegin(w, n)
               \/ FlushBegin(w, n) \/ CloseCollection(w, n)
      BY <3>5 DEF CreateBegin, DeleteBegin, LoadBegin, ReleaseBegin, FlushBegin, CloseCollection
    <3> QED BY <2>1, <3>1, <3>2, <3>3, <3>4, <3>5 DEF Begin
  <2>2. ASSUME NEW w \in Workers, AdminStep(w) PROVE lastId' = lastId
    BY <2>2 DEF AdminStep, CreateBucket, CreateSpace, CreateUndoBucket, CreateUndoFlags, DestroySpace, SetFlags,
                DeleteFlags, DeleteBucket, LoadFill, LoadInverted, LoadVertex, ReleaseUnflag, SaveMeta,
                SaveVertexMap, SaveVertexFails, SaveVertexPut, SaveInverted, SaveInvertedPut
  <2>3. ASSUME NEW w \in Workers, ChangeStep(w) PROVE lastId' = lastId
    BY <2>3 DEF ChangeStep, Enter, ChangeColumn, ChangePost, ChangePanics, ChangeStore, RemoveColumn, RemoveSearch,
         RemoveNext, RemoveLock, RemoveFindColumn, RemovePosting, RemoveColumnShard, RemoveErase,
         MultiRemove, UnchangedByIndex
  <2>4. ASSUME NEW w \in Workers, SearchStep(w) PROVE lastId' = lastId
    BY <2>4, SearchMoves DEF Die
  <2>5. ASSUME CloseBegin \/ CloseEnd \/ Crash \/ Start \/ UNCHANGED vars PROVE lastId' = lastId
    BY <2>5 DEF CloseBegin, CloseEnd, Crash, Die, Start, vars
  <2>6. lastId' = lastId \/ lastId' = lastId + 1
    BY <2>1, <2>2, <2>3, <2>4, <2>5 DEF Next
  <2> QED BY <1>2, <2>6
<1>5. ASSUME NEW y \in Vertex, Seen(y)' PROVE Seen(y) \/ New(y)
  BY <1>5, SeenStep
<1>6. ASSUME NEW y \in Vertex, Seen(y)' PROVE y.id <= lastId'
  BY <1>1, <1>2, <1>3, <1>4, <1>5, <1>6
<1>7. ASSUME NEW x, NEW y, New(x), New(y) PROVE x = y
  <2>1. PICK w \in Workers, n \in Names, id \in 1 .. MaxIds, t \in Tags :
          ChangeBegin(w, n, id, t) /\ x = [id |-> id, tag |-> t]
    BY <1>7 DEF New
  <2>2. PICK v \in Workers, m \in Names, jd \in 1 .. MaxIds, r \in Tags :
          ChangeBegin(v, m, jd, r) /\ y = [id |-> jd, tag |-> r]
    BY <1>7 DEF New
  <2>3. Starts(w, "change", "enter", n, x) /\ Starts(v, "change", "enter", m, y)
    BY <2>1, <2>2, VertexStarts DEF ChangeBegin
  <2>4. v = w
    BY <2>3 DEF Starts, Others, Busy
  <2> QED BY <2>3, <2>4 DEF Starts
<1>8. ASSUME NEW x \in Vertex, NEW y \in Vertex, Seen(x)', Seen(y)', x.id = y.id PROVE x = y
  <2>1. CASE Seen(x) /\ Seen(y)
    BY <1>1, <1>8, <2>1
  <2>2. CASE New(x) /\ New(y)
    BY <1>7, <2>2
  <2>3. ASSUME NEW u \in Vertex, NEW v \in Vertex, Seen(u), New(v) PROVE u.id # v.id
    <3>1. u.id <= lastId /\ v.id = lastId + 1
      BY <1>1, <1>3, <2>3
    <3> QED BY <1>2, <3>1
  <2> QED BY <1>5, <1>8, <2>1, <2>2, <2>3
<1>9. ASSUME NEW i, NEW t, IsOf(i, t), i \in Nat
      PROVE  i <= lastId' /\ \A y \in Vertex : Seen(y)' /\ y.id = i => y.tag = t
  <2>1. i <= lastId'
    BY <1>2, <1>4, <1>9 DEF IsOf
  <2>2. ASSUME NEW y \in Vertex, Seen(y)', y.id = i PROVE y.tag = t
    <3>1. CASE Seen(y)
      BY <1>9, <2>2, <3>1 DEF IsOf
    <3>2. CASE New(y)
      <4>1. y.id = lastId + 1 /\ i <= lastId
        BY <1>3, <1>9, <3>2 DEF IsOf
      <4> QED BY <1>2, <1>9, <2>2, <4>1
    <3> QED BY <1>5, <2>2, <3>1, <3>2
  <2> QED BY <2>1, <2>2
<1>10. ASSUME NEW w \in Workers, Busy(w)', work'[w].op = "remove", NEW i \in Aims(work'[w])
       PROVE  /\ i <= lastId'
              /\ \A y \in Vertex : Seen(y)' /\ y.id = i => y.tag = work'[w].vertex.tag
  <2>0. i \in Nat
    <3>1. work'[w] = Idle \/ Typed(work'[w])
      BY DEF TypeInv, WorkTyped
    <3>2. Typed(work'[w]) /\ MaxIds \in Nat
      BY <1>10, <3>1, MemoryTyped DEF Busy
    <3> QED BY <1>10, <3>2 DEF Aims, Typed
  <2>1. CASE Aims(work'[w]) = {0}
    <3>1. i = 0
      BY <1>10, <2>1
    <3> QED BY <1>2, <3>1
  <2>2. CASE /\ Busy(w) /\ work[w].op = "remove" /\ work'[w].vertex.tag = work[w].vertex.tag
             /\ i \in Aims(work[w])
    <3>1. IsOf(i, work[w].vertex.tag)
      BY <1>1, <2>2
    <3>2. PICK t : t = work[w].vertex.tag
      OBVIOUS
    <3> QED BY <1>9, <2>0, <2>2, <3>1, <3>2
  <2>3. ASSUME Busy(w), work[w].op = "remove", work'[w].vertex.tag = work[w].vertex.tag,
               work[w].shard \in 1 .. Len(shards), NEW p \in Found(w), i = p.id
        PROVE  /\ i <= lastId'
               /\ \A y \in Vertex : Seen(y)' /\ y.id = i => y.tag = work'[w].vertex.tag
    <3>1. p \in shards[work[w].shard] /\ p.tag = work[w].vertex.tag
      BY <2>3 DEF Found
    <3>2. p \in Vertex /\ Seen(p)
      BY <2>3, <3>1, MemoryTyped DEF Seen
    <3>3. IsOf(i, p.tag)
      BY <1>1, <2>3, <3>2 DEF IsOf
    <3>4. PICK t : t = p.tag
      OBVIOUS
    <3> QED BY <1>9, <2>0, <2>3, <3>1, <3>3, <3>4
  <2> QED BY <1>10, <2>1, <2>2, <2>3, AimsStep DEF Aims
<1> QED BY <1>6, <1>8, <1>10

\* At the start there is no vertex at all.
LEMMA KnownInit ==
  ASSUME Init
  PROVE  KnownInv
<1>1. \A y : ~ Seen(y)
  BY DEF Init, Seen, Readable, Busy
<1>2. \A w \in Workers : ~ Busy(w)
  BY DEF Init, Busy
<1> QED BY <1>1, <1>2 DEF KnownInv

\* A call that is not one of Close begins when the process is up, and one on a
\* collection when there is no other.
LEMMA UpBegins ==
  ASSUME OneAdmin, TypeInv, NEW w \in Workers, NEW n \in Names, Begin(w, n), work'[w].op # "close"
  PROVE  process = "up" /\ (work'[w].op \in AdminOps => Admins = {})
<1>1. ~ CloseCollection(w, n)
  <2>1. CloseCollection(w, n) => work' = [work EXCEPT ![w] = Call("close", "meta", n)] /\ ~ Busy(w)
    BY DEF CloseCollection
  <2> QED BY <2>1, AdminStarts DEF Starts
<1>2. CASE CreateBegin(w, n) \/ DeleteBegin(w, n) \/ LoadBegin(w, n) \/ ReleaseBegin(w, n) \/ FlushBegin(w, n)
  BY <1>2 DEF CreateBegin, DeleteBegin, LoadBegin, ReleaseBegin, FlushBegin, BeginAdmin
<1>3. ASSUME NEW op \in VertexOps, NEW v, BeginChange(w, op, "enter", n, v)
      PROVE  process = "up" /\ work'[w].op \notin AdminOps
  BY <1>3, VertexStarts DEF Starts, VertexOps, AdminOps
<1>4. CASE \/ \E t \in Tags : EdgeRemoveBegin(w, n, t)
           \/ \E filter \in {NoVertex} \cup [id : {0}, tag : Tags \ Odd] : SearchBegin(w, n, filter)
           \/ \E id \in 1 .. MaxIds : MultiRemoveBegin(w, n, id)
           \/ \E id \in 1 .. MaxIds : \E t \in Tags : ChangeBegin(w, n, id, t)
  <2>1. \E op \in VertexOps : \E v : BeginChange(w, op, "enter", n, v)
    BY <1>4 DEF EdgeRemoveBegin, SearchBegin, MultiRemoveBegin, ChangeBegin, RemoveBegin, VertexOps
  <2> QED BY <1>3, <2>1
<1> QED BY <1>1, <1>2, <1>4 DEF Begin

\* A call of Close begins by Close.
LEMMA CloseOnly ==
  ASSUME TypeInv, NEW w \in Workers, NEW n \in Names, Begin(w, n), work'[w].op = "close"
  PROVE  CloseCollection(w, n)
<1>1. ASSUME NEW op, NEW at, BeginAdmin(w, op, at, n)
      PROVE  work'[w].op = op
  BY <1>1, AdminStarts DEF BeginAdmin, Starts
<1>2. ASSUME NEW op, NEW v, BeginChange(w, op, "enter", n, v)
      PROVE  work'[w].op = op
  BY <1>2, VertexStarts DEF Starts
<1>3. ASSUME \/ CreateBegin(w, n) \/ DeleteBegin(w, n) \/ LoadBegin(w, n) \/ ReleaseBegin(w, n)
             \/ FlushBegin(w, n)
      PROVE  FALSE
  <2>1. \E op \in {"create", "delete", "load", "release", "flush"} : \E at : BeginAdmin(w, op, at, n)
    BY <1>3 DEF CreateBegin, DeleteBegin, LoadBegin, ReleaseBegin, FlushBegin
  <2> QED BY <1>1, <2>1
<1>4. ASSUME \/ \E t \in Tags : EdgeRemoveBegin(w, n, t)
             \/ \E filter \in {NoVertex} \cup [id : {0}, tag : Tags \ Odd] : SearchBegin(w, n, filter)
             \/ \E id \in 1 .. MaxIds : MultiRemoveBegin(w, n, id)
             \/ \E id \in 1 .. MaxIds : \E t \in Tags : ChangeBegin(w, n, id, t)
      PROVE  FALSE
  <2>1. \E op \in VertexOps : \E v : BeginChange(w, op, "enter", n, v)
    BY <1>4 DEF EdgeRemoveBegin, SearchBegin, MultiRemoveBegin, ChangeBegin, RemoveBegin, VertexOps
  <2> QED BY <1>2, <2>1 DEF VertexOps
<1> QED BY <1>3, <1>4 DEF Begin

-----------------------------------------------------------------------------
(* Of the calls on collections one is in progress; a process that is down  *)
(* has no calls, and one that closes no other call than the one that saves *)

Vertexes(w) == ChangeStep(w) \/ (SearchStep(w) /\ ~ Die)

OneInv == /\ \A v, w \in Admins : v = w
          /\ \A w \in Workers : Busy(w) => process # "down" /\ (work[w].op = "close" <=> process = "closing")
          /\ process = "closing" => \A v, w \in Workers : Busy(v) /\ Busy(w) => v = w

\* What there is to do.
LEMMA StepKinds ==
  ASSUME [Next]_vars
  PROVE  \/ \E w \in Workers : \E n \in Names : Begin(w, n)
         \/ \E w \in Workers : AdminStep(w) \/ Vertexes(w)
         \/ Die \/ CloseEnd \/ CloseBegin \/ Start \/ UNCHANGED vars
BY DEF Next, Crash, Vertexes

\* Who is an administrator has a call on a collection.
LEMMA AdminIs ==
  ASSUME TypeInv, NEW w \in Workers
  PROVE  w \in Admins <=> Busy(w) /\ work[w].op \in AdminOps
BY DEF Admins, Busy, Idle, AdminOps

\* Flags and process, as a call on vertices leaves them.
LEMMA VertexQuiet ==
  ASSUME NEW w \in Workers, Vertexes(w)
  PROVE  /\ UNCHANGED <<mode, bucket, process, exists, loaded, space>>
         /\ torn' = torn \/ (RemoveColumnShard(w) /\ torn' = torn \cup {work[w].name})
<1>1. CASE ChangeStep(w)
  BY <1>1 DEF ChangeStep, Enter, ChangeColumn, ChangePost, ChangePanics, ChangeStore, RemoveColumn, RemoveSearch,
         RemoveNext, RemoveLock, RemoveFindColumn, RemovePosting, RemoveColumnShard, RemoveErase,
         MultiRemove, UnchangedByIndex, flags, memory
<1>2. CASE SearchStep(w) /\ ~ Die
  BY <1>2 DEF SearchStep, SearchEnter, SearchColumn, SearchFilter, SearchMap, SearchAnswer, SearchEnd,
         SearchFails, SearchKeepsLock, SearchPanics, SearchReturn, UnchangedByIndex, flags, memory
<1> QED BY <1>1, <1>2 DEF Vertexes

\* A call that goes on, or is over.
LEMMA OneGoes ==
  ASSUME TypeInv, TypeInv', OneInv, NEW w \in Workers, Busy(w), Others(w), process' = process,
         \/ work'[w] = Idle
         \/ Busy(w)' /\ work'[w].op = work[w].op
  PROVE  OneInv'
<1>1. \A v \in Workers : /\ Busy(v)' => Busy(v) /\ work'[v].op = work[v].op
                         /\ v \in Admins' => v \in Admins
  BY DEF Others, Busy, Admins, Idle, AdminOps
<1>2. \A u, v \in Admins' : u = v
  <2>1. Admins' \subseteq Admins
    BY <1>1 DEF Admins
  <2> QED BY <2>1 DEF OneInv
<1>3. \A v \in Workers : Busy(v)' => process' # "down" /\ (work'[v].op = "close" <=> process' = "closing")
  BY <1>1 DEF OneInv
<1>4. process' = "closing" => \A u, v \in Workers : Busy(u)' /\ Busy(v)' => u = v
  BY <1>1 DEF OneInv
<1> QED BY <1>2, <1>3, <1>4 DEF OneInv

\* Calls on collections wait for each other, and Close for all calls.
LEMMA OneStep ==
  ASSUME OneAdmin, NoRecord, Shape, ServedInv, TypeInv, TypeInv', OneInv, [Next]_vars
  PROVE  OneInv'
<1>1. ASSUME NEW w \in Workers, NEW n \in Names, Begin(w, n) PROVE OneInv'
  <2>1. process' = process
    BY <1>1, BeginStarts
  <2>2. PICK op \in Ops : \E at : \E v : Starts(w, op, at, n, v)
    BY <1>1, BeginStarts
  <2>3. Others(w) /\ ~ Busy(w) /\ Busy(w)' /\ work'[w].op = op
    BY <2>2 DEF Starts
  <2>4. \A v \in Workers \ {w} : (Busy(v)' <=> Busy(v)) /\ work'[v] = work[v] /\ (v \in Admins' <=> v \in Admins)
    BY <2>3 DEF Others, Busy, Admins
  <2>5. w \notin Admins /\ (w \in Admins' <=> op \in AdminOps)
    BY <2>3, AdminIs DEF Admins
  <2>6. CASE op = "close"
    <3>1. CloseCollection(w, n)
      BY <1>1, <2>3, <2>6, CloseOnly
    <3>2. process = "closing" /\ \A v \in Workers : ~ Busy(v)
      BY <3>1 DEF CloseCollection
    <3>3. \A v \in Workers \ {w} : ~ Busy(v)' /\ v \notin Admins'
      BY <2>4, <3>2 DEF Admins, Busy, Idle, AdminOps
    <3>4. \A v \in Admins' : v = w
      BY <3>3 DEF Admins
    <3> QED BY <2>1, <2>3, <2>6, <3>2, <3>3, <3>4 DEF OneInv
  <2>7. CASE op # "close"
    <3>1. process = "up" /\ (op \in AdminOps => Admins = {})
      BY <1>1, <2>3, <2>7, UpBegins
    <3>2. \A v, u \in Admins' : v = u
      BY <2>4, <2>5, <3>1 DEF OneInv, Admins
    <3>3. \A v \in Workers : Busy(v)' => process' # "down" /\ work'[v].op # "close" /\ process' # "closing"
      BY <2>1, <2>3, <2>4, <2>7, <3>1 DEF OneInv
    <3> QED BY <2>1, <3>1, <3>2, <3>3 DEF OneInv
  <2> QED BY <2>6, <2>7
<1>2. ASSUME NEW w \in Workers, AdminStep(w) PROVE OneInv'
  <2>1. process' = process /\ Busy(w)
    BY <1>2, AdminStepServed
  <2>2. Others(w) /\ (work'[w] = Idle \/ (Busy(w)' /\ work'[w].op = work[w].op))
    BY <1>2, AdminCourse DEF But, CallFields
  <2> QED BY <2>1, <2>2, OneGoes
<1>3. ASSUME NEW w \in Workers, Vertexes(w) PROVE OneInv'
  <2>1. process' = process /\ Busy(w)
    BY <1>3, VertexQuiet, VertexPledges DEF Vertexes
  <2>2. Others(w) /\ (work'[w] = Idle \/ (Busy(w)' /\ work'[w].op = work[w].op))
    BY <1>3, VertexCourse DEF Vertexes, Stays
  <2> QED BY <2>1, <2>2, OneGoes
<1>4. CASE Die \/ CloseEnd
  <2>1. \A w \in Workers : ~ Busy(w)' /\ w \notin Admins'
    BY <1>4 DEF Die, CloseEnd, Forget, Busy, Admins, Idle, AdminOps
  <2> QED BY <2>1 DEF OneInv, Admins
<1>5. CASE CloseBegin \/ Start
  <2>1. work' = work /\ \A w \in Workers : ~ Busy(w)
    BY <1>5 DEF CloseBegin, Start, ServedInv, Busy
  <2>2. \A w \in Workers : ~ Busy(w)' /\ w \notin Admins'
    BY <2>1 DEF Busy, Admins, Idle, AdminOps
  <2> QED BY <2>2 DEF OneInv, Admins
<1>6. CASE UNCHANGED vars
  BY <1>6 DEF vars, OneInv, Admins, Busy
<1> QED BY <1>1, <1>2, <1>3, <1>4, <1>5, <1>6, StepKinds

-----------------------------------------------------------------------------
(* What is promised is withheld from who is working: no call in progress   *)
(* takes away what a promise is about, or what a change that is waited for *)
(* is about                                                                *)

Promised(n) == promise[n].acked \cup promise[n].saving \cup promise[n].kept
On(w, n)    == Busy(w) /\ work[w].name = n

\* A call takes a vertex away, or puts another in its place.
Takes(a, y) == \/ a.op = "change" /\ y.id = a.vertex.id
               \/ a.op = "remove" /\ mode = "edge" /\ y.tag = a.vertex.tag
               \/ a.op = "remove" /\ mode # "edge" /\ y.id = a.vertex.id

Withheld ==
  /\ \A n \in Names : \A w \in Workers : On(w, n) => \A y \in Promised(n) : ~ Takes(work[w], y)
  /\ \A n \in Names : \A u \in promise[n].calls : u \in Workers /\ On(u, n) /\ work[u].op = "change"
  /\ \A n \in Names : \A u \in promise[n].calls : \A w \in Workers \ {u} :
       On(w, n) => ~ Takes(work[w], work[u].vertex)
  /\ \A w \in Workers : Busy(w) /\ mode # "edge" /\ work[w].op \in {"change", "remove"} =>
       work[w].at \in {"enter", "lock", "store"}

\* A change that is waited for is of a loaded collection, in whose space it is.
CallsInv(n) ==
  /\ promise[n].calls # {} => n \in loaded /\ ~ AdminOn(n)
  /\ \A u \in promise[n].calls : work[u].at # "enter" =>
       /\ work[u].to = space[n] /\ space[n] # 0
       /\ mode = "edge" /\ n \notin torn =>
            /\ work[u].at = "post" => work[u].shard = Column(space[n]) /\ Column(space[n]) # 0
            /\ work[u].at = "store" => work[u].vertex \in Postings(space[n])

\* A collection that nobody creates, deletes, loads or releases has all it needs.
LEMMA QuietSound ==
  ASSUME TypeInv, ServedInv, process = "up", NEW n \in Names, ~ AdminOn(n)
  PROVE  Sound(n)
<1>1. CASE \A w \in Admins : work[w].name # n
  BY <1>1 DEF ServedInv, UpInv
<1>2. ASSUME NEW w \in Admins, work[w].name = n PROVE Sound(n)
  <2>1. work[w].op = "flush"
    BY <1>2 DEF AdminOn
  <2> QED BY <1>2, <2>1 DEF ServedInv, UpInv, Progress
<1> QED BY <1>1, <1>2

\* So a change that is waited for finds its space, ...
LEMMA CallSound ==
  ASSUME Shape, TypeInv, ServedInv, OneInv, Withheld, NEW n \in Names, CallsInv(n), NEW u \in promise[n].calls
  PROVE  /\ u \in Workers /\ On(u, n) /\ work[u].op = "change" /\ process = "up"
         /\ n \in loaded /\ ~ AdminOn(n) /\ Full(n)
<1>1. u \in Workers /\ On(u, n) /\ work[u].op = "change"
  BY DEF Withheld
<1>2. process = "up"
  BY <1>1 DEF OneInv, Shape, On
<1>3. n \in loaded /\ ~ AdminOn(n)
  BY DEF CallsInv
<1> QED BY <1>1, <1>2, <1>3, QuietSound DEF Sound

\* ... and only its success ends it, or a panic of Add.
LEMMA CallSucceeds ==
  ASSUME Shape, TypeInv, ServedInv, OneInv, Withheld, NEW n \in Names, CallsInv(n),
         NEW w \in promise[n].calls, Vertexes(w), ~ ChangePanics(w), work'[w] = Idle
  PROVE  /\ ChangeStore(w)
         /\ Pledge(n, promise[n].calls \ {w}, promise[n].acked \cup {work[w].vertex},
                   promise[n].saving, promise[n].kept)
         /\ spaces'[space[n]].vertices =
              {y \in spaces[space[n]].vertices : y.id # work[w].vertex.id} \cup {work[w].vertex}
<1> USE DEF At
<1>1. w \in Workers /\ On(w, n) /\ work[w].op = "change" /\ Full(n) /\ WorkTyped
  BY CallSound DEF TypeInv
<1>2. ~ Busy(w)'
  BY DEF Busy
<1>3. ChangeStep(w)
  <2>1. SearchStep(w) => work[w].op = "search"
    BY <1>1, SearchMoves
  <2> QED BY <1>1, <2>1 DEF Vertexes
<1>4. work[w].at # "enter" => work[w].to = space[n]
  BY DEF CallsInv
<1>5. CASE Enter(w)
  <2>1. Space(w) # 0
    BY <1>1 DEF Full, Space, On
  <2>2. \E at : work' = [work EXCEPT ![w].to = Space(w), ![w].at = at]
    BY <1>5, <2>1 DEF Enter
  <2>3. PICK s, at : work' = [work EXCEPT ![w].to = s, ![w].at = at]
    BY <2>2
  <2>4. Busy(w)
    BY <1>1 DEF On
  <2>5. But(w, {"to", "at"})
    BY <1>1, <2>3, <2>4, ToBut
  <2> QED BY <1>2, <2>5 DEF But
<1>6. CASE ChangeColumn(w)
  <2>1. mode = "edge"
    BY <1>1, <1>6 DEF ChangeColumn, Withheld, On
  <2>2. spaces[work[w].to].indexed /\ work[w].to # 0
    BY <1>1, <1>4, <1>6, <2>1 DEF ChangeColumn, Full
  <2>3. GetShard(w, "post") /\ UNCHANGED space
    BY <1>6, <2>2 DEF ChangeColumn, UnchangedByIndex
  <2>4. PICK s : s = work[w].to
    OBVIOUS
  <2>5. But(w, {"shard", "at"})
    BY <1>1, <2>2, <2>3, <2>4, GetShardDoes DEF On
  <2> QED BY <1>2, <2>5 DEF But
<1>7. CASE ChangePost(w)
  BY <1>1, <1>2, <1>7, GoBut DEF ChangePost, But, On
<1>8. CASE ChangeStore(w)
  <2>1. spaces[work[w].to].ready /\ work[w].to = space[n] /\ space[n] # 0 /\ work[w].name = n
    BY <1>1, <1>4, <1>8 DEF ChangeStore, Full, On
  <2>2. promise' = [promise EXCEPT ![n].acked = @ \cup {work[w].vertex}, ![n].calls = @ \ {w}]
    BY <1>8, <2>1 DEF ChangeStore
  <2>3. Pledge(n, promise[n].calls \ {w}, promise[n].acked \cup {work[w].vertex},
               promise[n].saving, promise[n].kept)
    BY <2>2, PledgeAcked DEF TypeInv
  <2>4. PICK s, x : s = space[n] /\ x = work[w].vertex
    OBVIOUS
  <2>5. spaces' = [spaces EXCEPT ![s].vertices = {y \in spaces[s].vertices : y.id # x.id} \cup {x}]
    BY <1>8, <2>1, <2>4 DEF ChangeStore, Except
  <2>6. s \in 1 .. Len(spaces) /\ spaces[s] \in SpaceType /\ x \in Vertex
    <3>1. x \in Vertex
      BY <1>1, <2>4, CallTyped DEF Typed, On
    <3> QED BY <2>1, <2>4, <3>1, MemoryTyped
  <2>7. {y \in spaces[s].vertices : y.id # x.id} \cup {x} \subseteq Vertex
    BY <2>6 DEF SpaceType
  <2>8. spaces'[s].vertices = {y \in spaces[s].vertices : y.id # x.id} \cup {x}
    BY <2>5, <2>6, <2>7, VerticesPut DEF TypeInv
  <2> QED BY <1>8, <2>3, <2>4, <2>8
<1>9. CASE \/ RemoveColumn(w) \/ RemoveSearch(w) \/ RemoveNext(w) \/ RemoveLock(w) \/ RemoveFindColumn(w)
           \/ RemovePosting(w) \/ RemoveColumnShard(w) \/ RemoveErase(w) \/ MultiRemove(w)
  BY <1>1, <1>9 DEF RemoveColumn, RemoveSearch, RemoveNext, RemoveLock, RemoveFindColumn,
           RemovePosting, RemoveColumnShard, RemoveErase, MultiRemove
<1> QED BY <1>3, <1>5, <1>6, <1>7, <1>8, <1>9 DEF ChangeStep

\* A step of a call: it goes on about the same vertex, or is over; and what it
\* promises anew, a change that was waited for has stored.
LEMMA WithheldGoes ==
  ASSUME Withheld, NEW w \in Workers, Busy(w), Others(w), mode' = mode,
         \/ work'[w] = Idle
         \/ /\ Busy(w)' /\ work'[w].op = work[w].op /\ work'[w].name = work[w].name
            /\ \/ work'[w].vertex = work[w].vertex
               \/ mode = "edge" /\ work[w].op = "remove" /\ work'[w].vertex.tag = work[w].vertex.tag
            /\ mode # "edge" /\ work[w].op \in {"change", "remove"} => work'[w].at \in {"enter", "lock", "store"},
         \A n \in Names :
           /\ \A u \in promise'[n].calls : u \in promise[n].calls /\ (u = w => work'[w] # Idle)
           /\ \A y \in Promised(n)' : \/ y \in Promised(n)
                                      \/ w \in promise[n].calls /\ work'[w] = Idle /\ y = work[w].vertex
  PROVE  Withheld'
<1>1. ASSUME NEW v \in Workers, Busy(v)'
      PROVE  /\ Busy(v) /\ work'[v].op = work[v].op /\ work'[v].name = work[v].name
             /\ v = w => work'[w] # Idle
             /\ work[v].op = "change" => work'[v].vertex = work[v].vertex
             /\ \A y : Takes(work'[v], y) => Takes(work[v], y)
             /\ mode # "edge" /\ work[v].op \in {"change", "remove"} => work'[v].at \in {"enter", "lock", "store"}
  <2>1. CASE v # w
    <3>1. work'[v] = work[v]
      BY <2>1 DEF Others
    <3>2. Busy(v)
      BY <1>1, <3>1 DEF Busy
    <3> QED BY <2>1, <3>1, <3>2 DEF Withheld
  <2>2. CASE v = w
    BY <1>1, <2>2 DEF Busy, Takes
  <2> QED BY <2>1, <2>2
<1>2. ASSUME NEW n \in Names, NEW u \in promise'[n].calls
      PROVE  u \in promise[n].calls /\ u \in Workers /\ On(u, n)' /\ work'[u].op = "change"
             /\ work'[u].vertex = work[u].vertex
  <2>1. u \in promise[n].calls /\ u \in Workers /\ On(u, n) /\ work[u].op = "change"
    BY <1>2 DEF Withheld
  <2>2. Busy(u)'
    <3>1. CASE u = w
      BY <1>2, <3>1 DEF Busy
    <3>2. CASE u # w
      BY <2>1, <3>2 DEF On, Busy, Others
    <3> QED BY <3>1, <3>2
  <2> QED BY <1>1, <2>1, <2>2 DEF On
<1>3. ASSUME NEW n \in Names, NEW v \in Workers, On(v, n)', NEW y \in Promised(n)'
      PROVE  ~ Takes(work'[v], y)
  <2>1. Busy(v) /\ On(v, n) /\ (v = w => work'[w] # Idle) /\ (Takes(work'[v], y) => Takes(work[v], y))
    BY <1>1, <1>3 DEF On
  <2>2. CASE y \in Promised(n)
    BY <2>1, <2>2 DEF Withheld
  <2>3. CASE w \in promise[n].calls /\ work'[w] = Idle /\ y = work[w].vertex
    <3>1. v \in Workers \ {w}
      BY <2>1, <2>3
    <3> QED BY <2>1, <2>3, <3>1 DEF Withheld
  <2> QED BY <1>3, <2>2, <2>3
<1>4. ASSUME NEW n \in Names, NEW u \in promise'[n].calls, NEW v \in Workers \ {u}, On(v, n)'
      PROVE  ~ Takes(work'[v], work'[u].vertex)
  <2>1. On(v, n) /\ (Takes(work'[v], work[u].vertex) => Takes(work[v], work[u].vertex))
    BY <1>1, <1>4 DEF On
  <2>2. u \in promise[n].calls /\ work'[u].vertex = work[u].vertex
    BY <1>2, <1>4
  <2> QED BY <1>4, <2>1, <2>2 DEF Withheld
<1>6. \A v \in Workers : \A y : Takes(work[v], y)' <=> Takes(work'[v], y)
  BY DEF Takes
<1>7. \A v \in Workers, u \in Workers : Takes(work[v], work[u].vertex)' <=> Takes(work'[v], work'[u].vertex)
  BY DEF Takes
<1>8. \A n \in Names : \A v \in Workers : On(v, n)' => \A y \in Promised(n)' : ~ Takes(work[v], y)'
  BY <1>3, <1>6
<1>9. \A n \in Names : \A u \in promise'[n].calls : u \in Workers /\ On(u, n)' /\ work'[u].op = "change"
  BY <1>2
<1>10. \A n \in Names : \A u \in promise'[n].calls : \A v \in Workers \ {u} :
         On(v, n)' => ~ Takes(work[v], work[u].vertex)'
  BY <1>2, <1>4, <1>7
<1>11. \A v \in Workers : Busy(v)' /\ mode' # "edge" /\ work'[v].op \in {"change", "remove"} =>
         work'[v].at \in {"enter", "lock", "store"}
  BY <1>1
<1> QED BY <1>8, <1>9, <1>10, <1>11 DEF Withheld

\* A call that begins takes nothing that is still promised.
LEMMA WithheldBegins ==
  ASSUME Withheld, NEW w \in Workers, ~ Busy(w), Busy(w)', Others(w), mode' = mode,
         NEW n \in Names, work'[w].name = n, work'[w].op \in VertexOps => work'[w].at = "enter",
         \A m \in Names : /\ Promised(m)' \subseteq Promised(m)
                          /\ \A u \in promise'[m].calls : u \in promise[m].calls \/ (m = n /\ u = w),
         \A y \in Promised(n)' : ~ Takes(work'[w], y),
         \A u \in promise'[n].calls \ {w} : ~ Takes(work'[w], work[u].vertex),
         w \in promise'[n].calls =>
           /\ work'[w].op = "change"
           /\ \A v \in Workers \ {w} : On(v, n) => ~ Takes(work[v], work'[w].vertex)
  PROVE  Withheld'
<1>1. ASSUME NEW v \in Workers, Busy(v)', v # w
      PROVE  Busy(v) /\ work'[v] = work[v]
  BY <1>1 DEF Others, Busy
<1>2. ASSUME NEW m \in Names, NEW u \in promise'[m].calls, u # w
      PROVE  u \in promise[m].calls /\ u \in Workers /\ On(u, m) /\ work[u].op = "change" /\ work'[u] = work[u]
             /\ On(u, m)'
  BY <1>2 DEF Withheld, On, Busy, Others
<1>3. ASSUME NEW m \in Names, w \in promise'[m].calls
      PROVE  m = n
  BY <1>3 DEF Withheld, On
<1>4. ASSUME NEW m \in Names, NEW v \in Workers, On(v, m)', NEW y \in Promised(m)'
      PROVE  ~ Takes(work'[v], y)
  <2>1. CASE v = w
    BY <1>4, <2>1 DEF On
  <2>2. CASE v # w
    <3>1. On(v, m) /\ work'[v] = work[v] /\ y \in Promised(m)
      BY <1>1, <1>4, <2>2 DEF On
    <3> QED BY <3>1 DEF Withheld
  <2> QED BY <2>1, <2>2
<1>5. ASSUME NEW m \in Names, NEW u \in promise'[m].calls, NEW v \in Workers \ {u}, On(v, m)'
      PROVE  ~ Takes(work'[v], work'[u].vertex)
  <2>1. CASE u = w
    <3>1. m = n /\ v # w
      BY <1>3, <1>5, <2>1
    <3>2. On(v, n) /\ work'[v] = work[v]
      BY <1>1, <1>5, <3>1 DEF On
    <3> QED BY <1>5, <2>1, <3>1, <3>2
  <2>2. CASE u # w /\ v = w
    <3>1. m = n /\ work'[u] = work[u]
      BY <1>2, <1>5, <2>2 DEF On
    <3> QED BY <1>5, <2>2, <3>1
  <2>3. CASE u # w /\ v # w
    <3>1. u \in promise[m].calls /\ work'[u] = work[u] /\ On(v, m) /\ work'[v] = work[v]
      BY <1>1, <1>2, <1>5, <2>3 DEF On
    <3> QED BY <1>5, <3>1 DEF Withheld
  <2> QED BY <2>1, <2>2, <2>3
<1>6. \A v \in Workers : \A y : Takes(work[v], y)' <=> Takes(work'[v], y)
  BY DEF Takes
<1>7. \A v \in Workers, u \in Workers : Takes(work[v], work[u].vertex)' <=> Takes(work'[v], work'[u].vertex)
  BY DEF Takes
<1>8. \A m \in Names : \A v \in Workers : On(v, m)' => \A y \in Promised(m)' : ~ Takes(work[v], y)'
  BY <1>4, <1>6
<1>9. \A m \in Names : \A u \in promise'[m].calls : u \in Workers /\ On(u, m)' /\ work'[u].op = "change"
  <2>1. ASSUME NEW m \in Names, w \in promise'[m].calls PROVE On(w, m)' /\ work'[w].op = "change"
    BY <1>3, <2>1 DEF On
  <2> QED BY <1>2, <2>1
<1>10. \A m \in Names : \A u \in promise'[m].calls : \A v \in Workers \ {u} :
         On(v, m)' => ~ Takes(work[v], work[u].vertex)'
  BY <1>5, <1>7, <1>9
<1>11. \A v \in Workers : Busy(v)' /\ mode' # "edge" /\ work'[v].op \in {"change", "remove"} =>
         work'[v].at \in {"enter", "lock", "store"}
  BY <1>1 DEF Withheld, VertexOps
<1> QED BY <1>8, <1>9, <1>10, <1>11 DEF Withheld

\* No more is promised than was.
Lessens == \A m \in Names : Promised(m)' \subseteq Promised(m) /\ promise'[m].calls \subseteq promise[m].calls

\* Taking from a promise is such a step.
LEMMA PledgeLess ==
  ASSUME NEW n, NEW c, NEW a, NEW s, NEW k, Pledge(n, c, a, s, k),
         c \subseteq promise[n].calls, a \cup s \cup k \subseteq Promised(n)
  PROVE  Lessens
BY DEF Pledge, Lessens, Promised

\* So it is when a call on a collection begins.
Administers(w, n) ==
  \/ CreateBegin(w, n) \/ DeleteBegin(w, n) \/ LoadBegin(w, n)
  \/ ReleaseBegin(w, n) \/ FlushBegin(w, n) \/ CloseCollection(w, n)

\* None of these promises more.
LEMMA AdministersLess ==
  ASSUME TypeInv, NEW w \in Workers, NEW n \in Names, Administers(w, n)
  PROVE  Lessens
<1>0. PromisesTyped
  BY DEF TypeInv
<1>1. CASE CreateBegin(w, n) \/ DeleteBegin(w, n)
  <2>1. Pledge(n, {}, {}, {}, {})
    BY <1>0, <1>1, PledgeNothing DEF CreateBegin, DeleteBegin
  <2> QED BY <2>1, PledgeLess
<1>2. CASE LoadBegin(w, n)
  <2>1. Pledge(n, {}, promise[n].acked, promise[n].saving, promise[n].kept)
    BY <1>0, <1>2, PledgeNoCalls DEF LoadBegin
  <2> QED BY <2>1, PledgeLess DEF Promised
<1>3. CASE ReleaseBegin(w, n)
  <2>1. Pledge(n, {}, promise[n].acked, promise[n].acked, promise[n].kept)
    BY <1>0, <1>3, PledgeReleased DEF ReleaseBegin
  <2> QED BY <2>1, PledgeLess DEF Promised
<1>4. CASE FlushBegin(w, n)
  <2>1. Pledge(n, promise[n].calls, promise[n].acked, promise[n].acked, promise[n].kept)
    BY <1>0, <1>4, PledgeFlushed DEF FlushBegin
  <2> QED BY <2>1, PledgeLess DEF Promised
<1>5. CASE CloseCollection(w, n)
  BY <1>5 DEF CloseCollection, Lessens, Promised
<1> QED BY <1>1, <1>2, <1>3, <1>4, <1>5 DEF Administers

\* What is withheld stays so when a call begins, ...
LEMMA WithheldBegin ==
  ASSUME TypeInv, TypeInv', KnownInv, Withheld, NEW w \in Workers, NEW n \in Names, Begin(w, n), mode' = mode
  PROVE  Withheld'
<1>0. PromisesTyped
  BY DEF TypeInv
<1>1. PICK op \in Ops : \E at : \E v : /\ Starts(w, op, at, n, v)
                                       /\ op \in VertexOps => at = "enter"
  BY BeginStarts
<1>2. /\ Others(w) /\ ~ Busy(w) /\ Busy(w)' /\ work'[w].op = op /\ work'[w].name = n
      /\ op \in VertexOps => work'[w].at = "enter"
  BY <1>1 DEF Starts
<1>3. \A m \in Names : w \notin promise[m].calls
  BY <1>2 DEF Withheld, On
<1>4. ASSUME Lessens, \A y : ~ Takes(work'[w], y)
      PROVE  Withheld'
  <2>1. w \notin promise'[n].calls
    BY <1>3, <1>4 DEF Lessens
  <2>2. \A m \in Names : /\ Promised(m)' \subseteq Promised(m)
                         /\ \A u \in promise'[m].calls : u \in promise[m].calls \/ (m = n /\ u = w)
    BY <1>4 DEF Lessens
  <2> QED BY <1>2, <1>4, <2>1, <2>2, WithheldBegins
<1>5. CASE Administers(w, n)
  <2>1. PICK o \in AdminOps : \E at : work' = [work EXCEPT ![w] = Call(o, at, n)]
    BY <1>2, <1>5 DEF Administers, CreateBegin, DeleteBegin, LoadBegin, ReleaseBegin, FlushBegin,
                      CloseCollection, BeginAdmin, AdminOps
  <2>4. PICK at : work' = [work EXCEPT ![w] = Call(o, at, n)]
    BY <2>1
  <2>5. Starts(w, o, at, n, NoVertex)
    BY <1>2, <2>4, AdminStarts
  <2>2. work'[w].op \in AdminOps
    BY <2>5 DEF Starts
  <2>3. \A y : ~ Takes(work'[w], y)
    BY <2>2 DEF Takes, AdminOps
  <2> QED BY <1>4, <1>5, <2>3, AdministersLess
<1>6. ASSUME NEW filter, SearchBegin(w, n, filter) PROVE Withheld'
  <2>1. work'[w].op = "search"
    BY <1>6, VertexStarts DEF SearchBegin, Starts
  <2>2. Pledge(n, promise[n].calls, promise[n].acked, promise[n].saving, promise[n].kept)
    BY <1>0, <1>6, PledgeSought DEF SearchBegin
  <2>3. Lessens
    BY <2>2, PledgeLess DEF Promised
  <2> QED BY <1>4, <2>1, <2>3 DEF Takes
<1>7. ASSUME NEW C, NEW x, Pledge(n, C, {y \in promise[n].acked : y.id # x.id},
                           {y \in promise[n].saving : y.id # x.id}, {y \in promise[n].kept : y.id # x.id}),
             \A y : Takes(work'[w], y) => y.id = x.id,
             \/ C = {u \in promise[n].calls : work[u].vertex.id # x.id}
             \/ /\ C = {u \in promise[n].calls : work[u].vertex.id # x.id} \cup {w}
                /\ work'[w].op = "change"
                /\ \A v \in Workers \ {w} : On(v, n) => ~ Takes(work[v], work'[w].vertex)
      PROVE  Withheld'
  <2>1. \A m \in Names : /\ Promised(m)' \subseteq Promised(m)
                         /\ \A u \in promise'[m].calls : u \in promise[m].calls \/ (m = n /\ u = w)
    BY <1>7 DEF Pledge, Promised
  <2>2. \A y \in Promised(n)' : ~ Takes(work'[w], y)
    BY <1>7 DEF Pledge, Promised
  <2>3. \A u \in promise'[n].calls \ {w} : ~ Takes(work'[w], work[u].vertex)
    BY <1>7 DEF Pledge
  <2>4. w \in promise'[n].calls =>
          /\ work'[w].op = "change"
          /\ \A v \in Workers \ {w} : On(v, n) => ~ Takes(work[v], work'[w].vertex)
    BY <1>3, <1>7 DEF Pledge
  <2> QED BY <1>2, <2>1, <2>2, <2>3, <2>4, WithheldBegins
<1>8. ASSUME NEW id \in 1 .. MaxIds, NEW t \in Tags, ChangeBegin(w, n, id, t)
      PROVE  Withheld'
  <2> DEFINE x == [id |-> id, tag |-> t]
  <2>1. work'[w].op = "change" /\ work'[w].vertex = x
    BY <1>8, VertexStarts DEF ChangeBegin, Starts
  <2>2. x.id = id /\ x.tag = t /\ x \in Vertex
    BY DEF Vertex
  <2>3. PICK C : /\ Pledge(n, C, {y \in promise[n].acked : y.id # id},
                           {y \in promise[n].saving : y.id # id}, {y \in promise[n].kept : y.id # id})
                 /\ \/ C = {u \in promise[n].calls : work[u].vertex.id # id}
                    \/ /\ C = {u \in promise[n].calls : work[u].vertex.id # id} \cup {w}
                       /\ ~ AdminOn(n)
                       /\ \A v \in OthersOn(w, n) : ~ Collides(v, x)
    BY <1>0, <1>8, PledgeChanged
  <2> HIDE DEF x
  <2>4. \A y : Takes(work'[w], y) => y.id = x.id
    BY <2>1 DEF Takes
  <2>5. ASSUME NEW v \in Workers \ {w}, On(v, n), ~ Collides(v, x)
        PROVE  ~ Takes(work[v], x)
    <3>1. CASE mode # "edge"
      BY <2>5, <3>1 DEF Collides, Takes
    <3>2. CASE mode = "edge"
      <4>1. ASSUME work[v].op = "change" PROVE x.id # work[v].vertex.id
        <5>1. work[v].vertex \in Vertex
          BY <2>5, <4>1, CallTyped DEF On, TypeInv, Typed
        <5>2. Seen(work[v].vertex)
          BY <2>5, <4>1 DEF Seen, On
        <5>3. work[v].vertex.id <= lastId
          BY <3>2, <5>1, <5>2 DEF KnownInv
        <5>4. x.id = lastId + 1 /\ lastId \in Nat
          BY <1>8, <2>2, <3>2, MemoryTyped DEF ChangeBegin, TypeInv
        <5>5. work[v].vertex.id \in Nat
          BY <5>1, MemoryTyped DEF Vertex
        <5> QED BY <5>3, <5>4, <5>5
      <4> QED BY <2>5, <3>2, <4>1 DEF Collides, Takes
    <3> QED BY <3>1, <3>2
  <2>6. \A v \in Workers \ {w} : On(v, n) => v \in OthersOn(w, n)
    BY DEF OthersOn, On
  <2>7. Pledge(n, C, {y \in promise[n].acked : y.id # x.id},
               {y \in promise[n].saving : y.id # x.id}, {y \in promise[n].kept : y.id # x.id})
    BY <2>2, <2>3
  <2>8. \/ C = {u \in promise[n].calls : work[u].vertex.id # x.id}
        \/ /\ C = {u \in promise[n].calls : work[u].vertex.id # x.id} \cup {w}
           /\ work'[w].op = "change"
           /\ \A v \in Workers \ {w} : On(v, n) => ~ Takes(work[v], work'[w].vertex)
    BY <2>1, <2>2, <2>3, <2>5, <2>6
  <2> QED BY <1>7, <2>4, <2>7, <2>8
<1>9. ASSUME NEW id \in 1 .. MaxIds, MultiRemoveBegin(w, n, id), mode = "multi"
      PROVE  Withheld'
  <2>1. work'[w].op = "remove" /\ work'[w].vertex = [id |-> id, tag |-> CHOOSE t \in Tags : TRUE]
    BY <1>9, VertexStarts DEF MultiRemoveBegin, RemoveBegin, Starts
  <2>2. PICK x : x = work'[w].vertex
    OBVIOUS
  <2>3. x.id = id
    BY <2>1, <2>2
  <2>4. promise' = [promise EXCEPT ![n] = Withdraws(n, LAMBDA y : y.id = id)]
    BY <1>9 DEF MultiRemoveBegin, RemoveBegin
  <2>5. Pledge(n, {u \in promise[n].calls : work[u].vertex.id # id}, {y \in promise[n].acked : y.id # id},
               {y \in promise[n].saving : y.id # id}, {y \in promise[n].kept : y.id # id})
    BY <1>0, <2>4, PledgeIdRemoved
  <2>6. \A y : Takes(work'[w], y) => y.id = x.id
    BY <1>9, <2>1, <2>2 DEF Takes
  <2> QED BY <1>7, <2>3, <2>5, <2>6
<1>10. ASSUME NEW t \in Tags, EdgeRemoveBegin(w, n, t)
       PROVE  Withheld'
  <2>1. work'[w].op = "remove" /\ work'[w].vertex = [id |-> 0, tag |-> t]
    BY <1>10, VertexStarts DEF EdgeRemoveBegin, RemoveBegin, Starts
  <2>2. work'[w].vertex.tag = t /\ mode = "edge"
    BY <1>10, <2>1 DEF EdgeRemoveBegin
  <2>3. promise' = [promise EXCEPT ![n] = Withdraws(n, LAMBDA y : y.tag = t)]
    BY <1>10 DEF EdgeRemoveBegin, RemoveBegin
  <2>4. Pledge(n, {u \in promise[n].calls : work[u].vertex.tag # t}, {y \in promise[n].acked : y.tag # t},
               {y \in promise[n].saving : y.tag # t}, {y \in promise[n].kept : y.tag # t})
    BY <1>0, <2>3, PledgeTagRemoved
  <2>5. \A y : Takes(work'[w], y) => y.tag = t
    BY <2>1, <2>2 DEF Takes
  <2>6. \A m \in Names : /\ Promised(m)' \subseteq Promised(m)
                         /\ \A u \in promise'[m].calls : u \in promise[m].calls \/ (m = n /\ u = w)
    BY <2>4 DEF Pledge, Promised
  <2>7. \A y \in Promised(n)' : ~ Takes(work'[w], y)
    BY <2>4, <2>5 DEF Pledge, Promised
  <2>8. \A u \in promise'[n].calls \ {w} : ~ Takes(work'[w], work[u].vertex)
    BY <2>4, <2>5 DEF Pledge
  <2>9. w \notin promise'[n].calls
    BY <1>3, <2>4 DEF Pledge
  <2> QED BY <1>2, <2>6, <2>7, <2>8, <2>9, WithheldBegins
<1>11. (\E id \in 1 .. MaxIds : MultiRemoveBegin(w, n, id)) => mode = "multi"
  BY DEF MultiRemoveBegin
<1> QED BY <1>5, <1>6, <1>8, <1>9, <1>10, <1>11 DEF Begin, Administers

\* ... when a call on a collection goes on, ...
LEMMA WithheldAdmin ==
  ASSUME TypeInv, Withheld, NEW w \in Workers, AdminStep(w), mode' = mode
  PROVE  Withheld'
<1>1. PICK n : n = work[w].name
  OBVIOUS
<1>2. n \in Names /\ Busy(w) /\ work[w].op \in AdminOps
  BY <1>1, AdminPledges
<1>3. Lessens
  <2>1. CASE promise' = promise
    BY <2>1 DEF Lessens, Promised
  <2>2. CASE Pledge(n, promise[n].calls, promise[n].kept, promise[n].saving, promise[n].kept)
    BY <2>2, PledgeLess DEF Promised
  <2>3. CASE Pledge(n, promise[n].calls, promise[n].acked, promise[n].saving, promise[n].saving)
    BY <2>3, PledgeLess DEF Promised
  <2>4. CASE Pledge(n, promise[n].calls, promise[n].acked, promise[n].saving, {})
    BY <2>4, PledgeLess DEF Promised
  <2> QED BY <1>1, <2>1, <2>2, <2>3, <2>4, AdminPledges
<1>4. \A m \in Names : w \notin promise[m].calls
  BY <1>2 DEF Withheld, AdminOps
<1>5. /\ Others(w)
      /\ \/ work'[w] = Idle
         \/ But(w, {"at", "to", "map", "data"})
  BY AdminCourse
<1>6. But(w, {"at", "to", "map", "data"}) =>
        /\ Busy(w)' /\ work'[w].op = work[w].op /\ work'[w].name = work[w].name
        /\ work'[w].vertex = work[w].vertex
  BY DEF But, CallFields
<1>7. work[w].op \notin {"change", "remove"}
  BY <1>2 DEF AdminOps
<1>8. \A m \in Names :
        /\ \A u \in promise'[m].calls : u \in promise[m].calls /\ (u = w => work'[w] # Idle)
        /\ \A y \in Promised(m)' : \/ y \in Promised(m)
                                   \/ w \in promise[m].calls /\ work'[w] = Idle /\ y = work[w].vertex
  BY <1>3, <1>4 DEF Lessens
<1> QED BY <1>2, <1>5, <1>6, <1>7, <1>8, WithheldGoes

\* ... when one on vertices goes on, ...
LEMMA WithheldVertex ==
  ASSUME Shape, TypeInv, TypeInv', ServedInv, OneInv, Withheld, \A n \in Names : CallsInv(n),
         NEW w \in Workers, Vertexes(w), mode' = mode
  PROVE  Withheld'
<1>1. PICK n : n = work[w].name
  OBVIOUS
<1>2. n \in Names /\ Busy(w) /\ work[w].op \in VertexOps
  BY <1>1, VertexPledges DEF Vertexes
<1>3. \A m \in Names : w \in promise[m].calls => m = n /\ work[w].op = "change"
  BY <1>1 DEF Withheld, On
<1>4. \A m \in Names :
        /\ \A u \in promise'[m].calls : u \in promise[m].calls /\ (u = w => work'[w] # Idle)
        /\ \A y \in Promised(m)' : \/ y \in Promised(m)
                                   \/ w \in promise[m].calls /\ work'[w] = Idle /\ y = work[w].vertex
  <2>3. CASE ChangePanics(w)
    <3>1. Pledge(n, promise[n].calls \ {w}, promise[n].acked, promise[n].saving, promise[n].kept)
      <4>1. promise' = [promise EXCEPT ![n].calls = @ \ {w}]
        BY <1>1, <2>3 DEF ChangePanics
      <4> QED BY <1>2, <4>1, PledgeBroken DEF TypeInv
    <3>2. Lessens
      BY <3>1, PledgeLess DEF Promised
    <3>3. w \notin promise'[n].calls
      BY <1>2, <3>1 DEF Pledge
    <3> QED BY <1>3, <3>2, <3>3 DEF Lessens
  <2>1. CASE w \in promise[n].calls /\ work'[w] = Idle /\ ~ ChangePanics(w)
    <3>1. Pledge(n, promise[n].calls \ {w}, promise[n].acked \cup {work[w].vertex},
                 promise[n].saving, promise[n].kept)
      BY <1>2, <2>1, CallSucceeds
    <3> QED BY <1>3, <2>1, <3>1 DEF Pledge, Promised
  <2>2. CASE ~ (w \in promise[n].calls /\ work'[w] = Idle) /\ ~ ChangePanics(w)
    <3>1. \/ promise' = promise
          \/ Pledge(n, promise[n].calls, promise[n].acked, promise[n].saving, promise[n].kept)
          \/ ChangeStore(w) /\ w \in promise[n].calls
      BY <1>1, <2>2, VertexPledges DEF Vertexes
    <3>2. ~ (ChangeStore(w) /\ w \in promise[n].calls)
      BY <2>2, ReturnEnds DEF ChangeStore, TypeInv, Ends
    <3>3. Lessens
      <4>1. CASE promise' = promise
        BY <4>1 DEF Lessens, Promised
      <4>2. CASE Pledge(n, promise[n].calls, promise[n].acked, promise[n].saving, promise[n].kept)
        BY <4>2, PledgeLess DEF Promised
      <4> QED BY <3>1, <3>2, <4>1, <4>2
    <3> QED BY <1>3, <2>2, <3>3 DEF Lessens
  <2> QED BY <2>1, <2>2, <2>3
<1>5. /\ Others(w)
      /\ \/ work'[w] = Idle
         \/ /\ Busy(w)' /\ work'[w].op = work[w].op /\ work'[w].name = work[w].name
            /\ work'[w].vertex = work[w].vertex \/ (RemoveNext(w) /\ work'[w].vertex.tag = work[w].vertex.tag)
  BY VertexCourse DEF Vertexes, Stays
<1>6. mode # "edge" /\ work[w].op \in {"change", "remove"} => work[w].at \in {"enter", "lock", "store"}
  BY <1>2 DEF Withheld
<1>7. RemoveNext(w) => mode = "edge" /\ work[w].op = "remove"
  BY <1>6 DEF RemoveNext, At
<1>8. ASSUME mode # "edge", work[w].op \in {"change", "remove"}, work'[w] # Idle
      PROVE  work'[w].at \in {"enter", "lock", "store"}
  <2>1. ChangeStep(w)
    <3>1. SearchStep(w) => work[w].op = "search"
      BY SearchMoves
    <3> QED BY <1>8, <3>1 DEF Vertexes
  <2>2. Enter(w)
    <3>1. ~ ChangeStore(w) /\ ~ MultiRemove(w)
      BY <1>8, ReturnEnds DEF ChangeStore, MultiRemove, TypeInv, Ends
    <3> QED BY <1>6, <1>8, <2>1, <3>1 DEF ChangeStep, ChangeColumn, ChangePost, ChangePanics, RemoveColumn, RemoveSearch, RemoveNext,
              RemoveLock, RemoveFindColumn, RemovePosting, RemoveColumnShard, RemoveErase, At
  <2>3. ~ Return(w)
    BY <1>8, ReturnEnds DEF TypeInv, Ends
  <2>4. \E at \in {"store", "lock"} : work' = [work EXCEPT ![w].to = Space(w), ![w].at = at]
    BY <1>8, <2>2, <2>3, TypeInv DEF Enter, TypeInv
  <2> QED BY <1>2, <2>4, ToBut DEF TypeInv
<1>9. \/ work'[w] = Idle
      \/ /\ Busy(w)' /\ work'[w].op = work[w].op /\ work'[w].name = work[w].name
         /\ \/ work'[w].vertex = work[w].vertex
            \/ mode = "edge" /\ work[w].op = "remove" /\ work'[w].vertex.tag = work[w].vertex.tag
         /\ mode # "edge" /\ work[w].op \in {"change", "remove"} => work'[w].at \in {"enter", "lock", "store"}
  BY <1>5, <1>7, <1>8
<1> QED BY <1>2, <1>4, <1>5, <1>9, WithheldGoes

\* ... and whatever the process does.
LEMMA WithheldStep ==
  ASSUME NoRecord, Shape, TypeInv, TypeInv', ServedInv, KnownInv, OneInv, Withheld,
         \A n \in Names : CallsInv(n), [Next]_vars
  PROVE  Withheld'
<1>1. mode' = mode
  BY TypeStep
<1>2. ASSUME Forget, \A n \in Names : promise'[n].calls = {} PROVE Withheld'
  <2>1. \A w \in Workers : ~ Busy(w)'
    BY <1>2 DEF Forget, Busy
  <2> QED BY <1>2, <2>1 DEF Withheld, On
<1>3. CASE Die
  <2>1. \A n \in Names : promise'[n].calls = {}
    <3>1. ASSUME NEW n \in Names PROVE promise'[n].calls = NoPromise.calls
      <4>1. promise'[n] = [NoPromise EXCEPT !.kept = promise[n].kept]
        BY <1>3 DEF Die
      <4> QED BY <4>1 DEF NoPromise
    <3> QED BY <3>1 DEF NoPromise
  <2> QED BY <1>2, <1>3, <2>1 DEF Die
<1>4. CASE CloseEnd
  <2>1. promise' = promise /\ \A n \in Names : promise[n].calls = {}
    BY <1>4 DEF CloseEnd, CallsInv
  <2> QED BY <1>2, <1>4, <2>1 DEF CloseEnd
<1>5. CASE CloseBegin \/ Start \/ UNCHANGED vars
  <2>1. UNCHANGED <<work, promise>>
    BY <1>5 DEF CloseBegin, Start, vars
  <2>2. \A v \in Workers : \A y : Takes(work[v], y)' <=> Takes(work[v], y)
    BY <1>1, <2>1 DEF Takes
  <2>3. \A v \in Workers : Busy(v)' <=> Busy(v)
    BY <2>1 DEF Busy
  <2>4. \A n \in Names : (Promised(n)' = Promised(n)) /\ \A v \in Workers : On(v, n)' <=> On(v, n)
    BY <2>1, <2>3 DEF Promised, On
  <2>5. \A v \in Workers, u \in Workers : Takes(work[v], work[u].vertex)' <=> Takes(work[v], work[u].vertex)
    BY <1>1, <2>1 DEF Takes
  <2>6. \A n \in Names : \A u \in promise'[n].calls : u \in Workers /\ On(u, n)' /\ work'[u].op = "change"
    BY <2>1, <2>4 DEF Withheld
  <2>7. \A n \in Names : \A w \in Workers : On(w, n)' => \A y \in Promised(n)' : ~ Takes(work[w], y)'
    BY <2>2, <2>4 DEF Withheld
  <2>8. \A n \in Names : \A u \in promise'[n].calls : \A v \in Workers \ {u} :
          On(v, n)' => ~ Takes(work[v], work[u].vertex)'
    BY <2>1, <2>4, <2>5, <2>6 DEF Withheld
  <2>9. \A w \in Workers : Busy(w)' /\ mode' # "edge" /\ work'[w].op \in {"change", "remove"} =>
          work'[w].at \in {"enter", "lock", "store"}
    BY <1>1, <2>1, <2>3 DEF Withheld
  <2> QED BY <2>6, <2>7, <2>8, <2>9 DEF Withheld
<1> QED BY <1>1, <1>3, <1>4, <1>5, StepKinds, WithheldBegin, WithheldAdmin, WithheldVertex

-----------------------------------------------------------------------------
(* What a collection has of what it promised, wherever its calls are       *)

\* In memory, and in an object of the bucket.
Has(n, S) == S # {} =>
  /\ space[n] # 0 /\ S \subseteq spaces[space[n]].vertices
  /\ mode = "edge" /\ n \notin torn => S \subseteq Postings(space[n])
InObject(n, object, S) == S # {} => Readable(n, object) /\ S \subseteq bucket[n][object]

\* Flush, ReleaseCollection and Close on their way, and what they are to save.
Saves(w, n)   == On(w, n) /\ work[w].op \in {"flush", "release", "close"} /\ work[w].at \in Saving
Salvage(w, n) == IF work[w].op = "close" THEN promise[n].kept ELSE promise[n].saving

\* The space of a collection that is loaded, or is released and not yet saved, has
\* what was acknowledged, ...
AckedInv(n) ==
  n \in loaded \/ (\E w \in Workers : Saves(w, n) /\ work[w].op = "release") =>
    Has(n, promise[n].acked) /\ promise[n].kept \subseteq promise[n].acked

\* ... one that is being loaded has what was kept as far as the load has come, ...
LoadInv(n) == \A w \in Workers : On(w, n) /\ work[w].op = "load" =>
  /\ work[w].at = "load vertex" /\ mode = "edge" /\ n \notin torn /\ promise[n].kept # {} =>
       space[n] # 0 /\ promise[n].kept \subseteq Postings(space[n])
  /\ work[w].at = "flag" => Has(n, promise[n].kept)

\* ... and one that is being created or deleted promises nothing.
EmptyInv(n) == \A w \in Workers : On(w, n) /\ work[w].op \in {"create", "delete"} => Promised(n) = {}

\* The bucket has what was kept, ...
KeptInv(n) == /\ InObject(n, "vertex", promise[n].kept)
              /\ mode = "edge" /\ n \notin torn => InObject(n, "inverted", promise[n].kept)

\* ... and a save will put there what was kept before and what it is to keep: what
\* it has read has all of it that was in the maps it has read.
SaveOk(n, a, D) ==
  /\ a.op # "release" => n \in loaded
  /\ promise[n].kept \subseteq D /\ D \subseteq promise[n].acked
  /\ a.at # "meta" => a.to = space[n]
  /\ a.at = "vertex" /\ D # {} =>
       a.data # Unreadable /\ \A y \in D : MapOf(y.id) < a.map => y \in a.data
  /\ a.at = "inverted" /\ a.op # "close" => InObject(n, "vertex", D)
  /\ a.at = "inverted" /\ a.map = MapShards /\ D # {} =>
       a.data # Unreadable /\ (mode = "edge" /\ n \notin torn => D \subseteq a.data)
SaveInv(n) == \A w \in Workers : Saves(w, n) => SaveOk(n, work[w], Salvage(w, n))

NameInv(n) == AckedInv(n) /\ LoadInv(n) /\ EmptyInv(n) /\ KeptInv(n) /\ SaveInv(n) /\ CallsInv(n)

\* A step beside a collection: no call on it as a collection takes part, what it has
\* it has still, and what it promises anew, an acknowledged change has stored.
Beside(n) ==
  /\ mode' = mode /\ space'[n] = space[n] /\ bucket'[n] = bucket[n]
  /\ (n \in loaded' <=> n \in loaded) /\ (n \in torn => n \in torn')
  /\ \A v \in Workers : On(v, n)' /\ work'[v].op \in AdminOps => On(v, n) /\ work'[v] = work[v]
  /\ \E G : /\ promise'[n].kept = promise[n].kept \ G /\ promise'[n].saving = promise[n].saving \ G
            /\ promise[n].acked \ G \subseteq promise'[n].acked
            /\ \A y \in promise'[n].acked :
                 \/ y \in promise[n].acked \ G
                 \/ promise[n].calls # {} /\ Has(n, {y})'
  /\ \A y \in Promised(n) \cap Promised(n)' : space[n] # 0 =>
       /\ y \in spaces[space[n]].vertices => y \in spaces'[space[n]].vertices
       /\ mode = "edge" /\ n \notin torn' /\ y \in Postings(space[n]) => y \in Postings(space[n])'

\* Then all holds on but for what is said of the changes themselves.
LEMMA BesideKeeps ==
  ASSUME NEW n \in Names, Beside(n), NameInv(n)
  PROVE  AckedInv(n)' /\ LoadInv(n)' /\ EmptyInv(n)' /\ KeptInv(n)' /\ SaveInv(n)'
<1>1. /\ mode' = mode /\ space'[n] = space[n] /\ bucket'[n] = bucket[n]
      /\ (n \in loaded' <=> n \in loaded) /\ (n \in torn => n \in torn')
      /\ \A v \in Workers : On(v, n)' /\ work'[v].op \in AdminOps => On(v, n) /\ work'[v] = work[v]
  BY DEF Beside
<1>2. PICK G : /\ promise'[n].kept = promise[n].kept \ G /\ promise'[n].saving = promise[n].saving \ G
               /\ promise[n].acked \ G \subseteq promise'[n].acked
               /\ \A y \in promise'[n].acked :
                    \/ y \in promise[n].acked \ G
                    \/ promise[n].calls # {} /\ Has(n, {y})'
  BY DEF Beside
<1>3. /\ promise[n].acked \cap promise'[n].acked \subseteq Promised(n) \cap Promised(n)'
      /\ promise'[n].kept \subseteq Promised(n) \cap Promised(n)'
  BY <1>2 DEF Promised
<1>4. ASSUME NEW S, Has(n, S), S \subseteq Promised(n) \cap Promised(n)'
      PROVE  Has(n, S)'
  <2>1. CASE S = {}
    BY <2>1 DEF Has
  <2>2. CASE S # {}
    <3>1. space[n] # 0 /\ S \subseteq spaces[space[n]].vertices
          /\ (mode = "edge" /\ n \notin torn => S \subseteq Postings(space[n]))
      BY <1>4, <2>2 DEF Has
    <3>2. S \subseteq spaces'[space[n]].vertices
          /\ (mode = "edge" /\ n \notin torn' => S \subseteq Postings(space[n])')
      BY <1>1, <1>4, <3>1 DEF Beside
    <3>3. PICK s : s = space[n]
      OBVIOUS
    <3>4. space'[n] = s /\ s # 0 /\ S \subseteq spaces'[s].vertices
      BY <1>1, <3>1, <3>2, <3>3
    <3>5. mode' = "edge" /\ n \notin torn' => S \subseteq Postings(space[n])'
      BY <1>1, <3>2
    <3> QED BY <3>4, <3>5 DEF Has
  <2> QED BY <2>1, <2>2
<1>5. ASSUME NEW w \in Workers, Saves(w, n)'
      PROVE  Saves(w, n) /\ work'[w] = work[w]
  <2>1. work'[w] = work[w] /\ On(w, n)
    BY <1>1, <1>5 DEF Saves, AdminOps
  <2> QED BY <1>5, <2>1 DEF Saves
<1>6. AckedInv(n)'
  <2> SUFFICES ASSUME NEW A, A = promise'[n].acked,
                      \/ n \in loaded'
                      \/ \E w \in Workers : Saves(w, n)' /\ work'[w].op = "release"
               PROVE  Has(n, A)' /\ promise'[n].kept \subseteq A
    BY DEF AckedInv, Has
  <2>1. Has(n, promise[n].acked) /\ promise[n].kept \subseteq promise[n].acked
    <3>1. n \in loaded \/ (\E w \in Workers : Saves(w, n) /\ work[w].op = "release")
      BY <1>1, <1>5
    <3> QED BY <3>1 DEF NameInv, AckedInv
  <2>2. promise'[n].kept \subseteq A
    BY <1>2, <2>1
  <2>3. PICK B : B = promise[n].acked
    OBVIOUS
  <2>4. Has(n, B \cap A)'
    <3>1. Has(n, B \cap A)
      BY <2>1, <2>3 DEF Has
    <3> QED BY <1>3, <1>4, <2>3, <3>1
  <2>5. ASSUME NEW y \in B \cap A
        PROVE  Has(n, {y})'
    BY <2>4, <2>5 DEF Has
  <2>6. \A y \in A : Has(n, {y})'
    BY <1>2, <2>3, <2>5
  <2>7. Has(n, A)'
    BY <2>6 DEF Has
  <2> QED BY <2>2, <2>7
<1>7. LoadInv(n)'
  <2> SUFFICES ASSUME NEW w \in Workers, On(w, n)', work'[w].op = "load", NEW K, K = promise'[n].kept
               PROVE  /\ work'[w].at = "load vertex" /\ mode' = "edge" /\ n \notin torn' /\ K # {} =>
                           space'[n] # 0 /\ K \subseteq Postings(space[n])'
                      /\ work'[w].at = "flag" => Has(n, K)'
    BY DEF LoadInv, Has
  <2>1. On(w, n) /\ work'[w] = work[w]
    BY <1>1 DEF AdminOps
  <2>2. ASSUME work'[w].at = "load vertex", mode' = "edge", n \notin torn', K # {}
        PROVE  space'[n] # 0 /\ K \subseteq Postings(space[n])'
    <3>1. space[n] # 0 /\ promise[n].kept \subseteq Postings(space[n])
      BY <1>1, <1>2, <2>1, <2>2 DEF NameInv, LoadInv
    <3>2. K \subseteq Postings(space[n])'
      BY <1>1, <1>2, <1>3, <2>2, <3>1 DEF Beside
    <3> QED BY <1>1, <3>1, <3>2
  <2>3. ASSUME work'[w].at = "flag"
        PROVE  Has(n, K)'
    <3>1. Has(n, promise[n].kept)
      BY <2>1, <2>3 DEF NameInv, LoadInv
    <3>2. Has(n, K)
      BY <1>2, <3>1 DEF Has
    <3> QED BY <1>3, <1>4, <3>2
  <2> QED BY <2>2, <2>3
<1>8. EmptyInv(n)'
  <2> SUFFICES ASSUME NEW w \in Workers, On(w, n)', work'[w].op \in {"create", "delete"}
               PROVE  Promised(n)' = {}
    BY DEF EmptyInv
  <2>1. On(w, n) /\ work'[w] = work[w]
    BY <1>1 DEF AdminOps
  <2>2. Promised(n) = {}
    BY <2>1 DEF NameInv, EmptyInv
  <2>3. AdminOn(n)
    BY <2>1 DEF AdminOn, Admins, AdminOps, On
  <2>4. promise[n].calls = {}
    BY <2>3 DEF NameInv, CallsInv
  <2> QED BY <1>2, <2>2, <2>4 DEF Promised
<1>9. KeptInv(n)'
  <2>1. \A object : (Readable(n, object)' <=> Readable(n, object)) /\ bucket'[n][object] = bucket[n][object]
    BY <1>1 DEF Readable
  <2>2. KeptInv(n)
    BY DEF NameInv
  <2> QED BY <1>1, <1>2, <2>1, <2>2 DEF KeptInv, InObject
<1>10. SaveInv(n)'
  <2>1. \A object : (Readable(n, object)' <=> Readable(n, object)) /\ bucket'[n][object] = bucket[n][object]
    BY <1>1 DEF Readable
  <2> SUFFICES ASSUME NEW w \in Workers, Saves(w, n)'
               PROVE  SaveOk(n, work[w], Salvage(w, n))'
    BY DEF SaveInv
  <2>2. Saves(w, n) /\ work'[w] = work[w]
    BY <1>5
  <2>3. PICK a, D, E : a = work[w] /\ D = Salvage(w, n) /\ E = D \ G
    OBVIOUS
  <2>4. work'[w] = a /\ SaveOk(n, a, D)
    BY <2>2, <2>3 DEF NameInv, SaveInv
  <2>5. (IF work'[w].op = "close" THEN promise'[n].kept ELSE promise'[n].saving) = E
    BY <1>2, <2>2, <2>3 DEF Salvage
  <2>6. SaveOk(n, a, E)'
    <3>1. promise'[n].kept \subseteq E /\ E \subseteq promise'[n].acked
      BY <1>2, <2>3, <2>4 DEF SaveOk
    <3>2. a.at = "inverted" /\ a.op # "close" => InObject(n, "vertex", E)'
      <4>1. a.at = "inverted" /\ a.op # "close" => InObject(n, "vertex", D)
        BY <2>4 DEF SaveOk
      <4> QED BY <2>1, <2>3, <4>1 DEF InObject
    <3>3. a.at = "vertex" /\ E # {} =>
            a.data # Unreadable /\ \A y \in E : MapOf(y.id) < a.map => y \in a.data
      BY <2>3, <2>4 DEF SaveOk
    <3>4. a.at = "inverted" /\ a.map = MapShards /\ E # {} =>
            a.data # Unreadable /\ (mode' = "edge" /\ n \notin torn' => E \subseteq a.data)
      BY <1>1, <2>3, <2>4 DEF SaveOk
    <3>5. (a.op # "release" => n \in loaded') /\ (a.at # "meta" => a.to = space'[n])
      BY <1>1, <2>4 DEF SaveOk
    <3> QED BY <3>1, <3>2, <3>3, <3>4, <3>5 DEF SaveOk
  <2> QED BY <2>4, <2>5, <2>6 DEF Salvage, SaveOk
<1> QED BY <1>6, <1>7, <1>8, <1>9, <1>10

-----------------------------------------------------------------------------
(* Calls on vertices, beside every collection                              *)

\* What a call on vertices takes from a shard or from a map is what it is to take: an
\* id that edge's remove has found has the tag it removes.
LEMMA TakesWhat ==
  ASSUME TypeInv, KnownInv, NEW w \in Workers, Busy(w), work[w].op \in {"change", "remove"},
         NEW y \in Vertex, Seen(y), y.id = work[w].vertex.id
  PROVE  Takes(work[w], y)
<1>1. CASE work[w].op = "change" \/ mode # "edge"
  BY <1>1 DEF Takes
<1>2. CASE work[w].op = "remove" /\ mode = "edge"
  <2>1. IsOf(work[w].vertex.id, work[w].vertex.tag)
    BY <1>2 DEF KnownInv, Aims
  <2> QED BY <1>2, <2>1 DEF IsOf, Takes
<1> QED BY <1>1, <1>2

\* A shard keeps a vertex that the call which has it does not take, ...
LEMMA ShardSpares ==
  ASSUME TypeInv, KnownInv, NEW w \in Workers, Vertexes(w), NEW c \in 1 .. Len(shards), NEW y \in shards[c],
         work[w].shard = c => ~ Takes(work[w], y)
  PROVE  y \in shards'[c]
<1>1. PICK s : s = work[w].to
  OBVIOUS
<1>2. VertexRest(w, s) /\ Busy(w)
  BY <1>1, VertexRests, VertexPledges DEF Vertexes
<1>3. y \in Vertex /\ Seen(y)
  BY MemoryTyped DEF Seen
<1>4. CASE RemovePosting(w) /\ c = work[w].shard
  <2>1. y.id # work[w].vertex.id
    BY <1>2, <1>3, <1>4, TakesWhat DEF RemovePosting, At
  <2> QED BY <1>2, <1>4, <2>1 DEF VertexRest
<1>5. CASE ~ (RemovePosting(w) /\ c = work[w].shard)
  BY <1>2, <1>5 DEF VertexRest
<1> QED BY <1>4, <1>5

\* ... and so do the maps of a space and its index, unless the index was torn.
LEMMA SpaceSpares ==
  ASSUME TypeInv, TypeInv', Apart, KnownInv, NEW w \in Workers, Vertexes(w),
         NEW r \in 1 .. Len(spaces), NEW n, NEW y, work[w].to = r => work[w].name = n /\ ~ Takes(work[w], y)
  PROVE  /\ y \in spaces[r].vertices => y \in spaces'[r].vertices
         /\ mode = "edge" /\ n \notin torn' /\ y \in Postings(r) => y \in Postings(r)'
<1>1. PICK s, id : s = work[w].to /\ id = work[w].vertex.id
  OBVIOUS
<1>2. VertexRest(w, s) /\ Busy(w)
  BY <1>1, VertexRests, VertexPledges DEF Vertexes
<1>3. spaces[r] \in SpaceType /\ Len(spaces) \in Nat /\ Len(shards) \in Nat
  BY MemoryTyped
<1>5. ASSUME s = r, y \in Vertex, Seen(y), work[w].op \in {"change", "remove"}
      PROVE  y.id # id
  BY <1>1, <1>2, <1>5, TakesWhat
<1>6. ASSUME y \in spaces[r].vertices
      PROVE  y \in spaces'[r].vertices
  <2>1. y \in Vertex /\ Seen(y)
    BY <1>3, <1>6 DEF SpaceType, Seen
  <2>2. CASE r # s
    BY <1>2, <1>3, <1>6, <2>2 DEF VertexRest
  <2>3. CASE r = s /\ work[w].op \in {"change", "remove"}
    BY <1>1, <1>2, <1>5, <1>6, <2>1, <2>3 DEF VertexRest
  <2>4. CASE r = s /\ work[w].op \notin {"change", "remove"}
    BY <1>1, <1>2, <1>6, <2>4 DEF VertexRest, RemoveErase, MultiRemove, ChangeStore, At
  <2> QED BY <2>2, <2>3, <2>4
<1>7. ASSUME mode = "edge", n \notin torn', y \in Postings(r)
      PROVE  y \in Postings(r)'
  <2>1. PICK c : c = Column(r) /\ c \in 1 .. Len(shards) /\ y \in shards[c]
    BY <1>3, <1>7 DEF Postings, Column, TypeInv, Bounds, SpaceType
  <2>2. Column(r)' = c
    <3>1. CASE r # s
      BY <1>2, <1>3, <2>1, <3>1 DEF VertexRest
    <3>2. CASE r = s /\ RemoveColumnShard(w)
      <4>1. torn' = torn \cup {n}
        BY <1>1, <1>7, <3>2 DEF RemoveColumnShard
      <4> QED BY <1>7, <4>1
    <3>3. CASE r = s /\ ~ RemoveColumnShard(w)
      BY <1>2, <1>3, <2>1, <3>3 DEF VertexRest
    <3> QED BY <3>1, <3>2, <3>3
  <2>3. ASSUME work[w].shard = c PROVE ~ Takes(work[w], y)
    <3>1. ShardApart(w)
      BY <1>2 DEF Apart
    <3>2. Column(r) = work[w].shard /\ Column(r) # 0
      BY <1>3, <2>1, <2>3
    <3>3. r = work[w].to
      BY <3>1, <3>2 DEF ShardApart
    <3> QED BY <3>3
  <2>4. y \in shards'[c]
    BY <2>1, <2>3, ShardSpares
  <2>5. Postings(r)' = shards'[c]
    BY <1>3, <2>1, <2>2 DEF Postings, Column
  <2> QED BY <2>4, <2>5
<1> QED BY <1>6, <1>7

\* So a vertex that it does not take stays where it is, in the maps and in the index,
\* unless the index was torn.
LEMMA VertexSpares ==
  ASSUME TypeInv, TypeInv', Apart, KnownInv, NEW w \in Workers, Vertexes(w),
         NEW n \in Names, space[n] # 0, NEW y, On(w, n) => ~ Takes(work[w], y)
  PROVE  /\ y \in spaces[space[n]].vertices => y \in spaces'[space[n]].vertices
         /\ mode = "edge" /\ n \notin torn' /\ y \in Postings(space[n]) => y \in Postings(space[n])'
<1>1. PICK r : r = space[n]
  OBVIOUS
<1>2. Busy(w) /\ space' = space
  BY VertexPledges, VertexQuiet DEF Vertexes
<1>3. r \in 1 .. Len(spaces)
  BY <1>1, MemoryTyped
<1>4. work[w].to = r => work[w].name = n /\ ~ Takes(work[w], y)
  BY <1>1, <1>2 DEF Apart, SpaceApart, On
<1>5. /\ y \in spaces[r].vertices => y \in spaces'[r].vertices
      /\ mode = "edge" /\ n \notin torn' /\ y \in Postings(r) => y \in Postings(r)'
  BY <1>3, <1>4, SpaceSpares
<1>6. space'[n] = r
  BY <1>1, <1>2
<1> QED BY <1>1, <1>5, <1>6 DEF Postings

\* What an acknowledged change has stored, a filter finds in edge as well.
LEMMA CallStores ==
  ASSUME Shape, TypeInv, TypeInv', Apart, ServedInv, OneInv, Withheld, NEW n \in Names, CallsInv(n),
         NEW w \in promise[n].calls, ChangeStore(w), work'[w] = Idle, NEW x, x = work[w].vertex
  PROVE  Has(n, {x})'
<1>1. /\ w \in Workers /\ ChangeStore(w) /\ On(w, n) /\ Busy(w)
      /\ spaces'[space[n]].vertices = {y \in spaces[space[n]].vertices : y.id # x.id} \cup {x}
  <2>1. w \in Workers /\ On(w, n) /\ Busy(w)
    BY CallSound DEF On
  <2>2. Vertexes(w) /\ ~ ChangePanics(w)
    BY DEF Vertexes, ChangeStep, ChangeStore, ChangePanics, At
  <2>3. spaces'[space[n]].vertices =
          {y \in spaces[space[n]].vertices : y.id # work[w].vertex.id} \cup {work[w].vertex}
    BY <2>2, CallSucceeds
  <2> QED BY <2>1, <2>3
<1>2. work[w].to = space[n] /\ space[n] # 0 /\ work[w].at = "store"
      /\ (mode = "edge" /\ n \notin torn => x \in Postings(space[n]))
  BY <1>1 DEF CallsInv, ChangeStore, At
<1>3. /\ space' = space /\ mode' = mode /\ shards' = shards /\ torn' = torn
  BY <1>1 DEF ChangeStore, UnchangedByIndex
<1>4. PICK s : s = space[n]
  OBVIOUS
<1>5. VertexRest(w, s)
  BY <1>1, <1>2, <1>4, VertexRests DEF ChangeStep
<1>6. Len(shards) \in Nat
  BY MemoryTyped
<1>7. Column(s)' = Column(s)
  BY <1>1, <1>2, <1>3, <1>5, <1>6 DEF VertexRest, RemoveColumnShard, At
<1>8. mode' = "edge" /\ n \notin torn' => x \in Postings(space[n])'
  <2>1. mode = "edge" /\ n \notin torn => x \in Postings(s)
    BY <1>2, <1>4
  <2>2. Postings(s)' = Postings(s)
    BY <1>3, <1>7 DEF Postings, Column
  <2> QED BY <1>3, <1>4, <2>1, <2>2 DEF Postings
<1>9. space'[n] = s /\ s # 0 /\ x \in spaces'[s].vertices
  BY <1>1, <1>2, <1>3, <1>4
<1> QED BY <1>8, <1>9 DEF Has

\* So a step of such a call is beside every collection.
LEMMA VertexBeside ==
  ASSUME Shape, TypeInv, TypeInv', Apart, KnownInv, ServedInv, OneInv, Withheld,
         NEW n \in Names, CallsInv(n), NEW w \in Workers, Vertexes(w)
  PROVE  Beside(n)
<1>1. /\ mode' = mode /\ space' = space /\ bucket' = bucket /\ loaded' = loaded
      /\ (n \in torn => n \in torn')
  BY VertexQuiet
<1>2. PICK m : m = work[w].name
  OBVIOUS
<1>3. m \in Names /\ Busy(w) /\ work[w].op \in VertexOps
  BY <1>2, VertexPledges DEF Vertexes
<1>4. \A v \in Workers : On(v, n)' /\ work'[v].op \in AdminOps => On(v, n) /\ work'[v] = work[v]
  <2> SUFFICES ASSUME NEW v \in Workers, On(v, n)', work'[v].op \in AdminOps
               PROVE  On(v, n) /\ work'[v] = work[v]
    OBVIOUS
  <2>1. Others(w) /\ (work'[w] = Idle \/ Stays(w))
    BY VertexCourse DEF Vertexes
  <2>2. v # w
    BY <1>3, <2>1 DEF Stays, On, Busy, VertexOps, AdminOps
  <2>3. work'[v] = work[v]
    BY <2>1, <2>2 DEF Others
  <2> QED BY <2>3 DEF On, Busy
<1>5. /\ promise'[n].kept = promise[n].kept /\ promise'[n].saving = promise[n].saving
      /\ promise[n].acked \subseteq promise'[n].acked
      /\ \A y \in promise'[n].acked : \/ y \in promise[n].acked
                                      \/ promise[n].calls # {} /\ Has(n, {y})'
  <2>1. CASE promise'[n] = promise[n]
    BY <2>1
  <2>2. CASE m = n /\ Pledge(m, promise[m].calls, promise[m].acked, promise[m].saving, promise[m].kept)
    BY <2>2 DEF Pledge
  <2>3. CASE /\ m = n /\ ChangeStore(w) /\ w \in promise[m].calls
             /\ Pledge(m, promise[m].calls \ {w}, promise[m].acked \cup {work[w].vertex},
                       promise[m].saving, promise[m].kept)
    <3>1. PICK x : x = work[w].vertex
      OBVIOUS
    <3>2. work'[w] = Idle
      <4>1. Return(w)
        BY <2>3 DEF ChangeStore
      <4> QED BY <4>1, ReturnEnds DEF Ends, TypeInv
    <3>3. Has(n, {x})'
      BY <2>3, <3>1, <3>2, CallStores
    <3> QED BY <2>3, <3>1, <3>3 DEF Pledge
  <2>4. CASE m # n
    <3>1. promise' = promise \/ (\A k \in Names \ {m} : promise'[k] = promise[k])
      BY <1>2, VertexPledges DEF Vertexes, Pledge
    <3> QED BY <2>1, <2>4, <3>1
  <2>5. CASE m = n /\ Pledge(m, promise[m].calls \ {w}, promise[m].acked, promise[m].saving, promise[m].kept)
    BY <2>5 DEF Pledge
  <2> QED BY <1>2, <2>1, <2>2, <2>3, <2>4, <2>5, VertexPledges DEF Vertexes
<1>6. ASSUME NEW y \in Promised(n), space[n] # 0
      PROVE  /\ y \in spaces[space[n]].vertices => y \in spaces'[space[n]].vertices
             /\ mode = "edge" /\ n \notin torn' /\ y \in Postings(space[n]) => y \in Postings(space[n])'
  <2>1. On(w, n) => ~ Takes(work[w], y)
    BY <1>6 DEF Withheld
  <2>2. y \in spaces[space[n]].vertices => y \in spaces'[space[n]].vertices
    BY <1>6, <2>1, VertexSpares
  <2>3. mode = "edge" /\ n \notin torn' /\ y \in Postings(space[n]) => y \in Postings(space[n])'
    BY <1>6, <2>1, VertexSpares
  <2> QED BY <2>2, <2>3
<1>7. \E G : /\ promise'[n].kept = promise[n].kept \ G /\ promise'[n].saving = promise[n].saving \ G
             /\ promise[n].acked \ G \subseteq promise'[n].acked
             /\ \A y \in promise'[n].acked :
                  \/ y \in promise[n].acked \ G
                  \/ promise[n].calls # {} /\ Has(n, {y})'
  <2>1. PICK G : G = {}
    OBVIOUS
  <2>2. /\ promise'[n].kept = promise[n].kept \ G /\ promise'[n].saving = promise[n].saving \ G
        /\ promise[n].acked \ G \subseteq promise'[n].acked
        /\ \A y \in promise'[n].acked :
                  \/ y \in promise[n].acked \ G
                  \/ promise[n].calls # {} /\ Has(n, {y})'
    BY <1>5, <2>1
  <2> QED BY <2>2
<1> QED BY <1>1, <1>4, <1>6, <1>7 DEF Beside

\* A call on a collection changes the flags of no other.
LEMMA AdminFlags ==
  ASSUME NEW w \in Workers, AdminStep(w), NEW n, n = work[w].name
  PROVE  mode' = mode /\ torn' = torn /\ \A m \in Names \ {n} : m \in loaded' <=> m \in loaded
<1>1. CASE \/ CreateBucket(w) \/ CreateSpace(w) \/ CreateUndoBucket(w) \/ DestroySpace(w) \/ DeleteBucket(w)
           \/ LoadFill(w) \/ LoadInverted(w) \/ LoadVertex(w)
           \/ SaveMeta(w) \/ SaveVertexMap(w) \/ SaveVertexFails(w) \/ SaveInverted(w)
  BY <1>1 DEF CreateBucket, CreateSpace, CreateUndoBucket, DestroySpace, DeleteBucket, LoadFill, LoadInverted,
     LoadVertex, SaveMeta, SaveVertexMap, SaveVertexFails, SaveInverted, flags
<1>2. CASE CreateUndoFlags(w) \/ SetFlags(w) \/ DeleteFlags(w) \/ ReleaseUnflag(w)
  BY <1>2 DEF CreateUndoFlags, SetFlags, DeleteFlags, ReleaseUnflag, DestroyFlags, flags
<1>3. ASSUME Saved(w), work[w].op \in Savers
      PROVE  \A m \in Names \ {n} : m \in loaded' <=> m \in loaded
  BY <1>3 DEF Saved, Savers
<1>4. CASE SaveVertexPut(w)
  <2>1. work[w].op \in Savers /\ mode' = mode /\ torn' = torn /\ (Saved(w) \/ loaded' = loaded)
    BY <1>4 DEF SaveVertexPut, At
  <2> QED BY <1>3, <2>1
<1>5. CASE SaveInvertedPut(w)
  <2>1. work[w].op \in Savers /\ mode' = mode /\ torn' = torn /\ (Saved(w) \/ loaded' = loaded)
    BY <1>5 DEF SaveInvertedPut, At
  <2> QED BY <1>3, <2>1
<1> QED BY <1>1, <1>2, <1>4, <1>5 DEF AdminStep

\* A step that leaves a collection alone, and at most withdraws some of what it promises.
LEMMA AloneBeside ==
  ASSUME NEW n \in Names, NEW G,
         mode' = mode, space'[n] = space[n], bucket'[n] = bucket[n], n \in loaded' <=> n \in loaded, torn' = torn,
         \A v \in Workers : On(v, n)' /\ work'[v].op \in AdminOps => On(v, n) /\ work'[v] = work[v],
         promise'[n].kept = promise[n].kept \ G, promise'[n].saving = promise[n].saving \ G,
         promise'[n].acked = promise[n].acked \ G,
         space[n] # 0 => /\ spaces'[space[n]].vertices = spaces[space[n]].vertices
                         /\ Postings(space[n])' = Postings(space[n])
  PROVE  Beside(n)
<1>1. \A y \in Promised(n) \cap Promised(n)' : space[n] # 0 =>
       /\ y \in spaces[space[n]].vertices => y \in spaces'[space[n]].vertices
       /\ mode = "edge" /\ n \notin torn' /\ y \in Postings(space[n]) => y \in Postings(space[n])'
  OBVIOUS
<1>2. \E H : /\ promise'[n].kept = promise[n].kept \ H /\ promise'[n].saving = promise[n].saving \ H
             /\ promise[n].acked \ H \subseteq promise'[n].acked
             /\ \A y \in promise'[n].acked :
                  \/ y \in promise[n].acked \ H
                  \/ promise[n].calls # {} /\ Has(n, {y})'
  <2>1. /\ promise'[n].kept = promise[n].kept \ G /\ promise'[n].saving = promise[n].saving \ G
        /\ promise[n].acked \ G \subseteq promise'[n].acked
        /\ \A y \in promise'[n].acked :
                  \/ y \in promise[n].acked \ G
                  \/ promise[n].calls # {} /\ Has(n, {y})'
    OBVIOUS
  <2> QED BY <2>1
<1> QED BY <1>1, <1>2 DEF Beside

\* A step of a call on another collection.
LEMMA AdminLeaves ==
  ASSUME NoRecord, TypeInv, Apart, NEW w \in Workers, AdminStep(w), NEW n \in Names, work[w].name # n
  PROVE  /\ space'[n] = space[n] /\ bucket'[n] = bucket[n] /\ promise'[n] = promise[n]
         /\ (n \in loaded' <=> n \in loaded) /\ torn' = torn /\ mode' = mode
         /\ space[n] # 0 => /\ spaces'[space[n]].vertices = spaces[space[n]].vertices
                            /\ Column(space[n])' = Column(space[n])
                            /\ Postings(space[n])' = Postings(space[n])
<1>1. PICK m : m = work[w].name
  OBVIOUS
<1>2. /\ mode' = mode /\ torn' = torn /\ (n \in loaded' <=> n \in loaded)
  BY <1>1, AdminFlags
<1>3. m \in Names /\ Busy(w) /\ work[w].op \in AdminOps
  BY <1>1, AdminPledges
<1>4. AdminRest(w, m)
  BY <1>1, AdminRests
<1>5. bucket'[n] = bucket[n]
  BY <1>1, AdminBucket DEF BucketOf
<1>6. promise'[n] = promise[n]
  <2>1. promise' = promise \/ (\A k \in Names \ {m} : promise'[k] = promise[k])
    BY <1>1, AdminPledges DEF Pledge
  <2> QED BY <1>1, <2>1
<1>7. space'[n] = space[n]
  BY <1>1, <1>4 DEF AdminRest
<1>8. ASSUME NEW r, r = space[n], r # 0
      PROVE  /\ spaces'[r].vertices = spaces[r].vertices
             /\ Column(r)' = Column(r) /\ Postings(r)' = Postings(r)
  <2>1. r \in 1 .. Len(spaces) /\ r # space[m]
    BY <1>1, <1>3, <1>8, MemoryTyped DEF Apart
  <2>2. spaces'[r].vertices = spaces[r].vertices /\ Column(r)' = Column(r)
    BY <1>4, <2>1 DEF AdminRest
  <2>3. Postings(r)' = Postings(r)
    <3>1. Column(r) # 0 => Column(r) \in 1 .. Len(shards)
      BY <2>1, MemoryTyped DEF TypeInv, Bounds, SpaceType, Column
    <3>2. Column(r) # 0 => shards'[Column(r)] = shards[Column(r)]
      BY <1>4, <3>1 DEF AdminRest
    <3> QED BY <2>2, <3>2 DEF Postings, Column
  <2> QED BY <2>2, <2>3
<1>9. space[n] # 0 => /\ spaces'[space[n]].vertices = spaces[space[n]].vertices
                      /\ Column(space[n])' = Column(space[n])
                      /\ Postings(space[n])' = Postings(space[n])
  <2>1. PICK r : r = space[n]
    OBVIOUS
  <2>2. r # 0 => /\ spaces'[r].vertices = spaces[r].vertices
                 /\ Column(r)' = Column(r) /\ Postings(r)' = Postings(r)
    BY <1>8, <2>1
  <2> QED BY <1>7, <2>1, <2>2 DEF Column, Postings
<1> QED BY <1>2, <1>5, <1>6, <1>7, <1>9

\* ... is beside this one, too.
LEMMA AdminBeside ==
  ASSUME NoRecord, TypeInv, Apart, NEW w \in Workers, AdminStep(w), NEW n \in Names, work[w].name # n
  PROVE  Beside(n)
<1>1. \A v \in Workers : On(v, n)' /\ work'[v].op \in AdminOps => On(v, n) /\ work'[v] = work[v]
  <2> SUFFICES ASSUME NEW v \in Workers, On(v, n)', work'[v].op \in AdminOps
               PROVE  On(v, n) /\ work'[v] = work[v]
    OBVIOUS
  <2>1. Others(w) /\ (work'[w] = Idle \/ But(w, {"at", "to", "map", "data"}))
    BY AdminCourse
  <2>2. v # w
    BY <2>1 DEF But, On, Busy, CallFields
  <2>3. work'[v] = work[v]
    BY <2>1, <2>2 DEF Others
  <2> QED BY <2>3 DEF On, Busy
<1>2. PICK G : G = {}
  OBVIOUS
<1>3. /\ promise'[n].kept = promise[n].kept \ G /\ promise'[n].saving = promise[n].saving \ G
      /\ promise'[n].acked = promise[n].acked \ G
  BY <1>2, AdminLeaves
<1>4. /\ space'[n] = space[n] /\ bucket'[n] = bucket[n]
      /\ (n \in loaded' <=> n \in loaded) /\ torn' = torn /\ mode' = mode
      /\ space[n] # 0 => /\ spaces'[space[n]].vertices = spaces[space[n]].vertices
                         /\ Postings(space[n])' = Postings(space[n])
  BY AdminLeaves
<1> QED BY <1>1, <1>3, <1>4, AloneBeside

\* A call that begins, on vertices or on another collection, is beside this one.
LEMMA BeginFlags ==
  ASSUME NEW w \in Workers, NEW m \in Names, Begin(w, m)
  PROVE  loaded' = loaded \/ (ReleaseBegin(w, m) /\ \A n \in Names \ {m} : n \in loaded' <=> n \in loaded)
BY DEF Begin, CreateBegin, DeleteBegin, LoadBegin, ReleaseBegin, FlushBegin, CloseCollection, EdgeRemoveBegin,
   MultiRemoveBegin, RemoveBegin, SearchBegin, ChangeBegin, flags

\* A call that begins is beside every collection but the one it administers.
LEMMA BeginBeside ==
  ASSUME TypeInv, NEW w \in Workers, NEW m \in Names, Begin(w, m), NEW n \in Names,
         n = m => work'[w].op \in VertexOps
  PROVE  Beside(n)
<1>1. UNCHANGED <<mode, bucket, space, spaces, shards, torn>>
  BY BeginStarts
<1>2. PICK op \in Ops : \E at : \E v : Starts(w, op, at, m, v)
  BY BeginStarts
<1>3. Others(w) /\ work'[w].name = m
  BY <1>2 DEF Starts
<1>4. \A v \in Workers : On(v, n)' /\ work'[v].op \in AdminOps => On(v, n) /\ work'[v] = work[v]
  <2> SUFFICES ASSUME NEW v \in Workers, On(v, n)', work'[v].op \in AdminOps
               PROVE  On(v, n) /\ work'[v] = work[v]
    OBVIOUS
  <2>1. v # w
    BY <1>3 DEF On, VertexOps, AdminOps
  <2>2. work'[v] = work[v]
    BY <1>3, <2>1 DEF Others
  <2> QED BY <2>2 DEF On, Busy
<1>5. n \in loaded' <=> n \in loaded
  <2>1. CASE n # m
    BY <2>1, BeginFlags
  <2>2. CASE n = m
    <3>1. ~ ReleaseBegin(w, m)
      <4>1. ASSUME ReleaseBegin(w, m) PROVE work'[w].op = "release"
        <5>1. work' = [work EXCEPT ![w] = Call("release", "meta", m)]
          BY <4>1 DEF ReleaseBegin, BeginAdmin
        <5> QED BY <5>1 DEF TypeInv, WorkTyped, Call
      <4> QED BY <2>2, <4>1 DEF VertexOps
    <3> QED BY <3>1, BeginFlags
  <2> QED BY <2>1, <2>2
<1>6. \E G : /\ promise'[n].kept = promise[n].kept \ G /\ promise'[n].saving = promise[n].saving \ G
             /\ promise'[n].acked = promise[n].acked \ G
  <2>1. CASE promise'[n] = promise[n]
    <3>1. PICK G : G = {}
      OBVIOUS
    <3> QED BY <2>1, <3>1
  <2>2. CASE n # m
    <3>1. promise'[n] = promise[n]
      BY <2>2, BeginPledges DEF Less, Pledge
    <3> QED BY <2>1, <3>1
  <2>3. CASE n = m
    <3>1. PromisesTyped /\ promise[n].acked \subseteq Vertex /\ promise[n].saving \subseteq Vertex
          /\ promise[n].kept \subseteq Vertex
      BY DEF TypeInv, PromisesTyped, PromiseTyped
    <3>2. CASE SearchFor(w, n)
      <4>1. Pledge(n, promise[n].calls, promise[n].acked, promise[n].saving, promise[n].kept)
        BY <3>1, <3>2, PledgeSought DEF SearchFor, SearchBegin
      <4>2. PICK G : G = {}
        OBVIOUS
      <4> QED BY <4>1, <4>2 DEF Pledge
    <3>3. ASSUME NEW id \in 1 .. MaxIds, NEW t \in Tags, ChangeBegin(w, n, id, t)
          PROVE  \E G : /\ promise'[n].kept = promise[n].kept \ G /\ promise'[n].saving = promise[n].saving \ G
                        /\ promise'[n].acked = promise[n].acked \ G
      <4>1. PICK C : /\ Pledge(n, C, {y \in promise[n].acked : y.id # id},
                               {y \in promise[n].saving : y.id # id}, {y \in promise[n].kept : y.id # id})
                     /\ \/ C = {u \in promise[n].calls : work[u].vertex.id # id}
                        \/ /\ C = {u \in promise[n].calls : work[u].vertex.id # id} \cup {w}
                           /\ ~ AdminOn(n)
                           /\ \A v \in OthersOn(w, n) : ~ Collides(v, [id |-> id, tag |-> t])
        BY <3>1, <3>3, PledgeChanged
      <4>2. PICK G : G = {y \in Vertex : y.id = id}
        OBVIOUS
      <4> QED BY <3>1, <4>1, <4>2 DEF Pledge
    <3>4. ASSUME NEW t \in Tags, EdgeRemoveBegin(w, n, t)
          PROVE  \E G : /\ promise'[n].kept = promise[n].kept \ G /\ promise'[n].saving = promise[n].saving \ G
                        /\ promise'[n].acked = promise[n].acked \ G
      <4>1. Pledge(n, {u \in promise[n].calls : work[u].vertex.tag # t}, {y \in promise[n].acked : y.tag # t},
                   {y \in promise[n].saving : y.tag # t}, {y \in promise[n].kept : y.tag # t})
        BY <3>1, <3>4, PledgeTagRemoved DEF EdgeRemoveBegin, RemoveBegin
      <4>2. PICK G : G = {y \in Vertex : y.tag = t}
        OBVIOUS
      <4> QED BY <3>1, <4>1, <4>2 DEF Pledge
    <3>5. ASSUME NEW i \in 1 .. MaxIds, MultiRemoveBegin(w, n, i)
          PROVE  \E G : /\ promise'[n].kept = promise[n].kept \ G /\ promise'[n].saving = promise[n].saving \ G
                        /\ promise'[n].acked = promise[n].acked \ G
      <4>1. Pledge(n, {u \in promise[n].calls : work[u].vertex.id # i}, {y \in promise[n].acked : y.id # i},
                   {y \in promise[n].saving : y.id # i}, {y \in promise[n].kept : y.id # i})
        BY <3>1, <3>5, PledgeIdRemoved DEF MultiRemoveBegin, RemoveBegin
      <4>2. PICK G : G = {y \in Vertex : y.id = i}
        OBVIOUS
      <4> QED BY <3>1, <4>1, <4>2 DEF Pledge
    <3> QED BY <2>3, <3>2, <3>3, <3>4, <3>5, BeginKinds DEF VertexOps, AdminOps
  <2> QED BY <2>2, <2>3
<1>7. PICK G : /\ promise'[n].kept = promise[n].kept \ G /\ promise'[n].saving = promise[n].saving \ G
               /\ promise'[n].acked = promise[n].acked \ G
  BY <1>6
<1>8. /\ mode' = mode /\ space'[n] = space[n] /\ bucket'[n] = bucket[n] /\ torn' = torn
      /\ space[n] # 0 => /\ spaces'[space[n]].vertices = spaces[space[n]].vertices
                         /\ Postings(space[n])' = Postings(space[n])
  BY <1>1 DEF Postings
<1> QED BY <1>4, <1>5, <1>7, <1>8, AloneBeside

\* Neither does the process touch a collection when it stops taking calls or starts.
LEMMA ProcessBeside ==
  ASSUME NEW n \in Names, CloseBegin \/ Start \/ UNCHANGED vars
  PROVE  Beside(n)
<1>1. UNCHANGED <<mode, bucket, loaded, space, spaces, shards, work, torn, promise>>
  BY DEF CloseBegin, Start, vars, flags, memory
<1>2. PICK G : G = {}
  OBVIOUS
<1>3. /\ promise'[n].kept = promise[n].kept \ G /\ promise'[n].saving = promise[n].saving \ G
      /\ promise'[n].acked = promise[n].acked \ G
  BY <1>1, <1>2
<1>4. \A v \in Workers : On(v, n)' /\ work'[v].op \in AdminOps => On(v, n) /\ work'[v] = work[v]
  BY <1>1 DEF On, Busy
<1>5. /\ mode' = mode /\ space'[n] = space[n] /\ bucket'[n] = bucket[n] /\ torn' = torn
      /\ (n \in loaded' <=> n \in loaded)
      /\ space[n] # 0 => /\ spaces'[space[n]].vertices = spaces[space[n]].vertices
                         /\ Postings(space[n])' = Postings(space[n])
  BY <1>1 DEF Postings
<1> QED BY <1>3, <1>4, <1>5, AloneBeside

-----------------------------------------------------------------------------
(* The changes on their way                                                *)

\* How far such a change is.
CallOk(n, a) ==
  a.at # "enter" =>
    /\ a.to = space[n] /\ space[n] # 0
    /\ mode = "edge" /\ n \notin torn =>
         /\ a.at = "post" => a.shard = Column(space[n]) /\ Column(space[n]) # 0
         /\ a.at = "store" => a.vertex \in Postings(space[n])

\* The changes under way, said call by call.
LEMMA CallsAre ==
  ASSUME NEW n
  PROVE  /\ CallsInv(n) <=> /\ promise[n].calls # {} => n \in loaded /\ ~ AdminOn(n)
                            /\ \A u \in promise[n].calls : CallOk(n, work[u])
         /\ CallsInv(n)' <=> /\ promise'[n].calls # {} => n \in loaded' /\ ~ AdminOn(n)'
                             /\ \A u \in promise'[n].calls : \A a : a = work'[u] => CallOk(n, a)'
BY DEF CallsInv, CallOk

\* A step that leaves alone what a change has come to.
LEMMA CallKeeps ==
  ASSUME NEW n, NEW a, CallOk(n, a), mode' = mode, space'[n] = space[n], n \in torn => n \in torn',
         space[n] # 0 /\ mode = "edge" /\ n \notin torn' =>
           /\ a.at = "post" /\ a.shard = Column(space[n]) /\ Column(space[n]) # 0 =>
                Column(space[n])' = Column(space[n])
           /\ a.at = "store" /\ a.vertex \in Postings(space[n]) => a.vertex \in Postings(space[n])'
  PROVE  CallOk(n, a)'
<1> SUFFICES ASSUME a.at # "enter"
             PROVE  /\ a.to = space'[n] /\ space'[n] # 0
                    /\ mode' = "edge" /\ n \notin torn' =>
                         /\ a.at = "post" => a.shard = Column(space[n])' /\ Column(space[n])' # 0
                         /\ a.at = "store" => a.vertex \in Postings(space[n])'
  BY DEF CallOk
<1> QED BY DEF CallOk

\* A step on vertices leaves alone every other change, ...
LEMMA CallElsewhere ==
  ASSUME Shape, TypeInv, TypeInv', Apart, KnownInv, ServedInv, OneInv, Withheld, NEW n \in Names, CallsInv(n),
         NEW w \in Workers, Vertexes(w), NEW u \in promise[n].calls \ {w}, NEW a, a = work[u]
  PROVE  CallOk(n, a)'
<1>1. /\ mode' = mode /\ space' = space /\ (n \in torn => n \in torn')
      /\ torn' = torn \/ (RemoveColumnShard(w) /\ torn' = torn \cup {work[w].name})
  BY VertexQuiet
<1>2. CallOk(n, a)
  BY CallsAre
<1>3. u \in Workers /\ On(u, n) /\ work[u].op = "change"
  BY CallSound
<1>4. On(w, n) => ~ Takes(work[w], a.vertex)
  BY <1>3 DEF Withheld
<1>5. ASSUME space[n] # 0, a.vertex \in Postings(space[n]), mode = "edge", n \notin torn'
      PROVE  a.vertex \in Postings(space[n])'
  BY <1>4, <1>5, VertexSpares
<1>6. ASSUME NEW r, r = space[n], r # 0, a.at = "post", a.shard = Column(r), Column(r) # 0,
             mode = "edge", n \notin torn'
      PROVE  Column(r)' = Column(r)
  <2>1. PICK s : s = work[w].to
    OBVIOUS
  <2>2. VertexRest(w, s) /\ Busy(w) /\ r \in 1 .. Len(spaces) /\ Len(shards) \in Nat
    <3>1. VertexRest(w, s)
      BY <2>1, VertexRests DEF Vertexes
    <3>2. Busy(w)
      BY VertexPledges DEF Vertexes
    <3> QED BY <1>6, <3>1, <3>2, MemoryTyped
  <2>3. CASE r # s
    BY <2>2, <2>3 DEF VertexRest
  <2>4. CASE r = s /\ ~ RemoveColumnShard(w)
    BY <1>6, <2>2, <2>4 DEF VertexRest
  <2>5. CASE r = s /\ RemoveColumnShard(w)
    <3>1. work[w].name = n
      BY <1>6, <2>1, <2>2, <2>5 DEF Apart, SpaceApart
    <3>2. a.to = s
      BY <1>2, <1>6, <2>5 DEF CallOk
    <3>3. At(u, {"change"}, "post") /\ work[u].to = s /\ work[u].shard = spaces[s].column
      BY <1>3, <1>6, <2>5, <3>2 DEF At, On, Column
    <3>4. torn' = torn \cup {work[w].name}
      BY <1>3, <2>1, <2>5, <3>3 DEF RemoveColumnShard
    <3> QED BY <1>6, <3>1, <3>4
  <2> QED BY <2>3, <2>4, <2>5
<1>7. space[n] # 0 /\ mode = "edge" /\ n \notin torn' =>
        /\ a.at = "post" /\ a.shard = Column(space[n]) /\ Column(space[n]) # 0 =>
             Column(space[n])' = Column(space[n])
        /\ a.at = "store" /\ a.vertex \in Postings(space[n]) => a.vertex \in Postings(space[n])'
  <2>1. PICK r : r = space[n]
    OBVIOUS
  <2>2. Column(r)' = Column(space[n])' /\ Column(r) = Column(space[n])
    BY <1>1, <2>1 DEF Column
  <2> QED BY <1>5, <1>6, <2>1, <2>2
<1> QED BY <1>1, <1>2, <1>7, CallKeeps

\* ... and takes its own a step on: into the space of the name, to the shard of its
\* column, and into that shard.
LEMMA CallSteps ==
  ASSUME Shape, TypeInv, TypeInv', Apart, ServedInv, OneInv, Withheld, NEW n \in Names, CallsInv(n),
         NEW w \in promise[n].calls, Vertexes(w), work'[w] # Idle, NEW a, a = work'[w]
  PROVE  CallOk(n, a)'
<1>1. w \in Workers /\ On(w, n) /\ Busy(w) /\ work[w].name = n /\ work[w].op = "change" /\ CallOk(n, work[w])
  BY CallSound, CallsAre DEF On
<1>2. /\ mode' = mode /\ space' = space /\ (n \in torn => n \in torn')
  BY <1>1, VertexQuiet
<1>3. WorkTyped
  BY DEF TypeInv
<1>4. ChangeStep(w)
  BY <1>1, SearchMoves DEF Vertexes
<1>5. Enter(w) \/ ChangeColumn(w) \/ ChangePost(w)
  <2>1. ~ ChangeStore(w) /\ ~ ChangePanics(w)
    BY <1>1, <1>3, ReturnEnds DEF ChangeStore, ChangePanics, Ends
  <2> QED BY <1>1, <1>4, <2>1 DEF ChangeStep, RemoveColumn, RemoveSearch, RemoveNext, RemoveLock,
             RemoveFindColumn, RemovePosting, RemoveColumnShard, RemoveErase, MultiRemove, At
<1>6. CASE Enter(w)
  <2>1. Space(w) # 0
    BY <1>1, <1>3, <1>6, ReturnEnds DEF Enter, Ends
  <2>2. a.to = space[n] /\ (mode = "edge" => a.at = "column")
    <3>1. PICK at : /\ work' = [work EXCEPT ![w].to = Space(w), ![w].at = at]
                    /\ mode = "edge" => at = "column"
      <4>1. mode = "edge" => mode # "multi"
        OBVIOUS
      <4> QED BY <1>1, <1>6, <2>1, <4>1 DEF Enter
    <3>2. work'[w].to = Space(w) /\ work'[w].at = at
      BY <1>1, <1>3, <3>1, ToBut
    <3> QED BY <1>1, <3>1, <3>2 DEF Space
  <2> QED BY <1>1, <1>2, <2>1, <2>2 DEF CallOk, Space
<1>7. CASE ChangeColumn(w)
  <2>1. GetShard(w, "post") /\ work[w].at = "column"
    BY <1>1, <1>3, <1>7, ReturnEnds DEF ChangeColumn, Ends, At
  <2>2. PICK s : s = work[w].to
    OBVIOUS
  <2>3. s = space[n] /\ s # 0
    BY <1>1, <2>1, <2>2 DEF CallOk
  <2>4. /\ But(w, {"shard", "at"}) /\ a.at = "post" /\ Column(s)' = a.shard /\ Column(s)' # 0
    BY <1>1, <1>2, <2>1, <2>2, <2>3, GetShardDoes
  <2>5. a.to = s
    BY <2>2, <2>4 DEF But, CallFields
  <2>6. space'[n] = s
    BY <1>2, <2>3
  <2> QED BY <2>3, <2>4, <2>5, <2>6 DEF CallOk, Column
<1>8. CASE ChangePost(w)
  <2>1. Go(w, "store") /\ work[w].at = "post" /\ spaces' = spaces /\ torn' = torn
        /\ shards' = [shards EXCEPT ![work[w].shard] = shards[work[w].shard] \cup {work[w].vertex}]
    BY <1>8 DEF ChangePost, At
  <2>2. But(w, {"at"}) /\ a.at = "store"
    BY <1>1, <1>3, <2>1, GoBut
  <2>3. a.to = work[w].to /\ a.vertex = work[w].vertex
    BY <2>2 DEF But, CallFields
  <2>4. work[w].to = space[n] /\ space[n] # 0
        /\ (mode = "edge" /\ n \notin torn => work[w].shard = Column(space[n]) /\ Column(space[n]) # 0)
    BY <1>1, <2>1 DEF CallOk
  <2>5. ASSUME mode = "edge", n \notin torn, NEW r, r = space[n]
        PROVE  a.vertex \in Postings(r)'
    <3>1. PICK c : c = Column(r) /\ c = work[w].shard /\ c \in 1 .. Len(shards)
      <4>1. r \in 1 .. Len(spaces) /\ Column(r) \in Nat /\ Column(r) <= Len(shards) /\ Len(shards) \in Nat
        BY <2>4, <2>5, MemoryTyped DEF TypeInv, Bounds, SpaceType, Column
      <4> QED BY <2>4, <2>5, <4>1
    <3>2. shards'[c] = shards[c] \cup {a.vertex}
      <4>1. DOMAIN shards = 1 .. Len(shards)
        BY DEF TypeInv, ShardsTyped
      <4> QED BY <2>1, <2>3, <3>1, <4>1
    <3>3. Column(r)' = c /\ c # 0
      BY <2>1, <3>1 DEF Column
    <3> QED BY <3>2, <3>3 DEF Postings, Column
  <2>6. mode' = "edge" /\ n \notin torn' => a.vertex \in Postings(space[n])'
    <3>1. PICK r : r = space[n]
      OBVIOUS
    <3>2. mode = "edge" /\ n \notin torn => a.vertex \in Postings(r)'
      BY <2>5, <3>1
    <3>3. space'[n] = r
      BY <1>2, <3>1
    <3> QED BY <1>2, <2>1, <3>2, <3>3 DEF Postings
  <2>7. a.to = space'[n] /\ space'[n] # 0
    BY <1>2, <2>3, <2>4
  <2> QED BY <2>2, <2>6, <2>7 DEF CallOk
<1> QED BY <1>5, <1>6, <1>7, <1>8

\* A step that leaves a collection alone, with changes that end or begin.
LEMMA CallsKeep ==
  ASSUME NEW n, CallsInv(n), mode' = mode, space'[n] = space[n], torn' = torn,
         space[n] # 0 => /\ Column(space[n])' = Column(space[n])
                         /\ Postings(space[n])' = Postings(space[n]),
         promise'[n].calls # {} => n \in loaded' /\ ~ AdminOn(n)',
         \A u \in promise'[n].calls : (u \in promise[n].calls /\ work'[u] = work[u]) \/ work'[u].at = "enter"
  PROVE  CallsInv(n)'
<1>1. ASSUME NEW u \in promise'[n].calls, NEW a, a = work'[u]
      PROVE  CallOk(n, a)'
  <2>1. CASE u \in promise[n].calls /\ work'[u] = work[u]
    <3>1. CallOk(n, a)
      BY <1>1, <2>1, CallsAre
    <3>2. space[n] # 0 /\ mode = "edge" /\ n \notin torn' =>
           /\ a.at = "post" /\ a.shard = Column(space[n]) /\ Column(space[n]) # 0 =>
                Column(space[n])' = Column(space[n])
           /\ a.at = "store" /\ a.vertex \in Postings(space[n]) => a.vertex \in Postings(space[n])'
      OBVIOUS
    <3> QED BY <3>1, <3>2, CallKeeps
  <2>2. CASE a.at = "enter"
    BY <2>2 DEF CallOk
  <2> QED BY <1>1, <2>1, <2>2
<1> QED BY <1>1, CallsAre

\* Who is on a collection is still, but for the one that takes a step.
LEMMA AdminOnStays ==
  ASSUME NEW w \in Workers, Others(w), NEW n, AdminOn(n)',
         work'[w].op \notin AdminOps \ {"flush"} \/ work'[w].name # n \/ (w \in Admins /\ work'[w].op = work[w].op
                                                                    /\ work'[w].name = work[w].name)
  PROVE  AdminOn(n)
<1>1. PICK v \in Workers : work'[v].op \in AdminOps /\ work'[v].name = n /\ work'[v].op # "flush"
  BY DEF AdminOn, Admins
<1>2. work[v].op \in AdminOps /\ work[v].name = n /\ work[v].op # "flush"
  BY <1>1 DEF Others, Admins
<1> QED BY <1>2 DEF AdminOn, Admins

\* A call on vertices leaves every change under way where it can go on.
LEMMA VertexCalls ==
  ASSUME Shape, TypeInv, TypeInv', Apart, KnownInv, ServedInv, OneInv, Withheld, NEW n \in Names, CallsInv(n),
         NEW w \in Workers, Vertexes(w)
  PROVE  CallsInv(n)'
<1>1. loaded' = loaded
  BY VertexQuiet
<1>2. Others(w) /\ (work'[w] = Idle \/ Stays(w)) /\ work[w].op \in VertexOps
  <2>1. work[w].op \in VertexOps
    BY VertexPledges DEF Vertexes
  <2> QED BY <2>1, VertexCourse DEF Vertexes
<1>3. work'[w].op \notin AdminOps
  BY <1>2 DEF Stays, Idle, VertexOps, AdminOps
<1>4. AdminOn(n)' => AdminOn(n)
  BY <1>2, <1>3, AdminOnStays
<1>5. promise'[n].calls \subseteq promise[n].calls
  <2>1. PICK m : m = work[w].name
    OBVIOUS
  <2>2. \/ promise' = promise
        \/ Pledge(m, promise[m].calls, promise[m].acked, promise[m].saving, promise[m].kept)
        \/ Pledge(m, promise[m].calls \ {w}, promise[m].acked \cup {work[w].vertex},
                         promise[m].saving, promise[m].kept)
        \/ Pledge(m, promise[m].calls \ {w}, promise[m].acked, promise[m].saving, promise[m].kept)
    BY <2>1, VertexPledges DEF Vertexes
  <2> QED BY <2>2 DEF Pledge
<1>6. promise'[n].calls # {} => n \in loaded' /\ ~ AdminOn(n)'
  BY <1>1, <1>4, <1>5 DEF CallsInv
<1>7. ASSUME NEW u \in promise'[n].calls, NEW a, a = work'[u]
      PROVE  CallOk(n, a)'
  <2>0. u \in promise[n].calls /\ u \in Workers
    BY <1>5, <1>7 DEF Withheld
  <2>1. CASE u # w
    <3>1. a = work[u]
      BY <1>2, <1>7, <2>0, <2>1 DEF Others
    <3> QED BY <2>0, <2>1, <3>1, CallElsewhere
  <2>2. CASE u = w /\ work'[w] # Idle
    BY <1>7, <2>0, <2>2, CallSteps
  <2>3. CASE u = w /\ work'[w] = Idle /\ ~ ChangePanics(w)
    <3>1. promise'[n].calls = promise[n].calls \ {w}
      BY <2>0, <2>3, CallSucceeds DEF Pledge
    <3> QED BY <1>7, <2>3, <3>1
  <2>4. CASE u = w /\ ChangePanics(w)
    <3>1. work[w].name = n
      BY <2>0, <2>4 DEF Withheld, On
    <3>2. promise' = [promise EXCEPT ![n].calls = @ \ {w}]
      BY <2>4, <3>1 DEF ChangePanics
    <3>3. promise'[n].calls = promise[n].calls \ {w}
      BY <3>2, PledgeBroken DEF TypeInv, Pledge
    <3> QED BY <1>7, <2>4, <3>3
  <2> QED BY <2>1, <2>2, <2>3, <2>4
<1> QED BY <1>6, <1>7, CallsAre

\* A step of a call on a collection does not meddle with changes that count.
LEMMA AdminStepCalls ==
  ASSUME NoRecord, TypeInv, Apart, Withheld, NEW n \in Names, CallsInv(n), NEW w \in Workers, AdminStep(w)
  PROVE  CallsInv(n)'
<1>1. PICK m : m = work[w].name
  OBVIOUS
<1>2. m \in Names /\ Busy(w) /\ work[w].op \in AdminOps /\ Others(w)
  <2>1. m \in Names /\ Busy(w) /\ work[w].op \in AdminOps
    BY <1>1, AdminPledges
  <2> QED BY <2>1, AdminCourse
<1>3. work'[w] = Idle \/ (work'[w].op = work[w].op /\ work'[w].name = work[w].name)
  BY AdminCourse DEF But, CallFields
<1>4. AdminOn(n)' => AdminOn(n)
  <2>1. w \in Admins
    BY <1>2 DEF Admins
  <2>2. work'[w] = Idle => work'[w].op \notin AdminOps
    BY DEF Idle, AdminOps
  <2> QED BY <1>2, <1>3, <2>1, <2>2, AdminOnStays
<1>5. promise'[n].calls = promise[n].calls
  <2>1. promise' = promise \/ \E a, s, k : Pledge(m, promise[m].calls, a, s, k)
    BY <1>1, AdminPledges
  <2> QED BY <2>1 DEF Pledge
<1>6. w \notin promise[n].calls /\ promise[n].calls \subseteq Workers
  BY <1>2 DEF Withheld, AdminOps
<1>7. \A u \in promise'[n].calls : (u \in promise[n].calls /\ work'[u] = work[u]) \/ work'[u].at = "enter"
  BY <1>2, <1>5, <1>6 DEF Others
<1>8. CASE m # n
  <2>1. /\ space'[n] = space[n] /\ (n \in loaded' <=> n \in loaded) /\ torn' = torn /\ mode' = mode
        /\ space[n] # 0 => /\ Column(space[n])' = Column(space[n])
                           /\ Postings(space[n])' = Postings(space[n])
    BY <1>1, <1>8, AdminLeaves
  <2>2. promise'[n].calls # {} => n \in loaded' /\ ~ AdminOn(n)'
    BY <1>4, <1>5, <2>1 DEF CallsInv
  <2> QED BY <1>7, <2>1, <2>2, CallsKeep
<1>9. CASE m = n /\ work[w].op # "flush"
  <2>1. AdminOn(n)
    BY <1>1, <1>2, <1>9 DEF AdminOn, Admins
  <2>2. promise'[n].calls = {}
    BY <1>5, <2>1 DEF CallsInv
  <2> QED BY <2>2, CallsAre
<1>10. CASE m = n /\ work[w].op = "flush"
  <2>1. mode' = mode /\ torn' = torn
    BY AdminFlags
  <2>2. loaded' = loaded
    <3>1. CASE SaveVertexPut(w) \/ SaveInvertedPut(w)
      BY <1>10, <3>1 DEF SaveVertexPut, SaveInvertedPut, Saved, AdminOps
    <3>2. CASE SaveMeta(w) \/ SaveVertexMap(w) \/ SaveVertexFails(w) \/ SaveInverted(w)
      BY <3>2 DEF SaveMeta, SaveVertexMap, SaveVertexFails, SaveInverted, flags
    <3> QED BY <1>10, <3>1, <3>2 DEF AdminStep, CreateBucket, CreateSpace, CreateUndoBucket, CreateUndoFlags,
               DestroySpace, SetFlags, DeleteFlags, DeleteBucket, LoadFill, LoadInverted, LoadVertex,
               ReleaseUnflag, At
  <2>3. AdminRest(w, n)
    BY <1>1, <1>10, AdminRests
  <2>4. ~ DestroySpace(w) /\ ~ CreateSpace(w) /\ ~ LoadFill(w) /\ ~ LoadInverted(w)
    BY <1>10 DEF DestroySpace, CreateSpace, LoadFill, LoadInverted, At
  <2>5. space'[n] = space[n]
    BY <2>3, <2>4 DEF AdminRest
  <2>6. ASSUME NEW r, r = space[n], r # 0
        PROVE  Column(r)' = Column(r) /\ Postings(r)' = Postings(r)
    <3>1. r \in 1 .. Len(spaces)
      BY <2>6, MemoryTyped
    <3>2. Column(r)' = Column(r)
      BY <2>3, <2>4, <3>1 DEF AdminRest
    <3>3. Column(r) # 0 => Column(r) \in 1 .. Len(shards)
      BY <3>1, MemoryTyped DEF TypeInv, Bounds, SpaceType, Column
    <3>4. Column(r) # 0 => shards'[Column(r)] = shards[Column(r)]
      BY <2>3, <3>3 DEF AdminRest
    <3> QED BY <3>2, <3>4 DEF Postings, Column
  <2>7. space[n] # 0 => /\ Column(space[n])' = Column(space[n])
                        /\ Postings(space[n])' = Postings(space[n])
    <3>1. PICK r : r = space[n]
      OBVIOUS
    <3>2. r # 0 => Column(r)' = Column(r) /\ Postings(r)' = Postings(r)
      BY <2>6, <3>1
    <3> QED BY <2>5, <3>1, <3>2 DEF Column, Postings
  <2>8. promise'[n].calls # {} => n \in loaded' /\ ~ AdminOn(n)'
    BY <1>4, <1>5, <2>2 DEF CallsInv
  <2> QED BY <1>7, <2>1, <2>5, <2>7, <2>8, CallsKeep
<1> QED BY <1>8, <1>9, <1>10

\* Nor does a call that begins: one on the collection ends what was counted on.
LEMMA BeginCalls ==
  ASSUME TypeInv, OneInv, Withheld, NEW n \in Names, CallsInv(n),
         NEW w \in Workers, NEW m \in Names, Begin(w, m)
  PROVE  CallsInv(n)'
<1>1. UNCHANGED <<mode, bucket, space, spaces, shards, torn>>
  BY BeginStarts
<1>2. PICK op \in Ops : \E at : \E v : Starts(w, op, at, m, v) /\ (op \in VertexOps => at = "enter")
  BY BeginStarts
<1>3. /\ Others(w) /\ work'[w].name = m /\ work'[w].op = op /\ ~ Busy(w)
      /\ op \in VertexOps => work'[w].at = "enter"
  BY <1>2 DEF Starts
<1>4. w \notin promise[n].calls /\ promise[n].calls \subseteq Workers
  BY <1>3 DEF Withheld, On
<1>5. \A u \in promise[n].calls : work'[u] = work[u]
  BY <1>3, <1>4 DEF Others
<1>6. space[n] # 0 => /\ Column(space[n])' = Column(space[n])
                      /\ Postings(space[n])' = Postings(space[n])
  BY <1>1 DEF Column, Postings
<1>7. CASE promise'[n].calls = {}
  BY <1>7, CallsAre
<1>8. CASE n # m
  <2>1. promise'[n] = promise[n]
    BY <1>8, BeginPledges DEF Less, Pledge
  <2>2. n \in loaded' <=> n \in loaded
    BY <1>8, BeginFlags
  <2>3. AdminOn(n)' => AdminOn(n)
    BY <1>3, <1>8, AdminOnStays
  <2>4. promise'[n].calls # {} => n \in loaded' /\ ~ AdminOn(n)'
    BY <2>1, <2>2, <2>3 DEF CallsInv
  <2> QED BY <1>1, <1>5, <1>6, <2>1, <2>4, CallsKeep
<1>9. CASE n = m /\ op \in VertexOps
  <2>1. loaded' = loaded /\ n \in loaded
    <3>1. ~ ReleaseBegin(w, m)
      <4>1. ASSUME ReleaseBegin(w, m) PROVE work'[w].op = "release"
        <5>1. work' = [work EXCEPT ![w] = Call("release", "meta", m)]
          BY <4>1 DEF ReleaseBegin, BeginAdmin
        <5> QED BY <5>1 DEF TypeInv, WorkTyped, Call
      <4> QED BY <1>3, <1>9, <4>1 DEF VertexOps
    <3>2. \E o, v : BeginChange(w, o, "enter", n, v)
      BY <1>3, <1>9, BeginKinds DEF SearchFor, SearchBegin, ChangeBegin, EdgeRemoveBegin, MultiRemoveBegin,
         RemoveBegin, VertexOps, AdminOps
    <3> QED BY <3>1, <3>2, BeginFlags, VertexStarts
  <2>2. AdminOn(n)' => AdminOn(n)
    BY <1>3, <1>9, AdminOnStays DEF VertexOps, AdminOps
  <2>3. /\ promise'[n].calls \subseteq promise[n].calls \cup {w}
        /\ w \in promise'[n].calls => ~ AdminOn(n)
    <3>1. PromisesTyped
      BY DEF TypeInv
    <3>2. CASE SearchFor(w, n)
      <4>1. Pledge(n, promise[n].calls, promise[n].acked, promise[n].saving, promise[n].kept)
        BY <3>1, <3>2, PledgeSought DEF SearchFor, SearchBegin
      <4> QED BY <1>4, <4>1 DEF Pledge
    <3>3. ASSUME NEW id \in 1 .. MaxIds, NEW t \in Tags, ChangeBegin(w, n, id, t)
          PROVE  /\ promise'[n].calls \subseteq promise[n].calls \cup {w}
                 /\ w \in promise'[n].calls => ~ AdminOn(n)
      <4>1. PICK C : /\ Pledge(n, C, {y \in promise[n].acked : y.id # id},
                               {y \in promise[n].saving : y.id # id}, {y \in promise[n].kept : y.id # id})
                     /\ \/ C = {u \in promise[n].calls : work[u].vertex.id # id}
                        \/ /\ C = {u \in promise[n].calls : work[u].vertex.id # id} \cup {w}
                           /\ ~ AdminOn(n)
                           /\ \A v \in OthersOn(w, n) : ~ Collides(v, [id |-> id, tag |-> t])
        BY <3>1, <3>3, PledgeChanged
      <4> QED BY <1>4, <4>1 DEF Pledge
    <3>4. ASSUME NEW t \in Tags, EdgeRemoveBegin(w, n, t)
          PROVE  promise'[n].calls \subseteq promise[n].calls
      <4>1. Pledge(n, {u \in promise[n].calls : work[u].vertex.tag # t}, {y \in promise[n].acked : y.tag # t},
                   {y \in promise[n].saving : y.tag # t}, {y \in promise[n].kept : y.tag # t})
        BY <3>1, <3>4, PledgeTagRemoved DEF EdgeRemoveBegin, RemoveBegin
      <4> QED BY <4>1 DEF Pledge
    <3>5. ASSUME NEW i \in 1 .. MaxIds, MultiRemoveBegin(w, n, i)
          PROVE  promise'[n].calls \subseteq promise[n].calls
      <4>1. Pledge(n, {u \in promise[n].calls : work[u].vertex.id # i}, {y \in promise[n].acked : y.id # i},
                   {y \in promise[n].saving : y.id # i}, {y \in promise[n].kept : y.id # i})
        BY <3>1, <3>5, PledgeIdRemoved DEF MultiRemoveBegin, RemoveBegin
      <4> QED BY <4>1 DEF Pledge
    <3>6. \/ SearchFor(w, n)
          \/ \E id \in 1 .. MaxIds : \E t \in Tags : ChangeBegin(w, n, id, t)
          \/ \E t \in Tags : EdgeRemoveBegin(w, n, t)
          \/ \E i \in 1 .. MaxIds : MultiRemoveBegin(w, n, i)
      BY <1>3, <1>9, BeginKinds DEF VertexOps, AdminOps
    <3> QED BY <1>4, <3>2, <3>3, <3>4, <3>5, <3>6
  <2>4. promise'[n].calls # {} => n \in loaded' /\ ~ AdminOn(n)'
    BY <2>1, <2>2, <2>3 DEF CallsInv
  <2>5. \A u \in promise'[n].calls : (u \in promise[n].calls /\ work'[u] = work[u]) \/ work'[u].at = "enter"
    BY <1>3, <1>5, <1>9, <2>3
  <2> QED BY <1>1, <1>6, <2>4, <2>5, CallsKeep
<1>10. CASE n = m /\ op \notin VertexOps
  <2>1. PromisesTyped
    BY DEF TypeInv
  <2>2. \/ CreateBegin(w, n) \/ DeleteBegin(w, n) \/ LoadBegin(w, n) \/ ReleaseBegin(w, n)
        \/ FlushBegin(w, n) \/ CloseCollection(w, n)
    <3>1. ASSUME NEW o \in VertexOps, NEW v, BeginChange(w, o, "enter", n, v)
          PROVE  FALSE
      BY <1>3, <1>10, <3>1, VertexStarts DEF Starts
    <3> QED BY <1>10, <3>1 DEF Begin, EdgeRemoveBegin, MultiRemoveBegin, RemoveBegin, SearchBegin, ChangeBegin,
               VertexOps
  <2>3. CASE CreateBegin(w, n) \/ DeleteBegin(w, n)
    <3>1. Pledge(n, {}, {}, {}, {})
      BY <2>1, <2>3, PledgeNothing DEF CreateBegin, DeleteBegin
    <3> QED BY <1>7, <3>1 DEF Pledge
  <2>4. CASE LoadBegin(w, n)
    <3>1. Pledge(n, {}, promise[n].acked, promise[n].saving, promise[n].kept)
      BY <2>1, <2>4, PledgeNoCalls DEF LoadBegin
    <3> QED BY <1>7, <3>1 DEF Pledge
  <2>5. CASE ReleaseBegin(w, n)
    <3>1. Pledge(n, {}, promise[n].acked, promise[n].acked, promise[n].kept)
      BY <2>1, <2>5, PledgeReleased DEF ReleaseBegin
    <3> QED BY <1>7, <3>1 DEF Pledge
  <2>6. CASE CloseCollection(w, n)
    <3>1. promise' = promise /\ \A v \in Workers : ~ Busy(v)
      BY <2>6 DEF CloseCollection
    <3>2. promise[n].calls = {}
      BY <3>1 DEF Withheld, On
    <3> QED BY <1>7, <3>1, <3>2
  <2>7. CASE FlushBegin(w, n)
    <3>1. Pledge(n, promise[n].calls, promise[n].acked, promise[n].acked, promise[n].kept)
      BY <2>1, <2>7, PledgeFlushed DEF FlushBegin
    <3>2. work'[w].op = "flush" /\ loaded' = loaded
      <4>1. work' = [work EXCEPT ![w] = Call("flush", "meta", n)] /\ loaded' = loaded
        BY <2>7 DEF FlushBegin, BeginAdmin, flags
      <4> QED BY <4>1 DEF TypeInv, WorkTyped, Call
    <3>3. AdminOn(n)' => AdminOn(n)
      BY <1>3, <3>2, AdminOnStays
    <3>4. promise'[n].calls = promise[n].calls
      BY <3>1 DEF Pledge
    <3>5. promise'[n].calls # {} => n \in loaded' /\ ~ AdminOn(n)'
      BY <3>2, <3>3, <3>4 DEF CallsInv
    <3> QED BY <1>1, <1>5, <1>6, <3>4, <3>5, CallsKeep
  <2> QED BY <2>2, <2>3, <2>4, <2>5, <2>6, <2>7
<1> QED BY <1>8, <1>9, <1>10

\* Every step.
LEMMA CallsStep ==
  ASSUME NoRecord, Shape, TypeInv, TypeInv', Apart, KnownInv, ServedInv, OneInv, Withheld,
         NEW n \in Names, CallsInv(n), [Next]_vars
  PROVE  CallsInv(n)'
<1>1. CASE Die
  <2>1. promise'[n].calls = {}
    BY <1>1 DEF Die, NoPromise
  <2> QED BY <2>1, CallsAre
<1>2. CASE CloseEnd
  <2>1. promise'[n].calls = {}
    BY <1>2 DEF CloseEnd, CallsInv
  <2> QED BY <2>1, CallsAre
<1>3. CASE CloseBegin \/ Start \/ UNCHANGED vars
  <2>1. UNCHANGED <<mode, loaded, space, spaces, shards, work, torn, promise>>
    BY <1>3 DEF CloseBegin, Start, vars, flags, memory
  <2>2. space[n] # 0 => /\ Column(space[n])' = Column(space[n])
                        /\ Postings(space[n])' = Postings(space[n])
    BY <2>1 DEF Column, Postings
  <2>3. promise'[n].calls # {} => n \in loaded' /\ ~ AdminOn(n)'
    BY <2>1 DEF CallsInv, AdminOn, Admins
  <2> QED BY <2>1, <2>2, <2>3, CallsKeep
<1>4. ASSUME NEW w \in Workers, AdminStep(w) \/ Vertexes(w)
      PROVE  CallsInv(n)'
  BY <1>4, AdminStepCalls, VertexCalls
<1>5. ASSUME NEW w \in Workers, NEW m \in Names, Begin(w, m)
      PROVE  CallsInv(n)'
  BY <1>5, BeginCalls
<1> QED BY <1>1, <1>2, <1>3, <1>4, <1>5, StepKinds

-----------------------------------------------------------------------------
(* A call on the collection itself                                         *)

StateInv(n) == AckedInv(n) /\ LoadInv(n) /\ EmptyInv(n) /\ KeptInv(n) /\ SaveInv(n)

\* There is one such call, and all is said of it.
OneOn(w, n) == \A v \in Workers : On(v, n)' /\ work'[v].op \in AdminOps => v = w

\* So it is enough to look at that call after its step.
LEMMA StateOfOne ==
  ASSUME NEW n, NEW w \in Workers, OneOn(w, n), NEW a, a = work'[w],
         NEW A, A = promise'[n].acked, NEW S, S = promise'[n].saving, NEW K, K = promise'[n].kept,
         n \in loaded' \/ (a.op = "release" /\ a.at \in Saving) => Has(n, A)' /\ K \subseteq A,
         a.op = "load" =>
           /\ a.at = "load vertex" /\ mode' = "edge" /\ n \notin torn' /\ K # {} =>
                space'[n] # 0 /\ K \subseteq Postings(space[n])'
           /\ a.at = "flag" => Has(n, K)',
         a.op \in {"create", "delete"} => A = {} /\ S = {} /\ K = {},
         InObject(n, "vertex", K)', mode' = "edge" /\ n \notin torn' => InObject(n, "inverted", K)',
         a.op \in {"flush", "release", "close"} /\ a.at \in Saving =>
           \A D : D = (IF a.op = "close" THEN K ELSE S) => SaveOk(n, a, D)'
  PROVE  StateInv(n)'
<1>1. AckedInv(n)'
  <2> SUFFICES ASSUME \/ n \in loaded'
                      \/ \E v \in Workers : Saves(v, n)' /\ work'[v].op = "release"
               PROVE  Has(n, A)' /\ K \subseteq A
    BY DEF AckedInv, Has
  <2>1. n \in loaded' \/ (a.op = "release" /\ a.at \in Saving)
    BY DEF OneOn, Saves, AdminOps
  <2> QED BY <2>1
<1>2. LoadInv(n)'
  <2> SUFFICES ASSUME NEW v \in Workers, On(v, n)', work'[v].op = "load"
               PROVE  /\ work'[v].at = "load vertex" /\ mode' = "edge" /\ n \notin torn' /\ K # {} =>
                           space'[n] # 0 /\ K \subseteq Postings(space[n])'
                      /\ work'[v].at = "flag" => Has(n, K)'
    BY DEF LoadInv, Has
  <2>1. v = w
    BY DEF OneOn, AdminOps
  <2> QED BY <2>1
<1>3. EmptyInv(n)'
  BY DEF EmptyInv, OneOn, AdminOps, Promised
<1>4. KeptInv(n)'
  BY DEF KeptInv, InObject
<1>5. SaveInv(n)'
  <2> SUFFICES ASSUME NEW v \in Workers, Saves(v, n)'
               PROVE  SaveOk(n, work[v], Salvage(v, n))'
    BY DEF SaveInv
  <2>1. v = w
    BY DEF OneOn, AdminOps, Saves
  <2>2. PICK D : D = (IF a.op = "close" THEN K ELSE S)
    OBVIOUS
  <2>3. SaveOk(n, a, D)'
    BY <2>1, <2>2 DEF Saves
  <2> QED BY <2>1, <2>2, <2>3 DEF Salvage, SaveOk
<1> QED BY <1>1, <1>2, <1>3, <1>4, <1>5 DEF StateInv

\* Its step leaves it the only one.
LEMMA StepIsOne ==
  ASSUME TypeInv, OneInv, NEW w \in Workers, AdminStep(w), NEW n, n = work[w].name
  PROVE  /\ OneOn(w, n) /\ w \in Admins /\ Busy(w) /\ n \in Names /\ On(w, n)
         /\ \A v \in Workers : On(v, n) /\ work[v].op \in AdminOps => v = w
<1>1. n \in Names /\ Busy(w) /\ work[w].op \in AdminOps
  BY AdminPledges
<1>2. w \in Admins /\ On(w, n)
  BY <1>1 DEF Admins, On
<1>3. Others(w)
  BY AdminCourse
<1>4. ASSUME NEW v \in Workers, On(v, n)', work'[v].op \in AdminOps
      PROVE  v = w
  <2> SUFFICES ASSUME v # w PROVE FALSE
    OBVIOUS
  <2>1. v \in Admins
    BY <1>3, <1>4 DEF Others, Admins
  <2> QED BY <1>2, <2>1 DEF OneInv
<1>5. \A v \in Workers : On(v, n) /\ work[v].op \in AdminOps => v = w
  BY <1>2 DEF OneInv, Admins
<1> QED BY <1>1, <1>2, <1>4, <1>5 DEF OneOn

\* A collection that promises nothing.
LEMMA EmptyState ==
  ASSUME NEW n, NEW w \in Workers, OneOn(w, n), promise'[n].acked = {}, promise'[n].saving = {},
         promise'[n].kept = {}, work'[w].op \notin {"flush", "release", "close"}
  PROVE  StateInv(n)'
<1>1. PICK a, e : a = work'[w] /\ e = {}
  OBVIOUS
<1>2. /\ e = promise'[n].acked /\ e = promise'[n].saving /\ e = promise'[n].kept
      /\ a.op \notin {"flush", "release", "close"}
  BY <1>1
<1>3. Has(n, e)' /\ e \subseteq e
  BY <1>1 DEF Has
<1>4. \A o : InObject(n, o, e)'
  BY <1>1 DEF InObject
<1>5. a.op = "load" =>
        /\ a.at = "load vertex" /\ mode' = "edge" /\ n \notin torn' /\ e # {} =>
             space'[n] # 0 /\ e \subseteq Postings(space[n])'
        /\ a.at = "flag" => Has(n, e)'
  BY <1>1, <1>3
<1>6. a.op \in {"create", "delete"} => e = {} /\ e = {} /\ e = {}
  BY <1>1
<1>7. a.op \in {"flush", "release", "close"} /\ a.at \in Saving =>
           \A D : D = (IF a.op = "close" THEN e ELSE e) => SaveOk(n, a, D)'
  BY <1>2
<1>8. n \in loaded' \/ (a.op = "release" /\ a.at \in Saving) => Has(n, e)' /\ e \subseteq e
  BY <1>3
<1>9. InObject(n, "vertex", e)' /\ (mode' = "edge" /\ n \notin torn' => InObject(n, "inverted", e)')
  BY <1>4
<1> QED BY <1>1, <1>2, <1>5, <1>6, <1>7, <1>8, <1>9, StateOfOne

\* CreateCollection and DeleteCollection.
LEMMA EmptyStep ==
  ASSUME TypeInv, OneInv, NEW w \in Workers, AdminStep(w), NEW n, n = work[w].name, NameInv(n),
         work[w].op \in {"create", "delete"}
  PROVE  StateInv(n)'
<1>1. OneOn(w, n) /\ On(w, n)
  BY StepIsOne
<1>2. promise[n].acked = {} /\ promise[n].saving = {} /\ promise[n].kept = {}
  BY <1>1 DEF NameInv, EmptyInv, Promised
<1>3. promise'[n].acked = {} /\ promise'[n].saving = {} /\ promise'[n].kept = {}
  BY <1>2, AdminPledges DEF Pledge
<1>4. work'[w].op \notin {"flush", "release", "close"}
  BY AdminCourse DEF But, CallFields, Idle
<1> QED BY <1>1, <1>3, <1>4, EmptyState

\* A collection that is not loaded, and is not being saved.
LEMMA OutState ==
  ASSUME NEW n, NEW w \in Workers, OneOn(w, n), KeptInv(n), n \notin loaded',
         bucket'[n] = bucket[n], mode' = mode, torn' = torn, NEW K, K = promise[n].kept, K = promise'[n].kept,
         NEW a, a = work'[w], a.op \notin {"create", "delete"},
         a.op \in {"flush", "release", "close"} => a.at \notin Saving,
         a.op = "load" =>
           /\ a.at = "load vertex" /\ mode' = "edge" /\ n \notin torn' /\ K # {} =>
                space'[n] # 0 /\ K \subseteq Postings(space[n])'
           /\ a.at = "flag" => Has(n, K)'
  PROVE  StateInv(n)'
<1>1. \A object : (Readable(n, object)' <=> Readable(n, object)) /\ bucket'[n][object] = bucket[n][object]
  BY DEF Readable
<1>2. InObject(n, "vertex", K) /\ (mode = "edge" /\ n \notin torn => InObject(n, "inverted", K))
  BY DEF KeptInv
<1>3. InObject(n, "vertex", K)' /\ (mode' = "edge" /\ n \notin torn' => InObject(n, "inverted", K)')
  BY <1>1, <1>2 DEF InObject
<1>4. PICK A, S : A = promise'[n].acked /\ S = promise'[n].saving
  OBVIOUS
<1>5. n \in loaded' \/ (a.op = "release" /\ a.at \in Saving) => Has(n, A)' /\ K \subseteq A
  OBVIOUS
<1>6. a.op \in {"create", "delete"} => A = {} /\ S = {} /\ K = {}
  OBVIOUS
<1>7. a.op \in {"flush", "release", "close"} /\ a.at \in Saving =>
           \A D : D = (IF a.op = "close" THEN K ELSE S) => SaveOk(n, a, D)'
  OBVIOUS
<1> QED BY <1>3, <1>4, <1>5, <1>6, <1>7, StateOfOne

\* A load goes on, or ends without a collection that is loaded.
LEMMA LoadInvertedState ==
  ASSUME Shape, TypeInv, OneInv, NEW w \in Workers, LoadInverted(w), work'[w] # Idle,
         NEW n, n = work[w].name, KeptInv(n), mode = "edge", n \notin torn, promise[n].kept # {}
  PROVE  space'[n] # 0 /\ promise[n].kept \subseteq Postings(space[n])'
<1>1. AdminStep(w) /\ WorkTyped
  BY DEF AdminStep, TypeInv
<1>2. n \in Names /\ Busy(w)
  BY <1>1, AdminPledges
<1>3. /\ Readable(n, "inverted") /\ space[n] # 0 /\ space' = space
      /\ shards' = Append(shards, bucket[n].inverted)
      /\ spaces' = [spaces EXCEPT ![space[n]].indexed = TRUE, ![space[n]].column = Len(shards) + 1]
  BY <1>1, ReturnEnds DEF LoadInverted, Ends, Space
<1>4. PICK r, c : r = space[n] /\ c = Len(shards) + 1
  OBVIOUS
<1>5. bucket[n].inverted \in SUBSET Vertex
  BY <1>2, <1>3 DEF TypeInv, BucketTyped, Bucket, Object, Readable
<1>6. c \in Nat /\ r \in 1 .. Len(spaces)
  BY <1>2, <1>3, <1>4, MemoryTyped
<1>7. Column(r)' = c
  BY <1>3, <1>4, <1>6, IndexPut DEF TypeInv
<1>8. shards'[c] = bucket[n].inverted /\ c # 0
  BY <1>3, <1>4, <1>5, <1>6, AppendShard, MemoryTyped DEF TypeInv
<1>9. promise[n].kept \subseteq bucket[n].inverted
  BY DEF KeptInv, InObject
<1>10. promise[n].kept \subseteq Postings(r)'
  BY <1>7, <1>8, <1>9 DEF Postings, Column
<1>11. space'[n] = r
  BY <1>3, <1>4
<1> QED BY <1>3, <1>4, <1>10, <1>11 DEF Postings

\* The maps are filled from the object that has what was kept.
LEMMA LoadVertexState ==
  ASSUME Shape, TypeInv, OneInv, NEW w \in Workers, LoadVertex(w), work'[w] # Idle,
         NEW n, n = work[w].name, KeptInv(n), LoadInv(n), NEW K, K = promise[n].kept
  PROVE  Has(n, K)'
<1>1. AdminStep(w) /\ WorkTyped /\ work[w].op = "load" /\ work[w].at = "load vertex"
  BY DEF AdminStep, TypeInv, LoadVertex, At
<1>2. n \in Names /\ Busy(w)
  BY <1>1, AdminPledges
<1>3. /\ Readable(n, "vertex") /\ space[n] # 0 /\ space' = space /\ shards' = shards
      /\ spaces' = [spaces EXCEPT ![space[n]].ready = TRUE, ![space[n]].vertices = bucket[n].vertex]
      /\ mode' = mode /\ torn' = torn
  BY <1>1, ReturnEnds DEF LoadVertex, Ends, Space
<1>4. PICK r : r = space[n]
  OBVIOUS
<1>5. bucket[n].vertex \in SUBSET Vertex
  BY <1>2, <1>3 DEF TypeInv, BucketTyped, Bucket, Object, Readable
<1>6. r \in 1 .. Len(spaces)
  BY <1>2, <1>3, <1>4, MemoryTyped
<1>7. SpaceBut(r, {"ready", "vertices"}) /\ spaces'[r].vertices = bucket[n].vertex
  BY <1>3, <1>4, <1>5, <1>6, LoadPut DEF TypeInv
<1>8. Column(r)' = Column(r)
  BY <1>6, <1>7 DEF SpaceBut, Column
<1>9. K \subseteq spaces'[r].vertices
  BY <1>7 DEF KeptInv, InObject
<1>10. mode' = "edge" /\ n \notin torn' => K \subseteq Postings(r)'
  <2>1. mode = "edge" /\ n \notin torn => K \subseteq Postings(r)
    BY <1>1, <1>2, <1>4 DEF LoadInv, On
  <2>2. shards' = shards
    BY <1>3
  <2>3. spaces'[r].column = spaces[r].column
    BY <1>8 DEF Column
  <2>4. Postings(r)' = Postings(r)
    BY <2>2, <2>3 DEF Postings
  <2> QED BY <1>3, <2>1, <2>4
<1>11. space'[n] = r /\ r # 0
  BY <1>3, <1>4
<1> QED BY <1>9, <1>10, <1>11 DEF Has, Postings

\* So a load that goes on has what was kept as far as it has come.
LEMMA LoadState ==
  ASSUME Shape, TypeInv, ServedInv, OneInv, NEW w \in Workers, LoadFill(w) \/ LoadInverted(w) \/ LoadVertex(w),
         NEW n, n = work[w].name, NameInv(n)
  PROVE  StateInv(n)'
<1>1. AdminStep(w) /\ WorkTyped /\ work[w].op = "load"
  BY DEF AdminStep, TypeInv, LoadFill, LoadInverted, LoadVertex, At
<1>2. OneOn(w, n) /\ w \in Admins /\ On(w, n) /\ Busy(w) /\ n \in Names
  BY <1>1, StepIsOne
<1>3. process = "up"
  BY <1>1, <1>2 DEF OneInv, Shape
<1>4. n \notin loaded
  BY <1>1, <1>2, <1>3 DEF ServedInv, UpInv, Progress
<1>5. /\ mode' = mode /\ torn' = torn /\ loaded' = loaded /\ bucket' = bucket /\ promise' = promise
  BY DEF LoadFill, LoadInverted, LoadVertex, flags
<1>6. PICK a, K : a = work'[w] /\ K = promise[n].kept
  OBVIOUS
<1>7. a = Idle \/ a.op = "load"
  BY <1>1, <1>6, AdminCourse DEF But, CallFields
<1>8. KeptInv(n) /\ LoadInv(n)
  BY DEF NameInv
<1>9. ASSUME a # Idle
      PROVE  /\ a.at = "load vertex" /\ mode' = "edge" /\ n \notin torn' /\ K # {} =>
                  space'[n] # 0 /\ K \subseteq Postings(space[n])'
             /\ a.at = "flag" => Has(n, K)'
  <2>1. CASE LoadFill(w)
    <3>1. PICK at : Go(w, at) /\ at = IF mode = "edge" THEN "load inverted" ELSE "load vertex"
      BY <1>1, <1>6, <1>9, <2>1, ReturnEnds DEF LoadFill, Ends
    <3>2. a.at = at
      BY <1>1, <1>2, <1>6, <3>1, GoBut
    <3> QED BY <1>5, <3>1, <3>2
  <2>2. CASE LoadInverted(w)
    <3>1. Go(w, "load vertex")
      BY <1>1, <1>6, <1>9, <2>2, ReturnEnds DEF LoadInverted, Ends
    <3>2. a.at = "load vertex"
      BY <1>1, <1>2, <1>6, <3>1, GoBut
    <3>3. mode = "edge" /\ n \notin torn /\ K # {} => space'[n] # 0 /\ K \subseteq Postings(space[n])'
      BY <1>6, <1>8, <1>9, <2>2, LoadInvertedState
    <3> QED BY <1>5, <3>2, <3>3
  <2>3. CASE LoadVertex(w)
    <3>1. Go(w, "flag")
      BY <1>1, <1>6, <1>9, <2>3, ReturnEnds DEF LoadVertex, Ends
    <3>2. a.at = "flag"
      BY <1>1, <1>2, <1>6, <3>1, GoBut
    <3>3. Has(n, K)'
      BY <1>6, <1>8, <1>9, <2>3, LoadVertexState
    <3> QED BY <3>2, <3>3
  <2> QED BY <2>1, <2>2, <2>3
<1>10. a.op = "load" => a # Idle
  BY DEF Idle
<1>11. /\ a.op \notin {"create", "delete"} /\ a.op \notin {"flush", "release", "close"}
  BY <1>7 DEF Idle
<1>12. n \notin loaded' /\ bucket'[n] = bucket[n] /\ K = promise'[n].kept
  BY <1>4, <1>5, <1>6
<1> QED BY <1>2, <1>5, <1>6, <1>8, <1>9, <1>10, <1>11, <1>12, OutState

\* A load that sets the flags has all that was kept.
LEMMA FlagState ==
  ASSUME TypeInv, OneInv, NEW w \in Workers, SetFlags(w), work[w].op = "load",
         NEW n, n = work[w].name, NameInv(n)
  PROVE  StateInv(n)'
<1>1. AdminStep(w) /\ WorkTyped /\ work[w].at = "flag"
  BY DEF AdminStep, TypeInv, SetFlags, At
<1>2. OneOn(w, n) /\ On(w, n) /\ Busy(w) /\ n \in Names
  BY <1>1, StepIsOne
<1>3. /\ UNCHANGED <<mode, torn, bucket, space, spaces, shards>>
      /\ promise' = [promise EXCEPT ![n].acked = promise[n].kept] /\ Return(w)
  BY DEF SetFlags, memory
<1>4. Pledge(n, promise[n].calls, promise[n].kept, promise[n].saving, promise[n].kept)
  BY <1>2, <1>3, PledgeLoaded DEF TypeInv
<1>5. PICK a, K, S : a = work'[w] /\ K = promise[n].kept /\ S = promise[n].saving
  OBVIOUS
<1>6. K = promise'[n].acked /\ K = promise'[n].kept /\ S = promise'[n].saving /\ a.op = "idle"
  BY <1>1, <1>3, <1>4, <1>5, ReturnEnds DEF Pledge, Ends, Idle
<1>7. Has(n, K)
  BY <1>1, <1>2, <1>5 DEF NameInv, LoadInv
<1>8. Has(n, K)'
  BY <1>3, <1>7 DEF Has, Postings
<1>9. InObject(n, "vertex", K) /\ (mode = "edge" /\ n \notin torn => InObject(n, "inverted", K))
  BY <1>5 DEF NameInv, KeptInv
<1>10. InObject(n, "vertex", K)' /\ (mode' = "edge" /\ n \notin torn' => InObject(n, "inverted", K)')
  BY <1>3, <1>9 DEF InObject, Readable
<1>11. n \in loaded' \/ (a.op = "release" /\ a.at \in Saving) => Has(n, K)' /\ K \subseteq K
  BY <1>8
<1>12. /\ a.op = "load" =>
           /\ a.at = "load vertex" /\ mode' = "edge" /\ n \notin torn' /\ K # {} =>
                space'[n] # 0 /\ K \subseteq Postings(space[n])'
           /\ a.at = "flag" => Has(n, K)'
       /\ a.op \in {"create", "delete"} => K = {} /\ S = {} /\ K = {}
       /\ a.op \in {"flush", "release", "close"} /\ a.at \in Saving =>
           \A D : D = (IF a.op = "close" THEN K ELSE S) => SaveOk(n, a, D)'
  BY <1>6
<1> QED BY <1>2, <1>5, <1>6, <1>10, <1>11, <1>12, StateOfOne

\* A release that has saved all is over with the collection.
LEMMA ReleasedState ==
  ASSUME Shape, TypeInv, ServedInv, OneInv, NEW w \in Workers, work[w].op = "release",
         ReleaseUnflag(w) \/ DestroySpace(w), NEW n, n = work[w].name, NameInv(n)
  PROVE  StateInv(n)'
<1>1. AdminStep(w) /\ WorkTyped
  BY DEF AdminStep, TypeInv
<1>2. OneOn(w, n) /\ w \in Admins /\ On(w, n) /\ Busy(w) /\ n \in Names
  BY <1>1, StepIsOne
<1>3. UNCHANGED <<mode, torn, bucket, promise>>
  BY DEF ReleaseUnflag, DestroySpace
<1>4. process = "up"
  BY <1>2 DEF OneInv, Shape
<1>5. n \notin loaded'
  <2>1. CASE ReleaseUnflag(w)
    BY <2>1 DEF ReleaseUnflag
  <2>2. CASE DestroySpace(w)
    <3>1. work[w].at = "destroy" /\ loaded' = loaded
      BY <2>2 DEF DestroySpace, At, flags
    <3> QED BY <1>2, <1>4, <3>1 DEF ServedInv, UpInv, Progress
  <2> QED BY <2>1, <2>2
<1>6. PICK a, K : a = work'[w] /\ K = promise[n].kept
  OBVIOUS
<1>7. a = Idle \/ (a.op = "release" /\ a.at = "destroy")
  <2>1. CASE ReleaseUnflag(w)
    <3>1. But(w, {"at"}) /\ a.at = "destroy"
      BY <1>1, <1>2, <1>6, <2>1, GoBut DEF ReleaseUnflag
    <3> QED BY <1>6, <3>1 DEF But, CallFields
  <2>2. CASE DestroySpace(w)
    <3>1. Return(w)
      BY <2>2 DEF DestroySpace, At
    <3> QED BY <1>1, <1>6, <3>1, ReturnEnds DEF Ends
  <2> QED BY <2>1, <2>2
<1>8. KeptInv(n) /\ K = promise'[n].kept /\ bucket'[n] = bucket[n]
  BY <1>3, <1>6 DEF NameInv
<1>9. /\ a.op \notin {"create", "delete"}
      /\ a.op \in {"flush", "release", "close"} => a.at \notin Saving
      /\ a.op # "load"
  BY <1>7 DEF Idle, Saving
<1>10. a.op = "load" =>
           /\ a.at = "load vertex" /\ mode' = "edge" /\ n \notin torn' /\ K # {} =>
                space'[n] # 0 /\ K \subseteq Postings(space[n])'
           /\ a.at = "flag" => Has(n, K)'
  BY <1>9
<1>11. mode' = mode /\ torn' = torn
  BY <1>3
<1> QED BY <1>2, <1>5, <1>6, <1>8, <1>9, <1>10, <1>11, OutState

-----------------------------------------------------------------------------
(* Flush, ReleaseCollection and Close, object after object                 *)

Salvagers == {"flush", "release", "close"}

\* What a save has before its step ...
LEMMA SaveKnows ==
  ASSUME TypeInv, OneInv, NEW w \in Workers, AdminStep(w), NEW n, n = work[w].name, NameInv(n),
         work[w].op \in Salvagers, work[w].at \in Saving,
         NEW D, D = (IF work[w].op = "close" THEN promise[n].kept ELSE promise[n].saving)
  PROVE  /\ OneOn(w, n) /\ w \in Admins /\ On(w, n) /\ Busy(w) /\ n \in Names /\ WorkTyped
         /\ SaveOk(n, work[w], D) /\ Has(n, promise[n].acked)
         /\ promise[n].kept \subseteq D /\ D \subseteq promise[n].acked
         /\ InObject(n, "vertex", promise[n].kept)
         /\ mode = "edge" /\ n \notin torn => InObject(n, "inverted", promise[n].kept)
<1>1. OneOn(w, n) /\ w \in Admins /\ On(w, n) /\ Busy(w) /\ n \in Names /\ WorkTyped
  BY StepIsOne DEF TypeInv
<1>2. Saves(w, n)
  BY <1>1 DEF Saves, Salvagers
<1>3. SaveOk(n, work[w], D)
  BY <1>2 DEF NameInv, SaveInv, Salvage
<1>4. Has(n, promise[n].acked)
  <2>1. n \in loaded \/ work[w].op = "release"
    BY <1>3 DEF SaveOk
  <2> QED BY <1>2, <2>1 DEF NameInv, AckedInv
<1>5. promise[n].kept \subseteq D /\ D \subseteq promise[n].acked
  BY <1>3 DEF SaveOk
<1>6. /\ InObject(n, "vertex", promise[n].kept)
      /\ mode = "edge" /\ n \notin torn => InObject(n, "inverted", promise[n].kept)
  BY DEF NameInv, KeptInv
<1> QED BY <1>1, <1>3, <1>4, <1>5, <1>6

\* ... and keeps in memory: a step of it takes nothing away.
LEMMA SaveMemory ==
  ASSUME TypeInv, NEW w \in Workers, AdminStep(w), NEW n, n = work[w].name,
         work[w].op \in Salvagers, work[w].at \in Saving
  PROVE  /\ mode' = mode /\ torn' = torn /\ space'[n] = space[n]
         /\ \A T : Has(n, T) => Has(n, T)'
<1>1. mode' = mode /\ torn' = torn
  BY AdminFlags
<1>2. AdminRest(w, n) /\ n \in Names
  BY AdminRests, AdminPledges
<1>3. ~ DestroySpace(w) /\ ~ CreateSpace(w) /\ ~ LoadFill(w) /\ ~ LoadInverted(w) /\ ~ LoadVertex(w)
  BY DEF DestroySpace, CreateSpace, LoadFill, LoadInverted, LoadVertex, At, Saving, Salvagers
<1>4. space'[n] = space[n]
  BY <1>2, <1>3 DEF AdminRest
<1>5. ASSUME NEW T, Has(n, T)
      PROVE  Has(n, T)'
  <2>1. CASE T = {}
    BY <2>1 DEF Has
  <2>2. CASE T # {}
    <3>1. PICK r : r = space[n]
      OBVIOUS
    <3>2. r # 0 /\ T \subseteq spaces[r].vertices /\ (mode = "edge" /\ n \notin torn => T \subseteq Postings(r))
      BY <1>5, <2>2, <3>1 DEF Has
    <3>3. r \in 1 .. Len(spaces)
      BY <1>2, <3>1, <3>2, MemoryTyped
    <3>4. Column(r)' = Column(r) /\ spaces'[r].vertices = spaces[r].vertices
      BY <1>2, <1>3, <3>3 DEF AdminRest
    <3>5. Column(r) # 0 => Column(r) \in 1 .. Len(shards)
      BY <3>3, MemoryTyped DEF TypeInv, Bounds, SpaceType, Column
    <3>6. Column(r) # 0 => shards'[Column(r)] = shards[Column(r)]
      BY <1>2, <3>5 DEF AdminRest
    <3>7. Postings(r)' = Postings(r)
      BY <3>4, <3>6 DEF Postings, Column
    <3>8. space'[n] = r
      BY <1>4, <3>1
    <3> QED BY <1>1, <3>2, <3>4, <3>7, <3>8 DEF Has, Postings
  <2> QED BY <2>1, <2>2
<1> QED BY <1>1, <1>4, <1>5

\* Such a call is no load, and the promises are empty for none of it.
LEMMA SaverOfOne ==
  ASSUME NEW n, NEW w \in Workers, OneOn(w, n), NEW a, a = work'[w], a.op \notin {"load", "create", "delete"},
         NEW A, A = promise'[n].acked, NEW S, S = promise'[n].saving, NEW K, K = promise'[n].kept,
         Has(n, A)', K \subseteq A,
         InObject(n, "vertex", K)', mode' = "edge" /\ n \notin torn' => InObject(n, "inverted", K)',
         a.op \in {"flush", "release", "close"} /\ a.at \in Saving =>
           \A D : D = (IF a.op = "close" THEN K ELSE S) => SaveOk(n, a, D)'
  PROVE  StateInv(n)'
<1>1. a.op = "load" =>
           /\ a.at = "load vertex" /\ mode' = "edge" /\ n \notin torn' /\ K # {} =>
                space'[n] # 0 /\ K \subseteq Postings(space[n])'
           /\ a.at = "flag" => Has(n, K)'
  OBVIOUS
<1>2. a.op \in {"create", "delete"} => A = {} /\ S = {} /\ K = {}
  OBVIOUS
<1>3. n \in loaded' \/ (a.op = "release" /\ a.at \in Saving) => Has(n, A)' /\ K \subseteq A
  OBVIOUS
<1> QED BY <1>1, <1>2, <1>3, StateOfOne, ZenonT(60)

\* So what is left to see is the bucket, and what the call goes on with.
LEMMA SaveState ==
  ASSUME TypeInv, OneInv, NEW w \in Workers, AdminStep(w), NEW n, n = work[w].name, NameInv(n),
         work[w].op \in Salvagers, work[w].at \in Saving,
         NEW A, A = promise[n].acked, NEW S, S = promise[n].saving, NEW K, K \subseteq A,
         promise'[n].acked = A, promise'[n].saving = S, promise'[n].kept = K,
         InObject(n, "vertex", K)', mode = "edge" /\ n \notin torn => InObject(n, "inverted", K)',
         NEW a, a = work'[w],
         a # Idle /\ a.at \in Saving => \A D : D = (IF a.op = "close" THEN K ELSE S) => SaveOk(n, a, D)'
  PROVE  StateInv(n)'
<1>1. OneOn(w, n)
  BY StepIsOne
<1>2. mode' = mode /\ torn' = torn
  BY SaveMemory
<1>3. Has(n, A)'
  <2>1. PICK D : D = (IF work[w].op = "close" THEN promise[n].kept ELSE promise[n].saving)
    OBVIOUS
  <2>2. Has(n, A)
    BY <2>1, SaveKnows
  <2> QED BY <2>2, SaveMemory
<1>4. a = Idle \/ a.op \in Salvagers
  BY AdminCourse DEF But, CallFields
<1>5. a.op \notin {"load", "create", "delete"}
  BY <1>4 DEF Idle, Salvagers
<1>6. a.op \in {"flush", "release", "close"} /\ a.at \in Saving =>
           \A D : D = (IF a.op = "close" THEN K ELSE S) => SaveOk(n, a, D)'
  BY <1>4 DEF Idle, Salvagers
<1>7. mode' = "edge" /\ n \notin torn' => InObject(n, "inverted", K)'
  BY <1>2
<1>8. A = promise'[n].acked /\ S = promise'[n].saving /\ K = promise'[n].kept /\ a = work'[w]
  OBVIOUS
<1> QED BY <1>1, <1>3, <1>5, <1>6, <1>7, <1>8, SaverOfOne

\* What a put leaves as it was, and what it puts.
LEMMA PutObjects ==
  ASSUME NEW n, NEW o, NEW d, bucket' = bucket \/ Puts(n, o, d), NEW p \in {"meta", "vertex", "inverted"} \ {o},
         NEW T, InObject(n, p, T)
  PROVE  InObject(n, p, T)'
<1>1. T # {} => Readable(n, p) /\ T \subseteq bucket[n][p]
  BY DEF InObject
<1>2. bucket[n] # NoBucket => bucket'[n] # NoBucket /\ bucket'[n][p] = bucket[n][p]
  BY DEF Puts
<1> QED BY <1>1, <1>2 DEF InObject, Readable

\* The object that is put has what the data has.
LEMMA PutsObject ==
  ASSUME NEW n, NEW o, NEW d, Puts(n, o, d), NEW T, T # {} => d \in SUBSET Vertex /\ T \subseteq d
  PROVE  InObject(n, o, T)'
<1>1. T # {} => d \notin {NoObject, Unreadable}
  BY ObjectsAssumption
<1>2. bucket'[n] # NoBucket /\ bucket'[n][o] = d
  BY DEF Puts
<1> QED BY <1>1, <1>2 DEF InObject, Readable

\* On to the next object.
LEMMA NextOk ==
  ASSUME TypeInv, NEW w \in Workers, Busy(w), NEW n, n = work[w].name, NEW D, SaveOk(n, work[w], D),
         NEW at \in {"vertex", "inverted"}, NextObject(w, at),
         promise' = promise, loaded' = loaded, space'[n] = space[n],
         at = "inverted" /\ work[w].op # "close" => InObject(n, "vertex", D)', NEW a, a = work'[w]
  PROVE  a.op = work[w].op /\ SaveOk(n, a, D)'
<1>1. But(w, {"at", "to", "map", "data"}) /\ a.at = at /\ a.to = space[n] /\ a.map = 0 /\ a.data = {}
  BY NextBut DEF TypeInv, Space
<1>2. a.op = work[w].op
  BY <1>1 DEF But, CallFields
<1>3. MapShards \in Nat \ {0} /\ {} # Unreadable
  BY VectorStoresAssumption, ObjectsAssumption
<1>4. (a.op # "release" => n \in loaded') /\ promise'[n].kept \subseteq D /\ D \subseteq promise'[n].acked
  BY <1>2 DEF SaveOk
<1>5. \A y \in D : ~ (MapOf(y.id) < 0)
  <2>1. D \subseteq Vertex
    <3>1. D \subseteq promise[n].acked /\ n \in Names
      BY CallTyped DEF SaveOk, TypeInv, Typed
    <3> QED BY <3>1 DEF TypeInv, PromisesTyped, PromiseTyped
  <2>2. ASSUME NEW y \in D
        PROVE  ~ (MapOf(y.id) < 0)
    <3>1. y.id \in Int
      BY <2>1, <2>2 DEF Vertex
    <3> QED BY <1>3, <3>1 DEF MapOf
  <2> QED BY <2>2
<1>6. a.at = "vertex" /\ D # {} =>
        a.data # Unreadable /\ \A y \in D : MapOf(y.id) < a.map => y \in a.data
  BY <1>1, <1>3, <1>5
<1>7. ~ (a.at = "inverted" /\ a.map = MapShards /\ D # {})
  BY <1>1, <1>3
<1>8. a.at # "meta" => a.to = space'[n]
  BY <1>1
<1>9. a.at = "inverted" /\ a.op # "close" => InObject(n, "vertex", D)'
  BY <1>1, <1>2
<1> QED BY <1>2, <1>4, <1>6, <1>7, <1>8, <1>9 DEF SaveOk

\* Where the promises stay, the salvage stays.
LEMMA SaveSame ==
  ASSUME TypeInv, OneInv, NEW w \in Workers, AdminStep(w), NEW n, n = work[w].name, NameInv(n),
         work[w].op \in Salvagers, work[w].at \in Saving, promise' = promise,
         \A K : K = promise[n].kept => InObject(n, "vertex", K)',
         mode = "edge" /\ n \notin torn => \A K : K = promise[n].kept => InObject(n, "inverted", K)',
         NEW a, a = work'[w], NEW D, D = (IF work[w].op = "close" THEN promise[n].kept ELSE promise[n].saving),
         a # Idle /\ a.at \in Saving => a.op = work[w].op /\ SaveOk(n, a, D)'
  PROVE  StateInv(n)'
<1>1. PICK A, S, K : A = promise[n].acked /\ S = promise[n].saving /\ K = promise[n].kept
  OBVIOUS
<1>2. K \subseteq A /\ promise'[n].acked = A /\ promise'[n].saving = S /\ promise'[n].kept = K
  BY <1>1, SaveKnows
<1>3. a # Idle /\ a.at \in Saving => \A E : E = (IF a.op = "close" THEN K ELSE S) => SaveOk(n, a, E)'
  BY <1>1
<1>4. InObject(n, "vertex", K)' /\ (mode = "edge" /\ n \notin torn => InObject(n, "inverted", K)')
  BY <1>1, <1>2 DEF InObject
<1> QED BY <1>1, <1>2, <1>3, <1>4, SaveState

\* The metadata.
LEMMA SaveMetaState ==
  ASSUME NoRecord, TypeInv, OneInv, NEW w \in Workers, SaveMeta(w), NEW n, n = work[w].name, NameInv(n),
         work[w].op \in Salvagers
  PROVE  StateInv(n)'
<1>1. AdminStep(w) /\ work[w].at \in Saving /\ promise' = promise /\ loaded' = loaded
  BY DEF AdminStep, SaveMeta, At, Saving, flags
<1>2. PICK D, K, a : /\ D = (IF work[w].op = "close" THEN promise[n].kept ELSE promise[n].saving)
                     /\ K = promise[n].kept /\ a = work'[w]
  OBVIOUS
<1>3. /\ Busy(w) /\ WorkTyped /\ SaveOk(n, work[w], D)
      /\ InObject(n, "vertex", K) /\ (mode = "edge" /\ n \notin torn => InObject(n, "inverted", K))
  BY <1>1, <1>2, SaveKnows
<1>4. bucket' = bucket \/ Puts(n, "meta", TRUE)
  BY SavePuts
<1>5. InObject(n, "vertex", K)' /\ (mode = "edge" /\ n \notin torn => InObject(n, "inverted", K)')
  <2>1. ASSUME NEW p \in {"vertex", "inverted"}, InObject(n, p, K)
        PROVE  InObject(n, p, K)'
    <3>1. p \in {"meta", "vertex", "inverted"} \ {"meta"}
      OBVIOUS
    <3> QED BY <1>4, <2>1, <3>1, PutObjects
  <2> QED BY <1>3, <2>1
<1>6. space'[n] = space[n]
  BY <1>1, SaveMemory
<1>7. a = Idle \/ NextObject(w, "vertex")
  BY <1>2, <1>3, ReturnEnds DEF SaveMeta, Abandon, Ends, Salvagers
<1>8. a # Idle => a.op = work[w].op /\ SaveOk(n, a, D)'
  BY <1>1, <1>2, <1>3, <1>6, <1>7, NextOk
<1>9. (\A L : L = promise[n].kept => InObject(n, "vertex", L)') /\
      (mode = "edge" /\ n \notin torn => \A L : L = promise[n].kept => InObject(n, "inverted", L)')
  BY <1>1, <1>2, <1>5 DEF InObject
<1> QED BY <1>1, <1>2, <1>8, <1>9, SaveSame

\* Where neither the bucket nor the promises change.
LEMMA SaveReads ==
  ASSUME TypeInv, OneInv, NEW w \in Workers, AdminStep(w), NEW n, n = work[w].name, NameInv(n),
         work[w].op \in Salvagers, work[w].at \in Saving, promise' = promise, bucket' = bucket,
         NEW a, a = work'[w], NEW D, D = (IF work[w].op = "close" THEN promise[n].kept ELSE promise[n].saving),
         a # Idle /\ a.at \in Saving => a.op = work[w].op /\ SaveOk(n, a, D)'
  PROVE  StateInv(n)'
<1>1. PICK K : K = promise[n].kept
  OBVIOUS
<1>2. InObject(n, "vertex", K) /\ (mode = "edge" /\ n \notin torn => InObject(n, "inverted", K))
  BY <1>1, SaveKnows
<1>3. InObject(n, "vertex", K)' /\ (mode = "edge" /\ n \notin torn => InObject(n, "inverted", K)')
  BY <1>2 DEF InObject, Readable
<1>4. (\A L : L = promise[n].kept => InObject(n, "vertex", L)') /\
      (mode = "edge" /\ n \notin torn => \A L : L = promise[n].kept => InObject(n, "inverted", L)')
  BY <1>1, <1>3
<1> QED BY <1>4, SaveSame

\* A map of the vertices.
LEMMA SaveVertexMapState ==
  ASSUME TypeInv, OneInv, NEW w \in Workers, SaveVertexMap(w), NEW n, n = work[w].name, NameInv(n),
         work[w].op \in Salvagers
  PROVE  StateInv(n)'
<1>1. /\ AdminStep(w) /\ work[w].at = "vertex" /\ work[w].at \in Saving /\ work[w].map < MapShards
      /\ promise' = promise /\ bucket' = bucket /\ loaded' = loaded /\ work[w].to # 0
      /\ work' = [work EXCEPT ![w].map = work[w].map + 1,
                              ![w].data = work[w].data \cup Part(work[w].to, work[w].map)]
  BY DEF AdminStep, SaveVertexMap, At, Saving, flags
<1>2. PICK D, a, A, i, d :
        /\ D = (IF work[w].op = "close" THEN promise[n].kept ELSE promise[n].saving)
        /\ a = work'[w] /\ A = promise[n].acked /\ i = work[w].map /\ d = work[w].data
  OBVIOUS
<1>3. Busy(w) /\ WorkTyped /\ n \in Names /\ SaveOk(n, work[w], D) /\ Has(n, A) /\ D \subseteq A
  BY <1>1, <1>2, SaveKnows, ZenonT(60)
<1>4. PICK P : P = Part(work[w].to, i)
  OBVIOUS
<1>5. But(w, {"map", "data"}) /\ a.map = i + 1 /\ a.data = d \cup P
  BY <1>1, <1>2, <1>3, <1>4, ReadBut
<1>6. a.op = work[w].op /\ a.at = "vertex" /\ a.to = work[w].to
  BY <1>1, <1>2, <1>5 DEF But, CallFields
<1>7. d \in SUBSET Vertex /\ P \in SUBSET Vertex /\ i \in Nat /\ MapShards \in Nat \ {0}
  <2>1. Typed(work[w])
    BY <1>3, CallTyped
  <2>2. MapShards \in Nat \ {0}
    BY VectorStoresAssumption
  <2>3. work[w].op \in AdminOps
    BY DEF Salvagers, AdminOps
  <2>4. d \in SUBSET Vertex /\ i \in 0 .. MapShards
    BY <1>1, <1>2, <2>1, <2>3 DEF Typed
  <2>5. P \in SUBSET Vertex
    BY <1>1, <1>3, <1>4, PartTyped
  <2> QED BY <2>2, <2>4, <2>5
<1>8. ASSUME NEW y \in D, MapOf(y.id) < i + 1
      PROVE  y \in d \cup P
  <2>1. y \in A /\ y \in Vertex
    BY <1>2, <1>3, <1>8 DEF TypeInv, PromisesTyped, PromiseTyped
  <2>2. MapOf(y.id) \in Int
    BY <1>7, <2>1 DEF MapOf, Vertex
  <2>3. CASE MapOf(y.id) < i
    BY <1>1, <1>2, <1>3, <1>8, <2>3 DEF SaveOk
  <2>4. CASE MapOf(y.id) = i
    <3>1. y \in spaces[work[w].to].vertices
      BY <1>1, <1>3, <2>1 DEF Has, SaveOk
    <3> QED BY <1>4, <2>4, <3>1 DEF Part
  <2> QED BY <1>7, <1>8, <2>2, <2>3, <2>4
<1>9. space'[n] = space[n]
  BY <1>1, SaveMemory
<1>10. SaveOk(n, a, D)'
  <2>1. (a.op # "release" => n \in loaded') /\ promise'[n].kept \subseteq D /\ D \subseteq promise'[n].acked
        /\ (a.at # "meta" => a.to = space'[n])
    BY <1>1, <1>3, <1>6, <1>9 DEF SaveOk
  <2>2. a.at = "vertex" /\ D # {} =>
          a.data # Unreadable /\ \A y \in D : MapOf(y.id) < a.map => y \in a.data
    BY <1>5, <1>7, <1>8, ObjectsAssumption
  <2> QED BY <1>6, <2>1, <2>2 DEF SaveOk
<1> QED BY <1>1, <1>2, <1>6, <1>10, SaveReads

\* What is not to be found, Close does not keep.
LEMMA SaveDrops ==
  ASSUME TypeInv, OneInv, NEW w \in Workers, AdminStep(w), NEW n, n = work[w].name, NameInv(n),
         work[w].op = "close", work[w].at \in {"vertex", "inverted"}, bucket' = bucket, loaded' = loaded,
         But(w, {"map", "data"}), Pledge(n, promise[n].calls, promise[n].acked, promise[n].saving, {})
  PROVE  StateInv(n)'
<1>1. work[w].op \in Salvagers /\ work[w].at \in Saving
  BY DEF Salvagers, Saving
<1>2. PICK A, S, K, a : A = promise[n].acked /\ S = promise[n].saving /\ K = {} /\ a = work'[w]
  OBVIOUS
<1>3. PICK D : D = (IF work[w].op = "close" THEN promise[n].kept ELSE promise[n].saving)
  OBVIOUS
<1>4. Busy(w) /\ WorkTyped /\ n \in Names /\ SaveOk(n, work[w], D)
  BY <1>1, <1>3, SaveKnows
<1>5. Pledge(n, promise[n].calls, A, S, K)
  BY <1>2
<1>7. a.op = "close" /\ a.to = work[w].to
  BY <1>2 DEF But, CallFields
<1>8. space'[n] = space[n]
  BY <1>1, SaveMemory
<1>9. SaveOk(n, a, K)'
  <2>1. n \in loaded' /\ promise'[n].kept \subseteq K /\ K \subseteq promise'[n].acked /\ a.to = space'[n]
    BY <1>2, <1>4, <1>5, <1>7, <1>8 DEF SaveOk, Pledge
  <2> QED BY <1>2, <1>7, <2>1 DEF SaveOk
<1>10. a # Idle /\ a.at \in Saving => \A E : E = (IF a.op = "close" THEN K ELSE S) => SaveOk(n, a, E)'
  BY <1>7, <1>9
<1>11. InObject(n, "vertex", K)' /\ (mode = "edge" /\ n \notin torn => InObject(n, "inverted", K)')
  BY <1>2 DEF InObject
<1>12. K \subseteq A /\ promise'[n].acked = A /\ promise'[n].saving = S /\ promise'[n].kept = K
  BY <1>2, <1>5 DEF Pledge
<1>13. A = promise[n].acked /\ S = promise[n].saving /\ a = work'[w]
  BY <1>2
<1> QED BY <1>1, <1>10, <1>11, <1>12, <1>13, SaveState

\* A call that is over.
LEMMA SaveOver ==
  ASSUME TypeInv, OneInv, NEW w \in Workers, AdminStep(w), NEW n, n = work[w].name, NameInv(n),
         work[w].op \in Salvagers, work[w].at \in Saving, promise' = promise, bucket' = bucket, Return(w)
  PROVE  StateInv(n)'
<1>1. work'[w] = Idle
  BY ReturnEnds DEF Ends, TypeInv
<1>2. PICK a, D : a = work'[w] /\ D = (IF work[w].op = "close" THEN promise[n].kept ELSE promise[n].saving)
  OBVIOUS
<1> QED BY <1>1, <1>2, SaveReads

\* A map that cannot be written ends the save, or leaves Close with nothing to keep.
LEMMA SaveVertexFailsState ==
  ASSUME TypeInv, OneInv, NEW w \in Workers, SaveVertexFails(w), NEW n, n = work[w].name, NameInv(n),
         work[w].op \in Salvagers
  PROVE  StateInv(n)'
<1>1. /\ AdminStep(w) /\ work[w].at = "vertex" /\ work[w].at \in Saving /\ bucket' = bucket /\ loaded' = loaded
  BY DEF AdminStep, SaveVertexFails, At, Saving, flags
<1>2. CASE work[w].op = "close"
  <2>1. /\ work' = [work EXCEPT ![w].map = MapShards, ![w].data = Unreadable]
        /\ promise' = [promise EXCEPT ![n].kept = {}]
    BY <1>2 DEF SaveVertexFails
  <2>2. Busy(w) /\ n \in Names
    BY <1>1, AdminPledges
  <2>3. But(w, {"map", "data"})
    BY <2>1, <2>2, ReadBut DEF TypeInv
  <2>4. Pledge(n, promise[n].calls, promise[n].acked, promise[n].saving, {})
    BY <2>1, <2>2, PledgeKept DEF TypeInv
  <2> QED BY <1>1, <1>2, <2>3, <2>4, SaveDrops
<1>3. CASE work[w].op # "close"
  <2>1. Return(w) /\ promise' = promise
    BY <1>3 DEF SaveVertexFails, Abandon, Salvagers
  <2> QED BY <1>1, <2>1, SaveOver
<1> QED BY <1>2, <1>3

\* A save that ends well has put what it was to save.
LEMMA SavedState ==
  ASSUME TypeInv, OneInv, NEW w \in Workers, AdminStep(w), NEW n, n = work[w].name, NameInv(n),
         work[w].op \in Salvagers, work[w].at \in Saving, Saved(w),
         NEW D, D = (IF work[w].op = "close" THEN promise[n].kept ELSE promise[n].saving),
         InObject(n, "vertex", D)', mode = "edge" /\ n \notin torn => InObject(n, "inverted", D)'
  PROVE  StateInv(n)'
<1>1. Busy(w) /\ WorkTyped /\ n \in Names /\ D \subseteq promise[n].acked
  BY SaveKnows
<1>2. Pledge(n, promise[n].calls, promise[n].acked, promise[n].saving, D)
  <2>1. CASE work[w].op = "close"
    <3>1. promise' = promise
      BY <2>1 DEF Saved
    <3> QED BY <1>1, <2>1, <3>1 DEF Pledge, TypeInv, PromisesTyped, PromiseTyped
  <2>2. CASE work[w].op # "close"
    <3>1. promise' = [promise EXCEPT ![n].kept = promise[n].saving]
      BY <2>2 DEF Saved, Salvagers
    <3>2. Pledge(n, promise[n].calls, promise[n].acked, promise[n].saving, promise[n].saving)
      BY <1>1, <3>1, PledgeKept DEF TypeInv
    <3> QED BY <2>2, <3>2
  <2> QED BY <2>1, <2>2
<1>3. PICK a, A, S : a = work'[w] /\ A = promise[n].acked /\ S = promise[n].saving
  OBVIOUS
<1>4. a # Idle => a.at \notin Saving
  <2>1. CASE Return(w)
    BY <1>1, <1>3, <2>1, ReturnEnds DEF Ends
  <2>2. CASE Go(w, IF mode = "edge" THEN "destroy" ELSE "unflag")
    <3>1. PICK at : at = (IF mode = "edge" THEN "destroy" ELSE "unflag") /\ Go(w, at)
      BY <2>2
    <3>2. a.at = at
      BY <1>1, <1>3, <3>1, GoBut
    <3> QED BY <3>1, <3>2 DEF Saving
  <2> QED BY <2>1, <2>2 DEF Saved, Salvagers
<1>5. a # Idle /\ a.at \in Saving => \A E : E = (IF a.op = "close" THEN D ELSE S) => SaveOk(n, a, E)'
  BY <1>4
<1>6. D \subseteq A /\ promise'[n].acked = A /\ promise'[n].saving = S /\ promise'[n].kept = D
  BY <1>1, <1>2, <1>3 DEF Pledge
<1> QED BY <1>3, <1>5, <1>6, SaveState

\* The object of the vertices.
LEMMA SaveVertexPutState ==
  ASSUME NoRecord, TypeInv, OneInv, NEW w \in Workers, SaveVertexPut(w), NEW n, n = work[w].name, NameInv(n),
         work[w].op \in Salvagers
  PROVE  StateInv(n)'
<1>1. /\ AdminStep(w) /\ work[w].at = "vertex" /\ work[w].at \in Saving /\ work[w].map = MapShards
  BY DEF AdminStep, SaveVertexPut, At, Saving
<1>2. PICK D, K, a, d :
        /\ D = (IF work[w].op = "close" THEN promise[n].kept ELSE promise[n].saving)
        /\ K = promise[n].kept /\ a = work'[w] /\ d = work[w].data
  OBVIOUS
<1>3. /\ Busy(w) /\ WorkTyped /\ n \in Names /\ SaveOk(n, work[w], D) /\ K \subseteq D
      /\ D \subseteq promise[n].acked
      /\ InObject(n, "vertex", K) /\ (mode = "edge" /\ n \notin torn => InObject(n, "inverted", K))
  BY <1>1, <1>2, SaveKnows
<1>4. space'[n] = space[n]
  BY <1>1, SaveMemory
<1>5. d \in {Unreadable} \cup SUBSET Vertex
  BY <1>2, <1>3, CallTyped DEF Typed, Salvagers, AdminOps
<1>6. CASE /\ PutObject(w, "vertex")
           /\ IF mode = "edge" THEN NextObject(w, "inverted") /\ loaded' = loaded /\ promise' = promise
              ELSE Saved(w)
  <2>1. Puts(n, "vertex", d)
    <3>1. bucket[n] # NoBucket /\ bucket' = [bucket EXCEPT ![n]["vertex"] = d]
      BY <1>2, <1>6 DEF PutObject
    <3>2. d \in Object /\ BucketTyped
      BY <1>5 DEF Object, TypeInv
    <3> QED BY <1>3, <3>1, <3>2, PutBucket
  <2>2. D # {} => d \in SUBSET Vertex /\ D \subseteq d
    <3>1. D # {} => d # Unreadable /\ \A y \in D : MapOf(y.id) < MapShards => y \in d
      BY <1>1, <1>2, <1>3 DEF SaveOk
    <3>2. ASSUME NEW y \in D
          PROVE  MapOf(y.id) < MapShards
      <4>1. y \in Vertex
        BY <1>3, <3>2 DEF TypeInv, PromisesTyped, PromiseTyped
      <4>2. y.id \in Int /\ MapShards \in Nat \ {0}
        BY <4>1, VectorStoresAssumption DEF Vertex
      <4> QED BY <4>2 DEF MapOf
    <3> QED BY <1>5, <3>1, <3>2
  <2>3. InObject(n, "vertex", D)'
    BY <2>1, <2>2, PutsObject
  <2>4. CASE mode = "edge"
    <3>1. NextObject(w, "inverted") /\ loaded' = loaded /\ promise' = promise
      BY <1>6, <2>4
    <3>2. a.op = work[w].op /\ SaveOk(n, a, D)'
      BY <1>2, <1>3, <1>4, <2>3, <3>1, NextOk
    <3>3. InObject(n, "vertex", K)'
      BY <1>3, <2>3 DEF InObject
    <3>4. InObject(n, "inverted", K) => InObject(n, "inverted", K)'
      <4>1. "inverted" \in {"meta", "vertex", "inverted"} \ {"vertex"}
        OBVIOUS
      <4> QED BY <2>1, <4>1, PutObjects
    <3>5. (\A L : L = promise[n].kept => InObject(n, "vertex", L)') /\
          (mode = "edge" /\ n \notin torn => \A L : L = promise[n].kept => InObject(n, "inverted", L)')
      BY <1>2, <1>3, <3>3, <3>4
    <3> QED BY <1>1, <1>2, <3>1, <3>2, <3>5, SaveSame
  <2>5. CASE mode # "edge"
    <3>1. Saved(w)
      BY <1>6, <2>5
    <3> QED BY <1>1, <1>2, <2>3, <2>5, <3>1, SavedState
  <2> QED BY <2>4, <2>5
<1>7. CASE /\ bucket' = bucket
           /\ IF mode = "multi" /\ work[w].op = "close" THEN Saved(w)
              ELSE Abandon(w, "inverted") /\ loaded' = loaded /\ promise' = promise
  <2>1. CASE work[w].op = "close" /\ Saved(w)
    <3>1. D = K
      BY <1>2, <2>1
    <3>2. InObject(n, "vertex", D)' /\ (mode = "edge" /\ n \notin torn => InObject(n, "inverted", D)')
      BY <1>3, <1>7, <3>1 DEF InObject, Readable
    <3> QED BY <1>1, <1>2, <2>1, <3>2, SavedState
  <2>2. CASE Abandon(w, "inverted") /\ loaded' = loaded /\ promise' = promise
    <3>1. CASE work[w].op = "close"
      <4>1. NextObject(w, "inverted")
        BY <2>2, <3>1 DEF Abandon
      <4>2. a.op = work[w].op /\ SaveOk(n, a, D)'
        BY <1>2, <1>3, <1>4, <2>2, <3>1, <4>1, NextOk
      <4> QED BY <1>1, <1>2, <1>7, <2>2, <4>2, SaveReads
    <3>2. CASE work[w].op # "close"
      <4>1. Return(w)
        BY <2>2, <3>2 DEF Abandon, Salvagers
      <4> QED BY <1>1, <1>7, <2>2, <4>1, SaveOver
    <3> QED BY <3>1, <3>2
  <2> QED BY <1>7, <2>1, <2>2
<1> QED BY <1>6, <1>7 DEF SaveVertexPut

\* The inverted index is read under its lock: all that was acknowledged is in it.
LEMMA SaveInvertedState ==
  ASSUME TypeInv, OneInv, NEW w \in Workers, SaveInverted(w), NEW n, n = work[w].name, NameInv(n),
         work[w].op \in Salvagers
  PROVE  StateInv(n)'
<1>1. /\ AdminStep(w) /\ work[w].at = "inverted" /\ work[w].at \in Saving /\ bucket' = bucket /\ loaded' = loaded
  BY DEF AdminStep, SaveInverted, At, Saving, flags
<1>2. PICK D, a, A, d :
        /\ D = (IF work[w].op = "close" THEN promise[n].kept ELSE promise[n].saving)
        /\ a = work'[w] /\ A = promise[n].acked /\ d = Postings(work[w].to)
  OBVIOUS
<1>3. Busy(w) /\ WorkTyped /\ n \in Names /\ SaveOk(n, work[w], D) /\ Has(n, A) /\ D \subseteq A
  BY <1>1, <1>2, SaveKnows
<1>4. CASE /\ work[w].to # 0 /\ promise' = promise
           /\ work' = [work EXCEPT ![w].map = MapShards, ![w].data = d]
  <2>1. But(w, {"map", "data"}) /\ a.map = MapShards /\ a.data = d
    BY <1>2, <1>3, <1>4, ReadBut
  <2>2. a.op = work[w].op /\ a.at = "inverted" /\ a.to = work[w].to
    BY <1>1, <1>2, <2>1 DEF But, CallFields
  <2>3. d \in SUBSET Vertex
    BY <1>2, <1>3, <1>4, PartTyped
  <2>4. D # {} /\ mode = "edge" /\ n \notin torn => D \subseteq d
    BY <1>1, <1>2, <1>3 DEF Has, SaveOk
  <2>5. space'[n] = space[n] /\ mode' = mode /\ torn' = torn
    BY <1>1, SaveMemory
  <2>6. a.op # "close" => InObject(n, "vertex", D)'
    BY <1>1, <1>3, <2>2 DEF SaveOk, InObject, Readable
  <2>7. SaveOk(n, a, D)'
    <3>1. (a.op # "release" => n \in loaded') /\ promise'[n].kept \subseteq D /\ D \subseteq promise'[n].acked
          /\ (a.at # "meta" => a.to = space'[n])
      BY <1>1, <1>3, <1>4, <2>2, <2>5 DEF SaveOk
    <3>2. D # {} => a.data # Unreadable /\ (mode' = "edge" /\ n \notin torn' => D \subseteq a.data)
      BY <2>1, <2>3, <2>4, <2>5, ObjectsAssumption
    <3> QED BY <2>2, <2>6, <3>1, <3>2 DEF SaveOk
  <2> QED BY <1>1, <1>2, <1>4, <2>2, <2>7, SaveReads
<1>5. CASE /\ work[w].op = "close" /\ promise' = [promise EXCEPT ![n].kept = {}]
           /\ work' = [work EXCEPT ![w].map = MapShards, ![w].data = Unreadable]
  <2>1. But(w, {"map", "data"})
    BY <1>3, <1>5, ReadBut
  <2>2. Pledge(n, promise[n].calls, promise[n].acked, promise[n].saving, {})
    BY <1>3, <1>5, PledgeKept DEF TypeInv
  <2> QED BY <1>1, <1>5, <2>1, <2>2, SaveDrops
<1>6. CASE work[w].op # "close" /\ Abandon(w, "") /\ promise' = promise
  <2>1. Return(w)
    BY <1>6 DEF Abandon, Salvagers
  <2> QED BY <1>1, <1>6, <2>1, SaveOver
<1> QED BY <1>2, <1>4, <1>5, <1>6 DEF SaveInverted

\* The object of the inverted index is the last: with it all is kept.
LEMMA SaveInvertedPutState ==
  ASSUME NoRecord, TypeInv, OneInv, NEW w \in Workers, SaveInvertedPut(w), NEW n, n = work[w].name, NameInv(n),
         work[w].op \in Salvagers
  PROVE  StateInv(n)'
<1>1. /\ AdminStep(w) /\ work[w].at = "inverted" /\ work[w].at \in Saving /\ work[w].map = MapShards
  BY DEF AdminStep, SaveInvertedPut, At, Saving
<1>2. PICK D, K, d :
        /\ D = (IF work[w].op = "close" THEN promise[n].kept ELSE promise[n].saving)
        /\ K = promise[n].kept /\ d = work[w].data
  OBVIOUS
<1>3. /\ Busy(w) /\ WorkTyped /\ n \in Names /\ SaveOk(n, work[w], D)
      /\ InObject(n, "vertex", K) /\ (mode = "edge" /\ n \notin torn => InObject(n, "inverted", K))
  BY <1>1, <1>2, SaveKnows
<1>4. d \in {Unreadable} \cup SUBSET Vertex
  BY <1>2, <1>3, CallTyped DEF Typed, Salvagers, AdminOps
<1>5. InObject(n, "vertex", D)
  BY <1>1, <1>2, <1>3 DEF SaveOk
<1>6. CASE PutObject(w, "inverted") /\ Saved(w)
  <2>1. Puts(n, "inverted", d)
    <3>1. bucket[n] # NoBucket /\ bucket' = [bucket EXCEPT ![n]["inverted"] = d]
      BY <1>2, <1>6 DEF PutObject
    <3>2. d \in Object /\ BucketTyped
      BY <1>4 DEF Object, TypeInv
    <3> QED BY <1>3, <3>1, <3>2, PutBucket
  <2>2. InObject(n, "vertex", D)'
    <3>1. "vertex" \in {"meta", "vertex", "inverted"} \ {"inverted"}
      OBVIOUS
    <3> QED BY <1>5, <2>1, <3>1, PutObjects
  <2>3. ASSUME mode = "edge" /\ n \notin torn
        PROVE  InObject(n, "inverted", D)'
    <3>1. D # {} => d \in SUBSET Vertex /\ D \subseteq d
      BY <1>1, <1>2, <1>3, <1>4, <2>3 DEF SaveOk
    <3> QED BY <2>1, <3>1, PutsObject
  <2> QED BY <1>1, <1>2, <1>6, <2>2, <2>3, SavedState
<1>7. CASE bucket' = bucket /\ work[w].op = "close" /\ Saved(w)
  <2>1. D = K
    BY <1>2, <1>7
  <2>2. InObject(n, "vertex", D)' /\ (mode = "edge" /\ n \notin torn => InObject(n, "inverted", D)')
    BY <1>3, <1>7, <2>1 DEF InObject, Readable
  <2> QED BY <1>1, <1>2, <1>7, <2>2, SavedState
<1>8. CASE bucket' = bucket /\ work[w].op # "close" /\ Abandon(w, "") /\ promise' = promise
  <2>1. Return(w)
    BY <1>8 DEF Abandon, Salvagers
  <2> QED BY <1>1, <1>8, <2>1, SaveOver
<1> QED BY <1>6, <1>7, <1>8 DEF SaveInvertedPut

\* So a call on a collection leaves it with all it promised, at every step.
LEMMA AdminOwn ==
  ASSUME NoRecord, Shape, TypeInv, ServedInv, OneInv, NEW w \in Workers, AdminStep(w), NEW n, n = work[w].name,
         NameInv(n)
  PROVE  StateInv(n)'
<1>1. work[w].op \in AdminOps
  BY AdminPledges
<1>2. CASE work[w].op \in {"create", "delete"}
  BY <1>2, EmptyStep
<1>3. CASE work[w].op = "load"
  <2>1. LoadFill(w) \/ LoadInverted(w) \/ LoadVertex(w) \/ SetFlags(w)
    BY <1>3 DEF AdminStep, CreateBucket, CreateSpace, CreateUndoBucket, CreateUndoFlags, DestroySpace, DeleteFlags,
       DeleteBucket, ReleaseUnflag, SaveMeta, SaveVertexMap, SaveVertexFails, SaveVertexPut, SaveInverted,
       SaveInvertedPut, At, Savers
  <2> QED BY <1>3, <2>1, LoadState, FlagState
<1>4. CASE work[w].op \in Salvagers
  <2>1. \/ (work[w].op = "release" /\ (ReleaseUnflag(w) \/ DestroySpace(w)))
        \/ SaveMeta(w) \/ SaveVertexMap(w) \/ SaveVertexFails(w) \/ SaveVertexPut(w)
        \/ SaveInverted(w) \/ SaveInvertedPut(w)
    BY <1>4 DEF AdminStep, CreateBucket, CreateSpace, CreateUndoBucket, CreateUndoFlags, DestroySpace, DeleteFlags,
       DeleteBucket, ReleaseUnflag, LoadFill, LoadInverted, LoadVertex, SetFlags, At, Salvagers
  <2>2. CASE work[w].op = "release" /\ (ReleaseUnflag(w) \/ DestroySpace(w))
    BY <2>2, ReleasedState
  <2>3. CASE SaveMeta(w)
    BY <1>4, <2>3, SaveMetaState
  <2>4. CASE SaveVertexMap(w)
    BY <1>4, <2>4, SaveVertexMapState
  <2>5. CASE SaveVertexFails(w)
    BY <1>4, <2>5, SaveVertexFailsState
  <2>6. CASE SaveVertexPut(w)
    BY <1>4, <2>6, SaveVertexPutState
  <2>7. CASE SaveInverted(w)
    BY <1>4, <2>7, SaveInvertedState
  <2>8. CASE SaveInvertedPut(w)
    BY <1>4, <2>8, SaveInvertedPutState
  <2> QED BY <2>1, <2>2, <2>3, <2>4, <2>5, <2>6, <2>7, <2>8
<1> QED BY <1>1, <1>2, <1>3, <1>4 DEF AdminOps, Salvagers

\* A save of a loaded collection begins: it is to keep all that is acknowledged.
LEMMA SaveBegins ==
  ASSUME NEW n, NEW w \in Workers, OneOn(w, n), n \in loaded, AckedInv(n), KeptInv(n),
         UNCHANGED <<mode, bucket, space, spaces, shards, torn>>,
         NEW a, a = work'[w], a.op \in Salvagers, a.at = "meta", a.op # "release" => n \in loaded',
         NEW A, A = promise[n].acked, promise'[n].acked = A, NEW K, K = promise[n].kept, promise'[n].kept = K,
         NEW S, S = promise'[n].saving, a.op # "close" => S = A
  PROVE  StateInv(n)'
<1>1. Has(n, A) /\ K \subseteq A
  BY DEF AckedInv
<1>2. Has(n, A)'
  BY <1>1 DEF Has, Postings
<1>3. InObject(n, "vertex", K) /\ (mode = "edge" /\ n \notin torn => InObject(n, "inverted", K))
  BY DEF KeptInv
<1>4. InObject(n, "vertex", K)' /\ (mode' = "edge" /\ n \notin torn' => InObject(n, "inverted", K)')
  BY <1>3 DEF InObject, Readable
<1>5. ASSUME NEW D, D = (IF a.op = "close" THEN K ELSE S)
      PROVE  SaveOk(n, a, D)'
  <2>1. promise'[n].kept \subseteq D /\ D \subseteq promise'[n].acked
    BY <1>1, <1>5
  <2> QED BY <2>1 DEF SaveOk
<1>6. a.op \notin {"load", "create", "delete"}
  BY DEF Salvagers
<1>7. /\ A = promise'[n].acked /\ S = promise'[n].saving /\ K = promise'[n].kept
      /\ a.op \in {"flush", "release", "close"} /\ a.at \in Saving =>
           \A D : D = (IF a.op = "close" THEN K ELSE S) => SaveOk(n, a, D)'
  BY <1>5
<1> QED BY <1>1, <1>2, <1>4, <1>6, <1>7, SaverOfOne

\* Who begins with a collection is alone with it.
LEMMA BeginIsOne ==
  ASSUME OneAdmin, TypeInv, OneInv, NEW w \in Workers, NEW n \in Names, Administers(w, n)
  PROVE  OneOn(w, n)
<1>1. Begin(w, n)
  BY DEF Administers, Begin
<1>2. Others(w)
  BY <1>1, BeginStarts DEF Starts
<1>3. CASE CloseCollection(w, n)
  <2>1. \A v \in Workers : ~ Busy(v)
    BY <1>3 DEF CloseCollection
  <2> QED BY <1>2, <2>1 DEF OneOn, Others, On, Busy
<1>4. CASE ~ CloseCollection(w, n)
  <2>1. OneAdmin => Admins = {}
    BY <1>4 DEF Administers, CreateBegin, DeleteBegin, LoadBegin, ReleaseBegin, FlushBegin, BeginAdmin
  <2> QED BY <1>2, <2>1 DEF OneOn, Others, On, Busy, Admins
<1> QED BY <1>3, <1>4

\* A call on a collection begins.
LEMMA BeginOwn ==
  ASSUME OneAdmin, TypeInv, OneInv, NEW w \in Workers, NEW n \in Names, Administers(w, n), NameInv(n)
  PROVE  StateInv(n)'
<1>1. OneOn(w, n)
  BY BeginIsOne
<1>2. UNCHANGED <<mode, bucket, space, spaces, shards, torn>>
  BY BeginStarts DEF Administers, Begin
<1>3. AckedInv(n) /\ KeptInv(n) /\ PromisesTyped
  BY DEF NameInv, TypeInv
<1>4. PICK a, A, K, S : a = work'[w] /\ A = promise[n].acked /\ K = promise[n].kept /\ S = promise'[n].saving
  OBVIOUS
<1>5. CASE CreateBegin(w, n) \/ DeleteBegin(w, n)
  <2>1. Pledge(n, {}, {}, {}, {})
    BY <1>3, <1>5, PledgeNothing DEF CreateBegin, DeleteBegin
  <2>2. PICK op \in {"create", "delete"} : \E at : ~ Busy(w) /\ work' = [work EXCEPT ![w] = Call(op, at, n)]
    BY <1>5 DEF CreateBegin, DeleteBegin, BeginAdmin
  <2>3. work'[w].op = op
    <3>1. PICK at : ~ Busy(w) /\ work' = [work EXCEPT ![w] = Call(op, at, n)]
      BY <2>2
    <3>2. Starts(w, op, at, n, NoVertex)
      BY <3>1, AdminStarts
    <3> QED BY <3>2 DEF Starts
  <2>4. work'[w].op \notin {"flush", "release", "close"}
    BY <2>2, <2>3
  <2> QED BY <1>1, <2>1, <2>4, EmptyState DEF Pledge
<1>6. CASE LoadBegin(w, n)
  <2>1. n \notin loaded' /\ bucket'[n] = bucket[n]
    BY <1>2, <1>6 DEF LoadBegin, flags
  <2>2. Pledge(n, {}, promise[n].acked, promise[n].saving, promise[n].kept)
    BY <1>3, <1>6, PledgeNoCalls DEF LoadBegin
  <2>3. a.op = "load" /\ a.at = "fill"
    BY <1>4, <1>6, AdminStarts DEF LoadBegin, BeginAdmin, Starts
  <2>4. K = promise'[n].kept
    BY <1>4, <2>2 DEF Pledge
  <2>5. /\ a.op = "load" =>
           /\ a.at = "load vertex" /\ mode' = "edge" /\ n \notin torn' /\ K # {} =>
                space'[n] # 0 /\ K \subseteq Postings(space[n])'
           /\ a.at = "flag" => Has(n, K)'
        /\ a.op \notin {"create", "delete"}
        /\ a.op \in {"flush", "release", "close"} => a.at \notin Saving
    BY <2>3
  <2> QED BY <1>1, <1>2, <1>3, <1>4, <2>1, <2>4, <2>5, OutState
<1>7. CASE ReleaseBegin(w, n)
  <2>1. n \in loaded
    BY <1>7 DEF ReleaseBegin
  <2>2. Pledge(n, {}, promise[n].acked, promise[n].acked, promise[n].kept)
    BY <1>3, <1>7, PledgeReleased DEF ReleaseBegin
  <2>3. a.op = "release" /\ a.at = "meta"
    BY <1>4, <1>7, AdminStarts DEF ReleaseBegin, BeginAdmin, Starts
  <2>4. promise'[n].acked = A /\ promise'[n].kept = K /\ S = A /\ a.op \in Salvagers
    BY <1>4, <2>2, <2>3 DEF Pledge, Salvagers
  <2> QED BY <1>1, <1>2, <1>3, <1>4, <2>1, <2>3, <2>4, SaveBegins
<1>8. CASE FlushBegin(w, n)
  <2>1. n \in loaded /\ n \in loaded'
    BY <1>8 DEF FlushBegin, flags
  <2>2. Pledge(n, promise[n].calls, promise[n].acked, promise[n].acked, promise[n].kept)
    BY <1>3, <1>8, PledgeFlushed DEF FlushBegin
  <2>3. a.op = "flush" /\ a.at = "meta"
    BY <1>4, <1>8, AdminStarts DEF FlushBegin, BeginAdmin, Starts
  <2>4. promise'[n].acked = A /\ promise'[n].kept = K /\ S = A /\ a.op \in Salvagers
    BY <1>4, <2>2, <2>3 DEF Pledge, Salvagers
  <2> QED BY <1>1, <1>2, <1>3, <1>4, <2>1, <2>3, <2>4, SaveBegins
<1>9. CASE CloseCollection(w, n)
  <2>1. n \in loaded /\ n \in loaded' /\ promise' = promise
    BY <1>9 DEF CloseCollection, flags
  <2>3. a.op = "close" /\ a.at = "meta"
    BY <1>4, <1>9, AdminStarts DEF CloseCollection, Starts
  <2>4. promise'[n].acked = A /\ promise'[n].kept = K /\ a.op \in Salvagers
    BY <1>4, <2>1, <2>3 DEF Salvagers
  <2> QED BY <1>1, <1>2, <1>3, <1>4, <2>1, <2>3, <2>4, SaveBegins
<1> QED BY <1>5, <1>6, <1>7, <1>8, <1>9 DEF Administers

\* A process that ends leaves what is in the bucket.
LEMMA ForgetState ==
  ASSUME NEW n, Forget, KeptInv(n), UNCHANGED <<mode, bucket, torn>>,
         NEW K, K = promise[n].kept, promise'[n].kept = K
  PROVE  StateInv(n)'
<1>1. \A v \in Workers : ~ On(v, n)'
  BY DEF Forget, On, Busy
<1>2. n \notin loaded'
  BY DEF Forget
<1>3. InObject(n, "vertex", K) /\ (mode = "edge" /\ n \notin torn => InObject(n, "inverted", K))
  BY DEF KeptInv
<1>4. InObject(n, "vertex", K)' /\ (mode' = "edge" /\ n \notin torn' => InObject(n, "inverted", K)')
  BY <1>3 DEF InObject, Readable
<1>5. KeptInv(n)'
  BY <1>4 DEF KeptInv, InObject
<1>6. AckedInv(n)' /\ LoadInv(n)' /\ EmptyInv(n)' /\ SaveInv(n)'
  BY <1>1, <1>2 DEF AckedInv, LoadInv, EmptyInv, SaveInv, Saves
<1> QED BY <1>5, <1>6 DEF StateInv

-----------------------------------------------------------------------------
(* Together                                                                *)

\* Whatever happens, a collection has what it promised.
LEMMA NameStep ==
  ASSUME OneAdmin, NoRecord, Shape, ServedInv, TypeInv, TypeInv', Apart, KnownInv, OneInv, Withheld,
         NEW n \in Names, NameInv(n), [Next]_vars
  PROVE  NameInv(n)'
<1>1. CallsInv(n)
  BY DEF NameInv
<1>2. CallsInv(n)'
  BY <1>1, CallsStep
<1>3. ASSUME Beside(n) PROVE StateInv(n)'
  BY <1>3, BesideKeeps DEF StateInv
<1>4. StateInv(n)'
  <2>1. ASSUME NEW w \in Workers, NEW m \in Names, Begin(w, m) PROVE StateInv(n)'
    <3>1. CASE n = m /\ work'[w].op \notin VertexOps
      <4>1. ASSUME NEW o \in VertexOps, NEW v, BeginChange(w, o, "enter", n, v)
            PROVE  FALSE
        BY <3>1, <4>1, VertexStarts DEF Starts
      <4>2. ~ \E id, t : ChangeBegin(w, n, id, t)
        BY <4>1 DEF ChangeBegin, VertexOps
      <4>3. \A t : ~ EdgeRemoveBegin(w, n, t)
        BY <4>1 DEF EdgeRemoveBegin, RemoveBegin, VertexOps
      <4>4. \A id : ~ MultiRemoveBegin(w, n, id)
        BY <4>1 DEF MultiRemoveBegin, RemoveBegin, VertexOps
      <4>5. \A f : ~ SearchBegin(w, n, f)
        BY <4>1 DEF SearchBegin, VertexOps
      <4>6. Administers(w, n)
        BY <2>1, <3>1, <4>2, <4>3, <4>4, <4>5 DEF Begin, Administers
      <4> QED BY <4>6, BeginOwn
    <3>2. CASE ~ (n = m /\ work'[w].op \notin VertexOps)
      BY <1>3, <2>1, <3>2, BeginBeside
    <3> QED BY <3>1, <3>2
  <2>2. ASSUME NEW w \in Workers, AdminStep(w) PROVE StateInv(n)'
    <3>1. CASE work[w].name = n
      BY <2>2, <3>1, AdminOwn
    <3>2. CASE work[w].name # n
      BY <1>3, <2>2, <3>2, AdminBeside
    <3> QED BY <3>1, <3>2
  <2>3. ASSUME NEW w \in Workers, Vertexes(w) PROVE StateInv(n)'
    BY <1>1, <1>3, <2>3, VertexBeside
  <2>4. KeptInv(n)
    BY DEF NameInv
  <2>5. CASE Die
    <3>1. PICK K : K = promise[n].kept
      OBVIOUS
    <3>2. promise'[n].kept = K
      BY <2>5, <3>1 DEF Die, NoPromise
    <3> QED BY <2>4, <2>5, <3>1, <3>2, ForgetState DEF Die
  <2>6. CASE CloseEnd
    BY <2>4, <2>6, ForgetState DEF CloseEnd
  <2>7. CASE CloseBegin \/ Start \/ UNCHANGED vars
    BY <1>3, <2>7, ProcessBeside
  <2> QED BY <2>1, <2>2, <2>3, <2>5, <2>6, <2>7, StepKinds
<1> QED BY <1>2, <1>4 DEF NameInv, StateInv

-----------------------------------------------------------------------------
(* The invariant                                                           *)

\* Only collections are loaded.
LEMMA LoadedStep ==
  ASSUME TypeInv, loaded \subseteq Names, [Next]_vars
  PROVE  loaded' \subseteq Names
<1>1. ASSUME NEW w \in Workers, NEW n \in Names, Begin(w, n) PROVE loaded' \subseteq loaded
  <2>1. CASE ReleaseBegin(w, n)
    BY <2>1 DEF ReleaseBegin
  <2>2. CASE ~ ReleaseBegin(w, n)
    BY <1>1, <2>2, BeginFlags
  <2> QED BY <2>1, <2>2
<1>2. ASSUME NEW w \in Workers, AdminStep(w) PROVE loaded' \subseteq loaded \cup {work[w].name}
  BY <1>2 DEF AdminStep, CreateBucket, CreateSpace, CreateUndoBucket, CreateUndoFlags, DestroyFlags, DestroySpace,
     SetFlags, DeleteFlags, DeleteBucket, LoadFill, LoadInverted, LoadVertex, ReleaseUnflag, SaveMeta,
     SaveVertexMap, SaveVertexFails, SaveVertexPut, SaveInverted, SaveInvertedPut, Saved, Savers, At, flags
<1>3. ASSUME NEW w \in Workers, AdminStep(w) PROVE loaded' \subseteq Names
  BY <1>2, <1>3, AdminPledges
<1>4. ASSUME NEW w \in Workers, Vertexes(w) PROVE loaded' = loaded
  BY <1>4, VertexQuiet
<1>5. CASE Die \/ CloseEnd
  BY <1>5 DEF Die, CloseEnd, Forget
<1>6. CASE CloseBegin \/ Start \/ UNCHANGED vars
  BY <1>6 DEF CloseBegin, Start, vars, flags
<1> QED BY <1>1, <1>3, <1>4, <1>5, <1>6, StepKinds

\* All of it, as it is at the start and after every step.
Inv == /\ Shape /\ ServedInv /\ TypeInv /\ Apart /\ KnownInv /\ OneInv /\ Withheld
       /\ loaded \subseteq Names /\ \A n \in Names : NameInv(n)

\* It holds at the start: there is no call, nothing is loaded and nothing promised.
LEMMA InvInit ==
  ASSUME Init
  PROVE  Inv
<1>1. \A w \in Workers : ~ Busy(w)
  BY DEF Init, Busy
<1>2. Admins = {}
  BY DEF Init, Admins, Idle, AdminOps
<1>3. \A n \in Names : /\ promise[n].calls = {} /\ promise[n].acked = {}
                       /\ promise[n].saving = {} /\ promise[n].kept = {}
  BY DEF Init, NoPromise
<1>4. Apart
  BY <1>1 DEF Init, Apart
<1>5. OneInv
  BY <1>1, <1>2 DEF Init, OneInv
<1>6. Withheld
  BY <1>1, <1>3 DEF Withheld, On
<1>7. ASSUME NEW n \in Names
      PROVE  NameInv(n)
  <2>1. \A v \in Workers : ~ On(v, n)
    BY <1>1 DEF On
  <2>2. n \notin loaded
    BY DEF Init
  <2>3. AckedInv(n) /\ LoadInv(n) /\ EmptyInv(n) /\ SaveInv(n)
    BY <2>1, <2>2 DEF AckedInv, LoadInv, EmptyInv, SaveInv, Saves
  <2>4. KeptInv(n) /\ CallsInv(n)
    BY <1>3 DEF KeptInv, InObject, CallsInv
  <2> QED BY <2>3, <2>4 DEF NameInv
<1>8. loaded \subseteq Names
  BY DEF Init
<1> QED BY <1>4, <1>5, <1>6, <1>7, <1>8, ServedInit, TypeInit, KnownInit DEF Inv

\* Every step keeps it.
LEMMA InvStep ==
  ASSUME OneAdmin, NoRecord, Inv, [Next]_vars
  PROVE  Inv'
<1>1. /\ Shape /\ ServedInv /\ TypeInv /\ Apart /\ KnownInv /\ OneInv /\ Withheld
      /\ loaded \subseteq Names /\ \A n \in Names : NameInv(n)
  BY DEF Inv
<1>2. Shape' /\ ServedInv'
  BY <1>1, ServedStep
<1>3. TypeInv' /\ mode' = mode
  BY <1>1, TypeStep
<1>4. Apart'
  BY <1>1, <1>3, ApartNext
<1>5. KnownInv'
  BY <1>1, <1>3, KnownStep
<1>6. OneInv'
  BY <1>1, <1>3, OneStep
<1>7. \A n \in Names : CallsInv(n)
  BY <1>1 DEF NameInv
<1>8. Withheld'
  BY <1>1, <1>3, <1>7, WithheldStep
<1>9. ASSUME NEW n \in Names PROVE NameInv(n)'
  BY <1>1, <1>3, NameStep
<1>10. loaded' \subseteq Names
  BY <1>1, LoadedStep
<1> QED BY <1>2, <1>3, <1>4, <1>5, <1>6, <1>8, <1>9, <1>10 DEF Inv

\* It says of an acknowledged vertex that it is found ...
LEMMA InvAcked ==
  ASSUME Inv
  PROVE  AckedFound
<1> SUFFICES ASSUME NEW n \in loaded
             PROVE  /\ promise[n].acked \subseteq spaces[space[n]].vertices
                    /\ mode = "edge" /\ n \notin torn => promise[n].acked \subseteq Postings(space[n])
  BY DEF AckedFound
<1>1. n \in Names
  BY DEF Inv
<1>2. Has(n, promise[n].acked)
  BY <1>1 DEF Inv, NameInv, AckedInv
<1> QED BY <1>2 DEF Has

\* ... and of a saved one that it is in the bucket.
LEMMA InvKept ==
  ASSUME Inv
  PROVE  FlushedSurvive
<1> SUFFICES ASSUME NEW n \in Names, promise[n].kept # {}
             PROVE  /\ Readable(n, "vertex") /\ promise[n].kept \subseteq bucket[n].vertex
                    /\ mode = "edge" /\ n \notin torn =>
                         Readable(n, "inverted") /\ promise[n].kept \subseteq bucket[n].inverted
  BY DEF FlushedSurvive
<1>1. KeptInv(n)
  BY DEF Inv, NameInv
<1> QED BY <1>1 DEF KeptInv, InObject

\* AckedFound: every change that was acknowledged, and not withdrawn by a later call,
\* is in the memory of its collection as long as that is loaded, and in edge a filter
\* finds it, for any number of collections, calls and starts.
THEOREM AcknowledgedAreFound == OneAdmin /\ NoRecord /\ Spec => []AckedFound
<1> SUFFICES ASSUME OneAdmin, NoRecord
             PROVE  Spec => []AckedFound
  OBVIOUS
<1>1. Init => Inv
  BY InvInit
<1>2. Inv /\ [Next]_vars => Inv'
  BY InvStep
<1>3. Inv => AckedFound
  BY InvAcked
<1> QED BY <1>1, <1>2, <1>3, PTL DEF Spec

\* FlushedSurvive: what a Flush or a release saved is in the bucket for good, through
\* changes, saves that fail and crashes, until a call takes it back.
THEOREM FlushedAreSaved == OneAdmin /\ NoRecord /\ Spec => []FlushedSurvive
<1> SUFFICES ASSUME OneAdmin, NoRecord
             PROVE  Spec => []FlushedSurvive
  OBVIOUS
<1>1. Init => Inv
  BY InvInit
<1>2. Inv /\ [Next]_vars => Inv'
  BY InvStep
<1>3. Inv => FlushedSurvive
  BY InvKept
<1> QED BY <1>1, <1>2, <1>3, PTL DEF Spec

-----------------------------------------------------------------------------
(* What searches are after: it is what was acknowledged when they began,   *)
(* and it only gets less                                                   *)

Narrows == \A n \in Names : \A v \in Workers : promise'[n].sought[v] \subseteq promise[n].sought[v]

\* A promise that changes in its other parts, or loses what a search was after.
LEMMA NarrowParts ==
  ASSUME PromiseIs, NEW n \in Names, NEW S, NEW w,
         \/ promise' = promise
         \/ promise' = [promise EXCEPT ![n].acked = S]
         \/ promise' = [promise EXCEPT ![n].kept = S]
         \/ promise' = [promise EXCEPT ![n].saving = S]
         \/ promise' = [promise EXCEPT ![n].calls = {}]
         \/ promise' = [promise EXCEPT ![n] = [@ EXCEPT !.calls = {}, !.saving = S]]
         \/ promise' = [promise EXCEPT ![n].acked = @ \cup S, ![n].calls = @ \ {w}]
         \/ promise' = [promise EXCEPT ![n].calls = @ \ {w}]
         \/ promise' = [promise EXCEPT ![n].sought[w] = {}]
         \/ promise' = [promise EXCEPT ![n] = NoPromise]
  PROVE  Narrows
<1>1. /\ DOMAIN promise = Names
      /\ \A m \in Names : /\ DOMAIN promise[m] = PromiseFields
                          /\ DOMAIN promise[m].sought = Workers
  BY DEF PromiseIs, PromiseType, PromiseFields
<1>2. CASE promise' = promise
  BY <1>2 DEF Narrows
<1>3. CASE promise' = [promise EXCEPT ![n].acked = S]
  BY <1>1, <1>3 DEF Narrows, PromiseFields
<1>4. CASE promise' = [promise EXCEPT ![n].kept = S]
  BY <1>1, <1>4 DEF Narrows, PromiseFields
<1>5. CASE promise' = [promise EXCEPT ![n].saving = S]
  BY <1>1, <1>5 DEF Narrows, PromiseFields
<1>6. CASE promise' = [promise EXCEPT ![n].calls = {}]
  BY <1>1, <1>6 DEF Narrows, PromiseFields
<1>7. CASE promise' = [promise EXCEPT ![n] = [@ EXCEPT !.calls = {}, !.saving = S]]
  BY <1>1, <1>7 DEF Narrows, PromiseFields
<1>8. CASE promise' = [promise EXCEPT ![n].acked = @ \cup S, ![n].calls = @ \ {w}]
  BY <1>1, <1>8 DEF Narrows, PromiseFields
<1>9. CASE promise' = [promise EXCEPT ![n].sought[w] = {}]
  BY <1>1, <1>9 DEF Narrows, PromiseFields
<1>10. CASE promise' = [promise EXCEPT ![n] = NoPromise]
  BY <1>1, <1>10 DEF Narrows, NoPromise
<1>11. CASE promise' = [promise EXCEPT ![n].calls = @ \ {w}]
  BY <1>1, <1>11 DEF Narrows, PromiseFields
<1> QED BY <1>2, <1>3, <1>4, <1>5, <1>6, <1>7, <1>8, <1>9, <1>10, <1>11

\* What is withdrawn from a promise, searches are no longer after.
LEMMA NarrowWithdraws ==
  ASSUME PromiseIs, NEW n \in Names, NEW p, promise' = [promise EXCEPT ![n] = p],
         \A v \in Workers : p.sought[v] \subseteq promise[n].sought[v]
  PROVE  Narrows /\ promise'[n] = p
<1>1. DOMAIN promise = Names
  BY DEF PromiseIs
<1>2. promise'[n] = p /\ \A m \in Names \ {n} : promise'[m] = promise[m]
  BY <1>1
<1> QED BY <1>2 DEF Narrows

\* It is what has the id, or the tag, that a change or a removal is about.
LEMMA WithdrawsSought ==
  ASSUME PromiseIs, NEW n \in Names, NEW i
  PROVE  /\ Withdraws(n, LAMBDA y : y.id = i).sought = [v \in Workers |-> {y \in promise[n].sought[v] : y.id # i}]
         /\ Withdraws(n, LAMBDA y : y.tag = i).sought = [v \in Workers |-> {y \in promise[n].sought[v] : y.tag # i}]
<1>1. promise[n] \in PromiseType
  BY DEF PromiseIs
<1> QED BY <1>1 DEF Withdraws, Except, PromiseType

\* A change that begins withdraws its id from what searches are after.
LEMMA ChangeNarrows ==
  ASSUME PromiseIs, NEW w, NEW n \in Names, NEW id, NEW t, ChangeBegin(w, n, id, t)
  PROVE  Narrows /\ \A v \in Workers : \A y \in promise'[n].sought[v] : y.id # id
<1> DEFINE q == Withdraws(n, LAMBDA y : y.id = id)
           stop == \/ \E v \in OthersOn(w, n) : Collides(v, [id |-> id, tag |-> t])
                   \/ AdminOn(n)
           p == [q EXCEPT !.calls = IF stop THEN @ ELSE @ \cup {w}]
<1>1. q \in PromiseType
  BY WithdrawsIs DEF Withdraws, Except
<1>2. promise' = [promise EXCEPT ![n] = p]
  BY DEF ChangeBegin
<1>3. q.sought = [v \in Workers |-> {y \in promise[n].sought[v] : y.id # id}]
  BY WithdrawsSought DEF Withdraws, Except
<1> HIDE DEF q, stop
<1>4. p.sought = q.sought
  BY <1>1 DEF PromiseType
<1> HIDE DEF p
<1>5. \A v \in Workers : p.sought[v] = {y \in promise[n].sought[v] : y.id # id}
  BY <1>3, <1>4
<1>6. \A v \in Workers : p.sought[v] \subseteq promise[n].sought[v]
  BY <1>5
<1>7. Narrows /\ promise'[n] = p
  BY <1>2, <1>6, NarrowWithdraws
<1> QED BY <1>5, <1>7

\* So it is in every step but a search that begins.
LEMMA SoughtStep ==
  ASSUME TypeInv, PromiseIs, [Next]_vars, NEW n \in Names, NEW v \in Workers
  PROVE  \/ promise'[n].sought[v] \subseteq promise[n].sought[v]
         \/ SearchFor(v, n) /\ promise'[n].sought[v] = promise[n].acked
<1> USE DEF At
<1>0. /\ \A m \in Names : promise[m] \in PromiseType
      /\ DOMAIN promise = Names
  BY DEF PromiseIs
<1>1. SUFFICES Narrows \/ \E w \in Workers, m \in Names : SearchFor(w, m) /\ promise' = [promise EXCEPT ![m].sought[w] = promise[m].acked]
  <2>1. CASE Narrows
    BY <2>1 DEF Narrows
  <2>2. ASSUME NEW w \in Workers, NEW m \in Names, SearchFor(w, m), NEW S, S = promise[m].acked,
               promise' = [promise EXCEPT ![m].sought[w] = S]
        PROVE  \/ promise'[n].sought[v] \subseteq promise[n].sought[v]
               \/ SearchFor(v, n) /\ promise'[n].sought[v] = S /\ n = m
    BY <1>0, <2>2 DEF PromiseType
  <2> QED BY <1>1, <2>1, <2>2
<1>2. ASSUME NEW w \in Workers, AdminStep(w) PROVE Narrows
  <2>1. PICK m : m = work[w].name
    OBVIOUS
  <2>2. m \in Names
    BY <1>2, <2>1, AdminPledges
  <2>3. PICK saving, kept : saving = promise[m].saving /\ kept = promise[m].kept
    OBVIOUS
  <2>5. \/ promise' = promise \/ promise' = [promise EXCEPT ![m].acked = kept]
        \/ promise' = [promise EXCEPT ![m].kept = saving] \/ promise' = [promise EXCEPT ![m].kept = {}]
    <3>1. CASE SetFlags(w)
      BY <2>1, <2>3, <3>1 DEF SetFlags
    <3>2. CASE SaveVertexPut(w) \/ SaveInvertedPut(w)
      <4>1. Saved(w) \/ promise' = promise
        BY <3>2 DEF SaveVertexPut, SaveInvertedPut
      <4>2. work[w].op \in Savers
        BY <3>2 DEF SaveVertexPut, SaveInvertedPut
      <4> QED BY <2>1, <2>3, <4>1, <4>2 DEF Saved, Savers
    <3>3. CASE SaveVertexFails(w) \/ SaveInverted(w)
      BY <2>1, <3>3 DEF SaveVertexFails, SaveInverted
    <3>4. ASSUME ~ SetFlags(w), ~ SaveVertexPut(w), ~ SaveInvertedPut(w), ~ SaveVertexFails(w), ~ SaveInverted(w)
          PROVE  promise' = promise
      BY <1>2, <3>4 DEF AdminStep, CreateBucket, CreateSpace, CreateUndoBucket, CreateUndoFlags, DestroySpace,
             DeleteFlags, DeleteBucket, LoadFill, LoadInverted, LoadVertex, ReleaseUnflag, SaveMeta, SaveVertexMap
    <3> QED BY <3>1, <3>2, <3>3, <3>4
  <2> QED BY <2>2, <2>5, NarrowParts
<1>3. ASSUME NEW w \in Workers, SearchStep(w) /\ ~ Die PROVE Narrows
  <2>1. PICK m : m = work[w].name
    OBVIOUS
  <2>2. m \in Names
    BY <1>3, <2>1, VertexPledges
  <2>3. promise' = promise \/ promise' = [promise EXCEPT ![m].sought[w] = {}]
    BY <1>3, <2>1 DEF SearchStep, SearchEnter, SearchColumn, SearchFilter, SearchMap, SearchAnswer, SearchEnd,
                SearchFails, SearchKeepsLock, SearchPanics, SearchReturn
  <2> QED BY <2>2, <2>3, NarrowParts
<1>4. ASSUME NEW w \in Workers, ChangeStep(w) PROVE Narrows
  <2>1. PICK m, x, S : m = work[w].name /\ x = work[w].vertex /\ S = {x}
    OBVIOUS
  <2>2. m \in Names /\ Busy(w)
    BY <1>4, <2>1, VertexPledges
  <2>3. \/ promise' = promise \/ promise' = [promise EXCEPT ![m].acked = @ \cup S, ![m].calls = @ \ {w}]
        \/ promise' = [promise EXCEPT ![m].calls = @ \ {w}]
    <3>1. CASE ChangeStore(w)
      BY <2>1, <3>1 DEF ChangeStore
    <3>3. CASE ChangePanics(w)
      BY <2>1, <3>3 DEF ChangePanics
    <3>2. CASE ~ ChangeStore(w) /\ ~ ChangePanics(w)
      BY <1>4, <3>2 DEF ChangeStep, Enter, ChangeColumn, ChangePost, RemoveColumn, RemoveSearch,
         RemoveNext, RemoveLock, RemoveFindColumn, RemovePosting, RemoveColumnShard, RemoveErase, MultiRemove
    <3> QED BY <3>1, <3>2, <3>3
  <2>4. ASSUME promise' = [promise EXCEPT ![m].acked = @ \cup S, ![m].calls = @ \ {w}] PROVE Narrows
    BY <2>2, <2>4, NarrowParts
  <2>6. ASSUME promise' = [promise EXCEPT ![m].calls = @ \ {w}] PROVE Narrows
    BY <2>2, <2>6, NarrowParts
  <2>5. ASSUME promise' = promise PROVE Narrows
    BY <2>5 DEF Narrows
  <2> QED BY <2>3, <2>4, <2>5, <2>6
<1>5. ASSUME NEW w \in Workers, NEW m \in Names, Begin(w, m), ~ SearchFor(w, m) PROVE Narrows
  <2>1. PICK acked : acked = promise[m].acked
    OBVIOUS
  <2>3. CASE \/ CreateBegin(w, m) \/ DeleteBegin(w, m) \/ LoadBegin(w, m) \/ ReleaseBegin(w, m)
             \/ FlushBegin(w, m) \/ CloseCollection(w, m)
    <3>1. \/ promise' = promise \/ promise' = [promise EXCEPT ![m] = NoPromise]
          \/ promise' = [promise EXCEPT ![m].calls = {}] \/ promise' = [promise EXCEPT ![m].saving = acked]
          \/ promise' = [promise EXCEPT ![m] = [@ EXCEPT !.calls = {}, !.saving = acked]]
      BY <2>1, <2>3 DEF CreateBegin, DeleteBegin, LoadBegin, ReleaseBegin, FlushBegin, CloseCollection
    <3> QED BY <3>1, NarrowParts
  <2>5. ASSUME NEW t \in Tags, EdgeRemoveBegin(w, m, t) PROVE Narrows
    <3>0. PICK p : p = Withdraws(m, LAMBDA y : y.tag = t)
      OBVIOUS
    <3>1. promise' = [promise EXCEPT ![m] = p]
      BY <2>5, <3>0 DEF EdgeRemoveBegin, RemoveBegin
    <3>2. p.sought = [u \in Workers |-> {y \in promise[m].sought[u] : y.tag # t}]
      BY <3>0, WithdrawsSought DEF Withdraws, Except
    <3>3. \A u \in Workers : p.sought[u] \subseteq promise[m].sought[u]
      BY <3>2
    <3> QED BY <3>1, <3>3, NarrowWithdraws
  <2>6. ASSUME NEW id, MultiRemoveBegin(w, m, id) PROVE Narrows
    <3>0. PICK p : p = Withdraws(m, LAMBDA y : y.id = id)
      OBVIOUS
    <3>1. promise' = [promise EXCEPT ![m] = p]
      BY <2>6, <3>0 DEF MultiRemoveBegin, RemoveBegin
    <3>2. p.sought = [u \in Workers |-> {y \in promise[m].sought[u] : y.id # id}]
      BY <3>0, WithdrawsSought DEF Withdraws, Except
    <3>3. \A u \in Workers : p.sought[u] \subseteq promise[m].sought[u]
      BY <3>2
    <3> QED BY <3>1, <3>3, NarrowWithdraws
  <2>7. ASSUME NEW id, NEW t, ChangeBegin(w, m, id, t) PROVE Narrows
    BY <2>7, ChangeNarrows
  <2> QED BY <1>5, <2>3, <2>5, <2>6, <2>7 DEF Begin, SearchFor
<1>6. CASE Die
  BY <1>6, <1>0 DEF Die, Narrows, NoPromise
<1>7. CASE CloseBegin \/ CloseEnd \/ Start \/ UNCHANGED vars
  BY <1>7 DEF CloseBegin, CloseEnd, Start, vars, Narrows
<1>8. ASSUME NEW w \in Workers, NEW m \in Names, SearchFor(w, m)
      PROVE  promise' = [promise EXCEPT ![m].sought[w] = promise[m].acked]
  BY <1>8 DEF SearchFor, SearchBegin
<1> QED BY <1>2, <1>3, <1>4, <1>5, <1>6, <1>7, <1>8 DEF Next, Crash

-----------------------------------------------------------------------------
(* Calls that have a space in common, or a shard, are on one name          *)

Twins == \A u, w \in Workers :
  /\ Busy(u) /\ Busy(w)
  /\ \/ work[u].to = work[w].to /\ work[u].to # 0
     \/ work[u].shard = work[w].shard /\ work[u].shard # 0
  => work[u].name = work[w].name

\* A call goes on, or is over.
LEMMA CallsCourse ==
  ASSUME TypeInv, TypeInv', NEW w \in Workers, AdminStep(w) \/ Vertexes(w)
  PROVE  /\ Busy(w) /\ Others(w) /\ (work'[w] = Idle \/ Stays(w))
         /\ Len(spaces) <= Len(spaces') /\ work[w].name \in Names
<1>1. CASE AdminStep(w)
  <2>1. PICK n : n = work[w].name
    OBVIOUS
  <2>2. AdminRest(w, n) /\ n \in Names /\ Busy(w) /\ work[w].op \in AdminOps
    BY <1>1, <2>1, AdminRests, AdminPledges
  <2>3. work[w].op \notin VertexOps
    BY <2>2 DEF AdminOps, VertexOps
  <2>4. ASSUME But(w, {"at", "to", "map", "data"}), work'[w].to = work[w].to \/ work'[w].to = Space(w)
        PROVE  Stays(w)
    BY <2>2, <2>3, <2>4 DEF But, CallFields, Stays
  <2>5. Others(w) /\ (work'[w] = Idle \/ Stays(w))
    BY <1>1, <2>4, AdminCourse
  <2> QED BY <2>1, <2>2, <2>5 DEF AdminRest
<1>2. CASE Vertexes(w)
  <2>1. PICK s : s = work[w].to
    OBVIOUS
  <2>2. VertexRest(w, s) /\ Busy(w) /\ work[w].name \in Names
    BY <1>2, <2>1, VertexRests, VertexPledges DEF Vertexes
  <2>3. Len(spaces) \in Nat
    BY MemoryTyped
  <2>4. Others(w) /\ (work'[w] = Idle \/ Stays(w))
    BY <1>2, VertexCourse DEF Vertexes
  <2> QED BY <2>2, <2>3, <2>4 DEF VertexRest
<1> QED BY <1>1, <1>2

\* One call has another space or shard, or none.
LEMMA TwinsOne ==
  ASSUME TypeInv, TypeInv', Apart, Apart', Twins, NEW w \in Workers, Others(w), Len(spaces) <= Len(spaces'),
         \/ work'[w] = Idle
         \/ work'[w].to = 0 /\ work'[w].shard = 0
         \/ Stays(w) /\ work[w].name \in Names
  PROVE  Twins'
<1>1. SUFFICES ASSUME NEW u \in Workers, u # w, Busy(u)', Busy(w)',
                      \/ work'[u].to = work'[w].to /\ work'[u].to # 0
                      \/ work'[u].shard = work'[w].shard /\ work'[u].shard # 0
               PROVE  work'[u].name = work'[w].name
  BY DEF Twins, Others, Busy
<1>2. work'[u] = work[u] /\ Busy(u)
  BY <1>1 DEF Others, Busy
<1>3. Stays(w) /\ work[w].name \in Names
  BY <1>1 DEF Busy
<1>4. /\ Busy(w) /\ work'[w].name = work[w].name
      /\ work[u].to = work[w].to /\ work[u].to # 0 => work[u].name = work[w].name
      /\ work[u].shard = work[w].shard /\ work[u].shard # 0 => work[u].name = work[w].name
  BY <1>2, <1>3 DEF Twins, Stays
<1>5. CASE work'[w].to = work[w].to /\ work'[w].shard = work[w].shard
  BY <1>1, <1>2, <1>4, <1>5
<1>6. CASE work'[w].to = Space(w) /\ work'[w].shard = work[w].shard
  BY <1>1, <1>2, <1>3, <1>4, <1>6 DEF Apart, SpaceApart, Space
<1>7. ASSUME work'[w].to = work[w].to, NEW s \in 1 .. Len(spaces), s = work[w].to, work'[w].shard = Column(s)'
      PROVE  work'[u].name = work'[w].name
  <2>1. s \in 1 .. Len(spaces')
    BY <1>7, MemoryTyped DEF TypeInv, SpacesTyped
  <2>2. CASE work'[u].shard = work'[w].shard /\ work'[u].shard # 0
    <3>1. ShardApart(u)'
      BY <1>1 DEF Apart
    <3>2. s = work'[u].to /\ s # 0
      BY <1>7, <2>1, <2>2, <3>1 DEF ShardApart
    <3> QED BY <1>2, <1>4, <1>7, <3>2
  <2> QED BY <1>1, <1>2, <1>4, <1>7, <2>2
<1> QED BY <1>3, <1>5, <1>6, <1>7 DEF Stays

\* All steps.
LEMMA TwinsStep ==
  ASSUME TypeInv, TypeInv', Apart, Apart', Twins, [Next]_vars
  PROVE  Twins'
<1>1. ASSUME NEW w \in Workers, NEW n \in Names, Begin(w, n) PROVE Twins'
  <2>1. /\ UNCHANGED <<space, spaces, shards>>
        /\ \E op, at, v : Starts(w, op, at, n, v)
    BY <1>1, BeginStarts
  <2>2. Others(w) /\ work'[w].to = 0 /\ work'[w].shard = 0
    BY <2>1 DEF Starts
  <2>3. Len(spaces) <= Len(spaces')
    BY <2>1, MemoryTyped
  <2> QED BY <2>2, <2>3, TwinsOne
<1>2. ASSUME NEW w \in Workers, AdminStep(w) \/ Vertexes(w) PROVE Twins'
  BY <1>2, CallsCourse, TwinsOne
<1>3. CASE Die \/ CloseEnd
  <2>1. \A w \in Workers : ~ Busy(w)'
    BY <1>3 DEF Die, CloseEnd, Forget, Busy
  <2> QED BY <2>1 DEF Twins
<1>4. CASE CloseBegin \/ Start \/ UNCHANGED vars
  BY <1>4 DEF CloseBegin, Start, vars, Twins, Busy
<1> QED BY <1>1, <1>2, <1>3, <1>4, StepKinds

-----------------------------------------------------------------------------
(* A vertex in a space: what the maps and the index of it have, once there *)
(* are maps and an index                                                   *)

Stands(s, y, n) ==
  /\ spaces[s].ready => y \in spaces[s].vertices
  /\ mode = "edge" /\ n \notin torn /\ spaces[s].indexed => y \in Postings(s)

\* What a call on a collection leaves as it was in a space, or loads from the bucket.
LEMMA LoadsSpace ==
  ASSUME TypeInv, NEW w \in Workers, AdminStep(w), NEW n, n = work[w].name, NEW i \in 1 .. Len(spaces)
  PROVE  /\ i \in 1 .. Len(spaces')
         /\ \/ spaces'[i].ready = spaces[i].ready /\ spaces'[i].vertices = spaces[i].vertices
            \/ LoadVertex(w) /\ i = space[n] /\ Readable(n, "vertex") /\ spaces'[i].vertices = bucket[n].vertex
         /\ \/ spaces'[i].indexed = spaces[i].indexed /\ Postings(i)' = Postings(i)
            \/ /\ LoadInverted(w) /\ i = space[n] /\ Readable(n, "inverted")
               /\ Postings(i)' = bucket[n].inverted
<1> USE DEF memory, At
<1>0. /\ n \in Names /\ Busy(w) /\ SpacesTyped /\ ShardsTyped
      /\ Len(spaces) \in Nat /\ Len(shards) \in Nat /\ space[n] \in 0 .. Len(spaces)
      /\ Column(i) \in 0 .. Len(shards) /\ AdminRest(w, n)
  <2>1. n \in Names /\ Busy(w) /\ AdminRest(w, n)
    BY AdminPledges, AdminRests
  <2>2. spaces[i] \in SpaceType
    BY MemoryTyped
  <2> QED BY <2>1, <2>2, MemoryTyped DEF TypeInv, Bounds, Column, SpaceType
<1>1. i \in 1 .. Len(spaces')
  BY <1>0 DEF AdminRest
<1>2. Column(i)' = Column(i) => Postings(i)' = Postings(i)
  BY <1>0 DEF Postings, Column, AdminRest
<1>3. ASSUME spaces'[i] = spaces[i] PROVE Column(i)' = Column(i)
  BY <1>3 DEF Column
<1>4. CASE UNCHANGED spaces
  BY <1>1, <1>2, <1>4 DEF Column
<1>5. ASSUME NEW s, NewSpace(n, s), s \in SpaceType
      PROVE  spaces'[i] = spaces[i]
  BY <1>0, <1>5, AppendSpace
<1>6. CASE CreateSpace(w)
  <2>1. NewSpace(n, Fresh) \/ UNCHANGED spaces
    BY <1>6 DEF CreateSpace
  <2>2. Fresh \in SpaceType
    BY DEF Fresh, Hollow, SpaceType
  <2> QED BY <1>1, <1>2, <1>3, <1>4, <1>5, <2>1, <2>2
<1>7. CASE LoadFill(w)
  <2>1. \/ NewSpace(n, Hollow) \/ NewSpace(n, [Hollow EXCEPT !.described = TRUE]) \/ UNCHANGED spaces
    BY <1>7 DEF LoadFill
  <2>2. PICK h : h = [Hollow EXCEPT !.described = TRUE]
    OBVIOUS
  <2>3. Hollow \in SpaceType /\ h \in SpaceType
    BY <2>2 DEF Hollow, SpaceType
  <2> QED BY <1>1, <1>2, <1>3, <1>4, <1>5, <2>1, <2>2, <2>3
<1>8. CASE SaveVertexFails(w)
  <2>1. work[w].map \in Nat
    <3>1. Typed(work[w]) /\ MapShards \in Nat
      BY <1>0, CallTyped, MemoryTyped DEF TypeInv
    <3> QED BY <3>1 DEF Typed
  <2>2. PICK s, j : s = work[w].to /\ j = work[w].map
    OBVIOUS
  <2>3. spaces' = spaces \/ spaces' = [spaces EXCEPT ![s].leaked = spaces[s].leaked \cup {j}]
    BY <1>8, <2>2 DEF SaveVertexFails, KeepLock
  <2>4. CASE spaces' = [spaces EXCEPT ![s].leaked = spaces[s].leaked \cup {j}]
    <3>1. SpaceBut(s, {"leaked"})
      BY <1>0, <2>1, <2>2, <2>4, LeakedPut
    <3>2. /\ spaces'[i].ready = spaces[i].ready /\ spaces'[i].vertices = spaces[i].vertices
          /\ spaces'[i].indexed = spaces[i].indexed /\ Column(i)' = Column(i)
      BY <3>1 DEF SpaceBut, Column
    <3> QED BY <1>1, <1>2, <3>2
  <2> QED BY <1>4, <2>3, <2>4
<1>9. CASE LoadInverted(w)
  <2>1. CASE /\ Readable(n, "inverted") /\ Space(w) # 0
             /\ shards' = Append(shards, bucket[n].inverted)
             /\ spaces' = [spaces EXCEPT ![Space(w)].indexed = TRUE, ![Space(w)].column = Len(shards) + 1]
    <3>1. PICK s, S, c : s = space[n] /\ S = bucket[n].inverted /\ c = Len(shards) + 1
      OBVIOUS
    <3>2. s \in 1 .. Len(spaces) /\ c \in Nat /\ s = Space(w)
      BY <1>0, <2>1, <3>1 DEF Space
    <3>3. bucket[n] \in Bucket
      BY <1>0, <2>1 DEF Readable, TypeInv, BucketTyped
    <3>4. S \in SUBSET Vertex
      BY <2>1, <3>1, <3>3 DEF Readable, Object, Bucket
    <3>5. SpaceBut(s, {"indexed", "column"}) /\ Column(s)' = c
      BY <1>0, <2>1, <3>1, <3>2, IndexPut
    <3>6. shards'[c] = S
      BY <1>0, <2>1, <3>1, <3>4, AppendShard
    <3>7. spaces'[i].ready = spaces[i].ready /\ spaces'[i].vertices = spaces[i].vertices
      BY <3>5 DEF SpaceBut
    <3>8. CASE i = s
      <4>1. Postings(i)' = S
        BY <1>0, <3>1, <3>5, <3>6, <3>8 DEF Postings, Column
      <4> QED BY <1>1, <1>9, <2>1, <3>1, <3>7, <3>8, <4>1
    <3>9. CASE i # s
      <4>1. spaces'[i].indexed = spaces[i].indexed /\ Column(i)' = Column(i)
        BY <3>5, <3>9 DEF SpaceBut, Column
      <4> QED BY <1>1, <1>2, <3>7, <4>1
    <3> QED BY <3>8, <3>9
  <2> QED BY <1>4, <1>9, <2>1 DEF LoadInverted
<1>10. CASE LoadVertex(w)
  <2>1. CASE /\ Readable(n, "vertex") /\ Space(w) # 0
             /\ spaces' = [spaces EXCEPT ![Space(w)].ready = TRUE, ![Space(w)].vertices = bucket[n].vertex]
    <3>1. PICK s, S : s = space[n] /\ S = bucket[n].vertex
      OBVIOUS
    <3>2. s \in 1 .. Len(spaces) /\ s = Space(w)
      BY <1>0, <2>1, <3>1 DEF Space
    <3>3. bucket[n] \in Bucket
      BY <1>0, <2>1 DEF Readable, TypeInv, BucketTyped
    <3>4. S \subseteq Vertex
      BY <2>1, <3>1, <3>3 DEF Readable, Object, Bucket
    <3>5. SpaceBut(s, {"ready", "vertices"}) /\ spaces'[s].vertices = S
      BY <1>0, <2>1, <3>1, <3>2, <3>4, LoadPut
    <3>6. spaces'[i].indexed = spaces[i].indexed /\ Column(i)' = Column(i)
      BY <3>5 DEF SpaceBut, Column
    <3>7. CASE i = s
      BY <1>1, <1>2, <1>10, <2>1, <3>1, <3>5, <3>6, <3>7
    <3>8. CASE i # s
      <4>1. spaces'[i].ready = spaces[i].ready /\ spaces'[i].vertices = spaces[i].vertices
        BY <3>5, <3>8 DEF SpaceBut
      <4> QED BY <1>1, <1>2, <3>6, <4>1
    <3> QED BY <3>7, <3>8
  <2> QED BY <1>4, <1>10, <2>1 DEF LoadVertex
<1>11. ASSUME ~ CreateSpace(w), ~ LoadFill(w), ~ LoadInverted(w), ~ LoadVertex(w), ~ SaveVertexFails(w)
       PROVE  UNCHANGED spaces
  BY <1>11 DEF AdminStep, CreateBucket, CreateUndoBucket, CreateUndoFlags, SetFlags, DeleteFlags, DestroySpace,
                DeleteBucket, ReleaseUnflag, SaveMeta, SaveVertexMap, SaveVertexPut, SaveInverted,
                SaveInvertedPut
<1> QED BY <1>4, <1>6, <1>7, <1>8, <1>9, <1>10, <1>11

\* A call on vertices makes no space ready or indexed.
LEMMA VertexFlags ==
  ASSUME TypeInv, NEW w \in Workers, Vertexes(w), NEW i \in 1 .. Len(spaces)
  PROVE  spaces'[i].ready = spaces[i].ready /\ spaces'[i].indexed = spaces[i].indexed
<1> USE DEF At
<1>0. /\ SpacesTyped /\ Busy(w) /\ work[w].op \in VertexOps /\ spaces \in Seq(SpaceType)
  BY VertexPledges DEF Vertexes, TypeInv, SpacesTyped
<1>1. ASSUME NEW s, NEW fields, SpaceBut(s, fields), "ready" \notin fields, "indexed" \notin fields
      PROVE  spaces'[i].ready = spaces[i].ready /\ spaces'[i].indexed = spaces[i].indexed
  BY <1>1 DEF SpaceBut
<1>2. ASSUME NEW at, GetShard(w, at), work[w].at # "enter"
      PROVE  spaces'[i].ready = spaces[i].ready /\ spaces'[i].indexed = spaces[i].indexed
  <2>1. space' = space
    BY VertexQuiet
  <2>2. PICK s : s = work[w].to
    OBVIOUS
  <2>3. s # 0
    BY <1>0, <1>2, <2>2, HasEntered
  <2>4. SpaceBut(s, {"column"})
    BY <1>0, <1>2, <2>1, <2>2, <2>3, GetShardDoes
  <2> QED BY <1>1, <2>4
<1>3. ASSUME UNCHANGED spaces
      PROVE  spaces'[i].ready = spaces[i].ready /\ spaces'[i].indexed = spaces[i].indexed
  BY <1>3
<1>4. ASSUME NEW s, NEW c, spaces' = [spaces EXCEPT ![s].column = c] \/ spaces' = [spaces EXCEPT ![s].vertices = c]
      PROVE  spaces'[i].ready = spaces[i].ready /\ spaces'[i].indexed = spaces[i].indexed
  <2>1. PICK r : /\ r = [spaces[s] EXCEPT !.column = c] \/ r = [spaces[s] EXCEPT !.vertices = c]
                 /\ spaces' = [spaces EXCEPT ![s] = r]
    BY <1>4
  <2>2. spaces[i] \in SpaceType /\ i \in DOMAIN spaces
    BY <1>0
  <2>3. spaces'[i] = IF i = s THEN r ELSE spaces[i]
    BY <2>1, <2>2
  <2>4. i = s => r.ready = spaces[i].ready /\ r.indexed = spaces[i].indexed
    BY <2>1, <2>2 DEF SpaceType
  <2> QED BY <2>3, <2>4
<1>4a. ASSUME NEW j \in Nat, Locks(w, j)
      PROVE  spaces'[i].ready = spaces[i].ready /\ spaces'[i].indexed = spaces[i].indexed
  <2>1. SpaceBut(work[w].to, {"leaked"})
    BY <1>4a, LocksSpace
  <2> QED BY <1>1, <2>1
<1>5. CASE ChangeStep(w)
  <2>1. CASE ChangeColumn(w)
    BY <1>2, <1>3, <2>1 DEF ChangeColumn
  <2>1a. CASE ChangePanics(w)
    <3>1. PICK j : j = ShardLock(work[w].shard)
      OBVIOUS
    <3>2. Locks(w, j) /\ j \in 0 .. MapShards + Len(shards)
      BY <2>1a, <3>1, PanicLocks
    <3>3. j \in Nat
      BY <3>2
    <3> QED BY <1>4a, <3>2, <3>3
  <2>2. CASE RemoveColumn(w)
    BY <1>2, <1>3, <2>2 DEF RemoveColumn
  <2>3. CASE RemoveFindColumn(w)
    BY <1>2, <2>3 DEF RemoveFindColumn
  <2>4. CASE RemoveColumnShard(w)
    BY <1>4, <2>4 DEF RemoveColumnShard
  <2>5. CASE RemoveErase(w) \/ MultiRemove(w)
    BY <1>3, <1>4, <2>5 DEF RemoveErase, MultiRemove, Erase
  <2>6. CASE ChangeStore(w)
    <3>1. UNCHANGED spaces \/ \E c : spaces' = [spaces EXCEPT ![work[w].to].vertices = c]
      BY <2>6 DEF ChangeStore
    <3> QED BY <1>3, <1>4, <3>1
  <2>7. CASE Enter(w) \/ ChangePost(w) \/ RemoveSearch(w) \/ RemoveNext(w) \/ RemoveLock(w) \/ RemovePosting(w)
    BY <1>3, <2>7 DEF Enter, ChangePost, RemoveSearch, RemoveNext, RemoveLock, RemovePosting, UnchangedByIndex, memory
  <2> QED BY <1>5, <2>1, <2>2, <2>3, <2>4, <2>5, <2>6, <2>7, <2>1a DEF ChangeStep
<1>6. CASE SearchStep(w) /\ ~ Die
  <2>1. ASSUME NEW j \in 0 .. MapShards - 1, Locks(w, j)
        PROVE  spaces'[i].ready = spaces[i].ready /\ spaces'[i].indexed = spaces[i].indexed
    <3>1. j \in Nat
      OBVIOUS
    <3> QED BY <1>4a, <2>1, <3>1
  <2> QED BY <1>2, <1>3, <1>6, <2>1, SearchMoves
<1> QED BY <1>5, <1>6 DEF Vertexes

\* Nobody uses the space but calls on that name, and no other name has it.
Own(r, n) == /\ \A u \in Workers : Busy(u) /\ work[u].to = r => work[u].name = n
             /\ \A m \in Names : space[m] = r => m = n

\* The space of a name is its own, and so is that of a call on it.
LEMMA OwnSpace ==
  ASSUME TypeInv, Apart, NEW n \in Names, space[n] # 0
  PROVE  space[n] \in 1 .. Len(spaces) /\ Own(space[n], n)
BY MemoryTyped DEF Apart, SpaceApart, Own

\* So it is of the space that a call has entered.
LEMMA OwnTo ==
  ASSUME TypeInv, Apart, Twins, NEW w \in Workers, Busy(w), work[w].to # 0
  PROVE  work[w].to \in 1 .. Len(spaces) /\ Own(work[w].to, work[w].name)
<1>1. Typed(work[w]) /\ work[w].to <= Len(spaces)
  BY CallTyped DEF TypeInv, Bounds
<1>2. work[w].to \in 1 .. Len(spaces)
  BY <1>1, MemoryTyped DEF Typed
<1> QED BY <1>2 DEF Apart, SpaceApart, Twins, Own

\* A call on vertices leaves a promised vertex in such a space.
LEMMA StandsVertex ==
  ASSUME TypeInv, TypeInv', Apart, KnownInv, Withheld, NEW w \in Workers, Vertexes(w), NEW n \in Names,
         NEW r \in 1 .. Len(spaces), Own(r, n), NEW y \in Promised(n), Stands(r, y, n)
  PROVE  Stands(r, y, n)'
<1>1. Busy(w) /\ mode' = mode /\ (n \in torn => n \in torn')
  BY VertexPledges, VertexQuiet DEF Vertexes
<1>2. work[w].to = r => work[w].name = n /\ ~ Takes(work[w], y)
  BY <1>1 DEF Own, Withheld, On
<1>3. /\ y \in spaces[r].vertices => y \in spaces'[r].vertices
      /\ mode = "edge" /\ n \notin torn' /\ y \in Postings(r) => y \in Postings(r)'
  BY <1>2, SpaceSpares
<1>4. spaces'[r].ready = spaces[r].ready /\ spaces'[r].indexed = spaces[r].indexed
  BY VertexFlags
<1> QED BY <1>1, <1>3, <1>4 DEF Stands

\* So does one on a collection: what it loads is what the bucket has.
LEMMA StandsAdmin ==
  ASSUME TypeInv, Apart, NEW w \in Workers, AdminStep(w), NEW n \in Names, KeptInv(n),
         NEW r \in 1 .. Len(spaces), Own(r, n), NEW y, Stands(r, y, n),
         work[w].name = n /\ (LoadVertex(w) \/ LoadInverted(w)) => y \in promise[n].kept
  PROVE  Stands(r, y, n)'
<1>1. PICK m : m = work[w].name
  OBVIOUS
<1>2. m \in Names /\ mode' = mode /\ torn' = torn
  BY <1>1, AdminPledges, AdminFlags
<1>5. /\ \/ spaces'[r].ready = spaces[r].ready /\ spaces'[r].vertices = spaces[r].vertices
         \/ LoadVertex(w) /\ r = space[m] /\ Readable(m, "vertex") /\ spaces'[r].vertices = bucket[m].vertex
      /\ \/ spaces'[r].indexed = spaces[r].indexed /\ Postings(r)' = Postings(r)
         \/ /\ LoadInverted(w) /\ r = space[m] /\ Readable(m, "inverted")
            /\ Postings(r)' = bucket[m].inverted
  BY <1>1, LoadsSpace
<1>3. spaces'[r].ready => y \in spaces'[r].vertices
  <2>1. CASE spaces'[r].ready = spaces[r].ready /\ spaces'[r].vertices = spaces[r].vertices
    BY <2>1 DEF Stands
  <2>2. CASE LoadVertex(w) /\ r = space[m] /\ Readable(m, "vertex") /\ spaces'[r].vertices = bucket[m].vertex
    <3>1. m = n /\ y \in promise[n].kept
      BY <1>1, <1>2, <2>2 DEF Own
    <3> QED BY <2>2, <3>1 DEF KeptInv, InObject
  <2> QED BY <1>1, <2>1, <2>2, <1>5
<1>4. mode = "edge" /\ n \notin torn /\ spaces'[r].indexed => y \in Postings(r)'
  <2>1. CASE spaces'[r].indexed = spaces[r].indexed /\ Postings(r)' = Postings(r)
    BY <2>1 DEF Stands
  <2>2. CASE /\ LoadInverted(w) /\ r = space[m] /\ Readable(m, "inverted")
             /\ Postings(r)' = bucket[m].inverted
    <3>1. m = n /\ y \in promise[n].kept
      BY <1>1, <1>2, <2>2 DEF Own
    <3> QED BY <2>2, <3>1 DEF KeptInv, InObject
  <2> QED BY <1>1, <2>1, <2>2, <1>5
<1> QED BY <1>2, <1>3, <1>4 DEF Stands

\* What a collection has, stands in its space.
LEMMA HasStands ==
  ASSUME NEW n, NEW S, Has(n, S), NEW y \in S
  PROVE  space[n] # 0 /\ Stands(space[n], y, n)
BY DEF Has, Stands

-----------------------------------------------------------------------------
(* What is kept is in the space of the collection, loaded or not           *)

StandInv(n) == space[n] # 0 => \A y \in promise[n].kept : Stands(space[n], y, n)

\* The promise of another collection, as a step leaves it.
LEMMA PledgeBeside ==
  ASSUME NEW n, NEW m \in Names \ {n}, NEW c, NEW a, NEW s, NEW k, Pledge(n, c, a, s, k)
  PROVE  promise'[m] = promise[m]
BY DEF Pledge

\* A call on a collection keeps what was kept, or what was to be saved.
LEMMA AdminKeeps ==
  ASSUME TypeInv, OneInv, NEW w \in Workers, AdminStep(w), NEW n \in Names, NameInv(n), NEW y \in promise'[n].kept
  PROVE  \/ y \in promise[n].kept
         \/ /\ work[w].name = n /\ y \in promise[n].saving /\ work[w].at \in Saving
            /\ work[w].op \in {"release", "flush"}
<1> USE DEF At
<1>1. PICK m : m = work[w].name
  OBVIOUS
<1>2. /\ m \in Names /\ Busy(w)
      /\ \/ promise' = promise
         \/ /\ SetFlags(w)
            /\ Pledge(m, promise[m].calls, promise[m].kept, promise[m].saving, promise[m].kept)
         \/ /\ work[w].op \in {"release", "flush"}
            /\ Pledge(m, promise[m].calls, promise[m].acked, promise[m].saving, promise[m].saving)
         \/ /\ work[w].op = "close"
            /\ Pledge(m, promise[m].calls, promise[m].acked, promise[m].saving, {})
  BY <1>1, AdminPledges
<1>3. CASE m # n
  BY <1>2, <1>3, PledgeBeside
<1>4. CASE m = n /\ promise' # promise /\ work[w].op \in {"release", "flush"} /\ y \in promise[n].saving
  <2>1. ~ ReleaseUnflag(w) /\ ~ DestroySpace(w)
    BY <1>4 DEF ReleaseUnflag, DestroySpace
  <2>2. work[w].at \in Saving
    BY <1>4, <2>1 DEF AdminStep, CreateBucket, CreateSpace, CreateUndoBucket, CreateUndoFlags, SetFlags, DeleteFlags,
       DeleteBucket, LoadFill, LoadInverted, LoadVertex, SaveMeta, SaveVertexMap, SaveVertexFails, SaveVertexPut,
       SaveInverted, SaveInvertedPut, Saving
  <2> QED BY <1>1, <1>4, <2>2
<1>5. CASE m = n /\ ~ (promise' # promise /\ work[w].op \in {"release", "flush"} /\ y \in promise[n].saving)
  BY <1>2, <1>5 DEF Pledge
<1> QED BY <1>3, <1>4, <1>5

\* A space that is begun has nothing yet.
LEMMA FillsHollow ==
  ASSUME TypeInv, NEW w \in Workers, LoadFill(w), NEW n, n = work[w].name, space'[n] = Len(spaces) + 1, NEW y
  PROVE  promise' = promise /\ Stands(space[n], y, n)'
<1>1. n \in Names /\ SpacesTyped /\ Len(spaces) \in Nat /\ space[n] \in 0 .. Len(spaces)
  BY AdminPledges, MemoryTyped DEF AdminStep, TypeInv
<1>2. PICK h : h = [Hollow EXCEPT !.described = TRUE]
  OBVIOUS
<1>3. /\ Hollow \in SpaceType /\ h \in SpaceType /\ ~ Hollow.ready /\ ~ h.ready
      /\ ~ Hollow.indexed /\ ~ h.indexed
  BY <1>2 DEF Hollow, SpaceType
<1>4. promise' = promise /\ (NewSpace(n, Hollow) \/ NewSpace(n, h) \/ space' = space)
  BY <1>2 DEF LoadFill
<1>5. PICK r : r = Len(spaces) + 1
  OBVIOUS
<1>6. ~ spaces'[r].ready /\ ~ spaces'[r].indexed
  BY <1>1, <1>3, <1>4, <1>5, AppendSpace
<1> QED BY <1>4, <1>5, <1>6 DEF Stands

\* A call on the collection itself.
LEMMA StandAdmin ==
  ASSUME NoRecord, Inv, NEW w \in Workers, AdminStep(w), NEW n \in Names, n = work[w].name, StandInv(n)
  PROVE  StandInv(n)'
<1> USE DEF Inv, At
<1>1. SUFFICES ASSUME space'[n] # 0, NEW y \in promise'[n].kept
               PROVE  Stands(space[n], y, n)'
  BY DEF StandInv
<1>2. AdminRest(w, n) /\ NameInv(n)
  BY AdminRests
<1>3. CASE space'[n] = space[n]
  <2>1. PICK r : r = space[n]
    OBVIOUS
  <2>2. r \in 1 .. Len(spaces) /\ Own(r, n)
    BY <1>1, <1>3, <2>1, OwnSpace
  <2>3. CASE y \in promise[n].kept
    <3>1. Stands(r, y, n)
      BY <1>1, <1>3, <2>1, <2>3 DEF StandInv
    <3>2. Stands(r, y, n)'
      BY <2>2, <2>3, <3>1, <1>2, StandsAdmin DEF NameInv
    <3> QED BY <1>3, <2>1, <3>2 DEF Stands
  <2>4. CASE y \notin promise[n].kept
    <3>1. /\ y \in promise[n].saving /\ work[w].at \in Saving
          /\ work[w].op \in {"release", "flush"}
      BY <1>1, <1>2, <2>4, AdminKeeps
    <3>2. PICK D : D = promise[n].saving
      OBVIOUS
    <3>3. PICK A : A = promise[n].acked
      OBVIOUS
    <3>4. D \subseteq A /\ Has(n, A)
      BY <1>2, <3>1, <3>2, <3>3, SaveKnows DEF Salvagers
    <3>5. Has(n, A)'
      BY <3>1, <3>4, SaveMemory DEF Salvagers
    <3> QED BY <3>1, <3>2, <3>4, <3>5 DEF Has, Stands
  <2> QED BY <2>3, <2>4
<1>4. CASE CreateSpace(w)
  <2>1. promise' = promise /\ work[w].op = "create" /\ On(w, n)
    BY <1>4, AdminPledges DEF CreateSpace, On
  <2> QED BY <1>1, <1>2, <2>1 DEF NameInv, EmptyInv, Promised
<1>5. CASE LoadFill(w) /\ space'[n] = Len(spaces) + 1
  BY <1>5, FillsHollow
<1> QED BY <1>1, <1>2, <1>3, <1>4, <1>5 DEF AdminRest

\* A step that leaves memory as it is, and keeps no more.
LEMMA StandSame ==
  ASSUME NEW n, StandInv(n), UNCHANGED <<mode, space, spaces, shards, torn>>, promise'[n].kept \subseteq promise[n].kept
  PROVE  StandInv(n)'
BY DEF StandInv, Stands, Postings

\* Every step.
LEMMA StandStep ==
  ASSUME NoRecord, Inv, Inv', [Next]_vars, NEW n \in Names, StandInv(n)
  PROVE  StandInv(n)'
<1> USE DEF Inv
<1>1. ASSUME NEW w \in Workers, NEW m \in Names, Begin(w, m)
      PROVE  StandInv(n)'
  <2>1. UNCHANGED <<mode, space, spaces, shards, torn>>
    BY <1>1, BeginStarts
  <2>2. promise' = promise \/ Less(m, w)
    BY <1>1, BeginPledges
  <2>3. promise'[n].kept \subseteq promise[n].kept
    BY <2>2 DEF Less, Pledge
  <2> QED BY <2>1, <2>3, StandSame
<1>2. ASSUME NEW w \in Workers, Vertexes(w)
      PROVE  StandInv(n)'
  <2>1. space' = space
    BY <1>2, VertexQuiet
  <2>2. promise'[n].kept = promise[n].kept
    BY <1>2, VertexPledges DEF Pledge, Vertexes
  <2>3. SUFFICES ASSUME space'[n] # 0, NEW y \in promise'[n].kept
                 PROVE  Stands(space[n], y, n)'
    BY DEF StandInv
  <2>4. PICK r : r = space[n]
    OBVIOUS
  <2>5. r \in 1 .. Len(spaces) /\ Own(r, n) /\ Stands(r, y, n)
    BY <2>1, <2>2, <2>3, <2>4, OwnSpace DEF StandInv
  <2>6. y \in Promised(n)
    BY <2>2, <2>3 DEF Promised
  <2>7. Stands(r, y, n)'
    BY <1>2, <2>5, <2>6, StandsVertex
  <2> QED BY <2>1, <2>4, <2>7 DEF Stands
<1>3. ASSUME NEW w \in Workers, AdminStep(w), work[w].name # n
      PROVE  StandInv(n)'
  <2>1. space'[n] = space[n] /\ promise'[n] = promise[n]
    BY <1>3, AdminLeaves
  <2>3. SUFFICES ASSUME space'[n] # 0, NEW y \in promise'[n].kept
                 PROVE  Stands(space[n], y, n)'
    BY DEF StandInv
  <2>4. PICK r : r = space[n]
    OBVIOUS
  <2>5. r \in 1 .. Len(spaces) /\ Own(r, n) /\ Stands(r, y, n)
    BY <2>1, <2>3, <2>4, OwnSpace DEF StandInv
  <2>7. Stands(r, y, n)'
    BY <1>3, <2>5, StandsAdmin DEF NameInv
  <2> QED BY <2>1, <2>4, <2>7 DEF Stands
<1>4. ASSUME NEW w \in Workers, AdminStep(w), work[w].name = n
      PROVE  StandInv(n)'
  BY <1>4, StandAdmin
<1>5. CASE Die \/ CloseEnd
  BY <1>5 DEF Die, CloseEnd, Forget, StandInv
<1>6. CASE CloseBegin \/ Start \/ UNCHANGED vars
  BY <1>6, StandSame DEF CloseBegin, Start, vars, memory
<1> QED BY <1>1, <1>2, <1>3, <1>4, <1>5, <1>6, StepKinds

-----------------------------------------------------------------------------
(* What a collection is sure to have, loaded or not: what it acknowledged, *)
(* from when it is loaded until its release has saved all, and what was    *)
(* kept, before and after                                                  *)

Active(n) == n \in loaded \/ \E w \in Workers : Saves(w, n) /\ work[w].op = "release"
Sure(n)   == IF Active(n) THEN promise[n].acked ELSE promise[n].kept

\* What was kept is sure.
LEMMA KeptSure ==
  ASSUME NEW n, AckedInv(n)
  PROVE  promise[n].kept \subseteq Sure(n) /\ (Active(n) => promise[n].acked = Sure(n))
BY DEF AckedInv, Active, Sure

\* A call on a collection makes it active only as its load or its creation ends.
LEMMA AdminActive ==
  ASSUME TypeInv, NEW w \in Workers, AdminStep(w), NEW n, n = work[w].name, Active(n)', ~ SetFlags(w)
  PROVE  Active(n)
<1> USE DEF At
<1>1. /\ DOMAIN work' = Workers /\ Others(w)
      /\ work'[w] = Idle \/ But(w, {"at", "to", "map", "data"})
  BY AdminCourse
<1>2. loaded' \subseteq loaded
  BY DEF AdminStep, CreateBucket, CreateSpace, CreateUndoBucket, CreateUndoFlags, DestroySpace, DeleteFlags, DeleteBucket,
     LoadFill, LoadInverted, LoadVertex, ReleaseUnflag, SaveMeta, SaveVertexMap, SaveVertexFails, SaveVertexPut,
     SaveInverted, SaveInvertedPut, DestroyFlags, flags, Saved, Savers
<1>3. CASE n \in loaded'
  BY <1>2, <1>3 DEF Active
<1>4. ASSUME NEW v \in Workers, Saves(v, n)', work'[v].op = "release"
      PROVE  Active(n)
  <2>1. CASE v # w
    BY <1>1, <1>4, <2>1 DEF Others, Saves, On, Busy, Active
  <2>2. CASE v = w
    <3>1. Busy(w) /\ work[w].op = "release" /\ But(w, {"at", "to", "map", "data"})
      BY <1>1, <1>4, <2>2 DEF Saves, On, Busy, But, CallFields
    <3>2. ~ ReleaseUnflag(w) /\ ~ DestroySpace(w)
      <4>1. ASSUME ReleaseUnflag(w) PROVE FALSE
        <5>1. work'[w].at = "destroy"
          BY <3>1, <4>1, GoBut DEF ReleaseUnflag, TypeInv
        <5> QED BY <1>4, <2>2, <5>1 DEF Saves, Saving
      <4>2. ASSUME DestroySpace(w) PROVE FALSE
        <5>1. work'[w] = Idle
          BY <3>1, <4>2, ReturnEnds DEF DestroySpace, TypeInv, Ends
        <5> QED BY <3>1, <5>1 DEF But, Busy
      <4> QED BY <4>1, <4>2
    <3>3. work[w].at \in Saving
      BY <3>1, <3>2 DEF AdminStep, CreateBucket, CreateSpace, CreateUndoBucket, CreateUndoFlags, SetFlags, DeleteFlags,
         DeleteBucket, LoadFill, LoadInverted, LoadVertex, SaveMeta, SaveVertexMap, SaveVertexFails, SaveVertexPut,
         SaveInverted, SaveInvertedPut, Saving
    <3> QED BY <3>1, <3>3 DEF Active, Saves, On
  <2> QED BY <2>1, <2>2
<1> QED BY <1>3, <1>4 DEF Active

\* A call on a collection begins as one of these.
LEMMA BeginAdmins ==
  ASSUME TypeInv, NEW w \in Workers, NEW n \in Names, Begin(w, n), work'[w].op \in AdminOps
  PROVE  Administers(w, n)
<1>1. ASSUME NEW op, NEW v, BeginChange(w, op, "enter", n, v)
      PROVE  work'[w].op = op
  BY <1>1, VertexStarts DEF Starts
<1>2. ASSUME NEW filter, SearchBegin(w, n, filter) PROVE FALSE
  BY <1>1, <1>2 DEF SearchBegin, AdminOps
<1>3. ASSUME NEW t, EdgeRemoveBegin(w, n, t) PROVE FALSE
  BY <1>1, <1>3 DEF EdgeRemoveBegin, RemoveBegin, AdminOps
<1>4. ASSUME NEW id, MultiRemoveBegin(w, n, id) PROVE FALSE
  BY <1>1, <1>4 DEF MultiRemoveBegin, RemoveBegin, AdminOps
<1>5. ASSUME NEW id, NEW t, ChangeBegin(w, n, id, t) PROVE FALSE
  BY <1>1, <1>5 DEF ChangeBegin, AdminOps
<1> QED BY <1>2, <1>3, <1>4, <1>5 DEF Begin, Administers

\* Nothing becomes sure but what a change that is waited for has stored.
LEMMA SureLess ==
  ASSUME NoRecord, Inv, Inv', [Next]_vars, NEW n \in Names, NEW y \in Sure(n)'
  PROVE  y \in Sure(n) \/ \E u \in promise[n].calls : y = work[u].vertex
<1> USE DEF Inv
<1>0. promise[n].kept \subseteq Sure(n) /\ (Active(n) => promise[n].acked = Sure(n))
  BY KeptSure DEF NameInv
<1>1. ASSUME NEW w \in Workers, NEW m \in Names, Begin(w, m)
      PROVE  y \in Sure(n)
  <2>1. PICK op, at, v : Starts(w, op, at, m, v)
    BY <1>1, BeginStarts
  <2>2. promise' = promise \/ Less(m, w)
    BY <1>1, BeginPledges
  <2>3. promise'[n].kept \subseteq promise[n].kept /\ promise'[n].acked \subseteq promise[n].acked
    BY <2>2 DEF Less, Pledge
  <2>4. /\ loaded' \subseteq loaded
        /\ work'[w].op = "release" => m \in loaded
    <3>1. loaded' \subseteq loaded
      BY <1>1, BeginFlags DEF ReleaseBegin
    <3>2. ASSUME NEW o, NEW a, work' = [work EXCEPT ![w] = Call(o, a, m)]
          PROVE  work'[w].op = o
      <4>1. TypeInv /\ ~ Busy(w)
        BY <2>1 DEF Starts
      <4>2. Starts(w, o, a, m, NoVertex)
        BY <3>2, <4>1, AdminStarts
      <4> QED BY <4>2 DEF Starts
    <3>3. ASSUME work'[w].op = "release" PROVE m \in loaded
      <4>1. Administers(w, m)
        BY <1>1, <3>3, BeginAdmins DEF AdminOps
      <4>2. CASE ReleaseBegin(w, m) \/ FlushBegin(w, m) \/ CloseCollection(w, m)
        BY <4>2 DEF ReleaseBegin, FlushBegin, CloseCollection
      <4>3. CASE CreateBegin(w, m) \/ DeleteBegin(w, m) \/ LoadBegin(w, m)
        BY <3>2, <3>3, <4>3 DEF CreateBegin, DeleteBegin, LoadBegin, BeginAdmin
      <4> QED BY <4>1, <4>2, <4>3 DEF Administers
    <3> QED BY <3>1, <3>3
  <2>5. Active(n)' => Active(n)
    BY <2>1, <2>4 DEF Active, Saves, On, Starts, Others, Busy
  <2> QED BY <1>0, <2>3, <2>5 DEF Sure
<1>2. ASSUME NEW w \in Workers, Vertexes(w)
      PROVE  y \in Sure(n) \/ \E u \in promise[n].calls : y = work[u].vertex
  <2>1. loaded' = loaded /\ Busy(w) /\ work[w].op \in VertexOps /\ Others(w) /\ (work'[w] = Idle \/ Stays(w))
    BY <1>2, VertexQuiet, VertexPledges, CallsCourse DEF Vertexes
  <2>2. Active(n)' => Active(n)
    BY <2>1 DEF Active, Saves, On, Stays, Others, Busy, VertexOps
  <2>3. /\ promise'[n].kept = promise[n].kept
        /\ \A z \in promise'[n].acked : z \in promise[n].acked \/ (w \in promise[n].calls /\ z = work[w].vertex)
    BY <1>2, VertexPledges DEF Pledge, Vertexes
  <2> QED BY <1>0, <2>2, <2>3 DEF Sure
<1>3. ASSUME NEW w \in Workers, AdminStep(w), work[w].name # n
      PROVE  y \in Sure(n)
  <2>1. promise'[n] = promise[n] /\ (n \in loaded' <=> n \in loaded)
    BY <1>3, AdminLeaves
  <2>2. Others(w) /\ (work'[w] = Idle \/ Stays(w))
    BY <1>3, CallsCourse
  <2>3. Active(n)' => Active(n)
    BY <1>3, <2>1, <2>2 DEF Active, Saves, On, Stays, Others, Busy
  <2> QED BY <1>0, <2>1, <2>3 DEF Sure
<1>4. ASSUME NEW w \in Workers, AdminStep(w), work[w].name = n
      PROVE  y \in Sure(n)
  <2>1. CASE SetFlags(w)
    <3>1. promise'[n].acked \subseteq promise[n].kept /\ promise'[n].kept = promise[n].kept
      <4>1. PICK k : k = promise[n].kept
        OBVIOUS
      <4>2. promise' = [promise EXCEPT ![n].acked = k]
        BY <1>4, <2>1, <4>1 DEF SetFlags
      <4>3. DOMAIN promise = Names /\ DOMAIN promise[n] = PromiseFields
        BY DEF TypeInv, PromisesTyped, PromiseTyped
      <4> QED BY <4>1, <4>2, <4>3 DEF PromiseFields
    <3> QED BY <1>0, <3>1 DEF Sure
  <2>2. CASE ~ SetFlags(w)
    <3>1. Active(n)' => Active(n)
      BY <1>4, <2>2, AdminActive
    <3>2. promise'[n].acked = promise[n].acked
      BY <1>4, <2>2, AdminPledges DEF Pledge
    <3>3. CASE y \in promise'[n].kept
      <4>1. CASE y \in promise[n].kept
        BY <1>0, <4>1
      <4>2. CASE y \notin promise[n].kept
        <5>1. /\ y \in promise[n].saving /\ work[w].at \in Saving
              /\ work[w].op \in {"release", "flush"}
          BY <1>4, <3>3, <4>2, AdminKeeps
        <5>2. PICK D : D = promise[n].saving
          OBVIOUS
        <5>3. D \subseteq promise[n].acked /\ SaveOk(n, work[w], D) /\ On(w, n)
          BY <1>4, <5>1, <5>2, SaveKnows DEF Salvagers
        <5>4. Active(n)
          BY <5>1, <5>3 DEF SaveOk, Active, Saves
        <5> QED BY <1>0, <5>1, <5>2, <5>3, <5>4
      <4> QED BY <4>1, <4>2
    <3> QED BY <1>0, <3>1, <3>2, <3>3 DEF Sure
  <2> QED BY <2>1, <2>2
<1>5. CASE Die \/ CloseEnd
  <2>1. promise'[n].kept = promise[n].kept
    BY <1>5 DEF Die, CloseEnd, NoPromise
  <2>2. ~ Active(n)'
    BY <1>5 DEF Die, CloseEnd, Forget, Active, Saves, On, Busy
  <2> QED BY <1>0, <2>1, <2>2 DEF Sure
<1>6. CASE CloseBegin \/ Start \/ UNCHANGED vars
  BY <1>6 DEF CloseBegin, Start, vars, flags, Sure, Active, Saves, On, Busy
<1> QED BY <1>1, <1>2, <1>3, <1>4, <1>5, <1>6, StepKinds

-----------------------------------------------------------------------------
(* No search is after what a change that is waited for will store: a vertex *)
(* of its id was acknowledged before it, and withdrawn when it began        *)

NotSought == \A n \in Names : \A u \in promise[n].calls : \A v \in Workers :
               work[u].vertex \notin promise[n].sought[v]

\* A change that is waited for was so before, or begins.
LEMMA CallsWere ==
  ASSUME NoRecord, Inv, Inv', [Next]_vars, NEW n \in Names, NEW u \in promise'[n].calls
  PROVE  \/ u \in promise[n].calls /\ work'[u].vertex = work[u].vertex
         \/ \E id, t : ChangeBegin(u, n, id, t) /\ work'[u].vertex.id = id
<1> USE DEF Inv
<1>0. /\ u \in Workers /\ On(u, n)' /\ work'[u].op = "change"
      /\ u \in promise[n].calls => On(u, n) /\ work[u].op = "change"
  BY DEF Withheld
<1>1. ASSUME NEW w \in Workers, NEW m \in Names, Begin(w, m)
      PROVE  \/ u \in promise[n].calls /\ work'[u].vertex = work[u].vertex
             \/ \E id, t : ChangeBegin(u, n, id, t) /\ work'[u].vertex.id = id
  <2>1. PICK op, at, v : Starts(w, op, at, m, v)
    BY <1>1, BeginStarts
  <2>2. promise' = promise \/ Less(m, w)
    BY <1>1, BeginPledges
  <2>3. u \in promise[n].calls \/ (u = w /\ n = m)
    BY <2>2 DEF Less, Pledge
  <2>4. CASE u \in promise[n].calls
    BY <1>0, <2>1, <2>4 DEF Starts, Others, On
  <2>5. CASE u = w /\ n = m
    <3>1. TypeInv /\ Begin(u, n)
      BY <1>1, <2>5
    <3>2. \E id \in 1 .. MaxIds : \E t \in Tags : ChangeBegin(u, n, id, t) /\ work'[u].vertex = [id |-> id, tag |-> t]
      BY <1>0, <3>1, BeginKinds DEF AdminOps
    <3>3. PICK id \in 1 .. MaxIds, t \in Tags : ChangeBegin(u, n, id, t) /\ work'[u].vertex = [id |-> id, tag |-> t]
      BY <3>2
    <3>4. work'[u].vertex.id = id
      BY <3>3
    <3> QED BY <3>3, <3>4
  <2> QED BY <2>3, <2>4, <2>5
<1>2. ASSUME NEW w \in Workers, AdminStep(w)
      PROVE  u \in promise[n].calls /\ work'[u].vertex = work[u].vertex
  <2>1. /\ work[w].op \in AdminOps /\ Others(w)
        /\ u \in promise[n].calls
    BY <1>2, AdminPledges, CallsCourse DEF Pledge
  <2> QED BY <1>0, <2>1 DEF Others, AdminOps
<1>3. ASSUME NEW w \in Workers, Vertexes(w)
      PROVE  u \in promise[n].calls /\ work'[u].vertex = work[u].vertex
  <2>1. u \in promise[n].calls
    BY <1>3, VertexPledges DEF Vertexes, Pledge
  <2>2. /\ Others(w)
        /\ \/ work'[w] = Idle
           \/ work'[w].vertex = work[w].vertex \/ RemoveNext(w)
    BY <1>3, VertexCourse DEF Vertexes
  <2>3. RemoveNext(w) => work[w].op = "remove"
    BY DEF RemoveNext, At
  <2> QED BY <1>0, <2>1, <2>2, <2>3 DEF Others, On, Busy
<1>4. CASE Die \/ CloseEnd
  BY <1>0, <1>4 DEF Die, CloseEnd, Forget, On, Busy
<1>5. CASE CloseBegin \/ Start \/ UNCHANGED vars
  BY <1>5 DEF CloseBegin, Start, vars
<1> QED BY <1>1, <1>2, <1>3, <1>4, <1>5, StepKinds

\* Every step.
LEMMA NotSoughtStep ==
  ASSUME NoRecord, Inv, Inv', PromiseIs, NotSought, [Next]_vars
  PROVE  NotSought'
<1> USE DEF Inv
<1>1. SUFFICES ASSUME NEW n \in Names, NEW u \in promise'[n].calls, NEW v \in Workers,
                      work'[u].vertex \in promise'[n].sought[v]
               PROVE  FALSE
  BY DEF NotSought
<1>2. /\ u \in Workers /\ On(u, n)' /\ work'[u].op = "change"
      /\ u \in promise[n].calls => On(u, n) /\ work[u].op = "change"
  BY DEF Withheld
<1>3. CASE u \in promise[n].calls /\ work'[u].vertex = work[u].vertex
  <2>1. CASE promise'[n].sought[v] \subseteq promise[n].sought[v]
    BY <1>1, <1>3, <2>1 DEF NotSought
  <2>2. CASE promise'[n].sought[v] = promise[n].acked
    <3>1. work[u].vertex \in Promised(n)
      BY <1>1, <1>3, <2>2 DEF Promised
    <3>2. ~ Takes(work[u], work[u].vertex)
      BY <1>2, <1>3, <3>1 DEF Withheld
    <3> QED BY <1>2, <1>3, <3>2 DEF Takes
  <2> QED BY <2>1, <2>2, SoughtStep
<1>4. ASSUME NEW id, NEW t, ChangeBegin(u, n, id, t), work'[u].vertex.id = id
      PROVE  FALSE
  BY <1>1, <1>2, <1>4, ChangeNarrows
<1> QED BY <1>3, <1>4, CallsWere

-----------------------------------------------------------------------------
(* What counts for the answer of a search: it is found, or so many are     *)
(* found that are as good                                                  *)

Counted(y, D) == y \in D \/ \E Q \in SUBSET D : Cardinality(Q) = TopK /\ \A z \in Q : y.id <= z.id

\* What counts goes on counting as more is found, ...
LEMMA CountedMore ==
  ASSUME NEW y, NEW D, NEW E, D \subseteq E, Counted(y, D)
  PROVE  Counted(y, E)
BY DEF Counted

\* ... and when a queue keeps the top of it.
LEMMA CountedTop ==
  ASSUME NEW S \in SUBSET Vertex, NEW Q, Top(Q, S), NEW y \in Vertex, Counted(y, S)
  PROVE  Counted(y, Q)
<1>1. \A x \in Vertex : x.id \in Nat
  BY VectorStoresAssumption DEF Vertex
<1>2. CASE y \in S
  BY <1>2 DEF Top, Counted
<1>3. ASSUME NEW P \in SUBSET S, Cardinality(P) = TopK, \A z \in P : y.id <= z.id
      PROVE  Counted(y, Q)
  <2>1. CASE P \subseteq Q
    BY <1>3, <2>1 DEF Counted
  <2>2. ASSUME NEW x \in P, x \notin Q
        PROVE  Counted(y, Q)
    <3>1. Q \subseteq Vertex /\ Cardinality(Q) = TopK /\ \A z \in Q : x.id <= z.id
      BY <1>3, <2>2 DEF Top
    <3>2. \A z \in Q : y.id <= z.id
      BY <1>1, <1>3, <2>2, <3>1
    <3> QED BY <3>1, <3>2 DEF Counted
  <2> QED BY <2>1, <2>2
<1> QED BY <1>2, <1>3 DEF Counted

\* In an answer it is the top of all that counts.
LEMMA CountedAll ==
  ASSUME IsFiniteSet(Tags), NEW D \in SUBSET Vertex, Cardinality(D) <= TopK, NEW S \in SUBSET Vertex,
         \A y \in S : Counted(y, D)
  PROVE  Top(D, S \cup D)
<1>1. SUFFICES ASSUME NEW x \in S, x \notin D
               PROVE  Cardinality(D) = TopK /\ \A y \in D : x.id <= y.id
  BY DEF Top
<1>2. PICK Q \in SUBSET D : Cardinality(Q) = TopK /\ \A z \in Q : x.id <= z.id
  BY <1>1 DEF Counted
<1>3. IsFiniteSet(D) /\ Cardinality(D) \in Nat /\ TopK \in Nat
  BY VertexFinite, VectorStoresAssumption
<1>4. Cardinality(Q) <= Cardinality(D) /\ (Cardinality(D) = Cardinality(Q) => D = Q)
  BY <1>3, FS_Subset
<1> QED BY <1>2, <1>3, <1>4

-----------------------------------------------------------------------------
(* What the steps of a search change in its call                           *)

\* It knows what to read.
LEMMA ScanIs ==
  ASSUME WorkIs, NEW w \in Workers, Busy(w), NEW s, NEW ids, SearchScan(w, s, ids), NEW a, a = work'[w]
  PROVE  /\ a.at \in {"scan", "parallel"} /\ a.to = s /\ a.ids = ids /\ a.vertex = work[w].vertex
         /\ a.left = IF work[w].vertex = NoVertex THEN 0 .. MapShards - 1 ELSE MapsOf(ids)
<1>1. work[w] \in Activity
  BY DoingNow
<1>2. PICK left : left = IF work[w].vertex = NoVertex THEN 0 .. MapShards - 1 ELSE MapsOf(ids)
  OBVIOUS
<1>3. PICK at \in Scans : work' = [work EXCEPT ![w].at = at, ![w].to = s, ![w].ids = ids, ![w].left = left]
  BY <1>2 DEF SearchScan
<1>4. a = [work[w] EXCEPT !.at = at, !.to = s, !.ids = ids, !.left = left]
  BY <1>3 DEF WorkIs
<1> QED BY <1>1, <1>2, <1>3, <1>4, ActivityIs DEF Scans

\* It reads a map: what it has found is the top of what it had and of that map, if it
\* has one queue; with a queue for each map there is the top of that map beside the others.
Reads(w, a, i, part, Q) ==
  /\ a.left = work[w].left \ {i} /\ spaces[work[w].to].ready
  /\ part \in SUBSET Vertex /\ part = {v \in Part(work[w].to, i) : v.id \in work[w].ids}
  /\ Top(a.data, work[w].data \cup part) \/ (Top(Q, part) /\ a.data = work[w].data \cup Q)

\* So it does when it reads one.
LEMMA MapIs ==
  ASSUME IsFiniteSet(Tags), TypeInv, WorkIs, NEW w \in Workers, SearchMap(w), NEW a, a = work'[w]
  PROVE  /\ a.at = work[w].at /\ a.to = work[w].to /\ a.ids = work[w].ids /\ a.vertex = work[w].vertex
         /\ \E i, part, Q : Reads(w, a, i, part, Q)
<1>1. Busy(w) /\ work[w].op = "search" /\ work[w].at \in {"scan", "parallel"}
  BY DEF SearchMap, At
<1>2. work[w] \in Activity /\ Sized(work[w])
  BY <1>1, DoingNow
<1>3. PICK i \in work[w].left :
        /\ spaces[work[w].to].ready
        /\ work' = [work EXCEPT ![w].left = @ \ {i}, ![w].data =
                      IF work[w].at = "scan" THEN Queue!AddAll(@, {v \in Part(work[w].to, i) : v.id \in work[w].ids})
                      ELSE @ \cup Queue!AddAll({}, {v \in Part(work[w].to, i) : v.id \in work[w].ids})]
  BY DEF SearchMap
<1>4. PICK part : part = {v \in Part(work[w].to, i) : v.id \in work[w].ids}
  OBVIOUS
<1>5. PICK d : d = IF work[w].at = "scan" THEN Queue!AddAll(work[w].data, part)
                   ELSE work[w].data \cup Queue!AddAll({}, part)
  OBVIOUS
<1>6. work' = [work EXCEPT ![w].left = work[w].left \ {i}, ![w].data = d]
  BY <1>3, <1>4, <1>5 DEF WorkIs
<1>7. a = [work[w] EXCEPT !.left = work[w].left \ {i}, !.data = d]
  BY <1>6 DEF WorkIs
<1>8. /\ a.at = work[w].at /\ a.to = work[w].to /\ a.ids = work[w].ids /\ a.vertex = work[w].vertex
      /\ a.left = work[w].left \ {i} /\ a.data = d
  BY <1>2, <1>7, ActivityIs
<1>9. work[w].to # 0
  BY <1>1, HasEntered DEF VertexOps
<1>10. part \in SUBSET Vertex /\ {} \in SUBSET Vertex /\ Cardinality({}) <= TopK /\ work[w].data \in SUBSET Vertex
  BY <1>1, <1>2, <1>4, <1>9, PartTyped, FS_EmptySet, VectorStoresAssumption DEF Sized
<1>11. \E Q : \/ Top(a.data, work[w].data \cup part)
              \/ Top(Q, part) /\ a.data = work[w].data \cup Q
  <2>1. CASE work[w].at = "scan"
    <3>1. Cardinality(work[w].data) <= TopK
      BY <1>1, <1>2, <2>1 DEF Sized
    <3>2. Top(Queue!AddAll(work[w].data, part), work[w].data \cup part)
      BY <1>10, <3>1, AddAllTop
    <3> QED BY <1>5, <1>8, <2>1, <3>2
  <2>2. CASE work[w].at # "scan"
    <3>1. Top(Queue!AddAll({}, part), {} \cup part)
      BY <1>10, AddAllTop
    <3>2. {} \cup part = part
      OBVIOUS
    <3> QED BY <1>5, <1>8, <2>2, <3>1, <3>2
  <2> QED BY <2>1, <2>2
<1>12. PICK Q : \/ Top(a.data, work[w].data \cup part)
                \/ Top(Q, part) /\ a.data = work[w].data \cup Q
  BY <1>11
<1>13. Reads(w, a, i, part, Q)
  BY <1>3, <1>4, <1>8, <1>10, <1>12 DEF Reads
<1> QED BY <1>8, <1>13

\* It has read all maps, and answers the top of what it has found.
LEMMA AnswerIs ==
  ASSUME IsFiniteSet(Tags), WorkIs, NEW w \in Workers, SearchAnswer(w), NEW a, a = work'[w]
  PROVE  /\ a.at = "answer" /\ a.vertex = work[w].vertex
         /\ work[w].data \in SUBSET Vertex /\ (a.data = work[w].data \/ Top(a.data, work[w].data))
<1>1. Busy(w) /\ work[w].op = "search" /\ work[w].at \in {"scan", "parallel"}
  BY DEF SearchAnswer, At
<1>2. work[w] \in Activity /\ Sized(work[w])
  BY <1>1, DoingNow
<1>3. PICK d : d = IF work[w].at = "scan" THEN work[w].data ELSE Queue!AddAll({}, work[w].data)
  OBVIOUS
<1>4. work' = [work EXCEPT ![w].at = "answer", ![w].ids = {}, ![w].data =
                  IF work[w].at = "scan" THEN @ ELSE Queue!AddAll({}, @)]
  BY DEF SearchAnswer
<1>5. work' = [work EXCEPT ![w].at = "answer", ![w].ids = {}, ![w].data = d]
  BY <1>3, <1>4 DEF WorkIs
<1>6. a = [work[w] EXCEPT !.at = "answer", !.ids = {}, !.data = d]
  BY <1>5 DEF WorkIs
<1>7. a.at = "answer" /\ a.vertex = work[w].vertex /\ a.data = d
  BY <1>2, <1>6, ActivityIs
<1>8. {} \in SUBSET Vertex /\ Cardinality({}) <= TopK /\ work[w].data \in SUBSET Vertex
  BY <1>1, <1>2, FS_EmptySet, VectorStoresAssumption DEF Sized
<1>9. Top(Queue!AddAll({}, work[w].data), {} \cup work[w].data)
  BY <1>8, AddAllTop
<1>10. {} \cup work[w].data = work[w].data
  OBVIOUS
<1> QED BY <1>3, <1>7, <1>8, <1>9, <1>10

-----------------------------------------------------------------------------
(* What a search is to count                                               *)

Due(w) == {y \in promise[work[w].name].sought[w] \cap Sure(work[w].name) :
             work[w].vertex # NoVertex => y.tag = work[w].vertex.tag /\ work[w].name \notin torn}

\* It counts it, or has it still before it: in the maps of its space, and, where it
\* filters, in the index and then in the shard of its column.
SeekOk(a, y, n) ==
  /\ a.at \in {"column", "read"} => Stands(a.to, y, n)
  /\ a.at = "read" => y \in shards[a.shard]
  /\ a.at \in {"scan", "parallel"} =>
       Counted(y, a.data) \/ (MapOf(y.id) \in a.left /\ y.id \in a.ids /\ Stands(a.to, y, n))
  /\ a.at = "answer" => Counted(y, a.data)

\* Only edge filters.
Filters(a) == /\ a.at \in {"column", "read"} => a.vertex # NoVertex
              /\ a.vertex # NoVertex => mode = "edge"

Seeks(w)    == Busy(w) /\ work[w].op = "search"
SeekInv     == \A w \in Workers : Seeks(w) =>
                 Filters(work[w]) /\ \A y \in Due(w) : SeekOk(work[w], y, work[w].name)

\* All of it.
AnswerInv == /\ Inv /\ FullInv /\ Twins /\ NotSought /\ SeekInv
             /\ \A n \in Names : StandInv(n)

\* What is due is promised.
LEMMA DueIs ==
  ASSUME TypeInv, NEW w \in Workers, Seeks(w), NEW y \in Due(w), NEW n, n = work[w].name
  PROVE  n \in Names /\ y \in Promised(n) /\ y \in Sure(n) /\ y \in Vertex
<1>1. n \in Names
  BY CallTyped DEF TypeInv, Seeks, Typed
<1>2. y \in Sure(n) /\ y \in Promised(n)
  BY DEF Due, Sure, Promised
<1> QED BY <1>1, <1>2 DEF Promised, TypeInv, PromisesTyped, PromiseTyped

\* No step mends an index.
LEMMA TornStays ==
  ASSUME TypeInv, [Next]_vars
  PROVE  torn \subseteq torn'
<1>1. ASSUME NEW w \in Workers, NEW n \in Names, Begin(w, n) PROVE torn' = torn
  BY <1>1, BeginStarts
<1>2. ASSUME NEW w \in Workers, AdminStep(w) PROVE torn' = torn
  BY <1>2, AdminFlags
<1>3. ASSUME NEW w \in Workers, Vertexes(w) PROVE torn \subseteq torn'
  BY <1>3, VertexQuiet
<1>4. CASE Die \/ CloseEnd \/ CloseBegin \/ Start \/ UNCHANGED vars
  BY <1>4 DEF Die, CloseEnd, CloseBegin, Start, vars
<1> QED BY <1>1, <1>2, <1>3, <1>4, StepKinds

\* Nothing becomes due.
LEMMA DueLess ==
  ASSUME NoRecord, AnswerInv, Inv', [Next]_vars, NEW w \in Workers, Seeks(w), Seeks(w)',
         work'[w].name = work[w].name, work'[w].vertex = work[w].vertex, NEW y \in Due(w)'
  PROVE  y \in Due(w)
<1> USE DEF AnswerInv, Inv
<1>1. PICK n : n = work[w].name
  OBVIOUS
<1>2. n \in Names /\ n = work'[w].name
  BY <1>1, CallTyped DEF TypeInv, Seeks, Typed
<1>3. y \in promise'[n].sought[w] /\ y \in Sure(n)'
  BY <1>1, <1>2 DEF Due
<1>4. y \in promise[n].sought[w]
  <2>1. ASSUME SearchFor(w, n) PROVE FALSE
    BY <2>1 DEF SearchFor, SearchBegin, BeginChange, Seeks
  <2>2. PromiseIs
    BY DEF FullInv
  <2> QED BY <1>2, <1>3, <2>1, <2>2, SoughtStep
<1>5. y \in Sure(n)
  <2>1. y \in Sure(n) \/ \E u \in promise[n].calls : y = work[u].vertex
    BY <1>2, <1>3, SureLess
  <2> QED BY <1>2, <1>4, <2>1 DEF NotSought
<1>6. work[w].vertex # NoVertex => y.tag = work[w].vertex.tag /\ n \notin torn
  BY <1>1, <1>2, TornStays DEF Due
<1> QED BY <1>1, <1>4, <1>5, <1>6 DEF Due

\* A collection that is being loaded is not active, so what is sure was kept.
LEMMA LoadSure ==
  ASSUME Inv, NEW w \in Workers, AdminStep(w), LoadVertex(w) \/ LoadInverted(w), NEW n, n = work[w].name
  PROVE  Sure(n) = promise[n].kept
<1> USE DEF Inv
<1>1. Busy(w) /\ work[w].op = "load" /\ n \in Names /\ w \in Admins
  BY AdminPledges, AdminIs DEF LoadVertex, LoadInverted, At, AdminOps
<1>2. process = "up"
  BY <1>1 DEF OneInv, Shape
<1>3. n \notin loaded
  BY <1>1, <1>2 DEF ServedInv, UpInv, Progress
<1>4. ASSUME NEW v \in Workers, Saves(v, n), work[v].op = "release" PROVE FALSE
  <2>1. v \in Admins
    BY <1>4, AdminIs DEF Saves, On, AdminOps
  <2> QED BY <1>1, <1>4, <2>1 DEF OneInv
<1> QED BY <1>3, <1>4 DEF Sure, Active

\* What is sure stands in the space of the collection.
LEMMA SureStands ==
  ASSUME Inv, NEW n \in Names, StandInv(n), space[n] # 0, NEW y \in Sure(n)
  PROVE  Stands(space[n], y, n)
<1>1. CASE Active(n)
  <2>1. Has(n, promise[n].acked) /\ y \in promise[n].acked
    BY <1>1 DEF Inv, NameInv, AckedInv, Active, Sure
  <2> QED BY <2>1, HasStands
<1>2. CASE ~ Active(n)
  BY <1>2 DEF Sure, StandInv
<1> QED BY <1>1, <1>2

\* A vertex that stands in the space of a search goes on doing so, whoever takes a step.
LEMMA StandsOn ==
  ASSUME AnswerInv, TypeInv', [Next]_vars, NEW w \in Workers, Seeks(w), Busy(w)', NEW y \in Due(w),
         NEW n, n = work[w].name, NEW r, r = work[w].to, r # 0, Stands(r, y, n)
  PROVE  Stands(r, y, n)'
<1> USE DEF AnswerInv, Inv
<1>1. n \in Names /\ y \in Promised(n) /\ y \in Sure(n)
  BY DueIs
<1>2. r \in 1 .. Len(spaces) /\ Own(r, n)
  BY OwnTo DEF Seeks
<1>3. ASSUME NEW v \in Workers, NEW m \in Names, Begin(v, m)
      PROVE  Stands(r, y, n)'
  <2>1. UNCHANGED <<mode, spaces, shards, torn>>
    BY <1>3, BeginStarts
  <2> QED BY <2>1 DEF Stands, Postings
<1>4. ASSUME NEW v \in Workers, Vertexes(v)
      PROVE  Stands(r, y, n)'
  BY <1>1, <1>2, <1>4, StandsVertex
<1>5. ASSUME NEW v \in Workers, AdminStep(v)
      PROVE  Stands(r, y, n)'
  <2>1. work[v].name = n /\ (LoadVertex(v) \/ LoadInverted(v)) => y \in promise[n].kept
    BY <1>1, <1>5, LoadSure
  <2> QED BY <1>1, <1>2, <1>5, <2>1, StandsAdmin DEF NameInv
<1>6. CASE Die \/ CloseEnd
  BY <1>6 DEF Die, CloseEnd, Forget, Busy
<1>7. CASE CloseBegin \/ Start \/ UNCHANGED vars
  BY <1>7 DEF CloseBegin, Start, vars, memory, Stands, Postings
<1> QED BY <1>3, <1>4, <1>5, <1>6, <1>7, StepKinds

\* So it is in the shard that the search has.
LEMMA ShardOn ==
  ASSUME AnswerInv, TypeInv', [Next]_vars, NEW w \in Workers, Seeks(w), Busy(w)', NEW y \in Due(w),
         NEW c, c = work[w].shard, c # 0, y \in shards[c]
  PROVE  y \in shards'[c]
<1> USE DEF AnswerInv, Inv
<1>0. PICK n : n = work[w].name
  OBVIOUS
<1>1. n \in Names /\ y \in Promised(n) /\ On(w, n)
  BY <1>0, DueIs DEF On, Seeks
<1>2. c \in 1 .. Len(shards)
  BY <1>1, CallTyped, MemoryTyped DEF TypeInv, Typed, Bounds, On
<1>3. ASSUME NEW v \in Workers, NEW m \in Names, Begin(v, m)
      PROVE  y \in shards'[c]
  BY <1>3, BeginStarts
<1>4. ASSUME NEW v \in Workers, Vertexes(v)
      PROVE  y \in shards'[c]
  <2>1. Busy(v)
    BY <1>4, VertexPledges DEF Vertexes
  <2>2. work[v].shard = c => On(v, n)
    BY <1>0, <1>1, <2>1 DEF Twins, On
  <2>3. work[v].shard = c => ~ Takes(work[v], y)
    BY <1>1, <2>2 DEF Withheld
  <2> QED BY <1>2, <1>4, <2>3, ShardSpares
<1>5. ASSUME NEW v \in Workers, AdminStep(v)
      PROVE  y \in shards'[c]
  <2>1. PICK m : m = work[v].name
    OBVIOUS
  <2> QED BY <1>2, <1>5, <2>1, AdminRests DEF AdminRest
<1>6. CASE Die \/ CloseEnd
  BY <1>6 DEF Die, CloseEnd, Forget, Busy
<1>7. CASE CloseBegin \/ Start \/ UNCHANGED vars
  BY <1>7 DEF CloseBegin, Start, vars, memory
<1> QED BY <1>3, <1>4, <1>5, <1>6, <1>7, StepKinds

\* A step of another leaves a search where it was.
LEMMA SeekBeside ==
  ASSUME AnswerInv, TypeInv', [Next]_vars, NEW w \in Workers, Seeks(w), Busy(w)', NEW a, a = work[w],
         NEW y \in Due(w), NEW n, n = work[w].name, SeekOk(a, y, n)
  PROVE  SeekOk(a, y, n)'
<1> USE DEF AnswerInv, Inv
<1>1. a.at \in {"column", "read", "scan", "parallel"} => a.to # 0
  BY HasEntered DEF Seeks, VertexOps
<1>2. a.at = "read" => a.shard # 0
  BY CallTyped DEF TypeInv, Typed, Seeks
<1>3. a.to # 0 /\ Stands(a.to, y, n) => Stands(a.to, y, n)'
  BY StandsOn
<1>4. a.shard # 0 /\ y \in shards[a.shard] => y \in shards'[a.shard]
  BY ShardOn
<1>5. Counted(y, a.data) => Counted(y, a.data)'
  BY DEF Counted
<1> QED BY <1>1, <1>2, <1>3, <1>4, <1>5 DEF SeekOk

-----------------------------------------------------------------------------
(* The steps of a search                                                   *)

\* Memory that is as it was has what it had.
LEMMA StandsSame ==
  ASSUME NEW r, NEW y, NEW n, Stands(r, y, n), UNCHANGED <<mode, torn, spaces, shards>>
  PROVE  Stands(r, y, n)'
BY DEF Stands, Postings

\* It enters the space of the name: all that is due is there.
LEMMA SeekEnters ==
  ASSUME AnswerInv, NEW w \in Workers, SearchEnter(w), NEW a, a = work'[w], NEW n, n = work[w].name, NEW y \in Due(w)
  PROVE  SeekOk(a, y, n)'
<1> USE DEF AnswerInv, Inv
<1>1. Seeks(w) /\ space[n] # 0 /\ Space(w) = space[n] /\ UNCHANGED <<mode, torn, spaces, shards>>
  BY DEF SearchEnter, At, Seeks, Space, UnchangedByIndex
<1>2. n \in Names /\ y \in Sure(n) /\ y \in Vertex
  BY <1>1, DueIs
<1>3. Stands(space[n], y, n)
  BY <1>1, <1>2, SureStands
<1>4. Stands(space[n], y, n)'
  <2>1. PICK r : r = space[n]
    OBVIOUS
  <2>2. Stands(r, y, n)'
    BY <1>1, <1>3, <2>1, StandsSame
  <2> QED BY <1>1, <2>1, <2>2 DEF SearchEnter, UnchangedByIndex, Stands
<1>5. y.id \in 1 .. MaxIds /\ MapOf(y.id) \in 0 .. MapShards - 1
  <2>1. y.id \in 1 .. MaxIds
    BY <1>2 DEF Vertex
  <2>2. MapsOf({y.id}) \subseteq 0 .. MapShards - 1
    BY <2>1, MapsAre
  <2> QED BY <2>1, <2>2 DEF MapsOf
<1>6. CASE work[w].vertex = NoVertex
  <2>1. SearchScan(w, space[n], 1 .. MaxIds)
    BY <1>1, <1>6 DEF SearchEnter
  <2>2. /\ a.at \in {"scan", "parallel"} /\ a.to = space[n] /\ a.ids = 1 .. MaxIds
        /\ a.left = 0 .. MapShards - 1
    BY <1>1, <1>6, <2>1, ScanIs DEF FullInv, Seeks
  <2>3. Stands(a.to, y, n)'
    BY <1>3, <1>1, <2>2, StandsSame
  <2> QED BY <1>5, <2>2, <2>3 DEF SeekOk
<1>7. CASE work[w].vertex # NoVertex
  <2>1. work' = [work EXCEPT ![w].to = Space(w), ![w].at = "column"]
    BY <1>7 DEF SearchEnter
  <2>2. a.at = "column" /\ a.to = space[n]
    BY <1>1, <2>1, ToBut DEF Seeks, TypeInv
  <2>3. Stands(a.to, y, n)'
    BY <1>3, <1>1, <2>2, StandsSame
  <2> QED BY <2>2, <2>3 DEF SeekOk
<1> QED BY <1>6, <1>7

\* It finds the shard of the index: what it filters has its posting there.
LEMMA SeekColumn ==
  ASSUME AnswerInv, NEW w \in Workers, SearchColumn(w), NEW a, a = work'[w], NEW n, n = work[w].name, NEW y \in Due(w),
         SeekOk(work[w], y, n)
  PROVE  SeekOk(a, y, n)'
<1> USE DEF AnswerInv, Inv
<1>0. PICK s : s = work[w].to
  OBVIOUS
<1>1. Seeks(w) /\ work[w].at = "column" /\ spaces[s].indexed /\ GetShard(w, "read") /\ UNCHANGED <<mode, torn, space>>
  BY <1>0 DEF SearchColumn, At, Seeks, UnchangedByIndex
<1>2. Stands(s, y, n) /\ s # 0 /\ mode = "edge" /\ n \notin torn
  BY <1>0, <1>1, HasEntered DEF SeekOk, SeekInv, Filters, Due, Seeks, VertexOps
<1>3. y \in Postings(s)
  BY <1>1, <1>2 DEF Stands
<1>4. y \in shards[Column(s)] /\ Column(s) # 0
  BY <1>3 DEF Postings, Column
<1>5. /\ But(w, {"shard", "at"}) /\ a.at = "read" /\ Column(s)' = a.shard
      /\ spaces' = spaces /\ shards' = shards
  BY <1>0, <1>1, <1>2, <1>4, GetShardDoes DEF Seeks
<1>6. a.to = s /\ a.shard = Column(s)
  BY <1>0, <1>5 DEF But, CallFields, Column
<1>7. Stands(a.to, y, n)'
  BY <1>1, <1>2, <1>5, <1>6, StandsSame
<1>8. y \in shards'[a.shard]
  BY <1>4, <1>5, <1>6
<1> QED BY <1>5, <1>7, <1>8 DEF SeekOk

\* It filters.
LEMMA SeekFilters ==
  ASSUME AnswerInv, NEW w \in Workers, SearchFilter(w), NEW a, a = work'[w], NEW n, n = work[w].name, NEW y \in Due(w),
         SeekOk(work[w], y, n)
  PROVE  SeekOk(a, y, n)'
<1> USE DEF AnswerInv, Inv
<1>1. /\ Seeks(w) /\ work[w].at = "read" /\ UNCHANGED <<mode, torn, spaces, shards>>
      /\ SearchScan(w, work[w].to, {p.id : p \in Found(w)})
  BY DEF SearchFilter, At, Seeks, UnchangedByIndex
<1>2. Stands(work[w].to, y, n) /\ y \in shards[work[w].shard] /\ work[w].vertex # NoVertex
  BY <1>1 DEF SeekOk, SeekInv, Filters
<1>3. y \in Found(w)
  BY <1>2 DEF Found, Due
<1>4. PICK ids : ids = {p.id : p \in Found(w)}
  OBVIOUS
<1>5. /\ a.at \in {"scan", "parallel"} /\ a.to = work[w].to /\ a.ids = ids
      /\ a.left = MapsOf(ids)
  BY <1>1, <1>2, <1>4, ScanIs DEF FullInv, Seeks
<1>6. y.id \in a.ids /\ MapOf(y.id) \in a.left
  BY <1>3, <1>4, <1>5 DEF MapsOf
<1>7. Stands(a.to, y, n)'
  BY <1>1, <1>2, <1>5, StandsSame
<1> QED BY <1>5, <1>6, <1>7 DEF SeekOk

\* It reads a map: what is due there counts.
LEMMA SeekMaps ==
  ASSUME IsFiniteSet(Tags), AnswerInv, NEW w \in Workers, SearchMap(w), NEW a, a = work'[w], NEW n, n = work[w].name,
         NEW y \in Due(w), SeekOk(work[w], y, n)
  PROVE  SeekOk(a, y, n)'
<1> USE DEF AnswerInv, Inv
<1>1. Seeks(w) /\ work[w].at \in {"scan", "parallel"} /\ UNCHANGED <<mode, torn, spaces, shards>>
  BY DEF SearchMap, At, Seeks, UnchangedByIndex
<1>2. y \in Vertex
  BY <1>1, DueIs
<1>3. a.at = work[w].at /\ a.to = work[w].to /\ a.ids = work[w].ids
  BY MapIs DEF FullInv
<1>4. PICK i, part, Q : Reads(w, a, i, part, Q)
  BY MapIs DEF FullInv
<1>5. work[w].data \in SUBSET Vertex
  BY <1>1, DoingNow DEF FullInv, Seeks, Sized
<1>6. ASSUME Counted(y, work[w].data) PROVE Counted(y, a.data)
  <2>1. Counted(y, work[w].data \cup part)
    BY <1>6, CountedMore
  <2>2. CASE Top(a.data, work[w].data \cup part)
    BY <1>2, <1>4, <1>5, <2>1, <2>2, CountedTop DEF Reads
  <2>3. CASE a.data = work[w].data \cup Q
    BY <1>6, <2>3, CountedMore
  <2> QED BY <1>4, <2>2, <2>3 DEF Reads
<1>7. ASSUME y \in part PROVE Counted(y, a.data)
  <2>1. Counted(y, part) /\ Counted(y, work[w].data \cup part)
    BY <1>7 DEF Counted
  <2>2. CASE Top(a.data, work[w].data \cup part)
    BY <1>2, <1>4, <1>5, <2>1, <2>2, CountedTop DEF Reads
  <2>3. CASE Top(Q, part) /\ a.data = work[w].data \cup Q
    <3>1. Counted(y, Q)
      BY <1>2, <1>4, <2>1, <2>3, CountedTop DEF Reads
    <3> QED BY <2>3, <3>1, CountedMore
  <2> QED BY <1>4, <2>2, <2>3 DEF Reads
<1>8. CASE Counted(y, work[w].data)
  BY <1>1, <1>3, <1>6, <1>8 DEF SeekOk, Counted
<1>9. CASE MapOf(y.id) \in work[w].left /\ y.id \in work[w].ids /\ Stands(work[w].to, y, n)
  <2>1. y \in spaces[work[w].to].vertices
    BY <1>4, <1>9 DEF Stands, Reads
  <2>2. CASE MapOf(y.id) = i
    <3>1. y \in part
      BY <1>4, <1>9, <2>1, <2>2 DEF Part, Reads
    <3> QED BY <1>1, <1>3, <1>7, <3>1 DEF SeekOk, Counted
  <2>3. CASE MapOf(y.id) # i
    <3>1. MapOf(y.id) \in a.left /\ y.id \in a.ids
      BY <1>3, <1>4, <1>9, <2>3 DEF Reads
    <3>2. Stands(a.to, y, n)'
      BY <1>1, <1>3, <1>9, StandsSame
    <3> QED BY <1>1, <1>3, <3>1, <3>2 DEF SeekOk
  <2> QED BY <2>2, <2>3
<1> QED BY <1>1, <1>8, <1>9 DEF SeekOk

\* It answers when all maps are read, so that all that is due counts.
LEMMA SeekAnswers ==
  ASSUME IsFiniteSet(Tags), AnswerInv, NEW w \in Workers, SearchAnswer(w), NEW a, a = work'[w], NEW n, n = work[w].name,
         NEW y \in Due(w), SeekOk(work[w], y, n)
  PROVE  SeekOk(a, y, n)'
<1> USE DEF AnswerInv, Inv
<1>1. Seeks(w) /\ work[w].at \in {"scan", "parallel"} /\ work[w].left = {}
  BY DEF SearchAnswer, At, Seeks
<1>2. y \in Vertex
  BY <1>1, DueIs
<1>3. Counted(y, work[w].data)
  BY <1>1 DEF SeekOk
<1>4. /\ a.at = "answer" /\ work[w].data \in SUBSET Vertex
      /\ a.data = work[w].data \/ Top(a.data, work[w].data)
  BY AnswerIs DEF FullInv
<1>5. Counted(y, a.data)
  <2>1. CASE a.data = work[w].data
    BY <1>3, <2>1
  <2>2. CASE Top(a.data, work[w].data)
    BY <1>2, <1>3, <1>4, <2>2, CountedTop
  <2> QED BY <1>4, <2>1, <2>2
<1> QED BY <1>4, <1>5 DEF SeekOk, Counted

\* It goes on as one that filters or as one that does not, ...
LEMMA SeekForms ==
  ASSUME IsFiniteSet(Tags), AnswerInv, TypeInv', NEW w \in Workers, SearchStep(w), ~ Die, Busy(w)', NEW a, a = work'[w]
  PROVE  a.name = work[w].name /\ a.vertex = work[w].vertex /\ Filters(a)'
<1> USE DEF AnswerInv, Inv
<1>1. Seeks(w) /\ mode' = mode
  BY VertexPledges, VertexQuiet, SearchMoves DEF Vertexes, Seeks
<1>2. a.name = work[w].name /\ a.vertex = work[w].vertex
  <2>1. Stays(w) /\ (a.vertex = work[w].vertex \/ RemoveNext(w))
    BY VertexCourse DEF Busy
  <2>2. ~ RemoveNext(w)
    BY <1>1 DEF RemoveNext, At, Seeks
  <2> QED BY <2>1, <2>2 DEF Stays
<1>3. Filters(work[w])
  BY <1>1 DEF SeekInv
<1>4. SUFFICES ASSUME a.at \in {"column", "read"} PROVE a.vertex # NoVertex
  BY <1>1, <1>2, <1>3 DEF Filters
<1>5. CASE SearchEnter(w) /\ work[w].vertex = NoVertex
  <2>1. SearchScan(w, Space(w), 1 .. MaxIds)
    BY <1>5 DEF SearchEnter
  <2>2. a.at \in {"scan", "parallel"}
    BY <1>1, <2>1, ScanIs DEF FullInv, Seeks
  <2> QED BY <1>4, <2>2
<1>6. CASE SearchColumn(w)
  BY <1>2, <1>3, <1>6 DEF SearchColumn, At, Filters
<1>7. CASE SearchFilter(w)
  BY <1>2, <1>3, <1>7 DEF SearchFilter, At, Filters
<1>8. CASE SearchMap(w)
  <2>1. a.at = work[w].at
    BY <1>8, MapIs DEF FullInv
  <2> QED BY <1>2, <1>3, <1>4, <2>1 DEF Filters
<1>9. CASE SearchAnswer(w)
  <2>1. a.at = "answer"
    BY <1>9, AnswerIs DEF FullInv
  <2> QED BY <1>4, <2>1
<1>10. CASE SearchEnd(w) \/ SearchFails(w) \/ SearchKeepsLock(w)
  <2>1. Return(w)
    BY <1>10 DEF SearchEnd, SearchFails, SearchKeepsLock, SearchReturn
  <2>2. work'[w] = Idle
    BY <2>1, ReturnEnds DEF TypeInv, Ends
  <2> QED BY <2>2 DEF Busy
<1> QED BY <1>2, <1>5, <1>6, <1>7, <1>8, <1>9, <1>10 DEF SearchStep, SearchPanics

\* ... and counts what is due, or has it still before it.
LEMMA SeekOwn ==
  ASSUME IsFiniteSet(Tags), AnswerInv, NEW w \in Workers, SearchStep(w), ~ Die, Busy(w)', NEW a, a = work'[w],
         NEW n, n = work[w].name, NEW y \in Due(w)
  PROVE  SeekOk(a, y, n)'
<1>1. SeekOk(work[w], y, n)
  BY SearchMoves DEF AnswerInv, Inv, SeekInv, Seeks
<1>2. CASE SearchEnd(w) \/ SearchFails(w) \/ SearchKeepsLock(w)
  <2>1. Return(w)
    BY <1>2 DEF SearchEnd, SearchFails, SearchKeepsLock, SearchReturn
  <2>2. work'[w] = Idle
    BY <2>1, ReturnEnds DEF TypeInv, Ends, AnswerInv, Inv
  <2> QED BY <2>2 DEF Busy
<1>3. CASE SearchEnter(w)
  BY <1>3, SeekEnters
<1>4. CASE SearchColumn(w)
  BY <1>1, <1>4, SeekColumn
<1>5. CASE SearchFilter(w)
  BY <1>1, <1>5, SeekFilters
<1>6. CASE SearchMap(w)
  BY <1>1, <1>6, SeekMaps
<1>7. CASE SearchAnswer(w)
  BY <1>1, <1>7, SeekAnswers
<1> QED BY <1>2, <1>3, <1>4, <1>5, <1>6, <1>7 DEF SearchStep, SearchPanics

-----------------------------------------------------------------------------
(* Together                                                                *)

\* After any step a search is one that begins, one that took the step, or one that
\* another step left alone.
LEMMA SeekWas ==
  ASSUME TypeInv, TypeInv', [Next]_vars, NEW w \in Workers, Seeks(w)'
  PROVE  \/ \E n \in Names : SearchFor(w, n) /\ work'[w].at = "enter"
         \/ SearchStep(w) /\ ~ Die /\ Seeks(w)
         \/ work'[w] = work[w] /\ Seeks(w) /\ mode' = mode
<1>1. ASSUME NEW v \in Workers, NEW m \in Names, Begin(v, m)
      PROVE  \/ SearchFor(w, m) /\ work'[w].at = "enter"
             \/ work'[w] = work[w] /\ mode' = mode
  <2>1. PICK op, at, x : Starts(v, op, at, m, x) /\ (op \in VertexOps => at = "enter") /\ mode' = mode
    BY <1>1, BeginStarts
  <2>2. CASE v # w
    BY <2>1, <2>2 DEF Starts, Others
  <2>3. CASE v = w
    <3>1. Begin(w, m) /\ work'[w].op = "search"
      BY <1>1, <2>3 DEF Seeks
    <3>2. SearchFor(w, m)
      BY <3>1, BeginKinds DEF AdminOps
    <3> QED BY <2>1, <2>3, <3>1, <3>2 DEF Starts, VertexOps
  <2> QED BY <2>2, <2>3
<1>2. ASSUME NEW v \in Workers, AdminStep(v)
      PROVE  work'[w] = work[w] /\ mode' = mode
  <2>1. Others(v) /\ (work'[v] = Idle \/ Stays(v)) /\ work[v].op \in AdminOps /\ mode' = mode
    BY <1>2, CallsCourse, AdminPledges, AdminFlags
  <2> QED BY <2>1 DEF Others, Stays, Seeks, Busy, AdminOps
<1>3. ASSUME NEW v \in Workers, Vertexes(v)
      PROVE  (SearchStep(w) /\ ~ Die /\ Seeks(w)) \/ (work'[w] = work[w] /\ mode' = mode)
  <2>1. Others(v) /\ (work'[v] = Idle \/ Stays(v)) /\ mode' = mode
    BY <1>3, CallsCourse, VertexQuiet
  <2>2. CASE v # w
    BY <2>1, <2>2 DEF Others
  <2>3. CASE v = w
    <3>1. Seeks(w)
      BY <2>1, <2>3 DEF Stays, Seeks, Busy
    <3>2. ~ ChangeStep(w)
      BY <3>1 DEF ChangeStep, Enter, ChangeColumn, ChangePost, ChangePanics, ChangeStore, RemoveColumn, RemoveSearch, RemoveNext,
         RemoveLock, RemoveFindColumn, RemovePosting, RemoveColumnShard, RemoveErase, MultiRemove, At, Seeks
    <3> QED BY <1>3, <2>3, <3>1, <3>2 DEF Vertexes
  <2> QED BY <2>2, <2>3
<1>4. CASE Die \/ CloseEnd
  BY <1>4 DEF Die, CloseEnd, Forget, Seeks, Busy
<1>5. ASSUME CloseBegin \/ Start \/ UNCHANGED vars
      PROVE  work'[w] = work[w] /\ mode' = mode
  BY <1>5 DEF CloseBegin, Start, vars
<1>6. work'[w] = work[w] => Seeks(w)
  BY DEF Seeks, Busy
<1> QED BY <1>1, <1>2, <1>3, <1>4, <1>5, <1>6, StepKinds

\* Every step.
LEMMA SeekStep ==
  ASSUME NoRecord, IsFiniteSet(Tags), AnswerInv, Inv', [Next]_vars
  PROVE  SeekInv'
<1> USE DEF AnswerInv, Inv
<1>1. SUFFICES ASSUME NEW w \in Workers, Seeks(w)', NEW a, a = work'[w]
               PROVE  Filters(a)' /\ \A y \in Due(w)' : \A n : n = a.name => SeekOk(a, y, n)'
  BY DEF SeekInv, Filters, SeekOk, Counted, Stands, Postings
<1>2. ASSUME NEW m \in Names, SearchFor(w, m), a.at = "enter"
      PROVE  Filters(a)' /\ \A y \in Due(w)' : \A n : n = a.name => SeekOk(a, y, n)'
  <2>1. PICK filter : SearchBegin(w, m, filter)
    BY <1>2 DEF SearchFor
  <2>2. Starts(w, "search", "enter", m, filter)
    BY <2>1, VertexStarts DEF SearchBegin
  <2>3. a.vertex = filter /\ mode' = mode /\ (mode = "multi" => filter = NoVertex) /\ mode \in {"edge", "multi"}
    BY <1>1, <2>1, <2>2 DEF Starts, SearchBegin, TypeInv
  <2> QED BY <1>2, <2>3 DEF Filters, SeekOk
<1>3. CASE SearchStep(w) /\ ~ Die /\ Seeks(w)
  <2>1. a.name = work[w].name /\ a.vertex = work[w].vertex /\ Filters(a)'
    BY <1>1, <1>3, SeekForms DEF Seeks
  <2>2. ASSUME NEW y \in Due(w)', NEW n, n = a.name PROVE SeekOk(a, y, n)'
    <3>1. y \in Due(w)
      BY <1>1, <1>3, <2>1, <2>2, DueLess
    <3> QED BY <1>1, <1>3, <2>1, <2>2, <3>1, SeekOwn DEF Seeks
  <2> QED BY <2>1, <2>2
<1>4. CASE work'[w] = work[w] /\ Seeks(w) /\ mode' = mode
  <2>1. a = work[w] /\ Filters(a) /\ Filters(a)'
    BY <1>1, <1>4 DEF SeekInv, Filters
  <2>2. ASSUME NEW y \in Due(w)', NEW n, n = a.name PROVE SeekOk(a, y, n)'
    <3>1. y \in Due(w)
      BY <1>1, <1>4, <2>2, DueLess
    <3>2. SeekOk(a, y, n)
      BY <1>4, <2>1, <2>2, <3>1 DEF SeekInv
    <3> QED BY <1>1, <1>4, <2>1, <2>2, <3>1, <3>2, SeekBeside DEF Seeks
  <2> QED BY <2>1, <2>2
<1> QED BY <1>1, <1>2, <1>3, <1>4, SeekWas

\* It all holds at the start ...
LEMMA AnswerInit ==
  ASSUME Init
  PROVE  AnswerInv
<1>1. Inv /\ FullInv
  BY InvInit, FullInit
<1>2. \A w \in Workers : ~ Busy(w)
  BY DEF Init, Busy
<1>3. \A n \in Names : promise[n].calls = {} /\ space[n] = 0
  BY DEF Init, NoPromise
<1> QED BY <1>1, <1>2, <1>3 DEF AnswerInv, Twins, NotSought, SeekInv, Seeks, StandInv

\* ... and after every step.
LEMMA AnswerStep ==
  ASSUME OneAdmin, NoRecord, IsFiniteSet(Tags), Tags # {}, AnswerInv, [Next]_vars
  PROVE  AnswerInv'
<1>1. Inv' /\ FullInv'
  BY InvStep, FullStep DEF AnswerInv
<1>2. Twins'
  BY <1>1, TwinsStep DEF AnswerInv, Inv
<1>3. NotSought'
  BY <1>1, NotSoughtStep DEF AnswerInv, FullInv
<1>4. SeekInv'
  BY <1>1, SeekStep
<1>5. \A n \in Names : StandInv(n)'
  BY <1>1, StandStep DEF AnswerInv
<1> QED BY <1>1, <1>2, <1>3, <1>4, <1>5 DEF AnswerInv

\* What an answer is asked for is due, so it is the top of it by the scores that the
\* queue has, in both servers.
Topped == \A w \in Workers : Answers(w) => Top(work[w].data, Asked(w) \cup work[w].data)

LEMMA AnswersTop ==
  ASSUME IsFiniteSet(Tags), AnswerInv
  PROVE  Topped
<1> USE DEF AnswerInv, Inv
<1>1. SUFFICES ASSUME NEW w \in Workers, Answers(w), NEW asked, asked = Asked(w)
               PROVE  Top(work[w].data, asked \cup work[w].data)
  BY DEF Topped
<1>2. Seeks(w) /\ work[w].at = "answer" /\ work[w].name \in loaded
  BY <1>1 DEF Answers, At, Seeks
<1>3. asked \subseteq Due(w)
  BY <1>1, <1>2 DEF Asked, Due, Sure, Active
<1>4. \A y \in asked : Counted(y, work[w].data) /\ y \in Vertex
  BY <1>2, <1>3, DueIs DEF SeekInv, SeekOk
<1>5. work[w].data \in SUBSET Vertex /\ Cardinality(work[w].data) <= TopK
  BY <1>2, DoingNow DEF FullInv, Seeks, Sized
<1>6. asked \in SUBSET Vertex
  BY <1>4
<1> QED BY <1>4, <1>5, <1>6, CountedAll

\* It stays so.
LEMMA AnswersStay ==
  ASSUME OneAdmin, NoRecord, IsFiniteSet(Tags), Tags # {}
  PROVE  Spec => []AnswerInv
<1>1. Init => AnswerInv
  BY AnswerInit
<1>2. AnswerInv /\ [Next]_vars => AnswerInv'
  BY AnswerStep
<1> QED BY <1>1, <1>2, PTL DEF Spec

\* AnswerIsTop: a search of experimental, whose scores are likenesses, answers the
\* vertices of the greatest among those that were acknowledged before it began and
\* are still, for any number of maps, vertices and calls: none slips between the
\* maps that it reads side by side.
THEOREM AnswersAreTop == OneAdmin /\ NoRecord /\ IsFiniteSet(Tags) /\ Tags # {} /\ Spec => []AnswerIsTop
<1> SUFFICES ASSUME OneAdmin, NoRecord, IsFiniteSet(Tags), Tags # {} PROVE Spec => []AnswerIsTop
  OBVIOUS
<1>1. ASSUME AnswerInv PROVE AnswerIsTop
  <2>1. SUFFICES ASSUME NEW w \in Workers, Answers(w), NEW D, D = work[w].data, NEW S, S = Asked(w) \cup D
                 PROVE  Queue!IsTop(D, S)
    BY DEF AnswerIsTop
  <2>2. Topped
    BY <1>1, AnswersTop
  <2>3. Top(D, S)
    BY <2>1, <2>2 DEF Topped
  <2>4. S \in SUBSET Vertex
    <3>1. D \in SUBSET Vertex
      BY <1>1, <2>1, DoingNow DEF AnswerInv, FullInv, Answers, At, Sized
    <3>2. Asked(w) \subseteq Vertex
      BY <1>1, <2>1, DueIs DEF AnswerInv, Inv, Answers, At, Seeks, Asked, Due, Sure, Active
    <3> QED BY <2>1, <3>1, <3>2
  <2> QED BY <2>3, <2>4, TopIs
<1>2. AnswerInv => AnswerIsTop
  BY <1>1
<1> QED BY <1>2, AnswersStay, PTL

\* AnswerIsWhole: a search of edge answers no more than it is asked for, and while it
\* answers less, every vertex it is asked for that was acknowledged before it began
\* and is still, for any number of maps, vertices and calls: none slips between the
\* maps it reads one after the other, or between the index and the maps.
THEOREM AnswersAreWhole == OneAdmin /\ NoRecord /\ IsFiniteSet(Tags) /\ Tags # {} /\ Spec => []AnswerIsWhole
<1> SUFFICES ASSUME OneAdmin, NoRecord, IsFiniteSet(Tags), Tags # {} PROVE Spec => []AnswerIsWhole
  OBVIOUS
<1>1. ASSUME AnswerInv PROVE AnswerIsWhole
  <2>1. SUFFICES ASSUME NEW w \in Workers, Answers(w), NEW D, D = work[w].data
                 PROVE  Cardinality(D) <= TopK /\ (Cardinality(D) < TopK => Asked(w) \subseteq D)
    BY DEF AnswerIsWhole
  <2>2. Topped
    BY <1>1, AnswersTop
  <2>3. Top(D, Asked(w) \cup D)
    BY <2>1, <2>2 DEF Topped
  <2>4. D \in SUBSET Vertex /\ Cardinality(D) <= TopK
    BY <1>1, <2>1, DoingNow DEF AnswerInv, FullInv, Answers, At, Sized
  <2>5. Cardinality(D) \in Nat /\ TopK \in Nat
    BY <2>4, VertexFinite, VectorStoresAssumption
  <2>6. \A x \in Asked(w) : x \in D \/ Cardinality(D) = TopK
    BY <2>3 DEF Top
  <2> QED BY <2>4, <2>5, <2>6
<1>2. AnswerInv => AnswerIsWhole
  BY <1>1
<1> QED BY <1>2, AnswersStay, PTL

=============================================================================
