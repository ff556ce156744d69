----------------------------- MODULE VectorStores -----------------------------
(***************************************************************************)
(* The two servers that keep their collections in an object store: edge    *)
(* and, for vertices with several vectors, experimental.  A collection is  *)
(* a bucket with an object for its metadata, one for its vertices and, in  *)
(* edge, one for its inverted index; when it is loaded, memory holds a     *)
(* space with the same three, and two flags say that it exists and that it *)
(* is loaded.  The handlers are alike; where they differ, mode tells them  *)
(* apart, as the -mode flag of cmd/root does when the process starts.      *)
(*                                                                         *)
(* A vertex is its id and one field of its metadata.  In edge the server   *)
(* makes a new id for every change; in experimental the client names it.   *)
(* The vertices lie in maps of their own locks, and a column of the        *)
(* inverted index is a shard: steps are what happens between two locks.    *)
(***************************************************************************)
EXTENDS Integers, Sequences, FiniteSets

CONSTANTS
  Modes,              \* servers looked at, out of {"edge", "multi"}
  Names, Tags,        \* collections, values of a field of the metadata
  Odd, Lists,         \* the values that cannot be serialised, nor be the key of a map
  Workers,            \* goroutines of handlers
  OneAdmin,           \* whether calls on collections wait for each other
  Faults,             \* what may go wrong, out of {"storage", "crash", "dimension"}
  MapShards,          \* maps of a space: EDGE_MAP_SHARD_COUNT, VERTEX_SHARD_COUNT
  TopK,               \* how many vertices a search asks for: limit + offset, TopK
  MaxIds,             \* bound: ids of vertices
  MaxAdmin,           \* bound: calls on collections
  MaxChanges,         \* bound: calls on vertices, searches too
  MaxStarts,          \* bound: starts of the process
  NoBucket, NoObject, Unreadable

ASSUME VectorStoresAssumption ==
  /\ Modes \subseteq {"edge", "multi"} /\ Modes # {}
  /\ Odd \subseteq Tags /\ Lists \subseteq Odd /\ OneAdmin \in BOOLEAN
  /\ Faults \subseteq {"storage", "crash", "dimension"}
  /\ {MapShards, MaxStarts} \subseteq Nat \ {0} /\ {TopK, MaxIds, MaxAdmin, MaxChanges} \subseteq Nat

Vertex   == [id : 1 .. MaxIds, tag : Tags]  \* and a posting, which is an id under a tag
NoVertex == [id |-> 0]

\* An object that is not there, or cannot be read, is no object with something in it.
ASSUME ObjectsAssumption == \A S \in SUBSET Vertex : S \notin {NoObject, Unreadable}

MapOf(id) == id % MapShards
Serial(S) == \A v \in S : v.tag \notin Odd
Except(S, gone(_)) == {v \in S : ~gone(v)}

\* The score of a vertex in a search: in experimental its likeness to the vectors
\* that are searched for, in edge its distance from the one.
Queue == INSTANCE ResultQueue WITH Score <- [v \in Vertex |-> v.id], Size <- TopK

VARIABLES
  mode,
  bucket,             \* object store: NoBucket or the three objects of a name
  process,            \* "up", "closing" or "down"
  exists, loaded,     \* stateManager: Exists, Load
  space,              \* VectorStore.Space: the number of a space, 0 for none
  spaces,             \* every space there was; who began with one keeps it
  shards,             \* every shard of an inverted index there was
  work,               \* what every handler is doing
  lastId, count,      \* ids given (edge); calls and starts, for the bounds
  torn, promise       \* history: see AckedFound, FlushedSurvive, Asked

flags  == <<exists, loaded>>
memory == <<space, spaces, shards>>
vars   == <<mode, bucket, process, flags, memory, work, lastId, count, torn, promise>>

-----------------------------------------------------------------------------
(* Calls in progress *)

Idle == [op |-> "idle"]
AdminOps == {"create", "delete", "load", "release", "flush", "close"}

\* to: the space a call works on; shard: the shard it got; ids: what it will
\* remove or may answer; map, data: how far SaveVertex is, and what it has read;
\* left, data: the maps a search has yet to read, and what it found.
Call(op, at, n) ==
  [op |-> op, at |-> at, name |-> n, vertex |-> NoVertex, to |-> 0, shard |-> 0,
   ids |-> {}, map |-> 0, data |-> {}, left |-> {}]

Busy(w) == work[w] # Idle
At(w, ops, at) == Busy(w) /\ work[w].op \in ops /\ work[w].at = at
Admins == {w \in Workers : work[w].op \in AdminOps}
AdminOn(n) == \E w \in Admins : work[w].name = n /\ work[w].op # "flush"
OthersOn(w, n) == {v \in Workers \ {w} : Busy(v) /\ work[v].name = n}
Go(w, at) == work' = [work EXCEPT ![w].at = at]
Return(w) == work' = [work EXCEPT ![w] = Idle]

BeginAdmin(w, op, at, n) ==
  /\ process = "up" /\ ~Busy(w) /\ (OneAdmin => Admins = {})
  /\ count.admin < MaxAdmin
  /\ count' = [count EXCEPT !.admin = @ + 1]
  /\ work' = [work EXCEPT ![w] = Call(op, at, n)]

NoPromise == [calls |-> {}, acked |-> {}, saving |-> {}, kept |-> {}, sought |-> [w \in Workers |-> {}]]
Withdraws(n, gone(_)) ==
  [promise[n] EXCEPT !.acked = Except(@, gone), !.saving = Except(@, gone), !.kept = Except(@, gone),
                     !.calls = {v \in @ : ~gone(work[v].vertex)},
                     !.sought = [v \in Workers |-> Except(@[v], gone)]]

Space(w)   == space[work[w].name]

\* Mutant of Part: SaveVertex leaves out the first map.
PartAfterFirst(s, i) == {v \in spaces[s].vertices : MapOf(v.id) = i /\ i > 0}

Part(s, i) == {v \in spaces[s].vertices : MapOf(v.id) = i}
NewSpace(n, s) == spaces' = Append(spaces, s) /\ space' = [space EXCEPT ![n] = Len(spaces) + 1]

\* FillEmpty: neither maps nor an index.  newNoneVectorstore: both, and empty.
Hollow == [described |-> FALSE, ready |-> FALSE, indexed |-> FALSE, column |-> 0,
           vertices |-> {}, leaked |-> {}]
Fresh  == [Hollow EXCEPT !.described = TRUE, !.ready = TRUE, !.indexed = (mode = "edge")]

-----------------------------------------------------------------------------
Init ==
  /\ mode \in Modes
  /\ bucket = [n \in Names |-> NoBucket]
  /\ process = "up" /\ exists = {} /\ loaded = {}
  /\ space = [n \in Names |-> 0] /\ spaces = <<>> /\ shards = <<>>
  /\ work = [w \in Workers |-> Idle]
  /\ lastId = 0 /\ count = [admin |-> 0, changes |-> 0, starts |-> 1]
  /\ torn = {} /\ promise = [n \in Names |-> NoPromise]

-----------------------------------------------------------------------------
(* CreateCollection.  edge refuses a name that exists; experimental takes  *)
(* the refusal for a failure, and every failure removes the collection.    *)

CreateBegin(w, n) ==
  /\ mode = "edge" => n \notin exists
  /\ BeginAdmin(w, "create", IF n \in exists THEN "undo bucket" ELSE "bucket", n)
  /\ promise' = [promise EXCEPT ![n] = NoPromise]
  /\ UNCHANGED <<mode, bucket, process, flags, memory, lastId, torn>>

\* CreateBucket and Versioning.
CreateBucket(w) ==
  /\ At(w, {"create"}, "bucket")
  /\ LET n     == work[w].name
         empty == [meta |-> FALSE, vertex |-> NoObject, inverted |-> NoObject] IN
     \/ bucket[n] = NoBucket /\ bucket' = [bucket EXCEPT ![n] = empty] /\ Go(w, "space")
     \/ bucket[n] # NoBucket /\ Go(w, "undo bucket") /\ UNCHANGED bucket
     \/ /\ "storage" \in Faults /\ Go(w, "undo bucket")
        /\ bucket[n] = NoBucket /\ \E b \in {NoBucket, empty} : bucket' = [bucket EXCEPT ![n] = b]
  /\ UNCHANGED <<mode, process, flags, memory, lastId, count, torn, promise>>

\* Vectorstore.CreateCollection.
CreateSpace(w) ==
  /\ At(w, {"create"}, "space")
  /\ IF Space(w) = 0 THEN NewSpace(work[w].name, Fresh) /\ Go(w, "meta")
     ELSE Go(w, "undo bucket") /\ UNCHANGED <<space, spaces>>
  /\ UNCHANGED <<mode, bucket, process, flags, shards, lastId, count, torn, promise>>

\* RemoveBucket removes the objects and then the bucket; it may stop at any.
RemoveBucket(w) ==
  LET n == work[w].name IN
  \/ bucket' = [bucket EXCEPT ![n] = NoBucket]
  \/ /\ "storage" \in Faults /\ bucket[n] # NoBucket
     /\ \E m \in {bucket[n].meta, FALSE}, v \in {bucket[n].vertex, NoObject},
           i \in {bucket[n].inverted, NoObject} :
          bucket' = [bucket EXCEPT ![n] = [meta |-> m, vertex |-> v, inverted |-> i]]

CreateUndoBucket(w) ==
  /\ At(w, {"create"}, "undo bucket") /\ RemoveBucket(w) /\ Go(w, "undo space")
  /\ UNCHANGED <<mode, process, flags, memory, lastId, count, torn, promise>>

\* DestroySpace, in CreateCollection, DeleteCollection and ReleaseCollection.
DestroySpace(w) ==
  /\ \/ At(w, {"create"}, "undo space") /\ Go(w, "undo flags")
     \/ At(w, {"delete"}, "space") /\ Go(w, "remove bucket")
     \/ At(w, {"release"}, "destroy") /\ Return(w)
  /\ space' = [space EXCEPT ![work[w].name] = 0]
  /\ UNCHANGED <<mode, bucket, process, flags, spaces, shards, lastId, count, torn, promise>>

\* Mutant of DestroyFlags: the collection stays loaded.
DestroyFlagsHalf(n) == exists' = exists \ {n} /\ UNCHANGED loaded

\* destroyBucketHelper.
DestroyFlags(n) == exists' = exists \ {n} /\ loaded' = loaded \ {n}

CreateUndoFlags(w) ==
  /\ At(w, {"create"}, "undo flags") /\ DestroyFlags(work[w].name) /\ Return(w)
  /\ UNCHANGED <<mode, bucket, process, memory, lastId, count, torn, promise>>

\* newAuthorizationBucketHelper ends CreateCollection and LoadCollection.
SetFlags(w) ==
  /\ At(w, {"create", "load"}, "flag")
  /\ LET n == work[w].name IN
     /\ exists' = exists \cup {n} /\ loaded' = loaded \cup {n}
     /\ promise' = [promise EXCEPT ![n].acked = promise[n].kept]
  /\ Return(w)
  /\ UNCHANGED <<mode, bucket, process, memory, lastId, count, torn>>

-----------------------------------------------------------------------------
(* DeleteCollection.  experimental destroys the flags of a loaded          *)
(* collection only.                                                        *)

DeleteBegin(w, n) ==
  /\ n \in exists /\ BeginAdmin(w, "delete", "flags", n)
  /\ promise' = [promise EXCEPT ![n] = NoPromise]
  /\ UNCHANGED <<mode, bucket, process, flags, memory, lastId, torn>>

DeleteFlags(w) ==
  /\ At(w, {"delete"}, "flags")
  /\ IF mode = "edge" \/ work[w].name \in exists \cap loaded THEN DestroyFlags(work[w].name)
     ELSE UNCHANGED flags
  /\ Go(w, "space")
  /\ UNCHANGED <<mode, bucket, process, memory, lastId, count, torn, promise>>

DeleteBucket(w) ==
  /\ At(w, {"delete"}, "remove bucket") /\ RemoveBucket(w) /\ Return(w)
  /\ UNCHANGED <<mode, process, flags, memory, lastId, count, torn, promise>>

-----------------------------------------------------------------------------
(* LoadCollection fills a new space, and sets the flags when it is full    *)

LoadBegin(w, n) ==
  /\ n \in exists \ loaded /\ BeginAdmin(w, "load", "fill", n)
  /\ promise' = [promise EXCEPT ![n].calls = {}]
  /\ UNCHANGED <<mode, bucket, process, flags, memory, lastId, torn>>

HasMeta(n) == bucket[n] # NoBucket /\ bucket[n].meta

\* GetObject of the metadata, LoadVertexMetadata, and FillEmpty, which
\* experimental does first.
LoadFill(w) ==
  /\ At(w, {"load"}, "fill")
  /\ LET n == work[w].name IN
     \/ /\ HasMeta(n)
        /\ NewSpace(n, [Hollow EXCEPT !.described = TRUE])
        /\ Go(w, IF mode = "edge" THEN "load inverted" ELSE "load vertex")
     \/ /\ ~HasMeta(n) \/ "storage" \in Faults
        /\ IF mode = "edge" THEN UNCHANGED <<space, spaces>> ELSE NewSpace(n, Hollow)
        /\ Return(w)
  /\ UNCHANGED <<mode, bucket, process, flags, shards, lastId, count, torn, promise>>

Readable(n, object) == bucket[n] # NoBucket /\ bucket[n][object] \notin {NoObject, Unreadable}

\* LoadVertexInverted.
LoadInverted(w) ==
  /\ At(w, {"load"}, "load inverted")
  /\ LET n == work[w].name IN
     \/ /\ Readable(n, "inverted") /\ Space(w) # 0
        /\ shards' = Append(shards, bucket[n].inverted)
        /\ spaces' = [spaces EXCEPT ![Space(w)].indexed = TRUE, ![Space(w)].column = Len(shards) + 1]
        /\ Go(w, "load vertex")
     \/ /\ Space(w) = 0 \/ ~Readable(n, "inverted") \/ "storage" \in Faults
        /\ Return(w) /\ UNCHANGED <<spaces, shards>>
  /\ UNCHANGED <<mode, bucket, process, flags, space, lastId, count, torn, promise>>

\* LoadVertex makes the maps and their locks.
LoadVertex(w) ==
  /\ At(w, {"load"}, "load vertex")
  /\ LET n == work[w].name IN
     \/ /\ Readable(n, "vertex") /\ Space(w) # 0
        /\ spaces' = [spaces EXCEPT ![Space(w)].ready = TRUE, ![Space(w)].vertices = bucket[n].vertex]
        /\ Go(w, "flag")
     \/ /\ Space(w) = 0 \/ ~Readable(n, "vertex") \/ "storage" \in Faults
        /\ Return(w) /\ UNCHANGED spaces
  /\ UNCHANGED <<mode, bucket, process, flags, space, shards, lastId, count, torn, promise>>

-----------------------------------------------------------------------------
(* What CreateCollection, ReleaseCollection, Flush and Close save, object  *)
(* after object.  Close goes on when one fails, and puts an object without *)
(* content for what it could not serialise.                                *)

Savers == {"create", "release", "flush", "close"}

\* edge drops the flag before it saves, experimental when it has saved.
ReleaseBegin(w, n) ==
  /\ n \in exists \cap loaded /\ BeginAdmin(w, "release", "meta", n)
  /\ loaded' = IF mode = "edge" THEN loaded \ {n} ELSE loaded
  /\ promise' = [promise EXCEPT ![n] = [@ EXCEPT !.calls = {}, !.saving = promise[n].acked]]
  /\ UNCHANGED <<mode, bucket, process, exists, memory, lastId, torn>>

\* eliminateBucketMemoryHelper, where experimental calls it.
ReleaseUnflag(w) ==
  /\ At(w, {"release"}, "unflag")
  /\ loaded' = loaded \ {work[w].name} /\ Go(w, "destroy")
  /\ UNCHANGED <<mode, bucket, process, exists, memory, lastId, count, torn, promise>>

FlushBegin(w, n) ==
  /\ n \in exists \cap loaded /\ BeginAdmin(w, "flush", "meta", n)
  /\ promise' = [promise EXCEPT ![n].saving = promise[n].acked]
  /\ UNCHANGED <<mode, bucket, process, flags, memory, lastId, torn>>

\* The steps after the one that ends; a step that fails ends all but Close.
NextObject(w, at) == work' = [work EXCEPT ![w].at = at, ![w].to = Space(w), ![w].map = 0, ![w].data = {}]

\* Mutant of Abandon: no error ends a call.
AbandonNever(w, at) == NextObject(w, at)

Abandon(w, at) ==
  IF work[w].op = "create" THEN Go(w, "undo bucket")
  ELSE IF work[w].op = "close" THEN NextObject(w, at) ELSE Return(w)

\* All objects are saved.
Saved(w) ==
  LET n == work[w].name IN
  /\ work[w].op = "create"  => Go(w, "flag") /\ UNCHANGED <<loaded, promise>>
  /\ work[w].op = "release" =>
       /\ Go(w, IF mode = "edge" THEN "destroy" ELSE "unflag")
       /\ UNCHANGED loaded /\ promise' = [promise EXCEPT ![n].kept = promise[n].saving]
  /\ work[w].op = "flush"   =>
       /\ Return(w) /\ UNCHANGED loaded /\ promise' = [promise EXCEPT ![n].kept = promise[n].saving]
  /\ work[w].op = "close"   =>
       /\ Return(w) /\ loaded' = loaded \ {n} /\ UNCHANGED promise

SaveMeta(w) ==
  /\ At(w, Savers, "meta")
  /\ LET n == work[w].name IN
     \/ /\ Space(w) # 0 /\ bucket[n] # NoBucket
        /\ bucket' = [bucket EXCEPT ![n].meta = TRUE] /\ NextObject(w, "vertex")
     \/ /\ Space(w) = 0 \/ bucket[n] = NoBucket \/ "storage" \in Faults
        /\ Abandon(w, "vertex") /\ UNCHANGED bucket
  /\ UNCHANGED <<mode, process, flags, memory, lastId, count, torn, promise>>

\* Mutant of Holds: the lock is taken a second time for the vertex.
HoldsTwice(v, s, i) ==
  /\ Busy(v) /\ work[v].to = s /\ work[v].vertex # NoVertex /\ MapOf(work[v].vertex.id) = i
  /\ work[v].at \in {"lock", "find column", "withdraw", "drop column", "erase"}

\* RemoveVertex holds the lock of a map while it changes the index.
Holds(v, s, i) ==
  /\ Busy(v) /\ work[v].to = s /\ work[v].vertex # NoVertex /\ MapOf(work[v].vertex.id) = i
  /\ work[v].at \in {"find column", "withdraw", "drop column", "erase"}
\* A lock that SaveVertex kept lets no writer in, and behind a writer no reader.
Waits(v, s, i) ==
  Busy(v) /\ work[v].to = s /\ work[v].at \in {"store", "lock"} /\ MapOf(work[v].vertex.id) = i
CanWrite(s, i) == i \notin spaces[s].leaked /\ \A v \in Workers : ~Holds(v, s, i)
CanRead(s, i) ==
  \A v \in Workers : ~Holds(v, s, i) /\ (i \in spaces[s].leaked => ~Waits(v, s, i))

\* The locks of a space are those of its maps and, after them, of its shards.
ShardLock(c) == MapShards + c
Free(s, c)   == ShardLock(c) \notin spaces[s].leaked
\* A save that waits for a shard has the index locked for readers.
SaverWaits(v, s) ==
  At(v, Savers, "inverted") /\ work[v].map = 0 /\ work[v].to = s /\ ~Free(s, spaces[s].column)
Dropping(v, s) == At(v, {"remove"}, "drop column") /\ work[v].to = s
CanDrop(s) == \A v \in Workers : ~SaverWaits(v, s)
CanFind(s) == CanDrop(s) \/ \A v \in Workers : ~Dropping(v, s)

\* SaveVertex reads map after map.
SaveVertexMap(w) ==
  /\ At(w, Savers, "vertex") /\ work[w].map < MapShards
  /\ LET s == work[w].to
         i == work[w].map IN
     /\ s # 0 /\ spaces[s].ready /\ CanRead(s, i) /\ Serial(Part(s, i))
     /\ work' = [work EXCEPT ![w].map = i + 1, ![w].data = @ \cup Part(s, i)]
  /\ UNCHANGED <<mode, bucket, process, flags, memory, lastId, count, torn, promise>>

\* experimental returns without RUnlock.
KeepLock(s, i) ==
  IF mode = "multi" /\ s # 0 THEN [spaces EXCEPT ![s].leaked = @ \cup {i}] ELSE spaces

\* ... and a value that it cannot write makes it return.
SaveVertexFails(w) ==
  /\ At(w, Savers, "vertex") /\ work[w].map < MapShards
  /\ LET s == work[w].to
         i == work[w].map
         n == work[w].name IN
     /\ s = 0 \/ ~spaces[s].ready \/ (CanRead(s, i) /\ ~Serial(Part(s, i)))
     /\ spaces' = KeepLock(s, i)
     /\ IF work[w].op = "close"
        THEN /\ work' = [work EXCEPT ![w].map = MapShards, ![w].data = Unreadable]
             /\ promise' = [promise EXCEPT ![n].kept = {}]
        ELSE Abandon(w, "") /\ UNCHANGED promise
  /\ UNCHANGED <<mode, bucket, process, flags, space, shards, lastId, count, torn>>

PutObject(w, object) ==
  /\ bucket[work[w].name] # NoBucket
  /\ bucket' = [bucket EXCEPT ![work[w].name][object] = work[w].data]

SaveVertexPut(w) ==
  /\ At(w, Savers, "vertex") /\ work[w].map = MapShards
  /\ \/ /\ PutObject(w, "vertex")
        /\ IF mode = "edge" THEN NextObject(w, "inverted") /\ UNCHANGED <<loaded, promise>> ELSE Saved(w)
     \/ /\ bucket[work[w].name] = NoBucket \/ "storage" \in Faults
        /\ IF mode = "multi" /\ work[w].op = "close" THEN Saved(w)
           ELSE Abandon(w, "inverted") /\ UNCHANGED <<loaded, promise>>
        /\ UNCHANGED bucket
  /\ UNCHANGED <<mode, process, exists, memory, lastId, count, torn>>

Postings(s) == IF spaces[s].column = 0 THEN {} ELSE shards[spaces[s].column]

\* SerializeBinary, under the lock of the index and of each of its shards.
SaveInverted(w) ==
  /\ At(w, Savers, "inverted") /\ work[w].map = 0
  /\ LET s == work[w].to
         n == work[w].name IN
     \/ /\ s # 0 /\ spaces[s].indexed /\ Free(s, spaces[s].column) /\ Serial(Postings(s))
        /\ work' = [work EXCEPT ![w].map = MapShards, ![w].data = Postings(s)]
        /\ UNCHANGED promise
     \/ /\ s = 0 \/ ~spaces[s].indexed \/ (Free(s, spaces[s].column) /\ ~Serial(Postings(s)))
        /\ IF work[w].op = "close"
           THEN /\ work' = [work EXCEPT ![w].map = MapShards, ![w].data = Unreadable]
                /\ promise' = [promise EXCEPT ![n].kept = {}]
           ELSE Abandon(w, "") /\ UNCHANGED promise
  /\ UNCHANGED <<mode, bucket, process, flags, memory, lastId, count, torn>>

SaveInvertedPut(w) ==
  /\ At(w, Savers, "inverted") /\ work[w].map = MapShards
  /\ \/ PutObject(w, "inverted") /\ Saved(w)
     \/ /\ bucket[work[w].name] = NoBucket \/ "storage" \in Faults
        /\ IF work[w].op = "close" THEN Saved(w) ELSE Abandon(w, "") /\ UNCHANGED <<loaded, promise>>
        /\ UNCHANGED bucket
  /\ UNCHANGED <<mode, process, exists, memory, lastId, count, torn>>

-----------------------------------------------------------------------------
(* Index: a change of a vertex.  The primary key of edge's index design is *)
(* never copied from the request, so no change finds a vertex to replace.  *)

BeginChange(w, op, at, n, v) ==
  /\ process = "up" /\ ~Busy(w) /\ n \in exists \cap loaded
  /\ count.changes < MaxChanges
  /\ count' = [count EXCEPT !.changes = @ + 1]
  /\ work' = [work EXCEPT ![w] = [Call(op, at, n) EXCEPT !.vertex = v]]

\* Calls on the same vertex, or in edge a removal of its tag, are not ordered.
Collides(v, x) ==
  IF mode = "edge" THEN work[v].op = "remove" /\ work[v].vertex.tag = x.tag
  ELSE work[v].op \in {"change", "remove"} /\ work[v].vertex.id = x.id

ChangeBegin(w, n, id, t) ==
  /\ mode = "edge" => id = lastId + 1
  /\ lastId' = IF mode = "edge" THEN id ELSE lastId
  /\ BeginChange(w, "change", "enter", n, [id |-> id, tag |-> t])
  /\ LET x     == [id |-> id, tag |-> t]
         clash == \E v \in OthersOn(w, n) : Collides(v, x)
         left  == Withdraws(n, LAMBDA y : y.id = id) IN
     promise' = [promise EXCEPT ![n] =
       [left EXCEPT !.calls = IF clash \/ AdminOn(n) THEN @ ELSE @ \cup {w}]]
  /\ UNCHANGED <<mode, bucket, process, flags, memory, torn>>

\* edge removes what a filter finds, experimental an id.
RemoveBegin(w, n, x, gone(_)) ==
  /\ BeginChange(w, "remove", "enter", n, x)
  /\ promise' = [promise EXCEPT ![n] = Withdraws(n, gone)]
  /\ UNCHANGED <<mode, bucket, process, flags, memory, lastId, torn>>

EdgeRemoveBegin(w, n, t) ==
  mode = "edge" /\ RemoveBegin(w, n, [id |-> 0, tag |-> t], LAMBDA y : y.tag = t)
MultiRemoveBegin(w, n, id) ==
  mode = "multi" /\ RemoveBegin(w, n, [id |-> id, tag |-> CHOOSE t \in Tags : TRUE], LAMBDA y : y.id = id)

\* VectorStore.Space[name], which a concurrent release may have destroyed.
Enter(w) ==
  /\ At(w, {"change", "remove"}, "enter")
  /\ \/ Space(w) = 0 /\ Return(w)
     \/ /\ Space(w) # 0
        /\ work' = [work EXCEPT ![w].to = Space(w),
             ![w].at = IF mode = "multi" THEN (IF work[w].op = "change" THEN "store" ELSE "lock")
                       ELSE IF work[w].op = "change" THEN "column" ELSE "search"]
  /\ UNCHANGED <<mode, bucket, process, flags, memory, lastId, count, torn, promise>>

UnchangedByIndex == <<mode, bucket, process, flags, space, lastId, count>>

\* getShard: two lookups, and under the lock the shard is made.
GetShard(w, at) ==
  LET s == work[w].to IN
  CanFind(s) /\
  IF spaces[s].column # 0
  THEN /\ work' = [work EXCEPT ![w].shard = spaces[s].column, ![w].at = at]
       /\ UNCHANGED <<spaces, shards>>
  ELSE /\ shards' = Append(shards, {})
       /\ spaces' = [spaces EXCEPT ![s].column = Len(shards) + 1]
       /\ work' = [work EXCEPT ![w].shard = Len(shards) + 1, ![w].at = at]

\* A space that is being filled has no index yet: the call panics.
ChangeColumn(w) ==
  /\ At(w, {"change"}, "column")
  /\ IF spaces[work[w].to].indexed THEN GetShard(w, "post")
     ELSE Return(w) /\ UNCHANGED <<spaces, shards>>
  /\ UNCHANGED <<UnchangedByIndex, torn, promise>>

ChangePost(w) ==
  /\ At(w, {"change"}, "post")
  /\ work[w].vertex.tag \notin Lists /\ Free(work[w].to, work[w].shard)
  /\ shards' = [shards EXCEPT ![work[w].shard] = @ \cup {work[w].vertex}]
  /\ Go(w, "store")
  /\ UNCHANGED <<UnchangedByIndex, spaces, torn, promise>>

\* The key of a map must be comparable: Add panics, and keeps the shard's lock.
ChangePanics(w) ==
  /\ At(w, {"change"}, "post")
  /\ work[w].vertex.tag \in Lists /\ Free(work[w].to, work[w].shard)
  /\ spaces' = [spaces EXCEPT ![work[w].to].leaked = @ \cup {ShardLock(work[w].shard)}]
  /\ promise' = [promise EXCEPT ![work[w].name].calls = @ \ {w}]
  /\ Return(w)
  /\ UNCHANGED <<UnchangedByIndex, shards, torn>>

\* The vertex itself, and the answer.
ChangeStore(w) ==
  /\ At(w, {"change"}, "store")
  /\ LET s == work[w].to
         x == work[w].vertex
         n == work[w].name IN
     \/ /\ spaces[s].ready /\ CanWrite(s, MapOf(x.id))
        /\ spaces' = [spaces EXCEPT ![s].vertices = Except(@, LAMBDA y : y.id = x.id) \cup {x}]
        /\ promise' = IF w \in promise[n].calls
                      THEN [promise EXCEPT ![n].acked = @ \cup {x}, ![n].calls = @ \ {w}] ELSE promise
     \/ ~spaces[s].ready /\ UNCHANGED <<spaces, promise>>
  /\ Return(w)
  /\ UNCHANGED <<UnchangedByIndex, shards, torn>>

-----------------------------------------------------------------------------
(* RemoveVertex.  edge finds the ids of the filter, and then, each under   *)
(* the lock of its map, withdraws its posting and deletes it.  A column    *)
(* whose shard is empty is dropped after the shard's lock was given back.  *)

RemoveColumn(w) ==
  /\ At(w, {"remove"}, "search")
  /\ IF spaces[work[w].to].indexed THEN GetShard(w, "read")
     ELSE Return(w) /\ UNCHANGED <<spaces, shards>>
  /\ UNCHANGED <<UnchangedByIndex, torn, promise>>

\* Mutant of Found: the filter is not looked at.
FoundAll(w) == shards[work[w].shard]

\* SearchMultiFilter.
Found(w) == {p \in shards[work[w].shard] : p.tag = work[w].vertex.tag}

RemoveSearch(w) ==
  /\ At(w, {"remove"}, "read") /\ Free(work[w].to, work[w].shard)
  /\ work' = [work EXCEPT ![w].at = "next", ![w].ids = {p.id : p \in Found(w)}]
  /\ UNCHANGED <<UnchangedByIndex, spaces, shards, torn, promise>>

\* Ids come in order.
RemoveNext(w) ==
  /\ At(w, {"remove"}, "next")
  /\ LET ids == work[w].ids IN
     \/ ids = {} /\ Return(w)
     \/ \E id \in ids :
          /\ \A other \in ids : id <= other
          /\ work' = [work EXCEPT ![w].at = "lock", ![w].ids = ids \ {id}, ![w].vertex.id = id]
  /\ UNCHANGED <<UnchangedByIndex, spaces, shards, torn, promise>>

\* The metadata of a vertex that is gone is empty: nothing to withdraw.
RemoveLock(w) ==
  /\ At(w, {"remove"}, "lock") /\ mode = "edge"
  /\ LET s == work[w].to
         x == work[w].vertex IN
     \/ /\ spaces[s].ready /\ CanWrite(s, MapOf(x.id))
        /\ Go(w, IF \E y \in spaces[s].vertices : y.id = x.id THEN "find column" ELSE "next")
     \/ ~spaces[s].ready /\ Return(w)
  /\ UNCHANGED <<UnchangedByIndex, spaces, shards, torn, promise>>

RemoveFindColumn(w) ==
  /\ At(w, {"remove"}, "find column") /\ GetShard(w, "withdraw")
  /\ UNCHANGED <<UnchangedByIndex, torn, promise>>

RemovePosting(w) ==
  /\ At(w, {"remove"}, "withdraw") /\ Free(work[w].to, work[w].shard)
  /\ LET left == {p \in shards[work[w].shard] : p.id # work[w].vertex.id} IN
     /\ shards' = [shards EXCEPT ![work[w].shard] = left]
     /\ Go(w, IF left = {} THEN "drop column" ELSE "erase")
  /\ UNCHANGED <<UnchangedByIndex, spaces, torn, promise>>

\* Whatever shard the column has by now is dropped.
RemoveColumnShard(w) ==
  /\ At(w, {"remove"}, "drop column") /\ CanDrop(work[w].to)
  /\ LET s    == work[w].to
         lost == \/ Postings(s) # {}
                 \/ \E v \in Workers \ {w} : /\ At(v, {"change"}, "post") /\ work[v].to = s
                                             /\ work[v].shard = spaces[s].column IN
     /\ torn' = IF lost THEN torn \cup {work[w].name} ELSE torn
     /\ spaces' = [spaces EXCEPT ![s].column = 0]
  /\ Go(w, "erase")
  /\ UNCHANGED <<UnchangedByIndex, shards, promise>>

Erase(w, s) ==
  spaces' = [spaces EXCEPT ![s].vertices = Except(@, LAMBDA y : y.id = work[w].vertex.id)]

RemoveErase(w) ==
  /\ At(w, {"remove"}, "erase") /\ Erase(w, work[w].to) /\ Go(w, "next")
  /\ UNCHANGED <<UnchangedByIndex, shards, torn, promise>>

\* experimental's RemoveVertex.
MultiRemove(w) ==
  /\ At(w, {"remove"}, "lock") /\ mode = "multi"
  /\ LET s == work[w].to IN
     \/ spaces[s].ready /\ CanWrite(s, MapOf(work[w].vertex.id)) /\ Erase(w, s)
     \/ ~spaces[s].ready /\ UNCHANGED spaces
  /\ Return(w)
  /\ UNCHANGED <<UnchangedByIndex, shards, torn, promise>>

-----------------------------------------------------------------------------
(* Search, VectorSearch: the vertices of the greatest score among those of *)
(* a filter, or among all.  Map after map is read under its lock; with     *)
(* highCpu, and in experimental, a goroutine for each map fills a queue of *)
(* its own, and the queues are merged at the end.                          *)

\* filter: NoVertex, or the tag asked for.
SearchBegin(w, n, filter) ==
  /\ mode = "multi" => filter = NoVertex
  /\ BeginChange(w, "search", "enter", n, filter)
  /\ promise' = [promise EXCEPT ![n].sought[w] = promise[n].acked]
  /\ UNCHANGED <<mode, bucket, process, flags, memory, lastId, torn>>

\* The call is over, with an answer or with an error.
SearchReturn(w) ==
  /\ Return(w) /\ promise' = [promise EXCEPT ![work[w].name].sought[w] = {}]
  /\ UNCHANGED <<UnchangedByIndex, spaces, shards, torn>>

\* How the maps are read: one after the other, or each by a goroutine.
Scans == IF mode = "multi" THEN {"parallel"} ELSE {"scan", "parallel"}
\* Mutant of MapsOf: the first map is left out.
MapsOfAfterFirst(ids) == {MapOf(id) : id \in ids} \ {0}
MapsOf(ids) == {MapOf(id) : id \in ids}

SearchScan(w, s, ids) ==
  \E at \in Scans :
    work' = [work EXCEPT ![w].at = at, ![w].to = s, ![w].ids = ids,
                         ![w].left = IF work[w].vertex = NoVertex THEN 0 .. MapShards - 1 ELSE MapsOf(ids)]

\* The space of the name, which knows the indexes of its vectors once its
\* metadata is loaded.
SearchEnter(w) ==
  /\ At(w, {"search"}, "enter") /\ Space(w) # 0
  /\ mode = "multi" => spaces[Space(w)].described
  /\ IF work[w].vertex = NoVertex THEN SearchScan(w, Space(w), 1 .. MaxIds)
     ELSE work' = [work EXCEPT ![w].to = Space(w), ![w].at = "column"]
  /\ UNCHANGED <<UnchangedByIndex, spaces, shards, torn, promise>>

SearchColumn(w) ==
  /\ At(w, {"search"}, "column") /\ spaces[work[w].to].indexed /\ GetShard(w, "read")
  /\ UNCHANGED <<UnchangedByIndex, torn, promise>>

\* SearchWithExpression.
SearchFilter(w) ==
  /\ At(w, {"search"}, "read") /\ Free(work[w].to, work[w].shard)
  /\ SearchScan(w, work[w].to, {p.id : p \in Found(w)})
  /\ UNCHANGED <<UnchangedByIndex, spaces, shards, torn, promise>>

\* Nobody compares the dimension of the target with that of the collection: in
\* edge the distance from a vector that is too short is an index out of range.
Mismatch(w, i) ==
  /\ "dimension" \in Faults /\ mode = "edge" /\ CanRead(work[w].to, i)
  /\ \E v \in Part(work[w].to, i) : v.id \in work[w].ids

\* ... and the lock of the map is kept.
SearchKeepsLock(w) ==
  /\ At(w, {"search"}, "scan") /\ spaces[work[w].to].ready
  /\ \E i \in work[w].left :
       /\ \A j \in work[w].left : i <= j
       /\ Mismatch(w, i)
       /\ spaces' = [spaces EXCEPT ![work[w].to].leaked = @ \cup {i}]
  /\ Return(w) /\ promise' = [promise EXCEPT ![work[w].name].sought[w] = {}]
  /\ UNCHANGED <<UnchangedByIndex, shards, torn>>

\* One map.
SearchMap(w) ==
  /\ \E at \in {"scan", "parallel"} : At(w, {"search"}, at)
  /\ LET s == work[w].to IN
     \E i \in work[w].left :
       LET part == {v \in Part(s, i) : v.id \in work[w].ids} IN
       /\ work[w].at = "scan" => \A j \in work[w].left : i <= j
       /\ spaces[s].ready /\ CanRead(s, i)
       /\ work' = [work EXCEPT ![w].left = @ \ {i}, ![w].data =
                      IF work[w].at = "scan" THEN Queue!AddAll(@, part)
                      ELSE @ \cup Queue!AddAll({}, part)]
  /\ UNCHANGED <<UnchangedByIndex, spaces, shards, torn, promise>>

\* All maps are read.
SearchAnswer(w) ==
  /\ \E at \in {"scan", "parallel"} : At(w, {"search"}, at)
  /\ work[w].left = {}
  /\ work' = [work EXCEPT ![w].at = "answer", ![w].ids = {}, ![w].data =
                 IF work[w].at = "scan" THEN @ ELSE Queue!AddAll({}, @)]
  /\ UNCHANGED <<UnchangedByIndex, spaces, shards, torn, promise>>

SearchEnd(w) == At(w, {"search"}, "answer") /\ SearchReturn(w)

\* A name without a space, a space without metadata, index or locks.
SearchFails(w) ==
  /\ \/ /\ At(w, {"search"}, "enter")
        /\ Space(w) # 0 => mode = "multi" /\ ~spaces[Space(w)].described
     \/ At(w, {"search"}, "column") /\ ~spaces[work[w].to].indexed
     \/ At(w, {"search"}, "scan") /\ work[w].left # {} /\ ~spaces[work[w].to].ready
  /\ SearchReturn(w)

Forget ==
  /\ process' = "down" /\ exists' = {} /\ loaded' = {}
  /\ space' = [n \in Names |-> 0] /\ spaces' = <<>> /\ shards' = <<>>
  /\ work' = [w \in Workers |-> Idle]

\* What was not saved is lost.
Die ==
  /\ Forget
  /\ promise' = [n \in Names |-> [NoPromise EXCEPT !.kept = promise[n].kept]]
  /\ UNCHANGED <<mode, bucket, lastId, count, torn>>

\* A map of a space that is being filled has no lock yet.  The goroutine of the
\* call recovers from a panic; the goroutine of a map does not, and takes the
\* process with it.
SearchPanics(w) ==
  /\ At(w, {"search"}, "parallel") /\ work[w].left # {}
  /\ ~spaces[work[w].to].ready \/ \E i \in work[w].left : Mismatch(w, i)
  /\ Die

-----------------------------------------------------------------------------
(* The process: StableRelease, a crash, LoadAuthorizationBuckets           *)

\* GracefulStop waits for the handlers.
CloseBegin ==
  /\ process = "up" /\ \A w \in Workers : ~Busy(w)
  /\ process' = "closing"
  /\ UNCHANGED <<mode, bucket, flags, memory, work, lastId, count, torn, promise>>

\* Close saves the loaded collections, one after the other.
CloseCollection(w, n) ==
  /\ process = "closing" /\ n \in loaded /\ \A v \in Workers : ~Busy(v)
  /\ work' = [work EXCEPT ![w] = Call("close", "meta", n)]
  /\ UNCHANGED <<mode, bucket, process, flags, memory, lastId, count, torn, promise>>

CloseEnd ==
  /\ process = "closing" /\ loaded = {} /\ \A w \in Workers : ~Busy(w)
  /\ Forget
  /\ UNCHANGED <<mode, bucket, lastId, count, torn, promise>>

Crash == "crash" \in Faults /\ process # "down" /\ Die

Start ==
  /\ process = "down" /\ count.starts < MaxStarts
  /\ process' = "up" /\ exists' = {n \in Names : bucket[n] # NoBucket}
  /\ count' = [count EXCEPT !.starts = @ + 1]
  /\ UNCHANGED <<mode, bucket, loaded, memory, work, lastId, torn, promise>>

-----------------------------------------------------------------------------
AdminStep(w) ==
  \/ CreateBucket(w) \/ CreateSpace(w) \/ CreateUndoBucket(w) \/ CreateUndoFlags(w)
  \/ DestroySpace(w) \/ SetFlags(w) \/ DeleteFlags(w) \/ DeleteBucket(w)
  \/ LoadFill(w) \/ LoadInverted(w) \/ LoadVertex(w) \/ ReleaseUnflag(w)
  \/ SaveMeta(w) \/ SaveVertexMap(w) \/ SaveVertexFails(w) \/ SaveVertexPut(w)
  \/ SaveInverted(w) \/ SaveInvertedPut(w)

ChangeStep(w) ==
  \/ Enter(w) \/ ChangeColumn(w) \/ ChangePost(w) \/ ChangePanics(w) \/ ChangeStore(w)
  \/ RemoveColumn(w) \/ RemoveSearch(w) \/ RemoveNext(w) \/ RemoveLock(w) \/ RemoveFindColumn(w)
  \/ RemovePosting(w) \/ RemoveColumnShard(w) \/ RemoveErase(w) \/ MultiRemove(w)

SearchStep(w) ==
  \/ SearchEnter(w) \/ SearchColumn(w) \/ SearchFilter(w) \/ SearchMap(w) \/ SearchAnswer(w)
  \/ SearchEnd(w) \/ SearchFails(w) \/ SearchKeepsLock(w) \/ SearchPanics(w)

Begin(w, n) ==
  \/ CreateBegin(w, n) \/ DeleteBegin(w, n) \/ LoadBegin(w, n) \/ ReleaseBegin(w, n) \/ FlushBegin(w, n)
  \/ CloseCollection(w, n)
  \/ \E t \in Tags : EdgeRemoveBegin(w, n, t)
  \/ \E filter \in {NoVertex} \cup [id : {0}, tag : Tags \ Odd] : SearchBegin(w, n, filter)
  \/ \E id \in 1 .. MaxIds : MultiRemoveBegin(w, n, id) \/ \E t \in Tags : ChangeBegin(w, n, id, t)

Next ==
  \/ \E w \in Workers : (\E n \in Names : Begin(w, n)) \/ AdminStep(w) \/ ChangeStep(w) \/ SearchStep(w)
  \/ CloseBegin \/ CloseEnd \/ Crash \/ Start

Spec == Init /\ [][Next]_vars

-----------------------------------------------------------------------------
(* Properties *)

Activity ==
  [op : AdminOps \cup {"change", "remove", "search"}, name : Names, to : Nat, shard : Nat,
   vertex : {NoVertex} \cup [id : 0 .. MaxIds, tag : Tags], ids : SUBSET (1 .. MaxIds),
   map : 0 .. MapShards, left : SUBSET (0 .. MapShards - 1), data : {Unreadable} \cup SUBSET Vertex,
   at : {"bucket", "space", "undo bucket", "undo space", "undo flags", "flag", "flags", "remove bucket",
         "fill", "load inverted", "load vertex", "meta", "vertex", "inverted", "unflag", "destroy",
         "enter", "column", "post", "store", "search", "read", "next", "lock", "find column",
         "withdraw", "drop column", "erase", "scan", "parallel", "answer"}]

Object == {NoObject, Unreadable} \cup SUBSET Vertex

\* Every variable has the type its code gives it.
TypeOK ==
  /\ mode \in Modes /\ process \in {"up", "closing", "down"}
  /\ bucket \in [Names -> {NoBucket} \cup [meta : BOOLEAN, vertex : Object, inverted : Object]]
  /\ exists \subseteq Names /\ loaded \subseteq Names
  /\ space \in [Names -> 0 .. Len(spaces)]
  /\ spaces \in Seq([described : BOOLEAN, ready : BOOLEAN, indexed : BOOLEAN, column : 0 .. Len(shards),
                     vertices : SUBSET Vertex, leaked : SUBSET (0 .. MapShards + Len(shards))])
  /\ shards \in Seq(SUBSET Vertex)
  /\ work \in [Workers -> {Idle} \cup Activity]
  /\ lastId \in 0 .. MaxIds
  /\ count \in [admin : 0 .. MaxAdmin, changes : 0 .. MaxChanges, starts : 1 .. MaxStarts]
  /\ torn \subseteq Names
  /\ promise \in [Names -> [calls : SUBSET Workers, acked : SUBSET Vertex,
                            saving : SUBSET Vertex, kept : SUBSET Vertex,
                            sought : [Workers -> SUBSET Vertex]]]

\* A loaded collection has a bucket to save to and a complete space, which the
\* handlers use without a check; and edge knows no collection without a bucket
\* (edge.go:83-341, none_vectorstore.go:262-287, edge_helper.go:43-66).
Served ==
  process = "up" =>
    \A n \in Names : (\A w \in Admins : work[w].name # n \/ work[w].op = "flush") =>
      /\ n \in loaded => /\ n \in exists /\ bucket[n] # NoBucket /\ space[n] # 0
                         /\ spaces[space[n]].ready /\ (mode = "edge" => spaces[space[n]].indexed)
      /\ mode = "edge" /\ n \in exists => bucket[n] # NoBucket

\* A vertex whose change was acknowledged, and which no later call has changed
\* or removed, is in the loaded collection, and in edge a filter on its tag
\* finds it, whatever other calls are doing; unless a Remove dropped a shard of
\* the index that was in use (torn), which is the one way to lose a posting
\* (none_vectorstore.go:66-127, inverted/bitmap_index.go:41-97).
AckedFound ==
  \A n \in loaded : ~AdminOn(n) =>
    /\ promise[n].acked \subseteq spaces[space[n]].vertices
    /\ mode = "edge" /\ n \notin torn => promise[n].acked \subseteq Postings(space[n])

\* What was acknowledged before a Flush or a ReleaseCollection began that
\* succeeded, and no later call has changed or removed, is in the bucket: with
\* other changes under way, saves that fail half way, crashes and restarts
\* (edge.go:401-548, experimental.go:363-492).  Only a Close that
\* cannot serialise a value overwrites what was saved before.
FlushedSurvive ==
  \A n \in Names : promise[n].kept # {} =>
    /\ Readable(n, "vertex") /\ promise[n].kept \subseteq bucket[n].vertex
    /\ mode = "edge" /\ n \notin torn =>
         Readable(n, "inverted") /\ promise[n].kept \subseteq bucket[n].inverted

\* What a search must not miss: the vertices it is asked for that were
\* acknowledged before it began, and that no later call has changed or removed.
Asked(w) ==
  {v \in promise[work[w].name].sought[w] \cap promise[work[w].name].acked :
     work[w].vertex # NoVertex => v.tag = work[w].vertex.tag /\ work[w].name \notin torn}
Answers(w) ==
  At(w, {"search"}, "answer") /\ work[w].name \in loaded /\ ~AdminOn(work[w].name)

\* A search of experimental answers the vertices of the greatest likeness: no
\* other call hides one, whether it changes a vertex beside it or another map, or
\* releases the collection and loads it (multi_vector_vertex.go:85-137).
AnswerIsTop ==
  \A w \in Workers : mode = "multi" /\ Answers(w) =>
    Queue!IsTop(work[w].data, Asked(w) \cup work[w].data)

\* A search of edge never answers more than it is asked for, and while it answers
\* less it has missed nothing, whatever other calls did to the maps, the index or
\* the collection (none_vectorstore.go:129-253).
AnswerIsWhole ==
  \A w \in Workers : mode = "edge" /\ Answers(w) =>
    /\ Cardinality(work[w].data) <= TopK
    /\ Cardinality(work[w].data) < TopK => Asked(w) \subseteq work[w].data

\* "where a low score means likeness, Max" is the heap to take
\* (experimental/multi_priority_queue.go:30): a search of edge, whose scores are
\* distances and which sorts them upwards (edge/priority_queue.go:65-67), answers
\* the nearest vertices.
Nearest == INSTANCE ResultQueue WITH Score <- [v \in Vertex |-> MaxIds - v.id], Size <- TopK
AnswerIsNearest ==
  \A w \in Workers : mode = "edge" /\ Answers(w) =>
    Nearest!IsTop(work[w].data, Asked(w) \cup work[w].data)

\* The maps whose locks a call asks for, and the shard.
MapsWaited(w) ==
  IF work[w].at \in {"store", "lock"} THEN {MapOf(work[w].vertex.id)}
  ELSE IF At(w, Savers, "vertex") THEN {work[w].map} ELSE work[w].left
ShardWaited(w) ==
  IF At(w, Savers, "inverted") THEN spaces[work[w].to].column
  ELSE IF work[w].at \in {"post", "read", "withdraw"} THEN work[w].shard ELSE 0

\* The locks that are lost: those of maps in experimental, by a save that fails,
\* and in edge only by a search of another dimension; those of shards in edge, by
\* an Add that panics.
WaitsForLost(w) ==
  LET s == work[w].to IN
  /\ s # 0
  /\ \/ (mode = "multi" \/ "dimension" \in Faults) /\ MapsWaited(w) \cap spaces[s].leaked # {}
     \/ mode = "edge" /\ ~Free(s, ShardWaited(w))

\* v holds, or has asked first for, a lock that w asks for.
Behind(w, v) ==
  LET s == work[w].to IN
  /\ Busy(v) /\ work[v].to = s /\ s # 0
  /\ \/ \E i \in MapsWaited(w) : Holds(v, s, i)
     \/ Dropping(w, s) /\ SaverWaits(v, s)
     \/ work[w].at \in {"column", "search", "find column"} /\ Dropping(v, s)

Step(w) == AdminStep(w) \/ ChangeStep(w) \/ SearchStep(w)

\* No calls wait for each other: of calls none of which can go on, one waits for a
\* lock that is lost, or for another call.  Nor is any other lock lost than those
\* of WaitsForLost: a call that fails, panics or gives up leaves the others alone
\* (none_vectorstore.go:105-127, bitmap_index.go:63-97, save.go:131-187,
\* multi_vector_vertex.go:183-240).
CallsGoOn ==
  LET waiting == {w \in Workers : Busy(w) /\ ~ENABLED Step(w)} IN
  \A S \in SUBSET waiting \ {{}} :
    \E w \in S : WaitsForLost(w) \/ \E v \in Workers \ S : Behind(w, v)
=============================================================================
