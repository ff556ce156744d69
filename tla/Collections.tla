----------------------------- MODULE Collections -----------------------------
(***************************************************************************)
(* The collections of core: what CreateCollection, DropCollection,         *)
(* LoadCollection, ReleaseCollection, Insert, Update and Delete do to the  *)
(* places that know a collection.  The CommitLog (diskv) holds its         *)
(* configuration, its name in the list of collections and its documents;   *)
(* memory holds a graph, a bitmap index and two flags; two files hold the  *)
(* snapshots of graph and index.  No lock and no transaction spans them,   *)
(* so every change of one of them is a step.                               *)
(*                                                                         *)
(* A vertex and a document are the same triple here: the id core gave it,  *)
(* the client's "_id", and one more field of metadata.  The graph is a set *)
(* of them: how it finds them is Hnsw's matter.  The index has a column    *)
(* for each field, with a lock of its own; the column that a Remove leaves *)
(* empty is dropped after its lock was given back.                         *)
(* What may go wrong is a constant.  History variables, which no action    *)
(* reads, say which promises still stand.                                  *)
(*                                                                         *)
(* Left out: an Insert that is refused takes an id and runs the undoing    *)
(* too, of nothing; Commit, Insert or a search that panics on an edge to   *)
(* no vertex in a graph that was loaded from a mixed file (see mixed) stops*)
(* where it is; SerializeBinary is one step beside the index's calls.      *)
(***************************************************************************)
EXTENDS Integers, FiniteSets

CONSTANTS
  Names, Keys, Tags,  \* collections, clients' "_id"s, values of a metadata field
  Matching,           \* Matching[n]: the names whose keys the pattern "n_" finds
  Workers,            \* goroutines of handlers
  OneAdmin,           \* whether calls on collections wait for each other
  Faults,             \* what may go wrong, out of FaultKinds
  MaxDocs,            \* bound: ids ever given
  MaxAdmin,           \* bound: calls on collections
  MaxChanges,         \* bound: calls on documents
  MaxStarts,          \* bound: starts of the process
  NoFile, Torn        \* a file that is not there, one that cannot be read

FaultKinds == {"put", "file", "crash"}

ASSUME CollectionsAssumption ==
  /\ Matching \in [Names -> SUBSET Names] /\ \A n \in Names : n \in Matching[n]
  /\ OneAdmin \in BOOLEAN /\ Faults \subseteq FaultKinds
  /\ MaxDocs \in Nat /\ MaxAdmin \in Nat /\ MaxChanges \in Nat /\ MaxStarts \in Nat \ {0}

Doc  == [id : 1 .. MaxDocs, key : Keys, tag : Tags]
NoDoc == [id |-> 0]

\* What Add and Remove of the index turn metadata into.
Posting == [on : {"_id"}, val : Keys, id : 1 .. MaxDocs]
             \cup [on : {"tag"}, val : Tags, id : 1 .. MaxDocs]

\* A file that is not there, or cannot be read, is no file with something in it.
ASSUME FilesAssumption ==
  \A D \in (SUBSET Doc) \cup (SUBSET Posting) : D \notin {NoFile, Torn}

\* Mutant of PostingsOf: the fields are swapped.
PostingsSwapped(d) == {[on |-> "_id", val |-> d.tag, id |-> d.id], [on |-> "tag", val |-> d.key, id |-> d.id]}

PostingsOf(d) == {[on |-> "_id", val |-> d.key, id |-> d.id],
                  [on |-> "tag", val |-> d.tag, id |-> d.id]}
PostingsOfAll(D) == UNION {PostingsOf(d) : d \in D}
Columns == {"_id", "tag"}

VARIABLES
  config, listed, docs,    \* CommitLog: name_archive, "collections", name_id
  raw, bin,                \* files: data_dir/name.raw, data_dir/name.bin
  process,                 \* "up", "closing" or "down"
  frozen,                  \* db.mu is held by a reader that waits for itself
  exists, loaded,          \* stateManager: checker, auth
  graphs, graph, born,     \* DataStore: for which names, the vertices, and a number
                           \* that tells a graph from the one it replaced
  indexes, index,          \* IndexGroup: for which names, and the postings
  columns,                 \* of a Remove: the columns it found empty and has yet to
                           \* drop; of a call that is to Add: those it has looked up
                           \* and another has dropped since
  walk,                    \* of a Commit of a graph: the vertices that were there
                           \* since it began, and those that were there at all
  work,                    \* what every handler is doing
  lastId,                  \* autoCommitID
  count,                   \* calls and starts so far, for the bounds
  exposed, spoiled,        \* history: see Agree
  lost,                    \* history: names whose index lost a posting with a column
  mixed,                   \* history: names whose graph changed while it was written
  promise                  \* history: see ReleasedSurvive

log     == <<config, listed, docs>>
files   == <<raw, bin>>
flags   == <<exists, loaded>>
memory  == <<graphs, graph, born, indexes, index>>
between == <<columns, walk>>
history == <<exposed, spoiled, lost, mixed, promise>>
vars == <<log, files, process, frozen, flags, memory, between, work, lastId, count, history>>

-----------------------------------------------------------------------------
(* Calls in progress *)

Idle == [op |-> "idle"]
AdminOps == {"create", "drop", "load", "release"}
DocOps   == {"insert", "update", "delete"}

Call(op, at, n) ==
  [op |-> op, at |-> at, name |-> n, doc |-> NoDoc, old |-> NoDoc, list |-> {}, graph |-> 0]

Busy(w) == work[w] # Idle
Admins  == {w \in Workers : work[w].op \in AdminOps}
Changes(n) == {w \in Workers : work[w].op \in DocOps /\ work[w].name = n}
AdminOn(n) == \E w \in Admins : work[w].name = n
QuietOn(n) == ~AdminOn(n) /\ Changes(n) = {}
At(w, ops, at) == Busy(w) /\ work[w].op \in ops /\ work[w].at = at
Go(w, at) == work' = [work EXCEPT ![w].at = at]
Return(w) == work' = [work EXCEPT ![w] = Idle]

\* A handler of a call on a collection starts.
BeginAdmin(w, op, at, n) ==
  /\ ~Busy(w) /\ (OneAdmin => Admins = {})
  /\ count.admin < MaxAdmin
  /\ count' = [count EXCEPT !.admin = @ + 1]
  /\ work' = [work EXCEPT ![w] = Call(op, at, n)]
  /\ exposed' = IF QuietOn(n) THEN exposed ELSE exposed \cup {n}

\* A handler of a call on a document starts, after collectionStatusHelper.
BeginChange(w, n, k) ==
  /\ process = "up" /\ ~Busy(w) /\ n \in exists /\ n \in loaded
  /\ count.changes < MaxChanges
  /\ count' = [count EXCEPT !.changes = @ + 1]
  /\ exposed' = IF AdminOn(n) THEN exposed \cup {n} ELSE exposed
  /\ spoiled' = IF \E v \in Changes(n) : work[v].doc.key = k
                THEN spoiled \cup {<<n, k>>} ELSE spoiled

NoPromise == [calls |-> {}, acked |-> {}, saving |-> {}, kept |-> {}]

NoWalk == [stayed |-> {}, met |-> {}]

\* A document that is about to change: nothing is promised of it.
Except(D, id) == {d \in D : d.id # id}

-----------------------------------------------------------------------------
Init ==
  /\ config = {} /\ listed = {} /\ docs = [n \in Names |-> {}]
  /\ raw = [n \in Names |-> NoFile] /\ bin = [n \in Names |-> NoFile]
  /\ process = "up" /\ frozen = FALSE
  /\ exists = {} /\ loaded = {}
  /\ graphs = {} /\ graph = [n \in Names |-> {}]
  /\ born = [n \in Names |-> 0]
  /\ indexes = {} /\ index = [n \in Names |-> {}]
  /\ columns = [w \in Workers |-> {}] /\ walk = [w \in Workers |-> NoWalk]
  /\ work = [w \in Workers |-> Idle]
  /\ lastId = 0
  /\ count = [admin |-> 0, changes |-> 0, starts |-> 1]
  /\ exposed = {} /\ spoiled = {} /\ lost = {} /\ mixed = {}
  /\ promise = [n \in Names |-> NoPromise]

-----------------------------------------------------------------------------
(* diskClear forgets the graph, the configuration and the documents.       *)
(* AscendKeys calls Delete under the read lock of db.mu for every key that *)
(* the pattern matches anywhere, and Delete waits for the write lock.      *)

NewGraph(n, D) ==
  graphs' = graphs \cup {n} /\ graph' = [graph EXCEPT ![n] = D] /\ born' = [born EXCEPT ![n] = @ + 1]
ForgetGraph(n) ==
  graphs' = graphs \ {n} /\ graph' = [graph EXCEPT ![n] = {}] /\ UNCHANGED born

\* The deletion of the configuration: its error is ignored.
ClearConfig(w) ==
  /\ At(w, {"create", "drop"}, "clear") /\ ~frozen
  /\ \/ config' = config \ {work[w].name}
     \/ "put" \in Faults /\ UNCHANGED config
  /\ Go(w, "clear docs")
  /\ UNCHANGED <<listed, docs, files, process, frozen, flags, memory, between, lastId, count, history>>

Matched(n) == {m \in Matching[n] : m \in config \/ docs[m] # {}}

ClearDocs(w) ==
  /\ At(w, {"create", "drop"}, "clear docs") /\ ~frozen
  /\ IF Matched(work[w].name) # {} THEN frozen' = TRUE /\ Go(w, "stuck")
     ELSE /\ UNCHANGED frozen
          /\ IF work[w].op = "create" THEN Return(w) ELSE Go(w, "read")
  /\ UNCHANGED <<log, files, process, flags, memory, between, lastId, count, history>>

\* saveCollection and removeCollection read the list of collections first.
ReadList(w) ==
  /\ At(w, {"create", "drop"}, "read") /\ ~frozen
  /\ work' = [work EXCEPT ![w].at = "list", ![w].list = listed]
  /\ UNCHANGED <<log, files, process, frozen, flags, memory, between, lastId, count, history>>

-----------------------------------------------------------------------------
(* CreateCollection *)

CreateBegin(w, n) ==
  /\ process = "up" /\ n \notin exists
  /\ BeginAdmin(w, "create", "config", n)
  /\ UNCHANGED <<log, files, process, frozen, flags, memory, between, lastId, spoiled, lost, mixed, promise>>

\* CommitLog.Put of the configuration, then DataStore.Set.
CreateConfig(w) ==
  /\ At(w, {"create"}, "config") /\ ~frozen
  /\ LET n == work[w].name IN
     \/ /\ config' = config \cup {n}
        /\ NewGraph(n, {})
        /\ Go(w, "index")
     \/ "put" \in Faults /\ Return(w) /\ UNCHANGED <<config, graphs, graph, born>>
  /\ UNCHANGED <<listed, docs, files, process, frozen, flags, indexes, index, between, lastId, count, history>>

\* IndexGroup.CreateIndex refuses a name that has an index.
CreateIndex(w) ==
  /\ At(w, {"create"}, "index")
  /\ LET n == work[w].name IN
     \/ /\ n \in indexes
        /\ ForgetGraph(n) /\ Go(w, "clear")
        /\ UNCHANGED <<indexes, index>>
     \/ /\ n \notin indexes
        /\ indexes' = indexes \cup {n} /\ index' = [index EXCEPT ![n] = {}]
        /\ Go(w, "read")
        /\ UNCHANGED <<graphs, graph, born>>
  /\ UNCHANGED <<log, files, process, frozen, flags, between, lastId, count, history>>

\* saveCollection writes the list; if it cannot, the creation is undone.
CreateList(w) ==
  /\ At(w, {"create"}, "list") /\ ~frozen
  /\ \/ /\ listed' = work[w].list \cup {work[w].name} /\ Go(w, "flag")
        /\ UNCHANGED <<graphs, graph, born>>
     \/ /\ "put" \in Faults
        /\ ForgetGraph(work[w].name) /\ Go(w, "clear")
        /\ UNCHANGED listed
  /\ UNCHANGED <<config, docs, files, process, frozen, flags, indexes, index, between, lastId, count, history>>

\* stateTrueHelper, which ends CreateCollection and LoadCollection.
StateTrue(w) ==
  /\ At(w, {"create", "load"}, "flag")
  /\ exists' = exists \cup {work[w].name} /\ loaded' = loaded \cup {work[w].name}
  /\ promise' = [promise EXCEPT ![work[w].name].acked = promise[work[w].name].kept]
  /\ Return(w)
  /\ UNCHANGED <<log, files, process, frozen, memory, between, lastId, count, exposed, spoiled, lost, mixed>>

-----------------------------------------------------------------------------
(* DropCollection: the index and the files of the collection stay *)

DropBegin(w, n) ==
  /\ process = "up" /\ n \in exists
  /\ BeginAdmin(w, "drop", "clear", n)
  /\ ForgetGraph(n)
  /\ promise' = [promise EXCEPT ![n] = NoPromise]
  /\ UNCHANGED <<log, files, process, frozen, flags, indexes, index, between, lastId, spoiled, lost, mixed>>

\* removeCollection writes the list; its error is ignored.
DropList(w) ==
  /\ At(w, {"drop"}, "list") /\ ~frozen
  /\ \/ listed' = work[w].list \ {work[w].name} /\ UNCHANGED exposed
     \/ "put" \in Faults /\ UNCHANGED listed /\ exposed' = exposed \cup {work[w].name}
  /\ Go(w, "flag")
  /\ UNCHANGED <<config, docs, files, process, frozen, flags, memory, between, lastId, count, spoiled, lost, mixed, promise>>

\* stateDestroyHelper.
DropFlag(w) ==
  /\ At(w, {"drop"}, "flag")
  /\ exists' = exists \ {work[w].name} /\ loaded' = loaded \ {work[w].name}
  /\ Return(w)
  /\ UNCHANGED <<log, files, process, frozen, memory, between, lastId, count, history>>

-----------------------------------------------------------------------------
(* LoadCollection *)

LoadBegin(w, n) ==
  /\ process = "up" /\ n \in exists /\ n \notin loaded
  /\ BeginAdmin(w, "load", "config", n)
  /\ promise' = [promise EXCEPT ![n].calls = {}]
  /\ UNCHANGED <<log, files, process, frozen, flags, memory, between, lastId, spoiled, lost, mixed>>

LoadConfig(w) ==
  /\ At(w, {"load"}, "config") /\ ~frozen
  /\ IF work[w].name \in config THEN Go(w, "graph") ELSE Return(w)
  /\ UNCHANGED <<log, files, process, frozen, flags, memory, between, lastId, count, history>>

Complete(file) == file \notin {NoFile, Torn}

\* snapShotHelper.  The file of a graph without vertices ends after its header,
\* where Load goes on to read the entrypoint.
LoadGraph(w) ==
  /\ At(w, {"load"}, "graph")
  /\ LET n == work[w].name IN
     \/ /\ ~Complete(raw[n]) \/ raw[n] = {}
        /\ Return(w)
        /\ UNCHANGED <<graphs, graph, born>>
     \/ /\ Complete(raw[n]) /\ raw[n] # {} /\ Go(w, "index")
        /\ NewGraph(n, raw[n])
  /\ UNCHANGED <<log, files, process, frozen, flags, indexes, index, between, lastId, count, history>>

\* Mutant of MemFree: the collection stays loaded.
MemFreeKeepsFlag(n) ==
  /\ ForgetGraph(n)
  /\ indexes' = indexes \ {n} /\ index' = [index EXCEPT ![n] = {}]
  /\ UNCHANGED loaded

\* memFree.
MemFree(n) ==
  /\ ForgetGraph(n)
  /\ indexes' = indexes \ {n} /\ index' = [index EXCEPT ![n] = {}]
  /\ loaded' = loaded \ {n}

\* indexLoadHelper: an index without a file is empty if the collection exists.
LoadIndex(w) ==
  /\ At(w, {"load"}, "index")
  /\ LET n == work[w].name IN
     \/ /\ bin[n] = Torn \/ (bin[n] = NoFile /\ n \notin exists)
        /\ MemFree(n) /\ Return(w)
     \/ /\ bin[n] # Torn /\ (bin[n] = NoFile => n \in exists)
        /\ indexes' = indexes \cup {n}
        /\ index' = [index EXCEPT ![n] = IF bin[n] = NoFile THEN {} ELSE bin[n]]
        /\ Go(w, "flag")
        /\ UNCHANGED <<graphs, graph, born, loaded>>
  /\ UNCHANGED <<log, files, process, frozen, exists, between, lastId, count, history>>

-----------------------------------------------------------------------------
(* ReleaseCollection, which exitSnapshot calls too; memory is not freed *)

\* Commit then walks the shards of the graph, first for the vertices and then for
\* their edges, without the lock under which they change.
ReleaseBegin(w, n) ==
  /\ n \in exists /\ n \in loaded
  /\ \/ process = "up" /\ BeginAdmin(w, "release", "raw", n)
     \/ /\ process = "closing" /\ Admins = {} /\ ~Busy(w)
        /\ work' = [work EXCEPT ![w] = Call("release", "raw", n)]
        /\ UNCHANGED <<count, exposed>>
  /\ walk' = [walk EXCEPT ![w] = [stayed |-> graph[n], met |-> graph[n]]]
  /\ promise' = [promise EXCEPT ![n] = [@ EXCEPT !.calls = {}, !.saving = promise[n].acked]]
  /\ UNCHANGED <<log, files, process, frozen, flags, memory, columns, lastId, spoiled, lost, mixed>>

\* A change of the graph of n is met by the walks through it.
WalkedOn(n) ==
  walk' = [v \in Workers |->
    IF At(v, {"release"}, "raw") /\ work[v].name = n
    THEN [stayed |-> walk[v].stayed \cap graph'[n], met |-> walk[v].met \cup graph'[n]]
    ELSE walk[v]]

WalkEnds(w) == walk' = [walk EXCEPT ![w] = NoWalk]
Disturbed(w) == walk[w].stayed # walk[w].met

\* Mutant of Snapshot: a file that is there is not written again.
SnapshotOnce(w, n) == {IF raw[n] = NoFile THEN walk[w].met ELSE raw[n]}

\* What createSnapshotHelper may write: a vertex that came or went is in it or
\* not, and what the second part says of the edges need not fit the first.
Snapshot(w, n) ==
  {walk[w].stayed \cup D : D \in SUBSET (walk[w].met \ walk[w].stayed)}
    \cup (IF Disturbed(w) THEN {Torn} ELSE {})

ReleaseRaw(w) ==
  /\ At(w, {"release"}, "raw")
  /\ LET n == work[w].name IN
     /\ \E f \in Snapshot(w, n) : raw' = [raw EXCEPT ![n] = f]
     /\ mixed' = IF Disturbed(w) THEN mixed \cup {n} ELSE mixed
     /\ promise' = IF Disturbed(w) THEN [promise EXCEPT ![n].saving = {}, ![n].kept = {}] ELSE promise
  /\ WalkEnds(w)
  /\ Go(w, "bin")
  /\ UNCHANGED <<log, bin, process, frozen, flags, memory, columns, lastId, count, exposed, spoiled, lost>>

\* Commit dereferences nil, where there is no graph, and where one that was loaded
\* from a mixed file has an edge to no vertex; exitSnapshot goes on to the next.
ReleasePanics(w) ==
  /\ At(w, {"release"}, "raw")
  /\ LET n == work[w].name IN
     /\ n \in graphs => n \in mixed
     /\ exposed' = exposed \cup {n}
     /\ loaded' = IF process = "closing" THEN loaded \ {n} ELSE loaded
  /\ WalkEnds(w)
  /\ Return(w)
  /\ UNCHANGED <<log, files, process, frozen, exists, memory, columns, lastId, count, spoiled, lost, mixed, promise>>

\* indexSaveHelper.
ReleaseBin(w) ==
  /\ At(w, {"release"}, "bin") /\ work[w].name \in indexes
  /\ bin' = [bin EXCEPT ![work[w].name] = index[work[w].name]]
  /\ Go(w, "flag")
  /\ UNCHANGED <<log, raw, process, frozen, flags, memory, between, lastId, count, history>>

\* A file cannot be written, or a graph with vertices has no entrypoint while
\* they come or go: memFree.
ReleaseFails(w) ==
  /\ "file" \in Faults \/ Disturbed(w)
  /\ Busy(w) /\ work[w].op = "release"
  /\ WalkEnds(w)
  /\ LET n == work[w].name IN
     /\ \/ /\ work[w].at = "raw" /\ \E f \in {raw[n], Torn} : raw' = [raw EXCEPT ![n] = f]
           /\ UNCHANGED bin
        \/ /\ work[w].at = "bin" /\ \E f \in {NoFile, Torn} : bin' = [bin EXCEPT ![n] = f]
           /\ UNCHANGED raw
     /\ MemFree(n)
     /\ exposed' = exposed \cup {n}
     /\ promise' = [promise EXCEPT ![n] =
          [NoPromise EXCEPT !.kept = IF files' = files THEN promise[n].kept ELSE {}]]
  /\ Return(w)
  /\ UNCHANGED <<log, process, frozen, exists, columns, lastId, count, spoiled, lost, mixed>>

\* stateFalseHelper.
ReleaseFlag(w) ==
  /\ At(w, {"release"}, "flag")
  /\ LET n == work[w].name IN
     /\ loaded' = loaded \ {n}
     /\ promise' = [promise EXCEPT ![n].acked = promise[n].saving, ![n].kept = promise[n].saving]
  /\ Return(w)
  /\ UNCHANGED <<log, files, process, frozen, exists, memory, between, lastId, count, exposed, spoiled, lost, mixed>>

-----------------------------------------------------------------------------
(* Insert: index, graph, CommitLog; undone in another order if that fails. *)
(* A step that finds no index or no graph dereferences nil: the panic ends *)
(* the call, and without a rollback, because that reads a nil reply.       *)

UnchangedByDocs == <<config, listed, files, process, frozen, flags, graphs, born, indexes, lastId, count>>

Document(id, k, t) == [id |-> id, key |-> k, tag |-> t]

\* index.Add: what is posted in a column that was dropped is lost.
AddPostings(n, d, gone) ==
  index' = [index EXCEPT ![n] = @ \cup {p \in PostingsOf(d) : p.on \notin gone}]

\* Mutant of DropPostings: the bitmaps go, with the other ids in them.
DropPostingsOfAll(n, d) ==
  index' = [index EXCEPT ![n] = {p \in @ : \A q \in PostingsOf(d) : p.on # q.on \/ p.val # q.val}]

DropPostings(n, d) == index' = [index EXCEPT ![n] = @ \ PostingsOf(d)]
PutDoc(n, d)       == docs' = [docs EXCEPT ![n] = {e \in @ : e.id # d.id} \cup {d}]

\* Mutant of DeleteDoc: the document stays.
DeleteDocNever(n, d) == docs' = docs

DeleteDoc(n, d)    == docs' = [docs EXCEPT ![n] = {e \in @ : e.id # d.id}]
Emptied(n)         == {c \in Columns : \A p \in index'[n] : p.on # c}
HasVertex(n, d)    == \E e \in graph[n] : e.id = d.id
DropVertex(n, d)   == graph' = [graph EXCEPT ![n] = {e \in @ : e.id # d.id}]

\* autoCommitID; the check of the dimension is part of the check of the status.
InsertBegin(w, n, k, t) ==
  /\ lastId < MaxDocs
  /\ BeginChange(w, n, k) /\ n \in graphs
  /\ lastId' = lastId + 1
  /\ work' = [work EXCEPT ![w] = [Call("insert", "add", n) EXCEPT !.doc = Document(lastId + 1, k, t)]]
  /\ promise' = [promise EXCEPT ![n].calls = IF AdminOn(n) THEN @ ELSE @ \cup {w}]
  /\ UNCHANGED <<log, files, process, frozen, flags, memory, between, lost, mixed>>

Panic(w) ==
  /\ Busy(w) /\ work[w].op \in DocOps
  /\ \/ work[w].at \in {"add", "remove", "undo index"} /\ work[w].name \notin indexes
     \/ /\ work[w].at \in {"insert", "undo graph"} /\ work[w].name \notin graphs
        /\ work[w].op = "insert"
  /\ columns' = [columns EXCEPT ![w] = {}]
  /\ Return(w)
  /\ spoiled' = spoiled \cup {<<work[w].name, work[w].doc.key>>}
  /\ UNCHANGED <<log, files, process, frozen, flags, memory, walk, lastId, count, exposed, lost, mixed, promise>>

\* index.Add, in Insert and Update.
ChangeAdd(w) ==
  /\ At(w, {"insert", "update"}, "add") /\ work[w].name \in indexes
  /\ AddPostings(work[w].name, work[w].doc, columns[w])
  /\ lost' = IF columns[w] = {} THEN lost ELSE lost \cup {work[w].name}
  /\ columns' = [columns EXCEPT ![w] = {}]
  /\ Go(w, "insert")
  /\ UNCHANGED <<UnchangedByDocs, docs, graph, walk, exposed, spoiled, mixed, promise>>

\* The graph that an Update or Delete holds is still the collection's.
Holds(w) == work[w].name \in graphs /\ work[w].graph = born[work[w].name]

\* hnsw.Insert fails on an id that is there: Insert undoes, Update just fails.
\* Insert looks the graph up here, Update has held it since it began.
ChangeInsert(w) ==
  /\ At(w, {"insert", "update"}, "insert")
  /\ LET n == work[w].name
         d == work[w].doc
         known == IF work[w].op = "insert" THEN n \in graphs ELSE Holds(w) IN
     IF ~known
     THEN work[w].op = "update" /\ (Go(w, "put") \/ Return(w)) /\ UNCHANGED <<graph, walk>>
     ELSE IF HasVertex(n, d)
     THEN /\ IF work[w].op = "insert" THEN Go(w, "undo log") ELSE Return(w)
          /\ UNCHANGED <<graph, walk>>
     ELSE graph' = [graph EXCEPT ![n] = @ \cup {d}] /\ WalkedOn(n) /\ Go(w, "put")
  /\ UNCHANGED <<UnchangedByDocs, docs, index, columns, history>>

\* CommitLog.Put, and the answer.
ChangePut(w) ==
  /\ At(w, {"insert", "update"}, "put") /\ ~frozen
  /\ LET n == work[w].name
         d == work[w].doc IN
     /\ PutDoc(n, d)
     /\ promise' = IF w \in promise[n].calls /\ <<n, d.key>> \notin spoiled
                   THEN [promise EXCEPT ![n].acked = @ \cup {d}, ![n].calls = @ \ {w}]
                   ELSE promise
  /\ Return(w)
  /\ UNCHANGED <<UnchangedByDocs, graph, index, between, exposed, spoiled, lost, mixed>>

\* CommitLog.Put fails: only Insert undoes what it did.
ChangePutFails(w) ==
  /\ "put" \in Faults /\ At(w, {"insert", "update"}, "put") /\ ~frozen
  /\ \/ work[w].op = "insert" /\ Go(w, "undo log") /\ UNCHANGED spoiled
     \/ /\ work[w].op = "update" /\ Return(w)
        /\ spoiled' = spoiled \cup {<<work[w].name, work[w].doc.key>>}
  /\ UNCHANGED <<UnchangedByDocs, docs, graph, index, between, exposed, lost, mixed, promise>>

\* rollbackForConsistentHelper, which goes on when a step of it fails.
InsertUndoLog(w) ==
  /\ At(w, {"insert"}, "undo log") /\ ~frozen
  /\ DeleteDoc(work[w].name, work[w].doc)
  /\ Go(w, "undo graph")
  /\ UNCHANGED <<UnchangedByDocs, graph, index, between, history>>

InsertUndoGraph(w) ==
  /\ At(w, {"insert"}, "undo graph") /\ work[w].name \in graphs
  /\ DropVertex(work[w].name, work[w].doc) /\ WalkedOn(work[w].name)
  /\ Go(w, "undo index")
  /\ UNCHANGED <<UnchangedByDocs, docs, index, columns, history>>

InsertUndoIndex(w) ==
  /\ At(w, {"insert"}, "undo index") /\ work[w].name \in indexes
  /\ DropPostings(work[w].name, work[w].doc)
  /\ columns' = [columns EXCEPT ![w] = Emptied(work[w].name)]
  /\ IF Emptied(work[w].name) = {} THEN Return(w) ELSE Go(w, "drop")
  /\ UNCHANGED <<UnchangedByDocs, docs, graph, walk, history>>

-----------------------------------------------------------------------------
(* Update and Delete: the old postings, the old vertex, then the new ones  *)
(* and the CommitLog.  Neither undoes anything.  They keep the pointer to  *)
(* the graph they began with, which LoadCollection may have replaced.      *)

\* PureSearch: the ids under a value of a field.
Lookup(n, on, val) == {p.id : p \in {q \in index[n] : q.on = on /\ q.val = val}}
Least(S) == CHOOSE i \in S : \A j \in S : i <= j

\* PureSearch of "_id" and GetVertex of the least id; made is the document to be.
FindBegin(w, op, n, k, made(_)) ==
  /\ BeginChange(w, n, k) /\ n \in indexes /\ n \in graphs
  /\ \E old \in graph[n] :
       /\ Lookup(n, "_id", k) # {} /\ old.id = Least(Lookup(n, "_id", k))
       /\ work' = [work EXCEPT ![w] =
            [Call(op, "remove", n) EXCEPT !.doc = made(old), !.old = old, !.graph = born[n]]]
       /\ promise' = [promise EXCEPT ![n].acked = Except(@, old.id), ![n].saving = Except(@, old.id),
                                     ![n].kept = Except(@, old.id),
                                     ![n].calls = IF AdminOn(n) THEN @ ELSE @ \cup {w}]
  /\ UNCHANGED <<log, files, process, frozen, flags, memory, between, lastId, lost, mixed>>

\* An "_id" that the index does not have makes Update an Insert.
UpdateBegin(w, n, k, t) ==
  \/ FindBegin(w, "update", n, k, LAMBDA old : Document(old.id, k, t))
  \/ n \in indexes /\ Lookup(n, "_id", k) = {} /\ InsertBegin(w, n, k, t)

DeleteBegin(w, n, k) == FindBegin(w, "delete", n, k, LAMBDA old : old)

ChangeRemove(w) ==
  /\ At(w, {"update", "delete"}, "remove") /\ work[w].name \in indexes
  /\ DropPostings(work[w].name, work[w].old)
  /\ columns' = [columns EXCEPT ![w] = Emptied(work[w].name)]
  /\ Go(w, IF Emptied(work[w].name) = {} THEN "unlink" ELSE "drop")
  /\ UNCHANGED <<UnchangedByDocs, docs, graph, walk, history>>

\* The calls that are about to Add: they may have looked their columns up.
Adding(n) == {v \in Changes(n) : At(v, {"insert", "update"}, "add")}

\* A column goes, with what was posted there since the Remove found it empty; the
\* calls in late had looked it up before.
LoseColumn(w, n, c, late) ==
  /\ index' = [index EXCEPT ![n] = {p \in @ : p.on # c}]
  /\ lost' = IF index'[n] = index[n] THEN lost ELSE lost \cup {n}
  /\ columns' = [v \in Workers |-> IF v = w THEN columns[w] \ {c}
                                   ELSE IF v \in late THEN columns[v] \cup {c} ELSE columns[v]]

\* index.Remove drops the columns that it found empty, after it gave their locks back.
DropColumn(w) ==
  /\ At(w, DocOps, "drop")
  /\ \E c \in columns[w], late \in SUBSET Adding(work[w].name) : LoseColumn(w, work[w].name, c, late)
  /\ IF columns'[w] # {} THEN Go(w, "drop")
     ELSE IF work[w].op = "insert" THEN Return(w) ELSE Go(w, "unlink")
  /\ UNCHANGED <<UnchangedByDocs, docs, graph, walk, exposed, spoiled, mixed, promise>>

\* hnsw.Remove; on a graph that was replaced it may or may not find the vertex.
ChangeUnlink(w) ==
  /\ At(w, {"update", "delete"}, "unlink")
  /\ LET n  == work[w].name
         on == IF work[w].op = "update" THEN "add" ELSE "erase" IN
     \/ /\ Holds(w) /\ HasVertex(n, work[w].old)
        /\ DropVertex(n, work[w].old) /\ WalkedOn(n) /\ Go(w, on)
     \/ ~Holds(w) /\ Go(w, on) /\ UNCHANGED <<graph, walk>>
     \/ (Holds(w) => ~HasVertex(n, work[w].old)) /\ Return(w) /\ UNCHANGED <<graph, walk>>
  /\ UNCHANGED <<UnchangedByDocs, docs, index, columns, history>>

\* CommitLog.Delete, which may fail.
DeleteErase(w) ==
  /\ At(w, {"delete"}, "erase") /\ ~frozen
  /\ \/ DeleteDoc(work[w].name, work[w].doc) /\ UNCHANGED spoiled
     \/ /\ "put" \in Faults /\ UNCHANGED docs
        /\ spoiled' = spoiled \cup {<<work[w].name, work[w].doc.key>>}
  /\ Return(w)
  /\ UNCHANGED <<UnchangedByDocs, graph, index, between, exposed, lost, mixed, promise>>

-----------------------------------------------------------------------------
(* The process: StableRelease, a crash, NewRoot *)

\* GracefulStop waits for the handlers (at most 10 s, which they are taken to
\* keep), then exitSnapshot releases, and CommitLog.Close waits for db.mu.
CloseBegin ==
  /\ process = "up" /\ \A w \in Workers : ~Busy(w)
  /\ ~frozen
  /\ process' = "closing"
  /\ UNCHANGED <<log, files, frozen, flags, memory, between, work, lastId, count, history>>

\* Memory is gone; the names that are exposed thereby.
Forget(names) ==
  /\ process' = "down" /\ frozen' = FALSE
  /\ exists' = {} /\ loaded' = {}
  /\ graphs' = {} /\ graph' = [n \in Names |-> {}]
  /\ indexes' = {} /\ index' = [n \in Names |-> {}]
  /\ born' = [n \in Names |-> 0]
  /\ columns' = [w \in Workers |-> {}] /\ walk' = [w \in Workers |-> NoWalk]
  /\ work' = [w \in Workers |-> Idle]
  /\ exposed' = exposed \cup names

\* exitSnapshot has released every collection.
CloseEnd ==
  /\ process = "closing" /\ Admins = {} /\ loaded = {}
  /\ Forget({})
  /\ UNCHANGED <<log, files, lastId, count, spoiled, lost, mixed, promise>>

\* Writing a file anew ends early: it is as before, empty or cut.  Go ends the
\* process when it sees a map change under a walk.
Crash ==
  /\ "crash" \in Faults \/ \E w \in Workers : Disturbed(w)
  /\ process # "down"
  /\ Forget({n \in Names : n \in loaded \/ ~QuietOn(n)})
  /\ LET Writing(at) == {work[w].name : w \in {v \in Admins : work[v].at = at}} IN
     /\ raw' \in [Names -> UNION {{raw[n], Torn} : n \in Names}]
     /\ bin' \in [Names -> UNION {{bin[n], NoFile, Torn} : n \in Names}]
     /\ \A n \in Names :
          /\ raw'[n] = raw[n] \/ (raw'[n] = Torn /\ n \in Writing("raw"))
          /\ bin'[n] = bin[n] \/ (bin'[n] \in {NoFile, Torn} /\ n \in Writing("bin"))
  /\ promise' = [n \in Names |-> [NoPromise EXCEPT !.kept =
                    IF raw'[n] = raw[n] /\ bin'[n] = bin[n] THEN promise[n].kept ELSE {}]]
  /\ UNCHANGED <<log, lastId, count, spoiled, lost, mixed>>

\* RegistCollectionStManager; no collection is loaded.
Start ==
  /\ process = "down" /\ count.starts < MaxStarts
  /\ process' = "up"
  /\ exists' = listed
  /\ count' = [count EXCEPT !.starts = @ + 1]
  /\ UNCHANGED <<log, files, frozen, loaded, memory, between, work, lastId, history>>

-----------------------------------------------------------------------------
AdminStep(w) ==
  \/ CreateConfig(w) \/ CreateIndex(w) \/ CreateList(w)
  \/ ClearConfig(w) \/ ClearDocs(w) \/ ReadList(w) \/ DropList(w) \/ DropFlag(w)
  \/ LoadConfig(w) \/ LoadGraph(w) \/ LoadIndex(w) \/ StateTrue(w)
  \/ ReleaseRaw(w) \/ ReleasePanics(w) \/ ReleaseBin(w) \/ ReleaseFails(w) \/ ReleaseFlag(w)

ChangeStep(w) ==
  \/ ChangeAdd(w) \/ ChangeInsert(w) \/ ChangePut(w) \/ ChangePutFails(w)
  \/ InsertUndoLog(w) \/ InsertUndoGraph(w) \/ InsertUndoIndex(w)
  \/ ChangeRemove(w) \/ DropColumn(w) \/ ChangeUnlink(w) \/ DeleteErase(w) \/ Panic(w)

Begin(w) ==
  \E n \in Names :
    \/ CreateBegin(w, n) \/ DropBegin(w, n) \/ LoadBegin(w, n) \/ ReleaseBegin(w, n)
    \/ \E k \in Keys : \/ DeleteBegin(w, n, k)
                        \/ \E t \in Tags : InsertBegin(w, n, k, t) \/ UpdateBegin(w, n, k, t)

Next ==
  \/ \E w \in Workers : Begin(w) \/ AdminStep(w) \/ ChangeStep(w)
  \/ CloseBegin \/ CloseEnd \/ Crash \/ Start

Spec == Init /\ [][Next]_vars

\* A handler is a goroutine that goes on by itself.
FairSpec == Spec /\ \A w \in Workers : WF_vars(AdminStep(w) \/ ChangeStep(w))

-----------------------------------------------------------------------------
(* What the searches answer *)

\* FilterSearch: the documents of the ids in the index, an error ({NoDoc} here)
\* if one has none.
FilterSearch(n, on, val) ==
  LET ids == Lookup(n, on, val) IN
  IF \E i \in ids : \A d \in docs[n] : d.id # i THEN {NoDoc}
  ELSE {d \in docs[n] : d.id \in ids}

\* VectorSearch with a TopK that covers the graph.
VectorSearch(n) == graph[n]

-----------------------------------------------------------------------------
(* Properties *)

Activity == [op : AdminOps \cup DocOps, name : Names, doc : Doc \cup {NoDoc}, old : Doc \cup {NoDoc},
          list : SUBSET Names, graph : Nat,
          at : {"config", "index", "read", "list", "flag", "clear", "clear docs", "stuck", "graph",
                "raw", "bin", "add", "insert", "put", "undo log", "undo graph", "undo index",
                "remove", "drop", "unlink", "erase"}]

\* Every variable has the type its code gives it.
TypeOK ==
  /\ config \subseteq Names /\ listed \subseteq Names /\ docs \in [Names -> SUBSET Doc]
  /\ raw \in [Names -> {NoFile, Torn} \cup SUBSET Doc]
  /\ bin \in [Names -> {NoFile, Torn} \cup SUBSET Posting]
  /\ process \in {"up", "closing", "down"} /\ frozen \in BOOLEAN
  /\ exists \subseteq Names /\ loaded \subseteq Names
  /\ graphs \subseteq Names /\ graph \in [Names -> SUBSET Doc] /\ born \in [Names -> Nat]
  /\ indexes \subseteq Names /\ index \in [Names -> SUBSET Posting]
  /\ columns \in [Workers -> SUBSET Columns]
  /\ walk \in [Workers -> [stayed : SUBSET Doc, met : SUBSET Doc]]
  /\ work \in [Workers -> {Idle} \cup Activity]
  /\ lastId \in 0 .. MaxDocs
  /\ count \in [admin : 0 .. MaxAdmin, changes : 0 .. MaxChanges, starts : 1 .. MaxStarts]
  /\ exposed \subseteq Names /\ spoiled \subseteq Names \X Keys
  /\ lost \subseteq Names /\ mixed \subseteq Names
  /\ promise \in [Names -> [calls : SUBSET Workers, acked : SUBSET Doc,
                            saving : SUBSET Doc, kept : SUBSET Doc]]

\* A collection is loaded only with what the handlers dereference without a
\* check, a graph and an index, and with a configuration; and what answers now
\* is known after a restart (core.go:144, 190, 246-335; core_helper.go:205-225).
Served ==
  process = "up" =>
    \A n \in Names : ~AdminOn(n) =>
      /\ n \in exists => n \in listed
      /\ n \in loaded => n \in exists \cap config \cap graphs \cap indexes

\* When nothing is in progress on a collection, its two searches and its
\* documents agree: each field finds the documents that have it, without an
\* error, and the vectors are those documents'; and the files of a collection
\* that is not loaded hold the same.  Through inserts that fail and are undone,
\* concurrent changes, release, load, exit and restart.  Not after calls that
\* code does not order: a change while the collection is released, loaded or
\* dropped, or a crash while it is loaded (exposed), two changes of the same "_id" at
\* the same time, or an Update or Delete whose last step fails (spoiled); and not
\* after a call posted in a column that another was dropping (lost).
Agree ==
  process = "up" =>
    \A n \in exists : QuietOn(n) /\ n \notin exposed \cup lost /\ (\A k \in Keys : <<n, k>> \notin spoiled) =>
      IF n \in loaded
      THEN /\ VectorSearch(n) = docs[n]
           /\ \A k \in Keys : FilterSearch(n, "_id", k) = {d \in docs[n] : d.key = k}
           /\ \A t \in Tags : FilterSearch(n, "tag", t) = {d \in docs[n] : d.tag = t}
      ELSE raw[n] = docs[n] /\ bin[n] = PostingsOfAll(docs[n])

\* A document whose Insert or Update was acknowledged, and which no call has
\* since changed, is found by vector, and by "_id" and by tag too unless a column
\* was dropped while someone posted in it, whatever other calls on the collection
\* are doing (core.go:398-631, bitmap_index.go:85-121).  Not in a graph that
\* was loaded from a file written while the graph changed.
AckedFound ==
  \A n \in loaded \ mixed : ~AdminOn(n) =>
    \A d \in promise[n].acked :
      /\ d \in graph[n] /\ d \in docs[n]
      /\ n \notin lost => PostingsOf(d) \subseteq index[n]

\* What was acknowledged before a ReleaseCollection began that succeeded, and
\* which no call has since changed, is in both files, whatever crashed since and
\* whatever ran beside the release, except that nothing is promised of a graph that
\* changed while it was walked, nor of an index that lost a posting with a column,
\* until a later save of them is cut short (core.go:337-396,
\* core_helper.go:68-76, 147-158; hnsw_commit.go:98-160).
ReleasedSurvive ==
  \A n \in Names : \A d \in promise[n].kept :
    /\ raw[n] \notin {NoFile, Torn} /\ d \in raw[n]
    /\ n \notin lost => bin[n] \notin {NoFile, Torn} /\ PostingsOf(d) \subseteq bin[n]

\* DropCollection finds the data of the collection (constants.go:42), deletes it
\* and ends (core.go:156-190, core_helper.go:41-54).  It does not: the first key
\* that the pattern matches stops it for ever.
DropEnds == \A w \in Workers : work[w].op = "drop" ~> work[w].op # "drop"
=============================================================================
