-------------------------- MODULE CollectionsProofs --------------------------
(***************************************************************************)
(* Proofs about Collections for any collections, handlers, documents and   *)
(* faults: its types, and, as long as calls on collections wait for each   *)
(* other, that a loaded collection has all that its handlers dereference   *)
(* and is known after a restart, that what was acknowledged is found, that *)
(* what was released is kept, and that the searches, the log and the files *)
(* agree when nothing is in progress.                                      *)
(***************************************************************************)
EXTENDS Collections, WellFoundedInduction, TLAPS

-----------------------------------------------------------------------------
(* Types *)

\* The types, and that a call on a document has one.
TypeInv ==
  /\ TypeOK
  /\ \A w \in Workers : work[w].op \in DocOps => work[w].doc \in Doc

\* What the handlers are doing is in its type.
WorkOK == /\ work \in [Workers -> {Idle} \cup Activity]
          /\ \A w \in Workers : work[w].op \in DocOps => work[w].doc \in Doc

Promise == [calls : SUBSET Workers, acked : SUBSET Doc, saving : SUBSET Doc, kept : SUBSET Doc]

Stages == {"config", "index", "read", "list", "flag", "clear", "clear docs", "stuck",
           "graph", "raw", "bin", "add", "insert", "put", "undo log", "undo graph",
           "undo index", "remove", "drop", "unlink", "erase"}

Walk == [stayed : SUBSET Doc, met : SUBSET Doc]

\* A call that goes on is a call.
LEMMA GoType ==
  ASSUME WorkOK, NEW w \in Workers, Busy(w), NEW at \in Stages, Go(w, at)
  PROVE  WorkOK'
<1>1. work[w] \in Activity
  BY DEF WorkOK, Busy
<1>2. /\ [work[w] EXCEPT !.at = at] \in Activity
      /\ [work[w] EXCEPT !.at = at].op = work[w].op
      /\ [work[w] EXCEPT !.at = at].doc = work[w].doc
  BY <1>1 DEF Activity, Stages
<1>3. work' = [work EXCEPT ![w] = [work[w] EXCEPT !.at = at]]
  BY DEF Go
<1> HIDE DEF Go
<1> QED BY <1>2, <1>3 DEF WorkOK

\* A call that returns leaves its handler idle.
LEMMA ReturnType ==
  ASSUME WorkOK, NEW w \in Workers, Return(w)
  PROVE  WorkOK'
<1>1. Idle.op \notin DocOps
  BY DEF Idle, DocOps
<1> QED BY <1>1 DEF WorkOK, Return

\* A call that begins is a call.
LEMMA CallType ==
  ASSUME NEW op \in AdminOps \cup DocOps, NEW at \in Stages, NEW n \in Names
  PROVE  /\ Call(op, at, n) \in Activity
         /\ Call(op, at, n).op = op /\ Call(op, at, n).name = n /\ Call(op, at, n).at = at
BY DEF Call, Activity, Stages, NoDoc

\* A handler that takes up a call on a collection is in its type.
LEMMA AdminType ==
  ASSUME WorkOK, NEW w \in Workers, NEW op \in AdminOps, NEW at \in Stages, NEW n \in Names,
         work' = [work EXCEPT ![w] = Call(op, at, n)]
  PROVE  WorkOK'
<1>1. Call(op, at, n) \in Activity /\ Call(op, at, n).op \notin DocOps
  BY CallType DEF AdminOps, DocOps
<1> QED BY <1>1 DEF WorkOK

\* A graph takes the place of another.
LEMMA NewGraphType ==
  ASSUME TypeOK, NEW n \in Names, NEW D \in SUBSET Doc, NewGraph(n, D)
  PROVE  /\ graphs' \subseteq Names /\ graph' \in [Names -> SUBSET Doc]
         /\ born' \in [Names -> Nat]
<1>1. graphs' \subseteq Names
  BY DEF NewGraph, TypeOK
<1>2. graph' \in [Names -> SUBSET Doc]
  BY DEF NewGraph, TypeOK
<1>3. born' \in [Names -> Nat]
  <2>1. born[n] + 1 \in Nat
    BY DEF TypeOK
  <2> QED BY <2>1 DEF NewGraph, TypeOK
<1> QED BY <1>1, <1>2, <1>3

\* What a document puts into the index.
LEMMA PostingsType ==
  ASSUME NEW d \in Doc
  PROVE  PostingsOf(d) \subseteq Posting
BY DEF Doc, Posting, PostingsOf

\* A walk through a graph that changes, and one that ends.
LEMMA WalkedType ==
  ASSUME TypeInv, NEW n \in Names, graph' \in [Names -> SUBSET Doc], WalkedOn(n)
  PROVE  walk' \in [Workers -> Walk]
<1>1. walk \in [Workers -> Walk]
  BY DEF TypeInv, TypeOK, Walk
<1>2. \A v \in Workers : [stayed |-> walk[v].stayed \cap graph'[n],
                           met |-> walk[v].met \cup graph'[n]] \in Walk
  BY <1>1 DEF Walk
<1> QED BY <1>1, <1>2 DEF WalkedOn

LEMMA WalkEndsType ==
  ASSUME TypeInv, NEW w \in Workers, WalkEnds(w)
  PROVE  walk' \in [Workers -> Walk]
<1>1. NoWalk \in Walk
  BY DEF NoWalk, Walk
<1> QED BY <1>1 DEF WalkEnds, TypeInv, TypeOK, Walk

\* What is written of a graph is a file.
LEMMA SnapshotType ==
  ASSUME TypeInv, NEW w \in Workers, NEW n \in Names, NEW f \in Snapshot(w, n)
  PROVE  f \in {NoFile, Torn} \cup SUBSET Doc
<1>1. walk[w].stayed \in SUBSET Doc /\ walk[w].met \in SUBSET Doc
  BY DEF TypeInv, TypeOK
<1> QED BY <1>1 DEF Snapshot

\* What Init sets up.
LEMMA TypeInit == Init => TypeInv
<1> SUFFICES ASSUME Init PROVE TypeInv
  OBVIOUS
<1>1. count \in [admin : 0 .. MaxAdmin, changes : 0 .. MaxChanges, starts : 1 .. MaxStarts]
  BY CollectionsAssumption DEF Init
<1>2. promise \in [Names -> [calls : SUBSET Workers, acked : SUBSET Doc,
                             saving : SUBSET Doc, kept : SUBSET Doc]]
  BY DEF Init, NoPromise
<1>3. WorkOK
  BY DEF Init, WorkOK, Idle, DocOps
<1>4. lastId \in 0 .. MaxDocs
  BY CollectionsAssumption DEF Init
<1>5. columns \in [Workers -> SUBSET Columns] /\ walk \in [Workers -> Walk]
  BY DEF Init, NoWalk, Walk
<1> QED BY <1>1, <1>2, <1>3, <1>4, <1>5 DEF Init, TypeOK, TypeInv, WorkOK, Walk

\* The steps of a call on a collection keep the types.
LEMMA AdminStepType ==
  ASSUME TypeInv, NEW w \in Workers, AdminStep(w)
  PROVE  TypeInv'
<1> USE DEF log, files, flags, memory, between, history
<1>0. WorkOK /\ (Busy(w) => work[w] \in Activity /\ work[w].name \in Names
                            /\ work[w].list \in SUBSET Names)
  BY DEF TypeInv, TypeOK, WorkOK, Busy, Activity
<1>1. ASSUME NEW at \in Stages, Busy(w), Go(w, at) PROVE WorkOK'
  BY <1>0, <1>1, GoType
<1>2. ASSUME Return(w) PROVE WorkOK'
  BY <1>0, <1>2, ReturnType
<1>3. CASE CreateConfig(w)
  <2>1. WorkOK'
    BY <1>1, <1>2, <1>3 DEF CreateConfig, At, Stages
  <2>2. /\ graphs' \subseteq Names /\ graph' \in [Names -> SUBSET Doc]
        /\ born' \in [Names -> Nat]
    <3>1. CASE NewGraph(work[w].name, {})
      BY <1>0, <1>3, <3>1, NewGraphType DEF CreateConfig, At, TypeInv
    <3>2. CASE UNCHANGED <<graphs, graph, born>>
      BY <3>2 DEF TypeInv, TypeOK
    <3> QED BY <1>3, <3>1, <3>2 DEF CreateConfig
  <2>3. config' \subseteq Names
    BY <1>0, <1>3 DEF CreateConfig, At, TypeInv, TypeOK
  <2> QED BY <1>3, <2>1, <2>2, <2>3 DEF CreateConfig, TypeInv, TypeOK, WorkOK
<1>4. CASE CreateIndex(w)
  <2>1. WorkOK'
    BY <1>1, <1>2, <1>4 DEF CreateIndex, At, Stages
  <2> QED BY <1>0, <1>4, <2>1 DEF CreateIndex, At, ForgetGraph, TypeInv, TypeOK, WorkOK
<1>5. CASE CreateList(w)
  <2>1. WorkOK'
    BY <1>1, <1>2, <1>5 DEF CreateList, At, Stages
  <2> QED BY <1>0, <1>5, <2>1 DEF CreateList, At, ForgetGraph, TypeInv, TypeOK, WorkOK
<1>6. CASE ClearConfig(w)
  <2>1. WorkOK'
    BY <1>1, <1>2, <1>6 DEF ClearConfig, At, Stages
  <2> QED BY <1>0, <1>6, <2>1 DEF ClearConfig, At, TypeInv, TypeOK, WorkOK
<1>7. CASE ClearDocs(w)
  <2>1. WorkOK'
    BY <1>1, <1>2, <1>7 DEF ClearDocs, At, Stages
  <2> QED BY <1>0, <1>7, <2>1 DEF ClearDocs, At, TypeInv, TypeOK, WorkOK
<1>8. CASE ReadList(w)
  <2>1. WorkOK'
    <3>1. work[w] \in Activity /\ listed \in SUBSET Names
      BY <1>0, <1>8 DEF ReadList, At, TypeInv, TypeOK
    <3>2. /\ [work[w] EXCEPT !.at = "list", !.list = listed] \in Activity
          /\ [work[w] EXCEPT !.at = "list", !.list = listed].op = work[w].op
          /\ [work[w] EXCEPT !.at = "list", !.list = listed].doc = work[w].doc
      BY <3>1 DEF Activity
    <3>3. work' = [work EXCEPT ![w] = [work[w] EXCEPT !.at = "list", !.list = listed]]
      BY <1>0, <1>8 DEF ReadList, WorkOK
    <3> QED BY <1>0, <3>2, <3>3 DEF WorkOK
  <2> QED BY <1>0, <1>8, <2>1 DEF ReadList, At, TypeInv, TypeOK, WorkOK
<1>9. CASE DropList(w)
  <2>1. WorkOK'
    BY <1>1, <1>2, <1>9 DEF DropList, At, Stages
  <2> QED BY <1>0, <1>9, <2>1 DEF DropList, At, TypeInv, TypeOK, WorkOK
<1>10. CASE DropFlag(w)
  <2>1. WorkOK'
    BY <1>1, <1>2, <1>10 DEF DropFlag, At, Stages
  <2> QED BY <1>0, <1>10, <2>1 DEF DropFlag, At, TypeInv, TypeOK, WorkOK
<1>11. CASE LoadConfig(w)
  <2>1. WorkOK'
    BY <1>1, <1>2, <1>11 DEF LoadConfig, At, Stages
  <2> QED BY <1>0, <1>11, <2>1 DEF LoadConfig, At, TypeInv, TypeOK, WorkOK
<1>12. CASE LoadGraph(w)
  <2>1. WorkOK'
    BY <1>1, <1>2, <1>12 DEF LoadGraph, At, Stages
  <2>2. Complete(raw[work[w].name]) => raw[work[w].name] \in SUBSET Doc
    BY <1>0, <1>12 DEF LoadGraph, At, Complete, TypeInv, TypeOK
  <2>3. /\ graphs' \subseteq Names /\ graph' \in [Names -> SUBSET Doc]
        /\ born' \in [Names -> Nat]
    <3>1. CASE Complete(raw[work[w].name]) /\ NewGraph(work[w].name, raw[work[w].name])
      BY <1>0, <1>12, <2>2, <3>1, NewGraphType DEF LoadGraph, At, TypeInv
    <3>2. CASE UNCHANGED <<graphs, graph, born>>
      BY <3>2 DEF TypeInv, TypeOK
    <3> QED BY <1>12, <3>1, <3>2 DEF LoadGraph
  <2> QED BY <1>12, <2>1, <2>3 DEF LoadGraph, TypeInv, TypeOK, WorkOK
<1>13. CASE LoadIndex(w)
  <2>1. WorkOK'
    BY <1>1, <1>2, <1>13 DEF LoadIndex, At, Stages
  <2>2. bin[work[w].name] \notin {NoFile, Torn} => bin[work[w].name] \in SUBSET Posting
    BY <1>0, <1>13 DEF LoadIndex, At, TypeInv, TypeOK
  <2> QED BY <1>0, <1>13, <2>1, <2>2
          DEF LoadIndex, At, MemFree, ForgetGraph, TypeInv, TypeOK, WorkOK
<1>14. CASE StateTrue(w)
  <2>1. WorkOK'
    BY <1>1, <1>2, <1>14 DEF StateTrue, At, Stages
  <2>2. promise' \in [Names -> Promise]
    <3>1. work[w].name \in Names /\ promise \in [Names -> Promise]
      BY <1>0, <1>14 DEF StateTrue, At, TypeInv, TypeOK, Promise
    <3>2. [promise[work[w].name] EXCEPT !.acked = promise[work[w].name].kept] \in Promise
      BY <3>1 DEF Promise
    <3>3. promise' = [promise EXCEPT ![work[w].name] =
                        [promise[work[w].name] EXCEPT !.acked = promise[work[w].name].kept]]
      BY <1>14 DEF StateTrue
    <3> HIDE DEF Promise
    <3> QED BY <3>1, <3>2, <3>3
  <2>3. exists' \subseteq Names /\ loaded' \subseteq Names
    BY <1>0, <1>14 DEF StateTrue, At, TypeInv, TypeOK
  <2> QED BY <1>14, <2>1, <2>2, <2>3 DEF StateTrue, TypeInv, TypeOK, WorkOK, Promise
<1>15. CASE ReleaseRaw(w)
  <2>1. WorkOK'
    BY <1>1, <1>2, <1>15 DEF ReleaseRaw, At, Stages
  <2>2. raw' \in [Names -> {NoFile, Torn} \cup SUBSET Doc]
    <3>1. work[w].name \in Names
      BY <1>0, <1>15 DEF ReleaseRaw, At
    <3>2. PICK f \in Snapshot(w, work[w].name) : raw' = [raw EXCEPT ![work[w].name] = f]
      BY <1>15 DEF ReleaseRaw
    <3> QED BY <3>1, <3>2, SnapshotType DEF TypeInv, TypeOK
  <2>3. promise' \in [Names -> Promise]
    <3> DEFINE n == work[w].name
               p == [promise[n] EXCEPT !.saving = {}, !.kept = {}]
    <3>1. n \in Names /\ promise \in [Names -> Promise]
      BY <1>0, <1>15 DEF ReleaseRaw, At, TypeInv, TypeOK, Promise
    <3>2. p \in Promise
      BY <3>1 DEF Promise
    <3>3. promise' = [promise EXCEPT ![n] = p] \/ promise' = promise
      BY <1>15 DEF ReleaseRaw
    <3> HIDE DEF p, n, Promise
    <3> QED BY <3>1, <3>2, <3>3
  <2>4. mixed' \subseteq Names
    BY <1>0, <1>15 DEF ReleaseRaw, At, TypeInv, TypeOK
  <2>5. walk' \in [Workers -> Walk]
    BY <1>15, WalkEndsType DEF ReleaseRaw
  <2> QED BY <1>15, <2>1, <2>2, <2>3, <2>4, <2>5 DEF ReleaseRaw, TypeInv, TypeOK, WorkOK, Promise, Walk
<1>16. CASE ReleaseBin(w)
  <2>1. WorkOK'
    BY <1>1, <1>2, <1>16 DEF ReleaseBin, At, Stages
  <2> QED BY <1>0, <1>16, <2>1 DEF ReleaseBin, At, TypeInv, TypeOK, WorkOK
<1>17. CASE ReleaseFails(w)
  <2>1. WorkOK'
    BY <1>1, <1>2, <1>17 DEF ReleaseFails, At, Stages
  <2>2. walk' \in [Workers -> Walk]
    BY <1>17, WalkEndsType DEF ReleaseFails
  <2>3. promise' \in [Names -> Promise]
    <3> DEFINE n == work[w].name
    <3>1. n \in Names /\ promise \in [Names -> Promise]
      BY <1>0, <1>17 DEF ReleaseFails, TypeInv, TypeOK, Promise
    <3>2. PICK K \in {promise[n].kept, {}} :
            promise' = [promise EXCEPT ![n] = [NoPromise EXCEPT !.kept = K]]
      BY <1>17 DEF ReleaseFails
    <3>3. [NoPromise EXCEPT !.kept = K] \in Promise
      BY <3>1, <3>2 DEF NoPromise, Promise
    <3> HIDE DEF n, Promise
    <3> QED BY <3>1, <3>2, <3>3
  <2>4. /\ raw' \in [Names -> {NoFile, Torn} \cup SUBSET Doc]
        /\ bin' \in [Names -> {NoFile, Torn} \cup SUBSET Posting]
    BY <1>0, <1>17 DEF ReleaseFails, TypeInv, TypeOK
  <2> QED BY <1>0, <1>17, <2>1, <2>2, <2>3, <2>4
          DEF ReleaseFails, MemFree, ForgetGraph, TypeInv, TypeOK, WorkOK, Promise, Walk
<1>19. CASE ReleasePanics(w)
  <2>1. WorkOK'
    BY <1>2, <1>19 DEF ReleasePanics
  <2>2. walk' \in [Workers -> Walk]
    BY <1>19, WalkEndsType DEF ReleasePanics
  <2>3. exposed' \subseteq Names /\ loaded' \subseteq Names
    BY <1>0, <1>19 DEF ReleasePanics, At, TypeInv, TypeOK
  <2> QED BY <1>19, <2>1, <2>2, <2>3 DEF ReleasePanics, TypeInv, TypeOK, WorkOK, Walk
<1>18. CASE ReleaseFlag(w)
  <2>1. WorkOK'
    BY <1>1, <1>2, <1>18 DEF ReleaseFlag, At, Stages
  <2> DEFINE n == work[w].name
             p == [promise[n] EXCEPT !.acked = promise[n].saving, !.kept = promise[n].saving]
  <2>2. promise' \in [Names -> Promise]
    <3>1. n \in Names /\ promise \in [Names -> Promise]
      BY <1>0, <1>18 DEF ReleaseFlag, At, TypeInv, TypeOK, Promise
    <3>2. p \in Promise
      BY <3>1 DEF Promise
    <3>3. promise' = [promise EXCEPT ![n] = p]
      BY <1>18 DEF ReleaseFlag
    <3> HIDE DEF p, n
    <3> QED BY <3>1, <3>2, <3>3
  <2>3. loaded' \subseteq Names
    BY <1>18 DEF ReleaseFlag, TypeInv, TypeOK
  <2> QED BY <1>18, <2>1, <2>2, <2>3 DEF ReleaseFlag, TypeInv, TypeOK, WorkOK, Promise
<1> QED BY <1>3, <1>4, <1>5, <1>6, <1>7, <1>8, <1>9, <1>10, <1>11, <1>12, <1>13,
           <1>14, <1>15, <1>16, <1>17, <1>18, <1>19 DEF AdminStep

\* The steps of a call on a document keep the types.
LEMMA ChangeStepType ==
  ASSUME TypeInv, NEW w \in Workers, ChangeStep(w)
  PROVE  TypeInv'
<1> USE DEF log, files, flags, memory, between, history, UnchangedByDocs
<1>0. WorkOK
  BY DEF TypeInv, TypeOK, WorkOK
<1>1. ASSUME NEW at \in Stages, Busy(w), Go(w, at) PROVE WorkOK'
  BY <1>0, <1>1, GoType
<1>2. ASSUME Return(w) PROVE WorkOK'
  BY <1>0, <1>2, ReturnType
<1>3. /\ Busy(w)
      /\ work[w] \in Activity
      /\ work[w].name \in Names
      /\ work[w].op \in DocOps => /\ work[w].doc \in Doc
                                  /\ <<work[w].name, work[w].doc.key>> \in Names \X Keys
                                  /\ PostingsOf(work[w].doc) \subseteq Posting
  <2>1. Busy(w)
    BY DEF ChangeStep, ChangeAdd, ChangeInsert, ChangePut, ChangePutFails, InsertUndoLog,
           InsertUndoGraph, InsertUndoIndex, ChangeRemove, DropColumn, ChangeUnlink, DeleteErase, Panic, At
  <2>2. work[w] \in Activity
    BY <1>0, <2>1 DEF WorkOK, Busy
  <2>3. work[w].op \in DocOps => work[w].doc \in Doc
    BY <1>0 DEF WorkOK
  <2>4. work[w].op \in DocOps => work[w].doc.key \in Keys
    BY <2>3 DEF Doc
  <2>5. work[w].name \in Names
    BY <2>2 DEF Activity
  <2> QED BY <2>1, <2>2, <2>3, <2>4, <2>5, PostingsType
<1>4. CASE ChangeAdd(w)
  <2>1. WorkOK'
    BY <1>1, <1>4 DEF ChangeAdd, At, Stages
  <2>2. index' \in [Names -> SUBSET Posting]
    BY <1>3, <1>4 DEF ChangeAdd, At, AddPostings, DocOps, TypeInv, TypeOK
  <2>3. lost' \subseteq Names /\ columns' \in [Workers -> SUBSET Columns]
    BY <1>3, <1>4 DEF ChangeAdd, TypeInv, TypeOK
  <2> QED BY <1>4, <2>1, <2>2, <2>3 DEF ChangeAdd, TypeInv, TypeOK, WorkOK
<1>5. CASE ChangeInsert(w)
  <2>1. WorkOK'
    BY <1>1, <1>2, <1>5 DEF ChangeInsert, At, Stages
  <2>2. \/ graph' = graph
        \/ graph' = [graph EXCEPT ![work[w].name] = @ \cup {work[w].doc}]
    BY <1>5 DEF ChangeInsert
  <2>3. work[w].op \in DocOps
    BY <1>5 DEF ChangeInsert, At, DocOps
  <2>4. graph' \in [Names -> SUBSET Doc]
    BY <1>3, <2>2, <2>3 DEF TypeInv, TypeOK
  <2>5. walk' \in [Workers -> Walk]
    <3>1. walk' = walk \/ WalkedOn(work[w].name)
      BY <1>5 DEF ChangeInsert
    <3> QED BY <1>3, <2>4, <3>1, WalkedType DEF TypeInv, TypeOK, Walk
  <2> QED BY <1>5, <2>1, <2>4, <2>5 DEF ChangeInsert, TypeInv, TypeOK, WorkOK, Walk
<1>6. CASE ChangePut(w)
  <2>1. WorkOK'
    BY <1>2, <1>6 DEF ChangePut
  <2>2. docs' \in [Names -> SUBSET Doc]
    BY <1>3, <1>6 DEF ChangePut, At, PutDoc, DocOps, TypeInv, TypeOK
  <2>3. promise' \in [Names -> Promise]
    <3>1. promise \in [Names -> Promise]
      BY DEF TypeInv, TypeOK, Promise
    <3> DEFINE n == work[w].name
               d == work[w].doc
               p == [promise[n] EXCEPT !.acked = @ \cup {d}, !.calls = @ \ {w}]
    <3>2. p \in Promise
      <4>1. n \in Names /\ d \in Doc /\ promise[n] \in Promise
        BY <1>3, <1>6, <3>1 DEF ChangePut, At, DocOps
      <4> HIDE DEF n, d
      <4> QED BY <4>1 DEF Promise
    <3>3. promise' = [promise EXCEPT ![n] = p] \/ promise' = promise
      BY <1>6 DEF ChangePut
    <3> HIDE DEF p
    <3> QED BY <1>3, <3>1, <3>2, <3>3
  <2> QED BY <1>6, <2>1, <2>2, <2>3 DEF ChangePut, TypeInv, TypeOK, WorkOK, Promise
<1>7. CASE ChangePutFails(w)
  <2>1. WorkOK'
    BY <1>1, <1>2, <1>7 DEF ChangePutFails, At, Stages
  <2>2. spoiled' \subseteq Names \X Keys
    <3>1. work[w].op \in DocOps
      BY <1>7 DEF ChangePutFails, At, DocOps
    <3>2. spoiled' \subseteq spoiled \cup {<<work[w].name, work[w].doc.key>>}
      BY <1>7 DEF ChangePutFails
    <3> QED BY <1>3, <3>1, <3>2 DEF TypeInv, TypeOK
  <2> QED BY <1>7, <2>1, <2>2 DEF ChangePutFails, TypeInv, TypeOK, WorkOK
<1>8. CASE InsertUndoLog(w)
  <2>1. WorkOK'
    BY <1>1, <1>8 DEF InsertUndoLog, At, Stages
  <2> QED BY <1>8, <1>3, <2>1 DEF InsertUndoLog, DeleteDoc, TypeInv, TypeOK, WorkOK
<1>9. CASE InsertUndoGraph(w)
  <2>1. WorkOK'
    BY <1>1, <1>9 DEF InsertUndoGraph, At, Stages
  <2>2. graph' \in [Names -> SUBSET Doc]
    BY <1>9, <1>3 DEF InsertUndoGraph, DropVertex, TypeInv, TypeOK
  <2>3. walk' \in [Workers -> Walk]
    BY <1>9, <1>3, <2>2, WalkedType DEF InsertUndoGraph
  <2> QED BY <1>9, <2>1, <2>2, <2>3 DEF InsertUndoGraph, TypeInv, TypeOK, WorkOK, Walk
<1>10. CASE InsertUndoIndex(w)
  <2>1. WorkOK'
    BY <1>1, <1>2, <1>10 DEF InsertUndoIndex, At, Stages
  <2>2. columns' \in [Workers -> SUBSET Columns]
    BY <1>10 DEF InsertUndoIndex, Emptied, TypeInv, TypeOK
  <2> QED BY <1>10, <1>3, <2>1, <2>2 DEF InsertUndoIndex, DropPostings, TypeInv, TypeOK, WorkOK
<1>11. CASE ChangeRemove(w)
  <2>1. WorkOK'
    BY <1>1, <1>11 DEF ChangeRemove, At, Stages
  <2>2. columns' \in [Workers -> SUBSET Columns]
    BY <1>11 DEF ChangeRemove, Emptied, TypeInv, TypeOK
  <2> QED BY <1>11, <1>3, <2>1, <2>2 DEF ChangeRemove, DropPostings, TypeInv, TypeOK, WorkOK
<1>15. CASE DropColumn(w)
  <2>1. WorkOK'
    BY <1>0, <1>1, <1>2, <1>15 DEF DropColumn, At, Stages, WorkOK
  <2>2. PICK c \in columns[w] :
          \E late \in SUBSET Adding(work[w].name) : LoseColumn(w, work[w].name, c, late)
    BY <1>15 DEF DropColumn
  <2>3. c \in Columns
    BY <2>2 DEF TypeInv, TypeOK
  <2>4. columns' \in [Workers -> SUBSET Columns]
    BY <2>2, <2>3 DEF LoseColumn, TypeInv, TypeOK
  <2>5. index' \in [Names -> SUBSET Posting] /\ lost' \subseteq Names
    BY <1>3, <2>2 DEF LoseColumn, TypeInv, TypeOK
  <2> QED BY <1>15, <2>1, <2>4, <2>5 DEF DropColumn, TypeInv, TypeOK, WorkOK
<1>12. CASE ChangeUnlink(w)
  <2>1. WorkOK'
    BY <1>1, <1>2, <1>12 DEF ChangeUnlink, At, Stages
  <2>2. graph' \in [Names -> SUBSET Doc]
    BY <1>3, <1>12 DEF ChangeUnlink, DropVertex, TypeInv, TypeOK
  <2>3. walk' \in [Workers -> Walk]
    <3>1. walk' = walk \/ WalkedOn(work[w].name)
      BY <1>12 DEF ChangeUnlink
    <3> QED BY <1>3, <2>2, <3>1, WalkedType DEF TypeInv, TypeOK, Walk
  <2> QED BY <1>12, <2>1, <2>2, <2>3 DEF ChangeUnlink, TypeInv, TypeOK, WorkOK, Walk
<1>13. CASE DeleteErase(w)
  <2>1. WorkOK'
    BY <1>2, <1>13 DEF DeleteErase
  <2>2. docs' \in [Names -> SUBSET Doc]
    BY <1>3, <1>13 DEF DeleteErase, DeleteDoc, TypeInv, TypeOK
  <2>3. spoiled' \subseteq Names \X Keys
    <3>1. work[w].op \in DocOps
      BY <1>13 DEF DeleteErase, At, DocOps
    <3>2. spoiled' \subseteq spoiled \cup {<<work[w].name, work[w].doc.key>>}
      BY <1>13 DEF DeleteErase
    <3> QED BY <1>3, <3>1, <3>2 DEF TypeInv, TypeOK
  <2> QED BY <1>13, <2>1, <2>2, <2>3 DEF DeleteErase, TypeInv, TypeOK, WorkOK
<1>14. CASE Panic(w)
  <2>1. WorkOK'
    BY <1>2, <1>14 DEF Panic
  <2>2. spoiled' \subseteq Names \X Keys
    <3>1. work[w].op \in DocOps
      BY <1>14 DEF Panic
    <3>2. spoiled' = spoiled \cup {<<work[w].name, work[w].doc.key>>}
      BY <1>14 DEF Panic
    <3> QED BY <1>3, <3>1, <3>2 DEF TypeInv, TypeOK
  <2>3. columns' \in [Workers -> SUBSET Columns]
    BY <1>14 DEF Panic, TypeInv, TypeOK
  <2> QED BY <1>14, <2>1, <2>2, <2>3 DEF Panic, TypeInv, TypeOK, WorkOK
<1> QED BY <1>4, <1>5, <1>6, <1>7, <1>8, <1>9, <1>10, <1>11, <1>12, <1>13, <1>14, <1>15
        DEF ChangeStep

\* A handler that takes up a call on a document is in its type, if the call is.
LEMMA ChangeType ==
  ASSUME WorkOK, NEW w \in Workers, NEW a \in Activity,
         a.op \in DocOps => a.doc \in Doc,
         work' = [work EXCEPT ![w] = a]
  PROVE  WorkOK'
BY DEF WorkOK

\* What starts with a call on a collection.
LEMMA AdminBeginType ==
  ASSUME TypeInv, NEW w \in Workers, NEW op \in AdminOps, NEW at \in Stages, NEW n \in Names,
         BeginAdmin(w, op, at, n)
  PROVE  /\ WorkOK'
         /\ exposed' \subseteq Names
         /\ count' \in [admin : 0 .. MaxAdmin, changes : 0 .. MaxChanges, starts : 1 .. MaxStarts]
<1>1. WorkOK /\ work' = [work EXCEPT ![w] = Call(op, at, n)]
  BY DEF BeginAdmin, TypeInv, TypeOK, WorkOK
<1>2. WorkOK'
  BY <1>1, AdminType
<1>3. exposed' \subseteq Names
  BY DEF BeginAdmin, TypeInv, TypeOK
<1>4. count' \in [admin : 0 .. MaxAdmin, changes : 0 .. MaxChanges, starts : 1 .. MaxStarts]
  <2>1. count \in [admin : 0 .. MaxAdmin, changes : 0 .. MaxChanges, starts : 1 .. MaxStarts]
    BY DEF TypeInv, TypeOK
  <2>2. count.admin + 1 \in 0 .. MaxAdmin
    BY <2>1, CollectionsAssumption DEF BeginAdmin
  <2> QED BY <2>1, <2>2 DEF BeginAdmin
<1> QED BY <1>2, <1>3, <1>4

\* What starts with a call on a document.
LEMMA ChangeBeginType ==
  ASSUME TypeInv, NEW w \in Workers, NEW n \in Names, NEW k \in Keys, BeginChange(w, n, k)
  PROVE  /\ exposed' \subseteq Names /\ spoiled' \subseteq Names \X Keys
         /\ count' \in [admin : 0 .. MaxAdmin, changes : 0 .. MaxChanges, starts : 1 .. MaxStarts]
<1>1. count \in [admin : 0 .. MaxAdmin, changes : 0 .. MaxChanges, starts : 1 .. MaxStarts]
  BY DEF TypeInv, TypeOK
<1>2. count.changes + 1 \in 0 .. MaxChanges
  BY <1>1, CollectionsAssumption DEF BeginChange
<1>3. count' = [count EXCEPT !.changes = count.changes + 1]
  BY DEF BeginChange
<1>4. exposed' \subseteq Names /\ spoiled' \subseteq Names \X Keys
  BY DEF BeginChange, TypeInv, TypeOK
<1> QED BY <1>1, <1>2, <1>3, <1>4

\* An Update or Delete that found its document.
LEMMA FoundType ==
  ASSUME TypeInv, NEW w \in Workers, NEW n \in Names, NEW op \in DocOps,
         NEW old \in Doc, NEW doc \in Doc,
         work' = [work EXCEPT ![w] =
           [Call(op, "remove", n) EXCEPT !.doc = doc, !.old = old, !.graph = born[n]]],
         promise' = [promise EXCEPT ![n].acked = Except(@, old.id), ![n].saving = Except(@, old.id),
                                    ![n].kept = Except(@, old.id),
                                    ![n].calls = IF AdminOn(n) THEN @ ELSE @ \cup {w}]
  PROVE  WorkOK' /\ promise' \in [Names -> Promise]
<1>1. WorkOK'
  <2>1. born[n] \in Nat
    BY DEF TypeInv, TypeOK
  <2>2. /\ [Call(op, "remove", n) EXCEPT !.doc = doc, !.old = old, !.graph = born[n]] \in Activity
        /\ [Call(op, "remove", n) EXCEPT !.doc = doc, !.old = old, !.graph = born[n]].doc = doc
    BY <2>1 DEF Call, Activity
  <2> QED BY <2>2, ChangeType DEF TypeInv, TypeOK, WorkOK
<1>2. promise' \in [Names -> Promise]
  <2> DEFINE calls == IF AdminOn(n) THEN promise[n].calls ELSE promise[n].calls \cup {w}
             p == [promise[n] EXCEPT !.acked = Except(promise[n].acked, old.id),
                                     !.saving = Except(promise[n].saving, old.id),
                                     !.kept = Except(promise[n].kept, old.id),
                                     !.calls = calls]
  <2>1. promise \in [Names -> Promise]
    BY DEF TypeInv, TypeOK, Promise
  <2>2. p \in Promise
    <3>1. calls \in SUBSET Workers
      BY <2>1 DEF Promise
    <3>2. promise[n] \in Promise
      BY <2>1
    <3> HIDE DEF calls
    <3> QED BY <3>1, <3>2 DEF Promise, Except
  <2>3. promise' = [promise EXCEPT ![n] = p]
    BY <2>1
  <2> HIDE DEF p
  <2> QED BY <2>1, <2>2, <2>3
<1> QED BY <1>1, <1>2

\* An Insert that starts keeps the types.
LEMMA InsertBeginType ==
  ASSUME TypeInv, NEW w \in Workers, NEW n \in Names, NEW k \in Keys, NEW t \in Tags,
         InsertBegin(w, n, k, t)
  PROVE  TypeInv'
<1>1. lastId' = lastId + 1 /\ lastId + 1 \in 1 .. MaxDocs
  BY CollectionsAssumption DEF InsertBegin, TypeInv, TypeOK
<1>2. Document(lastId + 1, k, t) \in Doc
  BY <1>1 DEF Document, Doc
<1>3. WorkOK'
  <2> DEFINE d == Document(lastId + 1, k, t)
             c == [Call("insert", "add", n) EXCEPT !.doc = d]
  <2>1. d \in Doc
    BY <1>2
  <2> HIDE DEF d
  <2>2. c \in Activity /\ c.doc \in Doc
    BY <2>1 DEF Call, Activity, DocOps, NoDoc
  <2>3. work' = [work EXCEPT ![w] = c]
    BY DEF InsertBegin, d
  <2> QED BY <2>2, <2>3, ChangeType DEF TypeInv, TypeOK, WorkOK
<1>4. promise' \in [Names -> Promise]
  <2> DEFINE calls == IF AdminOn(n) THEN promise[n].calls ELSE promise[n].calls \cup {w}
             p == [promise[n] EXCEPT !.calls = calls]
  <2>1. promise \in [Names -> Promise]
    BY DEF TypeInv, TypeOK, Promise
  <2>2. p \in Promise
    <3>1. calls \in SUBSET Workers /\ promise[n] \in Promise
      BY <2>1 DEF Promise
    <3> HIDE DEF calls
    <3> QED BY <3>1 DEF Promise
  <2>3. promise' = [promise EXCEPT ![n] = p]
    BY <2>1 DEF InsertBegin
  <2> HIDE DEF p
  <2> QED BY <2>1, <2>2, <2>3
<1>5. /\ exposed' \subseteq Names /\ spoiled' \subseteq Names \X Keys
      /\ count' \in [admin : 0 .. MaxAdmin, changes : 0 .. MaxChanges, starts : 1 .. MaxStarts]
  BY ChangeBeginType DEF InsertBegin
<1>6. lastId' \in 0 .. MaxDocs
  BY <1>1, CollectionsAssumption
<1> QED BY <1>3, <1>4, <1>5, <1>6
        DEF InsertBegin, log, files, flags, memory, between, TypeInv, TypeOK, WorkOK, Promise

\* A Delete that starts keeps the types.
LEMMA DeleteBeginType ==
  ASSUME TypeInv, NEW w \in Workers, NEW n \in Names, NEW k \in Keys, DeleteBegin(w, n, k)
  PROVE  TypeInv'
<1>1. WorkOK' /\ promise' \in [Names -> Promise]
  <2>1. PICK old \in graph[n] :
          /\ work' = [work EXCEPT ![w] =
               [Call("delete", "remove", n) EXCEPT !.doc = old, !.old = old, !.graph = born[n]]]
          /\ promise' = [promise EXCEPT ![n].acked = Except(@, old.id),
                                        ![n].saving = Except(@, old.id),
                                        ![n].kept = Except(@, old.id),
                                        ![n].calls = IF AdminOn(n) THEN @ ELSE @ \cup {w}]
    BY DEF DeleteBegin, FindBegin
  <2>2. old \in Doc
    BY <2>1 DEF TypeInv, TypeOK
  <2> QED BY <2>1, <2>2, FoundType DEF DocOps
<1>2. /\ exposed' \subseteq Names /\ spoiled' \subseteq Names \X Keys
      /\ count' \in [admin : 0 .. MaxAdmin, changes : 0 .. MaxChanges, starts : 1 .. MaxStarts]
  BY ChangeBeginType DEF DeleteBegin, FindBegin
<1> QED BY <1>1, <1>2
        DEF DeleteBegin, FindBegin, log, files, flags, memory, between, TypeInv, TypeOK, WorkOK, Promise

\* An Update that starts keeps the types.
LEMMA UpdateBeginType ==
  ASSUME TypeInv, NEW w \in Workers, NEW n \in Names, NEW k \in Keys, NEW t \in Tags,
         UpdateBegin(w, n, k, t)
  PROVE  TypeInv'
<1>1. CASE InsertBegin(w, n, k, t)
  BY <1>1, InsertBeginType
<1>2. CASE ~ InsertBegin(w, n, k, t)
  <2>1. PICK old \in graph[n] :
          /\ work' = [work EXCEPT ![w] =
               [Call("update", "remove", n) EXCEPT !.doc = Document(old.id, k, t),
                                                   !.old = old, !.graph = born[n]]]
          /\ promise' = [promise EXCEPT ![n].acked = Except(@, old.id),
                                        ![n].saving = Except(@, old.id),
                                        ![n].kept = Except(@, old.id),
                                        ![n].calls = IF AdminOn(n) THEN @ ELSE @ \cup {w}]
    BY <1>2 DEF UpdateBegin, FindBegin
  <2>2. old \in Doc
    BY <2>1 DEF TypeInv, TypeOK
  <2>3. Document(old.id, k, t) \in Doc
    BY <2>2 DEF Document, Doc
  <2>4. WorkOK' /\ promise' \in [Names -> Promise]
    BY <2>1, <2>2, <2>3, FoundType DEF DocOps
  <2>5. /\ exposed' \subseteq Names /\ spoiled' \subseteq Names \X Keys
        /\ count' \in [admin : 0 .. MaxAdmin, changes : 0 .. MaxChanges, starts : 1 .. MaxStarts]
    BY <1>2, ChangeBeginType DEF UpdateBegin, FindBegin
  <2> QED BY <1>2, <2>4, <2>5
          DEF UpdateBegin, FindBegin, log, files, flags, memory, between, TypeInv, TypeOK, WorkOK, Promise
<1> QED BY <1>1, <1>2

\* A call that starts keeps the types.
LEMMA BeginType ==
  ASSUME TypeInv, NEW w \in Workers, Begin(w)
  PROVE  TypeInv'
<1> USE DEF log, files, flags, memory, between
<1>0. \A n \in Names : promise[n] \in Promise
  BY DEF TypeInv, TypeOK, Promise
<1>1. ASSUME NEW n \in Names, CreateBegin(w, n) PROVE TypeInv'
  BY <1>1, AdminBeginType DEF CreateBegin, AdminOps, Stages, TypeInv, TypeOK, WorkOK
<1>2. ASSUME NEW n \in Names, DropBegin(w, n) PROVE TypeInv'
  <2>1. /\ WorkOK' /\ exposed' \subseteq Names
        /\ count' \in [admin : 0 .. MaxAdmin, changes : 0 .. MaxChanges, starts : 1 .. MaxStarts]
    BY <1>2, AdminBeginType DEF DropBegin, AdminOps, Stages
  <2>2. promise' \in [Names -> Promise]
    BY <1>2 DEF DropBegin, NoPromise, Promise, TypeInv, TypeOK
  <2> QED BY <1>2, <2>1, <2>2 DEF DropBegin, ForgetGraph, TypeInv, TypeOK, WorkOK, Promise
<1>3. ASSUME NEW n \in Names, LoadBegin(w, n) PROVE TypeInv'
  <2>1. /\ WorkOK' /\ exposed' \subseteq Names
        /\ count' \in [admin : 0 .. MaxAdmin, changes : 0 .. MaxChanges, starts : 1 .. MaxStarts]
    BY <1>3, AdminBeginType DEF LoadBegin, AdminOps, Stages
  <2>2. promise' \in [Names -> Promise]
    <3>1. [promise[n] EXCEPT !.calls = {}] \in Promise
      BY <1>0 DEF Promise
    <3>2. promise' = [promise EXCEPT ![n] = [promise[n] EXCEPT !.calls = {}]]
      BY <1>3 DEF LoadBegin
    <3> QED BY <3>1, <3>2 DEF TypeInv, TypeOK, Promise
  <2> QED BY <1>3, <2>1, <2>2 DEF LoadBegin, TypeInv, TypeOK, WorkOK, Promise
<1>4. ASSUME NEW n \in Names, ReleaseBegin(w, n) PROVE TypeInv'
  <2>1. /\ WorkOK' /\ exposed' \subseteq Names
        /\ count' \in [admin : 0 .. MaxAdmin, changes : 0 .. MaxChanges, starts : 1 .. MaxStarts]
    <3>1. CASE BeginAdmin(w, "release", "raw", n)
      BY <3>1, AdminBeginType DEF AdminOps, Stages
    <3>2. CASE /\ work' = [work EXCEPT ![w] = Call("release", "raw", n)]
               /\ UNCHANGED <<count, exposed>>
      BY <3>2, AdminType DEF AdminOps, Stages, TypeInv, TypeOK, WorkOK
    <3> QED BY <1>4, <3>1, <3>2 DEF ReleaseBegin
  <2>2. promise' \in [Names -> Promise]
    <3> DEFINE p == [promise[n] EXCEPT !.calls = {}, !.saving = promise[n].acked]
    <3>1. p \in Promise
      BY <1>0 DEF Promise
    <3>2. promise' = [promise EXCEPT ![n] = p]
      BY <1>4 DEF ReleaseBegin
    <3> HIDE DEF p
    <3> QED BY <3>1, <3>2 DEF TypeInv, TypeOK, Promise
  <2> QED BY <1>4, <2>1, <2>2 DEF ReleaseBegin, TypeInv, TypeOK, WorkOK, Promise
<1> QED BY <1>1, <1>2, <1>3, <1>4, InsertBeginType, UpdateBeginType, DeleteBeginType DEF Begin

\* So do the steps of the process.
LEMMA ProcessType ==
  ASSUME TypeInv, CloseBegin \/ CloseEnd \/ Crash \/ Start
  PROVE  TypeInv'
<1> USE DEF log, files, flags, memory, between, history
<1>1. CASE CloseBegin
  BY <1>1 DEF CloseBegin, TypeInv, TypeOK
<1>2. ASSUME NEW names \in SUBSET Names, Forget(names)
      PROVE  /\ process' \in {"up", "closing", "down"} /\ frozen' \in BOOLEAN
             /\ exists' \subseteq Names /\ loaded' \subseteq Names
             /\ graphs' \subseteq Names /\ graph' \in [Names -> SUBSET Doc]
             /\ born' \in [Names -> Nat]
             /\ indexes' \subseteq Names /\ index' \in [Names -> SUBSET Posting]
             /\ WorkOK' /\ exposed' \subseteq Names
             /\ columns' \in [Workers -> SUBSET Columns] /\ walk' \in [Workers -> Walk]
  <2>1. NoWalk \in Walk
    BY DEF NoWalk, Walk
  <2>2. walk' \in [Workers -> Walk] /\ columns' \in [Workers -> SUBSET Columns]
    BY <1>2, <2>1 DEF Forget
  <2>3. WorkOK'
    BY <1>2 DEF Forget, WorkOK, Idle, DocOps
  <2> QED BY <1>2, <2>2, <2>3 DEF Forget, TypeInv, TypeOK
<1>3. CASE CloseEnd
  BY <1>2, <1>3 DEF CloseEnd, TypeInv, TypeOK, WorkOK, Walk
<1>4. CASE Crash
  <2>1. raw' \in [Names -> {NoFile, Torn} \cup SUBSET Doc]
    BY <1>4 DEF Crash, TypeInv, TypeOK
  <2>2. bin' \in [Names -> {NoFile, Torn} \cup SUBSET Posting]
    BY <1>4 DEF Crash, TypeInv, TypeOK
  <2>3. promise' \in [Names -> Promise]
    <3>1. \A n \in Names : promise[n].kept \in SUBSET Doc
      BY DEF TypeInv, TypeOK
    <3>2. \A D \in SUBSET Doc : [NoPromise EXCEPT !.kept = D] \in Promise
      BY DEF NoPromise, Promise
    <3> QED BY <1>4, <3>1, <3>2 DEF Crash
  <2>4. Forget({n \in Names : n \in loaded \/ ~QuietOn(n)})
    BY <1>4 DEF Crash
  <2> QED BY <1>2, <1>4, <2>1, <2>2, <2>3, <2>4 DEF Crash, TypeInv, TypeOK, WorkOK, Promise, Walk
<1>5. CASE Start
  <2>1. count' \in [admin : 0 .. MaxAdmin, changes : 0 .. MaxChanges, starts : 1 .. MaxStarts]
    <3>1. count \in [admin : 0 .. MaxAdmin, changes : 0 .. MaxChanges, starts : 1 .. MaxStarts]
      BY DEF TypeInv, TypeOK
    <3>2. count.starts + 1 \in 1 .. MaxStarts
      BY <1>5, <3>1, CollectionsAssumption DEF Start
    <3> QED BY <1>5, <3>1, <3>2 DEF Start
  <2> QED BY <1>5, <2>1 DEF Start, TypeInv, TypeOK
<1> QED BY <1>1, <1>3, <1>4, <1>5

\* Every variable always has its type.
LEMMA TypesHold == Spec => []TypeInv
<1>1. TypeInv /\ [Next]_vars => TypeInv'
  <2> SUFFICES ASSUME TypeInv, [Next]_vars PROVE TypeInv'
    OBVIOUS
  <2>1. CASE Next
    BY <2>1, BeginType, AdminStepType, ChangeStepType, ProcessType DEF Next
  <2>2. CASE UNCHANGED vars
    BY <2>2 DEF vars, log, files, flags, memory, between, history, TypeInv, TypeOK
  <2> QED BY <2>1, <2>2
<1> QED BY <1>1, TypeInit, PTL DEF Spec

\* TypeOK holds for any collections, handlers and faults (core.go:144-713).
THEOREM CollectionsTypes == Spec => []TypeOK
<1>1. TypeInv => TypeOK
  BY DEF TypeInv
<1> QED BY <1>1, TypesHold, PTL

-----------------------------------------------------------------------------
(* What a loaded collection has *)

\* What Served asks of a collection, whatever the process is doing.
Sound(n) == /\ n \in exists => n \in listed
            /\ n \in loaded => n \in exists \cap config \cap graphs \cap indexes

\* How far a call on a collection has come.
Progress(call) ==
  LET n == call.name IN
  /\ call.op = "create" =>
       /\ n \notin exists /\ n \notin loaded
       /\ call.at = "index" => n \in config \cap graphs
       /\ call.at \in {"read", "list", "flag"} => n \in config \cap graphs \cap indexes
       /\ call.at = "flag" => n \in listed
  /\ call.op = "load" =>
       /\ n \in exists \cap listed /\ n \notin loaded
       /\ call.at \in {"graph", "index", "flag"} => n \in config
       /\ call.at \in {"index", "flag"} => n \in graphs
       /\ call.at = "flag" => n \in indexes
  /\ call.op = "release" => Sound(n)
  /\ call.op \in {"create", "drop"} /\ call.at = "list" => call.list = listed

\* At most one call on a collection is in progress, it has come as far as it
\* says, and every other collection is what Served asks; when the process is
\* down, no call is in progress and nothing is loaded.
ServedInv == /\ \A v, w \in Admins : v = w
             /\ \A w \in Admins : Progress(work[w])
             /\ \A n \in Names : ~ AdminOn(n) => Sound(n)
             /\ process = "down" => Admins = {} /\ loaded = {}

\* A call on a collection that goes on remains the only one.
LEMMA OneGoesOn ==
  ASSUME TypeInv, ServedInv, NEW w \in Workers, w \in Admins, NEW at, Go(w, at)
  PROVE  /\ Admins' = {w}
         /\ work'[w].op = work[w].op /\ work'[w].name = work[w].name
         /\ work'[w].list = work[w].list /\ work'[w].at = at
         /\ \A n : AdminOn(n)' <=> n = work[w].name
<1>1. work[w] \in Activity
  BY DEF TypeInv, TypeOK, Admins, AdminOps, Idle
<1>2. /\ work'[w].op = work[w].op /\ work'[w].name = work[w].name
      /\ work'[w].list = work[w].list /\ work'[w].at = at
  BY <1>1 DEF Go, Activity, TypeInv, TypeOK
<1>3. \A v \in Workers : v # w => work'[v] = work[v]
  BY DEF Go, TypeInv, TypeOK
<1>4. Admins' = {w}
  BY <1>2, <1>3 DEF Admins, ServedInv
<1> QED BY <1>2, <1>4 DEF AdminOn

\* A call on a collection that returns leaves none.
LEMMA OneReturns ==
  ASSUME TypeInv, ServedInv, NEW w \in Workers, w \in Admins, Return(w)
  PROVE  Admins' = {} /\ \A n : ~ AdminOn(n)'
<1>1. work'[w] = Idle /\ \A v \in Workers : v # w => work'[v] = work[v]
  BY DEF Return, TypeInv, TypeOK
<1>2. Idle.op \notin AdminOps
  BY DEF Idle, AdminOps
<1>3. Admins' = {}
  BY <1>1, <1>2 DEF Admins, ServedInv
<1> QED BY <1>3 DEF AdminOn

\* What the two lemmas leave to show of a step.
LEMMA GoesOnServed ==
  ASSUME TypeInv, ServedInv, NEW w \in Workers, w \in Admins, NEW at, Go(w, at),
         Progress(work[w])', UNCHANGED process,
         \A n \in Names : n # work[w].name => Sound(n)'
  PROVE  ServedInv'
BY OneGoesOn DEF ServedInv

LEMMA ReturnsServed ==
  ASSUME TypeInv, ServedInv, NEW w \in Workers, w \in Admins, Return(w),
         UNCHANGED process, \A n \in Names : Sound(n)'
  PROVE  ServedInv'
BY OneReturns DEF ServedInv

\* The steps of a call on a collection.
LEMMA AdminStepServed ==
  ASSUME TypeInv, ServedInv, NEW w \in Workers, AdminStep(w)
  PROVE  ServedInv'
<1> USE DEF log, files, flags, memory, between, history
<1>0. /\ w \in Admins /\ Progress(work[w])
      /\ work[w].name \in Names
      /\ \A n \in Names : n # work[w].name => Sound(n)
  <2>1. w \in Admins
    BY DEF AdminStep, CreateConfig, CreateIndex, CreateList, ClearConfig, ClearDocs, ReadList,
           DropList, DropFlag, LoadConfig, LoadGraph, LoadIndex, StateTrue, ReleaseRaw,
           ReleaseBin, ReleaseFails, ReleasePanics, ReleaseFlag, At, Admins, AdminOps
  <2>2. work[w] \in Activity
    BY <2>1 DEF TypeInv, TypeOK, Admins, AdminOps, Idle
  <2> QED BY <2>1, <2>2 DEF ServedInv, AdminOn, Activity
<1>p. process' = process
  BY DEF AdminStep, CreateConfig, CreateIndex, CreateList, ClearConfig, ClearDocs, ReadList,
         DropList, DropFlag, LoadConfig, LoadGraph, LoadIndex, StateTrue, ReleaseRaw,
         ReleaseBin, ReleaseFails, ReleasePanics, ReleaseFlag
<1>1. ASSUME NEW at, Go(w, at)
      PROVE  /\ work'[w].op = work[w].op /\ work'[w].name = work[w].name
             /\ work'[w].list = work[w].list /\ work'[w].at = at
  BY <1>0, <1>1, OneGoesOn
<1>2. ASSUME NEW at, Go(w, at), Progress(work[w])',
             \A n \in Names : n # work[w].name => Sound(n)'
      PROVE  ServedInv'
  BY <1>0, <1>2, <1>p, GoesOnServed
<1>3. ASSUME Return(w), \A n \in Names : Sound(n)'
      PROVE  ServedInv'
  BY <1>0, <1>3, <1>p, ReturnsServed
<1>4. CASE CreateConfig(w)
  <2>1. CASE /\ config' = config \cup {work[w].name}
             /\ NewGraph(work[w].name, {}) /\ Go(w, "index")
    <3>1. Go(w, "index")
      BY <2>1
    <3>2. /\ work'[w].op = work[w].op /\ work'[w].name = work[w].name
          /\ work'[w].at = "index"
      BY <1>1, <3>1
    <3>3. Progress(work[w])'
      BY <1>0, <1>4, <2>1, <3>2 DEF CreateConfig, At, NewGraph, Progress, Sound
    <3>4. \A n \in Names : n # work[w].name => Sound(n)'
      BY <1>0, <1>4, <2>1 DEF CreateConfig, At, NewGraph, Sound
    <3> QED BY <1>2, <3>1, <3>3, <3>4
  <2>2. CASE Return(w)
    BY <1>0, <1>3, <1>4, <2>2 DEF CreateConfig, At, NewGraph, Progress, Sound
  <2> QED BY <1>4, <2>1, <2>2 DEF CreateConfig
<1>5. CASE CreateIndex(w)
  <2>1. CASE Go(w, "clear")
    BY <1>0, <1>1, <1>2, <1>5, <2>1 DEF CreateIndex, At, ForgetGraph, Progress, Sound
  <2>2. CASE Go(w, "read")
    BY <1>0, <1>1, <1>2, <1>5, <2>2 DEF CreateIndex, At, ForgetGraph, Progress, Sound
  <2> QED BY <1>5, <2>1, <2>2 DEF CreateIndex
<1>6. CASE CreateList(w)
  <2>1. CASE Go(w, "flag")
    BY <1>0, <1>1, <1>2, <1>6, <2>1 DEF CreateList, At, ForgetGraph, Progress, Sound
  <2>2. CASE Go(w, "clear")
    BY <1>0, <1>1, <1>2, <1>6, <2>2 DEF CreateList, At, ForgetGraph, Progress, Sound
  <2> QED BY <1>6, <2>1, <2>2 DEF CreateList
<1>7. CASE ClearConfig(w)
  <2>1. Go(w, "clear docs")
    BY <1>7 DEF ClearConfig
  <2>2. /\ work'[w].op = work[w].op /\ work'[w].name = work[w].name
        /\ work'[w].at = "clear docs"
    BY <1>1, <2>1
  <2>3. Progress(work[w])'
    BY <1>0, <1>7, <2>2 DEF ClearConfig, At, Progress, Sound
  <2>4. \A n \in Names : n # work[w].name => Sound(n)'
    BY <1>0, <1>7 DEF ClearConfig, At, Sound
  <2> QED BY <1>2, <2>1, <2>3, <2>4
<1>8. CASE ClearDocs(w)
  <2>1. CASE Go(w, "stuck")
    <3>1. Go(w, "stuck")
      BY <2>1
    <3>2. /\ work'[w].op = work[w].op /\ work'[w].name = work[w].name
          /\ work'[w].at = "stuck"
      BY <1>1, <3>1
    <3>3. Progress(work[w])'
      BY <1>0, <1>8, <2>1, <3>2 DEF ClearDocs, At, Progress, Sound
    <3>4. \A n \in Names : n # work[w].name => Sound(n)'
      BY <1>0, <1>8, <2>1 DEF ClearDocs, At, Sound
    <3> QED BY <1>2, <3>1, <3>3, <3>4
  <2>2. CASE work[w].op = "create" /\ Return(w)
    BY <1>0, <1>3, <1>8, <2>2 DEF ClearDocs, At, Progress, Sound
  <2>3. CASE work[w].op # "create" /\ Go(w, "read")
    <3>1. Go(w, "read")
      BY <2>3
    <3>2. /\ work'[w].op = work[w].op /\ work'[w].name = work[w].name
          /\ work'[w].at = "read"
      BY <1>1, <3>1
    <3>3. Progress(work[w])'
      BY <1>0, <1>8, <2>3, <3>2 DEF ClearDocs, At, Progress, Sound
    <3>4. \A n \in Names : n # work[w].name => Sound(n)'
      BY <1>0, <1>8, <2>3 DEF ClearDocs, At, Sound
    <3> QED BY <1>2, <3>1, <3>3, <3>4
  <2> QED BY <1>8, <2>1, <2>2, <2>3 DEF ClearDocs
<1>9. CASE ReadList(w)
  <2>1. Admins' = {w} /\ \A n : AdminOn(n)' <=> n = work[w].name
    <3>1. work[w] \in Activity
      BY <1>0 DEF TypeInv, TypeOK, Admins, AdminOps, Idle
    <3>2. work'[w].op = work[w].op /\ work'[w].name = work[w].name
      BY <1>9, <3>1 DEF ReadList, Activity, TypeInv, TypeOK
    <3>3. \A v \in Workers : v # w => work'[v] = work[v]
      BY <1>9 DEF ReadList, TypeInv, TypeOK
    <3>4. Admins' = {w}
      BY <1>0, <3>2, <3>3 DEF Admins, ServedInv
    <3> QED BY <3>2, <3>4 DEF AdminOn
  <2>2. /\ work'[w].op = work[w].op /\ work'[w].name = work[w].name
        /\ work'[w].list = listed /\ work'[w].at = "list"
    <3>1. work[w] \in Activity
      BY <1>0 DEF TypeInv, TypeOK, Admins, AdminOps, Idle
    <3> QED BY <1>9, <3>1 DEF ReadList, Activity, TypeInv, TypeOK
  <2>3. Progress(work[w])'
    BY <1>0, <1>9, <2>2 DEF ReadList, At, Progress, Sound
  <2>4. \A n \in Names : n # work[w].name => Sound(n)'
    BY <1>0, <1>9 DEF ReadList, Sound
  <2> QED BY <1>0, <1>p, <2>1, <2>3, <2>4 DEF ServedInv
<1>10. CASE DropList(w)
  BY <1>0, <1>1, <1>2, <1>10 DEF DropList, At, Progress, Sound
<1>11. CASE DropFlag(w)
  BY <1>0, <1>3, <1>11 DEF DropFlag, At, Progress, Sound
<1>12. CASE LoadConfig(w)
  <2>1. CASE work[w].name \in config /\ Go(w, "graph")
    BY <1>0, <1>1, <1>2, <1>12, <2>1 DEF LoadConfig, At, Progress, Sound
  <2>2. CASE Return(w)
    BY <1>0, <1>3, <1>12, <2>2 DEF LoadConfig, At, Progress, Sound
  <2> QED BY <1>12, <2>1, <2>2 DEF LoadConfig
<1>13. CASE LoadGraph(w)
  <2>1. CASE Go(w, "index") /\ NewGraph(work[w].name, raw[work[w].name])
    BY <1>0, <1>1, <1>2, <1>13, <2>1 DEF LoadGraph, At, NewGraph, Progress, Sound
  <2>2. CASE Return(w) /\ UNCHANGED graphs
    BY <1>0, <1>3, <1>13, <2>2 DEF LoadGraph, At, Progress, Sound
  <2> QED BY <1>13, <2>1, <2>2 DEF LoadGraph
<1>14. CASE LoadIndex(w)
  <2>1. CASE MemFree(work[w].name) /\ Return(w)
    BY <1>0, <1>3, <1>14, <2>1 DEF LoadIndex, At, MemFree, ForgetGraph, Progress, Sound
  <2>2. CASE /\ indexes' = indexes \cup {work[w].name} /\ Go(w, "flag")
             /\ UNCHANGED <<graphs, graph, born, loaded>>
    BY <1>0, <1>1, <1>2, <1>14, <2>2 DEF LoadIndex, At, Progress, Sound
  <2> QED BY <1>14, <2>1, <2>2 DEF LoadIndex
<1>15. CASE StateTrue(w)
  BY <1>0, <1>3, <1>15 DEF StateTrue, At, Progress, Sound
<1>16. CASE ReleaseRaw(w)
  BY <1>0, <1>1, <1>2, <1>16 DEF ReleaseRaw, At, Progress, Sound
<1>17. CASE ReleaseBin(w)
  BY <1>0, <1>1, <1>2, <1>17 DEF ReleaseBin, At, Progress, Sound
<1>18. CASE ReleaseFails(w)
  BY <1>0, <1>3, <1>18 DEF ReleaseFails, MemFree, ForgetGraph, Progress, Sound
<1>19. CASE ReleaseFlag(w)
  BY <1>0, <1>3, <1>19 DEF ReleaseFlag, At, Progress, Sound
<1>20. CASE ReleasePanics(w)
  BY <1>0, <1>3, <1>20 DEF ReleasePanics, At, Progress, Sound
<1> QED BY <1>4, <1>5, <1>6, <1>7, <1>8, <1>9, <1>10, <1>11, <1>12, <1>13,
           <1>14, <1>15, <1>16, <1>17, <1>18, <1>19, <1>20 DEF AdminStep

\* Steps that leave alone which calls on collections there are, and what
\* Served is about.
LEMMA ElsewhereServed ==
  ASSUME ServedInv,
         Admins' = Admins, \A v \in Admins : work'[v] = work[v],
         UNCHANGED <<config, listed, exists, loaded, graphs, indexes>>,
         process' = "down" => process = "down"
  PROVE  ServedInv'
<1>1. \A n : AdminOn(n)' <=> AdminOn(n)
  BY DEF AdminOn
<1>2. \A n \in Names : Sound(n)' <=> Sound(n)
  BY DEF Sound
<1>3. \A v \in Admins : Progress(work[v])'
  <2> SUFFICES ASSUME NEW v \in Admins PROVE Progress(work[v])'
    OBVIOUS
  <2>1. work'[v] = work[v] /\ Progress(work[v])
    BY DEF ServedInv
  <2> QED BY <2>1 DEF Progress, Sound
<1> QED BY <1>1, <1>2, <1>3 DEF ServedInv

\* The steps of a call on a document.
LEMMA ChangeStepServed ==
  ASSUME TypeInv, ServedInv, NEW w \in Workers, ChangeStep(w)
  PROVE  ServedInv'
<1> USE DEF log, files, flags, memory, between, history, UnchangedByDocs
<1>1. work[w].op \in DocOps /\ UNCHANGED UnchangedByDocs
      /\ (Return(w) \/ \E at : Go(w, at))
  BY DEF ChangeStep, ChangeAdd, ChangeInsert, ChangePut, ChangePutFails, InsertUndoLog,
         InsertUndoGraph, InsertUndoIndex, ChangeRemove, DropColumn, ChangeUnlink, DeleteErase, Panic, At,
         DocOps
<1>2. w \notin Admins
  BY <1>1 DEF Admins, AdminOps, DocOps
<1>3. work[w] \in Activity
  BY <1>1 DEF TypeInv, TypeOK, Idle, DocOps
<1>4. \A v \in Workers : v # w => work'[v] = work[v]
  BY <1>1 DEF Return, Go, TypeInv, TypeOK
<1>5. work'[w].op = work[w].op \/ work'[w] = Idle
  <2>1. CASE Return(w)
    BY <2>1 DEF Return, TypeInv, TypeOK
  <2>2. ASSUME NEW at, Go(w, at) PROVE work'[w].op = work[w].op
    <3>1. work'[w] = [work[w] EXCEPT !.at = at]
      BY <2>2 DEF Go, TypeInv, TypeOK
    <3> QED BY <1>3, <3>1 DEF Activity
  <2> QED BY <1>1, <2>1, <2>2
<1>6. Admins' = Admins
  BY <1>1, <1>2, <1>4, <1>5 DEF Admins, AdminOps, DocOps, Idle
<1>7. \A v \in Admins : work'[v] = work[v]
  BY <1>2, <1>4 DEF Admins
<1> QED BY <1>1, <1>6, <1>7, ElsewhereServed

\* A call on a collection that starts when there is no other.
LEMMA AdminBeginServed ==
  ASSUME TypeInv, ServedInv, NEW w \in Workers, Admins = {},
         NEW op \in AdminOps, NEW at, NEW n \in Names,
         work' = [work EXCEPT ![w] = Call(op, at, n)],
         Progress(Call(op, at, n))',
         \A m \in Names : m # n => Sound(m)', process' # "down"
  PROVE  ServedInv'
<1>1. work'[w] = Call(op, at, n) /\ \A v \in Workers : v # w => work'[v] = work[v]
  BY DEF TypeInv, TypeOK
<1>2. Call(op, at, n).op = op /\ Call(op, at, n).name = n
  BY DEF Call
<1>3. Admins' = {w}
  BY <1>1, <1>2 DEF Admins
<1>4. Progress(work[w])'
  BY <1>1
<1>5. \A m : AdminOn(m)' <=> m = n
  BY <1>1, <1>2, <1>3 DEF AdminOn
<1> QED BY <1>3, <1>4, <1>5 DEF ServedInv

\* The start of a call.
LEMMA BeginServed ==
  ASSUME OneAdmin, TypeInv, ServedInv, NEW w \in Workers, Begin(w)
  PROVE  ServedInv'
<1> USE DEF log, files, flags, memory, between
<1>1. Admins = {} => \A n \in Names : Sound(n)
  BY DEF ServedInv, AdminOn
<1>2. \A op, at, n : /\ Call(op, at, n).op = op /\ Call(op, at, n).at = at
                     /\ Call(op, at, n).name = n
  BY DEF Call
<1>3. ASSUME NEW n \in Names, CreateBegin(w, n) PROVE ServedInv'
  <2>1. Admins = {} /\ work' = [work EXCEPT ![w] = Call("create", "config", n)]
    BY <1>3 DEF CreateBegin, BeginAdmin
  <2>2. Progress(Call("create", "config", n))'
    BY <1>1, <1>2, <1>3, <2>1 DEF CreateBegin, Progress, Sound
  <2>3. \A m \in Names : m # n => Sound(m)'
    BY <1>1, <1>3, <2>1 DEF CreateBegin, Sound
  <2>4. process' # "down"
    BY <1>3 DEF CreateBegin
  <2> QED BY <2>1, <2>2, <2>3, <2>4, AdminBeginServed DEF AdminOps
<1>4. ASSUME NEW n \in Names, DropBegin(w, n) PROVE ServedInv'
  <2>1. Admins = {} /\ work' = [work EXCEPT ![w] = Call("drop", "clear", n)]
    BY <1>4 DEF DropBegin, BeginAdmin
  <2>2. Progress(Call("drop", "clear", n))'
    BY <1>2 DEF Progress
  <2>3. \A m \in Names : m # n => Sound(m)'
    BY <1>1, <1>4, <2>1 DEF DropBegin, ForgetGraph, Sound
  <2>4. process' # "down"
    BY <1>4 DEF DropBegin
  <2> QED BY <2>1, <2>2, <2>3, <2>4, AdminBeginServed DEF AdminOps
<1>5. ASSUME NEW n \in Names, LoadBegin(w, n) PROVE ServedInv'
  <2>1. Admins = {} /\ work' = [work EXCEPT ![w] = Call("load", "config", n)]
    BY <1>5 DEF LoadBegin, BeginAdmin
  <2>2. Progress(Call("load", "config", n))'
    BY <1>1, <1>2, <1>5, <2>1 DEF LoadBegin, Progress, Sound
  <2>3. \A m \in Names : m # n => Sound(m)'
    BY <1>1, <1>5, <2>1 DEF LoadBegin, Sound
  <2>4. process' # "down"
    BY <1>5 DEF LoadBegin
  <2> QED BY <2>1, <2>2, <2>3, <2>4, AdminBeginServed DEF AdminOps
<1>6. ASSUME NEW n \in Names, ReleaseBegin(w, n) PROVE ServedInv'
  <2>1. Admins = {} /\ work' = [work EXCEPT ![w] = Call("release", "raw", n)]
    BY <1>6 DEF ReleaseBegin, BeginAdmin
  <2>2. Progress(Call("release", "raw", n))'
    BY <1>1, <1>2, <1>6, <2>1 DEF ReleaseBegin, Progress, Sound
  <2>3. \A m \in Names : m # n => Sound(m)'
    BY <1>1, <1>6, <2>1 DEF ReleaseBegin, Sound
  <2>4. process' # "down"
    BY <1>6 DEF ReleaseBegin
  <2> QED BY <2>1, <2>2, <2>3, <2>4, AdminBeginServed DEF AdminOps
<1>7. ASSUME NEW n \in Names, NEW call,
             call.op \in DocOps, work' = [work EXCEPT ![w] = call], ~ Busy(w),
             UNCHANGED <<log, files, flags, memory, process>>
      PROVE  ServedInv'
  <2>1. work'[w] = call /\ \A v \in Workers : v # w => work'[v] = work[v]
    BY <1>7 DEF TypeInv, TypeOK
  <2>2. w \notin Admins
    BY <1>7 DEF Admins, Busy, Idle, AdminOps
  <2>3. Admins' = Admins
    BY <1>7, <2>1, <2>2 DEF Admins, AdminOps, DocOps
  <2>4. \A v \in Admins : work'[v] = work[v]
    BY <2>1, <2>2 DEF Admins
  <2> QED BY <1>7, <2>3, <2>4, ElsewhereServed
<1>8. ASSUME NEW n \in Names, NEW k \in Keys, NEW t \in Tags, InsertBegin(w, n, k, t)
      PROVE  ServedInv'
  <2> DEFINE c == [Call("insert", "add", n) EXCEPT !.doc = Document(lastId + 1, k, t)]
  <2>1. c.op \in DocOps
    BY DEF Call, DocOps
  <2>2. work' = [work EXCEPT ![w] = c]
    BY <1>8 DEF InsertBegin
  <2> HIDE DEF c
  <2> QED BY <1>7, <1>8, <2>1, <2>2 DEF InsertBegin, BeginChange
<1>9. ASSUME NEW n \in Names, NEW k \in Keys, DeleteBegin(w, n, k) PROVE ServedInv'
  <2>1. PICK old : work' = [work EXCEPT ![w] =
               [Call("delete", "remove", n) EXCEPT !.doc = old, !.old = old, !.graph = born[n]]]
    BY <1>9 DEF DeleteBegin, FindBegin
  <2> DEFINE c == [Call("delete", "remove", n) EXCEPT !.doc = old, !.old = old, !.graph = born[n]]
  <2>2. c.op \in DocOps
    BY DEF Call, DocOps
  <2>3. work' = [work EXCEPT ![w] = c]
    BY <2>1
  <2> HIDE DEF c
  <2> QED BY <1>7, <1>9, <2>2, <2>3 DEF DeleteBegin, FindBegin, BeginChange
<1>10. ASSUME NEW n \in Names, NEW k \in Keys, NEW t \in Tags, UpdateBegin(w, n, k, t),
              ~ InsertBegin(w, n, k, t)
       PROVE  ServedInv'
  <2>1. PICK old : work' = [work EXCEPT ![w] =
               [Call("update", "remove", n) EXCEPT !.doc = Document(old.id, k, t),
                                                   !.old = old, !.graph = born[n]]]
    BY <1>10 DEF UpdateBegin, FindBegin
  <2> DEFINE c == [Call("update", "remove", n) EXCEPT !.doc = Document(old.id, k, t),
                                                      !.old = old, !.graph = born[n]]
  <2>2. c.op \in DocOps
    BY DEF Call, DocOps
  <2>3. work' = [work EXCEPT ![w] = c]
    BY <2>1
  <2> HIDE DEF c
  <2> QED BY <1>7, <1>10, <2>2, <2>3 DEF UpdateBegin, FindBegin, BeginChange
<1> QED BY <1>3, <1>4, <1>5, <1>6, <1>8, <1>9, <1>10 DEF Begin

\* The steps of the process.
LEMMA ProcessServed ==
  ASSUME TypeInv, ServedInv, CloseBegin \/ CloseEnd \/ Crash \/ Start
  PROVE  ServedInv'
<1> USE DEF log, files, flags, memory, between, history
<1>1. CASE CloseBegin
  BY <1>1, ElsewhereServed DEF CloseBegin, Admins
<1>2. ASSUME NEW names, Forget(names), UNCHANGED log PROVE ServedInv'
  <2>1. Admins' = {}
    BY <1>2 DEF Forget, Admins, Idle, AdminOps
  <2> QED BY <1>2, <2>1 DEF Forget, ServedInv, AdminOn, Sound
<1>3. CASE Start
  <2>1. Admins' = Admins /\ Admins = {} /\ loaded' = {} /\ process' = "up"
    BY <1>3 DEF Start, Admins, ServedInv
  <2>2. listed' = listed /\ exists' = listed
    BY <1>3 DEF Start
  <2> QED BY <2>1, <2>2 DEF ServedInv, AdminOn, Sound
<1> QED BY <1>1, <1>2, <1>3 DEF CloseEnd, Crash

\* As long as calls on collections wait for each other, this is an invariant.
LEMMA ServedHolds == OneAdmin /\ Spec => []ServedInv
<1> SUFFICES ASSUME OneAdmin PROVE Spec => []ServedInv
  OBVIOUS
<1>1. Init => ServedInv
  BY DEF Init, ServedInv, Admins, AdminOn, Sound, Idle, AdminOps
<1>2. TypeInv /\ ServedInv /\ [Next]_vars => ServedInv'
  <2> SUFFICES ASSUME TypeInv, ServedInv, [Next]_vars PROVE ServedInv'
    OBVIOUS
  <2>1. CASE Next
    BY <2>1, BeginServed, AdminStepServed, ChangeStepServed, ProcessServed DEF Next
  <2>2. CASE UNCHANGED vars
    BY <2>2, ElsewhereServed DEF vars, log, files, flags, memory, between, history, Admins
  <2> QED BY <2>1, <2>2
<1> QED BY <1>1, <1>2, TypesHold, PTL DEF Spec

\* When calls on collections wait for each other, a collection is loaded only
\* with a graph, an index and a configuration, and one that answers is in the
\* list that the next start reads, for any collections, handlers and faults
\* (core.go:144-396, core_helper.go:205-225).
THEOREM LoadedIsServed == OneAdmin /\ Spec => []Served
<1>1. ServedInv => Served
  BY DEF ServedInv, Served, Sound
<1> QED BY <1>1, ServedHolds, PTL

-----------------------------------------------------------------------------
(* Whose an id is *)

\* A document, and a posting, of an id that was given, under the "_id" f says.
DocOf(f, l, d) == d.id <= l /\ d.key = f[d.id]
PostingOf(f, l, p) == p.id <= l /\ (p.on = "_id" => p.val = f[p.id])

\* So are all that are in memory, in files and in calls, and a call that found a
\* document keeps its id.
MemoryOf(f, n) == /\ \A d \in graph[n] : DocOf(f, lastId, d)
                  /\ \A p \in index[n] : PostingOf(f, lastId, p)
FilesOf(f, n) == /\ Complete(raw[n]) => \A d \in raw[n] : DocOf(f, lastId, d)
                 /\ Complete(bin[n]) => \A p \in bin[n] : PostingOf(f, lastId, p)
Walked(w) == walk[w].stayed \cup walk[w].met
WalkOf(f, w) == \A d \in Walked(w) : DocOf(f, lastId, d)
CallOf(f, call) ==
  call.op \in DocOps =>
    /\ DocOf(f, lastId, call.doc)
    /\ call.op # "insert" => call.old.id = call.doc.id /\ call.old.key = call.doc.key

KeysAre(f) == /\ \A n \in Names : MemoryOf(f, n) /\ FilesOf(f, n)
              /\ \A w \in Workers : CallOf(f, work[w]) /\ WalkOf(f, w)
OneKey == \E f \in [1 .. lastId -> Keys] : KeysAre(f)

\* What a step of a call on a document leaves alone: other calls, other
\* collections, and what other ids have, unless a column goes.
Spares(n, i) ==
  /\ \A m \in Names : m # n => graph'[m] = graph[m] /\ index'[m] = index[m] /\ docs'[m] = docs[m]
  /\ \A d \in graph[n] : d.id # i => d \in graph'[n]
  /\ n \notin lost' => \A p \in index[n] : p.id # i => p \in index'[n]
  /\ \A d \in docs[n] : d.id # i => d \in docs'[n]

\* A call on a document has a document and goes on or returns.
LEMMA ChangeGoesOn ==
  ASSUME TypeInv, NEW w \in Workers, ChangeStep(w)
  PROVE  /\ work[w].op \in DocOps /\ work[w].name \in Names /\ work[w].doc \in Doc
         /\ UNCHANGED UnchangedByDocs /\ spoiled \subseteq spoiled'
         /\ \A v \in Workers : v # w => work'[v] = work[v]
         /\ \/ work'[w] = Idle
            \/ /\ work'[w].op = work[w].op /\ work'[w].name = work[w].name
               /\ work'[w].doc = work[w].doc /\ work'[w].old = work[w].old
               /\ work'[w].graph = work[w].graph
         /\ Admins' = Admins /\ w \notin Admins
         /\ lost \subseteq lost' /\ mixed' = mixed
         /\ walk' = walk \/ WalkedOn(work[w].name)
<1> USE DEF log, files, flags, memory, between, history, UnchangedByDocs
<1>1. work[w].op \in DocOps /\ UNCHANGED UnchangedByDocs
      /\ (Return(w) \/ \E at : Go(w, at))
  BY DEF ChangeStep, ChangeAdd, ChangeInsert, ChangePut, ChangePutFails, InsertUndoLog,
         InsertUndoGraph, InsertUndoIndex, ChangeRemove, DropColumn, ChangeUnlink, DeleteErase, Panic, At,
         DocOps
<1>2. w \notin Admins
  BY <1>1 DEF Admins, AdminOps, DocOps
<1>3. work[w] \in Activity /\ work[w].name \in Names /\ work[w].doc \in Doc
  <2>1. work[w] \in Activity /\ work[w].doc \in Doc
    BY <1>1 DEF TypeInv, TypeOK, Idle, DocOps
  <2> QED BY <2>1 DEF Activity
<1>4. \A v \in Workers : v # w => work'[v] = work[v]
  BY <1>1 DEF Return, Go, TypeInv, TypeOK
<1>5. \/ work'[w] = Idle
      \/ /\ work'[w].op = work[w].op /\ work'[w].name = work[w].name
         /\ work'[w].doc = work[w].doc /\ work'[w].old = work[w].old
         /\ work'[w].graph = work[w].graph
  <2>1. CASE Return(w)
    BY <2>1 DEF Return, TypeInv, TypeOK
  <2>2. ASSUME NEW at, Go(w, at)
        PROVE  /\ work'[w].op = work[w].op /\ work'[w].name = work[w].name
               /\ work'[w].doc = work[w].doc /\ work'[w].old = work[w].old
               /\ work'[w].graph = work[w].graph
    <3>1. work'[w] = [work[w] EXCEPT !.at = at]
      BY <2>2 DEF Go, TypeInv, TypeOK
    <3> QED BY <1>3, <3>1 DEF Activity
  <2> QED BY <1>1, <2>1, <2>2
<1>6. Admins' = Admins
  BY <1>1, <1>2, <1>4, <1>5 DEF Admins, AdminOps, DocOps, Idle
<1>7. spoiled \subseteq spoiled'
  BY DEF ChangeStep, ChangeAdd, ChangeInsert, ChangePut, ChangePutFails, InsertUndoLog,
         InsertUndoGraph, InsertUndoIndex, ChangeRemove, DropColumn, ChangeUnlink, DeleteErase, Panic
<1>8. lost \subseteq lost'
  <2>1. CASE DropColumn(w)
    BY <2>1 DEF DropColumn, LoseColumn
  <2>2. CASE ~ DropColumn(w)
    BY <2>2 DEF ChangeStep, ChangeAdd, ChangeInsert, ChangePut, ChangePutFails, InsertUndoLog,
           InsertUndoGraph, InsertUndoIndex, ChangeRemove, ChangeUnlink, DeleteErase, Panic
  <2> QED BY <2>1, <2>2
<1>9. mixed' = mixed /\ (walk' = walk \/ WalkedOn(work[w].name))
  BY DEF ChangeStep, ChangeAdd, ChangeInsert, ChangePut, ChangePutFails, InsertUndoLog,
         InsertUndoGraph, InsertUndoIndex, ChangeRemove, DropColumn, ChangeUnlink, DeleteErase, Panic
<1> QED BY <1>1, <1>2, <1>3, <1>4, <1>5, <1>6, <1>7, <1>8, <1>9

\* What it adds to memory is its document, which it takes away by its id.
LEMMA ChangeTouches ==
  ASSUME TypeInv, NEW w \in Workers, ChangeStep(w),
         work[w].op # "insert" => work[w].old.id = work[w].doc.id
  PROVE  LET n == work[w].name
             d == work[w].doc
         IN  /\ Spares(n, d.id)
             /\ graph'[n] \subseteq graph[n] \cup {d}
             /\ index'[n] \subseteq index[n] \cup PostingsOf(d)
<1> USE DEF log, files, flags, memory, between, history, UnchangedByDocs
<1> DEFINE n == work[w].name
           d == work[w].doc
<1>0. /\ work[w].op \in DocOps /\ n \in Names /\ d \in Doc
      /\ graph \in [Names -> SUBSET Doc] /\ index \in [Names -> SUBSET Posting]
      /\ docs \in [Names -> SUBSET Doc]
  BY ChangeGoesOn DEF TypeInv, TypeOK
<1>1. /\ \A p \in PostingsOf(d) : p.id = d.id
      /\ work[w].op # "insert" => \A p \in PostingsOf(work[w].old) : p.id = d.id
  BY DEF PostingsOf
<1> HIDE DEF n, d
<1>2. CASE ChangeAdd(w)
  <2>1. /\ UNCHANGED <<graph, docs>>
        /\ index' = [index EXCEPT ![n] = index[n] \cup {p \in PostingsOf(d) : p.on \notin columns[w]}]
    BY <1>2 DEF ChangeAdd, AddPostings, n, d
  <2>2. Spares(n, d.id) /\ graph'[n] = graph[n] /\ index'[n] \subseteq index[n] \cup PostingsOf(d)
    BY <1>0, <2>1 DEF Spares
  <2> QED BY <2>2 DEF n, d
<1>3. CASE ChangeInsert(w)
  <2>1. /\ UNCHANGED <<index, docs>>
        /\ graph' = graph \/ graph' = [graph EXCEPT ![n] = graph[n] \cup {d}]
    BY <1>3 DEF ChangeInsert, n, d
  <2>2. Spares(n, d.id) /\ graph'[n] \subseteq graph[n] \cup {d} /\ index'[n] = index[n]
    BY <1>0, <2>1 DEF Spares
  <2> QED BY <2>2 DEF n, d
<1>4. CASE ChangePut(w)
  <2>1. UNCHANGED <<graph, index>> /\ docs' = [docs EXCEPT ![n] = {e \in docs[n] : e.id # d.id} \cup {d}]
    BY <1>4 DEF ChangePut, PutDoc, n, d
  <2>2. Spares(n, d.id) /\ graph'[n] = graph[n] /\ index'[n] = index[n]
    BY <1>0, <2>1 DEF Spares
  <2> QED BY <2>2 DEF n, d
<1>5. ASSUME UNCHANGED <<graph, index, docs>>
      PROVE  Spares(n, d.id) /\ graph'[n] = graph[n] /\ index'[n] = index[n]
  BY <1>0, <1>5 DEF Spares
<1>6. ASSUME UNCHANGED <<graph, index>>, docs' = [docs EXCEPT ![n] = {e \in docs[n] : e.id # d.id}]
      PROVE  Spares(n, d.id) /\ graph'[n] = graph[n] /\ index'[n] = index[n]
  BY <1>0, <1>6 DEF Spares
<1>7. ASSUME UNCHANGED <<index, docs>>, graph' = [graph EXCEPT ![n] = {e \in graph[n] : e.id # d.id}]
      PROVE  Spares(n, d.id) /\ graph'[n] \subseteq graph[n] /\ index'[n] = index[n]
  BY <1>0, <1>7 DEF Spares
<1>8. ASSUME UNCHANGED <<graph, docs>>, NEW P, index' = [index EXCEPT ![n] = index[n] \ P],
             \A p \in P : p.id = d.id
      PROVE  Spares(n, d.id) /\ graph'[n] = graph[n] /\ index'[n] \subseteq index[n]
  BY <1>0, <1>8 DEF Spares
<1>9. CASE ChangePutFails(w) \/ Panic(w)
  BY <1>5, <1>9 DEF ChangePutFails, Panic, n, d
<1>10. CASE InsertUndoLog(w)
  BY <1>6, <1>10 DEF InsertUndoLog, DeleteDoc, n, d
<1>11. CASE InsertUndoGraph(w)
  BY <1>7, <1>11 DEF InsertUndoGraph, DropVertex, n, d
<1>12. CASE InsertUndoIndex(w)
  <2>1. UNCHANGED <<graph, docs>> /\ index' = [index EXCEPT ![n] = index[n] \ PostingsOf(d)]
    BY <1>12 DEF InsertUndoIndex, DropPostings, n, d
  <2> QED BY <1>1, <1>8, <2>1 DEF n, d
<1>13. CASE ChangeRemove(w)
  <2>1. /\ UNCHANGED <<graph, docs>> /\ index' = [index EXCEPT ![n] = index[n] \ PostingsOf(work[w].old)]
        /\ work[w].op # "insert"
    BY <1>13 DEF ChangeRemove, DropPostings, At, n
  <2> QED BY <1>1, <1>8, <2>1 DEF n, d
<1>14. CASE ChangeUnlink(w)
  <2>1. work[w].old.id = d.id /\ UNCHANGED <<index, docs>>
    BY <1>14 DEF ChangeUnlink, At, d
  <2>2. graph' = graph \/ graph' = [graph EXCEPT ![n] = {e \in graph[n] : e.id # d.id}]
    BY <1>14, <2>1 DEF ChangeUnlink, DropVertex, n
  <2> QED BY <1>5, <1>7, <2>1, <2>2 DEF n, d
<1>15. CASE DeleteErase(w)
  <2>1. UNCHANGED <<graph, index>>
        /\ (docs' = docs \/ docs' = [docs EXCEPT ![n] = {e \in docs[n] : e.id # d.id}])
    BY <1>15 DEF DeleteErase, DeleteDoc, n, d
  <2> QED BY <1>5, <1>6, <2>1 DEF n, d
<1>16. CASE DropColumn(w)
  <2>1. PICK c \in columns[w] : \E late \in SUBSET Adding(n) : LoseColumn(w, n, c, late)
    BY <1>16 DEF DropColumn, n
  <2>2. /\ UNCHANGED <<graph, docs>> /\ index' = [index EXCEPT ![n] = {p \in index[n] : p.on # c}]
        /\ n \notin lost' => index'[n] = index[n]
    BY <1>16, <2>1 DEF DropColumn, LoseColumn
  <2>3. Spares(n, d.id) /\ graph'[n] = graph[n] /\ index'[n] \subseteq index[n]
    BY <1>0, <2>2 DEF Spares
  <2> QED BY <2>3 DEF n, d
<1> QED BY <1>2, <1>3, <1>4, <1>9, <1>10, <1>11, <1>12, <1>13, <1>14, <1>15, <1>16 DEF ChangeStep

\* A step that moves documents between memory and files, or drops them.
Shifts ==
  /\ UNCHANGED lastId
  /\ \A n \in Names :
       /\ graph'[n] \in {graph[n], {}} \/ (Complete(raw[n]) /\ graph'[n] = raw[n])
       /\ index'[n] \in {index[n], {}} \/ (Complete(bin[n]) /\ index'[n] = bin[n])
       /\ raw'[n] \in {raw[n], Torn} \/ \E w \in Workers : raw'[n] \in SUBSET Walked(w)
       /\ bin'[n] \in {bin[n], index[n], NoFile, Torn}
  /\ \A w \in Workers : /\ work'[w] = work[w] \/ work'[w].op \notin DocOps
                        /\ \/ Walked(w)' \in {Walked(w), {}}
                           \/ \E n \in Names : Walked(w)' = graph[n]

\* It gives no id away.
LEMMA ShiftsKeys ==
  ASSUME NEW f, KeysAre(f), Shifts
  PROVE  KeysAre(f)'
<1>1. ASSUME NEW n \in Names PROVE MemoryOf(f, n)'
  <2>1. \A d \in graph'[n] : DocOf(f, lastId, d)
    BY DEF Shifts, KeysAre, MemoryOf, FilesOf
  <2>2. \A p \in index'[n] : PostingOf(f, lastId, p)
    BY DEF Shifts, KeysAre, MemoryOf, FilesOf
  <2> QED BY <2>1, <2>2 DEF Shifts, MemoryOf
<1>2. ASSUME NEW n \in Names PROVE FilesOf(f, n)'
  <2>1. Complete(raw'[n]) => \A d \in raw'[n] : DocOf(f, lastId, d)
    <3>1. CASE raw'[n] \in {raw[n], Torn}
      BY <3>1 DEF KeysAre, FilesOf, Complete
    <3>2. ASSUME NEW w \in Workers, raw'[n] \in SUBSET Walked(w) PROVE \A d \in raw'[n] : DocOf(f, lastId, d)
      <4>1. \A d \in Walked(w) : DocOf(f, lastId, d)
        BY DEF KeysAre, WalkOf
      <4> QED BY <3>2, <4>1
    <3> QED BY <3>1, <3>2 DEF Shifts
  <2>2. Complete(bin'[n]) => \A p \in bin'[n] : PostingOf(f, lastId, p)
    BY DEF Shifts, KeysAre, MemoryOf, FilesOf, Complete
  <2> QED BY <2>1, <2>2 DEF Shifts, FilesOf
<1>3. ASSUME NEW w \in Workers PROVE CallOf(f, work[w])'
  BY DEF Shifts, KeysAre, CallOf
<1>4. ASSUME NEW w \in Workers PROVE WalkOf(f, w)'
  <2>1. \A d \in Walked(w) : DocOf(f, lastId, d)
    BY DEF KeysAre, WalkOf
  <2>2. ASSUME NEW n \in Names PROVE \A d \in graph[n] : DocOf(f, lastId, d)
    BY DEF KeysAre, MemoryOf
  <2>3. \A d \in Walked(w)' : DocOf(f, lastId, d)
    BY <2>1, <2>2 DEF Shifts
  <2> QED BY <2>3 DEF Shifts, WalkOf
<1> QED BY <1>1, <1>2, <1>3, <1>4 DEF KeysAre

\* A handler that takes up something that is not a change.
LEMMA OtherwiseBusy ==
  ASSUME TypeInv, NEW w \in Workers, NEW call, work' = [work EXCEPT ![w] = call],
         call.op \notin DocOps
  PROVE  \A v \in Workers : work'[v] = work[v] \/ work'[v].op \notin DocOps
BY DEF TypeInv, TypeOK

\* The steps of a call on a collection are of this kind.
LEMMA AdminShifts ==
  ASSUME TypeInv, NEW w \in Workers, AdminStep(w)
  PROVE  Shifts
<1> USE DEF log, files, flags, memory, between, history
<1> DEFINE n == work[w].name
<1>1. work[w].op \in AdminOps /\ work[w] \in Activity
  <2>1. work[w].op \in AdminOps
    BY DEF AdminStep, CreateConfig, CreateIndex, CreateList, ClearConfig, ClearDocs, ReadList,
           DropList, DropFlag, LoadConfig, LoadGraph, LoadIndex, StateTrue, ReleaseRaw, ReleaseBin,
           ReleaseFails, ReleasePanics, ReleaseFlag, At, AdminOps
  <2> QED BY <2>1 DEF TypeInv, TypeOK, Idle, AdminOps
<1>2. n \in Names
  BY <1>1 DEF Activity
<1>3. UNCHANGED lastId
  BY DEF AdminStep, CreateConfig, CreateIndex, CreateList, ClearConfig, ClearDocs, ReadList,
         DropList, DropFlag, LoadConfig, LoadGraph, LoadIndex, StateTrue, ReleaseRaw, ReleaseBin,
         ReleaseFails, ReleasePanics, ReleaseFlag
<1>4. \A v \in Workers : work'[v] = work[v] \/ work'[v].op \notin DocOps
  <2>1. CASE Return(w)
    BY <2>1, OtherwiseBusy DEF Return, Idle, DocOps
  <2>2. ASSUME NEW at, Go(w, at) PROVE \A v \in Workers : work'[v] = work[v] \/ work'[v].op \notin DocOps
    <3>1. [work[w] EXCEPT !.at = at].op \notin DocOps
      BY <1>1 DEF Activity, AdminOps, DocOps
    <3>2. work' = [work EXCEPT ![w] = [work[w] EXCEPT !.at = at]]
      BY <2>2 DEF Go
    <3> QED BY <3>1, <3>2, OtherwiseBusy
  <2>3. CASE ReadList(w)
    <3>1. [work[w] EXCEPT !.at = "list", !.list = listed].op \notin DocOps
      BY <1>1 DEF Activity, AdminOps, DocOps
    <3>2. work' = [work EXCEPT ![w] = [work[w] EXCEPT !.at = "list", !.list = listed]]
      BY <2>3 DEF ReadList, TypeInv, TypeOK
    <3> QED BY <3>1, <3>2, OtherwiseBusy
  <2> QED BY <2>1, <2>2, <2>3
          DEF AdminStep, CreateConfig, CreateIndex, CreateList, ClearConfig, ClearDocs,
              DropList, DropFlag, LoadConfig, LoadGraph, LoadIndex, StateTrue, ReleaseRaw,
              ReleaseBin, ReleaseFails, ReleasePanics, ReleaseFlag
<1>5. \A m \in Names : graph'[m] \in {graph[m], {}} \/ (Complete(raw[m]) /\ graph'[m] = raw[m])
  <2>1. \/ graph' = graph \/ graph' = [graph EXCEPT ![n] = {}]
        \/ Complete(raw[n]) /\ graph' = [graph EXCEPT ![n] = raw[n]]
    BY DEF AdminStep, CreateConfig, CreateIndex, CreateList, ClearConfig, ClearDocs, ReadList,
           DropList, DropFlag, LoadConfig, LoadGraph, LoadIndex, StateTrue, ReleaseRaw, ReleaseBin,
           ReleaseFails, ReleasePanics, ReleaseFlag, NewGraph, ForgetGraph, MemFree
  <2> QED BY <1>2, <2>1 DEF TypeInv, TypeOK
<1>6. \A m \in Names : index'[m] \in {index[m], {}} \/ (Complete(bin[m]) /\ index'[m] = bin[m])
  <2>1. \/ index' = index \/ index' = [index EXCEPT ![n] = {}]
        \/ Complete(bin[n]) /\ index' = [index EXCEPT ![n] = bin[n]]
    <3>1. CASE LoadIndex(w)
      BY <3>1 DEF LoadIndex, MemFree, Complete
    <3>2. CASE ~ LoadIndex(w)
      BY <3>2 DEF AdminStep, CreateConfig, CreateIndex, CreateList, ClearConfig, ClearDocs, ReadList,
             DropList, DropFlag, LoadConfig, LoadGraph, StateTrue, ReleaseRaw, ReleaseBin,
             ReleaseFails, ReleasePanics, ReleaseFlag, MemFree
    <3> QED BY <3>1, <3>2
  <2> QED BY <1>2, <2>1 DEF TypeInv, TypeOK
<1>7. \A m \in Names : /\ raw'[m] \in {raw[m], Torn} \/ raw'[m] \in SUBSET Walked(w)
                       /\ bin'[m] \in {bin[m], index[m], NoFile, Torn}
  <2>1. \/ files' = files
        \/ /\ \E g \in {raw[n], Torn} \cup SUBSET Walked(w) : raw' = [raw EXCEPT ![n] = g]
           /\ UNCHANGED bin
        \/ /\ \E g \in {index[n], NoFile, Torn} : bin' = [bin EXCEPT ![n] = g]
           /\ UNCHANGED raw
    <3>1. CASE ReleaseFails(w)
      BY <3>1 DEF ReleaseFails
    <3>2. CASE ReleaseRaw(w)
      <4>1. PICK g \in Snapshot(w, n) : raw' = [raw EXCEPT ![n] = g]
        BY <3>2 DEF ReleaseRaw
      <4>2. g \in {Torn} \cup SUBSET Walked(w)
        BY <4>1 DEF Snapshot, Walked
      <4> QED BY <3>2, <4>1, <4>2 DEF ReleaseRaw
    <3>3. CASE ~ ReleaseFails(w) /\ ~ ReleaseRaw(w)
      BY <3>3 DEF AdminStep, CreateConfig, CreateIndex, CreateList, ClearConfig, ClearDocs, ReadList,
             DropList, DropFlag, LoadConfig, LoadGraph, LoadIndex, StateTrue, ReleaseBin, ReleasePanics,
             ReleaseFlag
    <3> QED BY <3>1, <3>2, <3>3
  <2> QED BY <1>2, <2>1 DEF TypeInv, TypeOK
<1>8. \A v \in Workers : Walked(v)' \in {Walked(v), {}}
  <2>1. walk' = walk \/ WalkEnds(w)
    BY DEF AdminStep, CreateConfig, CreateIndex, CreateList, ClearConfig, ClearDocs, ReadList,
           DropList, DropFlag, LoadConfig, LoadGraph, LoadIndex, StateTrue, ReleaseRaw, ReleaseBin,
           ReleaseFails, ReleasePanics, ReleaseFlag
  <2> QED BY <2>1 DEF WalkEnds, NoWalk, Walked, TypeInv, TypeOK
<1> QED BY <1>3, <1>4, <1>5, <1>6, <1>7, <1>8 DEF Shifts

\* So is the start of such a call, and what the process does.
LEMMA AdminBeginShifts ==
  ASSUME TypeInv, NEW w \in Workers, NEW n \in Names,
         CreateBegin(w, n) \/ DropBegin(w, n) \/ LoadBegin(w, n) \/ ReleaseBegin(w, n)
  PROVE  Shifts
<1> USE DEF log, files, flags, memory, between
<1>1. \E at : \E op \in AdminOps : work' = [work EXCEPT ![w] = Call(op, at, n)]
  BY DEF CreateBegin, DropBegin, LoadBegin, ReleaseBegin, BeginAdmin, AdminOps
<1>2. \A at : \A op \in AdminOps : Call(op, at, n).op \notin DocOps
  BY DEF Call, AdminOps, DocOps
<1>3. \A v \in Workers : work'[v] = work[v] \/ work'[v].op \notin DocOps
  BY <1>1, <1>2, OtherwiseBusy
<1>4. UNCHANGED <<raw, bin, index, lastId>> /\ (graph' = graph \/ graph' = [graph EXCEPT ![n] = {}])
  BY DEF CreateBegin, DropBegin, LoadBegin, ReleaseBegin, ForgetGraph
<1>5. \A v \in Workers : Walked(v)' \in {Walked(v), graph[n]}
  <2>1. walk' = walk \/ walk' = [walk EXCEPT ![w] = [stayed |-> graph[n], met |-> graph[n]]]
    BY DEF CreateBegin, DropBegin, LoadBegin, ReleaseBegin
  <2> QED BY <2>1 DEF Walked, TypeInv, TypeOK
<1> QED BY <1>3, <1>4, <1>5 DEF Shifts, TypeInv, TypeOK

LEMMA ProcessShifts ==
  ASSUME TypeInv, CloseBegin \/ CloseEnd \/ Crash \/ Start
  PROVE  Shifts
<1> USE DEF log, files, flags, memory, between, history
<1>1. ASSUME NEW names, Forget(names)
      PROVE  \A v \in Workers : work'[v].op \notin DocOps
  BY <1>1 DEF Forget, Idle, DocOps
<1>2. ASSUME NEW names, Forget(names), NEW n \in Names PROVE graph'[n] = {} /\ index'[n] = {}
  BY <1>2 DEF Forget
<1>7. ASSUME NEW names, Forget(names) PROVE \A v \in Workers : Walked(v)' = {}
  BY <1>7 DEF Forget, NoWalk, Walked
<1>3. CASE Crash
  <2>1. \A n \in Names : raw'[n] \in {raw[n], Torn} /\ bin'[n] \in {bin[n], NoFile, Torn}
    BY <1>3 DEF Crash
  <2>2. PICK names : Forget(names)
    BY <1>3 DEF Crash
  <2>3. UNCHANGED lastId
    BY <1>3 DEF Crash
  <2> QED BY <1>1, <1>2, <1>7, <2>1, <2>2, <2>3 DEF Shifts
<1>4. CASE CloseEnd
  BY <1>1, <1>2, <1>4, <1>7 DEF CloseEnd, Shifts
<1>5. CASE CloseBegin
  BY <1>5 DEF CloseBegin, Shifts, Walked
<1>6. CASE Start
  BY <1>6 DEF Start, Shifts, Walked
<1> QED BY <1>3, <1>4, <1>5, <1>6

\* A nonempty set of numbers has a least one.
LEMMA HasLeast ==
  ASSUME NEW P \in SUBSET Nat, P # {}
  PROVE  Least(P) \in P
<1>1. PICK x \in P : \A y \in P : ~ (<<y, x>> \in OpToRel(<, Nat))
  BY WFMin, NatLessThanWellFounded
<1>2. \A y \in P : ~ (y < x)
  BY <1>1 DEF OpToRel
<1>3. \A y \in P : x <= y
  BY <1>2
<1> QED BY <1>3 DEF Least

\* The vertex that GetVertex finds for an "_id" has that "_id".
LEMMA FoundKey ==
  ASSUME TypeInv, NEW f, KeysAre(f), NEW n \in Names, NEW k \in Keys, NEW old \in graph[n],
         Lookup(n, "_id", k) # {}, old.id = Least(Lookup(n, "_id", k))
  PROVE  old \in Doc /\ old.key = k /\ old.id <= lastId
<1>1. old \in Doc /\ index[n] \in SUBSET Posting
  BY DEF TypeInv, TypeOK
<1>2. Lookup(n, "_id", k) \in SUBSET Nat
  <2>1. ASSUME NEW p \in index[n] PROVE p.id \in Nat
    BY <1>1 DEF Posting
  <2> QED BY <2>1 DEF Lookup
<1>3. old.id \in Lookup(n, "_id", k)
  BY <1>2, HasLeast
<1>4. PICK p \in index[n] : p.on = "_id" /\ p.val = k /\ p.id = old.id
  BY <1>3 DEF Lookup
<1>5. DocOf(f, lastId, old) /\ PostingOf(f, lastId, p)
  BY <1>4 DEF KeysAre, MemoryOf
<1> QED BY <1>1, <1>4, <1>5 DEF DocOf, PostingOf

\* A handler takes up a change c of a document of n, which is a new one or one
\* of which nothing is promised any more.
Takes(w, n, c) ==
  /\ process = "up" /\ ~ Busy(w) /\ n \in exists \cap loaded \cap graphs
  /\ work' = [work EXCEPT ![w] = c]
  /\ c.op \in DocOps /\ c.name = n /\ c.at \in {"add", "remove"} /\ c.doc \in Doc
  /\ c.op # "insert" => /\ c.old.id = c.doc.id /\ c.old.key = c.doc.key
                        /\ c.old \in graph[n] /\ c.at = "remove" /\ c.graph = born[n]
  /\ UNCHANGED <<log, files, process, frozen, flags, memory, between, lost, mixed>>
  /\ exposed' = IF AdminOn(n) THEN exposed \cup {n} ELSE exposed
  /\ spoiled' = IF \E v \in Changes(n) : work[v].doc.key = c.doc.key
                THEN spoiled \cup {<<n, c.doc.key>>} ELSE spoiled
  /\ \A m \in Names : m # n => promise'[m] = promise[m]
  /\ promise'[n].calls = IF AdminOn(n) THEN promise[n].calls ELSE promise[n].calls \cup {w}
  /\ \/ /\ c.op = "insert" /\ c.at = "add"
        /\ lastId' = lastId + 1 /\ c.doc.id = lastId + 1
        /\ promise'[n].acked = promise[n].acked /\ promise'[n].saving = promise[n].saving
        /\ promise'[n].kept = promise[n].kept
     \/ /\ c.op # "insert"
        /\ lastId' = lastId /\ c.doc.id <= lastId
        /\ promise'[n].acked = Except(promise[n].acked, c.doc.id)
        /\ promise'[n].saving = Except(promise[n].saving, c.doc.id)
        /\ promise'[n].kept = Except(promise[n].kept, c.doc.id)

\* An Insert takes up a new one.
LEMMA InsertTakes ==
  ASSUME TypeInv, NEW w \in Workers, NEW n \in Names, NEW k \in Keys, NEW t \in Tags,
         InsertBegin(w, n, k, t)
  PROVE  \E c : Takes(w, n, c) /\ c.doc.key = k
<1> DEFINE c == [Call("insert", "add", n) EXCEPT !.doc = Document(lastId + 1, k, t)]
<1>1. /\ c.op = "insert" /\ c.name = n /\ c.at = "add" /\ c.doc = Document(lastId + 1, k, t)
      /\ c.op \in DocOps
  BY DEF Call, DocOps
<1>2. c.doc \in Doc /\ c.doc.key = k /\ c.doc.id = lastId + 1
  <2>1. lastId + 1 \in 1 .. MaxDocs
    BY CollectionsAssumption DEF InsertBegin, TypeInv, TypeOK
  <2> QED BY <1>1, <2>1 DEF Document, Doc
<1>3. work' = [work EXCEPT ![w] = c]
  BY DEF InsertBegin
<1>4. /\ promise'[n] = [promise[n] EXCEPT !.calls = IF AdminOn(n) THEN promise[n].calls
                                                       ELSE promise[n].calls \cup {w}]
      /\ \A m \in Names : m # n => promise'[m] = promise[m]
      /\ promise[n] \in Promise
  BY DEF InsertBegin, TypeInv, TypeOK, Promise
<1>5. /\ promise'[n].calls = IF AdminOn(n) THEN promise[n].calls ELSE promise[n].calls \cup {w}
      /\ promise'[n].acked = promise[n].acked /\ promise'[n].saving = promise[n].saving
      /\ promise'[n].kept = promise[n].kept
  BY <1>4 DEF Promise
<1> HIDE DEF c
<1>6. Takes(w, n, c)
  BY <1>1, <1>2, <1>3, <1>4, <1>5 DEF InsertBegin, BeginChange, Takes
<1> QED BY <1>2, <1>6

\* An Update or Delete takes up the one it found.
LEMMA FindTakes ==
  ASSUME TypeInv, NEW f, KeysAre(f), NEW w \in Workers, NEW n \in Names, NEW k \in Keys,
         NEW op \in {"update", "delete"}, NEW old \in graph[n], NEW doc \in Doc,
         doc.id = old.id, doc.key = k, BeginChange(w, n, k), n \in graphs,
         Lookup(n, "_id", k) # {}, old.id = Least(Lookup(n, "_id", k)),
         work' = [work EXCEPT ![w] =
           [Call(op, "remove", n) EXCEPT !.doc = doc, !.old = old, !.graph = born[n]]],
         promise' = [promise EXCEPT ![n].acked = Except(@, old.id), ![n].saving = Except(@, old.id),
                                    ![n].kept = Except(@, old.id),
                                    ![n].calls = IF AdminOn(n) THEN @ ELSE @ \cup {w}],
         UNCHANGED <<log, files, process, frozen, flags, memory, between, lastId, lost, mixed>>
  PROVE  \E c : Takes(w, n, c) /\ c.doc.key = k
<1> DEFINE c == [Call(op, "remove", n) EXCEPT !.doc = doc, !.old = old, !.graph = born[n]]
           p == promise[n]
           calls == IF AdminOn(n) THEN p.calls ELSE p.calls \cup {w}
           q == [p EXCEPT !.acked = Except(p.acked, old.id), !.saving = Except(p.saving, old.id),
                          !.kept = Except(p.kept, old.id), !.calls = calls]
<1>1. /\ c.op = op /\ c.name = n /\ c.at = "remove" /\ c.doc = doc /\ c.old = old /\ c.graph = born[n]
      /\ c.op \in DocOps /\ c.op # "insert"
  BY DEF Call, DocOps
<1>2. old \in Doc /\ old.key = k /\ old.id <= lastId
  BY FoundKey
<1>3. promise' = [promise EXCEPT ![n] = q]
  BY DEF TypeInv, TypeOK
<1>4. p \in Promise /\ promise \in [Names -> Promise]
  BY DEF TypeInv, TypeOK, Promise
<1> HIDE DEF p, calls
<1>5. /\ q.calls = calls /\ q.acked = Except(p.acked, old.id)
      /\ q.saving = Except(p.saving, old.id) /\ q.kept = Except(p.kept, old.id)
  BY <1>4 DEF Promise
<1> HIDE DEF c, q
<1>6. promise'[n] = q /\ \A m \in Names : m # n => promise'[m] = promise[m]
  BY <1>3, <1>4
<1>7. Takes(w, n, c)
  BY <1>1, <1>2, <1>5, <1>6 DEF c, p, calls, BeginChange, Takes
<1> QED BY <1>1, <1>7

\* Every start of a call is one of a call on a collection, or takes up a change.
LEMMA BeginTakes ==
  ASSUME TypeInv, NEW f, KeysAre(f), NEW w \in Workers, Begin(w)
  PROVE  \E n \in Names :
           \/ CreateBegin(w, n) \/ DropBegin(w, n) \/ LoadBegin(w, n) \/ ReleaseBegin(w, n)
           \/ \E c : Takes(w, n, c)
<1>1. ASSUME NEW n \in Names, NEW k \in Keys, DeleteBegin(w, n, k)
      PROVE  \E c : Takes(w, n, c)
  <2>1. PICK old \in graph[n] :
          /\ Lookup(n, "_id", k) # {} /\ old.id = Least(Lookup(n, "_id", k))
          /\ work' = [work EXCEPT ![w] =
               [Call("delete", "remove", n) EXCEPT !.doc = old, !.old = old, !.graph = born[n]]]
          /\ promise' = [promise EXCEPT ![n].acked = Except(@, old.id),
                                        ![n].saving = Except(@, old.id),
                                        ![n].kept = Except(@, old.id),
                                        ![n].calls = IF AdminOn(n) THEN @ ELSE @ \cup {w}]
    BY <1>1 DEF DeleteBegin, FindBegin
  <2>2. old \in Doc /\ old.key = k
    BY <2>1, FoundKey
  <2>3. /\ BeginChange(w, n, k) /\ n \in graphs
        /\ UNCHANGED <<log, files, process, frozen, flags, memory, between, lastId, lost, mixed>>
    BY <1>1 DEF DeleteBegin, FindBegin
  <2> QED BY <2>1, <2>2, <2>3, FindTakes
<1>2. ASSUME NEW n \in Names, NEW k \in Keys, NEW t \in Tags, UpdateBegin(w, n, k, t),
             ~ InsertBegin(w, n, k, t)
      PROVE  \E c : Takes(w, n, c)
  <2>1. PICK old \in graph[n] :
          /\ Lookup(n, "_id", k) # {} /\ old.id = Least(Lookup(n, "_id", k))
          /\ work' = [work EXCEPT ![w] =
               [Call("update", "remove", n) EXCEPT !.doc = Document(old.id, k, t),
                                                   !.old = old, !.graph = born[n]]]
          /\ promise' = [promise EXCEPT ![n].acked = Except(@, old.id),
                                        ![n].saving = Except(@, old.id),
                                        ![n].kept = Except(@, old.id),
                                        ![n].calls = IF AdminOn(n) THEN @ ELSE @ \cup {w}]
    BY <1>2 DEF UpdateBegin, FindBegin
  <2>2. old \in Doc
    BY <2>1, FoundKey
  <2>3. /\ Document(old.id, k, t) \in Doc /\ Document(old.id, k, t).id = old.id
        /\ Document(old.id, k, t).key = k
    BY <2>2 DEF Document, Doc
  <2>4. /\ BeginChange(w, n, k) /\ n \in graphs
        /\ UNCHANGED <<log, files, process, frozen, flags, memory, between, lastId, lost, mixed>>
    BY <1>2 DEF UpdateBegin, FindBegin
  <2> QED BY <2>1, <2>3, <2>4, FindTakes
<1> QED BY <1>1, <1>2, InsertTakes DEF Begin

\* A call on a document keeps ids with their "_id"s.
LEMMA ChangeKeys ==
  ASSUME TypeInv, NEW f, KeysAre(f), NEW w \in Workers, ChangeStep(w)
  PROVE  KeysAre(f)'
<1> DEFINE n == work[w].name
           d == work[w].doc
<1>1. /\ work[w].op \in DocOps /\ n \in Names /\ UNCHANGED <<raw, bin, lastId>>
      /\ \A v \in Workers : v # w => work'[v] = work[v]
      /\ \/ work'[w] = Idle
         \/ /\ work'[w].op = work[w].op /\ work'[w].name = work[w].name
            /\ work'[w].doc = work[w].doc /\ work'[w].old = work[w].old
  BY ChangeGoesOn DEF UnchangedByDocs, files
<1>2. DocOf(f, lastId, d) /\ (work[w].op # "insert" => work[w].old.id = d.id)
  BY <1>1 DEF KeysAre, CallOf
<1>3. /\ graph'[n] \subseteq graph[n] \cup {d} /\ index'[n] \subseteq index[n] \cup PostingsOf(d)
      /\ \A m \in Names : m # n => graph'[m] = graph[m] /\ index'[m] = index[m]
  BY <1>2, ChangeTouches DEF Spares
<1>4. \A p \in PostingsOf(d) : PostingOf(f, lastId, p)
  BY <1>2 DEF PostingsOf, PostingOf, DocOf
<1> HIDE DEF n, d
<1>5. ASSUME NEW m \in Names PROVE MemoryOf(f, m)'
  <2>1. MemoryOf(f, m)
    BY DEF KeysAre
  <2> QED BY <1>1, <1>2, <1>3, <1>4, <2>1 DEF MemoryOf
<1>6. ASSUME NEW m \in Names PROVE FilesOf(f, m)'
  BY <1>1 DEF KeysAre, FilesOf, Complete
<1>7. ASSUME NEW v \in Workers PROVE CallOf(f, work[v])'
  <2>1. CallOf(f, work[v])
    BY DEF KeysAre
  <2>2. CASE v # w
    BY <1>1, <2>1, <2>2 DEF CallOf
  <2>3. CASE v = w
    BY <1>1, <2>1, <2>3 DEF CallOf, Idle, DocOps
  <2> QED BY <2>2, <2>3
<1>8. ASSUME NEW v \in Workers PROVE WalkOf(f, v)'
  <2>1. \A e \in Walked(v) : DocOf(f, lastId, e)
    BY DEF KeysAre, WalkOf
  <2>2. \A e \in graph'[n] : DocOf(f, lastId, e)
    BY <1>1, <1>5 DEF MemoryOf
  <2>3. walk' = walk \/ WalkedOn(n)
    BY ChangeGoesOn DEF n
  <2>4. Walked(v)' \subseteq Walked(v) \cup graph'[n]
    BY <2>3 DEF Walked, WalkedOn
  <2> QED BY <1>1, <2>1, <2>2, <2>4 DEF WalkOf
<1> QED BY <1>5, <1>6, <1>7, <1>8 DEF KeysAre

\* A change that is taken up is of an id of its own, or of one that has its "_id".
LEMMA TakesKeys ==
  ASSUME TypeInv, NEW f \in [1 .. lastId -> Keys], KeysAre(f), NEW w \in Workers,
         NEW n \in Names, NEW c, Takes(w, n, c)
  PROVE  OneKey'
<1>0. PICK g : g = [i \in 1 .. lastId' |-> IF i = lastId + 1 THEN c.doc.key ELSE f[i]]
  OBVIOUS
<1>1. c.doc \in Doc /\ UNCHANGED <<graph, index, raw, bin>> /\ lastId \in Nat
  BY CollectionsAssumption DEF Takes, memory, files, TypeInv, TypeOK
<1>2. g \in [1 .. lastId' -> Keys]
  <2>1. c.doc.key \in Keys /\ lastId' \in {lastId, lastId + 1}
    BY <1>1 DEF Takes, Doc
  <2> QED BY <1>0, <1>1, <2>1
<1>3. lastId' \in {lastId, lastId + 1} /\ c.doc.id <= lastId'
      /\ (c.op = "insert" => c.doc.id = lastId + 1)
  BY <1>1 DEF Takes, Doc
<1>4. ASSUME NEW d \in Doc, DocOf(f, lastId, d) PROVE DocOf(g, lastId', d)
  <2>1. d.id \in 1 .. MaxDocs
    BY DEF Doc
  <2> QED BY <1>0, <1>1, <1>3, <1>4, <2>1 DEF DocOf, Doc
<1>5. ASSUME NEW p \in Posting, PostingOf(f, lastId, p) PROVE PostingOf(g, lastId', p)
  <2>1. p.id \in 1 .. MaxDocs
    BY DEF Posting
  <2> QED BY <1>0, <1>1, <1>3, <1>5, <2>1 DEF PostingOf, Doc
<1>6. c.op = "insert" => g[c.doc.id] = c.doc.key
  BY <1>0, <1>1, <1>3 DEF Doc
<1>7. c.op # "insert" => DocOf(f, lastId, c.doc) /\ c.old.id = c.doc.id /\ c.old.key = c.doc.key
  <2>1. c.op # "insert" => c.old \in graph[n] /\ c.old.id = c.doc.id /\ c.old.key = c.doc.key
    BY DEF Takes
  <2>2. c.op # "insert" => DocOf(f, lastId, c.old)
    BY <2>1 DEF KeysAre, MemoryOf
  <2> QED BY <2>1, <2>2 DEF DocOf
<1>8. CallOf(g, c)'
  <2>1. CASE c.op = "insert"
    BY <1>3, <1>6, <2>1 DEF CallOf, DocOf
  <2>2. CASE c.op # "insert"
    BY <1>1, <1>4, <1>7, <2>2 DEF CallOf
  <2> QED BY <2>1, <2>2
<1>9. ASSUME NEW m \in Names PROVE MemoryOf(g, m)'
  <2>1. MemoryOf(f, m) /\ graph[m] \in SUBSET Doc /\ index[m] \in SUBSET Posting
    BY DEF KeysAre, TypeInv, TypeOK
  <2> QED BY <1>1, <1>4, <1>5, <2>1 DEF MemoryOf
<1>10. ASSUME NEW m \in Names PROVE FilesOf(g, m)'
  <2>1. FilesOf(f, m) /\ (Complete(raw[m]) => raw[m] \in SUBSET Doc)
        /\ (Complete(bin[m]) => bin[m] \in SUBSET Posting)
    BY DEF KeysAre, TypeInv, TypeOK, Complete
  <2>2. UNCHANGED <<raw, bin>>
    BY <1>1
  <2> QED BY <1>4, <1>5, <2>1, <2>2 DEF FilesOf
<1>11. ASSUME NEW v \in Workers PROVE CallOf(g, work[v])'
  <2>1. CASE v = w
    BY <1>8, <2>1 DEF Takes, TypeInv, TypeOK
  <2>2. CASE v # w
    <3>1. work'[v] = work[v] /\ CallOf(f, work[v]) /\ (work[v].op \in DocOps => work[v].doc \in Doc)
      BY <2>2 DEF Takes, TypeInv, TypeOK, KeysAre
    <3> QED BY <1>4, <3>1 DEF CallOf
  <2> QED BY <2>1, <2>2
<1>13. ASSUME NEW v \in Workers PROVE WalkOf(g, v)'
  <2>1. WalkOf(f, v) /\ Walked(v) \in SUBSET Doc
    BY DEF KeysAre, Walked, TypeInv, TypeOK
  <2>2. Walked(v)' = Walked(v)
    BY DEF Takes, between, Walked
  <2> QED BY <1>4, <2>1, <2>2 DEF WalkOf
<1>12. KeysAre(g)'
  BY <1>9, <1>10, <1>11, <1>13 DEF KeysAre
<1> QED BY <1>2, <1>12 DEF OneKey

\* Every step keeps ids with their "_id"s.
LEMMA KeysStep ==
  ASSUME TypeInv, OneKey, [Next]_vars
  PROVE  OneKey'
<1>1. PICK f \in [1 .. lastId -> Keys] : KeysAre(f)
  BY DEF OneKey
<1>2. CASE Shifts
  <2>1. KeysAre(f)' /\ lastId' = lastId
    BY <1>1, <1>2, ShiftsKeys DEF Shifts
  <2> QED BY <2>1 DEF OneKey
<1>3. ASSUME NEW w \in Workers, Begin(w) PROVE OneKey'
  <2>1. PICK n \in Names :
           \/ CreateBegin(w, n) \/ DropBegin(w, n) \/ LoadBegin(w, n) \/ ReleaseBegin(w, n)
           \/ \E c : Takes(w, n, c)
    BY <1>1, <1>3, BeginTakes
  <2>2. CASE \E c : Takes(w, n, c)
    BY <1>1, <2>2, TakesKeys
  <2> QED BY <1>2, <2>1, <2>2, AdminBeginShifts
<1>4. ASSUME NEW w \in Workers, ChangeStep(w) PROVE OneKey'
  <2>1. KeysAre(f)' /\ lastId' = lastId
    BY <1>1, <1>4, ChangeKeys, ChangeGoesOn DEF UnchangedByDocs
  <2> QED BY <2>1 DEF OneKey
<1>5. CASE UNCHANGED vars
  <2>1. Shifts
    BY <1>5 DEF vars, log, files, memory, between, Shifts, Walked
  <2> QED BY <1>2, <2>1
<1> QED BY <1>2, <1>3, <1>4, <1>5, AdminShifts, ProcessShifts DEF Next

\* At first there are no ids.
LEMMA KeysInit == Init => OneKey
<1> SUFFICES ASSUME Init PROVE OneKey
  OBVIOUS
<1> DEFINE f == [i \in 1 .. lastId |-> CHOOSE k \in Keys : TRUE]
<1>1. f \in [1 .. lastId -> Keys]
  BY DEF Init
<1>2. KeysAre(f)
  <2>1. \A n \in Names : MemoryOf(f, n)
    BY DEF Init, MemoryOf
  <2>2. \A n \in Names : FilesOf(f, n)
    BY DEF Init, FilesOf, Complete
  <2>3. \A w \in Workers : CallOf(f, work[w]) /\ WalkOf(f, w)
    BY DEF Init, CallOf, Idle, DocOps, NoWalk, Walked, WalkOf
  <2> QED BY <2>1, <2>2, <2>3 DEF KeysAre
<1> HIDE DEF f
<1> QED BY <1>1, <1>2 DEF OneKey

-----------------------------------------------------------------------------
(* Changes of the same document *)

\* Two changes of the same "_id" at a time are on record.
RivalsSpoil ==
  \A n \in Names : \A v, w \in Changes(n) :
    v # w /\ work[v].doc.key = work[w].doc.key => <<n, work[v].doc.key>> \in spoiled

\* No change is taken up, and those that are in progress keep their documents.
NoneTaken ==
  \A v \in Workers : work'[v].op \in DocOps =>
    work'[v].op = work[v].op /\ work'[v].name = work[v].name /\ work'[v].doc = work[v].doc

\* Then no change starts on any collection.
LEMMA NoneTakenIs ==
  ASSUME NoneTaken, NEW n
  PROVE  Changes(n)' \subseteq Changes(n) /\ \A v \in Changes(n)' : work'[v].doc = work[v].doc
BY DEF NoneTaken, Changes

\* A change that is taken up is the only new one.
LEMMA TakesIs ==
  ASSUME TypeInv, NEW w \in Workers, NEW n \in Names, NEW c, Takes(w, n, c)
  PROVE  /\ work'[w] = c /\ \A v \in Workers : v # w => work'[v] = work[v]
         /\ Changes(n)' = Changes(n) \cup {w} /\ w \notin Changes(n)
         /\ \A m : m # n => Changes(m)' = Changes(m) /\ w \notin Changes(m)
         /\ Admins' = Admins /\ w \notin Admins
<1>1. work'[w] = c /\ \A v \in Workers : v # w => work'[v] = work[v]
  BY DEF Takes, TypeInv, TypeOK
<1>2. work[w].op \notin DocOps /\ w \notin Admins
  BY DEF Takes, Busy, Idle, DocOps, Admins, AdminOps
<1>3. c.op \in DocOps /\ c.op \notin AdminOps /\ c.name = n
  BY DEF Takes, DocOps, AdminOps
<1> QED BY <1>1, <1>2, <1>3 DEF Changes, Admins

\* Every step keeps rivals on record.
LEMMA RivalsStep ==
  ASSUME TypeInv, OneKey, RivalsSpoil, [Next]_vars
  PROVE  RivalsSpoil'
<1> USE DEF log, files, flags, memory, between, history
<1>0. PICK f \in [1 .. lastId -> Keys] : KeysAre(f)
  BY DEF OneKey
<1>1. ASSUME NoneTaken, spoiled \subseteq spoiled' PROVE RivalsSpoil'
  BY <1>1, NoneTakenIs DEF RivalsSpoil
<1>2. ASSUME Shifts PROVE NoneTaken
  BY <1>2 DEF Shifts, NoneTaken
<1>3. ASSUME NEW w \in Workers, ChangeStep(w) PROVE RivalsSpoil'
  <2>1. NoneTaken
    BY <1>3, ChangeGoesOn DEF NoneTaken, Idle, DocOps
  <2> QED BY <1>1, <1>3, <2>1, ChangeGoesOn
<1>4. ASSUME NEW w \in Workers, AdminStep(w) PROVE RivalsSpoil'
  <2>1. UNCHANGED spoiled
    BY <1>4 DEF AdminStep, CreateConfig, CreateIndex, CreateList, ClearConfig, ClearDocs, ReadList,
         DropList, DropFlag, LoadConfig, LoadGraph, LoadIndex, StateTrue, ReleaseRaw, ReleaseBin,
         ReleaseFails, ReleasePanics, ReleaseFlag
  <2> QED BY <1>1, <1>2, <1>4, <2>1, AdminShifts
<1>5. ASSUME NEW w \in Workers, NEW n \in Names,
             CreateBegin(w, n) \/ DropBegin(w, n) \/ LoadBegin(w, n) \/ ReleaseBegin(w, n)
      PROVE  RivalsSpoil'
  <2>1. UNCHANGED spoiled
    BY <1>5 DEF CreateBegin, DropBegin, LoadBegin, ReleaseBegin
  <2> QED BY <1>1, <1>2, <1>5, <2>1, AdminBeginShifts
<1>6. ASSUME NEW w \in Workers, NEW n \in Names, NEW c, Takes(w, n, c) PROVE RivalsSpoil'
  <2>1. spoiled \subseteq spoiled'
        /\ \A v \in Changes(n) : work[v].doc.key = c.doc.key => <<n, c.doc.key>> \in spoiled'
    BY <1>6 DEF Takes
  <2>2. \A m \in Names, v \in Workers : v # w => (v \in Changes(m)' <=> v \in Changes(m)) /\ work'[v] = work[v]
    BY <1>6, TakesIs
  <2>3. \A m \in Names : w \in Changes(m)' => m = n
    BY <1>6, TakesIs
  <2>4. work'[w] = c
    BY <1>6, TakesIs
  <2> SUFFICES ASSUME NEW m \in Names, NEW u \in Changes(m)', NEW v \in Changes(m)',
                      u # v, work'[u].doc.key = work'[v].doc.key
               PROVE  <<m, work'[u].doc.key>> \in spoiled'
    BY DEF RivalsSpoil
  <2>5. u \in Workers /\ v \in Workers
    BY DEF Changes
  <2>6. CASE u # w /\ v # w
    BY <2>1, <2>2, <2>5, <2>6 DEF RivalsSpoil
  <2>7. CASE u = w
    BY <2>1, <2>2, <2>3, <2>4, <2>5, <2>7
  <2>8. CASE v = w
    BY <2>1, <2>2, <2>3, <2>4, <2>5, <2>8
  <2> QED BY <2>6, <2>7, <2>8
<1>7. ASSUME NEW w \in Workers, Begin(w) PROVE RivalsSpoil'
  BY <1>0, <1>5, <1>6, <1>7, BeginTakes
<1>8. ASSUME CloseBegin \/ CloseEnd \/ Crash \/ Start PROVE RivalsSpoil'
  <2>1. UNCHANGED spoiled
    BY <1>8 DEF CloseBegin, CloseEnd, Crash, Start
  <2> QED BY <1>1, <1>2, <1>8, <2>1, ProcessShifts
<1>9. CASE UNCHANGED vars
  BY <1>1, <1>9 DEF vars, NoneTaken
<1> QED BY <1>3, <1>4, <1>7, <1>8, <1>9 DEF Next

\* A change whose "_id" has no rival is the only one of its document.
LEMMA Alone ==
  ASSUME OneKey, RivalsSpoil, NEW n \in Names, NEW w \in Changes(n),
         <<n, work[w].doc.key>> \notin spoiled, NEW v \in Changes(n), v # w
  PROVE  work[v].doc.id # work[w].doc.id
<1>1. PICK f : KeysAre(f)
  BY DEF OneKey
<1>2. CallOf(f, work[v]) /\ CallOf(f, work[w]) /\ work[v].op \in DocOps /\ work[w].op \in DocOps
  BY <1>1 DEF KeysAre, Changes
<1>3. work[v].doc.id = work[w].doc.id => work[v].doc.key = work[w].doc.key
  BY <1>2 DEF CallOf, DocOf
<1> QED BY <1>3 DEF RivalsSpoil

-----------------------------------------------------------------------------
(* What is promised of documents *)

Promised(n) == promise[n].acked \cup promise[n].saving \cup promise[n].kept

\* What is promised is in the log, and nobody is at it.
Untouched(n) ==
  \A d \in Promised(n) : /\ d.id <= lastId /\ d \in docs[n]
                         /\ \A v \in Changes(n) : work[v].doc.id # d.id

\* While the collection is loaded, it is in memory; what a release has saved is
\* in the files, and then the next start knows the collection.
InMemory(n, d) == d \in graph[n] /\ (n \notin lost => PostingsOf(d) \subseteq index[n])
InRaw(n, d) == Complete(raw[n]) /\ d \in raw[n]
InBin(n, d) == n \notin lost => Complete(bin[n]) /\ PostingsOf(d) \subseteq bin[n]

Remembered(n) == n \in loaded => /\ promise[n].kept \subseteq promise[n].acked
                                 /\ \A d \in promise[n].acked : InMemory(n, d)
Filed(n) == \A d \in promise[n].kept : InRaw(n, d) /\ InBin(n, d)
Known(n) == promise[n].kept # {} => n \in listed /\ (process # "down" => n \in exists)

\* A call that will be acknowledged began on a loaded collection, and no call on
\* that has begun since.
CallsCount(n) == promise[n].calls # {} => n \in loaded /\ ~ AdminOn(n)

\* How far a call on the collection has brought it.
Saved(w) ==
  LET call == work[w]
      n == call.name
      p == promise[n] IN
  /\ call.op = "release" =>
       /\ n \in loaded /\ p.saving \subseteq p.acked
       /\ call.at = "raw" => p.saving \cup p.kept \subseteq walk[w].stayed
       /\ call.at \in {"bin", "flag"} => \A d \in p.saving : InRaw(n, d)
       /\ call.at = "flag" => \A d \in p.saving : InBin(n, d)
  /\ call.op = "load" =>
       /\ call.at \in {"index", "flag"} => \A d \in p.kept : d \in graph[n]
       /\ call.at = "flag" /\ n \notin lost => \A d \in p.kept : PostingsOf(d) \subseteq index[n]
  /\ call.op = "drop" => p.kept = {} /\ p.acked = {}

\* How far a call on a document has brought it, that will be acknowledged; the
\* graph that it holds is the collection's.
Made(w) ==
  LET n == work[w].name IN
  work[w].op \in DocOps /\ w \in promise[n].calls /\ <<n, work[w].doc.key>> \notin spoiled =>
    /\ work[w].op # "insert" => Holds(w)
    /\ work[w].at \in {"insert", "put"} /\ n \notin lost => PostingsOf(work[w].doc) \subseteq index[n]
    /\ work[w].at = "put" => work[w].doc \in graph[n]

Kept(n) == Untouched(n) /\ Remembered(n) /\ Filed(n) /\ Known(n) /\ CallsCount(n)

Promises == /\ \A n \in Names : Kept(n)
            /\ \A w \in Admins : Saved(w)
            /\ \A w \in Workers : Made(w)

\* The inductive invariant.
PromiseInv == OneKey /\ RivalsSpoil /\ Promises

\* What a step of a call on a document leaves of a promise.
LEMMA SparesPromised ==
  ASSUME NEW n \in Names, NEW i, Spares(n, i), NEW m \in Names, NEW d, m = n => d.id # i
  PROVE  /\ d \in graph[m] => d \in graph'[m]
         /\ m \notin lost' /\ PostingsOf(d) \subseteq index[m] => PostingsOf(d) \subseteq index'[m]
         /\ d \in docs[m] => d \in docs'[m]
<1>1. \A p \in PostingsOf(d) : p.id = d.id
  BY DEF PostingsOf
<1> QED BY <1>1 DEF Spares

\* A call is on a collection.
LEMMA OnName ==
  ASSUME TypeInv, NEW w \in Workers, work[w].op \in AdminOps \cup DocOps
  PROVE  work[w] \in Activity /\ work[w].name \in Names
<1>1. work[w] \in Activity
  BY DEF TypeInv, TypeOK, Idle, DocOps, AdminOps
<1> QED BY <1>1 DEF Activity

\* A step of a call on a document keeps the promises, if it makes only those
\* that hold, and if it brings its document as far as it says.
LEMMA ChangeKeeps ==
  ASSUME TypeInv, PromiseInv, NEW w \in Workers, ChangeStep(w), Made(w)',
         \A m \in Names :
           /\ promise'[m].saving = promise[m].saving /\ promise'[m].kept = promise[m].kept
           /\ promise'[m].calls \subseteq promise[m].calls
           /\ promise[m].acked \subseteq promise'[m].acked
           /\ \A d \in promise'[m].acked \ promise[m].acked :
                /\ d.id <= lastId /\ d \in docs'[m] /\ InMemory(m, d)'
                /\ \A v \in Changes(m)' : work'[v].doc.id # d.id,
         \A m \in Names : AdminOn(m) => promise'[m].acked = promise[m].acked
  PROVE  Promises'
<1> DEFINE n == work[w].name
           i == work[w].doc.id
<1>1. /\ work[w].op \in DocOps /\ n \in Names /\ w \in Changes(n)
      /\ \A v \in Workers : v # w => work'[v] = work[v]
      /\ \/ work'[w] = Idle
         \/ /\ work'[w].op = work[w].op /\ work'[w].name = work[w].name
            /\ work'[w].doc = work[w].doc /\ work'[w].graph = work[w].graph
      /\ Admins' = Admins /\ w \notin Admins /\ spoiled \subseteq spoiled'
      /\ lost \subseteq lost' /\ (walk' = walk \/ WalkedOn(n))
      /\ UNCHANGED <<raw, bin, lastId, loaded, exists, listed, process, graphs, born>>
  BY ChangeGoesOn DEF Changes, UnchangedByDocs, files, flags
<1>2. NoneTaken
  BY <1>1 DEF NoneTaken, Idle, DocOps
<1>3. \A m \in Names : Changes(m)' \subseteq Changes(m) /\ \A v \in Changes(m)' : work'[v].doc = work[v].doc
  BY <1>2, NoneTakenIs
<1>4. \A v \in Admins : work'[v] = work[v]
  BY <1>1 DEF Admins
<1>5. \A m : AdminOn(m)' <=> AdminOn(m)
  BY <1>1, <1>4 DEF AdminOn
<1>6. Spares(n, i)
  <2>1. PICK f : KeysAre(f)
    BY DEF PromiseInv, OneKey
  <2>2. CallOf(f, work[w])
    BY <2>1 DEF KeysAre
  <2> QED BY <1>1, <2>2, ChangeTouches DEF CallOf
<1>7. \A m \in Names : \A d : d \in Promised(m) /\ m = n => d.id # i
  BY <1>1 DEF PromiseInv, Promises, Kept, Untouched
<1> HIDE DEF n, i
<1>8. ASSUME NEW m \in Names, NEW d \in Promised(m)
      PROVE  /\ d \in graph[m] => d \in graph'[m]
             /\ m \notin lost' /\ PostingsOf(d) \subseteq index[m] => PostingsOf(d) \subseteq index'[m]
             /\ d \in docs[m] => d \in docs'[m]
  BY <1>1, <1>6, <1>7, SparesPromised
<1>9. ASSUME NEW m \in Names PROVE Kept(m)'
  <2>1. Kept(m)
    BY DEF PromiseInv, Promises
  <2>2. Untouched(m)'
    <3> SUFFICES ASSUME NEW d \in Promised(m)'
                 PROVE  /\ d.id <= lastId /\ d \in docs'[m]
                        /\ \A v \in Changes(m)' : work'[v].doc.id # d.id
      BY <1>1 DEF Untouched
    <3>1. d \in Promised(m) \/ d \in promise'[m].acked \ promise[m].acked
      BY DEF Promised
    <3>2. CASE d \in Promised(m)
      BY <1>3, <1>8, <2>1, <3>2 DEF Kept, Untouched
    <3> QED BY <3>1, <3>2
  <2>3. Remembered(m)'
    <3>1. \A d \in promise[m].acked : InMemory(m, d) => InMemory(m, d)'
      BY <1>1, <1>8 DEF Promised, InMemory
    <3> QED BY <1>1, <2>1, <3>1 DEF Kept, Remembered
  <2>4. Filed(m)'
    BY <1>1, <2>1 DEF Kept, Filed, InRaw, InBin, Complete
  <2>5. Known(m)'
    BY <1>1, <2>1 DEF Kept, Known
  <2>6. CallsCount(m)'
    BY <1>1, <1>5, <2>1 DEF Kept, CallsCount
  <2> QED BY <2>2, <2>3, <2>4, <2>5, <2>6 DEF Kept
<1>10. ASSUME NEW v \in Admins PROVE Saved(v)'
  <2> DEFINE m == work[v].name
  <2>1. work'[v] = work[v] /\ Saved(v)
    BY <1>4 DEF PromiseInv, Promises
  <2>3. m \in Names /\ AdminOn(m)
    BY OnName DEF Admins, AdminOn
  <2>4. /\ promise'[m].acked = promise[m].acked /\ promise'[m].saving = promise[m].saving
        /\ promise'[m].kept = promise[m].kept
    BY <2>3
  <2>5. \A d \in promise[m].kept :
          /\ d \in graph[m] => d \in graph'[m]
          /\ m \notin lost' /\ PostingsOf(d) \subseteq index[m] => PostingsOf(d) \subseteq index'[m]
    BY <1>8, <2>3 DEF Promised
  <2>6. \A x, d : (InRaw(x, d) => InRaw(x, d)') /\ (InBin(x, d) => InBin(x, d)')
    BY <1>1 DEF InRaw, InBin, Complete
  <2>7. loaded' = loaded /\ lost \subseteq lost'
    BY <1>1
  <2>8. ASSUME work[v].op = "release", work[v].at = "raw"
        PROVE  promise[m].saving \cup promise[m].kept \subseteq walk'[v].stayed
    <3>1. /\ m \in loaded /\ promise[m].saving \subseteq promise[m].acked
          /\ promise[m].saving \cup promise[m].kept \subseteq walk[v].stayed
      BY <2>1, <2>8 DEF Saved
    <3>2. Remembered(m)
      BY <2>3 DEF PromiseInv, Promises, Kept
    <3>3. \A d \in promise[m].saving \cup promise[m].kept : d \in graph[m]
      BY <3>1, <3>2 DEF Remembered, InMemory
    <3>4. \A d \in promise[m].saving \cup promise[m].kept : d \in graph'[m]
      BY <1>8, <2>3, <3>3 DEF Promised
    <3>5. walk'[v] = walk[v] \/ walk'[v].stayed = walk[v].stayed \cap graph'[m]
      <4>1. v \in Workers
        BY DEF Admins
      <4>2. CASE WalkedOn(n)
        <5>1. walk'[v] = IF At(v, {"release"}, "raw") /\ work[v].name = n
                         THEN [stayed |-> walk[v].stayed \cap graph'[n], met |-> walk[v].met \cup graph'[n]]
                         ELSE walk[v]
          BY <4>1, <4>2 DEF WalkedOn
        <5> QED BY <5>1
      <4> QED BY <1>1, <4>2
    <3> QED BY <3>1, <3>4, <3>5
  <2> HIDE DEF m
  <2>9. work[v].op = "release" => /\ m \in loaded /\ promise[m].saving \subseteq promise[m].acked
                                  /\ work[v].at \in {"bin", "flag"} => \A d \in promise[m].saving : InRaw(m, d)
                                  /\ work[v].at = "flag" => \A d \in promise[m].saving : InBin(m, d)
    BY <2>1 DEF Saved, m
  <2>10. work[v].op = "load" =>
           /\ work[v].at \in {"index", "flag"} => \A d \in promise[m].kept : d \in graph[m]
           /\ work[v].at = "flag" /\ m \notin lost => \A d \in promise[m].kept : PostingsOf(d) \subseteq index[m]
    BY <2>1 DEF Saved, m
  <2>11. work[v].op = "drop" => promise[m].kept = {} /\ promise[m].acked = {}
    BY <2>1 DEF Saved, m
  <2>12. work[v].op = "load" =>
           /\ work[v].at \in {"index", "flag"} => \A d \in promise[m].kept : d \in graph'[m]
           /\ work[v].at = "flag" /\ m \notin lost' => \A d \in promise[m].kept : PostingsOf(d) \subseteq index'[m]
    BY <2>5, <2>7, <2>10
  <2> QED BY <2>1, <2>4, <2>6, <2>7, <2>8, <2>9, <2>11, <2>12 DEF Saved, m
<1>11. ASSUME NEW v \in Workers PROVE Made(v)'
  <2>1. CASE v # w
    <3> DEFINE m == work[v].name
    <3> SUFFICES ASSUME work[v].op \in DocOps, v \in promise[m].calls,
                        <<m, work[v].doc.key>> \notin spoiled
                 PROVE  /\ work[v].op # "insert" => Holds(v)
                        /\ work[v].at \in {"insert", "put"} /\ m \notin lost' =>
                             PostingsOf(work[v].doc) \subseteq index'[m]
                        /\ work[v].at = "put" => work[v].doc \in graph'[m]
      <4>1. work'[v] = work[v] /\ (work[v].op \in DocOps => m \in Names)
        BY <1>1, <2>1, OnName
      <4>2. Holds(v)' <=> Holds(v)
        BY <1>1, <4>1 DEF Holds
      <4> QED BY <1>1, <4>1, <4>2 DEF Made
    <3>1. m \in Names /\ v \in Changes(m)
      BY OnName DEF Changes
    <3>2. m = n => work[v].doc.id # i
      <4>1. CASE m = n
        <5>1. v \in Changes(n) /\ w \in Changes(n) /\ <<n, work[v].doc.key>> \notin spoiled /\ n \in Names
          BY <1>1, <3>1, <4>1
        <5>2. work[w].doc.id # work[v].doc.id
          BY <2>1, <5>1, Alone DEF PromiseInv
        <5> QED BY <5>2 DEF i
      <4> QED BY <4>1
    <3>3. Made(v)
      BY DEF PromiseInv, Promises
    <3>4. /\ work[v].doc \in graph[m] => work[v].doc \in graph'[m]
          /\ m \notin lost' /\ PostingsOf(work[v].doc) \subseteq index[m] =>
               PostingsOf(work[v].doc) \subseteq index'[m]
      BY <1>1, <1>6, <3>1, <3>2, SparesPromised
    <3> QED BY <1>1, <3>3, <3>4 DEF Made
  <2> QED BY <2>1
<1> QED BY <1>1, <1>9, <1>10, <1>11 DEF Promises

\* The steps of a call on a document.
LEMMA ChangePromised ==
  ASSUME TypeInv, PromiseInv, NEW w \in Workers, ChangeStep(w)
  PROVE  Promises'
<1> USE DEF log, files, flags, memory, between, history, UnchangedByDocs
<1>0. PICK n, d : n = work[w].name /\ d = work[w].doc
  OBVIOUS
<1> USE <1>0
<1>1. /\ work[w].op \in DocOps /\ n \in Names /\ d \in Doc /\ w \in Changes(n)
      /\ work[w] \in Activity /\ work \in [Workers -> {Idle} \cup Activity]
      /\ promise \in [Names -> Promise] /\ spoiled \subseteq spoiled' /\ UNCHANGED <<graphs, born>>
  BY ChangeGoesOn, OnName DEF Changes, TypeInv, TypeOK, Promise
<1>2. ASSUME Return(w) PROVE Made(w)'
  <2>1. work'[w] = Idle
    BY <1>1, <1>2 DEF Return
  <2> QED BY <2>1 DEF Made, Idle, DocOps
<1>3. ASSUME NEW at, Go(w, at)
      PROVE  /\ work'[w].op = work[w].op /\ work'[w].name = n /\ work'[w].doc = d
             /\ work'[w].at = at /\ (Holds(w)' <=> Holds(w))
  <2>1. work'[w] = [work[w] EXCEPT !.at = at]
    BY <1>1, <1>3 DEF Go
  <2>2. /\ work'[w].op = work[w].op /\ work'[w].name = n /\ work'[w].doc = d
        /\ work'[w].at = at /\ work'[w].graph = work[w].graph
    BY <1>1, <2>1 DEF Activity
  <2> QED BY <1>1, <2>2 DEF Holds
<1>4. ASSUME UNCHANGED promise, Made(w)' PROVE Promises'
  BY <1>4, ChangeKeeps
<1>5. Made(w)
  BY DEF PromiseInv, Promises
<1>6. ASSUME NEW at \in {"undo log", "undo graph", "undo index", "drop", "unlink", "add", "erase"}, Go(w, at),
             UNCHANGED promise
      PROVE  Made(w)'
  BY <1>1, <1>3, <1>5, <1>6 DEF Made
<1>7. CASE ChangeAdd(w)
  <2>1. /\ Go(w, "insert") /\ UNCHANGED promise
        /\ index' = [index EXCEPT ![n] = index[n] \cup {p \in PostingsOf(d) : p.on \notin columns[w]}]
        /\ n \notin lost' => columns[w] = {}
    BY <1>7 DEF ChangeAdd, AddPostings
  <2>2. n \notin lost' => PostingsOf(d) \subseteq index'[n]
    BY <1>1, <2>1 DEF TypeInv, TypeOK
  <2>3. Made(w)'
    BY <1>1, <1>3, <1>5, <2>1, <2>2 DEF Made
  <2> QED BY <1>4, <2>1, <2>3
<1>8. CASE ChangeInsert(w)
  <2> DEFINE known == IF work[w].op = "insert" THEN n \in graphs ELSE Holds(w)
  <2>1. UNCHANGED <<promise, index, spoiled, lost>> /\ work[w].at = "insert"
    BY <1>8 DEF ChangeInsert, At
  <2>4. CASE ~ known
    <3>1. work[w].op = "update" /\ (Go(w, "put") \/ Return(w)) /\ ~ Holds(w)
      BY <1>8, <2>4 DEF ChangeInsert
    <3>2. CASE Go(w, "put")
      <4>1. Made(w)'
        BY <1>3, <1>5, <2>1, <3>1, <3>2 DEF Made
      <4> QED BY <1>4, <2>1, <4>1
    <3> QED BY <1>2, <1>4, <2>1, <3>1, <3>2
  <2>2. CASE known /\ HasVertex(n, d)
    <3>1. Return(w) \/ Go(w, "undo log")
      BY <1>8, <2>2 DEF ChangeInsert
    <3> QED BY <1>2, <1>4, <1>6, <2>1, <3>1
  <2>3. CASE known /\ ~ HasVertex(n, d)
    <3>1. Go(w, "put") /\ graph' = [graph EXCEPT ![n] = graph[n] \cup {d}]
      BY <1>8, <2>3 DEF ChangeInsert
    <3>2. d \in graph'[n]
      BY <1>1, <3>1 DEF TypeInv, TypeOK
    <3>3. /\ work'[w].op = work[w].op /\ work'[w].name = n /\ work'[w].doc = d
          /\ work'[w].at = "put"
      BY <1>3, <3>1
    <3>4. Made(w)'
      BY <1>3, <1>5, <2>1, <3>1, <3>2, <3>3 DEF Made
    <3> QED BY <1>4, <2>1, <3>4
  <2> QED BY <2>2, <2>3, <2>4
<1>9. CASE ChangePut(w)
  <2>1. /\ Return(w) /\ work[w].at = "put" /\ UNCHANGED <<graph, index, spoiled, lastId, lost>>
        /\ docs' = [docs EXCEPT ![n] = {e \in docs[n] : e.id # d.id} \cup {d}]
    BY <1>9 DEF ChangePut, PutDoc, At
  <2>2. Made(w)'
    BY <1>2, <2>1
  <2>3. CASE w \in promise[n].calls /\ <<n, d.key>> \notin spoiled
    <3> DEFINE q == [promise[n] EXCEPT !.acked = promise[n].acked \cup {d}, !.calls = promise[n].calls \ {w}]
    <3>1. promise' = [promise EXCEPT ![n] = q]
      BY <1>1, <1>9, <2>3 DEF ChangePut
    <3>2. promise[n] \in Promise
      BY <1>1
    <3>3. /\ q.acked = promise[n].acked \cup {d} /\ q.calls \subseteq promise[n].calls
          /\ q.saving = promise[n].saving /\ q.kept = promise[n].kept
      BY <3>2 DEF Promise
    <3> HIDE DEF q
    <3>4. promise'[n] = q /\ \A m \in Names : m # n => promise'[m] = promise[m]
      BY <1>1, <3>1
    <3>5. d.id <= lastId
      <4>1. PICK f : KeysAre(f)
        BY DEF PromiseInv, OneKey
      <4> QED BY <1>1, <4>1 DEF KeysAre, CallOf, DocOf
    <3>6. d \in docs'[n]
      BY <1>1, <2>1 DEF TypeInv, TypeOK
    <3>7. InMemory(n, d)'
      <4>1. d \in graph[n] /\ (n \notin lost => PostingsOf(d) \subseteq index[n])
        BY <1>1, <1>5, <2>1, <2>3 DEF Made
      <4> QED BY <2>1, <4>1 DEF InMemory
    <3>8. \A v \in Changes(n)' : work'[v].doc.id # d.id
      <4> SUFFICES ASSUME NEW v \in Changes(n)' PROVE work'[v].doc.id # d.id
        OBVIOUS
      <4>1. v # w /\ v \in Workers
        BY <1>1, <2>1 DEF Changes, Return, Idle, DocOps
      <4>2. v \in Changes(n) /\ work'[v] = work[v]
        BY <1>1, <2>1, <4>1 DEF Changes, Return, Idle, DocOps
      <4>3. work[v].doc.id # work[w].doc.id
        BY <1>1, <2>3, <4>1, <4>2, Alone DEF PromiseInv
      <4> QED BY <4>2, <4>3
    <3>9. \A m \in Names :
            /\ promise'[m].saving = promise[m].saving /\ promise'[m].kept = promise[m].kept
            /\ promise'[m].calls \subseteq promise[m].calls
            /\ promise[m].acked \subseteq promise'[m].acked
            /\ \A e \in promise'[m].acked \ promise[m].acked : m = n /\ e = d
      BY <3>3, <3>4
    <3>10. \A m \in Names : AdminOn(m) => promise'[m].acked = promise[m].acked
      <4>1. ~ AdminOn(n)
        BY <1>1, <2>3 DEF PromiseInv, Promises, Kept, CallsCount
      <4> QED BY <3>4, <4>1
    <3> QED BY <2>2, <3>5, <3>6, <3>7, <3>8, <3>9, <3>10, ChangeKeeps
  <2>4. CASE ~ (w \in promise[n].calls /\ <<n, d.key>> \notin spoiled)
    BY <1>4, <1>9, <2>2, <2>4 DEF ChangePut
  <2> QED BY <2>3, <2>4
<1>10. CASE ChangePutFails(w)
  BY <1>2, <1>4, <1>6, <1>10 DEF ChangePutFails
<1>11. CASE InsertUndoLog(w)
  BY <1>4, <1>6, <1>11 DEF InsertUndoLog
<1>12. CASE InsertUndoGraph(w)
  BY <1>4, <1>6, <1>12 DEF InsertUndoGraph
<1>13. CASE InsertUndoIndex(w)
  <2>1. UNCHANGED promise /\ (Return(w) \/ Go(w, "drop"))
    BY <1>13 DEF InsertUndoIndex
  <2> QED BY <1>2, <1>4, <1>6, <2>1
<1>14. CASE ChangeRemove(w)
  <2>1. UNCHANGED promise /\ (Go(w, "unlink") \/ Go(w, "drop"))
    BY <1>14 DEF ChangeRemove
  <2> QED BY <1>4, <1>6, <2>1
<1>18. CASE DropColumn(w)
  <2>1. UNCHANGED promise /\ (Return(w) \/ Go(w, "unlink") \/ Go(w, "drop"))
    BY <1>18 DEF DropColumn
  <2> QED BY <1>2, <1>4, <1>6, <2>1
<1>15. CASE ChangeUnlink(w)
  <2>1. UNCHANGED promise
    BY <1>15 DEF ChangeUnlink
  <2>2. Return(w) \/ Go(w, "add") \/ Go(w, "erase")
    BY <1>15 DEF ChangeUnlink
  <2> QED BY <1>2, <1>4, <1>6, <2>1, <2>2
<1>16. CASE DeleteErase(w)
  BY <1>2, <1>4, <1>16 DEF DeleteErase
<1>17. CASE Panic(w)
  BY <1>2, <1>4, <1>17 DEF Panic
<1> QED BY <1>7, <1>8, <1>9, <1>10, <1>11, <1>12, <1>13, <1>14, <1>15, <1>16, <1>17,
           <1>18 DEF ChangeStep

\* The start of a call on a document.
LEMMA TakesPromised ==
  ASSUME TypeInv, PromiseInv, NEW w \in Workers, NEW n \in Names, NEW c, Takes(w, n, c)
  PROVE  Promises'
<1> USE DEF log, files, flags, memory, between
<1>1. /\ work'[w] = c /\ \A v \in Workers : v # w => work'[v] = work[v]
      /\ Changes(n)' = Changes(n) \cup {w}
      /\ \A m : m # n => Changes(m)' = Changes(m) /\ w \notin Changes(m)
      /\ Admins' = Admins /\ w \notin Admins /\ w \notin Changes(n)
  BY TakesIs
<1>2. /\ UNCHANGED <<docs, graph, index, raw, bin, loaded, exists, listed, process, walk, lost, graphs, born>>
      /\ spoiled \subseteq spoiled' /\ n \in loaded
      /\ \A m \in Names : m # n => promise'[m] = promise[m]
      /\ promise'[n].calls = IF AdminOn(n) THEN promise[n].calls ELSE promise[n].calls \cup {w}
      /\ c.op \in DocOps /\ c.at \in {"add", "remove"} /\ c.doc \in Doc
      /\ c.op # "insert" => n \in graphs /\ c.name = n /\ c.graph = born[n]
  BY DEF Takes
<1>3. \/ /\ lastId' = lastId + 1 /\ c.doc.id = lastId + 1
         /\ promise'[n].acked = promise[n].acked /\ promise'[n].saving = promise[n].saving
         /\ promise'[n].kept = promise[n].kept
      \/ /\ lastId' = lastId
         /\ promise'[n].acked = Except(promise[n].acked, c.doc.id)
         /\ promise'[n].saving = Except(promise[n].saving, c.doc.id)
         /\ promise'[n].kept = Except(promise[n].kept, c.doc.id)
  BY DEF Takes
<1>4. \A m : AdminOn(m)' <=> AdminOn(m)
  BY <1>1 DEF AdminOn, Admins
<1>5. \A v \in Workers : v # w => \A m : v \in Changes(m) => work'[v].doc = work[v].doc
  BY <1>1
<1>6. lastId \in Nat /\ \A m \in Names : Promised(m) \subseteq Doc
  BY CollectionsAssumption DEF TypeInv, TypeOK, Promised
<1>7. ASSUME NEW m \in Names PROVE Kept(m)'
  <2>1. Kept(m)
    BY DEF PromiseInv, Promises
  <2>2. /\ promise'[m].acked \subseteq promise[m].acked /\ promise'[m].saving \subseteq promise[m].saving
        /\ promise'[m].kept \subseteq promise[m].kept
        /\ (promise[m].kept \subseteq promise[m].acked => promise'[m].kept \subseteq promise'[m].acked)
    BY <1>2, <1>3 DEF Except
  <2>3. ASSUME NEW d \in Promised(m)' PROVE d.id <= lastId' /\ (m = n => d.id # c.doc.id)
    <3>1. d \in Promised(m) /\ d.id <= lastId /\ d.id \in Nat
      BY <1>6, <2>1, <2>2 DEF Promised, Kept, Untouched, Doc
    <3>2. m = n => d.id # c.doc.id
      <4>1. CASE lastId' = lastId + 1 /\ c.doc.id = lastId + 1
        BY <1>6, <3>1, <4>1
      <4>2. CASE /\ promise'[n].acked = Except(promise[n].acked, c.doc.id)
                 /\ promise'[n].saving = Except(promise[n].saving, c.doc.id)
                 /\ promise'[n].kept = Except(promise[n].kept, c.doc.id)
        BY <4>2 DEF Promised, Except
      <4> QED BY <1>3, <4>1, <4>2
    <3> QED BY <1>3, <1>6, <3>1, <3>2
  <2>4. Untouched(m)'
    <3> SUFFICES ASSUME NEW d \in Promised(m)'
                 PROVE  /\ d.id <= lastId' /\ d \in docs'[m]
                        /\ \A v \in Changes(m)' : work'[v].doc.id # d.id
      BY DEF Untouched
    <3>1. d \in Promised(m)
      BY <2>2 DEF Promised
    <3>2. \A v \in Changes(m) : work[v].doc.id # d.id
      BY <2>1, <3>1 DEF Kept, Untouched
    <3>3. \A v \in Changes(m)' : work'[v].doc.id # d.id
      BY <1>1, <2>3, <3>2 DEF Changes
    <3> QED BY <1>2, <2>1, <2>3, <3>1, <3>3 DEF Kept, Untouched
  <2>5. Remembered(m)'
    BY <1>2, <2>1, <2>2 DEF Kept, Remembered, InMemory
  <2>6. Filed(m)'
    BY <1>2, <2>1, <2>2 DEF Kept, Filed, InRaw, InBin, Complete
  <2>7. Known(m)'
    BY <1>2, <2>1, <2>2 DEF Kept, Known
  <2>8. CallsCount(m)'
    BY <1>2, <1>4, <2>1 DEF Kept, CallsCount
  <2> QED BY <2>4, <2>5, <2>6, <2>7, <2>8 DEF Kept
<1>8. ASSUME NEW v \in Admins PROVE Saved(v)'
  <2>1. work'[v] = work[v] /\ Saved(v) /\ work[v].name \in Names /\ walk'[v] = walk[v]
    BY <1>1, <1>2, OnName DEF PromiseInv, Promises, Admins
  <2>2. \A m \in Names :
          /\ promise'[m].acked \subseteq promise[m].acked /\ promise'[m].saving \subseteq promise[m].saving
          /\ promise'[m].kept \subseteq promise[m].kept
          /\ (promise[m].saving \subseteq promise[m].acked => promise'[m].saving \subseteq promise'[m].acked)
    BY <1>2, <1>3 DEF Except
  <2> QED BY <1>2, <2>1, <2>2 DEF Saved, InRaw, InBin, Complete
<1>9. ASSUME NEW v \in Workers PROVE Made(v)'
  <2>1. CASE v = w
    <3>1. c.op # "insert" => Holds(w)'
      BY <1>1, <1>2 DEF Holds
    <3> QED BY <1>1, <1>2, <2>1, <3>1 DEF Made
  <2>2. CASE v # w
    <3>1. work'[v] = work[v] /\ Made(v) /\ (work[v].op \in DocOps => work[v].name \in Names)
      BY <1>1, <2>2, OnName DEF PromiseInv, Promises
    <3>2. \A m \in Names : v \in promise'[m].calls => v \in promise[m].calls
      BY <1>2, <2>2
    <3>3. Holds(v)' <=> Holds(v)
      BY <1>2, <3>1 DEF Holds
    <3> QED BY <1>2, <3>1, <3>2, <3>3 DEF Made
  <2> QED BY <2>1, <2>2
<1> QED BY <1>1, <1>7, <1>8, <1>9 DEF Promises

\* A step of a call on a collection n keeps the promises of the others, and
\* those of n if what is left to show of it holds.
LEMMA AdminKeeps ==
  ASSUME TypeInv, ServedInv, PromiseInv, NEW w \in Workers, w \in Admins,
         NEW n \in Names, n = work[w].name,
         UNCHANGED <<docs, lastId, spoiled, process, lost>>,
         \A v \in Workers : v # w => work'[v] = work[v],
         work'[w] = Idle \/ (work'[w].op = work[w].op /\ work'[w].name = n),
         \A m \in Names : m # n =>
           /\ graph'[m] = graph[m] /\ index'[m] = index[m] /\ promise'[m] = promise[m]
           /\ raw'[m] = raw[m] /\ bin'[m] = bin[m] /\ born'[m] = born[m]
           /\ (m \in loaded' <=> m \in loaded) /\ (m \in exists' <=> m \in exists)
           /\ (m \in listed' <=> m \in listed) /\ (m \in graphs' <=> m \in graphs),
         Promised(n)' \subseteq Promised(n), promise'[n].calls \subseteq promise[n].calls,
         Remembered(n)', Filed(n)', Known(n)',
         work'[w] # Idle => Saved(w)'
  PROVE  Promises'
<1>1. work[w].op \in AdminOps /\ work[w].op \notin DocOps /\ Idle.op \notin DocOps /\ Idle.op \notin AdminOps
  BY DEF Admins, AdminOps, DocOps, Idle
<1>2. \A v \in Workers : (work'[v].op \in DocOps <=> work[v].op \in DocOps)
                         /\ (work[v].op \in DocOps => work'[v] = work[v])
  BY <1>1
<1>3. \A m : Changes(m)' = Changes(m) /\ \A v \in Changes(m) : work'[v] = work[v]
  BY <1>2 DEF Changes
<1>4. Admins' \subseteq {w}
  BY <1>1 DEF Admins, ServedInv
<1>5. \A m : AdminOn(m)' => m = n
  BY <1>1, <1>4 DEF AdminOn, Admins
<1>6. promise'[n].calls = {}
  <2>1. AdminOn(n)
    BY DEF AdminOn
  <2> QED BY <2>1 DEF PromiseInv, Promises, Kept, CallsCount
<1>7. ASSUME NEW m \in Names PROVE Kept(m)'
  <2>1. Kept(m)
    BY DEF PromiseInv, Promises
  <2>2. Promised(m)' \subseteq Promised(m)
    BY DEF Promised
  <2>3. Untouched(m)'
    BY <1>3, <2>1, <2>2 DEF Kept, Untouched
  <2>4. CASE m = n
    BY <1>6, <2>3, <2>4 DEF Kept, CallsCount
  <2>5. CASE m # n
    <3>1. Remembered(m)'
      BY <2>1, <2>5 DEF Kept, Remembered, InMemory
    <3>2. Filed(m)'
      BY <2>1, <2>5 DEF Kept, Filed, InRaw, InBin, Complete
    <3>3. Known(m)'
      BY <2>1, <2>5 DEF Kept, Known
    <3>4. CallsCount(m)'
      BY <1>5, <2>1, <2>5 DEF Kept, CallsCount
    <3> QED BY <2>3, <3>1, <3>2, <3>3, <3>4 DEF Kept
  <2> QED BY <2>4, <2>5
<1>8. \A v \in Admins' : Saved(v)'
  BY <1>1, <1>4 DEF Admins
<1>9. ASSUME NEW v \in Workers PROVE Made(v)'
  <2>1. CASE work'[v].op \in DocOps
    <3>1. work'[v] = work[v] /\ Made(v) /\ work[v].name \in Names
      BY <1>2, <2>1, OnName DEF PromiseInv, Promises
    <3>2. CASE work[v].name = n
      BY <1>6, <3>1, <3>2 DEF Made
    <3>3. CASE work[v].name # n
      <4>1. Holds(v)' <=> Holds(v)
        BY <3>1, <3>3 DEF Holds
      <4> QED BY <3>1, <3>3, <4>1 DEF Made
    <3> QED BY <3>2, <3>3
  <2>2. CASE work'[v].op \notin DocOps
    BY <2>2 DEF Made
  <2> QED BY <2>1, <2>2
<1> QED BY <1>7, <1>8, <1>9 DEF Promises

\* The steps of a call on a collection.
LEMMA AdminPromised ==
  ASSUME TypeInv, ServedInv, PromiseInv, NEW w \in Workers, AdminStep(w)
  PROVE  Promises'
<1> USE DEF log, files, flags, memory, between, history
<1>1. w \in Admins /\ process # "down"
  <2>1. work[w].op \in AdminOps
    BY DEF AdminStep, CreateConfig, CreateIndex, CreateList, ClearConfig, ClearDocs, ReadList,
           DropList, DropFlag, LoadConfig, LoadGraph, LoadIndex, StateTrue, ReleaseRaw, ReleaseBin,
           ReleaseFails, ReleasePanics, ReleaseFlag, At, AdminOps
  <2> QED BY <2>1 DEF Admins, ServedInv
<1>2. PICK n \in Names : n = work[w].name
  BY <1>1, OnName DEF Admins
<1>3. Kept(n) /\ Saved(w) /\ Progress(work[w])
  BY <1>1 DEF PromiseInv, Promises, ServedInv
<1>4. /\ graph \in [Names -> SUBSET Doc] /\ index \in [Names -> SUBSET Posting]
      /\ raw \in [Names -> {NoFile, Torn} \cup SUBSET Doc]
      /\ bin \in [Names -> {NoFile, Torn} \cup SUBSET Posting]
      /\ promise \in [Names -> Promise] /\ work \in [Workers -> {Idle} \cup Activity]
      /\ work[w] \in Activity /\ born \in [Names -> Nat] /\ w \in Workers
  BY <1>1, OnName DEF TypeInv, TypeOK, Promise, Admins
<1>5. ASSUME NEW at, Go(w, at)
      PROVE  /\ work'[w].op = work[w].op /\ work'[w].name = n /\ work'[w].at = at
             /\ \A v \in Workers : v # w => work'[v] = work[v]
  BY <1>1, <1>2, <1>4, <1>5, OneGoesOn DEF Go
<1>6. ASSUME Return(w)
      PROVE  work'[w] = Idle /\ \A v \in Workers : v # w => work'[v] = work[v]
  BY <1>4, <1>6 DEF Return
<1>7. UNCHANGED <<docs, lastId, spoiled, process, lost>>
  BY DEF AdminStep, CreateConfig, CreateIndex, CreateList, ClearConfig, ClearDocs, ReadList,
         DropList, DropFlag, LoadConfig, LoadGraph, LoadIndex, StateTrue, ReleaseRaw, ReleaseBin,
         ReleaseFails, ReleasePanics, ReleaseFlag
<1>8. \A m \in Names : m # n =>
           /\ graph'[m] = graph[m] /\ index'[m] = index[m]
           /\ raw'[m] = raw[m] /\ bin'[m] = bin[m] /\ born'[m] = born[m]
  <2>1. graph' = graph \/ \E g : graph' = [graph EXCEPT ![n] = g]
    BY <1>2 DEF AdminStep, CreateConfig, CreateIndex, CreateList, ClearConfig, ClearDocs, ReadList,
         DropList, DropFlag, LoadConfig, LoadGraph, LoadIndex, StateTrue, ReleaseRaw, ReleaseBin,
         ReleaseFails, ReleasePanics, ReleaseFlag, NewGraph, ForgetGraph, MemFree
  <2>2. index' = index \/ \E g : index' = [index EXCEPT ![n] = g]
    BY <1>2 DEF AdminStep, CreateConfig, CreateIndex, CreateList, ClearConfig, ClearDocs, ReadList,
         DropList, DropFlag, LoadConfig, LoadGraph, LoadIndex, StateTrue, ReleaseRaw, ReleaseBin,
         ReleaseFails, ReleasePanics, ReleaseFlag, MemFree
  <2>3. raw' = raw \/ \E g : raw' = [raw EXCEPT ![n] = g]
    BY <1>2 DEF AdminStep, CreateConfig, CreateIndex, CreateList, ClearConfig, ClearDocs, ReadList,
         DropList, DropFlag, LoadConfig, LoadGraph, LoadIndex, StateTrue, ReleaseRaw, ReleaseBin,
         ReleaseFails, ReleasePanics, ReleaseFlag
  <2>4. bin' = bin \/ \E g : bin' = [bin EXCEPT ![n] = g]
    BY <1>2 DEF AdminStep, CreateConfig, CreateIndex, CreateList, ClearConfig, ClearDocs, ReadList,
         DropList, DropFlag, LoadConfig, LoadGraph, LoadIndex, StateTrue, ReleaseRaw, ReleaseBin,
         ReleaseFails, ReleasePanics, ReleaseFlag
  <2>5. born' = born \/ \E g : born' = [born EXCEPT ![n] = g]
    BY <1>2 DEF AdminStep, CreateConfig, CreateIndex, CreateList, ClearConfig, ClearDocs, ReadList,
         DropList, DropFlag, LoadConfig, LoadGraph, LoadIndex, StateTrue, ReleaseRaw, ReleaseBin,
         ReleaseFails, ReleasePanics, ReleaseFlag, NewGraph, ForgetGraph, MemFree
  <2> QED BY <1>4, <2>1, <2>2, <2>3, <2>4, <2>5
<1>9. \A m \in Names : m # n =>
           /\ (m \in loaded' <=> m \in loaded) /\ (m \in exists' <=> m \in exists)
           /\ (m \in listed' <=> m \in listed) /\ (m \in graphs' <=> m \in graphs)
  BY <1>2, <1>3 DEF AdminStep, CreateConfig, CreateIndex, CreateList, ClearConfig, ClearDocs, ReadList,
         DropList, DropFlag, LoadConfig, LoadGraph, LoadIndex, StateTrue, ReleaseRaw, ReleaseBin,
         ReleaseFails, ReleasePanics, ReleaseFlag, MemFree, NewGraph, ForgetGraph, At, Progress
\* What is left to show.
<1>10. ASSUME \A m \in Names : m # n => promise'[m] = promise[m],
              Promised(n)' \subseteq Promised(n), promise'[n].calls \subseteq promise[n].calls,
              Remembered(n)', Filed(n)', Known(n)',
              Return(w) \/ \E at : Go(w, at) /\ Saved(w)'
       PROVE  Promises'
  <2>1. CASE Return(w)
    <3>1. work'[w] = Idle /\ \A v \in Workers : v # w => work'[v] = work[v]
      BY <1>6, <2>1
    <3> QED BY <1>1, <1>2, <1>7, <1>8, <1>9, <1>10, <3>1, AdminKeeps
  <2>2. CASE \E at : Go(w, at) /\ Saved(w)'
    <3>1. /\ work'[w].op = work[w].op /\ work'[w].name = n /\ Saved(w)'
          /\ \A v \in Workers : v # w => work'[v] = work[v]
      BY <1>5, <2>2
    <3> QED BY <1>1, <1>2, <1>7, <1>8, <1>9, <1>10, <3>1, AdminKeeps
  <2> QED BY <1>10, <2>1, <2>2
<1>11. ASSUME UNCHANGED promise
       PROVE  /\ \A m \in Names : m # n => promise'[m] = promise[m]
              /\ Promised(n)' \subseteq Promised(n) /\ promise'[n].calls \subseteq promise[n].calls
  BY <1>11 DEF Promised
<1>12. n \notin loaded' => Remembered(n)'
  BY DEF Remembered
<1>13. ASSUME UNCHANGED <<promise, graph, index, loaded>> PROVE Remembered(n)'
  BY <1>3, <1>7, <1>13 DEF Kept, Remembered, InMemory
<1>14. ASSUME UNCHANGED <<promise, raw, bin>> PROVE Filed(n)'
  BY <1>3, <1>7, <1>14 DEF Kept, Filed, InRaw, InBin, Complete
<1>15. ASSUME promise'[n].kept \subseteq promise[n].kept, n \in listed => n \in listed',
              n \in exists => n \in exists'
       PROVE  Known(n)'
  BY <1>3, <1>7, <1>15 DEF Kept, Known
\* A call that creates a collection, or clears it, has nothing to keep.
<1>16. ASSUME UNCHANGED <<promise, raw, bin, exists, loaded>>, n \notin loaded,
              n \in listed => n \in listed', work[w].op = "create", Return(w) \/ \E at : Go(w, at)
       PROVE  Promises'
  <2>1. ASSUME NEW at, Go(w, at) PROVE Saved(w)'
    BY <1>5, <1>16, <2>1 DEF Saved
  <2> QED BY <1>10, <1>11, <1>12, <1>14, <1>15, <1>16, <2>1
<1>17. ASSUME UNCHANGED <<promise, raw, bin>>, work[w].op = "drop", Return(w) \/ \E at : Go(w, at)
       PROVE  Promises'
  <2>1. promise[n].kept = {} /\ promise[n].acked = {}
    BY <1>2, <1>3, <1>17 DEF Saved
  <2>2. Remembered(n)' /\ Filed(n)' /\ Known(n)'
    BY <1>17, <2>1 DEF Remembered, Filed, Known
  <2>3. ASSUME NEW at, Go(w, at) PROVE Saved(w)'
    BY <1>5, <1>17, <2>1, <2>3 DEF Saved
  <2> QED BY <1>10, <1>11, <1>17, <2>2, <2>3
<1>18. work[w].op \in {"create", "load"} => n \notin loaded
  BY <1>2, <1>3 DEF Progress
<1>19. CASE CreateConfig(w) \/ CreateIndex(w)
  BY <1>16, <1>18, <1>19 DEF CreateConfig, CreateIndex, At
<1>20. CASE CreateList(w)
  <2>1. n \in listed => n \in listed'
    BY <1>2, <1>3, <1>20 DEF CreateList, At, Progress
  <2> QED BY <1>16, <1>18, <1>20, <2>1 DEF CreateList, At
<1>21. CASE ClearConfig(w) \/ ClearDocs(w)
  BY <1>16, <1>17, <1>18, <1>21 DEF ClearConfig, ClearDocs, At
<1>22. CASE ReadList(w)
  <2>1. /\ work'[w].op = work[w].op /\ work'[w].name = n /\ work'[w].at = "list"
        /\ \A v \in Workers : v # w => work'[v] = work[v]
    BY <1>2, <1>4, <1>22 DEF ReadList, Activity
  <2>2. UNCHANGED <<promise, raw, bin, graph, index, exists, loaded, listed>>
        /\ work[w].op \in {"create", "drop"}
    BY <1>22 DEF ReadList, At
  <2>3. Saved(w)'
    BY <1>2, <1>3, <2>1, <2>2 DEF Saved
  <2>4. Remembered(n)' /\ Filed(n)' /\ Known(n)'
    BY <1>13, <1>14, <1>15, <2>2
  <2> QED BY <1>1, <1>2, <1>7, <1>8, <1>9, <1>11, <2>1, <2>2, <2>3, <2>4, AdminKeeps
<1>23. CASE DropList(w) \/ DropFlag(w)
  BY <1>17, <1>23 DEF DropList, DropFlag, At
<1>24. CASE LoadConfig(w)
  <2>1. UNCHANGED <<promise, raw, bin, graph, index, exists, loaded, listed>> /\ work[w].op = "load"
    BY <1>24 DEF LoadConfig, At
  <2>2. Return(w) \/ Go(w, "graph")
    BY <1>24 DEF LoadConfig
  <2>3. ASSUME Go(w, "graph") PROVE Saved(w)'
    BY <1>5, <2>1, <2>3 DEF Saved
  <2> QED BY <1>10, <1>11, <1>13, <1>14, <1>15, <2>1, <2>2, <2>3
<1>25. CASE LoadGraph(w)
  <2>1. /\ UNCHANGED <<promise, raw, bin, index, exists, loaded, listed>> /\ work[w].op = "load"
        /\ Return(w) \/ (Go(w, "index") /\ graph' = [graph EXCEPT ![n] = raw[n]])
    BY <1>2, <1>25 DEF LoadGraph, NewGraph, At
  <2>2. ASSUME Go(w, "index"), graph' = [graph EXCEPT ![n] = raw[n]] PROVE Saved(w)'
    <3>1. \A d \in promise[n].kept : d \in graph'[n]
      BY <1>3, <1>4, <2>2 DEF Kept, Filed, InRaw
    <3> QED BY <1>5, <2>1, <2>2, <3>1 DEF Saved
  <2> QED BY <1>10, <1>11, <1>12, <1>14, <1>15, <1>18, <2>1, <2>2
<1>26. CASE LoadIndex(w)
  <2>1. UNCHANGED <<promise, raw, bin, exists, listed>> /\ work[w].op = "load" /\ work[w].at = "index"
    BY <1>26 DEF LoadIndex, At
  <2>2. CASE MemFree(n) /\ Return(w)
    BY <1>10, <1>11, <1>12, <1>14, <1>15, <2>1, <2>2 DEF MemFree
  <2>3. CASE /\ index' = [index EXCEPT ![n] = IF bin[n] = NoFile THEN {} ELSE bin[n]]
             /\ Go(w, "flag") /\ UNCHANGED <<graph, loaded>>
    <3>1. n \notin lost' => \A d \in promise[n].kept : PostingsOf(d) \subseteq index'[n]
      BY <1>3, <1>4, <1>7, <2>3 DEF Kept, Filed, InBin, Complete
    <3>2. \A d \in promise[n].kept : d \in graph[n]
      BY <1>2, <1>3, <2>1 DEF Saved
    <3>3. Saved(w)'
      BY <1>5, <2>1, <2>3, <3>1, <3>2 DEF Saved
    <3> QED BY <1>10, <1>11, <1>12, <1>14, <1>15, <1>18, <2>1, <2>3, <3>3
  <2> QED BY <1>2, <1>26, <2>2, <2>3 DEF LoadIndex
<1>27. CASE StateTrue(w)
  <2> DEFINE q == [promise[n] EXCEPT !.acked = promise[n].kept]
  <2>1. promise[n] \in Promise /\ promise' = [promise EXCEPT ![n] = q]
    BY <1>2, <1>4, <1>27 DEF StateTrue
  <2>2. q.acked = promise[n].kept /\ q.saving = promise[n].saving /\ q.kept = promise[n].kept
        /\ q.calls = promise[n].calls
    BY <2>1 DEF Promise
  <2> HIDE DEF q
  <2>3. promise'[n] = q /\ \A m \in Names : m # n => promise'[m] = promise[m]
    BY <1>4, <2>1
  <2>4. UNCHANGED <<raw, bin, graph, index, listed>> /\ Return(w) /\ exists \subseteq exists'
        /\ work[w].op \in {"create", "load"} /\ work[w].at = "flag"
    BY <1>27 DEF StateTrue, At
  <2>5. \A d \in promise[n].kept : InMemory(n, d)
    <3>1. CASE work[w].op = "load"
      BY <1>2, <1>3, <2>4, <3>1 DEF Saved, InMemory
    <3>2. CASE work[w].op = "create"
      BY <1>1, <1>2, <1>3, <3>2 DEF Progress, Kept, Known
    <3> QED BY <2>4, <3>1, <3>2
  <2>6. Remembered(n)'
    BY <1>7, <2>2, <2>3, <2>4, <2>5 DEF Remembered, InMemory
  <2>7. Filed(n)'
    BY <1>3, <1>7, <2>2, <2>3, <2>4 DEF Kept, Filed, InRaw, InBin, Complete
  <2>8. Known(n)'
    BY <1>15, <2>2, <2>3, <2>4
  <2>9. Promised(n)' \subseteq Promised(n)
    BY <2>2, <2>3 DEF Promised
  <2> QED BY <1>10, <2>2, <2>3, <2>4, <2>6, <2>7, <2>8, <2>9
\* A release saves what is in memory.
<1>28. ASSUME work[w].op = "release"
       PROVE  /\ n \in loaded /\ n \in exists /\ n \in listed
              /\ promise[n].saving \subseteq promise[n].acked
              /\ promise[n].kept \subseteq promise[n].acked
              /\ \A d \in promise[n].acked : InMemory(n, d)
  BY <1>2, <1>3, <1>28 DEF Saved, Progress, Sound, Kept, Remembered
<1>29. CASE ReleaseRaw(w)
  <2>1. /\ UNCHANGED <<bin, graph, index, loaded, exists, listed>> /\ work[w].op = "release"
        /\ Go(w, "bin") /\ work[w].at = "raw"
    BY <1>29 DEF ReleaseRaw, At
  <2>2. PICK g \in Snapshot(w, n) : raw' = [raw EXCEPT ![n] = g]
    BY <1>2, <1>29 DEF ReleaseRaw
  <2>3. raw'[n] = g /\ \A m \in Names : m # n => raw'[m] = raw[m]
    BY <1>4, <2>2
  <2>4. promise[n].saving \cup promise[n].kept \subseteq walk[w].stayed
    BY <1>2, <1>3, <2>1 DEF Saved
  <2>5. CASE Disturbed(w)
    <3> DEFINE q == [promise[n] EXCEPT !.saving = {}, !.kept = {}]
    <3>1. promise[n] \in Promise /\ promise' = [promise EXCEPT ![n] = q]
      BY <1>2, <1>4, <1>29, <2>5 DEF ReleaseRaw
    <3>2. /\ q.saving = {} /\ q.kept = {} /\ q.acked = promise[n].acked
          /\ q.calls = promise[n].calls
      BY <3>1 DEF Promise
    <3> HIDE DEF q
    <3>3. promise'[n] = q /\ \A m \in Names : m # n => promise'[m] = promise[m]
      BY <1>4, <3>1
    <3>4. Filed(n)' /\ Known(n)' /\ Promised(n)' \subseteq Promised(n)
      BY <3>2, <3>3 DEF Filed, Known, Promised
    <3>5. Remembered(n)'
      BY <1>7, <1>28, <2>1, <3>2, <3>3 DEF Remembered, InMemory
    <3>6. /\ work'[w].op = "release" /\ work'[w].name = n /\ work'[w].at = "bin"
      BY <1>5, <2>1
    <3>7. Saved(w)'
      BY <1>28, <2>1, <3>2, <3>3, <3>6 DEF Saved
    <3> QED BY <1>10, <2>1, <3>2, <3>3, <3>4, <3>5, <3>7
  <2>6. CASE ~ Disturbed(w)
    <3>1. UNCHANGED promise
      BY <1>29, <2>6 DEF ReleaseRaw
    <3>2. g = walk[w].stayed
      BY <2>2, <2>6 DEF Snapshot, Disturbed
    <3>3. walk[w].stayed \in SUBSET Doc
      <4>1. walk[w] \in [stayed : SUBSET Doc, met : SUBSET Doc]
        BY <1>4 DEF TypeInv, TypeOK
      <4> QED BY <4>1
    <3>4. Complete(raw'[n])
      BY <2>3, <3>2, <3>3, FilesAssumption DEF Complete
    <3>5. \A d \in promise[n].saving \cup promise[n].kept : InRaw(n, d)'
      BY <2>3, <2>4, <3>2, <3>4 DEF InRaw
    <3>6. \A d \in promise[n].kept : InBin(n, d)'
      BY <1>3, <1>7, <2>1 DEF Kept, Filed, InBin, Complete
    <3>7. Filed(n)'
      BY <3>1, <3>5, <3>6 DEF Filed
    <3>8. /\ work'[w].op = "release" /\ work'[w].name = n /\ work'[w].at = "bin"
      BY <1>5, <2>1
    <3>9. Saved(w)'
      BY <1>28, <2>1, <3>1, <3>5, <3>8 DEF Saved
    <3> QED BY <1>10, <1>11, <1>13, <1>15, <2>1, <3>1, <3>7, <3>9
  <2> QED BY <2>5, <2>6
<1>33. CASE ReleasePanics(w)
  <2>1. /\ UNCHANGED <<promise, raw, bin, graph, index, exists, listed>> /\ Return(w)
        /\ loaded' \subseteq loaded
    BY <1>33 DEF ReleasePanics
  <2>2. Remembered(n)'
    BY <1>3, <1>7, <2>1 DEF Kept, Remembered, InMemory
  <2> QED BY <1>10, <1>11, <1>14, <1>15, <2>1, <2>2
<1>30. CASE ReleaseBin(w)
  <2>1. /\ UNCHANGED <<promise, raw, graph, index, loaded, exists, listed>> /\ work[w].op = "release"
        /\ Go(w, "flag") /\ bin' = [bin EXCEPT ![n] = index[n]] /\ work[w].at = "bin"
    BY <1>2, <1>30 DEF ReleaseBin, At
  <2>2. bin'[n] = index[n] /\ Complete(bin'[n])
    <3>1. bin'[n] = index[n] /\ index[n] \in (SUBSET Doc) \cup (SUBSET Posting)
      BY <1>4, <2>1
    <3>2. index[n] \notin {NoFile, Torn}
      BY <3>1, FilesAssumption
    <3> QED BY <3>1, <3>2 DEF Complete
  <2>3. Filed(n)'
    BY <1>3, <1>7, <1>28, <2>1, <2>2 DEF Kept, Filed, InMemory, InRaw, InBin, Complete
  <2>4. Saved(w)'
    <3>1. \A d \in promise[n].saving : InBin(n, d)'
      BY <1>7, <1>28, <2>1, <2>2 DEF InMemory, InBin
    <3>2. \A d \in promise[n].saving : InRaw(n, d)'
      BY <1>2, <1>3, <2>1 DEF Saved, InRaw, Complete
    <3> QED BY <1>5, <1>28, <2>1, <3>1, <3>2 DEF Saved
  <2> QED BY <1>10, <1>11, <1>13, <1>15, <2>1, <2>3, <2>4
<1>31. CASE ReleaseFails(w)
  <2> DEFINE D == IF files' = files THEN promise[n].kept ELSE {}
             q == [NoPromise EXCEPT !.kept = D]
  <2>1. Return(w) /\ promise' = [promise EXCEPT ![n] = q] /\ UNCHANGED <<exists, listed>>
        /\ n \notin loaded'
    BY <1>2, <1>31 DEF ReleaseFails, MemFree
  <2>2. q.acked = {} /\ q.saving = {} /\ q.calls = {} /\ q.kept = D
    BY DEF NoPromise
  <2> HIDE DEF q
  <2>3. promise'[n] = q /\ \A m \in Names : m # n => promise'[m] = promise[m]
    BY <1>4, <2>1
  <2>4. Filed(n)'
    BY <1>3, <1>7, <2>2, <2>3 DEF Kept, Filed, InRaw, InBin, Complete
  <2>5. Known(n)'
    BY <1>15, <2>1, <2>2, <2>3
  <2>6. Promised(n)' \subseteq Promised(n)
    BY <2>2, <2>3 DEF Promised
  <2> QED BY <1>10, <1>12, <2>1, <2>2, <2>3, <2>4, <2>5, <2>6
<1>32. CASE ReleaseFlag(w)
  <2> DEFINE q == [promise[n] EXCEPT !.acked = promise[n].saving, !.kept = promise[n].saving]
  <2>1. promise[n] \in Promise /\ promise' = [promise EXCEPT ![n] = q]
    BY <1>2, <1>4, <1>32 DEF ReleaseFlag
  <2>2. q.acked = promise[n].saving /\ q.saving = promise[n].saving /\ q.kept = promise[n].saving
        /\ q.calls = promise[n].calls
    BY <2>1 DEF Promise
  <2> HIDE DEF q
  <2>3. promise'[n] = q /\ \A m \in Names : m # n => promise'[m] = promise[m]
    BY <1>4, <2>1
  <2>4. UNCHANGED <<raw, bin, listed, exists>> /\ Return(w) /\ n \notin loaded'
        /\ work[w].op = "release" /\ work[w].at = "flag"
    BY <1>2, <1>32 DEF ReleaseFlag, At
  <2>5. \A d \in promise[n].saving : InRaw(n, d) /\ InBin(n, d)
    BY <1>2, <1>3, <2>4 DEF Saved
  <2>6. Filed(n)'
    BY <1>7, <2>2, <2>3, <2>4, <2>5 DEF Filed, InRaw, InBin, Complete
  <2>7. Known(n)'
    BY <1>28, <2>4 DEF Known
  <2>8. Promised(n)' \subseteq Promised(n)
    BY <2>2, <2>3 DEF Promised
  <2> QED BY <1>10, <1>12, <2>2, <2>3, <2>4, <2>6, <2>7, <2>8
<1> QED BY <1>19, <1>20, <1>21, <1>22, <1>23, <1>24, <1>25, <1>26, <1>27, <1>29, <1>30, <1>31,
           <1>32, <1>33 DEF AdminStep

\* The start of a call on a collection: what is left to show.
LEMMA AdminStarts ==
  ASSUME TypeInv, PromiseInv, NEW w \in Workers, NEW n \in Names, NEW op \in AdminOps, NEW at,
         Admins = {}, ~ Busy(w), work' = [work EXCEPT ![w] = Call(op, at, n)],
         UNCHANGED <<docs, index, raw, bin, lastId, spoiled, process, exists, loaded, listed, lost, born>>,
         \A m \in Names : m # n => /\ graph'[m] = graph[m] /\ promise'[m] = promise[m]
                                   /\ (m \in graphs' <=> m \in graphs),
         Promised(n)' \subseteq Promised(n), promise'[n].calls = {},
         promise'[n].kept \subseteq promise[n].kept,
         Remembered(n)', Saved(w)'
  PROVE  Promises'
<1>1. work'[w] = Call(op, at, n) /\ \A v \in Workers : v # w => work'[v] = work[v]
  BY DEF TypeInv, TypeOK
<1>2. Call(op, at, n).op = op /\ Call(op, at, n).name = n /\ op \notin DocOps
  BY DEF Call, AdminOps, DocOps
<1>3. work[w].op \notin DocOps
  BY DEF Busy, Idle, DocOps
<1>4. \A m : Changes(m)' = Changes(m) /\ \A v \in Changes(m) : work'[v] = work[v]
  BY <1>1, <1>2, <1>3 DEF Changes
<1>5. Admins' = {w} /\ \A m : AdminOn(m)' => m = n
  <2>1. Admins' = {w}
    BY <1>1, <1>2 DEF Admins
  <2> QED BY <1>1, <1>2, <2>1 DEF AdminOn
<1>6. ASSUME NEW m \in Names PROVE Kept(m)'
  <2>1. Kept(m)
    BY DEF PromiseInv, Promises
  <2>2. Promised(m)' \subseteq Promised(m) /\ promise'[m].kept \subseteq promise[m].kept
    BY DEF Promised
  <2>3. Untouched(m)'
    BY <1>4, <2>1, <2>2 DEF Kept, Untouched
  <2>4. Remembered(m)'
    BY <2>1 DEF Kept, Remembered, InMemory
  <2>5. Filed(m)'
    BY <2>1, <2>2 DEF Kept, Filed, InRaw, InBin, Complete
  <2>6. Known(m)'
    BY <2>1, <2>2 DEF Kept, Known
  <2>7. CallsCount(m)'
    BY <1>5, <2>1 DEF Kept, CallsCount
  <2> QED BY <2>3, <2>4, <2>5, <2>6, <2>7 DEF Kept
<1>7. \A v \in Admins' : Saved(v)'
  BY <1>1, <1>5
<1>8. ASSUME NEW v \in Workers PROVE Made(v)'
  <2>1. CASE work'[v].op \in DocOps
    <3>1. v # w
      BY <1>1, <1>2, <2>1
    <3>2. work'[v] = work[v] /\ Made(v) /\ work[v].name \in Names
      BY <1>1, <2>1, <3>1, OnName DEF PromiseInv, Promises
    <3>3. CASE work[v].name = n
      BY <3>2, <3>3 DEF Made
    <3>4. CASE work[v].name # n
      <4>1. Holds(v)' <=> Holds(v)
        BY <3>2, <3>4 DEF Holds
      <4> QED BY <3>2, <3>4, <4>1 DEF Made
    <3> QED BY <3>3, <3>4
  <2>2. CASE work'[v].op \notin DocOps
    BY <2>2 DEF Made
  <2> QED BY <2>1, <2>2
<1> QED BY <1>6, <1>7, <1>8 DEF Promises

\* The start of a call.
LEMMA BeginPromised ==
  ASSUME OneAdmin, TypeInv, ServedInv, PromiseInv, NEW w \in Workers, Begin(w)
  PROVE  Promises'
<1> USE DEF log, files, flags, memory, between
<1>0. PICK f \in [1 .. lastId -> Keys] : KeysAre(f)
  BY DEF PromiseInv, OneKey
<1>1. \A op, at, n : /\ Call(op, at, n).op = op /\ Call(op, at, n).at = at
                     /\ Call(op, at, n).name = n
  BY DEF Call
<1>2. promise \in [Names -> Promise] /\ graph \in [Names -> SUBSET Doc]
  BY DEF TypeInv, TypeOK, Promise
<1>3. ASSUME Admins = {}, NEW n \in Names PROVE Kept(n) /\ Sound(n)
  BY <1>3 DEF PromiseInv, Promises, ServedInv, AdminOn
<1>4. ASSUME NEW n \in Names, CreateBegin(w, n) PROVE Promises'
  <2>1. /\ Admins = {} /\ ~ Busy(w) /\ work' = [work EXCEPT ![w] = Call("create", "config", n)]
        /\ UNCHANGED <<docs, graph, index, raw, bin, lastId, spoiled, process, exists, loaded, listed, promise,
                       lost, born, graphs>>
        /\ n \notin exists
    BY <1>4 DEF CreateBegin, BeginAdmin
  <2>2. n \notin loaded
    BY <1>3, <2>1 DEF Sound
  <2>3. Remembered(n)' /\ promise'[n].calls = {} /\ Promised(n)' \subseteq Promised(n)
    BY <1>3, <2>1, <2>2 DEF Remembered, Kept, CallsCount, Promised
  <2>4. Saved(w)'
    BY <1>1, <2>1 DEF Saved, TypeInv, TypeOK
  <2> QED BY <2>1, <2>3, <2>4, AdminStarts DEF AdminOps
<1>5. ASSUME NEW n \in Names, DropBegin(w, n) PROVE Promises'
  <2>1. /\ Admins = {} /\ ~ Busy(w) /\ work' = [work EXCEPT ![w] = Call("drop", "clear", n)]
        /\ UNCHANGED <<docs, index, raw, bin, lastId, spoiled, process, exists, loaded, listed, lost, born>>
        /\ promise' = [promise EXCEPT ![n] = NoPromise] /\ graph' = [graph EXCEPT ![n] = {}]
        /\ graphs' = graphs \ {n}
    BY <1>5 DEF DropBegin, BeginAdmin, ForgetGraph
  <2>2. promise'[n] = NoPromise /\ \A m \in Names : m # n => graph'[m] = graph[m] /\ promise'[m] = promise[m]
    BY <1>2, <2>1
  <2>3. Remembered(n)' /\ promise'[n].calls = {} /\ Promised(n)' \subseteq Promised(n)
        /\ promise'[n].kept = {} /\ promise'[n].acked = {}
    BY <2>2 DEF NoPromise, Remembered, Promised
  <2>4. Saved(w)'
    BY <1>1, <2>1, <2>3 DEF Saved, TypeInv, TypeOK
  <2> QED BY <2>1, <2>2, <2>3, <2>4, AdminStarts DEF AdminOps
<1>6. ASSUME NEW n \in Names, LoadBegin(w, n) PROVE Promises'
  <2> DEFINE q == [promise[n] EXCEPT !.calls = {}]
  <2>1. /\ Admins = {} /\ ~ Busy(w) /\ work' = [work EXCEPT ![w] = Call("load", "config", n)]
        /\ UNCHANGED <<docs, graph, index, raw, bin, lastId, spoiled, process, exists, loaded, listed,
                       lost, born, graphs>>
        /\ promise' = [promise EXCEPT ![n] = q] /\ n \notin loaded /\ promise[n] \in Promise
    BY <1>2, <1>6 DEF LoadBegin, BeginAdmin
  <2>2. /\ q.calls = {} /\ q.acked = promise[n].acked /\ q.saving = promise[n].saving
        /\ q.kept = promise[n].kept
    BY <2>1 DEF Promise
  <2> HIDE DEF q
  <2>3. promise'[n] = q /\ \A m \in Names : m # n => promise'[m] = promise[m]
    BY <1>2, <2>1
  <2>4. Remembered(n)' /\ Promised(n)' \subseteq Promised(n)
    BY <2>1, <2>2, <2>3 DEF Remembered, Promised
  <2>5. Saved(w)'
    BY <1>1, <2>1 DEF Saved, TypeInv, TypeOK
  <2> QED BY <2>1, <2>2, <2>3, <2>4, <2>5, AdminStarts DEF AdminOps
<1>7. ASSUME NEW n \in Names, ReleaseBegin(w, n) PROVE Promises'
  <2> DEFINE q == [promise[n] EXCEPT !.calls = {}, !.saving = promise[n].acked]
  <2>1. /\ Admins = {} /\ ~ Busy(w) /\ work' = [work EXCEPT ![w] = Call("release", "raw", n)]
        /\ UNCHANGED <<docs, graph, index, raw, bin, lastId, spoiled, process, exists, loaded, listed,
                       lost, born, graphs>>
        /\ promise' = [promise EXCEPT ![n] = q] /\ n \in loaded /\ promise[n] \in Promise
    BY <1>2, <1>7 DEF ReleaseBegin, BeginAdmin
  <2>2. /\ q.calls = {} /\ q.acked = promise[n].acked /\ q.saving = promise[n].acked
        /\ q.kept = promise[n].kept
    BY <2>1 DEF Promise
  <2> HIDE DEF q
  <2>3. promise'[n] = q /\ \A m \in Names : m # n => promise'[m] = promise[m]
    BY <1>2, <2>1
  <2>4. Remembered(n)' /\ Promised(n)' \subseteq Promised(n)
    BY <1>3, <2>1, <2>2, <2>3 DEF Kept, Remembered, InMemory, Promised
  <2>5. work'[w] = Call("release", "raw", n) /\ walk'[w].stayed = graph[n]
    BY <1>2, <1>7 DEF ReleaseBegin, BeginAdmin, TypeInv, TypeOK
  <2>6. Saved(w)'
    <3>1. promise[n].acked \cup promise[n].kept \subseteq graph[n]
      BY <1>3, <2>1 DEF Kept, Remembered, InMemory
    <3> QED BY <1>1, <2>1, <2>2, <2>3, <2>5, <3>1 DEF Saved
  <2> QED BY <2>1, <2>2, <2>3, <2>4, <2>6, AdminStarts DEF AdminOps
<1>8. PICK n \in Names :
           \/ CreateBegin(w, n) \/ DropBegin(w, n) \/ LoadBegin(w, n) \/ ReleaseBegin(w, n)
           \/ \E c : Takes(w, n, c)
  BY <1>0, BeginTakes
<1> QED BY <1>4, <1>5, <1>6, <1>7, <1>8, TakesPromised

\* Steps that change nothing but what the process knows of its collections.
LEMMA SamePromised ==
  ASSUME PromiseInv, \A n \in Names : Known(n)',
         UNCHANGED <<docs, lastId, promise, raw, bin, graph, index, loaded, work, spoiled,
                     walk, lost, graphs, born>>
  PROVE  Promises'
<1>1. Admins' = Admins /\ \A n : Changes(n)' = Changes(n) /\ (AdminOn(n)' <=> AdminOn(n))
  BY DEF Admins, Changes, AdminOn
<1>2. ASSUME NEW n \in Names PROVE Kept(n)'
  <2>1. Kept(n)
    BY DEF PromiseInv, Promises
  <2>2. Untouched(n)' /\ Remembered(n)' /\ Filed(n)'
    BY <1>1, <2>1 DEF Kept, Untouched, Promised, Remembered, InMemory, Filed, InRaw, InBin, Complete
  <2>3. CallsCount(n)'
    BY <1>1, <2>1 DEF Kept, CallsCount
  <2> QED BY <2>2, <2>3 DEF Kept
<1>3. \A w \in Admins' : Saved(w)'
  <2> SUFFICES ASSUME NEW w \in Admins PROVE Saved(w)'
    BY <1>1
  <2>1. Saved(w)
    BY DEF PromiseInv, Promises
  <2> QED BY <2>1 DEF Saved, InRaw, InBin, Complete
<1>4. \A w \in Workers : Made(w)'
  <2> SUFFICES ASSUME NEW w \in Workers PROVE Made(w)'
    OBVIOUS
  <2>1. Made(w) /\ (Holds(w)' <=> Holds(w))
    BY DEF PromiseInv, Promises, Holds
  <2> QED BY <2>1 DEF Made
<1> QED BY <1>2, <1>3, <1>4 DEF Promises

\* The steps of the process.
LEMMA ProcessPromised ==
  ASSUME TypeInv, ServedInv, PromiseInv, CloseBegin \/ CloseEnd \/ Crash \/ Start
  PROVE  Promises'
<1> USE DEF log, files, flags, memory, between, history
\* When the process ends, all that is left is what is in the files.
<1>1. ASSUME NEW names, Forget(names), UNCHANGED <<docs, listed, lastId, lost>>,
             \A n \in Names : /\ Promised(n)' \subseteq Promised(n) /\ promise'[n].calls = {}
                              /\ promise'[n].kept \subseteq promise[n].kept
                              /\ promise'[n].kept # {} => raw'[n] = raw[n] /\ bin'[n] = bin[n]
      PROVE  Promises'
  <2>1. /\ \A w \in Workers : work'[w] = Idle
        /\ loaded' = {} /\ process' = "down"
    BY <1>1 DEF Forget
  <2>2. Admins' = {} /\ \A n : Changes(n)' = {}
    BY <2>1 DEF Admins, Changes, Idle, AdminOps, DocOps
  <2>3. ASSUME NEW n \in Names PROVE Kept(n)'
    <3>1. Kept(n) /\ Promised(n)' \subseteq Promised(n) /\ promise'[n].calls = {}
          /\ promise'[n].kept \subseteq promise[n].kept
          /\ (promise'[n].kept # {} => raw'[n] = raw[n] /\ bin'[n] = bin[n])
      BY <1>1 DEF PromiseInv, Promises
    <3>2. Untouched(n)'
      BY <1>1, <2>2, <3>1 DEF Kept, Untouched
    <3>3. Remembered(n)' /\ CallsCount(n)'
      BY <2>1, <3>1 DEF Remembered, CallsCount
    <3>4. Filed(n)'
      BY <1>1, <3>1 DEF Kept, Filed, InRaw, InBin, Complete
    <3>5. Known(n)'
      BY <1>1, <2>1, <3>1 DEF Kept, Known
    <3> QED BY <3>2, <3>3, <3>4, <3>5 DEF Kept
  <2>4. \A w \in Workers : Made(w)'
    BY <2>1 DEF Made, Idle, DocOps
  <2> QED BY <2>2, <2>3, <2>4 DEF Promises
<1>2. CASE Crash
  <2>1. \A n \in Names : promise'[n] = [NoPromise EXCEPT !.kept =
                    IF raw'[n] = raw[n] /\ bin'[n] = bin[n] THEN promise[n].kept ELSE {}]
    BY <1>2 DEF Crash
  <2>2. ASSUME NEW n \in Names
        PROVE  /\ promise'[n].calls = {} /\ promise'[n].acked = {} /\ promise'[n].saving = {}
               /\ promise'[n].kept = IF raw'[n] = raw[n] /\ bin'[n] = bin[n] THEN promise[n].kept ELSE {}
    BY <2>1 DEF NoPromise
  <2>3. UNCHANGED <<docs, listed, lastId, lost>> /\ \E names : Forget(names)
    BY <1>2 DEF Crash
  <2> QED BY <1>1, <2>2, <2>3 DEF Promised
<1>3. CASE CloseEnd
  <2>1. /\ Forget({}) /\ UNCHANGED <<docs, listed, lastId, promise, raw, bin, lost>> /\ loaded = {}
    BY <1>3 DEF CloseEnd
  <2>2. \A n \in Names : promise[n].calls = {}
    BY <2>1 DEF PromiseInv, Promises, Kept, CallsCount
  <2> QED BY <1>1, <2>1, <2>2 DEF Promised
<1>4. CASE CloseBegin
  <2>1. \A n \in Names : Known(n)'
    BY <1>4 DEF CloseBegin, PromiseInv, Promises, Kept, Known
  <2> QED BY <1>4, <2>1, SamePromised DEF CloseBegin
<1>5. CASE Start
  <2>1. \A n \in Names : Known(n)'
    BY <1>5 DEF Start, PromiseInv, Promises, Kept, Known
  <2> QED BY <1>5, <2>1, SamePromised DEF Start
<1> QED BY <1>2, <1>3, <1>4, <1>5

\* The promises are kept as long as calls on collections wait for each other.
LEMMA PromisesHold == OneAdmin /\ Spec => []PromiseInv
<1> SUFFICES ASSUME OneAdmin PROVE Spec => []PromiseInv
  OBVIOUS
<1>1. Init => PromiseInv
  <2> SUFFICES ASSUME Init PROVE PromiseInv
    OBVIOUS
  <2>1. Admins = {} /\ \A n : Changes(n) = {}
    BY DEF Init, Admins, Changes, Idle, AdminOps, DocOps
  <2>2. \A n \in Names : promise[n] = NoPromise
    BY DEF Init
  <2>3. \A n \in Names : Kept(n)
    BY <2>2 DEF NoPromise, Promised, Kept, Untouched, Remembered, Filed, Known, CallsCount
  <2>4. \A w \in Workers : Made(w)
    BY DEF Init, Made, Idle, DocOps
  <2> QED BY <2>1, <2>3, <2>4, KeysInit DEF PromiseInv, RivalsSpoil, Promises
<1>2. TypeInv /\ ServedInv /\ PromiseInv /\ [Next]_vars => PromiseInv'
  <2> SUFFICES ASSUME TypeInv, ServedInv, PromiseInv, [Next]_vars PROVE PromiseInv'
    OBVIOUS
  <2>1. OneKey' /\ RivalsSpoil'
    BY KeysStep, RivalsStep DEF PromiseInv
  <2>2. CASE Next
    <3>1. Promises'
      BY <2>2, BeginPromised, AdminPromised, ChangePromised, ProcessPromised DEF Next
    <3> QED BY <2>1, <3>1 DEF PromiseInv
  <2>3. CASE UNCHANGED vars
    <3>1. \A n \in Names : Known(n)'
      BY <2>3 DEF vars, log, files, flags, memory, between, history, PromiseInv, Promises, Kept, Known
    <3>2. Promises'
      BY <2>3, <3>1, SamePromised DEF vars, log, files, flags, memory, between, history
    <3> QED BY <2>1, <3>2 DEF PromiseInv
  <2> QED BY <2>2, <2>3
<1> QED BY <1>1, <1>2, TypesHold, ServedHolds, PTL DEF Spec

\* A document that was acknowledged and that no call has changed since is found
\* in the graph and in the log, and in the index too unless that lost a posting
\* with a column, for any collections, handlers, failures and crashes
\* (core.go:398-631, bitmap_index.go:85-121).
THEOREM AckedAreFound == OneAdmin /\ Spec => []AckedFound
<1>1. TypeInv /\ PromiseInv => AckedFound
  <2> SUFFICES ASSUME TypeInv, PromiseInv, NEW n \in loaded, NEW d \in promise[n].acked
               PROVE  /\ d \in graph[n] /\ d \in docs[n]
                      /\ n \notin lost => PostingsOf(d) \subseteq index[n]
    BY DEF AckedFound
  <2>1. n \in Names
    BY DEF TypeInv, TypeOK
  <2> QED BY <2>1 DEF PromiseInv, Promises, Kept, Untouched, Promised, Remembered, InMemory
<1> QED BY <1>1, TypesHold, PromisesHold, PTL

\* What was acknowledged when a release that succeeded began is in both files,
\* until it is changed or a later save is cut short, if the graph was left alone
\* while it was walked, and in the second if no posting was lost with a column
\* (core.go:337-396, core_helper.go:68-76, 147-158; hnsw_commit.go:98-160).
THEOREM ReleasedAreKept == OneAdmin /\ Spec => []ReleasedSurvive
<1>1. PromiseInv => ReleasedSurvive
  BY DEF PromiseInv, Promises, Kept, Filed, InRaw, InBin, Complete, ReleasedSurvive
<1> QED BY <1>1, PromisesHold, PTL

-----------------------------------------------------------------------------
(* What the searches and the log agree on *)

\* No call that the code does not order has met another on the collection, and no
\* posting went with a column.
Clean(n) == n \notin exposed \cup lost /\ \A k \in Keys : <<n, k>> \notin spoiled

Has(S, i) == {x \in S : x.id = i}
Single(D) == \A d, e \in D : d.id = e.id => d = e

\* What the graph, the log and the index have of the document of a change.
GraphOf(call) ==
  IF call.op = "insert"
  THEN IF call.at \in {"put", "undo log", "undo graph"} THEN {call.doc} ELSE {}
  ELSE IF call.at \in {"remove", "drop", "unlink"} THEN {call.old}
  ELSE IF call.at = "put" THEN {call.doc} ELSE {}
LogOf(call) == IF call.op = "insert" THEN {} ELSE {call.old}
IndexOf(call) ==
  IF call.op = "insert"
  THEN IF call.at \in {"add", "drop"} THEN {} ELSE PostingsOf(call.doc)
  ELSE IF call.at = "remove" THEN PostingsOf(call.old)
  ELSE IF call.at \in {"insert", "put"} THEN PostingsOf(call.doc) ELSE {}

\* What they have of a document that no change is at.
Calm(n, i) == \A w \in Changes(n) : work[w].doc.id # i
Agreed(n, i) == /\ Has(graph[n], i) = Has(docs[n], i)
                /\ Has(index[n], i) = PostingsOfAll(Has(docs[n], i))
                /\ Single(Has(docs[n], i))
Midway(n, call) == LET i == call.doc.id IN
  /\ Has(graph[n], i) = GraphOf(call) /\ Has(docs[n], i) = LogOf(call)
  /\ Has(index[n], i) = IndexOf(call)
  /\ call.op # "insert" => call.graph = born[n]

\* A collection in memory; without changes, the whole of it; the same in files.
InStep(n) == /\ \A i \in 1 .. MaxDocs : Calm(n, i) => Agreed(n, i)
             /\ \A w \in Changes(n) : Midway(n, work[w])
Whole(n)  == graph[n] = docs[n] /\ index[n] = PostingsOfAll(docs[n]) /\ Single(docs[n])
Stored(n) == raw[n] = docs[n] /\ bin[n] = PostingsOfAll(docs[n]) /\ Single(docs[n])

\* How far a call on the collection has brought it.
Brought(w) ==
  LET call == work[w]
      n == call.name IN
  /\ call.op = "create" =>
       /\ docs[n] = {} /\ (call.at # "flag" => n \notin listed)
       /\ call.at \in {"index", "read", "list", "flag"} => graph[n] = {}
       /\ call.at \in {"read", "list", "flag"} => index[n] = {}
  /\ call.op = "drop" => /\ call.at \in {"read", "list", "flag"} => docs[n] = {}
                         /\ call.at = "flag" => n \notin listed
  /\ call.op = "load" => /\ Stored(n)
                         /\ call.at \in {"index", "flag"} => graph[n] = docs[n]
                         /\ call.at = "flag" => index[n] = PostingsOfAll(docs[n])
  /\ call.op = "release" => /\ n \in loaded /\ Whole(n)
                            /\ call.at = "raw" => walk[w].stayed = graph[n] /\ ~ Disturbed(w)
                            /\ call.at \in {"bin", "flag"} => raw[n] = docs[n]
                            /\ call.at = "flag" => bin[n] = PostingsOfAll(docs[n])

\* A change runs on a loaded collection, and no call on collections beside it.
Ordered(n) == Changes(n) # {} => n \in loaded /\ process = "up" /\ ~ AdminOn(n)

\* A collection that no call on collections is at.
Resting(n) == /\ n \in loaded => InStep(n)
              /\ n \notin loaded => IF n \in listed THEN Stored(n) ELSE docs[n] = {}
              /\ process # "down" /\ n \in listed => n \in exists

\* The inductive invariant.
AgreeOn(n) == /\ Ordered(n)
              /\ ~ AdminOn(n) => Resting(n)
              /\ \A w \in Admins : work[w].name = n => Brought(w)
AgreeInv == \A n \in Names : Clean(n) => AgreeOn(n)

\* The documents and postings of one id, in what a step makes of a set of them.
LEMMA HasMore ==
  ASSUME NEW S, NEW T, NEW i
  PROVE  Has(S \cup T, i) = Has(S, i) \cup Has(T, i)
BY DEF Has

\* So with what is taken away.
LEMMA HasLess ==
  ASSUME NEW S, NEW T, NEW i
  PROVE  Has(S \ T, i) = Has(S, i) \ T
BY DEF Has

\* And with all of the id.
LEMMA HasOthers ==
  ASSUME NEW S, NEW i
  PROVE  Has({e \in S : e.id # i}, i) = {}
BY DEF Has

\* A document and its postings are all of its id.
LEMMA HasPostings ==
  ASSUME NEW d
  PROVE  Has(PostingsOf(d), d.id) = PostingsOf(d) /\ Has({d}, d.id) = {d}
BY DEF Has, PostingsOf

\* The postings of no document and of one.
LEMMA PostingsOfFew ==
  /\ PostingsOfAll({}) = {}
  /\ \A d : PostingsOfAll({d}) = PostingsOf(d)
BY DEF PostingsOfAll

\* What agrees on each id agrees on the whole.
LEMMA WholeIs ==
  ASSUME NEW G \in SUBSET Doc, NEW D \in SUBSET Doc, NEW P \in SUBSET Posting
  PROVE  (\A i \in 1 .. MaxDocs : /\ Has(G, i) = Has(D, i)
                                  /\ Has(P, i) = PostingsOfAll(Has(D, i))
                                  /\ Single(Has(D, i)))
         <=> G = D /\ P = PostingsOfAll(D) /\ Single(D)
<1> DEFINE AgreeAt(i) == /\ Has(G, i) = Has(D, i) /\ Has(P, i) = PostingsOfAll(Has(D, i))
                        /\ Single(Has(D, i))
<1>1. /\ \A d \in G \cup D : d.id \in 1 .. MaxDocs
      /\ \A p \in P : p.id \in 1 .. MaxDocs
  BY DEF Doc, Posting
<1>2. \A d : \A p \in PostingsOf(d) : p.id = d.id
  BY DEF PostingsOf
<1>3. ASSUME \A i \in 1 .. MaxDocs : AgreeAt(i)
      PROVE  G = D /\ P = PostingsOfAll(D) /\ Single(D)
  <2>1. G = D
    <3>1. \A d \in G \cup D : Has(G, d.id) = Has(D, d.id)
      BY <1>1, <1>3
    <3> QED BY <3>1 DEF Has
  <2>2. Single(D)
    <3>1. \A d \in D : Single(Has(D, d.id))
      BY <1>1, <1>3
    <3> QED BY <3>1 DEF Has, Single
  <2>3. ASSUME NEW p \in P PROVE p \in PostingsOfAll(D)
    <3>1. Has(P, p.id) = PostingsOfAll(Has(D, p.id))
      BY <1>1, <1>3
    <3>2. p \in PostingsOfAll(Has(D, p.id))
      BY <3>1 DEF Has
    <3> QED BY <3>2 DEF PostingsOfAll, Has
  <2>4. ASSUME NEW p \in PostingsOfAll(D) PROVE p \in P
    <3>1. PICK d \in D : p \in PostingsOf(d)
      BY DEF PostingsOfAll
    <3>2. p \in PostingsOfAll(Has(D, d.id))
      BY <3>1 DEF PostingsOfAll, Has
    <3>3. Has(P, d.id) = PostingsOfAll(Has(D, d.id))
      BY <1>1, <1>3
    <3> QED BY <3>2, <3>3 DEF Has
  <2> QED BY <2>1, <2>2, <2>3, <2>4
<1>4. ASSUME G = D, P = PostingsOfAll(D), Single(D), NEW i \in 1 .. MaxDocs
      PROVE  AgreeAt(i)
  <2>1. Has(G, i) = Has(D, i) /\ Single(Has(D, i))
    BY <1>4 DEF Single, Has
  <2>2. Has(PostingsOfAll(D), i) = PostingsOfAll(Has(D, i))
    BY <1>2 DEF PostingsOfAll, Has
  <2> QED BY <1>4, <2>1, <2>2
<1> QED BY <1>3, <1>4

\* What has met no call out of order had met none before.
LEMMA CleanBefore ==
  ASSUME NEW n, Clean(n)', exposed \subseteq exposed', spoiled \subseteq spoiled', lost \subseteq lost'
  PROVE  Clean(n)
BY DEF Clean

\* No step is at the collection.
Spared(n) ==
  /\ UNCHANGED process
  /\ graph'[n] = graph[n] /\ index'[n] = index[n] /\ docs'[n] = docs[n]
  /\ raw'[n] = raw[n] /\ bin'[n] = bin[n] /\ born'[n] = born[n]
  /\ (n \in loaded' <=> n \in loaded) /\ (n \in exists' <=> n \in exists)
  /\ (n \in listed' <=> n \in listed)
  /\ \A v \in Workers :
       \/ /\ work'[v] = work[v]
          /\ work[v].op \in AdminOps /\ work[v].name = n => walk'[v] = walk[v]
       \/ /\ work[v].op \in AdminOps \cup DocOps => work[v].name # n
          /\ work'[v].op \in AdminOps \cup DocOps => work'[v].name # n

LEMMA SparedAgrees ==
  ASSUME NEW n \in Names, Spared(n), AgreeOn(n)
  PROVE  AgreeOn(n)'
<1>1. Changes(n)' = Changes(n) /\ \A w \in Changes(n) : work'[w] = work[w]
  BY DEF Spared, Changes
<1>2. \A w \in Workers : w \in Admins' /\ work'[w].name = n <=> w \in Admins /\ work[w].name = n
  BY DEF Spared, Admins
<1>3. \A w \in Admins : work[w].name = n => work'[w] = work[w] /\ walk'[w] = walk[w]
  BY DEF Spared, Admins
<1>4. AdminOn(n)' <=> AdminOn(n)
  BY <1>2 DEF AdminOn, Admins
<1>5. Ordered(n)'
  BY <1>1, <1>4 DEF AgreeOn, Ordered, Spared
<1>6. InStep(n) => InStep(n)'
  BY <1>1 DEF InStep, Calm, Agreed, Midway, Spared
<1>7. Stored(n) => Stored(n)'
  BY DEF Stored, Spared
<1>8. ~ AdminOn(n)' => Resting(n)'
  BY <1>4, <1>6, <1>7 DEF AgreeOn, Resting, Spared
<1>9. ASSUME NEW w \in Admins', work'[w].name = n PROVE Brought(w)'
  <2>1. work'[w] = work[w] /\ Brought(w) /\ work[w].name = n /\ walk'[w] = walk[w]
    BY <1>2, <1>3, <1>9 DEF AgreeOn, Admins
  <2> QED BY <1>7, <2>1 DEF Brought, Whole, Stored, Spared, Disturbed
<1> QED BY <1>5, <1>8, <1>9 DEF AgreeOn

\* What is on record of calls out of order stays so.
LEMMA HistoryGrows ==
  ASSUME [Next]_vars
  PROVE  exposed \subseteq exposed' /\ spoiled \subseteq spoiled' /\ lost \subseteq lost'
<1> USE DEF log, files, flags, memory, between, history, UnchangedByDocs
<1>1. ASSUME NEW w \in Workers, AdminStep(w)
      PROVE  exposed \subseteq exposed' /\ spoiled \subseteq spoiled' /\ lost \subseteq lost'
  BY <1>1 DEF AdminStep, CreateConfig, CreateIndex, CreateList, ClearConfig, ClearDocs, ReadList,
         DropList, DropFlag, LoadConfig, LoadGraph, LoadIndex, StateTrue, ReleaseRaw, ReleaseBin,
         ReleaseFails, ReleasePanics, ReleaseFlag
<1>2. ASSUME NEW w \in Workers, ChangeStep(w)
      PROVE  exposed \subseteq exposed' /\ spoiled \subseteq spoiled' /\ lost \subseteq lost'
  BY <1>2 DEF ChangeStep, ChangeAdd, ChangeInsert, ChangePut, ChangePutFails, InsertUndoLog,
         InsertUndoGraph, InsertUndoIndex, ChangeRemove, DropColumn, LoseColumn, ChangeUnlink, DeleteErase,
         Panic
<1>3. ASSUME NEW w \in Workers, Begin(w)
      PROVE  exposed \subseteq exposed' /\ spoiled \subseteq spoiled' /\ lost \subseteq lost'
  <2>1. ASSUME NEW n, CreateBegin(w, n) \/ DropBegin(w, n) \/ LoadBegin(w, n) \/ ReleaseBegin(w, n)
        PROVE  exposed \subseteq exposed' /\ spoiled \subseteq spoiled' /\ lost \subseteq lost'
    BY <2>1 DEF CreateBegin, DropBegin, LoadBegin, ReleaseBegin, BeginAdmin
  <2>2. ASSUME NEW n, NEW k, BeginChange(w, n, k), UNCHANGED lost
        PROVE  exposed \subseteq exposed' /\ spoiled \subseteq spoiled' /\ lost \subseteq lost'
    BY <2>2 DEF BeginChange
  <2>3. ASSUME NEW n, NEW k, DeleteBegin(w, n, k) PROVE BeginChange(w, n, k) /\ UNCHANGED lost
    BY <2>3 DEF DeleteBegin, FindBegin
  <2>4. ASSUME NEW n, NEW k, NEW t, InsertBegin(w, n, k, t) \/ UpdateBegin(w, n, k, t)
        PROVE  BeginChange(w, n, k) /\ UNCHANGED lost
    BY <2>4 DEF InsertBegin, UpdateBegin, FindBegin
  <2> QED BY <1>3, <2>1, <2>2, <2>3, <2>4 DEF Begin
<1>4. CASE CloseBegin \/ CloseEnd \/ Crash \/ Start
  BY <1>4 DEF CloseBegin, CloseEnd, Crash, Start, Forget
<1> QED BY <1>1, <1>2, <1>3, <1>4 DEF Next, vars

\* A step of a change leaves what the log has of other ids, and adds to it only
\* its document.
LEMMA ChangeLogs ==
  ASSUME TypeInv, NEW w \in Workers, ChangeStep(w)
  PROVE  docs'[work[w].name] \subseteq docs[work[w].name] \cup {work[w].doc}
<1> DEFINE n == work[w].name
           d == work[w].doc
<1>1. n \in Names /\ docs \in [Names -> SUBSET Doc]
  BY ChangeGoesOn DEF TypeInv, TypeOK
<1>2. \/ docs' = docs
      \/ docs' = [docs EXCEPT ![n] = {e \in docs[n] : e.id # d.id}]
      \/ docs' = [docs EXCEPT ![n] = {e \in docs[n] : e.id # d.id} \cup {d}]
  BY DEF ChangeStep, ChangeAdd, ChangeInsert, ChangePut, ChangePutFails, InsertUndoLog,
         InsertUndoGraph, InsertUndoIndex, ChangeRemove, DropColumn, ChangeUnlink, DeleteErase, Panic,
         PutDoc, DeleteDoc, UnchangedByDocs, log
<1> QED BY <1>1, <1>2

\* What a step of a change leaves to show: what there is of its own document.
LEMMA ChangeInStep ==
  ASSUME TypeInv, PromiseInv, NEW w \in Workers, ChangeStep(w),
         NEW n \in Names, NEW i, n = work[w].name, i = work[w].doc.id,
         Clean(n), n \notin lost', InStep(n),
         \/ work'[w] = Idle /\ Agreed(n, i)'
         \/ work'[w].op \in DocOps /\ Midway(n, work[w])'
  PROVE  InStep(n)'
<1>1. /\ work[w].op \in DocOps /\ w \in Changes(n) /\ work[w].doc \in Doc
      /\ \A v \in Workers : v # w => work'[v] = work[v]
      /\ \/ work'[w] = Idle
         \/ /\ work'[w].op = work[w].op /\ work'[w].name = n
            /\ work'[w].doc = work[w].doc
      /\ born' = born
  BY ChangeGoesOn DEF Changes, UnchangedByDocs
<1>2. PICK f : KeysAre(f)
  BY DEF PromiseInv, OneKey
<1>3. /\ Spares(n, i) /\ graph'[n] \subseteq graph[n] \cup {work[w].doc}
      /\ index'[n] \subseteq index[n] \cup PostingsOf(work[w].doc)
      /\ docs'[n] \subseteq docs[n] \cup {work[w].doc}
  <2>1. CallOf(f, work[w])
    BY <1>2 DEF KeysAre
  <2> QED BY <1>1, <2>1, ChangeTouches, ChangeLogs DEF CallOf
<1>4. ASSUME NEW j, j # i
      PROVE  Has(graph'[n], j) = Has(graph[n], j) /\ Has(docs'[n], j) = Has(docs[n], j)
             /\ Has(index'[n], j) = Has(index[n], j)
  <2>1. \A p \in PostingsOf(work[w].doc) : p.id = i
    BY DEF PostingsOf
  <2> QED BY <1>3, <1>4, <2>1 DEF Spares, Has
<1>5. Idle.op \notin DocOps
  BY DEF Idle, DocOps
<1>6. \A v \in Changes(n) : v # w => work[v].doc.id # i
  <2>1. <<n, work[w].doc.key>> \notin spoiled
    BY <1>1 DEF Clean, Doc
  <2> QED BY <1>1, <2>1, Alone DEF PromiseInv
<1>7. \A v \in Changes(n) : v # w => v \in Changes(n)' /\ work'[v] = work[v]
  BY <1>1 DEF Changes
<1>8. \A v \in Changes(n)' : v = w \/ (v \in Changes(n) /\ work'[v] = work[v])
  BY <1>1 DEF Changes
<1>9. ASSUME NEW j \in 1 .. MaxDocs, Calm(n, j)' PROVE Agreed(n, j)'
  <2>1. CASE j = i
    <3>1. w \notin Changes(n)'
      BY <1>1, <1>5, <1>9, <2>1 DEF Calm, Changes
    <3>2. work'[w].op \notin DocOps
      BY <1>1, <1>5, <3>1 DEF Changes
    <3> QED BY <2>1, <3>2
  <2>2. CASE j # i
    <3>1. Calm(n, j)
      BY <1>7, <1>9, <2>2 DEF Calm
    <3>2. Agreed(n, j)
      BY <3>1 DEF InStep
    <3> QED BY <1>4, <2>2, <3>2 DEF Agreed
  <2> QED BY <2>1, <2>2
<1>10. ASSUME NEW v \in Changes(n)' PROVE Midway(n, work[v])'
  <2>1. CASE v = w
    BY <1>5, <1>10, <2>1 DEF Changes
  <2>2. CASE v # w
    <3>1. v \in Changes(n) /\ work'[v] = work[v] /\ work[v].doc.id # i
      BY <1>6, <1>8, <2>2
    <3>2. Midway(n, work[v])
      BY <3>1 DEF InStep
    <3> QED BY <1>1, <1>4, <3>1, <3>2 DEF Midway
  <2> QED BY <2>1, <2>2
<1> QED BY <1>9, <1>10 DEF InStep

\* A step of a change on a collection keeps it in step.
LEMMA ChangeMidway ==
  ASSUME TypeInv, ServedInv, PromiseInv, NEW w \in Workers, ChangeStep(w),
         NEW n \in Names, n = work[w].name, Clean(n), Clean(n)', AgreeOn(n)
  PROVE  InStep(n)'
<1> USE DEF log, files, flags, memory, between, history, UnchangedByDocs
<1>0. PICK d, i, o : d = work[w].doc /\ i = work[w].doc.id /\ o = work[w].old
  OBVIOUS
<1>1. /\ work[w].op \in DocOps /\ w \in Changes(n) /\ d \in Doc /\ i \in 1 .. MaxDocs
      /\ work[w] \in Activity /\ work \in [Workers -> {Idle} \cup Activity]
      /\ graph \in [Names -> SUBSET Doc] /\ index \in [Names -> SUBSET Posting]
      /\ docs \in [Names -> SUBSET Doc]
  BY <1>0, ChangeGoesOn, OnName DEF Changes, TypeInv, TypeOK, Doc
<1>2. n \in loaded /\ ~ AdminOn(n) /\ n \in graphs /\ n \in indexes
  BY <1>1 DEF AgreeOn, Ordered, ServedInv, Sound
<1>3. InStep(n)
  BY <1>2 DEF AgreeOn, Resting
<1>4. Midway(n, work[w])
  BY <1>1, <1>3 DEF InStep
<1>5. d.key \in Keys /\ d.id = i /\ (work[w].op # "insert" => o.id = i /\ work[w].graph = born[n])
  <2>1. PICK f : KeysAre(f)
    BY DEF PromiseInv, OneKey
  <2>2. CallOf(f, work[w])
    BY <2>1 DEF KeysAre
  <2> QED BY <1>0, <1>1, <1>4, <2>2 DEF CallOf, Midway, Doc
<1>6. Has(PostingsOf(d), i) = PostingsOf(d) /\ Has({d}, i) = {d}
      /\ (work[w].op # "insert" => Has(PostingsOf(o), i) = PostingsOf(o))
  BY <1>5, HasPostings
<1>7. /\ Has(graph[n], i) = GraphOf(work[w]) /\ Has(docs[n], i) = LogOf(work[w])
      /\ Has(index[n], i) = IndexOf(work[w])
  BY <1>0, <1>4 DEF Midway
<1>8. ASSUME NEW at, Go(w, at)
      PROVE  /\ work'[w].op = work[w].op /\ work'[w].name = n /\ work'[w].doc = d
             /\ work'[w].at = at /\ work'[w].old = o /\ work'[w].graph = work[w].graph
  <2>1. work'[w] = [work[w] EXCEPT !.at = at]
    BY <1>1, <1>8 DEF Go
  <2> QED BY <1>0, <1>1, <2>1 DEF Activity
<1>9. Return(w) => work'[w] = Idle
  BY <1>1 DEF Return
\* What is left to show.
<1>10. ASSUME NEW at, Go(w, at),
              Has(graph'[n], i) = GraphOf(work'[w]), Has(docs'[n], i) = LogOf(work'[w]),
              Has(index'[n], i) = IndexOf(work'[w])
       PROVE  InStep(n)'
  <2>1. Midway(n, work[w])'
    <3>1. work'[w].doc.id = i /\ born' = born /\ (work'[w].op # "insert" => work'[w].graph = born[n])
      BY <1>0, <1>5, <1>8, <1>10, ChangeGoesOn
    <3> QED BY <1>10, <3>1 DEF Midway
  <2>2. work'[w].op \in DocOps /\ n \notin lost'
    BY <1>1, <1>8, <1>10 DEF Clean
  <2> QED BY <1>0, <1>3, <2>1, <2>2, ChangeInStep
<1>11. ASSUME Return(w), Agreed(n, i)' PROVE InStep(n)'
  <2>1. n \notin lost'
    BY DEF Clean
  <2> QED BY <1>0, <1>3, <1>9, <1>11, <2>1, ChangeInStep
<1>12. ~ (spoiled' = spoiled \cup {<<n, d.key>>}) /\ n \notin lost'
  BY <1>5 DEF Clean
<1>13. CASE ChangeAdd(w)
  <2>1. /\ Go(w, "insert") /\ columns[w] = {} /\ UNCHANGED <<graph, docs>> /\ work[w].at = "add"
        /\ index' = [index EXCEPT ![n] = index[n] \cup {p \in PostingsOf(d) : p.on \notin columns[w]}]
    BY <1>0, <1>12, <1>13 DEF ChangeAdd, AddPostings, At
  <2>2. Has(index'[n], i) = PostingsOf(d)
    <3>1. index'[n] = index[n] \cup PostingsOf(d)
      BY <1>1, <2>1
    <3>2. Has(index'[n], i) = Has(index[n], i) \cup Has(PostingsOf(d), i)
      BY <3>1, HasMore
    <3>3. Has(index[n], i) = {}
      BY <1>7, <2>1 DEF IndexOf
    <3> QED BY <1>6, <3>2, <3>3
  <2>8. /\ Has(graph'[n], i) = GraphOf(work'[w]) /\ Has(docs'[n], i) = LogOf(work'[w])
        /\ Has(index'[n], i) = IndexOf(work'[w])
    BY <1>0, <1>7, <1>8, <2>1, <2>2 DEF GraphOf, LogOf, IndexOf
  <2> QED BY <1>10, <2>1, <2>8
<1>14. CASE ChangeInsert(w)
  <2>1. UNCHANGED <<index, docs>> /\ work[w].at = "insert"
    BY <1>14 DEF ChangeInsert, At
  <2>2. Has(graph[n], i) = {}
    BY <1>7, <2>1 DEF GraphOf
  <2>3. ~ HasVertex(n, d)
    BY <1>5, <2>2 DEF HasVertex, Has
  <2>11. IF work[w].op = "insert" THEN n \in graphs ELSE Holds(w)
    BY <1>2, <1>5 DEF Holds
  <2>4. Go(w, "put") /\ graph' = [graph EXCEPT ![n] = graph[n] \cup {d}]
    BY <1>0, <1>14, <2>3, <2>11 DEF ChangeInsert
  <2>5. Has(graph'[n], i) = {d}
    <3>1. graph'[n] = graph[n] \cup {d}
      BY <1>1, <2>4
    <3> QED BY <1>6, <2>2, <3>1, HasMore, SMTT(30)
  <2>8. /\ work'[w].op = work[w].op /\ work'[w].doc = d /\ work'[w].old = o
        /\ work[w].doc = d /\ work[w].old = o
    BY <1>0, <1>8, <2>4
  <2>9. work'[w].at = "put"
    BY <1>8, <2>4
  <2>10. /\ Has(graph'[n], i) = GraphOf(work'[w]) /\ Has(docs'[n], i) = LogOf(work'[w])
        /\ Has(index'[n], i) = IndexOf(work'[w])
    BY <1>7, <2>1, <2>4, <2>5, <2>8, <2>9 DEF GraphOf, LogOf, IndexOf
  <2> QED BY <1>10, <2>4, <2>10
<1>15. CASE ChangePut(w)
  <2>1. /\ Return(w) /\ docs' = [docs EXCEPT ![n] = {e \in docs[n] : e.id # d.id} \cup {d}]
        /\ UNCHANGED <<graph, index>> /\ work[w].at = "put"
    BY <1>0, <1>15 DEF ChangePut, PutDoc, At
  <2>2. Has(docs'[n], i) = {d}
    <3>1. docs'[n] = {e \in docs[n] : e.id # i} \cup {d}
      BY <1>1, <1>5, <2>1
    <3>2. Has(docs'[n], i) = Has({e \in docs[n] : e.id # i}, i) \cup Has({d}, i)
      BY <3>1, HasMore
    <3> QED BY <1>6, <3>2, HasOthers
  <2>3. Has(graph[n], i) = {d} /\ Has(index[n], i) = PostingsOf(d)
    BY <1>0, <1>7, <2>1 DEF GraphOf, IndexOf
  <2>4. Agreed(n, i)'
    BY <2>1, <2>2, <2>3, PostingsOfFew DEF Agreed, Single
  <2> QED BY <1>11, <2>1, <2>4
<1>16. CASE ChangePutFails(w)
  <2>1. /\ Go(w, "undo log") /\ work[w].op = "insert" /\ work[w].at = "put"
        /\ UNCHANGED <<graph, index, docs>>
    BY <1>0, <1>12, <1>16 DEF ChangePutFails, At
  <2>2. /\ work'[w].op = "insert" /\ work'[w].doc = d /\ work[w].doc = d
        /\ work'[w].at = "undo log"
    BY <1>0, <1>8, <2>1
  <2>8. /\ Has(graph'[n], i) = GraphOf(work'[w]) /\ Has(docs'[n], i) = LogOf(work'[w])
        /\ Has(index'[n], i) = IndexOf(work'[w])
    BY <1>7, <2>1, <2>2 DEF GraphOf, LogOf, IndexOf
  <2> QED BY <1>10, <2>1, <2>8
<1>17. CASE InsertUndoLog(w)
  <2>1. /\ Go(w, "undo graph") /\ work[w].op = "insert" /\ work[w].at = "undo log"
        /\ UNCHANGED <<graph, index>> /\ docs' = [docs EXCEPT ![n] = {e \in docs[n] : e.id # d.id}]
    BY <1>0, <1>17 DEF InsertUndoLog, DeleteDoc, At
  <2>2. Has(docs'[n], i) = {}
    <3>1. docs'[n] = {e \in docs[n] : e.id # i}
      BY <1>1, <1>5, <2>1
    <3> QED BY <3>1, HasOthers
  <2>3. /\ work'[w].op = "insert" /\ work'[w].doc = d /\ work[w].doc = d
        /\ work'[w].at = "undo graph"
    BY <1>0, <1>8, <2>1
  <2>8. /\ Has(graph'[n], i) = GraphOf(work'[w]) /\ Has(docs'[n], i) = LogOf(work'[w])
        /\ Has(index'[n], i) = IndexOf(work'[w])
    BY <1>7, <2>1, <2>2, <2>3 DEF GraphOf, LogOf, IndexOf
  <2> QED BY <1>10, <2>1, <2>8
<1>18. CASE InsertUndoGraph(w)
  <2>1. /\ Go(w, "undo index") /\ work[w].op = "insert" /\ work[w].at = "undo graph"
        /\ UNCHANGED <<docs, index>> /\ graph' = [graph EXCEPT ![n] = {e \in graph[n] : e.id # d.id}]
    BY <1>0, <1>18 DEF InsertUndoGraph, DropVertex, At
  <2>2. Has(graph'[n], i) = {}
    <3>1. graph'[n] = {e \in graph[n] : e.id # i}
      BY <1>1, <1>5, <2>1
    <3> QED BY <3>1, HasOthers
  <2>8. /\ work'[w].op = work[w].op /\ work'[w].doc = d /\ work'[w].old = o
        /\ work[w].doc = d /\ work[w].old = o
    BY <1>0, <1>8, <2>1
  <2>9. work'[w].at = "undo index"
    BY <1>8, <2>1
  <2>10. /\ Has(graph'[n], i) = GraphOf(work'[w]) /\ Has(docs'[n], i) = LogOf(work'[w])
        /\ Has(index'[n], i) = IndexOf(work'[w])
    BY <1>7, <2>1, <2>2, <2>8, <2>9 DEF GraphOf, LogOf, IndexOf
  <2> QED BY <1>10, <2>1, <2>10
<1>19. CASE InsertUndoIndex(w)
  <2>1. /\ (Return(w) \/ Go(w, "drop")) /\ work[w].op = "insert" /\ work[w].at = "undo index"
        /\ UNCHANGED <<docs, graph>> /\ index' = [index EXCEPT ![n] = index[n] \ PostingsOf(d)]
    BY <1>0, <1>19 DEF InsertUndoIndex, DropPostings, At
  <2>2. Has(index'[n], i) = {}
    <3>1. index'[n] = index[n] \ PostingsOf(d) /\ Has(index[n], i) = PostingsOf(d)
      BY <1>0, <1>1, <1>7, <2>1 DEF IndexOf
    <3> QED BY <3>1, HasLess
  <2>3. Has(graph[n], i) = {} /\ Has(docs[n], i) = {}
    BY <1>7, <2>1 DEF GraphOf, LogOf
  <2>4. Agreed(n, i)'
    BY <2>1, <2>2, <2>3, PostingsOfFew DEF Agreed, Single
  <2>5. ASSUME Go(w, "drop") PROVE InStep(n)'
    <3>1. /\ work'[w].op = "insert" /\ work'[w].at = "drop"
      BY <1>8, <2>1, <2>5
    <3>2. /\ Has(graph'[n], i) = GraphOf(work'[w]) /\ Has(docs'[n], i) = LogOf(work'[w])
          /\ Has(index'[n], i) = IndexOf(work'[w])
      BY <2>1, <2>2, <2>3, <3>1 DEF GraphOf, LogOf, IndexOf
    <3> QED BY <1>10, <2>5, <3>2
  <2> QED BY <1>11, <2>1, <2>4, <2>5
<1>20. CASE ChangeRemove(w)
  <2> DEFINE next == IF Emptied(n) = {} THEN "unlink" ELSE "drop"
  <2>1. /\ Go(w, next) /\ work[w].op \in {"update", "delete"} /\ work[w].at = "remove"
        /\ UNCHANGED <<docs, graph>> /\ index' = [index EXCEPT ![n] = index[n] \ PostingsOf(o)]
    BY <1>0, <1>20 DEF ChangeRemove, DropPostings, At
  <2>11. next \in {"unlink", "drop"}
    OBVIOUS
  <2> HIDE DEF next
  <2>2. Has(index'[n], i) = {}
    <3>1. index'[n] = index[n] \ PostingsOf(o) /\ Has(index[n], i) = PostingsOf(o)
      BY <1>0, <1>1, <1>7, <2>1 DEF IndexOf
    <3> QED BY <3>1, HasLess
  <2>8. /\ work'[w].op = work[w].op /\ work'[w].doc = d /\ work'[w].old = o
        /\ work[w].doc = d /\ work[w].old = o
    BY <1>0, <1>8, <2>1
  <2>9. work'[w].at \in {"unlink", "drop"}
    BY <1>8, <2>1, <2>11
  <2>10. /\ Has(graph'[n], i) = GraphOf(work'[w]) /\ Has(docs'[n], i) = LogOf(work'[w])
        /\ Has(index'[n], i) = IndexOf(work'[w])
    BY <1>7, <2>1, <2>2, <2>8, <2>9 DEF GraphOf, LogOf, IndexOf
  <2> QED BY <1>10, <2>1, <2>10
<1>24. CASE DropColumn(w)
  <2>1. PICK c \in columns[w], late \in SUBSET Adding(n) : LoseColumn(w, n, c, late)
    BY <1>0, <1>24 DEF DropColumn
  <2>2. index'[n] = index[n]
    BY <1>12, <2>1 DEF LoseColumn
  <2>3. /\ work[w].at = "drop" /\ UNCHANGED <<docs, graph>>
        /\ IF columns'[w] # {} THEN Go(w, "drop")
           ELSE IF work[w].op = "insert" THEN Return(w) ELSE Go(w, "unlink")
    BY <1>24 DEF DropColumn, At
  <2>4. Has(index'[n], i) = {}
    BY <1>7, <2>2, <2>3 DEF IndexOf
  <2>5. ASSUME NEW at, Go(w, at), at = "drop" \/ (at = "unlink" /\ work[w].op # "insert")
        PROVE  InStep(n)'
    <3>1. /\ work'[w].op = work[w].op /\ work'[w].doc = d /\ work'[w].old = o
          /\ work[w].doc = d /\ work[w].old = o /\ work'[w].at = at
      BY <1>0, <1>8, <2>5
    <3>2. /\ Has(graph'[n], i) = GraphOf(work'[w]) /\ Has(docs'[n], i) = LogOf(work'[w])
          /\ Has(index'[n], i) = IndexOf(work'[w])
      BY <1>7, <2>3, <2>4, <2>5, <3>1 DEF GraphOf, LogOf, IndexOf
    <3> QED BY <1>10, <2>5, <3>2
  <2>6. ASSUME Return(w), work[w].op = "insert" PROVE InStep(n)'
    <3>1. Has(graph[n], i) = {} /\ Has(docs[n], i) = {}
      BY <1>7, <2>3, <2>6 DEF GraphOf, LogOf
    <3>2. Agreed(n, i)'
      BY <2>3, <2>4, <3>1, PostingsOfFew DEF Agreed, Single
    <3> QED BY <1>11, <2>6, <3>2
  <2> QED BY <2>3, <2>5, <2>6
<1>21. CASE ChangeUnlink(w)
  <2>1. work[w].op \in {"update", "delete"} /\ work[w].at = "unlink" /\ UNCHANGED <<docs, index>>
    BY <1>21 DEF ChangeUnlink, At
  <2>2. Holds(w)
    BY <1>2, <1>5, <2>1 DEF Holds
  <2>3. Has(graph[n], i) = {o}
    BY <1>0, <1>7, <2>1 DEF GraphOf
  <2>4. HasVertex(n, o)
    <3>1. o \in graph[n]
      BY <2>3 DEF Has
    <3> QED BY <3>1 DEF HasVertex
  <2>5. PICK on : on = IF work[w].op = "update" THEN "add" ELSE "erase"
    OBVIOUS
  <2>6. Go(w, on) /\ graph' = [graph EXCEPT ![n] = {e \in graph[n] : e.id # o.id}]
    BY <1>0, <1>21, <2>2, <2>4, <2>5 DEF ChangeUnlink, DropVertex
  <2>7. Has(graph'[n], i) = {}
    <3>1. graph'[n] = {e \in graph[n] : e.id # i}
      BY <1>1, <1>5, <2>1, <2>6
    <3> QED BY <3>1, HasOthers
  <2>8. /\ work'[w].op = work[w].op /\ work'[w].doc = d /\ work'[w].old = o
        /\ work[w].doc = d /\ work[w].old = o
    BY <1>0, <1>8, <2>6
  <2>9. work'[w].at = on
    BY <1>8, <2>6
  <2>10. /\ Has(graph'[n], i) = GraphOf(work'[w]) /\ Has(docs'[n], i) = LogOf(work'[w])
        /\ Has(index'[n], i) = IndexOf(work'[w])
    BY <1>7, <2>1, <2>5, <2>6, <2>7, <2>8, <2>9 DEF GraphOf, LogOf, IndexOf
  <2> QED BY <1>10, <2>6, <2>10
<1>22. CASE DeleteErase(w)
  <2>1. /\ Return(w) /\ work[w].op = "delete" /\ work[w].at = "erase"
        /\ UNCHANGED <<index, graph>> /\ docs' = [docs EXCEPT ![n] = {e \in docs[n] : e.id # d.id}]
    BY <1>0, <1>12, <1>22 DEF DeleteErase, DeleteDoc, At
  <2>2. Has(docs'[n], i) = {}
    <3>1. docs'[n] = {e \in docs[n] : e.id # i}
      BY <1>1, <1>5, <2>1
    <3> QED BY <3>1, HasOthers
  <2>3. Has(graph[n], i) = {} /\ Has(index[n], i) = {}
    BY <1>7, <2>1 DEF GraphOf, IndexOf
  <2>4. Agreed(n, i)'
    BY <2>1, <2>2, <2>3, PostingsOfFew DEF Agreed, Single
  <2> QED BY <1>11, <2>1, <2>4
<1>23. CASE Panic(w)
  BY <1>0, <1>12, <1>23 DEF Panic
<1> QED BY <1>13, <1>14, <1>15, <1>16, <1>17, <1>18, <1>19, <1>20, <1>21, <1>22, <1>23,
           <1>24 DEF ChangeStep

\* A step of a change keeps what agrees.
LEMMA ChangeAgrees ==
  ASSUME TypeInv, ServedInv, PromiseInv, AgreeInv, NEW w \in Workers, ChangeStep(w)
  PROVE  AgreeInv'
<1>0. PICK n : n = work[w].name
  OBVIOUS
<1>1. /\ work[w].op \in DocOps /\ n \in Names /\ w \in Changes(n) /\ UNCHANGED UnchangedByDocs
      /\ \A v \in Workers : v # w => work'[v] = work[v]
      /\ \/ work'[w] = Idle
         \/ work'[w].op = work[w].op /\ work'[w].name = n
      /\ Admins' = Admins /\ w \notin Admins
      /\ walk' = walk \/ WalkedOn(n)
  BY <1>0, ChangeGoesOn DEF Changes
<1>2. exposed \subseteq exposed' /\ spoiled \subseteq spoiled' /\ lost \subseteq lost'
  BY HistoryGrows DEF Next
<1>3. ASSUME NEW m \in Names, m # n PROVE Spared(m)
  <2>1. PICK f : KeysAre(f)
    BY DEF PromiseInv, OneKey
  <2>2. Spares(n, work[w].doc.id)
    <3>1. CallOf(f, work[w])
      BY <2>1 DEF KeysAre
    <3> QED BY <1>0, <1>1, <3>1, ChangeTouches DEF CallOf
  <2>3. graph'[m] = graph[m] /\ index'[m] = index[m] /\ docs'[m] = docs[m]
    BY <1>3, <2>2 DEF Spares
  <2>4. Idle.op \notin AdminOps \cup DocOps
    BY DEF Idle, AdminOps, DocOps
  <2>5. \A v \in Workers : work[v].name = m => walk'[v] = walk[v]
    BY <1>1, <1>3 DEF WalkedOn
  <2> QED BY <1>0, <1>1, <1>3, <2>3, <2>4, <2>5 DEF Spared, UnchangedByDocs, files, flags
<1>4. ASSUME Clean(n)' PROVE AgreeOn(n)'
  <2>1. Clean(n) /\ AgreeOn(n)
    BY <1>1, <1>2, <1>4, CleanBefore DEF AgreeInv
  <2>2. InStep(n)'
    BY <1>0, <1>1, <1>4, <2>1, ChangeMidway
  <2>3. n \in loaded /\ process = "up" /\ ~ AdminOn(n)
    BY <1>1, <2>1 DEF AgreeOn, Ordered
  <2>4. \A v \in Admins : work'[v] = work[v]
    BY <1>1 DEF Admins
  <2>5. ~ AdminOn(n)'
    BY <1>1, <2>3, <2>4 DEF AdminOn
  <2>6. \A v \in Admins' : work'[v].name # n
    BY <2>5 DEF AdminOn
  <2>7. loaded' = loaded /\ process' = process /\ exists' = exists /\ listed' = listed
    BY <1>1 DEF UnchangedByDocs, flags
  <2>8. Resting(n)'
    BY <2>1, <2>2, <2>3, <2>7 DEF AgreeOn, Resting
  <2> QED BY <2>3, <2>5, <2>6, <2>7, <2>8 DEF AgreeOn, Ordered
<1>5. ASSUME NEW m \in Names, m # n, Clean(m)' PROVE AgreeOn(m)'
  BY <1>2, <1>3, <1>5, CleanBefore, SparedAgrees DEF AgreeInv
<1> QED BY <1>4, <1>5 DEF AgreeInv

\* A change that is taken up finds its document as the others left it.
LEMMA TakesMidway ==
  ASSUME TypeInv, PromiseInv, NEW w \in Workers, NEW n \in Names, NEW c, Takes(w, n, c),
         InStep(n), \A v \in Changes(n) : work[v].doc.id # c.doc.id
  PROVE  Midway(n, c)
<1>0. PICK i : i = c.doc.id
  OBVIOUS
<1>1. c.doc \in Doc /\ i \in 1 .. MaxDocs /\ c.op \in DocOps
  BY <1>0 DEF Takes, Doc
<1>2. Agreed(n, i)
  BY <1>0, <1>1 DEF InStep, Calm
<1>3. CASE c.op = "insert"
  <2>1. c.at = "add" /\ i = lastId + 1
    BY <1>0, <1>3 DEF Takes
  <2>2. PICK f : KeysAre(f)
    BY DEF PromiseInv, OneKey
  <2>3. \A d \in graph[n] : d.id <= lastId
    BY <2>2 DEF KeysAre, MemoryOf, DocOf
  <2>4. lastId \in Nat
    BY CollectionsAssumption DEF TypeInv, TypeOK
  <2>5. Has(graph[n], i) = {}
    <3>1. \A d \in graph[n] : d.id \in Nat
      BY DEF TypeInv, TypeOK, Doc
    <3> QED BY <2>1, <2>3, <2>4, <3>1 DEF Has
  <2>6. Has(docs[n], i) = {} /\ Has(index[n], i) = {}
    BY <1>2, <2>5, PostingsOfFew DEF Agreed
  <2> QED BY <1>0, <1>3, <2>1, <2>5, <2>6 DEF Midway, GraphOf, LogOf, IndexOf
<1>4. CASE c.op # "insert"
  <2>1. c.at = "remove" /\ c.old.id = i /\ c.old \in graph[n] /\ c.graph = born[n]
    BY <1>0, <1>4 DEF Takes
  <2>2. Has(graph[n], i) = {c.old}
    BY <1>2, <2>1 DEF Has, Agreed, Single
  <2>3. Has(docs[n], i) = {c.old} /\ Has(index[n], i) = PostingsOf(c.old)
    BY <1>2, <2>2, PostingsOfFew DEF Agreed
  <2> QED BY <1>0, <1>4, <2>1, <2>2, <2>3 DEF Midway, GraphOf, LogOf, IndexOf
<1> QED BY <1>3, <1>4

\* A change that is taken up on a collection that stays clean has no rival.
LEMMA TakesAlone ==
  ASSUME TypeInv, PromiseInv, NEW w \in Workers, NEW n \in Names, NEW c, Takes(w, n, c),
         Clean(n)', NEW v \in Changes(n)
  PROVE  work[v].doc.id # c.doc.id
<1>1. PICK f : KeysAre(f)
  BY DEF PromiseInv, OneKey
<1>2. v \in Workers /\ work[v].op \in DocOps /\ DocOf(f, lastId, work[v].doc) /\ work[v].doc \in Doc
  BY <1>1 DEF Changes, KeysAre, CallOf, TypeInv
<1>3. c.doc.key \in Keys /\ lastId \in Nat /\ work[v].doc.id \in Nat
  BY <1>2, CollectionsAssumption DEF Takes, Doc, TypeInv, TypeOK
<1>4. work[v].doc.key # c.doc.key
  BY <1>3 DEF Takes, Clean
<1>5. CASE c.op = "insert"
  BY <1>2, <1>3, <1>5 DEF Takes, DocOf
<1>6. CASE c.op # "insert"
  <2>1. c.old \in graph[n] /\ c.old.id = c.doc.id /\ c.old.key = c.doc.key
    BY <1>6 DEF Takes
  <2>2. DocOf(f, lastId, c.old)
    BY <1>1, <2>1 DEF KeysAre, MemoryOf
  <2> QED BY <1>2, <1>4, <2>1, <2>2 DEF DocOf
<1> QED BY <1>5, <1>6

\* Taking up a change keeps what agrees.
LEMMA TakesAgrees ==
  ASSUME TypeInv, ServedInv, PromiseInv, AgreeInv, NEW w \in Workers, NEW n \in Names, NEW c,
         Takes(w, n, c)
  PROVE  AgreeInv'
<1>1. /\ work'[w] = c /\ \A v \in Workers : v # w => work'[v] = work[v]
      /\ Changes(n)' = Changes(n) \cup {w} /\ w \notin Changes(n)
      /\ Admins' = Admins /\ w \notin Admins
  BY TakesIs
<1>2. /\ UNCHANGED <<log, files, process, flags, memory, walk>> /\ process = "up" /\ n \in loaded
      /\ exposed \subseteq exposed' /\ spoiled \subseteq spoiled' /\ lost \subseteq lost'
      /\ c.op \in DocOps /\ c.name = n /\ work[w] = Idle
      /\ exposed' = IF AdminOn(n) THEN exposed \cup {n} ELSE exposed
  BY DEF Takes, Busy, between
<1>3. ASSUME NEW m \in Names, m # n PROVE Spared(m)
  <2>1. Idle.op \notin AdminOps \cup DocOps
    BY DEF Idle, AdminOps, DocOps
  <2> QED BY <1>1, <1>2, <1>3, <2>1 DEF Spared, log, files, flags, memory
<1>4. ASSUME Clean(n)' PROVE AgreeOn(n)'
  <2>1. Clean(n) /\ AgreeOn(n)
    BY <1>2, <1>4, CleanBefore DEF AgreeInv
  <2>2. ~ AdminOn(n)
    BY <1>2, <1>4 DEF Clean
  <2>3. InStep(n)
    BY <1>2, <2>1, <2>2 DEF AgreeOn, Resting
  <2>4. \A v \in Admins : work'[v] = work[v]
    BY <1>1 DEF Admins
  <2>5. ~ AdminOn(n)'
    BY <1>1, <2>2, <2>4 DEF AdminOn
  <2>6. \A v \in Changes(n) : work[v].doc.id # c.doc.id
    BY <1>4, TakesAlone
  <2>7. Midway(n, c)
    BY <2>3, <2>6, TakesMidway
  <2>8. UNCHANGED <<graph, index, docs, born, loaded, exists, listed, process>>
    BY <1>2 DEF log, flags, memory
  <2>9. \A v \in Changes(n) : work'[v] = work[v]
    BY <1>1 DEF Changes
  <2>10. InStep(n)'
    <3>1. ASSUME NEW j \in 1 .. MaxDocs, Calm(n, j)' PROVE Agreed(n, j)'
      <4>1. Calm(n, j)
        BY <1>1, <2>9, <3>1 DEF Calm
      <4> QED BY <2>3, <2>8, <4>1 DEF InStep, Agreed
    <3>2. ASSUME NEW v \in Changes(n)' PROVE Midway(n, work[v])'
      <4>1. CASE v = w
        BY <1>1, <2>7, <2>8, <4>1 DEF Midway
      <4>2. CASE v # w
        BY <1>1, <2>3, <2>8, <2>9, <4>2 DEF InStep, Midway
      <4> QED BY <4>1, <4>2
    <3> QED BY <3>1, <3>2 DEF InStep
  <2>11. Resting(n)'
    BY <1>2, <2>1, <2>2, <2>8, <2>10 DEF AgreeOn, Resting
  <2>12. Ordered(n)'
    BY <1>2, <2>5, <2>8 DEF Ordered
  <2> QED BY <2>5, <2>11, <2>12 DEF AgreeOn, AdminOn
<1>5. ASSUME NEW m \in Names, m # n, Clean(m)' PROVE AgreeOn(m)'
  BY <1>2, <1>3, <1>5, CleanBefore, SparedAgrees DEF AgreeInv
<1> QED BY <1>4, <1>5 DEF AgreeInv

\* The postings of documents are no missing file.
LEMMA PostingsStored ==
  ASSUME TypeInv, NEW n \in Names
  PROVE  PostingsOfAll(docs[n]) \notin {NoFile, Torn}
<1>1. docs[n] \in SUBSET Doc
  BY DEF TypeInv, TypeOK
<1>2. \A d \in docs[n] : PostingsOf(d) \subseteq Posting
  BY <1>1 DEF Doc, PostingsOf, Posting
<1>3. PostingsOfAll(docs[n]) \in SUBSET Posting
  BY <1>2 DEF PostingsOfAll
<1> QED BY <1>3, FilesAssumption

\* What is left to show of a collection when a call on it has returned.
Rested(n) == /\ n \in loaded => Whole(n)
             /\ n \notin loaded => IF n \in listed THEN Stored(n) ELSE docs[n] = {}
             /\ n \in listed => n \in exists

\* The steps of a call on a collection keep what agrees.
LEMMA AdminAgrees ==
  ASSUME TypeInv, ServedInv, AgreeInv, NEW w \in Workers, AdminStep(w)
  PROVE  AgreeInv'
<1> USE DEF log, files, flags, memory, between, history
<1>0. PICK n \in Names : n = work[w].name /\ w \in Admins
  <2>1. work[w].op \in AdminOps
    BY DEF AdminStep, CreateConfig, CreateIndex, CreateList, ClearConfig, ClearDocs, ReadList,
           DropList, DropFlag, LoadConfig, LoadGraph, LoadIndex, StateTrue, ReleaseRaw, ReleaseBin,
           ReleaseFails, ReleasePanics, ReleaseFlag, At, AdminOps
  <2> QED BY <2>1, OnName DEF Admins
<1>1. Progress(work[w]) /\ work[w].op \in AdminOps
  BY <1>0 DEF ServedInv, Admins
<1>2. /\ graph \in [Names -> SUBSET Doc] /\ index \in [Names -> SUBSET Posting]
      /\ raw \in [Names -> {NoFile, Torn} \cup SUBSET Doc]
      /\ bin \in [Names -> {NoFile, Torn} \cup SUBSET Posting]
      /\ born \in [Names -> Nat]
      /\ work \in [Workers -> {Idle} \cup Activity] /\ work[w] \in Activity
  BY <1>0, OnName DEF TypeInv, TypeOK, Admins
<1>3. ASSUME NEW at, Go(w, at)
      PROVE  work'[w].op = work[w].op /\ work'[w].name = n /\ work'[w].at = at
  BY <1>0, <1>3, OneGoesOn
<1>4. Return(w) => work'[w] = Idle
  BY <1>2 DEF Return
<1>5. /\ \A v \in Workers : v # w => work'[v] = work[v]
      /\ work'[w] = Idle \/ (work'[w].op = work[w].op /\ work'[w].name = n)
  <2>1. CASE Return(w)
    BY <1>2, <2>1 DEF Return
  <2>2. ASSUME NEW at, Go(w, at)
        PROVE  /\ \A v \in Workers : v # w => work'[v] = work[v]
               /\ work'[w].op = work[w].op /\ work'[w].name = n
    BY <1>2, <1>3, <2>2 DEF Go
  <2>3. CASE ReadList(w)
    BY <1>0, <1>2, <2>3 DEF ReadList, Activity
  <2> QED BY <2>1, <2>2, <2>3
          DEF AdminStep, CreateConfig, CreateIndex, CreateList, ClearConfig, ClearDocs,
              DropList, DropFlag, LoadConfig, LoadGraph, LoadIndex, StateTrue, ReleaseRaw,
              ReleaseBin, ReleaseFails, ReleasePanics, ReleaseFlag
<1>6. /\ UNCHANGED <<docs, process>>
      /\ exposed \subseteq exposed' /\ spoiled \subseteq spoiled' /\ lost \subseteq lost'
  <2>1. UNCHANGED <<docs, process>>
    BY DEF AdminStep, CreateConfig, CreateIndex, CreateList, ClearConfig, ClearDocs, ReadList,
           DropList, DropFlag, LoadConfig, LoadGraph, LoadIndex, StateTrue, ReleaseRaw, ReleaseBin,
           ReleaseFails, ReleasePanics, ReleaseFlag
  <2> QED BY <2>1, HistoryGrows DEF Next
<1>7. \A m \in Names : m # n =>
           /\ graph'[m] = graph[m] /\ index'[m] = index[m] /\ born'[m] = born[m]
           /\ raw'[m] = raw[m] /\ bin'[m] = bin[m]
  <2>1. graph' = graph \/ \E g : graph' = [graph EXCEPT ![n] = g]
    BY <1>0 DEF AdminStep, CreateConfig, CreateIndex, CreateList, ClearConfig, ClearDocs, ReadList,
         DropList, DropFlag, LoadConfig, LoadGraph, LoadIndex, StateTrue, ReleaseRaw, ReleaseBin,
         ReleaseFails, ReleasePanics, ReleaseFlag, NewGraph, ForgetGraph, MemFree
  <2>2. index' = index \/ \E g : index' = [index EXCEPT ![n] = g]
    BY <1>0 DEF AdminStep, CreateConfig, CreateIndex, CreateList, ClearConfig, ClearDocs, ReadList,
         DropList, DropFlag, LoadConfig, LoadGraph, LoadIndex, StateTrue, ReleaseRaw, ReleaseBin,
         ReleaseFails, ReleasePanics, ReleaseFlag, MemFree
  <2>3. raw' = raw \/ \E g : raw' = [raw EXCEPT ![n] = g]
    BY <1>0 DEF AdminStep, CreateConfig, CreateIndex, CreateList, ClearConfig, ClearDocs, ReadList,
         DropList, DropFlag, LoadConfig, LoadGraph, LoadIndex, StateTrue, ReleaseRaw, ReleaseBin,
         ReleaseFails, ReleasePanics, ReleaseFlag
  <2>4. bin' = bin \/ \E g : bin' = [bin EXCEPT ![n] = g]
    BY <1>0 DEF AdminStep, CreateConfig, CreateIndex, CreateList, ClearConfig, ClearDocs, ReadList,
         DropList, DropFlag, LoadConfig, LoadGraph, LoadIndex, StateTrue, ReleaseRaw, ReleaseBin,
         ReleaseFails, ReleasePanics, ReleaseFlag
  <2>5. born' = born \/ \E g : born' = [born EXCEPT ![n] = g]
    BY <1>0 DEF AdminStep, CreateConfig, CreateIndex, CreateList, ClearConfig, ClearDocs, ReadList,
         DropList, DropFlag, LoadConfig, LoadGraph, LoadIndex, StateTrue, ReleaseRaw, ReleaseBin,
         ReleaseFails, ReleasePanics, ReleaseFlag, NewGraph, ForgetGraph, MemFree
  <2> QED BY <1>2, <2>1, <2>2, <2>3, <2>4, <2>5
<1>8. \A m \in Names : m # n =>
           /\ (m \in loaded' <=> m \in loaded) /\ (m \in exists' <=> m \in exists)
           /\ (m \in listed' <=> m \in listed)
  BY <1>0, <1>1 DEF AdminStep, CreateConfig, CreateIndex, CreateList, ClearConfig, ClearDocs, ReadList,
         DropList, DropFlag, LoadConfig, LoadGraph, LoadIndex, StateTrue, ReleaseRaw, ReleaseBin,
         ReleaseFails, ReleasePanics, ReleaseFlag, MemFree, At, Progress
<1>9. Idle.op \notin AdminOps \cup DocOps /\ work[w].op \notin DocOps
  BY <1>1 DEF Idle, AdminOps, DocOps
<1>10. ASSUME NEW m \in Names, m # n PROVE Spared(m)
  <2>1. \A v \in Workers :
       \/ work'[v] = work[v] /\ walk'[v] = walk[v]
       \/ /\ work[v].op \in AdminOps \cup DocOps => work[v].name # m
          /\ work'[v].op \in AdminOps \cup DocOps => work'[v].name # m
    <3>1. \A v \in Workers : v # w => walk'[v] = walk[v]
      BY DEF AdminStep, CreateConfig, CreateIndex, CreateList, ClearConfig, ClearDocs, ReadList,
         DropList, DropFlag, LoadConfig, LoadGraph, LoadIndex, StateTrue, ReleaseRaw, ReleaseBin,
         ReleaseFails, ReleasePanics, ReleaseFlag, WalkEnds, TypeInv, TypeOK
    <3> QED BY <1>0, <1>5, <1>9, <1>10, <3>1
  <2>2. UNCHANGED <<docs, process>>
    BY <1>6
  <2> QED BY <1>7, <1>8, <1>10, <2>1, <2>2 DEF Spared
<1>11. ASSUME NEW m \in Names, m # n, Clean(m)' PROVE AgreeOn(m)'
  BY <1>6, <1>10, <1>11, CleanBefore, SparedAgrees DEF AgreeInv
\* What is left to show.
<1>12. SUFFICES ASSUME Clean(n)'
                PROVE  IF work'[w] = Idle THEN Rested(n)' ELSE Brought(w)'
  <2> SUFFICES ASSUME Clean(n)', IF work'[w] = Idle THEN Rested(n)' ELSE Brought(w)'
               PROVE  AgreeOn(n)'
    BY <1>11 DEF AgreeInv
  <2>1. AdminOn(n)
    BY <1>0 DEF AdminOn
  <2>2. Changes(n) = {}
    BY <1>6, <2>1, CleanBefore DEF AgreeInv, AgreeOn, Ordered
  <2>3. Changes(n)' = {}
    BY <1>5, <1>9, <2>2 DEF Changes
  <2>4. Admins' \subseteq {w}
    BY <1>0, <1>5, <1>9 DEF Admins, ServedInv
  <2>5. InStep(n)' <=> Whole(n)'
    <3>1. graph'[n] \in SUBSET Doc /\ docs'[n] \in SUBSET Doc /\ index'[n] \in SUBSET Posting
      BY AdminStepType DEF TypeInv, TypeOK
    <3> QED BY <2>3, <3>1, WholeIs DEF InStep, Calm, Agreed, Whole
  <2>6. CASE work'[w] = Idle
    <3>1. Admins' = {}
      BY <1>9, <2>4, <2>6 DEF Admins
    <3> QED BY <2>3, <2>5, <2>6, <3>1 DEF AgreeOn, Ordered, Resting, Rested
  <2>7. CASE work'[w] # Idle
    <3>1. work'[w].name = n /\ w \in Admins'
      BY <1>0, <1>5, <2>7 DEF Admins
    <3> QED BY <2>3, <2>4, <2>7, <3>1 DEF AgreeOn, Ordered, AdminOn
  <2> QED BY <2>6, <2>7
<1>13. Clean(n) /\ Brought(w)
  BY <1>0, <1>6, <1>12, CleanBefore DEF AgreeInv, AgreeOn
\* A creation has nothing to agree on until it has set the flags.
<1>14. work[w].op = "create" => docs[n] = {} /\ n \notin loaded /\ n \notin exists
  BY <1>0, <1>1, <1>13 DEF Progress, Brought
<1>15. work[w].op = "load" => Stored(n) /\ n \notin loaded /\ n \in listed /\ n \in exists
  BY <1>0, <1>1, <1>13 DEF Progress, Brought
<1>16. ASSUME Return(w), Rested(n)' PROVE IF work'[w] = Idle THEN Rested(n)' ELSE Brought(w)'
  BY <1>4, <1>16
<1>17. ASSUME NEW at, Go(w, at), Brought(w)'
       PROVE  IF work'[w] = Idle THEN Rested(n)' ELSE Brought(w)'
  <2>1. work'[w] # Idle
    BY <1>1, <1>3, <1>9, <1>17
  <2> QED BY <1>17, <2>1
<1>18. CASE CreateConfig(w)
  <2>1. /\ work[w].op = "create" /\ UNCHANGED <<listed, exists, loaded>> /\ work[w].at = "config"
        /\ Return(w) \/ (Go(w, "index") /\ graph' = [graph EXCEPT ![n] = {}])
    BY <1>0, <1>18 DEF CreateConfig, NewGraph, At
  <2>2. n \notin listed
    BY <1>0, <1>13, <2>1 DEF Brought
  <2>3. Rested(n)'
    BY <1>6, <1>14, <2>1, <2>2 DEF Rested
  <2>4. ASSUME Go(w, "index"), graph' = [graph EXCEPT ![n] = {}] PROVE Brought(w)'
    <3>1. graph'[n] = {}
      BY <1>2, <2>4
    <3> QED BY <1>3, <1>6, <1>14, <2>1, <2>2, <2>4, <3>1 DEF Brought
  <2> QED BY <1>16, <1>17, <2>1, <2>3, <2>4
<1>19. CASE CreateIndex(w)
  <2>1. /\ work[w].op = "create" /\ UNCHANGED <<listed, exists, loaded>> /\ work[w].at = "index"
        /\ \/ Go(w, "clear")
           \/ Go(w, "read") /\ index' = [index EXCEPT ![n] = {}] /\ UNCHANGED graph
    BY <1>0, <1>19 DEF CreateIndex, At
  <2>2. n \notin listed /\ graph[n] = {}
    BY <1>0, <1>13, <2>1 DEF Brought
  <2>3. Go(w, "clear") => Brought(w)'
    BY <1>3, <1>6, <1>14, <2>1, <2>2 DEF Brought
  <2>4. ASSUME Go(w, "read"), index' = [index EXCEPT ![n] = {}], UNCHANGED graph
        PROVE  Brought(w)'
    <3>1. index'[n] = {}
      BY <1>2, <2>4
    <3> QED BY <1>3, <1>6, <1>14, <2>1, <2>2, <2>4, <3>1 DEF Brought
  <2> QED BY <1>17, <2>1, <2>3, <2>4
<1>20. CASE CreateList(w)
  <2>1. /\ work[w].op = "create" /\ UNCHANGED <<exists, loaded, index>> /\ work[w].at = "list"
        /\ \/ Go(w, "flag") /\ UNCHANGED graph
           \/ Go(w, "clear") /\ UNCHANGED listed
    BY <1>0, <1>20 DEF CreateList, At
  <2>2. n \notin listed /\ graph[n] = {} /\ index[n] = {}
    BY <1>0, <1>13, <2>1 DEF Brought
  <2>3. ASSUME Go(w, "clear"), UNCHANGED listed PROVE Brought(w)'
    BY <1>3, <1>6, <1>14, <2>1, <2>2, <2>3 DEF Brought
  <2>4. ASSUME Go(w, "flag"), UNCHANGED graph PROVE Brought(w)'
    BY <1>3, <1>6, <1>14, <2>1, <2>2, <2>4 DEF Brought
  <2> QED BY <1>17, <2>1, <2>3, <2>4
\* A step that changes nothing of what is known or kept.
<1>21. ASSUME work[w].op \in {"create", "drop"}, work[w].at # "flag", UNCHANGED listed, NEW at,
              at \in {"clear docs", "stuck"} \/ (at = "read" /\ work[w].op = "drop" /\ docs[n] = {}),
              Go(w, at)
       PROVE  Brought(w)'
  BY <1>0, <1>3, <1>6, <1>13, <1>14, <1>21 DEF Brought
<1>22. CASE ClearConfig(w)
  <2>1. /\ work[w].op \in {"create", "drop"} /\ UNCHANGED listed /\ work[w].at = "clear"
        /\ Go(w, "clear docs")
    BY <1>22 DEF ClearConfig, At
  <2> QED BY <1>17, <1>21, <2>1
<1>23. CASE ClearDocs(w)
  <2>1. /\ work[w].op \in {"create", "drop"} /\ UNCHANGED <<listed, loaded, exists>>
        /\ work[w].at = "clear docs"
    BY <1>23 DEF ClearDocs, At
  <2>2. CASE Matched(n) # {}
    <3>1. Go(w, "stuck")
      BY <1>0, <1>23, <2>2 DEF ClearDocs
    <3> QED BY <1>17, <1>21, <2>1, <3>1
  <2>3. CASE Matched(n) = {}
    <3>1. docs[n] = {}
      BY <2>3, CollectionsAssumption DEF Matched
    <3>2. CASE work[w].op = "drop"
      <4>1. Go(w, "read")
        BY <1>0, <1>23, <2>3, <3>2 DEF ClearDocs
      <4> QED BY <1>17, <1>21, <2>1, <3>1, <3>2, <4>1
    <3>3. CASE work[w].op = "create"
      <4>1. Return(w)
        BY <1>0, <1>23, <2>3, <3>3 DEF ClearDocs
      <4>2. n \notin listed
        BY <1>0, <1>13, <2>1, <3>3 DEF Brought
      <4>3. Rested(n)'
        BY <1>6, <1>14, <2>1, <3>3, <4>2 DEF Rested
      <4> QED BY <1>16, <4>1, <4>3
    <3> QED BY <2>1, <3>2, <3>3
  <2> QED BY <2>2, <2>3
<1>24. CASE ReadList(w)
  <2>1. /\ UNCHANGED <<listed, graph, index>> /\ work[w].at = "read" /\ work[w].op \in {"create", "drop"}
        /\ work'[w] = [work[w] EXCEPT !.at = "list", !.list = listed]
    BY <1>2, <1>24 DEF ReadList, At
  <2>2. work'[w].op = work[w].op /\ work'[w].name = n /\ work'[w].at = "list"
    BY <1>0, <1>2, <2>1 DEF Activity
  <2>3. work'[w] # Idle
    BY <1>1, <1>9, <2>2
  <2>4. Brought(w)'
    BY <1>0, <1>6, <1>13, <2>1, <2>2 DEF Brought
  <2> QED BY <2>3, <2>4
<1>25. CASE DropList(w)
  <2>1. work[w].op = "drop" /\ work[w].at = "list" /\ Go(w, "flag")
    BY <1>25 DEF DropList, At
  <2>2. n \notin listed'
    BY <1>0, <1>12, <1>25 DEF DropList, Clean
  <2>3. Brought(w)'
    BY <1>0, <1>3, <1>6, <1>13, <2>1, <2>2 DEF Brought
  <2> QED BY <1>17, <2>1, <2>3
<1>26. CASE DropFlag(w)
  <2>1. /\ work[w].op = "drop" /\ work[w].at = "flag" /\ Return(w) /\ UNCHANGED listed
        /\ n \notin loaded'
    BY <1>0, <1>26 DEF DropFlag, At
  <2>2. docs[n] = {} /\ n \notin listed
    BY <1>0, <1>13, <2>1 DEF Brought
  <2>3. Rested(n)'
    BY <1>6, <2>1, <2>2 DEF Rested
  <2> QED BY <1>16, <2>1, <2>3
\* A load that ends early leaves the files.
<1>27. ASSUME work[w].op = "load", UNCHANGED <<raw, bin, listed, exists>>, n \notin loaded'
       PROVE  Stored(n)' /\ Rested(n)'
  <2>1. Stored(n)'
    BY <1>6, <1>15, <1>27 DEF Stored
  <2> QED BY <1>15, <1>27, <2>1 DEF Rested
<1>28. CASE LoadConfig(w)
  <2>1. /\ work[w].op = "load" /\ UNCHANGED <<raw, bin, listed, exists, loaded, graph, index>>
        /\ Return(w) \/ Go(w, "graph")
    BY <1>28 DEF LoadConfig, At
  <2>2. Go(w, "graph") => Brought(w)'
    BY <1>3, <1>15, <1>27, <2>1 DEF Brought
  <2> QED BY <1>15, <1>16, <1>17, <1>27, <2>1, <2>2
<1>29. CASE LoadGraph(w)
  <2>1. /\ work[w].op = "load" /\ UNCHANGED <<raw, bin, listed, exists, loaded>>
        /\ Return(w) \/ (Go(w, "index") /\ graph' = [graph EXCEPT ![n] = raw[n]])
    BY <1>0, <1>29 DEF LoadGraph, NewGraph, At
  <2>2. ASSUME Go(w, "index"), graph' = [graph EXCEPT ![n] = raw[n]] PROVE Brought(w)'
    <3>1. graph'[n] = docs'[n]
      BY <1>2, <1>6, <1>15, <2>1, <2>2 DEF Stored
    <3> QED BY <1>3, <1>15, <1>27, <2>1, <2>2, <3>1 DEF Brought
  <2> QED BY <1>15, <1>16, <1>17, <1>27, <2>1, <2>2
<1>30. CASE LoadIndex(w)
  <2>1. /\ work[w].op = "load" /\ UNCHANGED <<raw, bin, listed, exists>> /\ work[w].at = "index"
        /\ \/ MemFree(n) /\ Return(w)
           \/ /\ index' = [index EXCEPT ![n] = IF bin[n] = NoFile THEN {} ELSE bin[n]]
              /\ Go(w, "flag") /\ UNCHANGED <<graph, loaded>>
    BY <1>0, <1>30 DEF LoadIndex, At
  <2>2. ASSUME MemFree(n), Return(w) PROVE Rested(n)'
    BY <1>27, <2>1, <2>2 DEF MemFree
  <2>3. ASSUME index' = [index EXCEPT ![n] = IF bin[n] = NoFile THEN {} ELSE bin[n]],
               Go(w, "flag"), UNCHANGED <<graph, loaded>>
        PROVE  Brought(w)'
    <3>1. bin[n] = PostingsOfAll(docs[n]) /\ bin[n] # NoFile
      BY <1>15, <2>1, PostingsStored DEF Stored
    <3>2. index'[n] = bin[n]
      BY <1>2, <2>3, <3>1
    <3>3. graph[n] = docs[n]
      BY <1>0, <1>13, <2>1 DEF Brought
    <3> QED BY <1>3, <1>6, <1>15, <1>27, <2>1, <2>3, <3>1, <3>2, <3>3 DEF Brought
  <2> QED BY <1>16, <1>17, <2>1, <2>2, <2>3
<1>31. CASE StateTrue(w)
  <2>1. /\ work[w].op \in {"create", "load"} /\ work[w].at = "flag" /\ Return(w)
        /\ UNCHANGED <<graph, index>> /\ n \in loaded' /\ n \in exists'
    BY <1>0, <1>31 DEF StateTrue, At
  <2>2. Whole(n)
    <3>1. CASE work[w].op = "create"
      BY <1>0, <1>13, <2>1, <3>1, PostingsOfFew DEF Brought, Whole, Single
    <3>2. CASE work[w].op = "load"
      BY <1>0, <1>13, <2>1, <3>2 DEF Brought, Stored, Whole
    <3> QED BY <2>1, <3>1, <3>2
  <2>3. Rested(n)'
    BY <1>6, <2>1, <2>2 DEF Rested, Whole
  <2> QED BY <1>16, <2>1, <2>3
\* A release saves what is in memory.
<1>32. ASSUME work[w].op = "release" PROVE Whole(n) /\ n \in loaded /\ n \in listed /\ n \in exists
  BY <1>0, <1>1, <1>13, <1>32 DEF Brought, Progress, Sound
<1>33. CASE ReleaseRaw(w)
  <2>1. /\ work[w].op = "release" /\ UNCHANGED <<graph, index, loaded>> /\ Go(w, "bin")
        /\ raw' = [raw EXCEPT ![n] = graph[n]]
    <3>1. /\ work[w].op = "release" /\ work[w].at = "raw" /\ UNCHANGED <<graph, index, loaded>>
          /\ Go(w, "bin")
      BY <1>33 DEF ReleaseRaw, At
    <3>2. PICK g \in Snapshot(w, n) : raw' = [raw EXCEPT ![n] = g]
      BY <1>0, <1>33 DEF ReleaseRaw
    <3>3. walk[w].stayed = graph[n] /\ ~ Disturbed(w)
      BY <1>0, <1>13, <3>1 DEF Brought
    <3>4. g = graph[n]
      BY <3>2, <3>3 DEF Snapshot, Disturbed
    <3> QED BY <3>1, <3>2, <3>4
  <2>2. raw'[n] = docs'[n]
    BY <1>2, <1>6, <1>32, <2>1 DEF Whole
  <2>3. Whole(n)'
    BY <1>6, <1>32, <2>1 DEF Whole
  <2>4. Brought(w)'
    BY <1>3, <1>32, <2>1, <2>2, <2>3 DEF Brought
  <2> QED BY <1>17, <2>1, <2>4
<1>34. CASE ReleaseBin(w)
  <2>1. /\ work[w].op = "release" /\ UNCHANGED <<graph, index, loaded, raw>> /\ Go(w, "flag")
        /\ bin' = [bin EXCEPT ![n] = index[n]] /\ work[w].at = "bin"
    BY <1>0, <1>34 DEF ReleaseBin, At
  <2>2. bin'[n] = PostingsOfAll(docs'[n])
    BY <1>2, <1>6, <1>32, <2>1 DEF Whole
  <2>3. Whole(n)' /\ raw'[n] = docs'[n]
    BY <1>0, <1>6, <1>13, <1>32, <2>1 DEF Brought, Whole
  <2>4. Brought(w)'
    BY <1>3, <1>32, <2>1, <2>2, <2>3 DEF Brought
  <2> QED BY <1>17, <2>1, <2>4
<1>35. CASE ReleaseFails(w) \/ ReleasePanics(w)
  BY <1>0, <1>12, <1>35 DEF ReleaseFails, ReleasePanics, Clean
<1>36. CASE ReleaseFlag(w)
  <2>1. /\ work[w].op = "release" /\ work[w].at = "flag" /\ Return(w)
        /\ UNCHANGED <<raw, bin, listed, exists>> /\ n \notin loaded'
    BY <1>0, <1>36 DEF ReleaseFlag, At
  <2>2. Stored(n)
    BY <1>0, <1>13, <1>32, <2>1 DEF Brought, Whole, Stored
  <2>3. Stored(n)'
    BY <1>6, <2>1, <2>2 DEF Stored
  <2>4. Rested(n)'
    BY <1>32, <2>1, <2>3 DEF Rested
  <2> QED BY <1>16, <2>1, <2>4
<1> QED BY <1>18, <1>19, <1>20, <1>22, <1>23, <1>24, <1>25, <1>26, <1>28, <1>29, <1>30, <1>31,
           <1>33, <1>34, <1>35, <1>36 DEF AdminStep

\* The start of a call on a collection keeps what agrees, if what is to be shown
\* of the call holds of a collection that is quiet.
LEMMA AdminBegins ==
  ASSUME TypeInv, ServedInv, AgreeInv, NEW w \in Workers, NEW n \in Names, NEW call,
         call.op \in AdminOps, call.name = n,
         Admins = {}, ~ Busy(w), work' = [work EXCEPT ![w] = call],
         UNCHANGED <<process, docs, index, raw, bin, born, loaded, exists, listed>>,
         graph' = graph \/ graph' = [graph EXCEPT ![n] = {}],
         exposed \subseteq exposed', spoiled \subseteq spoiled', lost \subseteq lost',
         \A v \in Workers : v # w => walk'[v] = walk[v],
         Clean(n)' => process = "closing" \/ QuietOn(n),
         Clean(n)' /\ Changes(n) = {} /\ Resting(n) => Brought(w)'
  PROVE  AgreeInv'
<1>1. /\ work'[w] = call /\ \A v \in Workers : v # w => work'[v] = work[v]
      /\ \A m \in Names : m # n => graph'[m] = graph[m]
  BY DEF TypeInv, TypeOK
<1>2. call.op \notin DocOps /\ work[w] = Idle /\ Idle.op \notin AdminOps \cup DocOps
  BY DEF Busy, AdminOps, DocOps, Idle
<1>3. ASSUME NEW m \in Names, m # n PROVE Spared(m)
  <2>1. \A v \in Workers :
       \/ work'[v] = work[v] /\ walk'[v] = walk[v]
       \/ /\ work[v].op \in AdminOps \cup DocOps => work[v].name # m
          /\ work'[v].op \in AdminOps \cup DocOps => work'[v].name # m
    BY <1>1, <1>2, <1>3
  <2> QED BY <1>1, <1>3, <2>1 DEF Spared
<1>4. Admins' = {w}
  BY <1>1 DEF Admins
<1>5. ASSUME Clean(n)' PROVE AgreeOn(n)'
  <2>1. AgreeOn(n) /\ ~ AdminOn(n)
    BY <1>5, CleanBefore DEF AgreeInv, AdminOn
  <2>2. Changes(n) = {}
    BY <1>5, <2>1 DEF QuietOn, AgreeOn, Ordered
  <2>3. Changes(n)' = {}
    BY <1>1, <1>2, <2>2 DEF Changes
  <2>4. Brought(w)'
    BY <1>1, <1>5, <2>1, <2>2 DEF AgreeOn
  <2>5. AdminOn(n)'
    BY <1>1, <1>4 DEF AdminOn
  <2> QED BY <1>4, <2>3, <2>4, <2>5 DEF AgreeOn, Ordered
<1>6. ASSUME NEW m \in Names, m # n, Clean(m)' PROVE AgreeOn(m)'
  BY <1>3, <1>6, CleanBefore, SparedAgrees DEF AgreeInv
<1> QED BY <1>5, <1>6 DEF AgreeInv

\* The start of a call.
LEMMA BeginAgrees ==
  ASSUME OneAdmin, TypeInv, ServedInv, PromiseInv, AgreeInv, NEW w \in Workers, Begin(w)
  PROVE  AgreeInv'
<1> USE DEF log, files, flags, memory, between
<1>0. PICK f : KeysAre(f)
  BY DEF PromiseInv, OneKey
<1>1. \A op, at, n : /\ Call(op, at, n).op = op /\ Call(op, at, n).at = at
                     /\ Call(op, at, n).name = n
  BY DEF Call
<1>2. exposed \subseteq exposed' /\ spoiled \subseteq spoiled' /\ lost \subseteq lost'
  BY HistoryGrows DEF Next
<1>3. ASSUME NEW n \in Names, NEW op, NEW at, BeginAdmin(w, op, at, n)
      PROVE  /\ Admins = {} /\ ~ Busy(w) /\ work' = [work EXCEPT ![w] = Call(op, at, n)]
             /\ Clean(n)' => QuietOn(n)
             /\ work'[w] = Call(op, at, n)
  BY <1>3 DEF BeginAdmin, Clean, TypeInv, TypeOK
<1>4. ASSUME NEW n \in Names, Admins = {} PROVE Sound(n)
  BY <1>4 DEF ServedInv, AdminOn
<1>5. ASSUME NEW n \in Names, Changes(n) = {}, InStep(n) PROVE Whole(n)
  <2>1. graph[n] \in SUBSET Doc /\ docs[n] \in SUBSET Doc /\ index[n] \in SUBSET Posting
    BY DEF TypeInv, TypeOK
  <2> QED BY <1>5, <2>1, WholeIs DEF InStep, Calm, Agreed, Whole
<1>6. ASSUME NEW n \in Names, CreateBegin(w, n) PROVE AgreeInv'
  <2> DEFINE call == Call("create", "config", n)
  <2>1. BeginAdmin(w, "create", "config", n) /\ process = "up" /\ n \notin exists
        /\ UNCHANGED <<process, docs, graph, index, raw, bin, born, loaded, exists, listed, walk>>
    BY <1>6 DEF CreateBegin
  <2>2. Resting(n) => Brought(w)'
    <3>1. n \notin loaded
      BY <1>3, <1>4, <2>1 DEF Sound
    <3>2. work'[w].op = "create" /\ work'[w].name = n /\ work'[w].at = "config"
      BY <1>1, <1>3, <2>1
    <3> QED BY <2>1, <3>1, <3>2 DEF Resting, Brought
  <2>3. call.op \in AdminOps /\ call.name = n
    BY <1>1 DEF AdminOps
  <2> HIDE DEF call
  <2> QED BY <1>2, <1>3, <2>1, <2>2, <2>3, AdminBegins DEF call
<1>7. ASSUME NEW n \in Names, DropBegin(w, n) PROVE AgreeInv'
  <2> DEFINE call == Call("drop", "clear", n)
  <2>1. BeginAdmin(w, "drop", "clear", n)
        /\ UNCHANGED <<process, docs, index, raw, bin, born, loaded, exists, listed, walk>>
        /\ graph' = [graph EXCEPT ![n] = {}]
    BY <1>7 DEF DropBegin, ForgetGraph
  <2>2. Brought(w)'
    <3>1. work'[w].op = "drop" /\ work'[w].name = n /\ work'[w].at = "clear"
      BY <1>1, <1>3, <2>1
    <3> QED BY <3>1 DEF Brought
  <2>3. call.op \in AdminOps /\ call.name = n
    BY <1>1 DEF AdminOps
  <2> HIDE DEF call
  <2> QED BY <1>2, <1>3, <2>1, <2>2, <2>3, AdminBegins DEF call
<1>8. ASSUME NEW n \in Names, LoadBegin(w, n) PROVE AgreeInv'
  <2> DEFINE call == Call("load", "config", n)
  <2>1. BeginAdmin(w, "load", "config", n) /\ n \in exists /\ n \notin loaded
        /\ UNCHANGED <<process, docs, graph, index, raw, bin, born, loaded, exists, listed, walk>>
    BY <1>8 DEF LoadBegin
  <2>2. Resting(n) => Brought(w)'
    <3>1. n \in listed
      BY <1>3, <1>4, <2>1 DEF Sound
    <3>2. Resting(n) => Stored(n)'
      BY <2>1, <3>1 DEF Resting, Stored
    <3>3. work'[w].op = "load" /\ work'[w].name = n /\ work'[w].at = "config"
      BY <1>1, <1>3, <2>1
    <3> QED BY <3>2, <3>3 DEF Brought
  <2>3. call.op \in AdminOps /\ call.name = n
    BY <1>1 DEF AdminOps
  <2> HIDE DEF call
  <2> QED BY <1>2, <1>3, <2>1, <2>2, <2>3, AdminBegins DEF call
<1>9. ASSUME NEW n \in Names, ReleaseBegin(w, n) PROVE AgreeInv'
  <2> DEFINE call == Call("release", "raw", n)
  <2>1. /\ Admins = {} /\ ~ Busy(w) /\ work' = [work EXCEPT ![w] = call] /\ n \in loaded
        /\ Clean(n)' => process = "closing" \/ QuietOn(n)
        /\ UNCHANGED <<process, docs, graph, index, raw, bin, born, loaded, exists, listed>>
    BY <1>3, <1>9 DEF ReleaseBegin
  <2>4. /\ walk'[w].stayed = graph[n] /\ walk'[w].met = graph[n]
        /\ \A v \in Workers : v # w => walk'[v] = walk[v]
    BY <1>9 DEF ReleaseBegin, TypeInv, TypeOK
  <2>2. Changes(n) = {} /\ Resting(n) => Brought(w)'
    <3>1. Changes(n) = {} /\ Resting(n) => Whole(n)'
      BY <1>5, <2>1 DEF Resting, Whole
    <3>2. work'[w].op = "release" /\ work'[w].name = n /\ work'[w].at = "raw"
      BY <1>1, <2>1 DEF TypeInv, TypeOK
    <3> QED BY <2>1, <2>4, <3>1, <3>2 DEF Brought, Disturbed
  <2>3. call.op \in AdminOps /\ call.name = n
    BY <1>1 DEF AdminOps
  <2> HIDE DEF call
  <2> QED BY <1>2, <2>1, <2>2, <2>3, <2>4, AdminBegins
<1>10. PICK n \in Names :
           \/ CreateBegin(w, n) \/ DropBegin(w, n) \/ LoadBegin(w, n) \/ ReleaseBegin(w, n)
           \/ \E c : Takes(w, n, c)
  BY <1>0, BeginTakes
<1> QED BY <1>6, <1>7, <1>8, <1>9, <1>10, TakesAgrees

\* The steps of the process keep what agrees.
LEMMA ProcessAgrees ==
  ASSUME TypeInv, ServedInv, AgreeInv, CloseBegin \/ CloseEnd \/ Crash \/ Start
  PROVE  AgreeInv'
<1> USE DEF log, files, flags, memory, between, history
<1>1. exposed \subseteq exposed' /\ spoiled \subseteq spoiled' /\ lost \subseteq lost'
  BY HistoryGrows DEF Next
<1>2. SUFFICES ASSUME NEW n \in Names, Clean(n)', Clean(n), AgreeOn(n) PROVE AgreeOn(n)'
  BY <1>1, CleanBefore DEF AgreeInv
<1>3. Idle.op \notin AdminOps \cup DocOps
  BY DEF Idle, AdminOps, DocOps
\* When the process ends, all that is left is what is in the files.
<1>4. ASSUME NEW names, Forget(names), UNCHANGED <<docs, listed>>, n \notin loaded, ~ AdminOn(n),
             raw'[n] = raw[n], bin'[n] = bin[n]
      PROVE  AgreeOn(n)'
  <2>1. /\ \A w \in Workers : work'[w] = Idle
        /\ n \notin loaded' /\ process' = "down"
    BY <1>4 DEF Forget
  <2>2. Changes(n)' = {} /\ Admins' = {}
    BY <1>3, <2>1 DEF Changes, Admins
  <2>3. IF n \in listed THEN Stored(n)' ELSE docs[n] = {}
    BY <1>2, <1>4 DEF AgreeOn, Resting, Stored
  <2> QED BY <1>4, <2>1, <2>2, <2>3 DEF AgreeOn, Ordered, Resting
<1>5. CASE Crash
  <2>1. PICK names : Forget(names) /\ names = {m \in Names : m \in loaded \/ ~ QuietOn(m)}
    BY <1>5 DEF Crash
  <2>2. n \notin loaded /\ ~ AdminOn(n)
    BY <1>2, <2>1 DEF Forget, Clean, QuietOn
  <2>3. raw'[n] = raw[n] /\ bin'[n] = bin[n]
    <3>1. \A w \in Admins : work[w].name # n
      BY <2>2 DEF AdminOn
    <3> QED BY <1>5, <3>1 DEF Crash
  <2> QED BY <1>4, <1>5, <2>1, <2>2, <2>3 DEF Crash
<1>6. CASE CloseEnd
  BY <1>4, <1>6 DEF CloseEnd, AdminOn
<1>7. CASE CloseBegin
  <2>1. /\ \A w \in Workers : work[w] = Idle
        /\ UNCHANGED <<docs, listed, exists, loaded, graph, index, raw, bin, born, work>>
        /\ process = "up" /\ process' = "closing"
    BY <1>7 DEF CloseBegin, Busy
  <2>2. Changes(n) = {} /\ Admins = {} /\ Changes(n)' = {} /\ Admins' = {}
    BY <1>3, <2>1 DEF Changes, Admins
  <2>3. InStep(n) => InStep(n)'
    BY <2>1, <2>2 DEF InStep, Calm, Agreed
  <2>4. Resting(n)'
    BY <1>2, <2>1, <2>2, <2>3 DEF AgreeOn, AdminOn, Resting, Stored
  <2> QED BY <2>2, <2>4 DEF AgreeOn, AdminOn, Ordered
<1>8. CASE Start
  <2>1. /\ process = "down" /\ exists' = listed
        /\ UNCHANGED <<docs, listed, loaded, raw, bin, work>>
    BY <1>8 DEF Start
  <2>2. Changes(n) = {} /\ Admins = {} /\ loaded = {}
    BY <1>2, <2>1 DEF AgreeOn, Ordered, ServedInv
  <2>3. Changes(n)' = {} /\ Admins' = {}
    BY <2>1, <2>2 DEF Changes, Admins
  <2>4. Resting(n)'
    BY <1>2, <2>1, <2>2 DEF AgreeOn, AdminOn, Resting, Stored
  <2> QED BY <2>3, <2>4 DEF AgreeOn, AdminOn, Ordered
<1> QED BY <1>5, <1>6, <1>7, <1>8

\* What is in memory, in the log and in the files stays in step, as long as calls
\* on collections wait for each other.
LEMMA AgreeHolds == OneAdmin /\ Spec => []AgreeInv
<1> SUFFICES ASSUME OneAdmin PROVE Spec => []AgreeInv
  OBVIOUS
<1>1. Init => AgreeInv
  <2> SUFFICES ASSUME Init, NEW n \in Names PROVE AgreeOn(n)
    BY DEF AgreeInv
  <2>1. Admins = {} /\ Changes(n) = {}
    BY DEF Init, Admins, Changes, Idle, AdminOps, DocOps
  <2>2. loaded = {} /\ listed = {} /\ docs[n] = {}
    BY DEF Init
  <2> QED BY <2>1, <2>2 DEF AgreeOn, AdminOn, Ordered, Resting
<1>2. TypeInv /\ ServedInv /\ PromiseInv /\ AgreeInv /\ [Next]_vars => AgreeInv'
  <2> SUFFICES ASSUME TypeInv, ServedInv, PromiseInv, AgreeInv, [Next]_vars PROVE AgreeInv'
    OBVIOUS
  <2>1. CASE Next
    BY <2>1, BeginAgrees, AdminAgrees, ChangeAgrees, ProcessAgrees DEF Next
  <2>2. CASE UNCHANGED vars
    <3>1. \A n \in Names : Spared(n)
      BY <2>2 DEF vars, log, files, flags, memory, between, history, Spared
    <3>2. \A n \in Names : Clean(n)' => Clean(n)
      BY <2>2 DEF vars, history, Clean
    <3> QED BY <3>1, <3>2, SparedAgrees DEF AgreeInv
  <2> QED BY <2>1, <2>2
<1> QED BY <1>1, <1>2, TypesHold, ServedHolds, PromisesHold, PTL DEF Spec

\* What FilterSearch answers on an index that has the postings of the documents.
LEMMA FilterFinds ==
  ASSUME NEW n \in Names, Whole(n), docs[n] \in SUBSET Doc
  PROVE  /\ \A k : FilterSearch(n, "_id", k) = {d \in docs[n] : d.key = k}
         /\ \A t : FilterSearch(n, "tag", t) = {d \in docs[n] : d.tag = t}
<1>1. ASSUME NEW on, NEW val, NEW D \in SUBSET docs[n], Lookup(n, on, val) = {d.id : d \in D}
      PROVE  FilterSearch(n, on, val) = D
  <2>1. \A i \in Lookup(n, on, val) : \E d \in docs[n] : d.id = i
    BY <1>1
  <2>2. {d \in docs[n] : d.id \in Lookup(n, on, val)} = D
    BY <1>1 DEF Whole, Single
  <2> QED BY <2>1, <2>2 DEF FilterSearch
<1>2. ASSUME NEW k PROVE Lookup(n, "_id", k) = {d.id : d \in {e \in docs[n] : e.key = k}}
  <2>1. \A p : p \in index[n] /\ p.on = "_id" /\ p.val = k
                 => \E d \in docs[n] : d.key = k /\ d.id = p.id
    BY DEF Whole, PostingsOfAll, PostingsOf
  <2>2. \A d \in docs[n] : d.key = k =>
          \E p \in index[n] : p.on = "_id" /\ p.val = k /\ p.id = d.id
    <3> SUFFICES ASSUME NEW d \in docs[n], d.key = k
                 PROVE  \E p \in index[n] : p.on = "_id" /\ p.val = k /\ p.id = d.id
      OBVIOUS
    <3>1. PostingsOf(d) \subseteq index[n]
      BY DEF Whole, PostingsOfAll
    <3>2. [on |-> "_id", val |-> d.key, id |-> d.id] \in index[n]
      BY <3>1 DEF PostingsOf
    <3> QED BY <3>2
  <2> QED BY <2>1, <2>2 DEF Lookup
<1>3. ASSUME NEW t PROVE Lookup(n, "tag", t) = {d.id : d \in {e \in docs[n] : e.tag = t}}
  <2>1. \A p : p \in index[n] /\ p.on = "tag" /\ p.val = t
                 => \E d \in docs[n] : d.tag = t /\ d.id = p.id
    BY DEF Whole, PostingsOfAll, PostingsOf
  <2>2. \A d \in docs[n] : d.tag = t =>
          \E p \in index[n] : p.on = "tag" /\ p.val = t /\ p.id = d.id
    <3> SUFFICES ASSUME NEW d \in docs[n], d.tag = t
                 PROVE  \E p \in index[n] : p.on = "tag" /\ p.val = t /\ p.id = d.id
      OBVIOUS
    <3>1. PostingsOf(d) \subseteq index[n]
      BY DEF Whole, PostingsOfAll
    <3>2. [on |-> "tag", val |-> d.tag, id |-> d.id] \in index[n]
      BY <3>1 DEF PostingsOf
    <3> QED BY <3>2
  <2> QED BY <2>1, <2>2 DEF Lookup
<1>4. ASSUME NEW k PROVE FilterSearch(n, "_id", k) = {d \in docs[n] : d.key = k}
  <2>1. {d \in docs[n] : d.key = k} \in SUBSET docs[n]
    OBVIOUS
  <2> QED BY <1>1, <1>2, <2>1
<1>5. ASSUME NEW t PROVE FilterSearch(n, "tag", t) = {d \in docs[n] : d.tag = t}
  <2>1. {d \in docs[n] : d.tag = t} \in SUBSET docs[n]
    OBVIOUS
  <2> QED BY <1>1, <1>3, <2>1
<1> QED BY <1>4, <1>5

\* When nothing is in progress on a collection that met no call out of order and
\* lost no posting with a column, its searches, its documents and its files agree,
\* for any number of documents, changes, failures and restarts (core.go:144-713,
\* core_helper.go:41-225).
THEOREM AllAgree == OneAdmin /\ Spec => []Agree
<1>1. TypeInv /\ ServedInv /\ AgreeInv => Agree
  <2> SUFFICES ASSUME TypeInv, ServedInv, AgreeInv, process = "up", NEW n \in exists, QuietOn(n),
                      n \notin exposed \cup lost, \A k \in Keys : <<n, k>> \notin spoiled
               PROVE
      IF n \in loaded
      THEN /\ VectorSearch(n) = docs[n]
           /\ \A k \in Keys : FilterSearch(n, "_id", k) = {d \in docs[n] : d.key = k}
           /\ \A t \in Tags : FilterSearch(n, "tag", t) = {d \in docs[n] : d.tag = t}
      ELSE raw[n] = docs[n] /\ bin[n] = PostingsOfAll(docs[n])
    BY DEF Agree
  <2>1. /\ n \in Names /\ docs[n] \in SUBSET Doc /\ graph[n] \in SUBSET Doc
        /\ index[n] \in SUBSET Posting
    BY DEF TypeInv, TypeOK
  <2>2. Resting(n) /\ n \in listed
    BY <2>1 DEF QuietOn, Clean, AgreeInv, AgreeOn, ServedInv, Sound
  <2>3. CASE n \in loaded
    <3>1. InStep(n)
      BY <2>2, <2>3 DEF Resting
    <3>2. Whole(n)
      BY <2>1, <3>1, WholeIs DEF QuietOn, InStep, Calm, Agreed, Whole
    <3> QED BY <2>1, <2>3, <3>2, FilterFinds DEF VectorSearch, Whole
  <2>4. CASE n \notin loaded
    BY <2>2, <2>4 DEF Resting, Stored
  <2> QED BY <2>3, <2>4
<1> QED BY <1>1, TypesHold, ServedHolds, AgreeHolds, PTL
=============================================================================
