------------------------------- MODULE Diskv -------------------------------
(***************************************************************************)
(* The write path of the diskv key-value store and its recovery: batches   *)
(* that hold the database lock for their whole life, the write-ahead log   *)
(* they append to, the in-memory index from keys to log positions, and the *)
(* scan that rebuilds the index when the database is opened.               *)
(*                                                                         *)
(* The log is one sequence of records and a position is an offset in it:   *)
(* how a record is cut into chunks, blocks and segment files is the        *)
(* business of WalSegment, and rewriting old segments that of DiskvMerge.  *)
(* A record never expires here, as in this version of the code: every      *)
(* record is written with Expire = 0.  A batch is used as db.go uses it:    *)
(* once its Commit or Rollback has returned, it is not touched again.      *)
(***************************************************************************)
EXTENDS Naturals, Sequences

CONSTANTS
  Keys, Values,   \* what clients write
  Nil,            \* "no value", "no client", and the key of an end-of-batch mark
  Clients,        \* goroutines that use batches
  Steps,          \* sequence numbers snowflake can draw within a millisecond
  OptSync,        \* Options.Sync
  SegmentSize,    \* Options.SegmentSize, in records
  Faults,         \* the faults a run may suffer, a subset of FaultKinds
  MaxLog,         \* bound: records in the log
  MaxOpens        \* bound: times the database is opened

FaultKinds == {"process",   \* the process dies, the files stay as they are
               "partial",   \* the process dies inside a write(2) of a batch
               "machine",   \* the machine dies, records not fsynced may vanish
               "torn",      \* a crash leaves the head of one chunk at the tail
               "io"}        \* a write(2) or fsync fails, the process goes on

ASSUME DiskvAssumption ==
  /\ Nil \notin Keys \cup Values \cup Clients
  /\ Steps # {}
  /\ OptSync \in BOOLEAN
  /\ SegmentSize \in Nat /\ MaxLog \in Nat /\ MaxOpens \in Nat
  /\ Faults \subseteq FaultKinds

\* "No value" is not itself a map of the store.
ASSUME NilAssumption == Nil \notin [Keys -> Values \cup {Nil}]

VARIABLES
  (* on disk *)
  log,       \* records of the data files, in order
  synced,    \* how many of them are known to have reached the device
  torn,      \* where the scan of Open meets bytes it cannot read: after how
             \* many records a chunk is cut short, or not where it should be
  (* in memory *)
  db,        \* what the database is doing
  now,       \* snowflake's clock
  index,     \* key -> position of its record, 0 when the key is not indexed
  wend,      \* where the writer believes the log ends
  writer,    \* the client that holds db.mu for writing, or Nil
  readers,   \* the clients that hold db.mu for reading
  batch,     \* the batch of every client
  cursor,    \* records read by the scan of Open
  buffered,  \* indexRecords: positions read and not yet applied
  (* history *)
  hist,      \* hist[n]: what the first n records of the log stand for
  acked      \* log length at the last Commit that promised an fsync

disk  == <<log, synced, torn>>
scan  == <<cursor, buffered>>
ghost == <<hist, acked>>
lock  == <<writer, readers>>
vars  == <<disk, db, now, index, wend, lock, batch, scan, ghost>>

-----------------------------------------------------------------------------
(* Records and batches *)

Map == [Keys -> Values \cup {Nil}]
EmptyMap == [k \in Keys |-> Nil]

\* A record waiting in a batch.
Write == [type : {"normal"}, key : Keys, val : Values]
           \cup [type : {"deleted"}, key : Keys, val : {Nil}]

\* A record of the log; the mark that ends a batch has no key of its own.
Record == [type : {"normal", "deleted", "finished"}, key : Keys \cup {Nil},
           val : Values \cup {Nil}, ms : Nat, step : Steps]

SameBatch(r, s) == r.ms = s.ms /\ r.step = s.step

NoBatch == [mode |-> "none", ro |-> TRUE, sync |-> FALSE,
            pending |-> <<>>, base |-> 0]

Batch == [mode : {"none", "open", "written"}, ro : BOOLEAN,
          sync : BOOLEAN, pending : Seq(Write), base : Nat]

\* lookupPendingWrites: where k waits in a batch.
Lookup(pending, k) == {i \in 1 .. Len(pending) : pending[i].key = k}

\* Mutant of Pend: Delete changes the type of a record that waits, not its value.
PendKeepsValue(pending, w) ==
  IF Lookup(pending, w.key) = {}
    THEN Append(pending, w)
    ELSE [i \in 1 .. Len(pending) |->
            IF pending[i].key = w.key /\ w.type = "deleted"
              THEN [pending[i] EXCEPT !.type = w.type]
              ELSE IF pending[i].key = w.key THEN w ELSE pending[i]]

\* Put and Delete overwrite the record that waits for the key, or queue one.
Pend(pending, w) ==
  IF Lookup(pending, w.key) = {}
    THEN Append(pending, w)
    ELSE [i \in 1 .. Len(pending) |->
            IF pending[i].key = w.key THEN w ELSE pending[i]]

\* What Commit hands to the log: the batch under one id, then the mark.
Encode(pending, ms, step) ==
  [i \in 1 .. Len(pending) + 1 |->
     IF i <= Len(pending)
       THEN [type |-> pending[i].type, key |-> pending[i].key,
             val |-> pending[i].val, ms |-> ms, step |-> step]
       ELSE [type |-> "finished", key |-> Nil, val |-> Nil,
             ms |-> ms, step |-> step]]

\* The map m with the writes of a batch applied.
Apply(m, pending) ==
  [k \in Keys |-> IF Lookup(pending, k) = {} THEN m[k]
                  ELSE pending[CHOOSE i \in Lookup(pending, k) : TRUE].val]

\* What the first n records of the log stand for.
MapAt(n) == IF n = 0 THEN EmptyMap ELSE hist[n]
Committed == MapAt(Len(log))

\* The history of a log that grows by n records of a batch: the map changes
\* with the mark that ends the batch and not before.
HistWith(pending, n) ==
  hist \o [i \in 1 .. n |-> IF i <= Len(pending) THEN Committed
                            ELSE Apply(Committed, pending)]

-----------------------------------------------------------------------------
(* Reading *)

\* dataFiles.Read at the position the index gives.  Positions are what the
\* counters of the active segment say, which is where the record is unless a
\* write(2) has failed since Open.
Read(k) ==
  IF index[k] = 0 THEN Nil
  ELSE IF index[k] \in 1 .. Len(log) THEN log[index[k]].val ELSE Nil

InBatch(c) == batch[c].mode \in {"open", "written"}

-----------------------------------------------------------------------------
Init ==
  /\ log = <<>> /\ synced = 0 /\ torn = {}
  /\ db = "down" /\ now = 0 /\ wend = 0
  /\ index = [k \in Keys |-> 0]
  /\ writer = Nil /\ readers = {}
  /\ batch = [c \in Clients |-> NoBatch]
  /\ cursor = 0 /\ buffered = {}
  /\ hist = <<>> /\ acked = 0

-----------------------------------------------------------------------------
(* Batches *)

\* Mutant of NewBatch: a batch that writes does not wait for readers.
NewBatchIgnoresReaders(c, ro, sync) ==
  /\ db = "open"
  /\ ~ InBatch(c)
  /\ writer = Nil
  /\ IF ro THEN readers' = readers \cup {c} /\ UNCHANGED writer
           ELSE writer' = c /\ UNCHANGED readers
  /\ batch' = [batch EXCEPT ![c] = [NoBatch EXCEPT !.mode = "open",
                                                   !.ro = ro, !.sync = sync]]
  /\ UNCHANGED <<disk, db, now, index, wend, scan, ghost>>

\* NewBatch: take db.mu and keep it until the batch ends.  DB.Put, Get, Delete
\* and Exist do the same with a batch of their own.
NewBatch(c, ro, sync) ==
  /\ db = "open"
  /\ ~ InBatch(c)
  /\ writer = Nil
  /\ IF ro THEN readers' = readers \cup {c} /\ UNCHANGED writer
           ELSE readers = {} /\ writer' = c /\ UNCHANGED readers
  /\ batch' = [batch EXCEPT ![c] = [NoBatch EXCEPT !.mode = "open",
                                                   !.ro = ro, !.sync = sync]]
  /\ UNCHANGED <<disk, db, now, index, wend, scan, ghost>>

\* The deferred unlock of Commit and Rollback.
Unlock(c) ==
  IF batch[c].ro THEN readers' = readers \ {c} /\ UNCHANGED writer
                 ELSE writer' = Nil /\ UNCHANGED readers

\* The batch has ended, well or not.
EndBatch(c) == Unlock(c) /\ batch' = [batch EXCEPT ![c] = NoBatch]

CanWrite(c) == db = "open" /\ batch[c].mode = "open" /\ ~ batch[c].ro

BatchPut(c, k, v) ==
  /\ CanWrite(c)
  /\ batch' = [batch EXCEPT ![c].pending =
                 Pend(@, [type |-> "normal", key |-> k, val |-> v])]
  /\ UNCHANGED <<disk, db, now, index, wend, lock, scan, ghost>>

BatchDelete(c, k) ==
  /\ CanWrite(c)
  /\ batch' = [batch EXCEPT ![c].pending =
                 Pend(@, [type |-> "deleted", key |-> k, val |-> Nil])]
  /\ UNCHANGED <<disk, db, now, index, wend, lock, scan, ghost>>

\* Commit of a read-only or empty batch.
CommitNothing(c) ==
  /\ db = "open" /\ batch[c].mode = "open"
  /\ batch[c].ro \/ batch[c].pending = <<>>
  /\ EndBatch(c)
  /\ UNCHANGED <<disk, db, now, index, wend, scan, ghost>>

\* Commit of a batch larger than a segment: ErrPendingSizeTooLarge.
CommitTooLarge(c) ==
  /\ CanWrite(c) /\ batch[c].pending # <<>>
  /\ Len(batch[c].pending) + 1 > SegmentSize
  /\ EndBatch(c)
  /\ UNCHANGED <<disk, db, now, index, wend, scan, ghost>>

\* Commit has a batch that fits, and draws an id for it: every pooled batch has
\* a snowflake node of its own, all with number 1, so two batches of one
\* millisecond may draw the same id.
Committing(c, step) ==
  /\ CanWrite(c) /\ batch[c].pending # <<>>
  /\ Len(batch[c].pending) + 1 <= SegmentSize
  /\ Len(log) + Len(batch[c].pending) + 1 <= MaxLog
  /\ step \in Steps

\* What Open may be unable to read once more is written: after a write(2) that
\* failed, segment pads its blocks by counters that lag behind the file.
Misplaced == IF wend = Len(log) THEN {torn} ELSE {torn, torn \cup {Len(log)}}

\* WriteAll: the whole batch and its mark in one write(2).
CommitWrite(c, step) ==
  LET pending == batch[c].pending IN
  /\ Committing(c, step)
  /\ log' = log \o Encode(pending, now, step)
  /\ wend' = wend + Len(pending) + 1
  /\ hist' = HistWith(pending, Len(pending) + 1)
  /\ batch' = [batch EXCEPT ![c].mode = "written", ![c].base = wend]
  /\ torn' \in Misplaced
  /\ UNCHANGED <<synced, db, now, index, lock, scan, acked>>

\* The index ix once the records written after position base are applied to it.
IndexWith(ix, pending, base) ==
  [k \in Keys |->
     IF Lookup(pending, k) = {} THEN ix[k]
     ELSE LET i == CHOOSE j \in Lookup(pending, k) : TRUE
          IN  IF pending[i].type = "deleted" THEN 0 ELSE base + i]

\* Mutant of CommitFsync: the option of the batch is not looked at.
CommitFsyncForgets(c) == IF OptSync THEN Len(log) ELSE synced

\* Commit calls fsync for a batch that asks for it, unless the database does.
CommitFsync(c) == IF batch[c].sync /\ ~ OptSync THEN Len(log) ELSE synced

\* The rest of Commit: fsync, index every record, unlock, return nil.
CommitIndex(c) ==
  /\ db = "open" /\ batch[c].mode = "written"
  /\ synced' = CommitFsync(c)
  /\ index' = IndexWith(index, batch[c].pending, batch[c].base)
  /\ acked' = IF batch[c].sync \/ OptSync THEN Len(log) ELSE acked
  /\ EndBatch(c)
  /\ UNCHANGED <<log, torn, db, now, wend, scan, hist>>

Rollback(c) ==
  /\ db = "open" /\ batch[c].mode = "open"
  /\ EndBatch(c)
  /\ UNCHANGED <<disk, db, now, index, wend, scan, ghost>>

\* DB.Sync.
Sync ==
  /\ db = "open" /\ writer = Nil /\ readers = {}
  /\ synced' = Len(log)
  /\ UNCHANGED <<log, torn, db, now, index, wend, lock, batch, scan, ghost>>

-----------------------------------------------------------------------------
(* Faults *)

\* The process is gone: nothing that was in memory is left.
Die ==
  /\ db' = "down"
  /\ writer' = Nil /\ readers' = {}
  /\ batch' = [c \in Clients |-> NoBatch]
  /\ index' = [k \in Keys |-> 0]
  /\ cursor' = 0 /\ buffered' = {}

\* DB.Close takes db.mu, so no batch is in progress.
Close ==
  /\ db = "open" /\ writer = Nil /\ readers = {}
  /\ Die
  /\ UNCHANGED <<disk, now, wend, ghost>>

ProcessCrash ==
  /\ "process" \in Faults
  /\ db \in {"open", "loading"}
  /\ Die
  /\ UNCHANGED <<disk, now, wend, ghost>>

\* The process dies when n records of the batch have reached the file.
CrashInWrite(c, step, n) ==
  LET pending == batch[c].pending IN
  /\ "partial" \in Faults
  /\ Committing(c, step)
  /\ n \in 0 .. Len(pending)
  /\ log' = log \o SubSeq(Encode(pending, now, step), 1, n)
  /\ hist' = HistWith(pending, n)
  /\ \/ torn' \in Misplaced
     \/ "torn" \in Faults /\ torn' = torn \cup {Len(log) + n}
  /\ Die
  /\ UNCHANGED <<synced, now, wend, acked>>

\* The machine dies: records past the last fsync may be lost, from the end, and
\* with them, or without, what was cut short among them.
MachineCrash(n) ==
  /\ "machine" \in Faults
  /\ db \in {"open", "loading"}
  /\ n \in synced .. Len(log)
  /\ log' = SubSeq(log, 1, n)
  /\ hist' = SubSeq(hist, 1, n)
  /\ \E cut \in SUBSET {n} :
       /\ cut # {} => n \in torn \/ (n < Len(log) /\ "torn" \in Faults)
       /\ torn' = {t \in torn : t < n} \cup cut
  /\ Die
  /\ UNCHANGED <<synced, now, wend, acked>>

\* write(2) fails, as on a full disk: nothing was written, or n records and
\* perhaps a part of the next.  segment.writeAll sets its counters back; the
\* file, which is open for appending, keeps what was written.
WriteFails(c, step, n) ==
  LET pending == batch[c].pending IN
  /\ "io" \in Faults
  /\ Committing(c, step)
  /\ n \in 0 .. Len(pending)
  /\ log' = log \o SubSeq(Encode(pending, now, step), 1, n)
  /\ hist' = HistWith(pending, n)
  /\ torn' \in Misplaced \cup {torn \cup {Len(log) + n}}
  /\ EndBatch(c)
  /\ UNCHANGED <<synced, db, now, index, wend, scan, acked>>

\* fsync fails: Commit returns the error and indexes nothing, and the batch
\* stays in the log with its mark, for the next Open to find.
FsyncFails(c) ==
  /\ "io" \in Faults
  /\ db = "open" /\ batch[c].mode = "written"
  /\ batch[c].sync /\ ~ OptSync
  /\ EndBatch(c)
  /\ UNCHANGED <<disk, db, now, index, wend, scan, ghost>>

-----------------------------------------------------------------------------
(* Open *)

\* Files are opened and the scan starts.  Opening a database takes longer than
\* the millisecond in which snowflake could repeat an id.
Open ==
  /\ db = "down" /\ now < MaxOpens
  /\ db' = "loading"
  /\ now' = now + 1
  /\ wend' = Len(log)
  /\ UNCHANGED <<disk, index, lock, batch, scan, ghost>>

\* Mutant of Waiting: a mark is taken to end whatever was read before it.
WaitingForAnyMark(r) == buffered

\* The records of a batch, set aside until its mark was read.
Waiting(r) == {p \in buffered : SameBatch(log[p], r)}

\* The index once the buffered records of the batch that r ends are applied in
\* the order they were read.
IndexBatch(r) ==
  [k \in Keys |->
     LET P == {p \in Waiting(r) : log[p].key = k}
     IN  IF P = {} THEN index[k]
         ELSE LET p == CHOOSE q \in P : \A s \in P : s <= q
              IN  IF log[p].type = "normal" THEN p ELSE 0]

\* Mutant of LoadRecord: the records of a batch stay set aside after its mark.
LoadRecordKeeps ==
  LET r == log[cursor + 1] IN
  /\ db = "loading" /\ cursor < Len(log) /\ cursor \notin torn
  /\ IF r.type = "finished"
       THEN index' = IndexBatch(r) /\ UNCHANGED buffered
       ELSE buffered' = buffered \cup {cursor + 1} /\ UNCHANGED index
  /\ cursor' = cursor + 1
  /\ UNCHANGED <<disk, db, now, wend, lock, batch, ghost>>

\* Mutant of LoadRecord: a record is indexed without waiting for a mark.
LoadRecordEager ==
  LET r == log[cursor + 1] IN
  /\ db = "loading" /\ cursor < Len(log) /\ cursor \notin torn
  /\ index' = IF r.type = "normal" THEN [index EXCEPT ![r.key] = cursor + 1]
              ELSE IF r.type = "deleted" THEN [index EXCEPT ![r.key] = 0]
              ELSE index
  /\ cursor' = cursor + 1
  /\ UNCHANGED <<disk, db, now, wend, lock, batch, ghost, buffered>>

\* loadIndexFromWAL, one record: a mark applies the records of its batch, any
\* other record waits for its mark.
LoadRecord ==
  LET r == log[cursor + 1] IN
  /\ db = "loading" /\ cursor < Len(log) /\ cursor \notin torn
  /\ IF r.type = "finished"
       THEN /\ index' = IndexBatch(r)
            /\ buffered' = buffered \ Waiting(r)
       ELSE /\ buffered' = buffered \cup {cursor + 1}
            /\ UNCHANGED index
  /\ cursor' = cursor + 1
  /\ UNCHANGED <<disk, db, now, wend, lock, batch, ghost>>

\* The end of the log.
LoadDone ==
  /\ db = "loading" /\ cursor = Len(log) /\ cursor \notin torn
  /\ db' = "open"
  /\ cursor' = 0 /\ buffered' = {}
  /\ UNCHANGED <<disk, now, index, wend, lock, batch, ghost>>

\* A chunk that fails its checksum: Open returns the error, then and ever after.
LoadFails ==
  /\ db = "loading" /\ cursor \in torn
  /\ db' = "corrupt"
  /\ cursor' = 0 /\ buffered' = {}
  /\ UNCHANGED <<disk, now, index, wend, lock, batch, ghost>>

-----------------------------------------------------------------------------
ClientStep(c) ==
  \/ \E ro, sync \in BOOLEAN : NewBatch(c, ro, sync)
  \/ \E k \in Keys, v \in Values : BatchPut(c, k, v)
  \/ \E k \in Keys : BatchDelete(c, k)
  \/ CommitNothing(c)
  \/ CommitTooLarge(c)
  \/ \E step \in Steps : CommitWrite(c, step)
  \/ CommitIndex(c)
  \/ Rollback(c)

FaultStep ==
  \/ ProcessCrash
  \/ \E n \in 0 .. MaxLog : MachineCrash(n)
  \/ \E c \in Clients : FsyncFails(c)
  \/ \E c \in Clients, step \in Steps, n \in 0 .. MaxLog :
       CrashInWrite(c, step, n) \/ WriteFails(c, step, n)

Next ==
  \/ \E c \in Clients : ClientStep(c)
  \/ Sync \/ Close
  \/ FaultStep
  \/ Open \/ LoadRecord \/ LoadDone \/ LoadFails

Spec == Init /\ [][Next]_vars

-----------------------------------------------------------------------------
(* Properties *)

\* Every variable is in its type, and the parts of the state that describe the
\* same log agree on its length (Diskv struct, Batch struct, WAL).
TypeOK ==
  /\ log \in Seq(Record) /\ synced \in Nat /\ torn \subseteq 0 .. Len(log)
  /\ db \in {"down", "loading", "open", "corrupt"}
  /\ now \in 0 .. MaxOpens /\ wend \in Nat
  /\ index \in [Keys -> Nat]
  /\ writer \in Clients \cup {Nil} /\ readers \subseteq Clients
  /\ batch \in [Clients -> Batch]
  /\ cursor \in 0 .. Len(log) /\ buffered \subseteq 1 .. Len(log)
  /\ hist \in Seq(Map) /\ Len(hist) = Len(log)
  /\ acked \in Nat

\* A commit between its write and its index update.
MidCommit == \E c \in Clients : batch[c].mode = "written"

\* What an open database answers is what the committed batches left, whether
\* they were indexed as they committed or found again by the scan of Open after
\* any crash: nothing of a batch without its mark, everything of one with it.
ReadsLatestCommit ==
  db = "open" /\ ~ MidCommit => \A k \in Keys : Read(k) = Committed[k]

\* A Commit that returned nil and promised an fsync is still in the log, ahead
\* of anything Open cannot read (BatchOptions.Sync, Options.Sync: "required for
\* durability", "write followed by fsync").
SyncedCommitsSurvive == acked <= Len(log) /\ \A t \in torn : acked <= t

\* Whatever fails, and whatever is acknowledged afterwards that should not have
\* been, nothing that Open could reach when it was acknowledged gets out of its
\* reach (segment.writeAll after a failed write, Batch.Commit).
AckedOutOfHarm ==
  [][acked <= Len(log)' /\ \A t \in torn' \ torn : acked <= t]_vars

\* No two batches that write, nor one that writes and one that reads, are in
\* progress together, commits that fail included (Batch.lock, Batch.unlock).
OneWriter ==
  \A c, d \in Clients :
    c # d /\ InBatch(c) /\ InBatch(d) => batch[c].ro /\ batch[d].ro

\* A read-only batch is answered from one version of the store while it lives.
FrozenView ==
  [][\A c \in Clients :
       (InBatch(c) /\ batch[c].ro /\ batch'[c] = batch[c])
         => \A k \in Keys : Read(k)' = Read(k)]_vars

=============================================================================
