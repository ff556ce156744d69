------------------------------ MODULE DiskvInv ------------------------------
(***************************************************************************)
(* The inductive invariant of Diskv and the vocabulary it is written in:   *)
(* which record of a key counts in the first n records of a log lg, and    *)
(* what the lock, the index, the scan of Open and the history have to do   *)
(* with the log.  TLC checks it on small instances; DiskvProofs proves it. *)
(***************************************************************************)
EXTENDS Diskv

-----------------------------------------------------------------------------
(* Logs *)

\* The records of Record that carry a write.
IsWrite(r) == r.type # "finished"

\* The batch of record p is ended by a mark within the first n records of lg.
Ended(lg, p, n) ==
  \E q \in p + 1 .. n : lg[q].type = "finished" /\ SameBatch(lg[p], lg[q])

\* Record p is a write of k that counts in the first n records of lg.
Counts(lg, k, n, p) ==
  p \in 1 .. n /\ IsWrite(lg[p]) /\ lg[p].key = k /\ Ended(lg, p, n)

\* Record p is the last of them.
LastWrite(lg, k, n, p) ==
  Counts(lg, k, n, p) /\ \A q \in 1 .. n : Counts(lg, k, n, q) => q <= p

Deleted(lg, k, n) ==
  \A p \in 1 .. n : LastWrite(lg, k, n, p) => lg[p].type = "deleted"

\* The index ix is right for the first n records of lg.
IndexOK(ix, lg, n) ==
  \A k \in Keys :
    \/ ix[k] = 0 /\ Deleted(lg, k, n)
    \/ ix[k] \in 1 .. n /\ LastWrite(lg, k, n, ix[k]) /\ lg[ix[k]].type = "normal"

\* The map m is what the first n records of lg stand for.
MapOK(m, lg, n) ==
  \A k \in Keys :
    \/ m[k] = Nil /\ Deleted(lg, k, n)
    \/ \E p \in 1 .. n : /\ LastWrite(lg, k, n, p)
                         /\ lg[p].type = "normal" /\ lg[p].val = m[k]

\* A mark and the writes it ends stand together, with no other mark between.
Contiguous(lg, n) ==
  \A m \in 1 .. n : \A p \in 1 .. m - 1 :
    /\ lg[m].type = "finished" /\ IsWrite(lg[p]) /\ SameBatch(lg[p], lg[m])
    /\ ~ Ended(lg, p, m - 1)
    => \A q \in p .. m - 1 : IsWrite(lg[q])

\* A batch writes a key once.
OncePerKey(lg, n) ==
  \A q \in 1 .. n : \A p \in 1 .. q - 1 :
    /\ IsWrite(lg[p]) /\ IsWrite(lg[q]) /\ SameBatch(lg[p], lg[q])
    /\ ~ Ended(lg, p, q)
    => lg[p].key # lg[q].key

\* Two logs with the same first n records.
Agree(lg, lh, n) == \A i \in 1 .. n : lg[i] = lh[i]

\* The writes among the first n records that a mark r as the next record ends.
Unended(lg, r, n) ==
  {p \in 1 .. n : IsWrite(lg[p]) /\ SameBatch(lg[p], r) /\ ~ Ended(lg, p, n)}

-----------------------------------------------------------------------------
(* The invariant *)

\* A batch queues a key once.
DistinctKeys(pending) ==
  \A i, j \in 1 .. Len(pending) : pending[i].key = pending[j].key => i = j

\* Who is in a batch holds the lock in the batch's mode; a closed or loading
\* database has no batch (Batch.lock, Batch.unlock).
LockInv ==
  /\ \A c \in Clients :
       /\ InBatch(c) => IF batch[c].ro THEN c \in readers ELSE writer = c
       /\ batch[c].mode = "written" => ~ batch[c].ro
       /\ db # "open" => ~ InBatch(c)
  /\ readers # {} => writer = Nil

\* The log is made of whole batches, but for the ones that a crash cut short:
\* those have no mark, and an id that no later batch draws.
LogInv ==
  /\ Contiguous(log, Len(log)) /\ OncePerKey(log, Len(log))
  /\ \A p \in 1 .. Len(log) : log[p].ms <= now
  /\ db \in {"open", "loading"} =>
       /\ wend = Len(log)
       /\ \A p \in 1 .. Len(log) :
            IsWrite(log[p]) /\ ~ Ended(log, p, Len(log)) => log[p].ms < now
  /\ \A c \in Clients : DistinctKeys(batch[c].pending)

\* The history is what the log says.
HistInv == \A n \in 0 .. Len(log) : MapOK(MapAt(n), log, n)

\* The index of an open database is right for the whole log, but for a batch
\* that was written and not indexed yet: it will be once that one is.
IndexInv ==
  /\ \A c \in Clients : batch[c].mode = "written" =>
       IndexOK(IndexWith(index, batch[c].pending, batch[c].base), log, Len(log))
  /\ db = "open" /\ ~ MidCommit => IndexOK(index, log, Len(log))

\* The scan has indexed the batches it has read the mark of, and holds the
\* writes of the others.
ScanInv ==
  /\ db = "down" => /\ \A k \in Keys : index[k] = 0
                    /\ cursor = 0 /\ buffered = {}
  /\ db = "loading" =>
       /\ IndexOK(index, log, cursor)
       /\ buffered = {p \in 1 .. cursor : IsWrite(log[p]) /\ ~ Ended(log, p, cursor)}

\* What the log, the history, the index and the scan have to do with each other.
DataInv == LogInv /\ HistInv /\ IndexInv /\ ScanInv

\* All of it is inductive as long as no write(2) fails half way and no batch is
\* committed twice (Batch.Commit, loadIndexFromWAL).
IInv == TypeOK /\ LockInv /\ DataInv

-----------------------------------------------------------------------------
(* The abstract store *)

\* The versions that are still in the log past the last fsync, and the map an
\* open database answers from.
Past == {MapAt(n) : n \in synced .. Len(log)}
View == IF db = "open" THEN [k \in Keys |-> Read(k)] ELSE Nil

KV == INSTANCE KVStore WITH store <- Committed, past <- Past, view <- View

\* A client sees a map that batches change all at once, and that a crash takes
\* back to no version older than the last fsync: the store implements KVStore
\* (Batch.Commit, Open).
RefinesKVStore == KV!Spec

=============================================================================
