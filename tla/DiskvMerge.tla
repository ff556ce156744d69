------------------------------ MODULE DiskvMerge ------------------------------
(***************************************************************************)
(* Merging the data files of diskv: a background merge rewrites the live   *)
(* records of the older segments into a directory of its own, with a hint  *)
(* file that indexes them and a MERGEFIN file that says it is complete;    *)
(* Merge(true), or the next Open, swaps the new segments in.               *)
(*                                                                         *)
(* A write is one record here, and it fills one place of a segment: that a *)
(* batch is in the log as a whole or not at all, and never in two          *)
(* segments, is what Diskv shows.  The process may die, its files stay.    *)
(***************************************************************************)
EXTENDS Naturals, Sequences, FiniteSets, FiniteSetsExt

CONSTANTS
  Keys, Values,   \* what clients write
  Nil,            \* "no value", "no merge"
  Merges,         \* goroutines that call Merge
  SegmentSize,    \* records in a segment
  Faults,         \* what a run may suffer, a subset of FaultKinds
  MaxSegs,        \* bound: segment files
  MaxWrites,      \* bound: writes
  MaxOpens        \* bound: times the database is opened

FaultKinds == {"process",   \* the process dies, but not as in the next two
               "remerge",   \* it dies in a merge of a store merged before
               "swap",      \* it dies while Open or Merge moves merged files
               "close",     \* Close is called while a Merge(false) runs
               "overlap"}   \* Merge is called while another Merge(true) swaps

ASSUME DiskvMergeAssumption ==
  /\ Nil \notin Keys \cup Values \cup Merges
  /\ SegmentSize \in Nat \ {0} /\ MaxSegs \in Nat \ {0}
  /\ MaxWrites \in Nat /\ MaxOpens \in Nat
  /\ Faults \subseteq FaultKinds

VARIABLES
  (* the data directory *)
  segs,      \* segment id -> records, for the segment files that exist
  hint,      \* records of the HINT file
  fin,       \* the segment id MERGEFIN holds, 0 when there is no such file
  (* the merge directory *)
  mdir,      \* its segments, HINT and MERGEFIN
  (* in memory *)
  db,        \* "down", "open", or "swapping": db.mu is held and files change
  index,     \* key -> position
  running,   \* db.mergeRunning
  merge,     \* what every merge is doing
  load,      \* progress of loadMergeFiles
  opens,     \* how often the database was opened
  (* history *)
  kv,        \* what clients wrote
  writes     \* how often they did

data == <<segs, hint, fin>>
vars == <<data, mdir, db, index, running, merge, load, opens, kv, writes>>

-----------------------------------------------------------------------------
(* Records, positions and directories *)

Map == [Keys -> Values \cup {Nil}]
Record == [key : Keys, val : Values \cup {Nil}]   \* val = Nil: a deletion

\* A ChunkPosition; segment 0 is no position.
Pos(s, n) == [seg |-> s, n |-> n]
NoPos == Pos(0, 0)
Position == [seg : 0 .. MaxSegs, n : Nat]
HintRecord == [key : Keys, pos : Position]

Before(p, q) == p.seg < q.seg \/ (p.seg = q.seg /\ p.n < q.n)
FirstOf(P) == CHOOSE p \in P : \A q \in P : ~ Before(q, p)
LastOf(P) == CHOOSE p \in P : \A q \in P : ~ Before(p, q)

NoDir == [exists |-> FALSE, segs |-> <<>>, hint |-> <<>>, hashint |-> FALSE,
          fin |-> 0]

\* What Open leaves in a new merge directory: an empty segment, an empty HINT.
NewDir == [exists |-> TRUE, segs |-> <<<<>>>>, hint |-> <<>>, hashint |-> TRUE,
           fin |-> 0]

\* A merge: where it is, whether it swaps at its end, the last segment it merges,
\* the positions it has yet to read, and whether the data files it reads are open,
\* closed by a swap, or closed with their database for good.
Idle == [pc |-> "idle", reopen |-> FALSE, prev |-> 0, todo |-> {},
         files |-> "open"]

NoLoad == [by |-> Nil, id |-> 0, fin |-> 0]

\* The positions of the records in the segments S of sg.
Positions(sg, S) == UNION {{Pos(s, n) : n \in DOMAIN sg[s]} : s \in S}
At(sg, p) == sg[p.seg][p.n]

\* A sequence of segments with one more record, in a new one when the last is full.
AppendTo(sg, last, r) ==
  IF Len(sg[last]) < SegmentSize
    THEN [sg EXCEPT ![last] = Append(@, r)]
    ELSE [s \in DOMAIN sg \cup {last + 1} |->
            IF s = last + 1 THEN <<r>> ELSE sg[s]]

Active(sg) == Max(DOMAIN sg)
LastPos(sg) == Pos(Active(sg), Len(sg[Active(sg)]))

\* dataFiles.Read at the position the index gives.
Read(k) ==
  LET p == index[k] IN
  IF p.seg \in DOMAIN segs /\ p.n \in DOMAIN segs[p.seg] THEN At(segs, p).val
                                                         ELSE Nil

-----------------------------------------------------------------------------
Init ==
  /\ segs = [s \in {1} |-> <<>>] /\ hint = <<>> /\ fin = 0
  /\ mdir = NoDir
  /\ db = "open" /\ index = [k \in Keys |-> NoPos]
  /\ running = FALSE
  /\ merge = [m \in Merges |-> Idle]
  /\ load = NoLoad /\ opens = 1
  /\ kv = [k \in Keys |-> Nil] /\ writes = 0

-----------------------------------------------------------------------------
(* Writes *)

\* A batch of one write, from NewBatch to the end of Commit, under db.mu.
\* A delete of a key that is not there is committed like any other.
DbWrite(k, v) ==
  LET sg == AppendTo(segs, Active(segs), [key |-> k, val |-> v]) IN
  /\ db = "open" /\ writes < MaxWrites /\ Active(sg) <= MaxSegs
  /\ segs' = sg
  /\ index' = [index EXCEPT ![k] = IF v = Nil THEN NoPos ELSE LastPos(sg)]
  /\ kv' = [kv EXCEPT ![k] = v]
  /\ writes' = writes + 1
  /\ UNCHANGED <<hint, fin, mdir, db, running, merge, load, opens>>

-----------------------------------------------------------------------------
(* doMerge *)

IsEmpty == DOMAIN segs = {Active(segs)} /\ segs[Active(segs)] = <<>>

\* A Merge must not start while another one is about to swap: only the flag
\* mergeRunning keeps merges apart, and it is clear again by then.
MayOverlap == "overlap" \in Faults \/ \A m \in Merges : merge[m].pc # "swap"

\* An empty store has nothing to merge, and Merge(true) goes on to the swap.
MergeNothing(m) ==
  /\ db = "open" /\ merge[m].pc = "idle" /\ MayOverlap
  /\ IsEmpty
  /\ merge' = [merge EXCEPT ![m] = [Idle EXCEPT !.pc = "swap", !.reopen = TRUE]]
  /\ UNCHANGED <<data, mdir, db, index, running, load, opens, kv, writes>>

\* Mutant of Rotated: an id is left out.
RotatedTwice(sg) ==
  [s \in DOMAIN sg \cup {Active(sg) + 2} |-> IF s \in DOMAIN sg THEN sg[s] ELSE <<>>]

\* OpenNewActiveSegment.
Rotated(sg) ==
  [s \in DOMAIN sg \cup {Active(sg) + 1} |-> IF s \in DOMAIN sg THEN sg[s] ELSE <<>>]

\* ErrMergeRunning.
NoMergeRuns == ~ running

\* Under db.mu: set the flag and rotate, so that the older segments stand still.
MergeStart(m, reopen) ==
  /\ db = "open" /\ merge[m].pc = "idle" /\ MayOverlap
  /\ ~ IsEmpty
  /\ NoMergeRuns
  /\ running' = TRUE
  /\ Active(segs) < MaxSegs
  /\ segs' = Rotated(segs)
  /\ merge' = [merge EXCEPT ![m] = [Idle EXCEPT !.pc = "open", !.reopen = reopen,
                                                !.prev = Active(segs)]]
  /\ UNCHANGED <<hint, fin, mdir, db, index, load, opens, kv, writes>>

\* openMergeDB empties the merge directory, and a reader of the segments up to
\* prev is made.  A log that is closed has no older segments to read.
MergeOpen(m) ==
  /\ merge[m].pc = "open"
  /\ mdir' = NewDir
  /\ merge' = [merge EXCEPT ![m].pc = "scan", ![m].todo =
                 IF merge[m].files # "open" THEN {}
                 ELSE Positions(segs, {s \in DOMAIN segs : s <= merge[m].prev})]
  /\ UNCHANGED <<data, db, index, running, load, opens, kv, writes>>

\* Mutant of IsLive: a key that is indexed is enough, wherever its record is.
IsLiveIfIndexed(r, p) == r.val # Nil /\ index[r.key] # NoPos

\* The record r read at p is a write, and the index still points to it
\* (positionEquals).
IsLive(r, p) == r.val # Nil /\ index[r.key] = p

\* The next record: it is kept when it is live, and indexed in HINT.
MergeRecord(m) ==
  LET p  == FirstOf(merge[m].todo)
      r  == At(segs, p)
      ms == AppendTo(mdir.segs, Len(mdir.segs), r)
  IN
  /\ merge[m].pc = "scan" /\ merge[m].todo # {} /\ merge[m].files = "open"
  /\ r.val # Nil => db = "open"   \* db.mu is taken to read the index
  /\ IF IsLive(r, p)
       THEN mdir' = [mdir EXCEPT !.segs = ms, !.hint =
                       Append(@, [key |-> r.key, pos |-> LastPos(ms)])]
       ELSE UNCHANGED mdir
  /\ merge' = [merge EXCEPT ![m].todo = @ \ {p}]
  /\ UNCHANGED <<data, db, index, running, load, opens, kv, writes>>

\* A merge ends: the flag of its database is cleared.
ClearRunning(m) == running' = (running /\ merge[m].files = "gone")

\* Mutant of MergeFails: the flag is cleared only by a merge that succeeds.
MergeFailsKeepsFlag(m) ==
  /\ merge[m].pc = "scan" /\ merge[m].files # "open" /\ merge[m].todo # {}
  /\ merge' = [merge EXCEPT ![m] = Idle]
  /\ UNCHANGED <<data, mdir, db, index, running, load, opens, kv, writes>>

\* The reader finds its files closed, and doMerge returns the error.
MergeFails(m) ==
  /\ merge[m].pc = "scan" /\ merge[m].files # "open" /\ merge[m].todo # {}
  /\ ClearRunning(m)
  /\ merge' = [merge EXCEPT ![m] = Idle]
  /\ UNCHANGED <<data, mdir, db, index, load, opens, kv, writes>>

\* Mutant of AtEnd: any error of the reader is taken for the end of the log.
AtEndOnError(m) == TRUE

\* The reader meets io.EOF.
AtEnd(m) == merge[m].todo = {}

\* Mutant of FinRecord: it names the segment before the last one merged.
FinRecordOneLess(m) == merge[m].prev - 1

\* Mutant of FinRecord: it names the segment that became active.
FinRecordActive(m) == merge[m].prev + 1

\* What MERGEFIN says: the segments up to this one were merged.
FinRecord(m) == merge[m].prev

\* Nothing is left to read: MERGEFIN is written, in a new directory if another
\* merge has removed this one, and the flag is cleared.
MergeFinish(m) ==
  /\ merge[m].pc = "scan" /\ AtEnd(m)
  /\ mdir' = [mdir EXCEPT !.exists = TRUE, !.fin = FinRecord(m)]
  /\ ClearRunning(m)
  /\ merge' = [merge EXCEPT ![m] = IF merge[m].reopen
                 THEN [Idle EXCEPT !.pc = "swap", !.reopen = TRUE] ELSE Idle]
  /\ UNCHANGED <<data, db, index, load, opens, kv, writes>>

\* The data files are closed under every merge that runs.
CloseFiles(how) ==
  merge' = [m \in Merges |->
              IF merge[m].pc \in {"open", "scan"} /\ merge[m].files # "gone"
                THEN [merge[m] EXCEPT !.files = how] ELSE merge[m]]

\* Merge(true) takes db.mu, closes the files and swaps.
SwapStart(m) ==
  /\ db = "open" /\ merge[m].pc = "swap"
  /\ db' = "swapping"
  /\ CloseFiles("closed")
  /\ load' = [by |-> m, id |-> 1, fin |-> mdir.fin]
  /\ UNCHANGED <<data, mdir, index, running, opens, kv, writes>>

-----------------------------------------------------------------------------
(* loadMergeFiles and the rest of Open *)

\* Open reads MERGEFIN, if a merge directory has one.
OpenStart ==
  /\ db = "down" /\ opens < MaxOpens
  /\ db' = "swapping" /\ opens' = opens + 1
  /\ load' = [by |-> Nil, id |-> 1, fin |-> mdir.fin]
  /\ UNCHANGED <<data, mdir, index, running, merge, kv, writes>>

\* One data file is removed, and the merged one moved to its place if it has
\* anything in it.
LoadSegment ==
  LET id    == load.id
      moved == id \in DOMAIN mdir.segs /\ mdir.segs[id] # <<>>
  IN
  /\ db = "swapping" /\ id <= load.fin
  /\ segs' = [s \in (DOMAIN segs \ {id}) \cup (IF moved THEN {id} ELSE {}) |->
                IF s = id THEN mdir.segs[id] ELSE segs[s]]
  /\ mdir' = IF moved THEN [mdir EXCEPT !.segs[id] = <<>>] ELSE mdir
  /\ load' = [load EXCEPT !.id = id + 1]
  /\ UNCHANGED <<hint, fin, db, index, running, merge, opens, kv, writes>>

\* HINT is moved whenever it is there (copyFile with force).
HintMoves == mdir.hashint

\* MERGEFIN and HINT are moved, each if it exists, and the directory is removed.
LoadFinish ==
  /\ db = "swapping" /\ load.id = load.fin + 1
  /\ fin' = IF mdir.fin # 0 THEN mdir.fin ELSE fin
  /\ hint' = IF HintMoves THEN mdir.hint ELSE hint
  /\ mdir' = NoDir
  /\ load' = [load EXCEPT !.id = load.fin + 2]
  /\ UNCHANGED <<segs, db, index, running, merge, opens, kv, writes>>

\* loadIndexFromHintFile: the last hint of a key.
HintPos(h, k) ==
  LET I == {i \in DOMAIN h : h[i].key = k} IN
  IF I = {} THEN NoPos ELSE h[Max(I)].pos

\* loadIndexFromWAL skips the segments that MERGEFIN says were merged; of the
\* others the last record of a key counts.
LoadedPos(sg, h, f, k) ==
  LET P == {p \in Positions(sg, {s \in DOMAIN sg : s > f}) : At(sg, p).key = k}
  IN  IF P = {} THEN HintPos(h, k)
      ELSE IF At(sg, LastOf(P)).val = Nil THEN NoPos ELSE LastOf(P)

\* openWalFiles and loadIndex; then db.mu is released.
Reopen ==
  /\ db = "swapping" /\ load.id = load.fin + 2
  /\ segs' = IF DOMAIN segs = {} THEN [s \in {1} |-> <<>>] ELSE segs
  /\ index' = [k \in Keys |-> LoadedPos(segs, hint, fin, k)]
  /\ db' = "open"
  /\ merge' = [m \in Merges |->
                 IF m = load.by THEN Idle
                 ELSE IF merge[m].pc = "open" /\ merge[m].files = "closed"
                   THEN [merge[m] EXCEPT !.files = "open"] ELSE merge[m]]
  /\ load' = NoLoad
  /\ UNCHANGED <<hint, fin, mdir, running, opens, kv, writes>>

-----------------------------------------------------------------------------
(* Close and crashes *)

\* What a process forgets.
Die ==
  /\ db' = "down"
  /\ index' = [k \in Keys |-> NoPos]
  /\ running' = FALSE
  /\ load' = NoLoad
  /\ UNCHANGED <<data, mdir, opens, kv, writes>>

\* Close does not wait for a merge, which goes on with files that are closed.
Close ==
  /\ db = "open"
  /\ \A m \in Merges : \/ merge[m].pc = "idle"
                       \/ "close" \in Faults /\ ~ merge[m].reopen
  /\ CloseFiles("gone")
  /\ Die

Merging == \E m \in Merges : merge[m].pc = "scan"

ProcessCrash ==
  /\ db # "down"
  /\ CASE db = "swapping"      -> "swap" \in Faults
       [] Merging /\ fin # 0   -> "remerge" \in Faults
       [] OTHER                -> "process" \in Faults
  /\ merge' = [m \in Merges |-> Idle]
  /\ Die

-----------------------------------------------------------------------------
MergeStep(m) ==
  \/ MergeNothing(m)
  \/ \E reopen \in BOOLEAN : MergeStart(m, reopen)
  \/ MergeOpen(m)
  \/ MergeRecord(m)
  \/ MergeFails(m)
  \/ MergeFinish(m)
  \/ SwapStart(m)

LoadStep == LoadSegment \/ LoadFinish \/ Reopen

Next ==
  \/ \E k \in Keys, v \in Values \cup {Nil} : DbWrite(k, v)
  \/ \E m \in Merges : MergeStep(m)
  \/ OpenStart \/ LoadStep
  \/ Close \/ ProcessCrash

Spec == Init /\ [][Next]_vars

\* A goroutine that has begun a merge goes on with it; one that waits for db.mu
\* gets it in the end, however often others take it (a Go mutex passes the lock on
\* to who has waited for a millisecond).
Fairness ==
  /\ \A m \in Merges : /\ WF_vars(MergeOpen(m) \/ MergeFails(m) \/ MergeFinish(m))
                       /\ SF_vars(MergeRecord(m) \/ SwapStart(m))
  /\ WF_vars(LoadStep)

FairSpec == Spec /\ Fairness

-----------------------------------------------------------------------------
(* Properties *)

\* Every variable is in its type.
TypeOK ==
  /\ DOMAIN segs \subseteq 1 .. MaxSegs
  /\ \A s \in DOMAIN segs : segs[s] \in Seq(Record)
  /\ hint \in Seq(HintRecord) /\ fin \in 0 .. MaxSegs
  /\ mdir.segs \in Seq(Seq(Record)) /\ mdir.hint \in Seq(HintRecord)
  /\ mdir.fin \in 0 .. MaxSegs
  /\ db \in {"down", "open", "swapping"}
  /\ index \in [Keys -> Position]
  /\ running \in BOOLEAN /\ kv \in Map
  /\ \A m \in Merges : merge[m].pc \in {"idle", "open", "scan", "swap"}

\* However many merges have run, and whenever the process died, an open store
\* answers what clients wrote last ("if it is just the process that crashes
\* then no writes will be lost", Options.Sync; Merge, loadMergeFiles, loadIndex).
NothingLost == db = "open" => \A k \in Keys : Read(k) = kv[k]

\* The merge directory says that it is complete only when it is: its MERGEFIN
\* stands beside a HINT with every key whose record it replaces, and with
\* segments that the records were copied to (doMerge, MERGEFIN).
FinishedMeansMerged ==
  db = "open" /\ mdir.fin # 0 =>
    \A k \in Keys : index[k].seg \in 1 .. mdir.fin =>
      LET p == HintPos(mdir.hint, k) IN
        /\ p.seg \in DOMAIN mdir.segs /\ p.n \in DOMAIN mdir.segs[p.seg]
        /\ At(mdir.segs, p) = [key |-> k, val |-> kv[k]]

\* A merge never needs more segments than it replaces: those past MERGEFIN
\* would be left behind in the merge directory (loadMergeFiles).
MergeFits == mdir.fin # 0 => Len(mdir.segs) <= mdir.fin

\* A merged store holds one record of a key and none of a deleted one, as the
\* merge found it (doMerge, positionEquals).
MergedOnce ==
  db = "open" =>
    \A p, q \in Positions(segs, {s \in DOMAIN segs : s <= fin}) :
      At(segs, p).val # Nil /\ (At(segs, p).key = At(segs, q).key => p = q)

\* A merge that begins comes to its end, and gives the flag back that keeps
\* others out, whatever clients write meanwhile, whether it fails, its files are
\* closed, or the database is closed and opened under it (Merge, doMerge).
MergeEnds ==
  /\ \A m \in Merges : merge[m].pc # "idle" ~> merge[m].pc = "idle"
  /\ running ~> ~ running

=============================================================================
