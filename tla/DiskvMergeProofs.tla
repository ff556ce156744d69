-------------------------- MODULE DiskvMergeProofs --------------------------
(***************************************************************************)
(* Proofs about DiskvMerge for any number of keys, values, merges, writes  *)
(* and openings, and any size of a segment: a store that is merged,        *)
(* closed, killed and opened again answers what was written last.          *)
(*                                                                         *)
(* All of it is under OnlyProcess: the process may die at every step of    *)
(* writes, of a merge of a store that was not merged before, and of the    *)
(* load of an index, and not while files are moved or in a second merge,   *)
(* where the code loses records (the run merge_swap).                      *)
(***************************************************************************)
EXTENDS DiskvMerge, FiniteSetTheorems, SequenceTheorems, WellFoundedInduction, TLAPS

-----------------------------------------------------------------------------
(* The inductive invariant *)

\* What the process may suffer: it dies, but not while files are moved, nor in a
\* merge of a store that was merged before; Close waits for merges, which do not
\* overlap.
OnlyProcess == Faults \subseteq {"process"}

Busy(m) == merge[m].pc \in {"open", "scan"}
Scans(m) == merge[m].pc = "scan"
Points == [seg : Nat, n : Nat]

\* The positions of all records of a log, and of those of k in the segments
\* past f.
All(sg) == Positions(sg, DOMAIN sg)
Recs(sg, f, k) == {p \in Positions(sg, {s \in DOMAIN sg : s > f}) : At(sg, p).key = k}
Last(P, p) == p \in P /\ \A q \in P : q = p \/ Before(q, p)

\* The merged log, of which the segments before id are in place in sg already.
Merged(sg, ms, id) ==
  {p \in All(sg) : p.seg < id} \cup {p \in All(ms) : p.seg >= id}
MergedAt(sg, ms, id, p) == IF p.seg < id THEN At(sg, p) ELSE At(ms, p)

\* Merged files are moved, and the old ones are incomplete.
Loading == db = "swapping" /\ mdir.fin # 0

\* A function of segments, each with room for SegmentSize records.
LogOf(sg) ==
  \A s \in DOMAIN sg : sg[s] \in Seq(Record) /\ Len(sg[s]) <= SegmentSize

Dirs == [exists : BOOLEAN, segs : Seq(Seq(Record)), hint : Seq(HintRecord),
         hashint : BOOLEAN, fin : 0 .. MaxSegs]
MergeStates == [pc : {"idle", "open", "scan", "swap"}, reopen : BOOLEAN,
                prev : Nat, todo : SUBSET Points, files : {"open"}]
Loads == [by : Merges \cup {Nil}, id : Nat, fin : 0 .. MaxSegs]

Types ==
  /\ DOMAIN segs \subseteq 1 .. MaxSegs /\ LogOf(segs)
  /\ hint \in Seq(HintRecord) /\ fin \in 0 .. MaxSegs
  /\ mdir \in Dirs /\ LogOf(mdir.segs)
  /\ db \in {"down", "open", "swapping"}
  /\ index \in [Keys -> Position]
  /\ running \in BOOLEAN /\ kv \in Map
  /\ merge \in [Merges -> MergeStates] /\ load \in Loads

\* One merge at a time, and the flag says whether it reads.
Control ==
  /\ \A m, o \in Merges : merge[m].pc # "idle" /\ merge[o].pc # "idle" => m = o
  /\ running <=> \E m \in Merges : Busy(m)
  /\ db = "down" => \A m \in Merges : merge[m].pc = "idle"
  /\ db = "swapping" =>
       \A m \in Merges : merge[m].pc # "idle" => m = load.by /\ merge[m].pc = "swap"

\* How far loadMergeFiles is.
Progress ==
  /\ db # "swapping" => load = NoLoad
  /\ db = "swapping" =>
       /\ load.id \in 1 .. load.fin + 2
       /\ IF load.id = load.fin + 2 THEN mdir = NoDir ELSE load.fin = mdir.fin

\* The active segment is past all that were merged, or are being merged.
ActivePast ==
  /\ \E s \in DOMAIN segs : s > fin /\ s > mdir.fin
  /\ mdir.fin # 0 => fin < mdir.fin
  /\ \A m \in Merges : Busy(m) =>
       /\ merge[m].prev \in DOMAIN segs /\ merge[m].prev + 1 \in DOMAIN segs
       /\ fin < merge[m].prev

\* p is what the index must say of a key k that has the value w[k].
Answers(sg, w, p, k) ==
  IF w[k] = Nil THEN p = NoPos
                ELSE p \in All(sg) /\ At(sg, p) = [key |-> k, val |-> w[k]]

\* The last record of a key past f has its value.
Told(sg, w, f, k) == \A p : Last(Recs(sg, f, k), p) => At(sg, p).val = w[k]

\* The data directory has everything: the log past MERGEFIN, or else HINT.
Durable ==
  ~ Loading =>
    \A k \in Keys : /\ Told(segs, kv, fin, k)
                    /\ Recs(segs, fin, k) = {} => Answers(segs, kv, HintPos(hint, k), k)

\* The index says of a key what loadIndex would find.
Indexed ==
  db = "open" =>
    \A k \in Keys :
      /\ Recs(segs, fin, k) = {} => index[k] = HintPos(hint, k)
      /\ \A p : Last(Recs(segs, fin, k), p) =>
                  index[k] = IF kv[k] = Nil THEN NoPos ELSE p

\* A complete merge directory has the keys that the log past it does not have.
Complete ==
  mdir.fin # 0 =>
    /\ mdir.hashint
    /\ \A k \in Keys :
         /\ Told(segs, kv, mdir.fin, k)
         /\ Recs(segs, mdir.fin, k) = {} =>
              LET p == HintPos(mdir.hint, k) IN
              IF kv[k] = Nil THEN p = NoPos
              ELSE /\ p \in Merged(segs, mdir.segs, load.id)
                   /\ MergedAt(segs, mdir.segs, load.id, p) = [key |-> k, val |-> kv[k]]

\* What a merge that reads has copied, and what it has yet to read.
Copied(m) ==
  /\ mdir.fin = 0 /\ mdir.hashint /\ mdir.segs # <<>>
  /\ Len(mdir.segs) <= merge[m].prev
  /\ merge[m].todo \subseteq Positions(segs, {s \in DOMAIN segs : s <= merge[m].prev})
  /\ \A q \in merge[m].todo : Before(LastPos(mdir.segs), q)
  /\ \A p \in All(mdir.segs) : index[At(mdir.segs, p).key] \notin merge[m].todo
  /\ \A k \in Keys : Recs(segs, merge[m].prev, k) = {} =>
       index[k] \in merge[m].todo \/ Answers(mdir.segs, kv, HintPos(mdir.hint, k), k)

\* An incomplete merge directory has a HINT of keys that the log has, and none
\* at all, unless a merge is at it, when the store was merged before.
Incomplete ==
  mdir.fin = 0 =>
    /\ \A i \in DOMAIN mdir.hint : \E p \in All(segs) : At(segs, p).key = mdir.hint[i].key
    /\ fin # 0 /\ mdir.hashint => \E m \in Merges : Scans(m)

\* One record of a key, none of a deleted one.
MergedApart ==
  /\ ~ Loading =>
       \A p, q \in Positions(segs, {s \in DOMAIN segs : s <= fin}) :
         At(segs, p).val # Nil /\ (At(segs, p).key = At(segs, q).key => p = q)
  /\ mdir.fin # 0 \/ (\E m \in Merges : Scans(m)) =>
       \A p, q \in Merged(segs, mdir.segs, load.id) :
         LET r == MergedAt(segs, mdir.segs, load.id, p)
             o == MergedAt(segs, mdir.segs, load.id, q)
         IN  r.val # Nil /\ (r.key = o.key => p = q)

MergeInv ==
  /\ Types /\ Control /\ Progress /\ ActivePast
  /\ Durable /\ Indexed /\ Complete
  /\ \A m \in Merges : Scans(m) => Copied(m)
  /\ Incomplete /\ MergedApart /\ MergeFits

-----------------------------------------------------------------------------
(* Numbers, positions and logs *)

\* A nonempty set of numbers has a smallest one.
LEMMA HasLeast ==
  ASSUME NEW P \in SUBSET Nat, P # {}
  PROVE  \E q \in P : \A s \in P : q <= s
<1>1. PICK x \in P : \A y \in P : ~ (<<y, x>> \in OpToRel(<, Nat))
  BY WFMin, NatLessThanWellFounded
<1>2. \A y \in P : ~ (y < x)
  BY <1>1 DEF OpToRel
<1> QED BY <1>2

\* A nonempty set of numbers up to n has a largest one, and Max finds it.
LEMMA MaxOf ==
  ASSUME NEW n \in Nat, NEW P \in SUBSET (0 .. n), P # {}
  PROVE  Max(P) \in P /\ \A s \in P : s <= Max(P)
<1> DEFINE T == {n - p : p \in P}
<1>1. T \in SUBSET Nat /\ T # {}
  <2>1. ASSUME NEW p \in P PROVE n - p \in Nat
    OBVIOUS
  <2>2. PICK p \in P : TRUE
    OBVIOUS
  <2>3. n - p \in T
    BY <2>2
  <2> QED BY <2>1, <2>3
<1>2. \A s \in P : n - s \in T
  OBVIOUS
<1>3. \A t \in T : \E q \in P : t = n - q
  OBVIOUS
<1> HIDE DEF T
<1>4. PICK x \in T : \A t \in T : x <= t
  BY <1>1, HasLeast
<1>5. PICK q \in P : x = n - q
  BY <1>3
<1>6. \A s \in P : q >= s
  BY <1>2, <1>4, <1>5
<1>7. Max(P) \in P /\ \A s \in P : Max(P) >= s
  BY <1>6 DEF Max
<1> QED BY <1>7

\* Max is the number that no other is above.
LEMMA MaxIs ==
  ASSUME NEW P \in SUBSET Nat, NEW x \in P, \A s \in P : s <= x
  PROVE  Max(P) = x
<1>1. \A s \in P : x >= s
  OBVIOUS
<1>2. Max(P) \in P /\ \A s \in P : Max(P) >= s
  BY <1>1 DEF Max
<1>3. Max(P) >= x /\ x >= Max(P) /\ x \in Nat /\ Max(P) \in Nat
  BY <1>1, <1>2
<1> QED BY <1>3

\* Positions are ordered like the records of the log.
LEMMA BeforeOrder ==
  ASSUME NEW p \in Points, NEW q \in Points
  PROVE  /\ ~ (Before(p, q) /\ Before(q, p))
         /\ Before(p, q) \/ Before(q, p) \/ p = q
         /\ ~ Before(p, p)
BY DEF Points, Before

\* The order is transitive.
LEMMA BeforeTransitive ==
  ASSUME NEW p \in Points, NEW q \in Points, NEW r \in Points,
         Before(p, q), Before(q, r)
  PROVE  Before(p, r)
BY DEF Points, Before

\* FirstOf finds the first of a set of positions.
LEMMA FirstProps ==
  ASSUME NEW P \in SUBSET Points, P # {}
  PROVE  FirstOf(P) \in P /\ \A q \in P : q = FirstOf(P) \/ Before(FirstOf(P), q)
<1> DEFINE S == {p.seg : p \in P}
<1>1. S \in SUBSET Nat /\ S # {}
  BY DEF Points
<1>2. PICK s \in S : \A t \in S : s <= t
  BY <1>1, HasLeast
<1> DEFINE N == {p.n : p \in {q \in P : q.seg = s}}
<1>3. N \in SUBSET Nat /\ N # {}
  BY DEF Points
<1>4. PICK n \in N : \A t \in N : n <= t
  BY <1>3, HasLeast
<1>5. PICK p \in P : p.seg = s /\ p.n = n
  OBVIOUS
<1>6. \A q \in P : ~ Before(q, p)
  BY <1>1, <1>2, <1>3, <1>4, <1>5 DEF Before, Points
<1>7. FirstOf(P) \in P /\ \A q \in P : ~ Before(q, FirstOf(P))
  BY <1>6 DEF FirstOf
<1> QED BY <1>7, BeforeOrder

\* A record of a log.
LEMMA PositionIs ==
  ASSUME NEW sg, NEW S, NEW p \in Positions(sg, S)
  PROVE  p.seg \in S /\ p.n \in DOMAIN sg[p.seg] /\ p = Pos(p.seg, p.n)
BY DEF Positions, Pos

\* Where a log has a record.
LEMMA IsPosition ==
  ASSUME NEW sg, NEW S, NEW s \in S, NEW n \in DOMAIN sg[s]
  PROVE  Pos(s, n) \in Positions(sg, S) /\ At(sg, Pos(s, n)) = sg[s][n]
         /\ Pos(s, n).seg = s /\ Pos(s, n).n = n
BY DEF Positions, Pos, At

\* What a position of a log is.
LEMMA RecordAt ==
  ASSUME NEW sg, LogOf(sg), NEW S, S \subseteq DOMAIN sg, DOMAIN sg \subseteq Nat,
         NEW p \in Positions(sg, S)
  PROVE  /\ p \in Points /\ p \in All(sg)
         /\ p.seg \in S /\ p.n \in 1 .. Len(sg[p.seg]) /\ p.n \in 1 .. SegmentSize
         /\ At(sg, p) \in Record
<1>1. p.seg \in S /\ p.n \in DOMAIN sg[p.seg] /\ p = Pos(p.seg, p.n)
  BY PositionIs
<1>2. sg[p.seg] \in Seq(Record) /\ Len(sg[p.seg]) <= SegmentSize
  BY <1>1 DEF LogOf
<1>3. Len(sg[p.seg]) \in Nat /\ DOMAIN sg[p.seg] = 1 .. Len(sg[p.seg])
  BY <1>2, LenProperties
<1>4. At(sg, p) \in Record
  BY <1>1, <1>2, <1>3, ElementOfSeq DEF At
<1>5. p.n \in 1 .. SegmentSize
  BY <1>1, <1>2, <1>3, DiskvMergeAssumption
<1>6. p.seg \in Nat /\ p.n \in Nat
  BY <1>1, <1>3
<1>7. p \in Points
  BY <1>1, <1>6 DEF Pos, Points
<1>8. p \in All(sg)
  BY <1>1, IsPosition DEF All
<1> QED BY <1>1, <1>3, <1>4, <1>5, <1>7, <1>8

\* The records of a key past a segment.
LEMMA RecsAre ==
  ASSUME NEW sg, NEW f, NEW k, NEW p
  PROVE  p \in Recs(sg, f, k) <=>
           p \in All(sg) /\ p.seg > f /\ At(sg, p).key = k
BY DEF Recs, All, Positions, Pos

\* A set of positions of a log has a last one.
LEMMA LastExists ==
  ASSUME NEW sg, NEW N \in Nat, DOMAIN sg \subseteq 1 .. N, LogOf(sg),
         NEW P, P \subseteq All(sg), P # {}
  PROVE  \E p : Last(P, p)
<1> DEFINE S == {p.seg : p \in P}
<1>0. ASSUME NEW p \in P
      PROVE  p \in Points /\ p.seg \in 0 .. N /\ p.n \in 0 .. SegmentSize
  BY RecordAt, DiskvMergeAssumption DEF All
<1>1. S \in SUBSET (0 .. N) /\ S # {}
  BY <1>0
<1>2. Max(S) \in S /\ \A t \in S : t <= Max(S)
  BY <1>1, MaxOf
<1> DEFINE s == Max(S)
           M == {p.n : p \in {q \in P : q.seg = s}}
<1>3. M \in SUBSET (0 .. SegmentSize) /\ M # {}
  BY <1>0, <1>2
<1>4. Max(M) \in M /\ \A t \in M : t <= Max(M)
  BY <1>3, MaxOf, DiskvMergeAssumption
<1>5. PICK p \in P : p.seg = s /\ p.n = Max(M)
  BY <1>4
<1>6. \A q \in P : q.seg <= s /\ (q.seg = s => q.n <= p.n)
  BY <1>2, <1>4, <1>5
<1> HIDE DEF s, M, S
<1>7. \A q \in P : q = p \/ Before(q, p)
  BY <1>0, <1>5, <1>6, DiskvMergeAssumption DEF Before, Points
<1> QED BY <1>5, <1>7 DEF Last

\* LastOf finds it.
LEMMA LastOfIs ==
  ASSUME NEW P \in SUBSET Points, NEW p, Last(P, p)
  PROVE  LastOf(P) = p
<1>1. p \in P /\ \A q \in P : q = p \/ Before(q, p)
  BY DEF Last
<1>2. \A q \in P : ~ Before(p, q)
  BY <1>1, BeforeOrder
<1>3. LastOf(P) \in P /\ \A q \in P : ~ Before(LastOf(P), q)
  BY <1>1, <1>2 DEF LastOf
<1> QED BY <1>1, <1>3

-----------------------------------------------------------------------------
(* A log that grows *)

\* ns is the log sg with one more record r, at p.
Grown(sg, ns, r, p) ==
  /\ p \in All(ns) /\ At(ns, p) = r /\ p \in Points /\ p.n >= 1
  /\ \A q \in All(sg) : q \in All(ns) /\ At(ns, q) = At(sg, q) /\ Before(q, p)
  /\ \A q \in All(ns) : q \in All(sg) \/ q = p

\* One more record comes behind all the others, in the active segment or in a
\* new one when that is full.
LEMMA AppendToGrows ==
  ASSUME NEW sg, NEW a \in DOMAIN sg, NEW r \in Record, LogOf(sg),
         DOMAIN sg \subseteq Nat, \A s \in DOMAIN sg : s <= a
  PROVE  /\ LogOf(AppendTo(sg, a, r))
         /\ Grown(sg, AppendTo(sg, a, r), r, LastPos(AppendTo(sg, a, r)))
         /\ DOMAIN AppendTo(sg, a, r) = DOMAIN sg \cup {LastPos(AppendTo(sg, a, r)).seg}
         /\ LastPos(AppendTo(sg, a, r)).n \in 1 .. SegmentSize
         /\ IF Len(sg[a]) < SegmentSize
              THEN LastPos(AppendTo(sg, a, r)) = Pos(a, Len(sg[a]) + 1)
              ELSE LastPos(AppendTo(sg, a, r)) = Pos(a + 1, 1)
<1> DEFINE ns == AppendTo(sg, a, r)
           l  == LastPos(ns)
<1>0. /\ a \in Nat /\ sg[a] \in Seq(Record) /\ Len(sg[a]) \in Nat
      /\ Len(sg[a]) <= SegmentSize /\ DOMAIN sg[a] = 1 .. Len(sg[a])
      /\ SegmentSize \in Nat /\ SegmentSize >= 1
  <2>1. sg[a] \in Seq(Record) /\ Len(sg[a]) <= SegmentSize
    BY DEF LogOf
  <2> QED BY <2>1, LenProperties, DiskvMergeAssumption
<1>1. CASE Len(sg[a]) < SegmentSize
  <2>1. ns = [sg EXCEPT ![a] = Append(@, r)]
    BY <1>1 DEF AppendTo
  <2>2. /\ DOMAIN ns = DOMAIN sg /\ ns[a] = Append(sg[a], r)
        /\ \A s \in DOMAIN sg : s # a => ns[s] = sg[s]
    BY <2>1
  <2>3. /\ Append(sg[a], r) \in Seq(Record) /\ Len(Append(sg[a], r)) = Len(sg[a]) + 1
        /\ \A i \in 1 .. Len(sg[a]) : Append(sg[a], r)[i] = sg[a][i]
        /\ Append(sg[a], r)[Len(sg[a]) + 1] = r
        /\ DOMAIN Append(sg[a], r) = 1 .. Len(sg[a]) + 1
    <3>1. /\ Append(sg[a], r) \in Seq(Record) /\ Len(Append(sg[a], r)) = Len(sg[a]) + 1
          /\ \A i \in 1 .. Len(sg[a]) : Append(sg[a], r)[i] = sg[a][i]
          /\ Append(sg[a], r)[Len(sg[a]) + 1] = r
      BY <1>0, AppendProperties
    <3> QED BY <3>1, LenProperties
  <2>4. LogOf(ns)
    BY <1>0, <1>1, <2>2, <2>3 DEF LogOf
  <2>5. Active(ns) = a
    BY <1>0, <2>2, MaxIs DEF Active
  <2>6. l = Pos(a, Len(sg[a]) + 1)
    BY <2>2, <2>3, <2>5 DEF LastPos
  <2>7. l \in All(ns) /\ At(ns, l) = r
    <3>1. a \in DOMAIN ns /\ Len(sg[a]) + 1 \in DOMAIN ns[a]
      BY <1>0, <2>2, <2>3
    <3> QED BY <3>1, <2>2, <2>3, <2>6, IsPosition DEF All
  <2>8. ASSUME NEW q \in All(sg)
        PROVE  q \in All(ns) /\ At(ns, q) = At(sg, q) /\ Before(q, l)
    <3>1. q.seg \in DOMAIN sg /\ q.n \in DOMAIN sg[q.seg] /\ q = Pos(q.seg, q.n)
      BY PositionIs DEF All
    <3>2. q.seg \in DOMAIN ns /\ q.n \in DOMAIN ns[q.seg]
      BY <3>1, <2>2, <2>3, <1>0
    <3>3. q \in All(ns)
      BY <3>1, <3>2, IsPosition DEF All
    <3>4. ns[q.seg][q.n] = sg[q.seg][q.n]
      BY <3>1, <2>2, <2>3, <1>0
    <3>5. Before(q, l)
      BY <3>1, <1>0, <2>6 DEF Before, Pos
    <3> QED BY <3>3, <3>4, <3>5 DEF At
  <2>9. ASSUME NEW q \in All(ns)
        PROVE  q \in All(sg) \/ q = l
    <3>1. q.seg \in DOMAIN ns /\ q.n \in DOMAIN ns[q.seg] /\ q = Pos(q.seg, q.n)
      BY PositionIs DEF All
    <3>2. CASE q.n \in DOMAIN sg[q.seg]
      BY <3>1, <3>2, <2>2, IsPosition DEF All
    <3>3. CASE q.n \notin DOMAIN sg[q.seg]
      BY <3>1, <3>3, <2>2, <2>3, <2>6, <1>0
    <3> QED BY <3>2, <3>3
  <2>10. l \in Points /\ l.seg = a /\ l.n \in 1 .. SegmentSize /\ l.n >= 1
    BY <2>6, <1>0, <1>1 DEF Pos, Points
  <2>11. DOMAIN ns = DOMAIN sg \cup {l.seg}
    BY <2>2, <2>10
  <2>12. Grown(sg, ns, r, l)
    BY <2>7, <2>8, <2>9, <2>10 DEF Grown
  <2> HIDE DEF ns, l
  <2> QED BY <1>1, <2>4, <2>6, <2>10, <2>11, <2>12 DEF ns, l
<1>2. CASE ~ (Len(sg[a]) < SegmentSize)
  <2>1. ns = [s \in DOMAIN sg \cup {a + 1} |-> IF s = a + 1 THEN <<r>> ELSE sg[s]]
    BY <1>2 DEF AppendTo
  <2>2. /\ DOMAIN ns = DOMAIN sg \cup {a + 1} /\ ns[a + 1] = <<r>>
        /\ a + 1 \notin DOMAIN sg
        /\ \A s \in DOMAIN sg : ns[s] = sg[s]
    BY <2>1, <1>0
  <2>3. /\ <<r>> \in Seq(Record) /\ Len(<<r>>) = 1 /\ <<r>>[1] = r
        /\ DOMAIN <<r>> = {1}
    OBVIOUS
  <2>4. LogOf(ns)
    BY <1>0, <2>2, <2>3 DEF LogOf
  <2>5. Active(ns) = a + 1
    BY <1>0, <2>2, MaxIs DEF Active
  <2>6. l = Pos(a + 1, 1)
    BY <2>2, <2>3, <2>5 DEF LastPos
  <2>7. l \in All(ns) /\ At(ns, l) = r
    <3>1. a + 1 \in DOMAIN ns /\ 1 \in DOMAIN ns[a + 1]
      BY <1>0, <2>2, <2>3
    <3> QED BY <3>1, <2>2, <2>3, <2>6, IsPosition DEF All
  <2>8. ASSUME NEW q \in All(sg)
        PROVE  q \in All(ns) /\ At(ns, q) = At(sg, q) /\ Before(q, l)
    <3>1. q.seg \in DOMAIN sg /\ q.n \in DOMAIN sg[q.seg] /\ q = Pos(q.seg, q.n)
      BY PositionIs DEF All
    <3>2. q.seg \in DOMAIN ns /\ q.n \in DOMAIN ns[q.seg]
      BY <3>1, <2>2
    <3>3. q \in All(ns)
      BY <3>1, <3>2, IsPosition DEF All
    <3>4. ns[q.seg][q.n] = sg[q.seg][q.n]
      BY <3>1, <2>2
    <3>5. Before(q, l)
      BY <3>1, <1>0, <2>6 DEF Before, Pos
    <3> QED BY <3>3, <3>4, <3>5 DEF At
  <2>9. ASSUME NEW q \in All(ns)
        PROVE  q \in All(sg) \/ q = l
    <3>1. q.seg \in DOMAIN ns /\ q.n \in DOMAIN ns[q.seg] /\ q = Pos(q.seg, q.n)
      BY PositionIs DEF All
    <3>2. CASE q.seg \in DOMAIN sg
      BY <3>1, <3>2, <2>2, IsPosition DEF All
    <3>3. CASE q.seg = a + 1
      BY <3>1, <3>3, <2>2, <2>3, <2>6, <1>0
    <3> QED BY <3>1, <3>2, <3>3, <2>2
  <2>10. l \in Points /\ l.seg = a + 1 /\ l.n \in 1 .. SegmentSize /\ l.n >= 1
    BY <2>6, <1>0 DEF Pos, Points
  <2>11. DOMAIN ns = DOMAIN sg \cup {l.seg}
    BY <2>2, <2>10
  <2>12. Grown(sg, ns, r, l)
    BY <2>7, <2>8, <2>9, <2>10 DEF Grown
  <2> HIDE DEF ns, l
  <2> QED BY <1>2, <2>4, <2>6, <2>10, <2>11, <2>12 DEF ns, l
<1> QED BY <1>1, <1>2

\* A function on 1 .. n is a sequence of length n.
LEMMA SeqOfFunction ==
  ASSUME NEW n \in Nat, NEW S, NEW s \in [1 .. n -> S]
  PROVE  s \in Seq(S) /\ Len(s) = n
<1>1. s \in Seq(S)
  BY SeqDef
<1>2. DOMAIN s = 1 .. Len(s) /\ Len(s) \in Nat
  BY <1>1, LenProperties
<1> QED BY <1>1, <1>2

\* The segments of the merge directory are numbered from 1.
LEMMA AppendToSeq ==
  ASSUME NEW sg \in Seq(Seq(Record)), sg # <<>>, NEW r \in Record, LogOf(sg)
  PROVE  LET ns == AppendTo(sg, Len(sg), r) IN
         /\ ns \in Seq(Seq(Record)) /\ Len(ns) = LastPos(ns).seg
         /\ LastPos(sg) = Pos(Len(sg), Len(sg[Len(sg)]))
         /\ ns # <<>>
<1> DEFINE n  == Len(sg)
           ns == AppendTo(sg, n, r)
<1>0. n \in Nat /\ n >= 1 /\ DOMAIN sg = 1 .. n /\ \A i \in 1 .. n : sg[i] \in Seq(Record)
  <2>1. n \in Nat /\ DOMAIN sg = 1 .. n
    BY LenProperties
  <2>2. \A i \in 1 .. n : sg[i] \in Seq(Record)
    BY ElementOfSeq
  <2>3. n # 0
    BY EmptySeq
  <2> QED BY <2>1, <2>2, <2>3
<1> HIDE DEF n
<1>1. /\ LogOf(ns) /\ DOMAIN ns = DOMAIN sg \cup {LastPos(ns).seg}
      /\ IF Len(sg[n]) < SegmentSize THEN LastPos(ns) = Pos(n, Len(sg[n]) + 1)
                                     ELSE LastPos(ns) = Pos(n + 1, 1)
  <2>1. n \in DOMAIN sg /\ DOMAIN sg \subseteq Nat /\ \A s \in DOMAIN sg : s <= n
    BY <1>0
  <2> QED BY <2>1, AppendToGrows
<1>2. LastPos(sg) = Pos(n, Len(sg[n]))
  <2>1. Active(sg) = n
    BY <1>0, MaxIs DEF Active
  <2> QED BY <2>1 DEF LastPos
<1>3. LastPos(ns).seg \in Nat /\ DOMAIN ns = 1 .. LastPos(ns).seg
  BY <1>0, <1>1 DEF Pos
<1>4. ns \in [1 .. LastPos(ns).seg -> Seq(Record)]
  <2>1. \A s \in DOMAIN ns : ns[s] \in Seq(Record)
    BY <1>1 DEF LogOf
  <2>2. ns = [s \in DOMAIN ns |-> ns[s]]
    BY DEF AppendTo
  <2> QED BY <2>1, <2>2, <1>3
<1>5. ns \in Seq(Seq(Record)) /\ Len(ns) = LastPos(ns).seg
  BY <1>3, <1>4, SeqOfFunction
<1>6. LastPos(ns).seg >= 1
  BY <1>0, <1>1 DEF Pos
<1>7. ns # <<>>
  BY <1>5, <1>6
<1> QED BY <1>2, <1>5, <1>7 DEF n

\* The records of a key when the log grows by r at p.
LEMMA RecsGrow ==
  ASSUME NEW sg, NEW ns, NEW r, NEW p, Grown(sg, ns, r, p),
         NEW f \in Nat, NEW k
  PROVE  /\ p.seg > f /\ r.key = k => Recs(ns, f, k) = Recs(sg, f, k) \cup {p}
         /\ r.key # k => Recs(ns, f, k) = Recs(sg, f, k)
<1>1. ASSUME NEW q PROVE q \in Recs(ns, f, k) <=>
        \/ q \in Recs(sg, f, k)
        \/ q = p /\ p.seg > f /\ r.key = k
  BY RecsAre DEF Grown
<1> QED BY <1>1

\* Its last record is then p, if r is one of the key.
LEMMA LastGrows ==
  ASSUME NEW sg, NEW ns, NEW r, NEW p, Grown(sg, ns, r, p),
         DOMAIN sg \subseteq Nat, LogOf(sg), NEW f \in Nat, p.seg > f, NEW q,
         Last(Recs(ns, f, r.key), q)
  PROVE  q = p
<1>1. p \in Recs(ns, f, r.key) /\ Recs(ns, f, r.key) = Recs(sg, f, r.key) \cup {p}
  BY RecsGrow
<1>2. SUFFICES ASSUME q # p PROVE FALSE
  OBVIOUS
<1>3. q \in All(sg) /\ Before(p, q)
  BY <1>1, <1>2, RecsAre DEF Last
<1>4. Before(q, p) /\ p \in Points /\ q \in Points
  BY <1>3, RecordAt DEF Grown, All
<1> QED BY <1>3, <1>4, BeforeOrder

-----------------------------------------------------------------------------
(* Hints *)

\* What HINT says of a key is a position, and none when it does not name it.
LEMMA HintPosIs ==
  ASSUME NEW h \in Seq(HintRecord), NEW k
  PROVE  /\ HintPos(h, k) \in Position
         /\ (\A i \in DOMAIN h : h[i].key # k) => HintPos(h, k) = NoPos
<1> DEFINE I == {i \in DOMAIN h : h[i].key = k}
<1>1. Len(h) \in Nat /\ DOMAIN h = 1 .. Len(h)
  BY LenProperties
<1>2. CASE I = {}
  BY <1>2, DiskvMergeAssumption DEF HintPos, NoPos, Pos, Position
<1>3. CASE I # {}
  <2>1. I \in SUBSET (0 .. Len(h))
    BY <1>1
  <2>2. Max(I) \in I
    BY <1>1, <1>3, <2>1, MaxOf
  <2>3. h[Max(I)] \in HintRecord
    BY <1>1, <2>2, ElementOfSeq
  <2>4. HintPos(h, k) = h[Max(I)].pos
    BY <1>3 DEF HintPos
  <2> HIDE DEF I
  <2>5. HintPos(h, k) \in Position
    BY <2>3, <2>4 DEF HintRecord
  <2> QED BY <1>3, <2>2, <2>5 DEF I
<1> QED BY <1>2, <1>3

\* A hint that is added is the last of its key.
LEMMA HintAdded ==
  ASSUME NEW h \in Seq(HintRecord), NEW e \in HintRecord, NEW k
  PROVE  HintPos(Append(h, e), k) = IF e.key = k THEN e.pos ELSE HintPos(h, k)
<1> DEFINE g == Append(h, e)
           I == {i \in DOMAIN h : h[i].key = k}
           J == {i \in DOMAIN g : g[i].key = k}
<1>1. Len(h) \in Nat /\ DOMAIN h = 1 .. Len(h)
  BY LenProperties
<1>2. /\ g \in Seq(HintRecord) /\ Len(g) = Len(h) + 1
      /\ \A i \in 1 .. Len(h) : g[i] = h[i]
      /\ g[Len(h) + 1] = e
  BY AppendProperties
<1>3. DOMAIN g = 1 .. Len(h) + 1
  BY <1>2, LenProperties
<1>4. CASE e.key = k
  <2>1. Len(h) + 1 \in J /\ J \in SUBSET Nat /\ \A i \in J : i <= Len(h) + 1
    BY <1>1, <1>2, <1>3, <1>4
  <2>2. Max(J) = Len(h) + 1
    BY <2>1, MaxIs
  <2>3. HintPos(g, k) = g[Max(J)].pos
    BY <2>1 DEF HintPos
  <2> QED BY <1>2, <1>4, <2>2, <2>3
<1>5. CASE e.key # k
  <2>1. J = I
    BY <1>1, <1>2, <1>3, <1>5
  <2>2. CASE I = {}
    BY <1>5, <2>1, <2>2 DEF HintPos
  <2>3. CASE I # {}
    <3>1. I \in SUBSET (0 .. Len(h))
      BY <1>1
    <3>2. Max(I) \in I
      BY <1>1, <2>3, <3>1, MaxOf
    <3>3. HintPos(g, k) = g[Max(I)].pos /\ HintPos(h, k) = h[Max(I)].pos
      BY <2>1, <2>3 DEF HintPos
    <3> QED BY <1>1, <1>2, <1>5, <3>2, <3>3
  <2> QED BY <2>2, <2>3
<1> QED BY <1>4, <1>5

-----------------------------------------------------------------------------
(* What holds of a state *)

\* The log in both directories.
LEMMA SegsAre ==
  ASSUME MergeInv
  PROVE  /\ DOMAIN segs \subseteq Nat /\ DOMAIN segs # {} /\ MaxSegs \in Nat
         /\ Active(segs) \in DOMAIN segs /\ Active(segs) \in Nat
         /\ Active(segs) <= MaxSegs /\ Active(segs) >= 1
         /\ \A s \in DOMAIN segs : s <= Active(segs)
         /\ Active(segs) > fin /\ Active(segs) > mdir.fin
<1>1. DOMAIN segs \subseteq 1 .. MaxSegs /\ MaxSegs \in Nat /\ fin \in Nat /\ mdir.fin \in Nat
  BY DiskvMergeAssumption DEF MergeInv, Types, Dirs
<1>2. PICK s \in DOMAIN segs : s > fin /\ s > mdir.fin
  BY DEF MergeInv, ActivePast
<1>3. Active(segs) \in DOMAIN segs /\ \A t \in DOMAIN segs : t <= Active(segs)
  <2>1. DOMAIN segs \in SUBSET (0 .. MaxSegs) /\ DOMAIN segs # {}
    BY <1>1, <1>2
  <2> QED BY <1>1, <2>1, MaxOf DEF Active
<1> QED BY <1>1, <1>2, <1>3

\* The segments of the merge directory.
LEMMA DirSegsAre ==
  ASSUME Types
  PROVE  /\ mdir.segs \in Seq(Seq(Record)) /\ Len(mdir.segs) \in Nat
         /\ DOMAIN mdir.segs = 1 .. Len(mdir.segs) /\ DOMAIN mdir.segs \subseteq Nat
         /\ LogOf(mdir.segs) /\ mdir.hint \in Seq(HintRecord)
<1>1. mdir.segs \in Seq(Seq(Record)) /\ LogOf(mdir.segs) /\ mdir.hint \in Seq(HintRecord)
  BY DEF Types, Dirs
<1>2. Len(mdir.segs) \in Nat /\ DOMAIN mdir.segs = 1 .. Len(mdir.segs)
  BY <1>1, LenProperties
<1> QED BY <1>1, <1>2

\* Files that no merge reads can be closed.
LEMMA NoneClosed ==
  ASSUME Types, \A m \in Merges : ~ Busy(m), NEW how, CloseFiles(how)
  PROVE  merge' = merge
BY DEF Types, CloseFiles, Busy

\* A merge that swaps is the only one.
LEMMA SwapsAlone ==
  ASSUME MergeInv, NEW m \in Merges, merge[m].pc = "swap"
  PROVE  (\A o \in Merges : ~ Busy(o)) /\ ~ running
         /\ \A o \in Merges : ~ Scans(o)
BY DEF MergeInv, Control, Busy, Scans

\* The record that a merge reads next, and the log with a copy of it.
Point(m) == FirstOf(merge[m].todo)
Copy(m) == AppendTo(mdir.segs, Len(mdir.segs), At(segs, Point(m)))

\* A record is copied to where it is or to a place before.
LEMMA CopyFits ==
  ASSUME MergeInv, NEW m \in Merges, MergeRecord(m)
  PROVE  /\ Point(m) \in merge[m].todo /\ Point(m) \in All(segs) /\ Point(m) \in Points
         /\ Point(m).seg \in DOMAIN segs /\ Point(m).seg <= merge[m].prev
         /\ merge[m].prev \in 1 .. MaxSegs /\ At(segs, Point(m)) \in Record
         /\ Copy(m) \in Seq(Seq(Record)) /\ Copy(m) # <<>> /\ LogOf(Copy(m))
         /\ Grown(mdir.segs, Copy(m), At(segs, Point(m)), LastPos(Copy(m)))
         /\ Len(Copy(m)) <= merge[m].prev /\ LastPos(Copy(m)) \in Position
         /\ \A q \in merge[m].todo \ {Point(m)} : Before(LastPos(Copy(m)), q)
<1> DEFINE p == Point(m)
           r == At(segs, p)
           c == Copy(m)
           l == LastPos(c)
           L == Len(mdir.segs)
<1>1. Copied(m) /\ merge[m].prev \in DOMAIN segs /\ Types
  BY DEF MergeInv, MergeRecord, ActivePast, Busy, Scans
<1>2. merge[m].todo # {} /\ merge[m].todo \subseteq Points
  BY <1>1 DEF MergeRecord, Types, MergeStates
<1>3. p \in merge[m].todo /\ \A q \in merge[m].todo : q = p \/ Before(p, q)
  BY <1>2, FirstProps DEF Point
<1>4. /\ p \in All(segs) /\ p \in Points /\ r \in Record /\ p.n \in 1 .. SegmentSize
      /\ p.seg \in DOMAIN segs /\ p.seg <= merge[m].prev
  <2> DEFINE S == {s \in DOMAIN segs : s <= merge[m].prev}
  <2>1. p \in Positions(segs, S)
    BY <1>1, <1>3 DEF Copied
  <2>2. LogOf(segs) /\ DOMAIN segs \subseteq Nat
    BY <1>1 DEF Types
  <2>3. S \subseteq DOMAIN segs
    OBVIOUS
  <2> HIDE DEF S
  <2>4. /\ p \in Points /\ p \in All(segs) /\ p.seg \in S
        /\ p.n \in 1 .. SegmentSize /\ r \in Record
    BY <2>1, <2>2, <2>3, RecordAt
  <2> QED BY <2>4 DEF S
<1>5. merge[m].prev \in 1 .. MaxSegs /\ DOMAIN segs \subseteq 1 .. MaxSegs
  BY <1>1 DEF Types
<1>6. /\ mdir.segs \in Seq(Seq(Record)) /\ mdir.segs # <<>> /\ LogOf(mdir.segs)
      /\ L \in Nat /\ DOMAIN mdir.segs = 1 .. L /\ L >= 1
      /\ DOMAIN mdir.segs \subseteq Nat
  <2>1. /\ mdir.segs \in Seq(Seq(Record)) /\ LogOf(mdir.segs) /\ L \in Nat
        /\ DOMAIN mdir.segs = 1 .. L /\ DOMAIN mdir.segs \subseteq Nat
    BY <1>1, DirSegsAre
  <2>2. mdir.segs # <<>>
    BY <1>1 DEF Copied
  <2>3. L # 0
    BY <2>1, <2>2, EmptySeq
  <2> QED BY <2>1, <2>2, <2>3
<1>7. L \in DOMAIN mdir.segs /\ \A s \in DOMAIN mdir.segs : s <= L
  BY <1>6
<1>8. /\ LogOf(c) /\ Grown(mdir.segs, c, r, l) /\ l.n \in 1 .. SegmentSize
      /\ IF Len(mdir.segs[L]) < SegmentSize THEN l = Pos(L, Len(mdir.segs[L]) + 1)
                                            ELSE l = Pos(L + 1, 1)
  BY <1>4, <1>6, <1>7, AppendToGrows DEF Copy
<1>9. /\ c \in Seq(Seq(Record)) /\ Len(c) = l.seg /\ c # <<>>
      /\ LastPos(mdir.segs) = Pos(L, Len(mdir.segs[L]))
  BY <1>4, <1>6, AppendToSeq DEF Copy
<1>10. Before(Pos(L, Len(mdir.segs[L])), p)
  BY <1>1, <1>3, <1>9 DEF Copied
<1>11. Len(mdir.segs[L]) \in Nat /\ Len(mdir.segs[L]) <= SegmentSize /\ SegmentSize \in Nat
  <2>1. mdir.segs[L] \in Seq(Record) /\ Len(mdir.segs[L]) <= SegmentSize
    BY <1>6, <1>7 DEF LogOf
  <2> QED BY <2>1, LenProperties, DiskvMergeAssumption
<1>12. l = p \/ Before(l, p)
  <2> HIDE DEF l, c, r
  <2>1. p.seg \in Nat /\ p.n \in Nat /\ p.n >= 1 /\ p.n <= SegmentSize /\ p = Pos(p.seg, p.n)
    BY <1>4 DEF Points, Pos
  <2> HIDE DEF p, L
  <2>2. L < p.seg \/ (L = p.seg /\ Len(mdir.segs[L]) < p.n)
    BY <1>10 DEF Before, Pos
  <2>3. CASE Len(mdir.segs[L]) < SegmentSize
    <3>1. l.seg = L /\ l.n = Len(mdir.segs[L]) + 1
      BY <1>8, <2>3 DEF Pos
    <3>2. l.seg < p.seg \/ (l.seg = p.seg /\ l.n <= p.n)
      BY <2>1, <2>2, <3>1, <1>11
    <3>3. l.seg = p.seg /\ l.n = p.n => l = p
      BY <2>1, <1>8, <2>3 DEF Pos
    <3> QED BY <3>2, <3>3, <2>1, <3>1, <1>11 DEF Before
  <2>4. CASE ~ (Len(mdir.segs[L]) < SegmentSize)
    <3>1. l = Pos(L + 1, 1) /\ l.seg = L + 1 /\ l.n = 1
      BY <1>8, <2>4 DEF Pos
    <3>2. L < p.seg
      BY <2>1, <2>2, <2>4, <1>11
    <3>3. L \in Nat
      BY <1>6 DEF L
    <3>4. l.seg < p.seg \/ (l.seg = p.seg /\ l.n <= p.n)
      BY <2>1, <3>1, <3>2, <3>3
    <3>5. l.seg = p.seg /\ l.n = p.n => l = p
      BY <2>1, <3>1
    <3> QED BY <3>4, <3>5, <2>1, <3>1 DEF Before
  <2> QED BY <2>3, <2>4
<1>13. l \in Points /\ l.seg <= p.seg
  BY <1>4, <1>8, <1>12 DEF Grown, Before, Points
<1>14. Len(c) <= merge[m].prev
  BY <1>4, <1>5, <1>9, <1>13 DEF Points
<1>15. l \in Position
  BY <1>4, <1>5, <1>13, DiskvMergeAssumption DEF Points, Position
<1>16. ASSUME NEW q \in merge[m].todo \ {p} PROVE Before(l, q)
  <2>1. Before(p, q) /\ q \in Points
    BY <1>2, <1>3
  <2> QED BY <2>1, <1>4, <1>12, <1>13, BeforeTransitive
<1> QED BY <1>3, <1>4, <1>5, <1>8, <1>9, <1>14, <1>15, <1>16

-----------------------------------------------------------------------------
(* The initial states *)

\* A new database is empty.
LEMMA InitHolds == Init => MergeInv
<1> SUFFICES ASSUME Init PROVE MergeInv
  OBVIOUS
<1>0. /\ MaxSegs \in Nat /\ MaxSegs >= 1 /\ SegmentSize \in Nat
      /\ Nil \notin Merges
  BY DiskvMergeAssumption
<1>1. /\ segs = [s \in {1} |-> <<>>] /\ DOMAIN segs = {1} /\ segs[1] = <<>>
      /\ hint = <<>> /\ fin = 0 /\ mdir = NoDir /\ db = "open"
      /\ index = [k \in Keys |-> NoPos] /\ running = FALSE
      /\ merge = [m \in Merges |-> Idle] /\ load = NoLoad
      /\ kv = [k \in Keys |-> Nil]
  BY DEF Init
<1>2. mdir.segs = <<>> /\ mdir.hint = <<>> /\ mdir.fin = 0 /\ ~ mdir.hashint
  BY <1>1 DEF NoDir
<1>3. All(segs) = {}
  BY <1>1 DEF All, Positions
<1>4. \A S : Positions(segs, S) \subseteq All(segs) \/ ~ (S \subseteq DOMAIN segs)
  BY DEF All, Positions
<1>5. \A f, k : Recs(segs, f, k) = {}
  BY <1>3, RecsAre
<1>6. \A k : HintPos(hint, k) = NoPos
  BY <1>1 DEF HintPos
<1>7. Types
  <2>1. LogOf(segs)
    BY <1>0, <1>1 DEF LogOf
  <2>2. mdir \in Dirs /\ LogOf(mdir.segs)
    BY <1>0, <1>1 DEF NoDir, Dirs, LogOf
  <2>3. index \in [Keys -> Position] /\ kv \in Map
    BY <1>0, <1>1 DEF NoPos, Pos, Position, Map
  <2>4. merge \in [Merges -> MergeStates] /\ load \in Loads
    BY <1>0, <1>1 DEF Idle, MergeStates, NoLoad, Loads
  <2>5. hint \in Seq(HintRecord) /\ fin \in 0 .. MaxSegs /\ DOMAIN segs \subseteq 1 .. MaxSegs
    BY <1>0, <1>1
  <2> QED BY <1>1, <2>1, <2>2, <2>3, <2>4, <2>5 DEF Types
<1>8. \A m \in Merges : merge[m].pc = "idle"
  BY <1>1 DEF Idle
<1>9. Control /\ Progress
  BY <1>1, <1>8 DEF Control, Progress, Busy
<1>10. ActivePast
  BY <1>1, <1>2, <1>8 DEF ActivePast, Busy
<1>11. Durable
  BY <1>1, <1>5, <1>6 DEF Durable, Told, Last, Answers
<1>12. Indexed
  BY <1>1, <1>5, <1>6 DEF Indexed, Last
<1>13. Complete /\ MergeFits /\ Incomplete
  BY <1>1, <1>2 DEF Complete, MergeFits, Incomplete
<1>14. MergedApart
  <2>1. Positions(segs, {s \in DOMAIN segs : s <= fin}) = {}
    BY <1>3, <1>4
  <2> QED BY <1>2, <1>8, <2>1 DEF MergedApart, Scans
<1> QED BY <1>7, <1>8, <1>9, <1>10, <1>11, <1>12, <1>13, <1>14 DEF MergeInv, Scans

-----------------------------------------------------------------------------
(* Types *)

\* A record of a batch is appended to the active segment.
LEMMA WriteAppends ==
  ASSUME MergeInv, NEW k \in Keys, NEW v \in Values \cup {Nil}, DbWrite(k, v)
  PROVE  /\ Grown(segs, segs', [key |-> k, val |-> v], LastPos(segs'))
         /\ LogOf(segs') /\ DOMAIN segs' = DOMAIN segs \cup {LastPos(segs').seg}
         /\ LastPos(segs') \in Points
         /\ LastPos(segs').seg >= Active(segs)
         /\ LastPos(segs').seg > fin /\ LastPos(segs').seg > mdir.fin
<1>1. [key |-> k, val |-> v] \in Record
  BY DEF Record
<1>2. /\ LogOf(segs) /\ DOMAIN segs \subseteq Nat /\ fin \in Nat /\ mdir.fin \in Nat
      /\ Active(segs) \in DOMAIN segs /\ \A s \in DOMAIN segs : s <= Active(segs)
      /\ Active(segs) > fin /\ Active(segs) > mdir.fin /\ Active(segs) \in Nat
  BY SegsAre DEF MergeInv, Types, Dirs
<1>3. segs' = AppendTo(segs, Active(segs), [key |-> k, val |-> v])
  BY DEF DbWrite
<1>4. /\ Grown(segs, segs', [key |-> k, val |-> v], LastPos(segs'))
      /\ LogOf(segs') /\ DOMAIN segs' = DOMAIN segs \cup {LastPos(segs').seg}
      /\ \/ LastPos(segs') = Pos(Active(segs), Len(segs[Active(segs)]) + 1)
         \/ LastPos(segs') = Pos(Active(segs) + 1, 1)
  BY <1>1, <1>2, <1>3, AppendToGrows
<1>5. LastPos(segs') \in Points /\ LastPos(segs').seg >= Active(segs)
  BY <1>2, <1>4 DEF Grown, Pos
<1> QED BY <1>2, <1>4, <1>5 DEF Points

\* Every variable keeps its type.
LEMMA TypesStep == OnlyProcess /\ MergeInv /\ [Next]_vars => Types'
<1> SUFFICES ASSUME OnlyProcess, MergeInv, [Next]_vars PROVE Types'
  OBVIOUS
<1>0. Types /\ MaxSegs \in Nat /\ Nil \notin Merges
  BY DiskvMergeAssumption DEF MergeInv
<1>1. ASSUME NEW k \in Keys, NEW v \in Values \cup {Nil}, DbWrite(k, v)
      PROVE  Types'
  <2>1. LogOf(segs') /\ DOMAIN segs' = DOMAIN segs \cup {LastPos(segs').seg}
        /\ LastPos(segs') \in Points
        /\ LastPos(segs').seg >= Active(segs) /\ Active(segs) >= 1 /\ Active(segs) \in Nat
    BY <1>1, WriteAppends, SegsAre
  <2>2. LastPos(segs').seg <= MaxSegs
    BY <1>1 DEF DbWrite, LastPos, Pos
  <2>3. LastPos(segs') \in Position /\ LastPos(segs').seg \in 1 .. MaxSegs
    BY <2>1, <2>2, <1>0 DEF Points, Position
  <2>4. index' \in [Keys -> Position]
    <3>1. index' = [index EXCEPT ![k] = IF v = Nil THEN NoPos ELSE LastPos(segs')]
      BY <1>1 DEF DbWrite
    <3>2. NoPos \in Position
      BY <1>0 DEF NoPos, Pos, Position
    <3> QED BY <3>1, <3>2, <2>3, <1>0 DEF Types
  <2>5. kv' \in Map
    BY <1>0, <1>1 DEF DbWrite, Types, Map
  <2> QED BY <1>0, <1>1, <2>1, <2>3, <2>4, <2>5 DEF DbWrite, Types
<1>2. ASSUME NEW m \in Merges, MergeNothing(m) PROVE Types'
  <2>1. [Idle EXCEPT !.pc = "swap", !.reopen = TRUE] \in MergeStates
    BY DEF Idle, MergeStates
  <2>2. merge' \in [Merges -> MergeStates]
    BY <1>0, <1>2, <2>1 DEF MergeNothing, Types
  <2> QED BY <1>0, <1>2, <2>2 DEF MergeNothing, Types, data
<1>3. ASSUME NEW m \in Merges, NEW reopen \in BOOLEAN, MergeStart(m, reopen)
      PROVE  Types'
  <2>0. Active(segs) \in Nat /\ Active(segs) >= 1 /\ Active(segs) < MaxSegs
    BY <1>3, SegsAre DEF MergeStart
  <2>1. [Idle EXCEPT !.pc = "open", !.reopen = reopen, !.prev = Active(segs)] \in MergeStates
    BY <2>0 DEF Idle, MergeStates
  <2>2. merge' \in [Merges -> MergeStates]
    BY <1>0, <1>3, <2>1 DEF MergeStart, Types
  <2>3. segs' = Rotated(segs)
    BY <1>3 DEF MergeStart
  <2>4. DOMAIN segs' = DOMAIN segs \cup {Active(segs) + 1}
    BY <2>3 DEF Rotated
  <2>5. \A s \in DOMAIN segs' : segs'[s] = IF s \in DOMAIN segs THEN segs[s] ELSE <<>>
    BY <2>3 DEF Rotated
  <2>6. LogOf(segs')
    <3>1. <<>> \in Seq(Record) /\ Len(<<>>) = 0 /\ SegmentSize >= 0
      BY DiskvMergeAssumption
    <3> QED BY <1>0, <2>5, <3>1 DEF LogOf, Types
  <2>7. DOMAIN segs' \subseteq 1 .. MaxSegs
    BY <1>0, <2>0, <2>4 DEF Types
  <2> QED BY <1>0, <1>3, <2>2, <2>6, <2>7 DEF MergeStart, Types
<1>4. ASSUME NEW m \in Merges, MergeOpen(m) PROVE Types'
  <2>1. mdir' = NewDir
    BY <1>4 DEF MergeOpen
  <2>2. NewDir \in Dirs /\ LogOf(NewDir.segs)
    <3>1. <<>> \in Seq(Record) /\ <<>> \in Seq(HintRecord) /\ Len(<<>>) = 0
          /\ SegmentSize >= 0 /\ 0 \in 0 .. MaxSegs
      BY DiskvMergeAssumption
    <3>2. <<<<>>>> \in Seq(Seq(Record)) /\ DOMAIN <<<<>>>> = {1} /\ <<<<>>>>[1] = <<>>
      BY <3>1
    <3>3. NewDir \in Dirs
      BY <3>1, <3>2 DEF NewDir, Dirs
    <3>4. NewDir.segs = <<<<>>>>
      BY DEF NewDir
    <3> QED BY <3>1, <3>2, <3>3, <3>4 DEF LogOf
  <2>3. merge' \in [Merges -> MergeStates]
    <3> DEFINE t == IF merge[m].files # "open" THEN {}
                    ELSE Positions(segs, {s \in DOMAIN segs : s <= merge[m].prev})
    <3>1. t \in SUBSET Points
      <4> DEFINE S == {s \in DOMAIN segs : s <= merge[m].prev}
      <4>1. LogOf(segs) /\ DOMAIN segs \subseteq Nat /\ S \subseteq DOMAIN segs
        BY <1>0 DEF Types
      <4> HIDE DEF S
      <4>2. Positions(segs, S) \subseteq Points
        BY <4>1, RecordAt
      <4> QED BY <4>2 DEF S
    <3> HIDE DEF t
    <3>2. merge' = [merge EXCEPT ![m].pc = "scan", ![m].todo = t]
      BY <1>4 DEF MergeOpen, t
    <3>3. [merge[m] EXCEPT !.pc = "scan", !.todo = t] \in MergeStates
      BY <1>0, <3>1 DEF Types, MergeStates
    <3>4. merge' = [merge EXCEPT ![m] = [merge[m] EXCEPT !.pc = "scan", !.todo = t]]
      BY <3>2, <1>0 DEF Types
    <3> QED BY <1>0, <3>3, <3>4 DEF Types
  <2> QED BY <1>0, <1>4, <2>1, <2>2, <2>3 DEF MergeOpen, Types, data
<1>5. ASSUME NEW m \in Merges, MergeRecord(m) PROVE Types'
  <2>0. /\ Copy(m) \in Seq(Seq(Record)) /\ LogOf(Copy(m)) /\ LastPos(Copy(m)) \in Position
        /\ At(segs, Point(m)) \in Record
    BY <1>5, CopyFits
  <2>1. mdir' \in Dirs /\ LogOf(mdir'.segs)
    <3> DEFINE e == [key |-> At(segs, Point(m)).key, pos |-> LastPos(Copy(m))]
    <3>1. CASE UNCHANGED mdir
      BY <1>0, <3>1 DEF Types
    <3>2. CASE mdir' = [mdir EXCEPT !.segs = Copy(m), !.hint = Append(@, e)]
      <4>1. e \in HintRecord
        BY <2>0 DEF HintRecord, Record
      <4>2. mdir.hint \in Seq(HintRecord)
        BY <1>0, DirSegsAre
      <4>3. Append(mdir.hint, e) \in Seq(HintRecord)
        BY <4>1, <4>2, AppendProperties
      <4> HIDE DEF e
      <4>4. mdir' \in Dirs /\ mdir'.segs = Copy(m)
        BY <1>0, <2>0, <3>2, <4>3 DEF Types, Dirs
      <4> QED BY <2>0, <4>4
    <3> QED BY <1>5, <3>1, <3>2 DEF MergeRecord, Copy, Point
  <2>2. merge' \in [Merges -> MergeStates]
    <3>1. merge' = [merge EXCEPT ![m].todo = @ \ {Point(m)}]
      BY <1>5 DEF MergeRecord, Point
    <3>2. merge' = [merge EXCEPT ![m] = [merge[m] EXCEPT !.todo = merge[m].todo \ {Point(m)}]]
      BY <3>1, <1>0 DEF Types
    <3>3. [merge[m] EXCEPT !.todo = merge[m].todo \ {Point(m)}] \in MergeStates
      BY <1>0 DEF Types, MergeStates
    <3> QED BY <1>0, <3>2, <3>3 DEF Types
  <2> QED BY <1>0, <1>5, <2>1, <2>2 DEF MergeRecord, Types, data
<1>6. ASSUME NEW m \in Merges, MergeFails(m) PROVE Types'
  <2>1. merge[m].files = "open"
    BY <1>0 DEF Types, MergeStates
  <2> QED BY <1>6, <2>1 DEF MergeFails
<1>7. ASSUME NEW m \in Merges, MergeFinish(m) PROVE Types'
  <2>1. merge[m].prev \in DOMAIN segs
    BY <1>7 DEF MergeFinish, MergeInv, ActivePast, Busy
  <2>2. merge[m].prev \in 0 .. MaxSegs
    BY <1>0, <2>1 DEF Types
  <2>3. mdir' \in Dirs /\ mdir'.segs = mdir.segs
    BY <1>0, <1>7, <2>2 DEF MergeFinish, FinRecord, Types, Dirs
  <2>4. [Idle EXCEPT !.pc = "swap", !.reopen = TRUE] \in MergeStates /\ Idle \in MergeStates
    BY DEF Idle, MergeStates
  <2>5. merge' \in [Merges -> MergeStates]
    BY <1>0, <1>7, <2>4 DEF MergeFinish, Types
  <2>6. running' \in BOOLEAN
    BY <1>0, <1>7 DEF MergeFinish, ClearRunning, Types
  <2> QED BY <1>0, <1>7, <2>3, <2>5, <2>6 DEF MergeFinish, Types, data
<1>8. ASSUME NEW m \in Merges, SwapStart(m) PROVE Types'
  <2>1. merge' = merge
    BY <1>0, <1>8, SwapsAlone, NoneClosed DEF SwapStart
  <2>2. load' \in Loads
    BY <1>0, <1>8 DEF SwapStart, Types, Dirs, Loads
  <2> QED BY <1>0, <1>8, <2>1, <2>2 DEF SwapStart, Types, data
<1>9. CASE OpenStart
  <2>1. load' \in Loads
    BY <1>0, <1>9 DEF OpenStart, Types, Dirs, Loads
  <2> QED BY <1>0, <1>9, <2>1 DEF OpenStart, Types, data
<1>10. CASE LoadSegment
  <2>1. load.id \in 1 .. MaxSegs /\ load.fin \in 0 .. MaxSegs
    BY <1>0, <1>10 DEF LoadSegment, MergeInv, Progress, Types, Loads
  <2>2. DOMAIN segs' \subseteq DOMAIN segs \cup {load.id}
        /\ \A s \in DOMAIN segs' : IF s = load.id THEN segs'[s] = mdir.segs[load.id]
                                                       /\ load.id \in DOMAIN mdir.segs
                                                  ELSE segs'[s] = segs[s]
    BY <1>10 DEF LoadSegment
  <2>3. LogOf(segs')
    BY <1>0, <2>2 DEF LogOf, Types
  <2>4. mdir' \in Dirs /\ LogOf(mdir'.segs)
    <3>1. CASE UNCHANGED mdir
      BY <1>0, <3>1 DEF Types
    <3>2. CASE mdir' = [mdir EXCEPT !.segs[load.id] = <<>>] /\ load.id \in DOMAIN mdir.segs
      <4>1. <<>> \in Seq(Record) /\ Len(<<>>) = 0 /\ SegmentSize >= 0
        BY DiskvMergeAssumption
      <4>2. mdir.segs \in Seq(Seq(Record)) /\ LogOf(mdir.segs)
            /\ DOMAIN mdir.segs = 1 .. Len(mdir.segs)
        BY <1>0, DirSegsAre
      <4>3. [mdir.segs EXCEPT ![load.id] = <<>>] \in Seq(Seq(Record))
        BY <3>2, <4>1, <4>2, ExceptSeq
      <4>4. mdir' = [mdir EXCEPT !.segs = [mdir.segs EXCEPT ![load.id] = <<>>]]
        BY <3>2, <1>0 DEF Types, Dirs
      <4>5. mdir' \in Dirs /\ mdir'.segs = [mdir.segs EXCEPT ![load.id] = <<>>]
        BY <1>0, <4>3, <4>4 DEF Types, Dirs
      <4>6. LogOf([mdir.segs EXCEPT ![load.id] = <<>>])
        BY <4>1, <4>2 DEF LogOf
      <4> QED BY <4>5, <4>6
    <3> QED BY <1>10, <3>1, <3>2 DEF LoadSegment
  <2>5. load' \in Loads
    <3>1. load' = [load EXCEPT !.id = load.id + 1] /\ load \in Loads
      BY <1>0, <1>10 DEF LoadSegment, Types
    <3> QED BY <2>1, <3>1 DEF Loads
  <2>6. DOMAIN segs' \subseteq 1 .. MaxSegs
    BY <1>0, <2>1, <2>2 DEF Types
  <2> QED BY <1>0, <1>10, <2>3, <2>4, <2>5, <2>6 DEF LoadSegment, Types
<1>11. CASE LoadFinish
  <2>1. NoDir \in Dirs /\ LogOf(NoDir.segs)
    <3>1. <<>> \in Seq(Seq(Record)) /\ <<>> \in Seq(HintRecord) /\ 0 \in 0 .. MaxSegs
      BY <1>0
    <3> QED BY <3>1 DEF NoDir, Dirs, LogOf
  <2>2. load' \in Loads
    BY <1>0, <1>11, SMTT(30) DEF LoadFinish, Types, Loads
  <2>3. hint' \in Seq(HintRecord) /\ fin' \in 0 .. MaxSegs
    BY <1>0, <1>11 DEF LoadFinish, Types, Dirs
  <2>4. mdir' = NoDir
    BY <1>11 DEF LoadFinish
  <2> QED BY <1>0, <1>11, <2>1, <2>2, <2>3, <2>4 DEF LoadFinish, Types
<1>12. CASE Reopen
  <2>1. segs' = segs
    BY <1>12, SegsAre DEF Reopen
  <2>2. load' \in Loads
    BY <1>0, <1>12 DEF Reopen, NoLoad, Loads
  <2>3. merge' \in [Merges -> MergeStates]
    <3>1. Idle \in MergeStates
      BY DEF Idle, MergeStates
    <3>2. \A o \in Merges : merge[o].files = "open"
      BY <1>0 DEF Types, MergeStates
    <3> QED BY <1>0, <1>12, <3>1, <3>2 DEF Reopen, Types
  <2>4. index' \in [Keys -> Position]
    <3>1. \A k \in Keys : LoadedPos(segs, hint, fin, k) \in Position
      <4> SUFFICES ASSUME NEW k \in Keys PROVE LoadedPos(segs, hint, fin, k) \in Position
        OBVIOUS
      <4> DEFINE P == Recs(segs, fin, k)
      <4>1. HintPos(hint, k) \in Position
        BY <1>0, HintPosIs DEF Types
      <4>2. NoPos \in Position
        BY <1>0 DEF NoPos, Pos, Position
      <4>3. ASSUME P # {} PROVE LastOf(P) \in Position
        <5>1. P \subseteq All(segs) /\ LogOf(segs) /\ DOMAIN segs \subseteq 1 .. MaxSegs
          BY <1>0, RecsAre DEF Types
        <5>2. PICK p : Last(P, p)
          BY <1>0, <4>3, <5>1, LastExists
        <5>3. P \subseteq Points
          BY <5>1, RecordAt DEF All
        <5>4. LastOf(P) = p /\ p \in All(segs)
          BY <5>1, <5>2, <5>3, LastOfIs DEF Last
        <5>5. p \in Points /\ p.seg \in DOMAIN segs
          BY <5>1, <5>4, RecordAt DEF All
        <5>6. p.seg \in 0 .. MaxSegs
          BY <5>1, <5>5
        <5> QED BY <5>4, <5>5, <5>6 DEF Points, Position
      <4> QED BY <4>1, <4>2, <4>3 DEF LoadedPos, Recs
    <3>2. index' = [k \in Keys |-> LoadedPos(segs, hint, fin, k)]
      BY <1>12 DEF Reopen
    <3> QED BY <3>1, <3>2
  <2> QED BY <1>0, <1>12, <2>1, <2>2, <2>3, <2>4 DEF Reopen, Types
<1>13. ASSUME Die, merge' \in [Merges -> MergeStates] PROVE Types'
  <2>1. NoPos \in Position /\ NoLoad \in Loads
    BY <1>0 DEF NoPos, Pos, Position, NoLoad, Loads
  <2>2. index' \in [Keys -> Position]
    BY <1>13, <2>1 DEF Die
  <2> QED BY <1>0, <1>13, <2>1, <2>2 DEF Die, Types, data
<1>14. CASE Close
  <2>1. \A m \in Merges : merge[m].pc = "idle" \/ "close" \in Faults
    BY <1>14 DEF Close
  <2>2. merge' \in [Merges -> MergeStates]
    <3>1. CloseFiles("gone")
      BY <1>14 DEF Close
    <3> QED BY <1>0, <2>1, <3>1, NoneClosed DEF OnlyProcess, Busy, Types
  <2> QED BY <1>13, <1>14, <2>2 DEF Close
<1>15. CASE ProcessCrash
  <2>1. Idle \in MergeStates
    BY DEF Idle, MergeStates
  <2> QED BY <1>13, <1>15, <2>1 DEF ProcessCrash
<1>16. CASE UNCHANGED vars
  BY <1>0, <1>16 DEF vars, data, Types
<1> QED BY <1>1, <1>2, <1>3, <1>4, <1>5, <1>6, <1>7, <1>8, <1>9, <1>10, <1>11,
           <1>12, <1>14, <1>15, <1>16 DEF Next, MergeStep, LoadStep

-----------------------------------------------------------------------------
(* Control *)

\* A merge begins when there is no other.
LEMMA BeginsAlone ==
  ASSUME OnlyProcess, MergeInv, NEW m \in Merges,
         MergeNothing(m) \/ \E reopen \in BOOLEAN : MergeStart(m, reopen)
  PROVE  db = "open" /\ \A o \in Merges : merge[o].pc = "idle"
<1>1. MayOverlap /\ db = "open"
  BY DEF MergeNothing, MergeStart
<1>2. \A o \in Merges : merge[o].pc # "swap"
  BY <1>1 DEF MayOverlap, OnlyProcess
<1>3. \A o \in Merges : ~ Busy(o)
  <2>1. CASE MergeNothing(m)
    <3>1. DOMAIN segs = {Active(segs)}
      BY <2>1 DEF MergeNothing, IsEmpty
    <3>2. SUFFICES ASSUME NEW o \in Merges, Busy(o) PROVE FALSE
      OBVIOUS
    <3>3. merge[o].prev \in DOMAIN segs /\ merge[o].prev + 1 \in DOMAIN segs
      BY <3>2 DEF MergeInv, ActivePast
    <3> QED BY <3>1, <3>3, SegsAre
  <2>2. CASE \E reopen \in BOOLEAN : MergeStart(m, reopen)
    BY <2>2 DEF MergeStart, NoMergeRuns, MergeInv, Control
  <2> QED BY <2>1, <2>2
<1>4. \A o \in Merges : merge[o].pc \in {"idle", "open", "scan", "swap"}
  BY DEF MergeInv, Types, MergeStates
<1> QED BY <1>1, <1>2, <1>3, <1>4 DEF Busy

\* A merge that reads is alone, with the database open.
LEMMA ReadsAlone ==
  ASSUME MergeInv, NEW m \in Merges, Busy(m)
  PROVE  /\ db = "open" /\ load = NoLoad /\ running
         /\ \A o \in Merges : o # m => merge[o].pc = "idle"
         /\ merge[m].files = "open" /\ merge \in [Merges -> MergeStates]
<1>1. db = "open" /\ load = NoLoad /\ running
  BY DEF MergeInv, Types, Control, Progress, Busy
<1>2. \A o \in Merges : o # m => merge[o].pc = "idle"
  BY DEF MergeInv, Control, Busy
<1>3. merge[m].files = "open" /\ merge \in [Merges -> MergeStates]
  BY DEF MergeInv, Types, MergeStates
<1> QED BY <1>1, <1>2, <1>3

\* The process dies when the database is open, and in no merge of a store that
\* was merged.
LEMMA DiesOpen ==
  ASSUME OnlyProcess, MergeInv, Close \/ ProcessCrash
  PROVE  /\ db = "open" /\ Die /\ \A m \in Merges : merge'[m].pc = "idle"
         /\ fin # 0 => \A m \in Merges : ~ Scans(m)
<1>1. CASE Close
  <2>1. \A m \in Merges : merge[m].pc = "idle"
    BY <1>1 DEF Close, OnlyProcess
  <2>2. merge' = merge
    BY <1>1, <2>1, NoneClosed DEF Close, Busy, MergeInv
  <2> QED BY <1>1, <2>1, <2>2 DEF Close, Scans
<1>2. CASE ProcessCrash
  <2>1. db = "open" /\ ~ (Merging /\ fin # 0)
    BY <1>2 DEF ProcessCrash, OnlyProcess, MergeInv, Types
  <2> QED BY <1>2, <2>1 DEF ProcessCrash, Merging, Scans, Idle
<1> QED BY <1>1, <1>2

\* What Next is of the steps that are possible: MergeFails is not, for no files
\* are closed under a merge.
LEMMA StepIs ==
  ASSUME MergeInv, [Next]_vars
  PROVE  \/ \E k \in Keys, v \in Values \cup {Nil} : DbWrite(k, v)
         \/ \E m \in Merges : \/ MergeNothing(m)
                              \/ \E reopen \in BOOLEAN : MergeStart(m, reopen)
                              \/ MergeOpen(m) \/ MergeRecord(m)
                              \/ MergeFinish(m) \/ SwapStart(m)
         \/ OpenStart \/ LoadSegment \/ LoadFinish \/ Reopen
         \/ Close \/ ProcessCrash
         \/ UNCHANGED vars
<1>1. \A m \in Merges : ~ MergeFails(m)
  BY DEF MergeInv, Types, MergeStates, MergeFails
<1> QED BY <1>1 DEF Next, MergeStep, LoadStep

\* Merges stay apart.
LEMMA ControlStep == OnlyProcess /\ MergeInv /\ [Next]_vars => Control'
<1> SUFFICES ASSUME OnlyProcess, MergeInv, [Next]_vars PROVE Control'
  OBVIOUS
<1>0. Control /\ merge \in [Merges -> MergeStates] /\ Types /\ Nil \notin Merges
  BY DiskvMergeAssumption DEF MergeInv, Types
<1>1. CASE UNCHANGED <<merge, running, db, load>>
  BY <1>0, <1>1 DEF Control, Busy
<1>2. ASSUME NEW m \in Merges,
             MergeNothing(m) \/ \E reopen \in BOOLEAN : MergeStart(m, reopen)
      PROVE  Control'
  <2>1. db = "open" /\ \A o \in Merges : merge[o].pc = "idle"
    BY <1>2, BeginsAlone
  <2>2. db' = db /\ \A o \in Merges : o # m => merge'[o] = merge[o]
    BY <1>0, <1>2 DEF MergeNothing, MergeStart
  <2>3. \/ merge'[m].pc = "swap" /\ running' = running
        \/ merge'[m].pc = "open" /\ running' = TRUE
    BY <1>0, <1>2 DEF MergeNothing, MergeStart, Idle
  <2>4. ~ running
    BY <1>0, <2>1 DEF Control, Busy
  <2> QED BY <2>1, <2>2, <2>3, <2>4 DEF Control, Busy
<1>3. ASSUME NEW m \in Merges, MergeOpen(m) \/ MergeRecord(m) PROVE Control'
  <2>1. Busy(m) /\ running' = running /\ db' = db
    BY <1>3 DEF MergeOpen, MergeRecord, Busy
  <2>2. merge'[m].pc = "scan" /\ \A o \in Merges : o # m => merge'[o] = merge[o]
    BY <1>0, <1>3 DEF MergeOpen, MergeRecord, MergeStates
  <2> QED BY <2>1, <2>2, ReadsAlone DEF Control, Busy
<1>4. ASSUME NEW m \in Merges, MergeFinish(m) PROVE Control'
  <2>1. Busy(m) /\ db' = db
    BY <1>4 DEF MergeFinish, Busy
  <2>2. merge'[m].pc \in {"idle", "swap"} /\ \A o \in Merges : o # m => merge'[o] = merge[o]
    BY <1>0, <1>4 DEF MergeFinish, Idle
  <2>3. ~ running'
    BY <1>4, <2>1, ReadsAlone DEF MergeFinish, ClearRunning
  <2> QED BY <2>1, <2>2, <2>3, ReadsAlone DEF Control, Busy
<1>5. ASSUME NEW m \in Merges, SwapStart(m) PROVE Control'
  <2>1. merge' = merge /\ running' = running /\ db' = "swapping" /\ load'.by = m
        /\ merge[m].pc = "swap"
    BY <1>0, <1>5, SwapsAlone, NoneClosed DEF SwapStart
  <2> QED BY <1>0, <2>1 DEF Control, Busy
<1>6. CASE OpenStart
  <2>1. merge' = merge /\ running' = running /\ db' = "swapping" /\ db = "down"
    BY <1>6 DEF OpenStart
  <2> QED BY <1>0, <2>1 DEF Control, Busy
<1>7. CASE LoadSegment \/ LoadFinish
  <2>1. merge' = merge /\ running' = running /\ db' = db /\ load'.by = load.by
        /\ db = "swapping"
    BY <1>0, <1>7 DEF LoadSegment, LoadFinish, Types, Loads
  <2> QED BY <1>0, <2>1 DEF Control, Busy
<1>8. CASE Reopen
  <2>1. running' = running /\ db' = "open" /\ db = "swapping"
    BY <1>8 DEF Reopen
  <2>2. \A o \in Merges : merge'[o].pc = "idle"
    <3>1. ASSUME NEW o \in Merges PROVE merge'[o].pc = "idle"
      <4>1. CASE o = load.by
        BY <1>8, <4>1 DEF Reopen, Idle
      <4>2. CASE o # load.by
        <5>1. merge[o].pc = "idle"
          BY <1>0, <2>1, <4>2 DEF Control
        <5>2. merge'[o] = merge[o]
          BY <1>8, <4>2, <5>1 DEF Reopen
        <5> QED BY <5>1, <5>2
      <4> QED BY <4>1, <4>2
    <3> QED BY <3>1
  <2>3. ~ running
    BY <1>0, <2>1 DEF Control, Busy
  <2> QED BY <2>1, <2>2, <2>3 DEF Control, Busy
<1>9. CASE Close \/ ProcessCrash
  <2>1. Die /\ \A m \in Merges : merge'[m].pc = "idle"
    BY <1>9, DiesOpen
  <2>2. db' = "down" /\ running' = FALSE
    BY <2>1 DEF Die
  <2> QED BY <2>1, <2>2 DEF Control, Busy
<1>10. ASSUME NEW k \in Keys, NEW v \in Values \cup {Nil}, DbWrite(k, v) PROVE Control'
  BY <1>1, <1>10 DEF DbWrite
<1>11. CASE UNCHANGED vars
  BY <1>1, <1>11 DEF vars
<1> QED BY <1>2, <1>3, <1>4, <1>5, <1>6, <1>7, <1>8, <1>9, <1>10, <1>11, StepIs

\* loadMergeFiles goes on from segment to segment.
LEMMA ProgressStep == OnlyProcess /\ MergeInv /\ [Next]_vars => Progress'
<1> SUFFICES ASSUME OnlyProcess, MergeInv, [Next]_vars PROVE Progress'
  OBVIOUS
<1>0. Progress /\ Types /\ mdir.fin \in Nat /\ load.fin \in Nat /\ load.id \in Nat
  BY DEF MergeInv, Types, Dirs, Loads
<1>1. CASE db' = db /\ db = "open" /\ load' = load
  BY <1>0, <1>1 DEF Progress
<1>2. ASSUME NEW m \in Merges,
             MergeNothing(m) \/ \E reopen \in BOOLEAN : MergeStart(m, reopen)
      PROVE  Progress'
  BY <1>1, <1>2, BeginsAlone DEF MergeNothing, MergeStart
<1>3. ASSUME NEW m \in Merges, MergeOpen(m) \/ MergeRecord(m) \/ MergeFinish(m)
      PROVE  Progress'
  <2>1. Busy(m) /\ db' = db /\ load' = load
    BY <1>3 DEF MergeOpen, MergeRecord, MergeFinish, Busy
  <2> QED BY <1>1, <2>1, ReadsAlone
<1>4. CASE OpenStart \/ \E m \in Merges : SwapStart(m)
  <2>1. load'.id = 1 /\ load'.fin = mdir.fin /\ mdir' = mdir /\ db' = "swapping"
    BY <1>4 DEF SwapStart, OpenStart
  <2> QED BY <1>0, <2>1 DEF Progress
<1>5. CASE LoadSegment
  <2>1. load' = [load EXCEPT !.id = load.id + 1] /\ load.id <= load.fin
        /\ db' = db /\ db = "swapping"
    BY <1>5 DEF LoadSegment
  <2>2. load'.id = load.id + 1 /\ load'.fin = load.fin
    BY <1>0, <2>1 DEF Types, Loads
  <2>3. mdir'.fin = mdir.fin
    <3>1. mdir' = mdir \/ mdir' = [mdir EXCEPT !.segs[load.id] = <<>>]
      BY <1>5 DEF LoadSegment
    <3> QED BY <1>0, <3>1 DEF Types, Dirs
  <2>4. load.fin = mdir.fin /\ load.id \in 1 .. load.fin + 2
    BY <1>0, <2>1 DEF Progress
  <2> QED BY <1>0, <2>1, <2>2, <2>3, <2>4 DEF Progress
<1>6. CASE LoadFinish
  <2>1. load'.id = load.fin + 2 /\ load'.fin = load.fin /\ mdir' = NoDir
        /\ db' = db /\ db = "swapping"
    BY <1>0, <1>6 DEF LoadFinish, Types, Loads
  <2> QED BY <1>0, <2>1 DEF Progress
<1>7. CASE Reopen
  BY <1>7 DEF Reopen, Progress
<1>8. CASE Close \/ ProcessCrash
  <2>1. db' = "down" /\ load' = NoLoad
    BY <1>8, DiesOpen DEF Die
  <2> QED BY <2>1 DEF Progress
<1>9. ASSUME NEW k \in Keys, NEW v \in Values \cup {Nil}, DbWrite(k, v) PROVE Progress'
  BY <1>1, <1>9 DEF DbWrite
<1>10. CASE UNCHANGED vars
  BY <1>0, <1>10 DEF vars, data, Progress
<1> QED BY <1>2, <1>3, <1>4, <1>5, <1>6, <1>7, <1>8, <1>9, <1>10, StepIs

\* Writes stay past the segments that were or will be merged.
LEMMA ActiveStep == OnlyProcess /\ MergeInv /\ [Next]_vars => ActivePast'
<1> SUFFICES ASSUME OnlyProcess, MergeInv, [Next]_vars PROVE ActivePast'
  OBVIOUS
<1>0. /\ ActivePast /\ Types /\ fin \in Nat /\ mdir.fin \in Nat
      /\ merge \in [Merges -> MergeStates] /\ DOMAIN segs \subseteq Nat
  BY DEF MergeInv, Types, Dirs
<1>1. ASSUME DOMAIN segs \subseteq DOMAIN segs', UNCHANGED <<fin, mdir>>,
             \A m \in Merges : Busy(m)' => Busy(m) /\ merge'[m].prev = merge[m].prev
      PROVE  ActivePast'
  BY <1>0, <1>1 DEF ActivePast
<1>2. ASSUME NEW k \in Keys, NEW v \in Values \cup {Nil}, DbWrite(k, v) PROVE ActivePast'
  <2>1. DOMAIN segs \subseteq DOMAIN segs'
    BY <1>2, WriteAppends
  <2> QED BY <1>1, <1>2, <2>1 DEF DbWrite, Busy
<1>3. ASSUME NEW m \in Merges, MergeNothing(m) PROVE ActivePast'
  <2>1. \A o \in Merges : Busy(o)' => Busy(o) /\ merge'[o].prev = merge[o].prev
    BY <1>0, <1>3 DEF MergeNothing, Busy, Idle
  <2> QED BY <1>1, <1>3, <2>1 DEF MergeNothing, data
<1>4. ASSUME NEW m \in Merges, NEW reopen \in BOOLEAN, MergeStart(m, reopen)
      PROVE  ActivePast'
  <2>1. \A o \in Merges : merge[o].pc = "idle"
    BY <1>4, BeginsAlone
  <2>2. DOMAIN segs' = DOMAIN segs \cup {Active(segs) + 1}
    BY <1>4 DEF MergeStart, Rotated
  <2>3. \A o \in Merges : Busy(o)' => merge'[o].prev = Active(segs)
    BY <1>0, <1>4, <2>1 DEF MergeStart, Busy, Idle
  <2>4. UNCHANGED <<fin, mdir>>
    BY <1>4 DEF MergeStart
  <2> QED BY <1>0, <2>2, <2>3, <2>4, SegsAre DEF ActivePast
<1>5. ASSUME NEW m \in Merges, MergeOpen(m) \/ MergeRecord(m) PROVE ActivePast'
  <2>1. Busy(m) /\ UNCHANGED <<segs, fin>>
    BY <1>5 DEF MergeOpen, MergeRecord, Busy, data
  <2>2. \A o \in Merges : merge'[o].prev = merge[o].prev /\ (o # m => merge'[o] = merge[o])
    BY <1>0, <1>5 DEF MergeOpen, MergeRecord, MergeStates
  <2>3. mdir'.fin = 0 \/ mdir'.fin = mdir.fin
    <3>1. CASE MergeOpen(m)
      BY <3>1 DEF MergeOpen, NewDir
    <3>2. CASE MergeRecord(m)
      <4>1. \/ mdir' = mdir
            \/ mdir' = [mdir EXCEPT !.segs = Copy(m), !.hint =
                         Append(@, [key |-> At(segs, Point(m)).key, pos |-> LastPos(Copy(m))])]
        BY <3>2 DEF MergeRecord, Copy, Point
      <4> QED BY <1>0, <4>1 DEF Types, Dirs
    <3> QED BY <1>5, <3>1, <3>2
  <2>4. \A o \in Merges : Busy(o)' => Busy(o)
    BY <2>1, <2>2 DEF Busy
  <2> QED BY <1>0, <2>1, <2>2, <2>3, <2>4 DEF ActivePast
<1>6. ASSUME NEW m \in Merges, MergeFinish(m) PROVE ActivePast'
  <2>1. Busy(m) /\ UNCHANGED <<segs, fin>>
    BY <1>6 DEF MergeFinish, Busy, data
  <2>2. mdir'.fin = merge[m].prev
    BY <1>0, <1>6 DEF MergeFinish, FinRecord, Types, Dirs
  <2>3. \A o \in Merges : ~ Busy(o)'
    BY <1>0, <1>6, <2>1, ReadsAlone DEF MergeFinish, Busy, Idle
  <2>4. merge[m].prev + 1 \in DOMAIN segs /\ fin < merge[m].prev /\ merge[m].prev \in Nat
    BY <1>0, <2>1 DEF ActivePast, MergeStates
  <2> QED BY <1>0, <2>1, <2>2, <2>3, <2>4 DEF ActivePast
<1>7. CASE OpenStart \/ \E m \in Merges : SwapStart(m)
  <2>1. merge' = merge
    <3>1. CASE OpenStart
      BY <3>1 DEF OpenStart
    <3>2. ASSUME NEW m \in Merges, SwapStart(m) PROVE merge' = merge
      BY <1>0, <3>2, SwapsAlone, NoneClosed DEF SwapStart
    <3> QED BY <1>7, <3>1, <3>2
  <2> QED BY <1>1, <1>7, <2>1 DEF OpenStart, SwapStart, data, Busy
<1>8. CASE LoadSegment
  <2>1. db = "swapping" /\ merge' = merge /\ fin' = fin
    BY <1>8 DEF LoadSegment
  <2>2. \A m \in Merges : ~ Busy(m)
    BY <2>1 DEF MergeInv, Control, Busy
  <2>3. mdir'.fin = mdir.fin
    <3>1. mdir' = mdir \/ mdir' = [mdir EXCEPT !.segs[load.id] = <<>>]
      BY <1>8 DEF LoadSegment
    <3> QED BY <1>0, <3>1 DEF Types, Dirs
  <2>4. load.id <= mdir.fin /\ load.id \in Nat
    BY <1>0, <1>8 DEF MergeInv, Progress, LoadSegment, Types, Loads
  <2>5. \A s \in DOMAIN segs : s # load.id => s \in DOMAIN segs'
    BY <1>8 DEF LoadSegment
  <2> QED BY <1>0, <2>1, <2>2, <2>3, <2>4, <2>5 DEF ActivePast, Busy
<1>9. CASE LoadFinish
  <2>1. db = "swapping" /\ merge' = merge /\ segs' = segs /\ mdir'.fin = 0
        /\ (fin' = fin \/ fin' = mdir.fin)
    BY <1>9 DEF LoadFinish, NoDir
  <2>2. \A m \in Merges : ~ Busy(m)
    BY <2>1 DEF MergeInv, Control, Busy
  <2>3. PICK s \in DOMAIN segs : s > fin /\ s > mdir.fin
    BY <1>0 DEF ActivePast
  <2>4. s > fin' /\ s > mdir'.fin
    BY <1>0, <2>1, <2>3
  <2> QED BY <2>1, <2>2, <2>3, <2>4 DEF ActivePast, Busy
<1>10. CASE Reopen
  <2>1. segs' = segs
    BY <1>10, SegsAre DEF Reopen
  <2>2. db = "swapping" /\ UNCHANGED <<fin, mdir>>
    BY <1>10 DEF Reopen
  <2>3. \A m \in Merges : ~ Busy(m)'
    <3>1. \A m \in Merges : ~ Busy(m)
      BY <2>2 DEF MergeInv, Control, Busy
    <3>2. \A m \in Merges : merge'[m].pc \in {"idle", merge[m].pc}
      BY <1>0, <1>10 DEF Reopen, Idle, MergeStates
    <3> QED BY <3>1, <3>2 DEF Busy
  <2> QED BY <1>1, <2>1, <2>2, <2>3
<1>11. CASE Close \/ ProcessCrash
  <2>1. Die /\ \A m \in Merges : merge'[m].pc = "idle"
    BY <1>11, DiesOpen
  <2> QED BY <1>1, <2>1 DEF Die, data, Busy
<1>12. CASE UNCHANGED vars
  BY <1>1, <1>12 DEF vars, data, Busy
<1> QED BY <1>2, <1>3, <1>4, <1>5, <1>6, <1>7, <1>8, <1>9, <1>10, <1>11, <1>12, StepIs

-----------------------------------------------------------------------------
(* What the data directory says *)

\* Logs that agree past f have the same records there.
LEMMA RecsSame ==
  ASSUME NEW sg, NEW ns, NEW f, NEW k,
         \A p : p.seg > f => (p \in All(ns) <=> p \in All(sg)),
         \A p \in All(sg) : p.seg > f => At(ns, p) = At(sg, p)
  PROVE  /\ Recs(ns, f, k) = Recs(sg, f, k)
         /\ \A w : Told(sg, w, f, k) => Told(ns, w, f, k)
<1>1. ASSUME NEW q PROVE q \in Recs(ns, f, k) <=> q \in Recs(sg, f, k)
  BY RecsAre
<1>2. Recs(ns, f, k) = Recs(sg, f, k)
  BY <1>1
<1>3. \A q \in Recs(sg, f, k) : At(ns, q) = At(sg, q)
  BY RecsAre
<1> QED BY <1>2, <1>3 DEF Told, Last

\* What holds of the log past f holds past a later segment g.
LEMMA ToldFurther ==
  ASSUME NEW sg, DOMAIN sg \subseteq Nat, LogOf(sg), NEW w, NEW f \in Nat, NEW g \in Nat,
         f <= g, NEW k, Told(sg, w, f, k)
  PROVE  Told(sg, w, g, k)
<1> SUFFICES ASSUME NEW p, Last(Recs(sg, g, k), p) PROVE At(sg, p).val = w[k]
  BY DEF Told
<1>1. p \in All(sg) /\ p \in Points /\ p.seg > g /\ At(sg, p).key = k
  BY RecsAre, RecordAt DEF Last, All
<1>2. p \in Recs(sg, f, k)
  BY <1>1, RecsAre DEF Points
<1>3. ASSUME NEW q \in Recs(sg, f, k) PROVE q = p \/ Before(q, p)
  <2>1. q \in All(sg) /\ q \in Points /\ q.seg > f /\ At(sg, q).key = k
    BY RecsAre, RecordAt DEF All
  <2>2. CASE q.seg > g
    BY <2>1, <2>2, RecsAre DEF Last
  <2>3. CASE ~ (q.seg > g)
    BY <1>1, <2>1, <2>3 DEF Before, Points
  <2> QED BY <2>2, <2>3
<1>4. Last(Recs(sg, f, k), p)
  BY <1>2, <1>3 DEF Last
<1> QED BY <1>4 DEF Told

\* A write is the last record of its key, and leaves those of the others.
LEMMA WriteTold ==
  ASSUME MergeInv, NEW k \in Keys, NEW v \in Values \cup {Nil}, DbWrite(k, v),
         NEW f \in Nat, LastPos(segs').seg > f, NEW j \in Keys, Told(segs, kv, f, j)
  PROVE  /\ Told(segs', kv', f, j)
         /\ Recs(segs', f, j) = {} => Recs(segs, f, j) = {} /\ j # k
         /\ j # k => /\ Recs(segs', f, j) = Recs(segs, f, j) /\ kv'[j] = kv[j]
                     /\ index'[j] = index[j]
<1> DEFINE r == [key |-> k, val |-> v]
           l == LastPos(segs')
<1>1. /\ Grown(segs, segs', r, l) /\ DOMAIN segs \subseteq Nat /\ LogOf(segs)
      /\ r.key = k /\ r.val = v
  BY WriteAppends, SegsAre DEF MergeInv, Types
<1> HIDE DEF r, l
<1>2. kv' = [kv EXCEPT ![k] = v] /\ kv \in Map /\ index \in [Keys -> Position]
  BY DEF DbWrite, MergeInv, Types
<1>2a. \E x : index' = [index EXCEPT ![k] = x]
  BY DEF DbWrite
<1>3. CASE j = k
  <2>1. Recs(segs', f, j) = Recs(segs, f, j) \cup {l}
    BY <1>1, <1>3, RecsGrow DEF l
  <2>2. \A q : Last(Recs(segs', f, j), q) => q = l
    BY <1>1, <1>3, LastGrows DEF l
  <2>3. At(segs', l) = r /\ kv'[j] = v
    BY <1>1, <1>2, <1>3 DEF Grown, Map
  <2> QED BY <1>1, <1>3, <2>1, <2>2, <2>3 DEF Told
<1>4. CASE j # k
  <2>1. Recs(segs', f, j) = Recs(segs, f, j)
    BY <1>1, <1>4, RecsGrow
  <2>2. \A q \in Recs(segs, f, j) : At(segs', q) = At(segs, q)
    BY <1>1, RecsAre DEF Grown
  <2>3. kv'[j] = kv[j] /\ index'[j] = index[j]
    BY <1>2, <1>2a, <1>4 DEF Map
  <2> QED BY <1>4, <2>1, <2>2, <2>3 DEF Told, Last
<1> QED BY <1>3, <1>4

\* A rotation changes no record.
LEMMA RotateKeeps ==
  ASSUME NEW m \in Merges, NEW reopen \in BOOLEAN, MergeStart(m, reopen)
  PROVE  /\ All(segs') = All(segs) /\ \A p : p \in All(segs) => At(segs', p) = At(segs, p)
         /\ \A f, k : Recs(segs', f, k) = Recs(segs, f, k)
         /\ \A f, k, w : Told(segs, w, f, k) => Told(segs', w, f, k)
<1>1. segs' = [s \in DOMAIN segs \cup {Active(segs) + 1} |->
                 IF s \in DOMAIN segs THEN segs[s] ELSE <<>>]
  BY DEF MergeStart, Rotated
<1>2. ASSUME NEW p PROVE p \in All(segs') <=> p \in All(segs)
  <2>1. ASSUME p \in All(segs') PROVE p \in All(segs)
    <3>1. p.seg \in DOMAIN segs' /\ p.n \in DOMAIN segs'[p.seg] /\ p = Pos(p.seg, p.n)
      BY <2>1, PositionIs DEF All
    <3>2. p.seg \in DOMAIN segs
      <4>1. DOMAIN <<>> = {}
        OBVIOUS
      <4> QED BY <1>1, <3>1, <4>1
    <3> QED BY <1>1, <3>1, <3>2, IsPosition DEF All
  <2>2. ASSUME p \in All(segs) PROVE p \in All(segs')
    <3>1. p.seg \in DOMAIN segs /\ p.n \in DOMAIN segs[p.seg] /\ p = Pos(p.seg, p.n)
      BY <2>2, PositionIs DEF All
    <3> QED BY <1>1, <3>1, IsPosition DEF All
  <2> QED BY <2>1, <2>2
<1>3. ASSUME NEW p \in All(segs) PROVE At(segs', p) = At(segs, p)
  <2>1. p.seg \in DOMAIN segs
    BY PositionIs DEF All
  <2> QED BY <1>1, <2>1 DEF At
<1>4. ASSUME NEW f, NEW k
      PROVE  /\ Recs(segs', f, k) = Recs(segs, f, k)
             /\ \A w : Told(segs, w, f, k) => Told(segs', w, f, k)
  BY <1>2, <1>3, RecsSame
<1>5. All(segs') = All(segs)
  BY <1>2
<1> QED BY <1>3, <1>4, <1>5

\* The index of an open database points to what was written.
LEMMA IndexAnswers ==
  ASSUME MergeInv, db = "open", NEW k \in Keys
  PROVE  Answers(segs, kv, index[k], k)
<1>1. Told(segs, kv, fin, k) /\ (Recs(segs, fin, k) = {} => Answers(segs, kv, HintPos(hint, k), k))
  BY DEF MergeInv, Durable, Loading
<1>2. CASE Recs(segs, fin, k) = {}
  BY <1>1, <1>2 DEF MergeInv, Indexed
<1>3. CASE Recs(segs, fin, k) # {}
  <2>1. Recs(segs, fin, k) \subseteq All(segs) /\ LogOf(segs) /\ MaxSegs \in Nat
        /\ DOMAIN segs \subseteq 1 .. MaxSegs /\ DOMAIN segs \subseteq Nat
    BY RecsAre, SegsAre DEF MergeInv, Types
  <2>2. PICK p : Last(Recs(segs, fin, k), p)
    BY <1>3, <2>1, LastExists
  <2>3. index[k] = IF kv[k] = Nil THEN NoPos ELSE p
    BY <2>2 DEF MergeInv, Indexed
  <2>4. p \in All(segs) /\ At(segs, p).key = k /\ At(segs, p).val = kv[k]
    BY <1>1, <2>2, RecsAre DEF Last, Told
  <2>5. At(segs, p) \in Record
    BY <2>1, <2>4, RecordAt DEF All
  <2>6. At(segs, p) = [key |-> k, val |-> kv[k]]
    BY <2>4, <2>5 DEF Record
  <2> QED BY <2>3, <2>4, <2>6 DEF Answers
<1> QED BY <1>2, <1>3

\* Everything written stays in the data directory, but for a time when the files
\* of the merge directory are moved.
LEMMA DurableStep == OnlyProcess /\ MergeInv /\ [Next]_vars => Durable'
<1> SUFFICES ASSUME OnlyProcess, MergeInv, [Next]_vars PROVE Durable'
  OBVIOUS
<1>0. Types /\ Durable /\ DOMAIN segs \subseteq Nat /\ fin \in Nat /\ mdir.fin \in Nat
  BY DEF MergeInv, Types, Dirs
<1>1. ASSUME UNCHANGED <<segs, hint, fin, kv>>, Loading => Loading' PROVE Durable'
  BY <1>0, <1>1 DEF Durable
<1>2. ASSUME NEW k \in Keys, NEW v \in Values \cup {Nil}, DbWrite(k, v) PROVE Durable'
  <2>1. LastPos(segs').seg > fin /\ Grown(segs, segs', [key |-> k, val |-> v], LastPos(segs'))
    BY <1>2, WriteAppends
  <2>2. ~ Loading /\ UNCHANGED <<fin, hint>>
    BY <1>2 DEF DbWrite, Loading
  <2>3. ASSUME NEW j \in Keys
        PROVE  /\ Told(segs', kv', fin, j)
               /\ Recs(segs', fin, j) = {} => Answers(segs', kv', HintPos(hint, j), j)
    <3>1. Told(segs, kv, fin, j) /\ (Recs(segs, fin, j) = {} => Answers(segs, kv, HintPos(hint, j), j))
      BY <1>0, <2>2 DEF Durable
    <3>2. Told(segs', kv', fin, j)
      BY <1>0, <1>2, <2>1, <3>1, WriteTold
    <3>3. ASSUME Recs(segs', fin, j) = {} PROVE Recs(segs, fin, j) = {} /\ kv'[j] = kv[j]
      BY <1>0, <1>2, <2>1, <3>1, <3>3, WriteTold
    <3>4. ASSUME Recs(segs', fin, j) = {} PROVE Answers(segs', kv', HintPos(hint, j), j)
      BY <2>1, <3>1, <3>3, <3>4 DEF Answers, Grown
    <3> QED BY <3>2, <3>4
  <2> QED BY <2>2, <2>3 DEF Durable
<1>3. ASSUME NEW m \in Merges, NEW reopen \in BOOLEAN, MergeStart(m, reopen) PROVE Durable'
  <2>1. ~ Loading /\ UNCHANGED <<fin, hint, kv>>
    BY <1>3 DEF MergeStart, Loading
  <2>2. All(segs') = All(segs) /\ \A p : p \in All(segs) => At(segs', p) = At(segs, p)
    BY <1>3, RotateKeeps
  <2>3. \A f, k : Recs(segs', f, k) = Recs(segs, f, k)
    BY <1>3, RotateKeeps
  <2>4. \A f, k, w : Told(segs, w, f, k) => Told(segs', w, f, k)
    BY <1>3, RotateKeeps
  <2>5. \A w, p, k : Answers(segs, w, p, k) => Answers(segs', w, p, k)
    BY <2>2 DEF Answers
  <2>6. ASSUME NEW j \in Keys
        PROVE  /\ Told(segs', kv, fin, j)
               /\ Recs(segs', fin, j) = {} => Answers(segs', kv, HintPos(hint, j), j)
    BY <1>0, <2>1, <2>3, <2>4, <2>5 DEF Durable
  <2> QED BY <2>1, <2>6 DEF Durable
<1>4. ASSUME NEW m \in Merges, MergeNothing(m) \/ MergeOpen(m) \/ MergeRecord(m) \/ MergeFinish(m)
      PROVE  Durable'
  <2>1. db = "open" /\ UNCHANGED <<segs, hint, fin, kv>>
    BY <1>4, ReadsAlone DEF MergeNothing, MergeOpen, MergeRecord, MergeFinish, data, Busy
  <2> QED BY <1>1, <2>1 DEF Loading
<1>5. CASE OpenStart \/ \E m \in Merges : SwapStart(m)
  <2>1. db # "swapping" /\ UNCHANGED <<segs, hint, fin, kv>>
    BY <1>5 DEF OpenStart, SwapStart, data
  <2> QED BY <1>1, <2>1 DEF Loading
<1>6. CASE LoadSegment
  <2>1. db' = "swapping" /\ load.id <= load.fin /\ db = "swapping"
    BY <1>6 DEF LoadSegment
  <2>2. mdir.fin # 0
    BY <1>0, <2>1 DEF MergeInv, Progress, Types, Loads
  <2>3. mdir' = mdir \/ mdir' = [mdir EXCEPT !.segs[load.id] = <<>>]
    BY <1>6 DEF LoadSegment
  <2>4. mdir'.fin = mdir.fin
    BY <1>0, <2>3 DEF Types, Dirs
  <2> QED BY <2>1, <2>2, <2>4 DEF Durable, Loading
<1>7. CASE LoadFinish
  <2>1. /\ db = "swapping" /\ load.id = load.fin + 1 /\ segs' = segs /\ kv' = kv
        /\ fin' = IF mdir.fin # 0 THEN mdir.fin ELSE fin
        /\ hint' = IF mdir.hashint THEN mdir.hint ELSE hint
    BY <1>7 DEF LoadFinish, HintMoves
  <2>2. load.fin = mdir.fin
    BY <1>0, <2>1 DEF MergeInv, Progress, Types, Loads
  <2>3. ASSUME NEW k \in Keys
        PROVE  /\ Told(segs, kv, fin', k)
               /\ Recs(segs, fin', k) = {} => Answers(segs, kv, HintPos(hint', k), k)
    <3>1. CASE mdir.fin = 0 /\ ~ mdir.hashint
      BY <1>0, <2>1, <3>1 DEF Durable, Loading
    <3>2. CASE mdir.fin = 0 /\ mdir.hashint
      <4>1. \A m \in Merges : ~ Scans(m)
        BY <2>1 DEF MergeInv, Control, Scans
      <4>2. fin = 0 /\ fin' = 0 /\ hint' = mdir.hint
        BY <2>1, <3>2, <4>1 DEF MergeInv, Incomplete
      <4>3. Told(segs, kv, 0, k) /\ (Recs(segs, 0, k) = {} => Answers(segs, kv, HintPos(hint, k), k))
        BY <1>0, <3>2, <4>2 DEF Durable, Loading
      <4>4. \A p \in All(segs) : p.seg > 0
        <5>1. DOMAIN segs \subseteq 1 .. MaxSegs /\ MaxSegs \in Nat
          BY <1>0, SegsAre DEF Types
        <5>2. \A p \in All(segs) : p.seg \in DOMAIN segs
          BY PositionIs DEF All
        <5> QED BY <5>1, <5>2
      <4>5. ASSUME Recs(segs, 0, k) = {} PROVE Answers(segs, kv, HintPos(mdir.hint, k), k)
        <5>1. \A p \in All(segs) : At(segs, p).key # k
          BY <4>4, <4>5, RecsAre
        <5>2. \A i \in DOMAIN mdir.hint : mdir.hint[i].key # k
          BY <3>2, <5>1 DEF MergeInv, Incomplete
        <5>3. HintPos(mdir.hint, k) = NoPos
          BY <1>0, <5>2, HintPosIs, DirSegsAre
        <5>4. kv[k] = Nil
          BY <4>3, <4>5, <5>1 DEF Answers
        <5> QED BY <5>3, <5>4 DEF Answers
      <4> QED BY <4>2, <4>3, <4>5
    <3>3. CASE mdir.fin # 0
      <4>1. fin' = mdir.fin /\ hint' = mdir.hint
        BY <2>1, <3>3 DEF MergeInv, Complete
      <4>2. Told(segs, kv, mdir.fin, k)
        BY <3>3 DEF MergeInv, Complete
      <4>3. ASSUME Recs(segs, mdir.fin, k) = {} PROVE Answers(segs, kv, HintPos(mdir.hint, k), k)
        <5> DEFINE p == HintPos(mdir.hint, k)
        <5>1. IF kv[k] = Nil THEN p = NoPos
              ELSE /\ p \in Merged(segs, mdir.segs, load.id)
                   /\ MergedAt(segs, mdir.segs, load.id, p) = [key |-> k, val |-> kv[k]]
          BY <3>3, <4>3 DEF MergeInv, Complete
        <5>2. Len(mdir.segs) <= mdir.fin /\ Len(mdir.segs) \in Nat
          BY <1>0, <3>3, DirSegsAre DEF MergeInv, MergeFits
        <5>3. \A q \in All(mdir.segs) : ~ (q.seg >= load.id)
          <6>1. \A q \in All(mdir.segs) : q.seg \in 1 .. Len(mdir.segs)
            BY <1>0, PositionIs, DirSegsAre DEF All
          <6> QED BY <1>0, <2>1, <2>2, <5>2, <6>1
        <5> HIDE DEF p
        <5>4. p \in Merged(segs, mdir.segs, load.id) => p \in All(segs) /\ p.seg < load.id
          BY <5>3 DEF Merged
        <5>5. Answers(segs, kv, p, k)
          BY <5>1, <5>4 DEF Answers, MergedAt
        <5> QED BY <5>5 DEF p
      <4> QED BY <4>1, <4>2, <4>3
    <3> QED BY <3>1, <3>2, <3>3
  <2> QED BY <2>1, <2>3 DEF Durable
<1>8. CASE Reopen
  <2>1. segs' = segs /\ UNCHANGED <<hint, fin, kv>>
    BY <1>8, SegsAre DEF Reopen
  <2>2. mdir.fin = 0
    BY <1>8 DEF Reopen, MergeInv, Progress, NoDir
  <2> QED BY <1>1, <2>1, <2>2 DEF Loading
<1>9. CASE Close \/ ProcessCrash
  <2>1. Die /\ db = "open"
    BY <1>9, DiesOpen
  <2> QED BY <1>1, <2>1 DEF Die, data, Loading
<1>10. CASE UNCHANGED vars
  BY <1>1, <1>10 DEF vars, data, Loading
<1> QED BY <1>2, <1>3, <1>4, <1>5, <1>6, <1>7, <1>8, <1>9, <1>10, StepIs

\* loadIndex finds what was written.
LEMMA IndexedStep == OnlyProcess /\ MergeInv /\ [Next]_vars => Indexed'
<1> SUFFICES ASSUME OnlyProcess, MergeInv, [Next]_vars PROVE Indexed'
  OBVIOUS
<1>0. Types /\ Indexed /\ DOMAIN segs \subseteq Nat /\ fin \in Nat /\ mdir.fin \in Nat
  BY DEF MergeInv, Types, Dirs
<1>1. ASSUME UNCHANGED <<segs, hint, fin, kv, index>>, db' = "open" => db = "open"
      PROVE  Indexed'
  BY <1>0, <1>1 DEF Indexed
<1>2. ASSUME NEW k \in Keys, NEW v \in Values \cup {Nil}, DbWrite(k, v) PROVE Indexed'
  <2> DEFINE r == [key |-> k, val |-> v]
             l == LastPos(segs')
  <2>1. l.seg > fin /\ Grown(segs, segs', r, l) /\ LogOf(segs) /\ r.key = k
    BY <1>0, <1>2, WriteAppends DEF Types
  <2>2. UNCHANGED <<fin, hint>> /\ db = "open"
        /\ index' = [index EXCEPT ![k] = IF v = Nil THEN NoPos ELSE l]
        /\ kv' = [kv EXCEPT ![k] = v]
    BY <1>2 DEF DbWrite
  <2> HIDE DEF r, l
  <2>3. ASSUME NEW j \in Keys
        PROVE  /\ Recs(segs', fin, j) = {} => index'[j] = HintPos(hint, j)
               /\ \A p : Last(Recs(segs', fin, j), p) =>
                           index'[j] = IF kv'[j] = Nil THEN NoPos ELSE p
    <3>1. CASE j = k
      <4>1. Recs(segs', fin, j) = Recs(segs, fin, j) \cup {l}
        BY <1>0, <2>1, <3>1, RecsGrow
      <4>2. \A p : Last(Recs(segs', fin, j), p) => p = l
        BY <1>0, <2>1, <3>1, LastGrows
      <4>3. index'[j] = IF v = Nil THEN NoPos ELSE l
        BY <1>0, <2>2, <3>1 DEF Types
      <4>4. kv'[j] = v
        BY <1>0, <2>2, <3>1 DEF Types, Map
      <4> QED BY <4>1, <4>2, <4>3, <4>4
    <3>2. CASE j # k
      <4>1. Recs(segs', fin, j) = Recs(segs, fin, j)
        BY <1>0, <2>1, <3>2, RecsGrow
      <4>2. index'[j] = index[j] /\ kv'[j] = kv[j]
        BY <1>0, <2>2, <3>2 DEF Types, Map
      <4> QED BY <1>0, <2>2, <4>1, <4>2 DEF Indexed
    <3> QED BY <3>1, <3>2
  <2> QED BY <2>2, <2>3 DEF Indexed
<1>3. ASSUME NEW m \in Merges, NEW reopen \in BOOLEAN, MergeStart(m, reopen) PROVE Indexed'
  <2>1. db = "open" /\ UNCHANGED <<fin, hint, kv, index>>
    BY <1>3 DEF MergeStart
  <2>2. \A f, k : Recs(segs', f, k) = Recs(segs, f, k)
    BY <1>3, RotateKeeps
  <2> QED BY <1>0, <2>1, <2>2 DEF Indexed
<1>4. ASSUME NEW m \in Merges, MergeNothing(m) \/ MergeOpen(m) \/ MergeRecord(m) \/ MergeFinish(m)
      PROVE  Indexed'
  <2>1. UNCHANGED <<segs, hint, fin, kv, index, db>>
    BY <1>4 DEF MergeNothing, MergeOpen, MergeRecord, MergeFinish, data
  <2> QED BY <1>1, <2>1
<1>5. CASE db' # "open"
  BY <1>5 DEF Indexed
<1>6. CASE OpenStart \/ LoadSegment \/ LoadFinish \/ \E m \in Merges : SwapStart(m)
  <2>1. db' = "swapping"
    BY <1>6 DEF OpenStart, LoadSegment, LoadFinish, SwapStart
  <2> QED BY <1>5, <2>1
<1>7. CASE Reopen
  <2>1. /\ segs' = segs /\ UNCHANGED <<hint, fin, kv>> /\ db = "swapping"
        /\ index' = [k \in Keys |-> LoadedPos(segs, hint, fin, k)]
    BY <1>7, SegsAre DEF Reopen
  <2>2. mdir.fin = 0
    BY <1>7 DEF Reopen, MergeInv, Progress, NoDir
  <2>3. ASSUME NEW k \in Keys
        PROVE  /\ Recs(segs, fin, k) = {} => index'[k] = HintPos(hint, k)
               /\ \A p : Last(Recs(segs, fin, k), p) =>
                           index'[k] = IF kv[k] = Nil THEN NoPos ELSE p
    <3> DEFINE P == Recs(segs, fin, k)
    <3>1. index'[k] = IF P = {} THEN HintPos(hint, k)
                      ELSE IF At(segs, LastOf(P)).val = Nil THEN NoPos ELSE LastOf(P)
      BY <2>1 DEF LoadedPos, Recs
    <3>2. P \subseteq Points
      BY <1>0, RecsAre, RecordAt DEF Types, All
    <3>3. Told(segs, kv, fin, k)
      BY <2>2 DEF MergeInv, Durable, Loading
    <3> HIDE DEF P
    <3>4. ASSUME NEW p, Last(P, p) PROVE index'[k] = IF kv[k] = Nil THEN NoPos ELSE p
      <4>1. LastOf(P) = p
        BY <3>2, <3>4, LastOfIs
      <4>2. At(segs, p).val = kv[k] /\ P # {}
        BY <3>3, <3>4 DEF Told, P, Last
      <4> QED BY <3>1, <4>1, <4>2
    <3>5. P = {} => index'[k] = HintPos(hint, k)
      BY <3>1
    <3> QED BY <3>4, <3>5 DEF P
  <2> QED BY <2>1, <2>3 DEF Indexed
<1>8. CASE Close \/ ProcessCrash
  <2>1. db' = "down"
    BY <1>8, DiesOpen DEF Die
  <2> QED BY <1>5, <2>1
<1>9. CASE UNCHANGED vars
  BY <1>1, <1>9 DEF vars, data
<1> QED BY <1>2, <1>3, <1>4, <1>6, <1>7, <1>8, <1>9, StepIs

-----------------------------------------------------------------------------
(* What the merge directory says *)

\* Before anything is moved the merged log is in the merge directory.
LEMMA MergedHere ==
  ASSUME NEW sg, NEW ms, DOMAIN sg \subseteq Nat \ {0}, DOMAIN ms \subseteq Nat \ {0},
         NEW id \in 0 .. 1
  PROVE  /\ Merged(sg, ms, id) = All(ms)
         /\ \A p \in All(ms) : MergedAt(sg, ms, id, p) = At(ms, p)
<1>1. \A p \in All(sg) : p.seg \in Nat \ {0}
  BY PositionIs DEF All
<1>2. \A p \in All(ms) : p.seg \in Nat \ {0}
  BY PositionIs DEF All
<1> QED BY <1>1, <1>2 DEF Merged, MergedAt

\* Merging and moving: a file that is moved takes its records along.
LEMMA MoveKeeps ==
  ASSUME MergeInv, LoadSegment
  PROVE  /\ mdir.fin # 0 /\ mdir'.fin = mdir.fin /\ mdir'.hint = mdir.hint
         /\ mdir'.hashint = mdir.hashint /\ Len(mdir'.segs) = Len(mdir.segs)
         /\ Merged(segs', mdir'.segs, load'.id) = Merged(segs, mdir.segs, load.id)
         /\ \A p \in Merged(segs, mdir.segs, load.id) :
              MergedAt(segs', mdir'.segs, load'.id, p) = MergedAt(segs, mdir.segs, load.id, p)
         /\ \A k : Recs(segs', mdir.fin, k) = Recs(segs, mdir.fin, k)
         /\ \A k, w : Told(segs, w, mdir.fin, k) => Told(segs', w, mdir.fin, k)
<1> DEFINE id == load.id
           moved == id \in DOMAIN mdir.segs /\ mdir.segs[id] # <<>>
<1>0. Types /\ id \in Nat /\ id >= 1 /\ id <= mdir.fin /\ mdir.fin \in Nat
  BY DEF LoadSegment, MergeInv, Progress, Types, Loads, Dirs
<1>1. load'.id = id + 1
  BY <1>0 DEF LoadSegment, Types, Loads
<1>2. /\ DOMAIN segs' = (DOMAIN segs \ {id}) \cup (IF moved THEN {id} ELSE {})
      /\ \A s \in DOMAIN segs' : segs'[s] = IF s = id THEN mdir.segs[id] ELSE segs[s]
      /\ mdir' = IF moved THEN [mdir EXCEPT !.segs[id] = <<>>] ELSE mdir
  BY DEF LoadSegment
<1>3. /\ mdir.segs \in Seq(Seq(Record)) /\ DOMAIN mdir.segs = 1 .. Len(mdir.segs)
      /\ Len(mdir.segs) \in Nat /\ DOMAIN segs \subseteq Nat
  BY <1>0, DirSegsAre DEF Types
<1>4. /\ mdir'.fin = mdir.fin /\ mdir'.hint = mdir.hint /\ mdir'.hashint = mdir.hashint
      /\ mdir'.segs = IF moved THEN [mdir.segs EXCEPT ![id] = <<>>] ELSE mdir.segs
  BY <1>0, <1>2 DEF Types, Dirs
<1>5. Len(mdir'.segs) = Len(mdir.segs) /\ DOMAIN mdir'.segs = DOMAIN mdir.segs
  <2>1. CASE moved
    <3>1. <<>> \in Seq(Record) /\ id \in 1 .. Len(mdir.segs)
      BY <1>3, <2>1
    <3>2. /\ [mdir.segs EXCEPT ![id] = <<>>] \in Seq(Seq(Record))
          /\ Len([mdir.segs EXCEPT ![id] = <<>>]) = Len(mdir.segs)
      BY <1>3, <3>1, ExceptSeq
    <3> QED BY <1>4, <2>1, <3>2
  <2>2. CASE ~ moved
    BY <1>4, <2>2
  <2> QED BY <2>1, <2>2
<1>6. ~ moved => id \notin DOMAIN segs' /\ \A n : id \in DOMAIN mdir.segs => n \notin DOMAIN mdir.segs[id]
  <2>1. DOMAIN <<>> = {}
    OBVIOUS
  <2> QED BY <1>2, <2>1
<1>7. moved => id \in DOMAIN segs' /\ segs'[id] = mdir.segs[id] /\ mdir'.segs[id] = <<>>
  BY <1>2, <1>4
<1>8. \A s : s # id => /\ s \in DOMAIN segs' <=> s \in DOMAIN segs
                       /\ s \in DOMAIN segs => segs'[s] = segs[s]
                       /\ s \in DOMAIN mdir.segs => mdir'.segs[s] = mdir.segs[s]
  BY <1>2, <1>4
<1> HIDE DEF moved, id
\* A position is in a log when its segment has it.
<1>9. \A sg, p : p \in All(sg) <=> /\ p.seg \in DOMAIN sg /\ p.n \in DOMAIN sg[p.seg]
                                   /\ p = Pos(p.seg, p.n)
  <2>1. ASSUME NEW sg, NEW p
        PROVE  p \in All(sg) <=> /\ p.seg \in DOMAIN sg /\ p.n \in DOMAIN sg[p.seg]
                                 /\ p = Pos(p.seg, p.n)
    <3>1. p \in All(sg) => /\ p.seg \in DOMAIN sg /\ p.n \in DOMAIN sg[p.seg]
                           /\ p = Pos(p.seg, p.n)
      BY PositionIs DEF All
    <3>2. p.seg \in DOMAIN sg /\ p.n \in DOMAIN sg[p.seg] => Pos(p.seg, p.n) \in All(sg)
      BY IsPosition DEF All
    <3> QED BY <3>1, <3>2
  <2> QED BY <2>1
<1>10. ASSUME NEW p
       PROVE  /\ p \in Merged(segs', mdir'.segs, id + 1) <=> p \in Merged(segs, mdir.segs, id)
              /\ p \in Merged(segs, mdir.segs, id) =>
                   MergedAt(segs', mdir'.segs, id + 1, p) = MergedAt(segs, mdir.segs, id, p)
  <2>1. CASE p.seg = id
    <3>1. p \in Merged(segs', mdir'.segs, id + 1) <=> p \in All(segs')
      BY <1>0, <2>1 DEF Merged
    <3>2. p \in Merged(segs, mdir.segs, id) <=> p \in All(mdir.segs)
      BY <1>0, <2>1 DEF Merged
    <3>3. p \in All(segs') <=> p \in All(mdir.segs)
      BY <1>6, <1>7, <1>9, <2>1 DEF moved
    <3>4. p \in All(segs') => At(segs', p) = At(mdir.segs, p)
      BY <1>6, <1>7, <1>9, <2>1 DEF At
    <3> QED BY <1>0, <2>1, <3>1, <3>2, <3>3, <3>4 DEF MergedAt
  <2>2. CASE p.seg # id
    <3>1. p \in All(segs') <=> p \in All(segs)
      BY <1>8, <1>9, <2>2
    <3>2. p \in All(mdir'.segs) <=> p \in All(mdir.segs)
      BY <1>5, <1>8, <1>9, <2>2
    <3>3. p \in All(segs) => At(segs', p) = At(segs, p)
      BY <1>8, <1>9, <2>2 DEF At
    <3>4. p \in All(mdir.segs) => At(mdir'.segs, p) = At(mdir.segs, p)
      BY <1>5, <1>8, <1>9, <2>2 DEF At
    <3>5. p \in All(segs) \/ p \in All(mdir.segs) => p.seg \in Nat
      BY <1>3, <1>9
    <3> QED BY <1>0, <2>2, <3>1, <3>2, <3>3, <3>4, <3>5 DEF Merged, MergedAt
  <2> QED BY <2>1, <2>2
<1>11. Merged(segs', mdir'.segs, id + 1) = Merged(segs, mdir.segs, id)
  <2>1. \A p : p \in Merged(segs', mdir'.segs, id + 1) <=> p \in Merged(segs, mdir.segs, id)
    BY <1>10
  <2> QED BY <2>1
<1>12. \A p : p.seg > mdir.fin => (p \in All(segs') <=> p \in All(segs))
  <2>1. \A p : p \in All(segs') \/ p \in All(segs) => p.seg \in Nat
    BY <1>0, <1>2, <1>3, <1>9 DEF id
  <2> QED BY <1>0, <1>8, <1>9, <2>1
<1>13. \A p \in All(segs) : p.seg > mdir.fin => At(segs', p) = At(segs, p)
  <2>1. \A p \in All(segs) : p.seg \in Nat
    BY <1>3, <1>9
  <2> QED BY <1>0, <1>8, <1>9, <2>1 DEF At
<1>14. ASSUME NEW k
       PROVE  /\ Recs(segs', mdir.fin, k) = Recs(segs, mdir.fin, k)
              /\ \A w : Told(segs, w, mdir.fin, k) => Told(segs', w, mdir.fin, k)
  BY <1>12, <1>13, RecsSame
<1>15. Merged(segs', mdir'.segs, load'.id) = Merged(segs, mdir.segs, load.id)
  BY <1>1, <1>11 DEF id
<1>16. \A p \in Merged(segs, mdir.segs, load.id) :
         MergedAt(segs', mdir'.segs, load'.id, p) = MergedAt(segs, mdir.segs, load.id, p)
  BY <1>1, <1>10 DEF id
<1>17. mdir.fin # 0
  BY <1>0
<1> QED BY <1>4, <1>5, <1>14, <1>15, <1>16, <1>17

\* The merged log is what it was.
MergedSame ==
  /\ mdir'.hint = mdir.hint /\ mdir'.hashint = mdir.hashint
  /\ Len(mdir'.segs) = Len(mdir.segs)
  /\ Merged(segs', mdir'.segs, load'.id) = Merged(segs, mdir.segs, load.id)
  /\ \A p \in Merged(segs, mdir.segs, load.id) :
       MergedAt(segs', mdir'.segs, load'.id, p) = MergedAt(segs, mdir.segs, load.id, p)

\* It is the same while nothing of the merge directory changes.
LEMMA MergedStays ==
  ASSUME Types, Types', load.id \in 0 .. 1, load'.id \in 0 .. 1,
         mdir'.segs = mdir.segs, mdir'.hint = mdir.hint, mdir'.hashint = mdir.hashint
  PROVE  MergedSame
<1>1. DOMAIN segs \subseteq Nat \ {0} /\ DOMAIN segs' \subseteq Nat \ {0}
      /\ DOMAIN mdir.segs \subseteq Nat \ {0}
  <2>1. DOMAIN mdir.segs = 1 .. Len(mdir.segs) /\ Len(mdir.segs) \in Nat
    BY DirSegsAre
  <2> QED BY <2>1, DiskvMergeAssumption DEF Types
<1>2. /\ Merged(segs, mdir.segs, load.id) = All(mdir.segs)
      /\ \A p \in All(mdir.segs) : MergedAt(segs, mdir.segs, load.id, p) = At(mdir.segs, p)
  BY <1>1, MergedHere
<1>3. /\ Merged(segs', mdir.segs, load'.id) = All(mdir.segs)
      /\ \A p \in All(mdir.segs) : MergedAt(segs', mdir.segs, load'.id, p) = At(mdir.segs, p)
  BY <1>1, MergedHere
<1> QED BY <1>2, <1>3 DEF MergedSame

\* The steps of a merge that reads, and the end of loadMergeFiles and of Open,
\* are those that change it.
LEMMA MergedStep ==
  ASSUME OnlyProcess, MergeInv, [Next]_vars
  PROVE  \/ \E m \in Merges : MergeOpen(m) \/ MergeRecord(m)
         \/ LoadFinish \/ Reopen
         \/ MergedSame
<1>0. Types /\ Types' /\ Progress
  BY TypesStep DEF MergeInv
<1>1. ASSUME db # "swapping", load' = load \/ load'.id \in 0 .. 1,
             mdir'.segs = mdir.segs, mdir'.hint = mdir.hint, mdir'.hashint = mdir.hashint
      PROVE  MergedSame
  <2>1. load.id = 0 /\ load'.id \in 0 .. 1
    BY <1>0, <1>1 DEF Progress, NoLoad
  <2> QED BY <1>0, <1>1, <2>1, MergedStays
<1>2. ASSUME NEW k \in Keys, NEW v \in Values \cup {Nil}, DbWrite(k, v) PROVE MergedSame
  BY <1>1, <1>2 DEF DbWrite
<1>3. ASSUME NEW m \in Merges,
             MergeNothing(m) \/ \E reopen \in BOOLEAN : MergeStart(m, reopen)
      PROVE  MergedSame
  BY <1>1, <1>3 DEF MergeNothing, MergeStart
<1>4. ASSUME NEW m \in Merges, MergeFinish(m) PROVE MergedSame
  <2>1. db # "swapping" /\ load' = load
    BY <1>4, ReadsAlone DEF MergeFinish, Busy
  <2>2. mdir'.segs = mdir.segs /\ mdir'.hint = mdir.hint /\ mdir'.hashint = mdir.hashint
    BY <1>0, <1>4 DEF MergeFinish, Types, Dirs
  <2> QED BY <1>1, <2>1, <2>2
<1>5. CASE OpenStart \/ \E m \in Merges : SwapStart(m)
  <2>1. db # "swapping" /\ load'.id = 1 /\ mdir' = mdir
    BY <1>5 DEF OpenStart, SwapStart
  <2> QED BY <1>1, <2>1
<1>6. CASE LoadSegment
  BY <1>6, MoveKeeps DEF MergedSame
<1>7. CASE Close \/ ProcessCrash
  <2>1. db = "open" /\ load' = NoLoad /\ mdir' = mdir
    BY <1>7, DiesOpen DEF Die
  <2>2. load'.id = 0
    BY <2>1 DEF NoLoad
  <2> QED BY <1>1, <2>1, <2>2
<1>8. CASE UNCHANGED vars
  BY <1>8 DEF vars, data, MergedSame
<1> QED BY <1>2, <1>3, <1>4, <1>5, <1>6, <1>7, <1>8, StepIs

\* When loadMergeFiles or Open ends there is no merge directory.
LEMMA LoadEnds ==
  ASSUME MergeInv, LoadFinish \/ Reopen
  PROVE  mdir' = NoDir /\ mdir'.fin = 0 /\ ~ mdir'.hashint /\ mdir'.hint = <<>>
         /\ \A m \in Merges : ~ Scans(m) /\ ~ Scans(m)'
<1>1. mdir' = NoDir
  BY DEF LoadFinish, Reopen, MergeInv, Progress
<1>2. \A m \in Merges : ~ Scans(m)
  BY DEF LoadFinish, Reopen, MergeInv, Control, Scans
<1>3. \A m \in Merges : merge'[m].pc \in {"idle", merge[m].pc}
  BY DEF LoadFinish, Reopen, Idle, MergeInv, Types, MergeStates
<1> QED BY <1>1, <1>2, <1>3 DEF NoDir, Scans

\* A merge directory that is complete stays so until it is moved.
LEMMA CompleteStep == OnlyProcess /\ MergeInv /\ [Next]_vars => Complete'
<1> SUFFICES ASSUME OnlyProcess, MergeInv, [Next]_vars PROVE Complete'
  OBVIOUS
<1>0. Types /\ Complete /\ DOMAIN segs \subseteq Nat /\ LogOf(segs) /\ mdir.fin \in Nat
      /\ fin \in Nat
  BY DEF MergeInv, Types, Dirs
<1>1. CASE mdir'.fin = 0
  BY <1>1 DEF Complete
<1>2. ASSUME mdir'.fin = mdir.fin, mdir.fin # 0, MergedSame,
             \A k \in Keys :
               /\ Told(segs, kv, mdir.fin, k) => Told(segs', kv', mdir.fin, k)
               /\ Told(segs, kv, mdir.fin, k) /\ Recs(segs', mdir.fin, k) = {} =>
                    Recs(segs, mdir.fin, k) = {} /\ kv'[k] = kv[k]
      PROVE  Complete'
  <2>1. ASSUME NEW k \in Keys
        PROVE  /\ Told(segs', kv', mdir.fin, k)
               /\ Recs(segs', mdir.fin, k) = {} =>
                    LET p == HintPos(mdir.hint, k) IN
                    IF kv'[k] = Nil THEN p = NoPos
                    ELSE /\ p \in Merged(segs', mdir'.segs, load'.id)
                         /\ MergedAt(segs', mdir'.segs, load'.id, p) =
                              [key |-> k, val |-> kv'[k]]
    <3>1. /\ Told(segs, kv, mdir.fin, k)
          /\ Recs(segs, mdir.fin, k) = {} =>
               LET p == HintPos(mdir.hint, k) IN
               IF kv[k] = Nil THEN p = NoPos
               ELSE /\ p \in Merged(segs, mdir.segs, load.id)
                    /\ MergedAt(segs, mdir.segs, load.id, p) = [key |-> k, val |-> kv[k]]
      BY <1>0, <1>2 DEF Complete
    <3>2. Told(segs', kv', mdir.fin, k)
      BY <1>2, <3>1
    <3>3. Recs(segs', mdir.fin, k) = {} => Recs(segs, mdir.fin, k) = {} /\ kv'[k] = kv[k]
      BY <1>2, <3>1
    <3> QED BY <1>2, <3>1, <3>2, <3>3 DEF MergedSame
  <2>2. mdir'.hint = mdir.hint /\ mdir'.hashint /\ mdir'.fin = mdir.fin
    BY <1>0, <1>2 DEF Complete, MergedSame
  <2> QED BY <2>1, <2>2 DEF Complete
<1>3. CASE UNCHANGED <<segs, kv>> /\ mdir'.fin = mdir.fin /\ mdir.fin # 0 /\ MergedSame
  BY <1>2, <1>3
<1>4. ASSUME NEW k \in Keys, NEW v \in Values \cup {Nil}, DbWrite(k, v), mdir'.fin # 0
      PROVE  Complete'
  <2>1. mdir' = mdir /\ load' = load /\ db = "open"
    BY <1>4 DEF DbWrite
  <2>2. MergedSame
    <3>1. load.id = 0
      BY <2>1 DEF MergeInv, Progress, NoLoad
    <3> QED BY <1>0, <2>1, <3>1, MergedStays, TypesStep
  <2>3. LastPos(segs').seg > mdir.fin
    BY <1>4, WriteAppends
  <2>4. ASSUME NEW j \in Keys, Told(segs, kv, mdir.fin, j)
        PROVE  /\ Told(segs', kv', mdir.fin, j)
               /\ Recs(segs', mdir.fin, j) = {} => Recs(segs, mdir.fin, j) = {} /\ kv'[j] = kv[j]
    BY <1>0, <1>4, <2>3, <2>4, WriteTold
  <2>5. mdir'.fin = mdir.fin /\ mdir.fin # 0
    BY <1>4, <2>1
  <2> QED BY <1>2, <2>2, <2>4, <2>5
<1>5. ASSUME NEW m \in Merges, NEW reopen \in BOOLEAN, MergeStart(m, reopen), mdir'.fin # 0
      PROVE  Complete'
  <2>1. mdir' = mdir /\ load' = load /\ kv' = kv /\ db = "open"
    BY <1>5 DEF MergeStart
  <2>2. MergedSame
    <3>1. load.id = 0
      BY <2>1 DEF MergeInv, Progress, NoLoad
    <3> QED BY <1>0, <2>1, <3>1, MergedStays, TypesStep
  <2>3. \A f, j : Recs(segs', f, j) = Recs(segs, f, j)
    BY <1>5, RotateKeeps
  <2>4. \A f, j, w : Told(segs, w, f, j) => Told(segs', w, f, j)
    BY <1>5, RotateKeeps
  <2> QED BY <1>2, <1>5, <2>1, <2>2, <2>3, <2>4
<1>6. ASSUME NEW m \in Merges, MergeNothing(m), mdir'.fin # 0 PROVE Complete'
  <2>1. UNCHANGED <<segs, kv, mdir, load>>
    BY <1>6 DEF MergeNothing, data
  <2> QED BY <1>3, <1>6, <2>1 DEF MergedSame
<1>7. ASSUME NEW m \in Merges, MergeOpen(m) PROVE Complete'
  BY <1>1, <1>7 DEF MergeOpen, NewDir
<1>8. ASSUME NEW m \in Merges, MergeRecord(m) PROVE Complete'
  <2>1. mdir.fin = 0
    BY <1>8 DEF MergeRecord, MergeInv, Scans, Copied
  <2>2. mdir' = mdir
        \/ mdir' = [mdir EXCEPT !.segs = Copy(m), !.hint =
                      Append(@, [key |-> At(segs, Point(m)).key, pos |-> LastPos(Copy(m))])]
    BY <1>8 DEF MergeRecord, Copy, Point
  <2>3. mdir'.fin = 0
    BY <1>0, <2>1, <2>2 DEF Types, Dirs
  <2> QED BY <1>1, <2>3
<1>9. ASSUME NEW m \in Merges, MergeFinish(m) PROVE Complete'
  <2>1. Busy(m) /\ Copied(m) /\ merge[m].todo = {} /\ UNCHANGED <<segs, kv, load, db>>
    BY <1>9 DEF MergeFinish, AtEnd, MergeInv, Scans, Busy, data
  <2>2. db = "open" /\ load.id = 0
    BY <2>1, ReadsAlone DEF NoLoad
  <2>3. fin < merge[m].prev /\ merge[m].prev \in Nat
    BY <1>0, <2>1 DEF MergeInv, ActivePast, Types, MergeStates
  <2>4. mdir' = [mdir EXCEPT !.exists = TRUE, !.fin = merge[m].prev]
    BY <1>9 DEF MergeFinish, FinRecord
  <2>5. mdir'.fin = merge[m].prev /\ mdir'.hint = mdir.hint /\ mdir'.segs = mdir.segs
        /\ mdir'.hashint
    BY <1>0, <2>1, <2>4 DEF Types, Dirs, Copied
  <2>6. /\ Merged(segs', mdir'.segs, load'.id) = All(mdir.segs)
        /\ \A p \in All(mdir.segs) :
             MergedAt(segs', mdir'.segs, load'.id, p) = At(mdir.segs, p)
    <3>1. DOMAIN segs \subseteq Nat \ {0} /\ DOMAIN mdir.segs \subseteq Nat \ {0}
      <4>1. DOMAIN mdir.segs = 1 .. Len(mdir.segs) /\ Len(mdir.segs) \in Nat
        BY <1>0, DirSegsAre
      <4> QED BY <1>0, <4>1, DiskvMergeAssumption DEF Types
    <3>2. /\ Merged(segs, mdir.segs, load.id) = All(mdir.segs)
          /\ \A p \in All(mdir.segs) : MergedAt(segs, mdir.segs, load.id, p) = At(mdir.segs, p)
      <4>1. load.id \in 0 .. 1
        BY <2>2
      <4> QED BY <3>1, <4>1, MergedHere
    <3> QED BY <2>1, <2>5, <3>2
  <2>7. ASSUME NEW k \in Keys
        PROVE  /\ Told(segs, kv, merge[m].prev, k)
               /\ Recs(segs, merge[m].prev, k) = {} => Answers(mdir.segs, kv, HintPos(mdir.hint, k), k)
    <3>1. Told(segs, kv, fin, k)
      BY <2>2 DEF MergeInv, Durable, Loading
    <3>2. Told(segs, kv, merge[m].prev, k)
      BY <1>0, <2>3, <3>1, ToldFurther
    <3> QED BY <2>1, <3>2 DEF Copied
  <2> HIDE DEF Merged, MergedAt
  <2>8. ASSUME NEW k \in Keys, Recs(segs, merge[m].prev, k) = {}
        PROVE  LET p == HintPos(mdir.hint, k) IN
               IF kv[k] = Nil THEN p = NoPos
               ELSE /\ p \in Merged(segs', mdir'.segs, load'.id)
                    /\ MergedAt(segs', mdir'.segs, load'.id, p) = [key |-> k, val |-> kv[k]]
    BY <2>6, <2>7, <2>8 DEF Answers
  <2> QED BY <2>1, <2>5, <2>7, <2>8 DEF Complete
<1>10. ASSUME OpenStart \/ \E m \in Merges : SwapStart(m), mdir'.fin # 0 PROVE Complete'
  <2>1. db # "swapping" /\ load'.id = 1 /\ UNCHANGED <<segs, kv, mdir>>
    BY <1>10 DEF OpenStart, SwapStart, data
  <2>2. MergedSame
    <3>1. load.id = 0
      BY <2>1 DEF MergeInv, Progress, NoLoad
    <3> QED BY <1>0, <2>1, <3>1, MergedStays, TypesStep
  <2> QED BY <1>3, <1>10, <2>1, <2>2
<1>11. CASE LoadSegment
  <2>1. MergedSame /\ mdir.fin # 0 /\ mdir'.fin = mdir.fin /\ kv' = kv
    BY <1>11, MoveKeeps DEF MergedSame, LoadSegment
  <2>2. \A k : Recs(segs', mdir.fin, k) = Recs(segs, mdir.fin, k)
    BY <1>11, MoveKeeps
  <2>3. \A k, w : Told(segs, w, mdir.fin, k) => Told(segs', w, mdir.fin, k)
    BY <1>11, MoveKeeps
  <2> QED BY <1>2, <2>1, <2>2, <2>3
<1>12. CASE LoadFinish \/ Reopen
  BY <1>1, <1>12, LoadEnds
<1>13. ASSUME Close \/ ProcessCrash, mdir'.fin # 0 PROVE Complete'
  <2>1. Die /\ db = "open"
    BY <1>13, DiesOpen
  <2>2. UNCHANGED <<segs, kv, mdir>> /\ load'.id = 0 /\ load.id = 0
    BY <2>1 DEF Die, data, NoLoad, MergeInv, Progress
  <2>3. MergedSame
    BY <1>0, <2>2, MergedStays, TypesStep
  <2> QED BY <1>3, <1>13, <2>2, <2>3
<1>14. CASE UNCHANGED vars
  BY <1>0, <1>14 DEF vars, data, Complete
<1> QED BY <1>1, <1>4, <1>5, <1>6, <1>7, <1>8, <1>9, <1>10, <1>11, <1>12, <1>13, <1>14, StepIs

\* A merge takes no more segments than it replaces.
LEMMA FitsStep == OnlyProcess /\ MergeInv /\ [Next]_vars => MergeFits'
<1> SUFFICES ASSUME OnlyProcess, MergeInv, [Next]_vars PROVE MergeFits'
  OBVIOUS
<1>0. Types /\ MergeFits
  BY DEF MergeInv
<1>1. CASE mdir' = mdir
  BY <1>0, <1>1 DEF MergeFits
<1>2. ASSUME NEW m \in Merges, MergeOpen(m) PROVE MergeFits'
  BY <1>2 DEF MergeOpen, NewDir, MergeFits
<1>3. ASSUME NEW m \in Merges, MergeRecord(m) PROVE MergeFits'
  <2>1. mdir.fin = 0
    BY <1>3 DEF MergeRecord, MergeInv, Scans, Copied
  <2>2. mdir' = mdir
        \/ mdir' = [mdir EXCEPT !.segs = Copy(m), !.hint =
                      Append(@, [key |-> At(segs, Point(m)).key, pos |-> LastPos(Copy(m))])]
    BY <1>3 DEF MergeRecord, Copy, Point
  <2>3. mdir'.fin = 0
    BY <1>0, <2>1, <2>2 DEF Types, Dirs
  <2> QED BY <2>3 DEF MergeFits
<1>4. ASSUME NEW m \in Merges, MergeFinish(m) PROVE MergeFits'
  <2>1. Len(mdir.segs) <= merge[m].prev
    BY <1>4 DEF MergeFinish, MergeInv, Scans, Copied
  <2>2. mdir' = [mdir EXCEPT !.exists = TRUE, !.fin = merge[m].prev]
    BY <1>4 DEF MergeFinish, FinRecord
  <2>3. mdir'.fin = merge[m].prev /\ mdir'.segs = mdir.segs
    BY <1>0, <2>2 DEF Types, Dirs
  <2> QED BY <2>1, <2>3 DEF MergeFits
<1>5. CASE LoadSegment
  <2>1. mdir'.fin = mdir.fin /\ Len(mdir'.segs) = Len(mdir.segs)
    BY <1>5, MoveKeeps
  <2> QED BY <1>0, <2>1 DEF MergeFits
<1>6. CASE LoadFinish
  BY <1>6 DEF LoadFinish, NoDir, MergeFits
<1>7. CASE Close \/ ProcessCrash
  BY <1>1, <1>7, DiesOpen DEF Die
<1>8. ASSUME NEW m \in Merges,
             \/ MergeNothing(m) \/ SwapStart(m)
             \/ \E reopen \in BOOLEAN : MergeStart(m, reopen)
      PROVE  MergeFits'
  BY <1>1, <1>8 DEF MergeNothing, SwapStart, MergeStart
<1>9. CASE OpenStart \/ Reopen \/ UNCHANGED vars
  BY <1>1, <1>9 DEF OpenStart, Reopen, vars
<1>10. ASSUME NEW k \in Keys, NEW v \in Values \cup {Nil}, DbWrite(k, v) PROVE MergeFits'
  BY <1>1, <1>10 DEF DbWrite
<1> QED BY <1>2, <1>3, <1>4, <1>5, <1>6, <1>7, <1>8, <1>9, <1>10, StepIs

\* What an interrupted merge leaves names no key that the log does not have.
LEMMA IncompleteStep == OnlyProcess /\ MergeInv /\ [Next]_vars => Incomplete'
<1> SUFFICES ASSUME OnlyProcess, MergeInv, [Next]_vars PROVE Incomplete'
  OBVIOUS
<1>0. Types /\ Incomplete /\ merge \in [Merges -> MergeStates]
  BY DEF MergeInv, Types
<1>1. ASSUME mdir' = mdir, fin' = fin,
             mdir.fin = 0 =>
               \A p \in All(segs) : p \in All(segs') /\ At(segs', p) = At(segs, p),
             fin # 0 => \A m \in Merges : Scans(m) => Scans(m)'
      PROVE  Incomplete'
  <2>1. SUFFICES ASSUME mdir'.fin = 0
        PROVE  /\ \A i \in DOMAIN mdir'.hint :
                    \E p \in All(segs') : At(segs', p).key = mdir'.hint[i].key
               /\ fin' # 0 /\ mdir'.hashint => \E m \in Merges : Scans(m)'
    BY DEF Incomplete
  <2>2. mdir.fin = 0
    BY <1>1, <2>1
  <2>3. ASSUME NEW i \in DOMAIN mdir.hint
        PROVE  \E p \in All(segs') : At(segs', p).key = mdir.hint[i].key
    <3>1. PICK p \in All(segs) : At(segs, p).key = mdir.hint[i].key
      BY <1>0, <2>2 DEF Incomplete
    <3> QED BY <1>1, <2>2, <3>1
  <2>4. fin # 0 /\ mdir.hashint => \E m \in Merges : Scans(m)'
    BY <1>0, <1>1, <2>2 DEF Incomplete
  <2> QED BY <1>1, <2>3, <2>4
<1>2. ASSUME NEW k \in Keys, NEW v \in Values \cup {Nil}, DbWrite(k, v) PROVE Incomplete'
  <2>1. Grown(segs, segs', [key |-> k, val |-> v], LastPos(segs'))
    BY <1>2, WriteAppends
  <2>2. mdir' = mdir /\ fin' = fin /\ merge' = merge
    BY <1>2 DEF DbWrite
  <2> QED BY <1>1, <2>1, <2>2 DEF Grown, Scans
<1>3. ASSUME NEW m \in Merges, NEW reopen \in BOOLEAN, MergeStart(m, reopen) PROVE Incomplete'
  <2>1. \A o \in Merges : ~ Scans(o)
    BY <1>3, BeginsAlone DEF Scans
  <2>2. All(segs') = All(segs) /\ \A p : p \in All(segs) => At(segs', p) = At(segs, p)
    BY <1>3, RotateKeeps
  <2>3. mdir' = mdir /\ fin' = fin
    BY <1>3 DEF MergeStart
  <2> QED BY <1>1, <2>1, <2>2, <2>3
<1>4. ASSUME NEW m \in Merges, MergeNothing(m) PROVE Incomplete'
  <2>1. \A o \in Merges : ~ Scans(o)
    BY <1>4, BeginsAlone DEF Scans
  <2> QED BY <1>1, <1>4, <2>1 DEF MergeNothing, data
<1>5. ASSUME NEW m \in Merges, MergeOpen(m) PROVE Incomplete'
  <2>1. mdir' = NewDir /\ Scans(m)'
    BY <1>0, <1>5 DEF MergeOpen, Scans, MergeStates
  <2>2. mdir'.hint = <<>> /\ DOMAIN mdir'.hint = {}
    BY <2>1 DEF NewDir
  <2> QED BY <2>1, <2>2 DEF Incomplete
<1>6. ASSUME NEW m \in Merges, MergeRecord(m) PROVE Incomplete'
  <2>1. Scans(m)' /\ UNCHANGED <<segs, fin>> /\ mdir.fin = 0
    BY <1>0, <1>6 DEF MergeRecord, Scans, data, MergeStates, MergeInv, Copied
  <2>2. \A i \in DOMAIN mdir.hint : \E p \in All(segs) : At(segs, p).key = mdir.hint[i].key
    BY <1>0, <2>1 DEF Incomplete
  <2>3. CASE mdir' = mdir
    BY <2>1, <2>2, <2>3 DEF Incomplete
  <2>4. CASE mdir' = [mdir EXCEPT !.segs = Copy(m), !.hint =
                      Append(@, [key |-> At(segs, Point(m)).key, pos |-> LastPos(Copy(m))])]
    <3> DEFINE e == [key |-> At(segs, Point(m)).key, pos |-> LastPos(Copy(m))]
    <3>1. At(segs, Point(m)) \in Record /\ Point(m) \in All(segs) /\ LastPos(Copy(m)) \in Position
      BY <1>6, CopyFits
    <3>2. e \in HintRecord /\ e.key = At(segs, Point(m)).key
      BY <3>1 DEF HintRecord, Record
    <3> HIDE DEF e
    <3>3. /\ Append(mdir.hint, e) \in Seq(HintRecord)
          /\ Len(Append(mdir.hint, e)) = Len(mdir.hint) + 1
          /\ \A i \in 1 .. Len(mdir.hint) : Append(mdir.hint, e)[i] = mdir.hint[i]
          /\ Append(mdir.hint, e)[Len(mdir.hint) + 1] = e
          /\ Len(mdir.hint) \in Nat /\ DOMAIN mdir.hint = 1 .. Len(mdir.hint)
      <4>1. mdir.hint \in Seq(HintRecord)
        BY <1>0, DirSegsAre
      <4>2. Len(mdir.hint) \in Nat /\ DOMAIN mdir.hint = 1 .. Len(mdir.hint)
        BY <4>1, LenProperties
      <4> QED BY <3>2, <4>1, <4>2, AppendProperties
    <3>4. DOMAIN Append(mdir.hint, e) = 1 .. Len(mdir.hint) + 1
      BY <3>3, LenProperties
    <3>5. mdir'.hint = Append(mdir.hint, e)
      BY <1>0, <2>4 DEF Types, Dirs, e
    <3>6. \A i \in DOMAIN mdir'.hint : \E p \in All(segs) : At(segs, p).key = mdir'.hint[i].key
      <4>1. ASSUME NEW i \in 1 .. Len(mdir.hint) + 1
            PROVE  \E p \in All(segs) : At(segs, p).key = Append(mdir.hint, e)[i].key
        <5>1. CASE i \in 1 .. Len(mdir.hint)
          BY <2>2, <3>3, <5>1
        <5>2. CASE i = Len(mdir.hint) + 1
          BY <3>1, <3>2, <3>3, <5>2
        <5> QED BY <3>3, <5>1, <5>2
      <4> QED BY <3>4, <3>5, <4>1
    <3> QED BY <2>1, <3>6 DEF Incomplete
  <2> QED BY <1>6, <2>3, <2>4 DEF MergeRecord, Copy, Point
<1>7. ASSUME NEW m \in Merges, MergeFinish(m) PROVE Incomplete'
  <2>1. mdir' = [mdir EXCEPT !.exists = TRUE, !.fin = merge[m].prev] /\ Busy(m)
    BY <1>7 DEF MergeFinish, FinRecord, Busy
  <2>2. mdir'.fin = merge[m].prev /\ merge[m].prev \in DOMAIN segs
    BY <1>0, <2>1 DEF Types, Dirs, MergeInv, ActivePast
  <2>3. mdir'.fin # 0
    BY <1>0, <2>2, DiskvMergeAssumption DEF Types
  <2> QED BY <2>3 DEF Incomplete
<1>8. CASE OpenStart \/ \E m \in Merges : SwapStart(m)
  <2>1. merge' = merge
    <3>1. CASE OpenStart
      BY <3>1 DEF OpenStart
    <3>2. ASSUME NEW m \in Merges, SwapStart(m) PROVE merge' = merge
      BY <1>0, <3>2, SwapsAlone, NoneClosed DEF SwapStart
    <3> QED BY <1>8, <3>1, <3>2
  <2> QED BY <1>1, <1>8, <2>1 DEF OpenStart, SwapStart, data, Scans
<1>9. CASE LoadSegment
  BY <1>9, MoveKeeps DEF Incomplete
<1>10. CASE LoadFinish \/ Reopen
  <2>1. ~ mdir'.hashint /\ mdir'.hint = <<>>
    BY <1>10, LoadEnds
  <2>2. DOMAIN <<>> = {}
    OBVIOUS
  <2> QED BY <2>1, <2>2 DEF Incomplete
<1>11. CASE Close \/ ProcessCrash
  <2>1. Die /\ (fin # 0 => \A m \in Merges : ~ Scans(m))
    BY <1>11, DiesOpen
  <2> QED BY <1>1, <2>1 DEF Die, data
<1>12. CASE UNCHANGED vars
  BY <1>1, <1>12 DEF vars, data, Scans
<1> QED BY <1>2, <1>3, <1>4, <1>5, <1>6, <1>7, <1>8, <1>9, <1>10, <1>11, <1>12, StepIs

\* The segments up to f.
LEMMA OldAre ==
  ASSUME NEW sg, NEW f, NEW p
  PROVE  p \in Positions(sg, {s \in DOMAIN sg : s <= f}) <=> p \in All(sg) /\ p.seg <= f
BY DEF All, Positions, Pos

\* No key has two records among the merged ones.
LEMMA ApartStep == OnlyProcess /\ MergeInv /\ [Next]_vars => MergedApart'
<1> SUFFICES ASSUME OnlyProcess, MergeInv, [Next]_vars PROVE MergedApart'
  OBVIOUS
<1> DEFINE Old(sg, f) == Positions(sg, {s \in DOMAIN sg : s <= f})
           Once(sg, f) == \A p, q \in Old(sg, f) :
             At(sg, p).val # Nil /\ (At(sg, p).key = At(sg, q).key => p = q)
           Both(sg, ms, id) == \A p, q \in Merged(sg, ms, id) :
             LET r == MergedAt(sg, ms, id, p)
                 o == MergedAt(sg, ms, id, q)
             IN  r.val # Nil /\ (r.key = o.key => p = q)
<1>0. /\ Types /\ DOMAIN segs \subseteq Nat /\ fin \in Nat /\ mdir.fin \in Nat
      /\ merge \in [Merges -> MergeStates] /\ LogOf(segs)
  BY DEF MergeInv, Types, Dirs
<1>1. ~ Loading => Once(segs, fin)
  BY DEF MergeInv, MergedApart
<1>2. mdir.fin # 0 \/ (\E m \in Merges : Scans(m)) => Both(segs, mdir.segs, load.id)
  BY DEF MergeInv, MergedApart
<1>3. SUFFICES /\ ~ Loading' => Once(segs', fin')
               /\ mdir'.fin # 0 \/ (\E m \in Merges : Scans(m)') =>
                    Both(segs', mdir'.segs, load'.id)
  BY DEF MergedApart
<1> HIDE DEF Once, Both, Old
\* Part one: the data directory.
<1>4. ~ Loading' => Once(segs', fin')
  <2>1. ASSUME UNCHANGED <<segs, fin>>, Loading => Loading'
        PROVE  ~ Loading' => Once(segs', fin')
    BY <1>1, <2>1
  <2>2. ASSUME NEW k \in Keys, NEW v \in Values \cup {Nil}, DbWrite(k, v)
        PROVE  Once(segs', fin')
    <3>1. LastPos(segs').seg > fin /\ Grown(segs, segs', [key |-> k, val |-> v], LastPos(segs'))
          /\ LastPos(segs') \in Points
      BY <2>2, WriteAppends
    <3>2. ~ Loading /\ fin' = fin
      BY <2>2 DEF DbWrite, Loading
    <3>3. ASSUME NEW p \in Old(segs', fin)
          PROVE  p \in Old(segs, fin) /\ At(segs', p) = At(segs, p)
      <4>1. p \in All(segs') /\ p.seg <= fin
        BY OldAre DEF Old
      <4>2. p # LastPos(segs')
        BY <1>0, <3>1, <4>1 DEF Points
      <4>3. p \in All(segs)
        BY <3>1, <4>1, <4>2 DEF Grown
      <4> QED BY <3>1, <4>1, <4>3, OldAre DEF Grown, Old
    <3> QED BY <1>1, <3>2, <3>3 DEF Once
  <2>3. ASSUME NEW m \in Merges, NEW reopen \in BOOLEAN, MergeStart(m, reopen)
        PROVE  Once(segs', fin')
    <3>1. All(segs') = All(segs) /\ \A p : p \in All(segs) => At(segs', p) = At(segs, p)
      BY <2>3, RotateKeeps
    <3>2. ~ Loading /\ fin' = fin
      BY <2>3 DEF MergeStart, Loading
    <3>3. ASSUME NEW p \in Old(segs', fin)
          PROVE  p \in Old(segs, fin) /\ At(segs', p) = At(segs, p)
      BY <3>1, OldAre DEF Old
    <3> QED BY <1>1, <3>2, <3>3 DEF Once
  <2>4. ASSUME NEW m \in Merges,
               MergeNothing(m) \/ MergeOpen(m) \/ MergeRecord(m) \/ MergeFinish(m)
        PROVE  ~ Loading' => Once(segs', fin')
    <3>1. db = "open" /\ UNCHANGED <<segs, fin>>
      BY <2>4, ReadsAlone DEF MergeNothing, MergeOpen, MergeRecord, MergeFinish, data, Busy
    <3> QED BY <2>1, <3>1 DEF Loading
  <2>5. ASSUME OpenStart \/ \E m \in Merges : SwapStart(m)
        PROVE  ~ Loading' => Once(segs', fin')
    <3>1. db # "swapping" /\ UNCHANGED <<segs, fin>>
      BY <2>5 DEF OpenStart, SwapStart, data
    <3> QED BY <2>1, <3>1 DEF Loading
  <2>6. ASSUME LoadSegment PROVE Loading'
    BY <2>6, MoveKeeps DEF LoadSegment, Loading
  <2>7. ASSUME LoadFinish PROVE Once(segs', fin')
    <3>1. /\ db = "swapping" /\ load.id = load.fin + 1 /\ segs' = segs
          /\ fin' = IF mdir.fin # 0 THEN mdir.fin ELSE fin
      BY <2>7 DEF LoadFinish
    <3>2. load.fin = mdir.fin
      BY <1>0, <3>1 DEF MergeInv, Progress, Types, Loads
    <3>3. CASE mdir.fin = 0
      BY <1>1, <3>1, <3>3 DEF Loading
    <3>4. CASE mdir.fin # 0
      <4>1. Both(segs, mdir.segs, load.id) /\ fin' = mdir.fin
        BY <1>2, <3>1, <3>4
      <4>2. ASSUME NEW p \in Old(segs, mdir.fin)
            PROVE  /\ p \in Merged(segs, mdir.segs, load.id)
                   /\ MergedAt(segs, mdir.segs, load.id, p) = At(segs, p)
        <5>1. p \in All(segs) /\ p.seg <= mdir.fin
          BY OldAre DEF Old
        <5>2. p.seg \in Nat
          BY <1>0, <5>1, PositionIs DEF All
        <5>3. p.seg < load.id
          BY <1>0, <3>1, <3>2, <5>1, <5>2
        <5> QED BY <5>1, <5>3 DEF Merged, MergedAt
      <4> QED BY <3>1, <4>1, <4>2 DEF Once, Both
    <3> QED BY <3>3, <3>4
  <2>8. ASSUME Reopen PROVE ~ Loading' => Once(segs', fin')
    <3>1. segs' = segs /\ fin' = fin
      BY <2>8, SegsAre DEF Reopen
    <3>2. mdir.fin = 0
      BY <2>8 DEF Reopen, MergeInv, Progress, NoDir
    <3> QED BY <2>1, <3>1, <3>2 DEF Loading
  <2>9. ASSUME Close \/ ProcessCrash PROVE ~ Loading' => Once(segs', fin')
    <3>1. Die /\ db = "open"
      BY <2>9, DiesOpen
    <3> QED BY <2>1, <3>1 DEF Die, data, Loading
  <2>10. ASSUME UNCHANGED vars PROVE ~ Loading' => Once(segs', fin')
    BY <2>1, <2>10 DEF vars, data, Loading
  <2> QED BY <2>2, <2>3, <2>4, <2>5, <2>6, <2>7, <2>8, <2>9, <2>10, StepIs
\* Part two: the merged log.
<1>5. mdir'.fin # 0 \/ (\E m \in Merges : Scans(m)') => Both(segs', mdir'.segs, load'.id)
  <2>1. ASSUME NEW m \in Merges, MergeOpen(m) PROVE Both(segs', mdir'.segs, load'.id)
    <3>1. mdir'.segs = <<<<>>>> /\ segs' = segs /\ load' = load
      BY <2>1 DEF MergeOpen, NewDir, data
    <3>2. All(mdir'.segs) = {}
      <4>1. DOMAIN <<<<>>>> = {1} /\ <<<<>>>>[1] = <<>> /\ DOMAIN <<>> = {}
        OBVIOUS
      <4>2. SUFFICES ASSUME NEW p \in All(mdir'.segs) PROVE FALSE
        OBVIOUS
      <4>3. p.seg \in DOMAIN mdir'.segs /\ p.n \in DOMAIN mdir'.segs[p.seg]
        BY PositionIs DEF All
      <4> QED BY <3>1, <4>1, <4>3
    <3>3. load'.id = 0
      BY <2>1, <3>1, ReadsAlone DEF MergeOpen, Busy, NoLoad
    <3>4. \A p \in All(segs') : p.seg \in Nat
      BY <1>0, <3>1, PositionIs DEF All
    <3>5. Merged(segs', mdir'.segs, load'.id) = {}
      BY <3>2, <3>3, <3>4 DEF Merged
    <3> QED BY <3>5 DEF Both
  <2>2. CASE mdir'.fin # 0 \/ (\E m \in Merges : Scans(m)') =>
               mdir.fin # 0 \/ (\E m \in Merges : Scans(m))
    <3>1. ASSUME MergedSame
          PROVE  mdir'.fin # 0 \/ (\E m \in Merges : Scans(m)') =>
                   Both(segs', mdir'.segs, load'.id)
      BY <1>2, <2>2, <3>1 DEF MergedSame, Both
    <3>2. ASSUME LoadFinish \/ Reopen
          PROVE  mdir'.fin = 0 /\ \A m \in Merges : ~ Scans(m)'
      BY <3>2, LoadEnds
    <3>3. ASSUME NEW m \in Merges, MergeRecord(m) PROVE Both(segs', mdir'.segs, load'.id)
      <4>1. Busy(m) /\ Scans(m) /\ segs' = segs /\ load' = load
        BY <3>3 DEF MergeRecord, Busy, Scans, data
      <4>2. load.id = 0 /\ Copied(m) /\ Both(segs, mdir.segs, load.id)
        BY <1>2, <4>1, ReadsAlone DEF NoLoad, MergeInv
      <4>3. CASE mdir' = mdir
        BY <4>1, <4>2, <4>3
      <4>4. CASE /\ IsLive(At(segs, Point(m)), Point(m))
                 /\ mdir' = [mdir EXCEPT !.segs = Copy(m), !.hint =
                      Append(@, [key |-> At(segs, Point(m)).key, pos |-> LastPos(Copy(m))])]
        <5> DEFINE r == At(segs, Point(m))
                   l == LastPos(Copy(m))
        <5>1. mdir'.segs = Copy(m)
          BY <1>0, <4>4 DEF Types, Dirs
        <5>2. /\ Point(m) \in merge[m].todo /\ Grown(mdir.segs, Copy(m), r, l)
              /\ Copy(m) \in Seq(Seq(Record))
          BY <3>3, CopyFits
        <5>3. DOMAIN segs \subseteq Nat \ {0} /\ DOMAIN mdir.segs \subseteq Nat \ {0}
              /\ DOMAIN Copy(m) \subseteq Nat \ {0}
          <6>1. DOMAIN mdir.segs = 1 .. Len(mdir.segs) /\ Len(mdir.segs) \in Nat
            BY <1>0, DirSegsAre
          <6>2. DOMAIN Copy(m) = 1 .. Len(Copy(m)) /\ Len(Copy(m)) \in Nat
            BY <5>2, LenProperties
          <6> QED BY <1>0, <6>1, <6>2, DiskvMergeAssumption DEF Types
        <5> HIDE DEF r, l
        <5>4. load.id \in 0 .. 1
          BY <4>2
        <5>5. /\ Merged(segs, mdir.segs, load.id) = All(mdir.segs)
              /\ \A p \in All(mdir.segs) : MergedAt(segs, mdir.segs, load.id, p) = At(mdir.segs, p)
          BY <5>3, <5>4, MergedHere
        <5>6. /\ Merged(segs, Copy(m), load.id) = All(Copy(m))
              /\ \A p \in All(Copy(m)) : MergedAt(segs, Copy(m), load.id, p) = At(Copy(m), p)
          BY <5>3, <5>4, MergedHere
        <5>7. \A p, q \in All(mdir.segs) :
                /\ At(mdir.segs, p).val # Nil
                /\ At(mdir.segs, p).key = At(mdir.segs, q).key => p = q
          BY <4>2, <5>5 DEF Both
        <5>8. r.val # Nil /\ index[r.key] \in merge[m].todo
          BY <4>4, <5>2 DEF IsLive, r
        <5>9. \A p \in All(mdir.segs) : At(mdir.segs, p).key # r.key
          BY <4>2, <5>8 DEF Copied
        <5>10. ASSUME NEW p \in All(Copy(m)), NEW q \in All(Copy(m))
               PROVE  /\ At(Copy(m), p).val # Nil
                      /\ At(Copy(m), p).key = At(Copy(m), q).key => p = q
          <6>1. p \in All(mdir.segs) \/ p = l
            BY <5>2 DEF Grown
          <6>2. q \in All(mdir.segs) \/ q = l
            BY <5>2 DEF Grown
          <6>3. p = l => At(Copy(m), p) = r
            BY <5>2 DEF Grown
          <6>4. q = l => At(Copy(m), q) = r
            BY <5>2 DEF Grown
          <6>5. p \in All(mdir.segs) => At(Copy(m), p) = At(mdir.segs, p)
            BY <5>2 DEF Grown
          <6>6. q \in All(mdir.segs) => At(Copy(m), q) = At(mdir.segs, q)
            BY <5>2 DEF Grown
          <6> QED BY <5>7, <5>8, <5>9, <6>1, <6>2, <6>3, <6>4, <6>5, <6>6
        <5> QED BY <4>1, <5>1, <5>6, <5>10 DEF Both
      <4> QED BY <3>3, <4>3, <4>4 DEF MergeRecord, Copy, Point
    <3> QED BY <2>1, <3>1, <3>2, <3>3, MergedStep
  <2>3. CASE ~ (\E m \in Merges : MergeOpen(m))
    <3>1. ASSUME mdir'.fin = mdir.fin, \A m \in Merges : Scans(m)' => Scans(m)
          PROVE  mdir'.fin # 0 \/ (\E m \in Merges : Scans(m)') =>
                   mdir.fin # 0 \/ (\E m \in Merges : Scans(m))
      BY <3>1
    <3>2. ASSUME NEW m \in Merges, MergeRecord(m) \/ MergeFinish(m) PROVE Scans(m)
      BY <3>2 DEF MergeRecord, MergeFinish, Scans
    <3>3. ASSUME NEW m \in Merges,
                 MergeNothing(m) \/ \E reopen \in BOOLEAN : MergeStart(m, reopen)
          PROVE  mdir'.fin = mdir.fin /\ \A o \in Merges : Scans(o)' => Scans(o)
      <4>1. \A o \in Merges : merge'[o].pc \in {merge[o].pc, "open", "swap"}
        BY <1>0, <3>3 DEF MergeNothing, MergeStart, Idle
      <4> QED BY <3>3, <4>1 DEF MergeNothing, MergeStart, Scans
    <3>4. ASSUME OpenStart \/ \E m \in Merges : SwapStart(m)
          PROVE  mdir'.fin = mdir.fin /\ \A o \in Merges : Scans(o)' => Scans(o)
      <4>1. merge' = merge
        <5>1. CASE OpenStart
          BY <5>1 DEF OpenStart
        <5>2. ASSUME NEW m \in Merges, SwapStart(m) PROVE merge' = merge
          BY <1>0, <5>2, SwapsAlone, NoneClosed DEF SwapStart
        <5> QED BY <3>4, <5>1, <5>2
      <4> QED BY <3>4, <4>1 DEF OpenStart, SwapStart, Scans
    <3>5. ASSUME LoadFinish \/ Reopen
          PROVE  mdir'.fin = 0 /\ \A m \in Merges : ~ Scans(m)'
      BY <3>5, LoadEnds
    <3>6. ASSUME LoadSegment PROVE mdir.fin # 0
      BY <3>6, MoveKeeps
    <3>7. ASSUME Close \/ ProcessCrash
          PROVE  mdir'.fin = mdir.fin /\ \A o \in Merges : Scans(o)' => Scans(o)
      <4>1. Die /\ \A o \in Merges : merge'[o].pc = "idle"
        BY <3>7, DiesOpen
      <4> QED BY <4>1 DEF Die, Scans
    <3>8. ASSUME NEW k \in Keys, NEW v \in Values \cup {Nil}, DbWrite(k, v)
          PROVE  mdir'.fin = mdir.fin /\ \A o \in Merges : Scans(o)' => Scans(o)
      BY <3>8 DEF DbWrite, Scans
    <3>9. ASSUME UNCHANGED vars
          PROVE  mdir'.fin = mdir.fin /\ \A o \in Merges : Scans(o)' => Scans(o)
      BY <3>9 DEF vars, Scans
    <3>10. mdir'.fin # 0 \/ (\E m \in Merges : Scans(m)') =>
             mdir.fin # 0 \/ (\E m \in Merges : Scans(m))
      BY <2>3, <3>1, <3>2, <3>3, <3>4, <3>5, <3>6, <3>7, <3>8, <3>9, StepIs
    <3> QED BY <2>2, <3>10
  <2> QED BY <2>1, <2>3
<1> QED BY <1>4, <1>5

-----------------------------------------------------------------------------
(* What a merge copies *)

\* Clients write while a merge reads: what they write is past the segments that
\* are merged.
LEMMA WriteKeepsCopied ==
  ASSUME MergeInv, NEW k \in Keys, NEW v \in Values \cup {Nil}, DbWrite(k, v),
         NEW m \in Merges, Scans(m)
  PROVE  Copied(m)'
<1> DEFINE prev == merge[m].prev
           todo == merge[m].todo
           l    == LastPos(segs')
<1>0. /\ Types /\ DOMAIN segs \subseteq Nat /\ LogOf(segs) /\ prev \in Nat /\ fin \in Nat
      /\ prev + 1 \in DOMAIN segs /\ fin < prev /\ Busy(m) /\ Copied(m)
      /\ DOMAIN mdir.segs \subseteq Nat /\ LogOf(mdir.segs)
  <2>1. Busy(m) /\ Copied(m) /\ Types
    BY DEF MergeInv, Busy, Scans
  <2>2. prev + 1 \in DOMAIN segs /\ fin < prev
    BY <2>1 DEF MergeInv, ActivePast
  <2> QED BY <2>1, <2>2, DirSegsAre DEF Types, MergeStates
<1>1. UNCHANGED <<fin, mdir, merge>> /\ db = "open"
      /\ index' = [index EXCEPT ![k] = IF v = Nil THEN NoPos ELSE l]
  BY DEF DbWrite
<1>2. l.seg > prev /\ Grown(segs, segs', [key |-> k, val |-> v], l) /\ l \in Points
  <2>1. l.seg >= Active(segs) /\ Grown(segs, segs', [key |-> k, val |-> v], l) /\ l \in Points
    BY WriteAppends
  <2>2. Active(segs) >= prev + 1 /\ Active(segs) \in Nat
    BY <1>0, SegsAre
  <2> QED BY <1>0, <2>1, <2>2 DEF Points
<1> HIDE DEF l
<1>3. \A q \in todo : q \in All(segs) /\ q.seg <= prev /\ q.seg \in DOMAIN segs
  <2>1. todo \subseteq Positions(segs, {s \in DOMAIN segs : s <= prev})
    BY <1>0 DEF Copied
  <2>2. \A q \in All(segs) : q.seg \in DOMAIN segs
    BY PositionIs DEF All
  <2> QED BY <2>1, <2>2, OldAre
<1>4. todo \subseteq Positions(segs', {s \in DOMAIN segs' : s <= prev})
  BY <1>2, <1>3, OldAre DEF Grown
<1>5. ASSUME NEW p \in All(mdir.segs) PROVE index'[At(mdir.segs, p).key] \notin todo
  <2>1. At(mdir.segs, p).key \in Keys
    BY <1>0, RecordAt DEF All, Record
  <2>2. index[At(mdir.segs, p).key] \notin todo
    BY <1>0 DEF Copied
  <2>3. CASE At(mdir.segs, p).key = k
    <3>1. l \notin todo
      BY <1>0, <1>2, <1>3 DEF Points
    <3>2. NoPos \notin todo
      <4>1. NoPos.seg = 0 /\ 0 \notin DOMAIN segs
        BY <1>0, DiskvMergeAssumption DEF NoPos, Pos, Types
      <4> QED BY <1>3, <4>1
    <3> QED BY <1>0, <1>1, <2>1, <2>3, <3>1, <3>2 DEF Types
  <2>4. CASE At(mdir.segs, p).key # k
    BY <1>0, <1>1, <2>1, <2>2, <2>4 DEF Types
  <2> QED BY <2>3, <2>4
<1>6. ASSUME NEW j \in Keys, Recs(segs', prev, j) = {}
      PROVE  index'[j] \in todo \/ Answers(mdir.segs, kv', HintPos(mdir.hint, j), j)
  <2>1. Told(segs, kv, fin, j)
    BY <1>1 DEF MergeInv, Durable, Loading
  <2>2. Told(segs, kv, prev, j)
    BY <1>0, <2>1, ToldFurther
  <2>3. Recs(segs, prev, j) = {} /\ j # k
    BY <1>0, <1>2, <1>6, <2>2, WriteTold DEF l
  <2>4. kv'[j] = kv[j] /\ index'[j] = index[j]
    BY <1>0, <1>2, <2>2, <2>3, WriteTold DEF l
  <2>5. index[j] \in todo \/ Answers(mdir.segs, kv, HintPos(mdir.hint, j), j)
    BY <1>0, <2>3 DEF Copied
  <2> QED BY <2>4, <2>5 DEF Answers
<1>7. mdir' = mdir /\ merge'[m].prev = prev /\ merge'[m].todo = todo
  BY <1>1
<1> HIDE DEF prev, todo
<1> QED BY <1>0, <1>4, <1>5, <1>6, <1>7 DEF Copied, prev, todo

\* A merge directory is opened with nothing in it, and everything is to be read.
LEMMA OpenCopied ==
  ASSUME MergeInv, NEW m \in Merges, MergeOpen(m)
  PROVE  Copied(m)'
<1> DEFINE prev == merge[m].prev
           S    == {s \in DOMAIN segs : s <= prev}
<1>0. /\ Types /\ DOMAIN segs \subseteq Nat /\ LogOf(segs) /\ prev \in Nat /\ prev >= 1
      /\ Busy(m) /\ merge[m].files = "open" /\ MaxSegs \in Nat /\ db = "open"
  <2>1. Busy(m) /\ Types
    BY DEF MergeOpen, Busy, MergeInv
  <2>2. prev \in DOMAIN segs
    BY <2>1 DEF MergeInv, ActivePast
  <2> QED BY <2>1, <2>2, ReadsAlone, DiskvMergeAssumption DEF Types, MergeStates
<1>1. /\ mdir' = NewDir /\ UNCHANGED <<segs, fin, kv, index>>
      /\ merge'[m].prev = prev /\ merge'[m].todo = Positions(segs, S)
  BY <1>0 DEF MergeOpen, data, Types, MergeStates
<1>2. /\ mdir'.fin = 0 /\ mdir'.hashint /\ mdir'.segs = <<<<>>>> /\ mdir'.hint = <<>>
  BY <1>1 DEF NewDir
<1>3. mdir'.segs # <<>> /\ Len(mdir'.segs) = 1 /\ LastPos(mdir'.segs) = Pos(1, 0)
  <2>1. DOMAIN <<<<>>>> = {1} /\ <<<<>>>>[1] = <<>> /\ Len(<<>>) = 0 /\ Len(<<<<>>>>) = 1
        /\ <<<<>>>> # <<>>
    OBVIOUS
  <2>2. {1} \in SUBSET Nat /\ \A s \in {1} : s <= 1
    OBVIOUS
  <2>3. Max({1}) = 1
    BY <2>2, MaxIs
  <2> QED BY <1>2, <2>1, <2>3 DEF LastPos, Active
<1>4. All(mdir'.segs) = {}
  <2>1. DOMAIN <<<<>>>> = {1} /\ <<<<>>>>[1] = <<>> /\ DOMAIN <<>> = {}
    OBVIOUS
  <2>2. SUFFICES ASSUME NEW p \in All(mdir'.segs) PROVE FALSE
    OBVIOUS
  <2>3. p.seg \in DOMAIN mdir'.segs /\ p.n \in DOMAIN mdir'.segs[p.seg]
    BY PositionIs DEF All
  <2> QED BY <1>2, <2>1, <2>3
<1>5. ASSUME NEW q \in Positions(segs, S) PROVE Before(Pos(1, 0), q)
  <2>1. S \subseteq DOMAIN segs
    OBVIOUS
  <2> HIDE DEF S
  <2>2. q \in Points /\ q.seg \in DOMAIN segs /\ q.n \in 1 .. SegmentSize
    BY <1>0, <2>1, RecordAt
  <2>3. q.seg >= 1
    BY <1>0, <2>2 DEF Types
  <2> QED BY <2>2, <2>3, DiskvMergeAssumption DEF Before, Pos, Points
<1>6. ASSUME NEW k \in Keys, Recs(segs, prev, k) = {}
      PROVE  index[k] \in Positions(segs, S) \/ Answers(mdir'.segs, kv, HintPos(mdir'.hint, k), k)
  <2>1. Answers(segs, kv, index[k], k)
    BY <1>0, IndexAnswers
  <2>2. CASE kv[k] = Nil
    <3>1. HintPos(mdir'.hint, k) = NoPos
      BY <1>2 DEF HintPos
    <3> QED BY <2>2, <3>1 DEF Answers
  <2>3. CASE kv[k] # Nil
    <3>1. index[k] \in All(segs) /\ At(segs, index[k]).key = k
      BY <2>1, <2>3 DEF Answers
    <3>2. ~ (index[k].seg > prev)
      BY <1>6, <3>1, RecsAre
    <3>3. index[k].seg \in Nat
      BY <1>0, <3>1, PositionIs DEF All
    <3>4. index[k].seg <= prev
      BY <1>0, <3>2, <3>3
    <3> QED BY <3>1, <3>4, OldAre
  <2> QED BY <2>2, <2>3
<1> HIDE DEF S, prev
<1>7. Len(mdir'.segs) <= prev
  BY <1>0, <1>3
<1>8. merge'[m].todo \subseteq Positions(segs', {s \in DOMAIN segs' : s <= merge'[m].prev})
  BY <1>1 DEF S
<1> QED BY <1>1, <1>2, <1>3, <1>4, <1>5, <1>6, <1>7, <1>8 DEF Copied

\* A record is read: it is copied and indexed when it is live.
LEMMA RecordCopied ==
  ASSUME MergeInv, NEW m \in Merges, MergeRecord(m)
  PROVE  Copied(m)'
<1> DEFINE prev == merge[m].prev
           todo == merge[m].todo
           p    == Point(m)
           r    == At(segs, p)
           c    == Copy(m)
           l    == LastPos(c)
<1>0. /\ Types /\ Copied(m) /\ Busy(m) /\ Scans(m) /\ db = "open"
      /\ DOMAIN mdir.segs \subseteq Nat /\ LogOf(mdir.segs) /\ mdir.hint \in Seq(HintRecord)
  BY ReadsAlone, DirSegsAre DEF MergeRecord, Busy, Scans, MergeInv
<1>1. /\ p \in todo /\ p \in All(segs) /\ p \in Points /\ r \in Record /\ c \in Seq(Seq(Record))
      /\ c # <<>> /\ Grown(mdir.segs, c, r, l) /\ Len(c) <= prev /\ l \in Position
      /\ \A q \in todo \ {p} : Before(l, q)
  BY CopyFits
<1>2. /\ UNCHANGED <<segs, index, kv>> /\ merge'[m].prev = prev
      /\ merge'[m].todo = todo \ {p}
  BY <1>0 DEF MergeRecord, data, Point, Types, MergeStates
<1>3. IF IsLive(r, p)
        THEN mdir' = [mdir EXCEPT !.segs = c, !.hint =
                        Append(@, [key |-> r.key, pos |-> l])]
        ELSE mdir' = mdir
  BY DEF MergeRecord, Copy, Point
<1> HIDE DEF prev, todo, p, r, c, l
<1>4. merge'[m].todo \subseteq Positions(segs', {s \in DOMAIN segs' : s <= merge'[m].prev})
  BY <1>0, <1>2 DEF Copied, prev, todo
\* The index points to p for the key of a live record only.
<1>5. ASSUME NEW k \in Keys, index[k] = p PROVE IsLive(r, p) /\ r.key = k
  <2>1. Answers(segs, kv, index[k], k)
    BY <1>0, IndexAnswers
  <2>2. p # NoPos
    <3>1. p.seg \in DOMAIN segs
      BY <1>1, PositionIs DEF All
    <3>2. NoPos.seg = 0 /\ 0 \notin DOMAIN segs
      BY <1>0, DiskvMergeAssumption DEF NoPos, Pos, Types
    <3> QED BY <3>1, <3>2
  <2>3. kv[k] # Nil /\ r = [key |-> k, val |-> kv[k]]
    BY <1>5, <2>1, <2>2 DEF Answers, r
  <2> QED BY <1>5, <2>3 DEF IsLive
<1>6. CASE ~ IsLive(r, p)
  <2>1. mdir' = mdir
    BY <1>3, <1>6
  <2>2. ASSUME NEW k \in Keys, Recs(segs, prev, k) = {}
        PROVE  index[k] \in todo \ {p} \/ Answers(mdir.segs, kv, HintPos(mdir.hint, k), k)
    BY <1>0, <1>5, <1>6, <2>2 DEF Copied, prev, todo
  <2>3. \A q \in todo \ {p} : Before(LastPos(mdir.segs), q)
    BY <1>0 DEF Copied, todo
  <2>4. \A q \in All(mdir.segs) : index[At(mdir.segs, q).key] \notin todo \ {p}
    BY <1>0 DEF Copied, todo
  <2>5. mdir.fin = 0 /\ mdir.hashint /\ mdir.segs # <<>> /\ Len(mdir.segs) <= prev
    BY <1>0 DEF Copied, prev
  <2> QED BY <1>2, <1>4, <2>1, <2>2, <2>3, <2>4, <2>5 DEF Copied
<1>7. CASE IsLive(r, p)
  <2> DEFINE e == [key |-> r.key, pos |-> l]
  <2>1. mdir' = [mdir EXCEPT !.segs = c, !.hint = Append(@, e)]
    BY <1>3, <1>7
  <2>2. e \in HintRecord /\ e.key = r.key /\ e.pos = l /\ index[r.key] = p /\ r.val # Nil
        /\ r.key \in Keys
    BY <1>1, <1>7 DEF HintRecord, Record, IsLive
  <2> HIDE DEF e
  <2>3. mdir'.segs = c /\ mdir'.hint = Append(mdir.hint, e) /\ mdir'.fin = mdir.fin
        /\ mdir'.hashint = mdir.hashint
    BY <1>0, <2>1 DEF Types, Dirs
  <2>4. ASSUME NEW q \in All(c) PROVE index[At(c, q).key] \notin todo \ {p}
    <3>1. CASE q = l
      BY <1>1, <2>2, <3>1 DEF Grown
    <3>2. CASE q \in All(mdir.segs)
      BY <1>0, <1>1, <3>2 DEF Grown, Copied, todo
    <3> QED BY <1>1, <3>1, <3>2 DEF Grown
  <2>5. ASSUME NEW k \in Keys, Recs(segs, prev, k) = {}
        PROVE  index[k] \in todo \ {p} \/ Answers(c, kv, HintPos(Append(mdir.hint, e), k), k)
    <3>1. CASE r.key = k
      <4>1. HintPos(Append(mdir.hint, e), k) = l
        BY <1>0, <2>2, <3>1, HintAdded
      <4>2. Answers(segs, kv, p, k)
        BY <1>0, <2>2, <3>1, IndexAnswers
      <4>3. kv[k] # Nil /\ r = [key |-> k, val |-> kv[k]]
        <5>1. p # NoPos
          <6>1. p.seg \in DOMAIN segs
            BY <1>1, PositionIs DEF All
          <6>2. NoPos.seg = 0 /\ 0 \notin DOMAIN segs
            BY <1>0, DiskvMergeAssumption DEF NoPos, Pos, Types
          <6> QED BY <6>1, <6>2
        <5> QED BY <4>2, <5>1 DEF Answers, r
      <4>4. l \in All(c) /\ At(c, l) = r
        BY <1>1 DEF Grown
      <4> QED BY <4>1, <4>3, <4>4 DEF Answers
    <3>2. CASE r.key # k
      <4>1. HintPos(Append(mdir.hint, e), k) = HintPos(mdir.hint, k)
        BY <1>0, <2>2, <3>2, HintAdded
      <4>2. index[k] \in todo \/ Answers(mdir.segs, kv, HintPos(mdir.hint, k), k)
        BY <1>0, <2>5 DEF Copied, todo, prev
      <4>3. index[k] # p
        BY <1>5, <3>2
      <4>4. Answers(mdir.segs, kv, HintPos(mdir.hint, k), k) =>
              Answers(c, kv, HintPos(mdir.hint, k), k)
        BY <1>1 DEF Answers, Grown
      <4> QED BY <4>1, <4>2, <4>3, <4>4
    <3> QED BY <3>1, <3>2
  <2>6. mdir.fin = 0 /\ mdir.hashint
    BY <1>0 DEF Copied
  <2> QED BY <1>1, <1>2, <1>4, <2>3, <2>4, <2>5, <2>6 DEF Copied, l
<1> QED BY <1>6, <1>7

\* A merge has copied what it has read.
LEMMA CopiedStep ==
  OnlyProcess /\ MergeInv /\ [Next]_vars => \A m \in Merges : Scans(m)' => Copied(m)'
<1> SUFFICES ASSUME OnlyProcess, MergeInv, [Next]_vars, NEW o \in Merges, Scans(o)'
             PROVE  Copied(o)'
  OBVIOUS
<1>0. Types /\ merge \in [Merges -> MergeStates]
  BY DEF MergeInv, Types
<1>1. ASSUME NEW k \in Keys, NEW v \in Values \cup {Nil}, DbWrite(k, v) PROVE Copied(o)'
  <2>1. Scans(o)
    BY <1>1 DEF DbWrite, Scans
  <2> QED BY <1>1, <2>1, WriteKeepsCopied
<1>2. ASSUME NEW m \in Merges, MergeOpen(m) \/ MergeRecord(m) PROVE Copied(o)'
  <2>1. Busy(m)
    BY <1>2 DEF MergeOpen, MergeRecord, Busy
  <2>2. o = m
    BY <1>0, <1>2, <2>1, ReadsAlone DEF MergeOpen, MergeRecord, Scans
  <2> QED BY <1>2, <2>2, OpenCopied, RecordCopied
<1>3. ASSUME NEW m \in Merges, MergeFinish(m) PROVE FALSE
  <2>1. Busy(m)
    BY <1>3 DEF MergeFinish, Busy
  <2> QED BY <1>0, <1>3, <2>1, ReadsAlone DEF MergeFinish, Scans, Idle
<1>4. ASSUME NEW m \in Merges,
             MergeNothing(m) \/ \E reopen \in BOOLEAN : MergeStart(m, reopen)
      PROVE  FALSE
  BY <1>0, <1>4, BeginsAlone DEF MergeNothing, MergeStart, Scans, Idle
<1>5. ASSUME merge' = merge, db # "open" PROVE FALSE
  BY <1>5, ReadsAlone DEF Scans, Busy
<1>6. CASE OpenStart
  BY <1>5, <1>6 DEF OpenStart
<1>7. ASSUME NEW m \in Merges, SwapStart(m) PROVE FALSE
  <2>1. merge' = merge
    BY <1>0, <1>7, SwapsAlone, NoneClosed DEF SwapStart
  <2> QED BY <1>7, <2>1, SwapsAlone DEF SwapStart, Scans
<1>8. CASE LoadSegment
  BY <1>5, <1>8 DEF LoadSegment
<1>9. CASE LoadFinish \/ Reopen
  BY <1>9, LoadEnds
<1>10. CASE Close \/ ProcessCrash
  BY <1>10, DiesOpen DEF Scans
<1>11. CASE UNCHANGED vars
  <2>1. Copied(o)
    BY <1>11 DEF vars, Scans, MergeInv
  <2> QED BY <1>11, <2>1 DEF vars, data, Copied
<1> QED BY <1>1, <1>2, <1>3, <1>4, <1>6, <1>7, <1>8, <1>9, <1>10, <1>11, StepIs

-----------------------------------------------------------------------------
(* The theorems *)

\* The invariant holds of every state.
LEMMA MergeInvariance == OnlyProcess /\ Spec => []MergeInv
<1> SUFFICES ASSUME OnlyProcess PROVE Spec => []MergeInv
  OBVIOUS
<1>1. MergeInv /\ [Next]_vars => MergeInv'
  <2> SUFFICES ASSUME MergeInv, [Next]_vars PROVE MergeInv'
    OBVIOUS
  <2>1. Types' /\ Control' /\ Progress' /\ ActivePast'
    BY TypesStep, ControlStep, ProgressStep, ActiveStep
  <2>2. Durable' /\ Indexed' /\ Complete'
    BY DurableStep, IndexedStep, CompleteStep
  <2>3. \A m \in Merges : Scans(m)' => Copied(m)'
    BY CopiedStep
  <2>4. Incomplete' /\ MergedApart' /\ MergeFits'
    BY IncompleteStep, ApartStep, FitsStep
  <2> QED BY <2>1, <2>2, <2>3, <2>4 DEF MergeInv
<1> QED BY <1>1, InitHolds, PTL DEF Spec

\* Every variable of a store that is merged, any number of times, is in its type,
\* and no segment outgrows its size, through deaths of the process at every step
\* but those of a second merge and of the swap of files (doMerge, loadMergeFiles,
\* Open).
THEOREM MergeTypes == OnlyProcess /\ Spec => []TypeOK
<1>1. MergeInv => TypeOK
  <2> SUFFICES ASSUME MergeInv PROVE TypeOK
    OBVIOUS
  <2>1. Types
    BY DEF MergeInv
  <2>2. \A s \in DOMAIN segs : segs[s] \in Seq(Record)
    BY <2>1 DEF Types, LogOf
  <2>3. /\ mdir.segs \in Seq(Seq(Record)) /\ mdir.hint \in Seq(HintRecord)
        /\ mdir.fin \in 0 .. MaxSegs
    BY <2>1 DEF Types, Dirs
  <2>4. \A m \in Merges : merge[m].pc \in {"idle", "open", "scan", "swap"}
    BY <2>1 DEF Types, MergeStates
  <2> QED BY <2>1, <2>2, <2>3, <2>4 DEF Types, TypeOK
<1> QED BY <1>1, MergeInvariance, PTL

\* However many merges have run beside however many writes, an open store answers
\* what was written last, if the process died at any steps of writes, openings or
\* the first merge: not if it died while files were moved or in a later merge, nor
\* if it was closed under a merge (Merge, loadMergeFiles, loadIndexFromHintFile,
\* loadIndexFromWAL).
THEOREM MergesLoseNothing == OnlyProcess /\ Spec => []NothingLost
<1>1. MergeInv => NothingLost
  <2> SUFFICES ASSUME MergeInv, db = "open", NEW k \in Keys PROVE Read(k) = kv[k]
    BY DEF NothingLost
  <2>1. Answers(segs, kv, index[k], k)
    BY IndexAnswers
  <2>2. CASE kv[k] = Nil
    <3>1. index[k] = NoPos
      BY <2>1, <2>2 DEF Answers
    <3>2. NoPos.seg = 0 /\ 0 \notin DOMAIN segs
      BY DiskvMergeAssumption DEF NoPos, Pos, MergeInv, Types
    <3> QED BY <2>2, <3>1, <3>2 DEF Read
  <2>3. CASE kv[k] # Nil
    <3>1. index[k] \in All(segs) /\ At(segs, index[k]) = [key |-> k, val |-> kv[k]]
      BY <2>1, <2>3 DEF Answers
    <3>2. index[k].seg \in DOMAIN segs /\ index[k].n \in DOMAIN segs[index[k].seg]
      BY <3>1, PositionIs DEF All
    <3> QED BY <3>1, <3>2 DEF Read
  <2> QED BY <2>2, <2>3
<1> QED BY <1>1, MergeInvariance, PTL

\* A merge directory with a MERGEFIN has every record that it replaces, under the
\* deaths of OnlyProcess (doMerge).
THEOREM FinishedIsMerged == OnlyProcess /\ Spec => []FinishedMeansMerged
<1>1. MergeInv => FinishedMeansMerged
  <2> SUFFICES ASSUME MergeInv, db = "open", mdir.fin # 0, NEW k \in Keys,
                      index[k].seg \in 1 .. mdir.fin
               PROVE  LET p == HintPos(mdir.hint, k) IN
                        /\ p.seg \in DOMAIN mdir.segs /\ p.n \in DOMAIN mdir.segs[p.seg]
                        /\ At(mdir.segs, p) = [key |-> k, val |-> kv[k]]
    BY DEF FinishedMeansMerged
  <2>0. /\ Types /\ load.id = 0 /\ fin \in Nat /\ mdir.fin \in Nat /\ fin < mdir.fin
        /\ DOMAIN segs \subseteq Nat \ {0} /\ LogOf(segs) /\ DOMAIN segs \subseteq 1 .. MaxSegs
        /\ MaxSegs \in Nat
    BY DiskvMergeAssumption DEF MergeInv, Types, Dirs, Progress, NoLoad, ActivePast
  <2>1. kv[k] # Nil
    <3>1. Answers(segs, kv, index[k], k)
      BY IndexAnswers
    <3>2. NoPos.seg = 0
      BY DEF NoPos, Pos
    <3> QED BY <3>1, <3>2 DEF Answers
  <2>2. Recs(segs, mdir.fin, k) = {}
    <3>1. SUFFICES ASSUME Recs(segs, mdir.fin, k) # {} PROVE FALSE
      OBVIOUS
    <3>2. PICK q : q \in Recs(segs, mdir.fin, k)
      BY <3>1
    <3>3. q \in All(segs) /\ q.seg > mdir.fin /\ At(segs, q).key = k /\ q.seg \in Nat
      BY <2>0, <3>2, RecsAre, PositionIs DEF All
    <3>4. q \in Recs(segs, fin, k) /\ Recs(segs, fin, k) \subseteq All(segs)
      BY <2>0, <3>3, RecsAre
    <3>5. PICK p : Last(Recs(segs, fin, k), p)
      BY <2>0, <3>4, LastExists
    <3>6. index[k] = p
      BY <2>1, <3>5 DEF MergeInv, Indexed
    <3>7. p = q \/ Before(q, p)
      BY <3>4, <3>5 DEF Last
    <3>8. p.seg <= mdir.fin /\ p.seg \in Nat
      BY <2>0, <3>6
    <3> QED BY <2>0, <3>3, <3>7, <3>8 DEF Before
  <2> DEFINE p == HintPos(mdir.hint, k)
  <2>3. /\ p \in Merged(segs, mdir.segs, load.id)
        /\ MergedAt(segs, mdir.segs, load.id, p) = [key |-> k, val |-> kv[k]]
    BY <2>1, <2>2 DEF MergeInv, Complete
  <2> HIDE DEF p
  <2>4. /\ Merged(segs, mdir.segs, load.id) = All(mdir.segs)
        /\ \A q \in All(mdir.segs) : MergedAt(segs, mdir.segs, load.id, q) = At(mdir.segs, q)
    <3>1. DOMAIN mdir.segs \subseteq Nat \ {0}
      <4>1. DOMAIN mdir.segs = 1 .. Len(mdir.segs) /\ Len(mdir.segs) \in Nat
        BY <2>0, DirSegsAre
      <4> QED BY <4>1
    <3>2. load.id \in 0 .. 1
      BY <2>0
    <3> QED BY <2>0, <3>1, <3>2, MergedHere
  <2>5. p \in All(mdir.segs) /\ At(mdir.segs, p) = [key |-> k, val |-> kv[k]]
    BY <2>3, <2>4
  <2>6. p.seg \in DOMAIN mdir.segs /\ p.n \in DOMAIN mdir.segs[p.seg]
    BY <2>5, PositionIs DEF All
  <2> QED BY <2>5, <2>6 DEF p
<1> QED BY <1>1, MergeInvariance, PTL

\* The merged segments have the numbers of those they replace (doMerge,
\* loadMergeFiles).
THEOREM MergesFit == OnlyProcess /\ Spec => []MergeFits
<1>1. MergeInv => MergeFits
  BY DEF MergeInv
<1> QED BY <1>1, MergeInvariance, PTL

\* A store that was merged has one record of a key among the merged ones, and
\* none of a deleted one (doMerge, positionEquals).
THEOREM MergesOnce == OnlyProcess /\ Spec => []MergedOnce
<1>1. MergeInv => MergedOnce
  BY DEF MergeInv, MergedApart, MergedOnce, Loading
<1> QED BY <1>1, MergeInvariance, PTL

=============================================================================
