---------------------------- MODULE DiskvProofs ----------------------------
(***************************************************************************)
(* Proofs about Diskv for any number of keys, values, clients, records,    *)
(* batches, crashes and restarts: its types, the lock, that an open        *)
(* database answers what the committed batches left, and that Diskv        *)
(* implements KVStore.                                                     *)
(***************************************************************************)
EXTENDS DiskvInv, SequenceTheorems, WellFoundedInduction, TLAPS

-----------------------------------------------------------------------------
(* Logs, of any length: what a mark, a record without one, or a prefix     *)
(* does to the records that count, to the index and to the map             *)

\* Whether a record is ended within the first n is decided by the first n.
LEMMA EndedAgree ==
  ASSUME NEW lg, NEW lh, NEW n \in Nat, Agree(lg, lh, n), NEW p \in 1 .. n
  PROVE  Ended(lg, p, n) <=> Ended(lh, p, n)
BY DEF Agree, Ended, SameBatch

\* What counts in the first n records is decided by the first n records.
LEMMA CountsAgree ==
  ASSUME NEW lg, NEW lh, NEW n \in Nat, Agree(lg, lh, n), NEW k, NEW p
  PROVE  Counts(lg, k, n, p) <=> Counts(lh, k, n, p)
BY EndedAgree DEF Agree, Counts, IsWrite

\* Whether a write is the last one of its key is decided by the first n records.
LEMMA LastAgree ==
  ASSUME NEW lg, NEW lh, NEW n \in Nat, Agree(lg, lh, n), NEW k, NEW p
  PROVE  LastWrite(lg, k, n, p) <=> LastWrite(lh, k, n, p)
BY CountsAgree DEF LastWrite

\* Whether a key was deleted last is decided by the first n records.
LEMMA DeletedAgree ==
  ASSUME NEW lg, NEW lh, NEW n \in Nat, Agree(lg, lh, n), NEW k
  PROVE  Deleted(lg, k, n) <=> Deleted(lh, k, n)
BY LastAgree DEF Deleted, Agree

\* An index that is right for the first n records of a log is right for any log
\* that begins with them.
LEMMA IndexAgree ==
  ASSUME NEW lg, NEW lh, NEW n \in Nat, Agree(lg, lh, n), NEW ix
  PROVE  IndexOK(ix, lg, n) <=> IndexOK(ix, lh, n)
BY LastAgree, DeletedAgree DEF IndexOK, Agree

\* What the first n records of a log stand for is decided by them.
LEMMA MapAgree ==
  ASSUME NEW lg, NEW lh, NEW n \in Nat, Agree(lg, lh, n), NEW m
  PROVE  MapOK(m, lg, n) <=> MapOK(m, lh, n)
BY LastAgree, DeletedAgree DEF MapOK, Agree

\* Records without a mark change nothing.
LEMMA CountsUnmarked ==
  ASSUME NEW lg, NEW n \in Nat, NEW m \in Nat, n <= m,
         \A q \in n + 1 .. m : lg[q].type # "finished",
         NEW k, NEW p
  PROVE  Counts(lg, k, m, p) <=> Counts(lg, k, n, p)
<1>1. ASSUME p \in 1 .. m PROVE Ended(lg, p, m) <=> p <= n /\ Ended(lg, p, n)
  BY <1>1 DEF Ended
<1> QED BY <1>1 DEF Counts

\* Records without a mark leave the last write of every key what it was.
LEMMA LastUnmarked ==
  ASSUME NEW lg, NEW n \in Nat, NEW m \in Nat, n <= m,
         \A q \in n + 1 .. m : lg[q].type # "finished",
         NEW k, NEW p
  PROVE  LastWrite(lg, k, m, p) <=> LastWrite(lg, k, n, p)
<1>1. \A q : Counts(lg, k, m, q) <=> Counts(lg, k, n, q)
  BY CountsUnmarked
<1> QED BY <1>1 DEF LastWrite, Counts

\* Records without a mark delete no key.
LEMMA DeletedUnmarked ==
  ASSUME NEW lg, NEW n \in Nat, NEW m \in Nat, n <= m,
         \A q \in n + 1 .. m : lg[q].type # "finished",
         NEW k
  PROVE  Deleted(lg, k, m) <=> Deleted(lg, k, n)
<1>1. \A p : LastWrite(lg, k, m, p) <=> LastWrite(lg, k, n, p)
  BY LastUnmarked
<1> QED BY <1>1 DEF Deleted, LastWrite, Counts

\* Records without a mark leave a right index right (loadIndexFromWAL).
LEMMA IndexUnmarked ==
  ASSUME NEW lg, NEW n \in Nat, NEW m \in Nat, n <= m,
         \A q \in n + 1 .. m : lg[q].type # "finished",
         NEW ix, IndexOK(ix, lg, n)
  PROVE  IndexOK(ix, lg, m)
<1>1. \A k, p : LastWrite(lg, k, m, p) <=> LastWrite(lg, k, n, p)
  BY LastUnmarked
<1>2. \A k : Deleted(lg, k, m) <=> Deleted(lg, k, n)
  BY DeletedUnmarked
<1>3. ASSUME NEW k \in Keys
      PROVE  \/ ix[k] = 0 /\ Deleted(lg, k, m)
             \/ /\ ix[k] \in 1 .. m /\ LastWrite(lg, k, m, ix[k])
                /\ lg[ix[k]].type = "normal"
  <2>1. CASE ix[k] = 0 /\ Deleted(lg, k, n)
    BY <2>1, <1>2
  <2>2. CASE ix[k] \in 1 .. n /\ LastWrite(lg, k, n, ix[k]) /\ lg[ix[k]].type = "normal"
    BY <2>2, <1>1
  <2> QED BY <2>1, <2>2 DEF IndexOK
<1> QED BY <1>3 DEF IndexOK

\* Records without a mark leave the map that a log stands for what it was.
LEMMA MapUnmarked ==
  ASSUME NEW lg, NEW n \in Nat, NEW m \in Nat, n <= m,
         \A q \in n + 1 .. m : lg[q].type # "finished",
         NEW f, MapOK(f, lg, n)
  PROVE  MapOK(f, lg, m)
<1>1. \A k, p : LastWrite(lg, k, m, p) <=> LastWrite(lg, k, n, p)
  BY LastUnmarked
<1>2. \A k : Deleted(lg, k, m) <=> Deleted(lg, k, n)
  BY DeletedUnmarked
<1>3. ASSUME NEW k \in Keys
      PROVE  \/ f[k] = Nil /\ Deleted(lg, k, m)
             \/ \E p \in 1 .. m : /\ LastWrite(lg, k, m, p)
                                  /\ lg[p].type = "normal" /\ lg[p].val = f[k]
  <2>1. CASE f[k] = Nil /\ Deleted(lg, k, n)
    BY <2>1, <1>2
  <2>2. ASSUME NEW p \in 1 .. n, LastWrite(lg, k, n, p),
               lg[p].type = "normal", lg[p].val = f[k]
        PROVE  \E q \in 1 .. m : /\ LastWrite(lg, k, m, q)
                                 /\ lg[q].type = "normal" /\ lg[q].val = f[k]
    <3>1. p \in 1 .. m /\ LastWrite(lg, k, m, p)
      BY <2>2, <1>1
    <3> QED BY <3>1, <2>2
  <2> QED BY <2>1, <2>2 DEF MapOK
<1> QED BY <1>3 DEF MapOK

\* A prefix of a log keeps the shape of the log.
LEMMA ContiguousPrefix ==
  ASSUME NEW lg, NEW lh, NEW m \in Nat, NEW n \in 0 .. m,
         Agree(lg, lh, n), Contiguous(lg, m)
  PROVE  Contiguous(lh, n)
<1> SUFFICES ASSUME NEW q \in 1 .. n, NEW p \in 1 .. q - 1,
                    lh[q].type = "finished", IsWrite(lh[p]), SameBatch(lh[p], lh[q]),
                    ~ Ended(lh, p, q - 1),
                    NEW x \in p .. q - 1
             PROVE  IsWrite(lh[x])
  BY DEF Contiguous
<1>1. lg[q] = lh[q] /\ lg[p] = lh[p] /\ lg[x] = lh[x]
  BY DEF Agree
<1>2. ~ Ended(lg, p, q - 1)
  BY <1>1 DEF Ended, Agree, SameBatch
<1>3. q \in 1 .. m
  OBVIOUS
<1> QED BY <1>1, <1>2, <1>3 DEF Contiguous

\* A prefix of a log has no key twice in a batch if the log has none.
LEMMA OncePerKeyPrefix ==
  ASSUME NEW lg, NEW lh, NEW m \in Nat, NEW n \in 0 .. m,
         Agree(lg, lh, n), OncePerKey(lg, m)
  PROVE  OncePerKey(lh, n)
<1> SUFFICES ASSUME NEW q \in 1 .. n, NEW p \in 1 .. q - 1,
                    IsWrite(lh[p]), IsWrite(lh[q]), SameBatch(lh[p], lh[q]),
                    ~ Ended(lh, p, q)
             PROVE  lh[p].key # lh[q].key
  BY DEF OncePerKey
<1>1. lg[q] = lh[q] /\ lg[p] = lh[p]
  BY DEF Agree
<1>2. ~ Ended(lg, p, q)
  BY <1>1 DEF Ended, Agree, SameBatch
<1>3. q \in 1 .. m
  OBVIOUS
<1> QED BY <1>1, <1>2, <1>3 DEF OncePerKey

\* A mark makes the writes it ends count.
LEMMA CountsMark ==
  ASSUME NEW lg, NEW n \in Nat, lg[n + 1].type = "finished", NEW k, NEW p
  PROVE  Counts(lg, k, n + 1, p) <=>
           \/ Counts(lg, k, n, p)
           \/ p \in Unended(lg, lg[n + 1], n) /\ lg[p].key = k
<1>1. ASSUME p \in 1 .. n
      PROVE  Ended(lg, p, n + 1) <=> Ended(lg, p, n) \/ SameBatch(lg[p], lg[n + 1])
  BY <1>1 DEF Ended
<1>2. IsWrite(lg[p]) => p # n + 1
  BY DEF IsWrite
<1> QED BY <1>1, <1>2 DEF Counts, Unended

\* The write of k that a mark ends is the last write of k.
LEMMA MarkedIsLast ==
  ASSUME NEW lg, NEW n \in Nat, lg[n + 1].type = "finished",
         Contiguous(lg, n + 1), OncePerKey(lg, n + 1),
         NEW k, NEW p \in Unended(lg, lg[n + 1], n), lg[p].key = k
  PROVE  /\ LastWrite(lg, k, n + 1, p)
         /\ \A q \in Unended(lg, lg[n + 1], n) : lg[q].key = k => q = p
<1>1. p \in 1 .. n /\ IsWrite(lg[p]) /\ SameBatch(lg[p], lg[n + 1]) /\ ~ Ended(lg, p, n)
  BY DEF Unended
<1>2. \A x \in p .. n : IsWrite(lg[x])
  BY <1>1 DEF Contiguous
<1>3. ASSUME NEW q \in Unended(lg, lg[n + 1], n), lg[q].key = k PROVE q = p
  <2>1. q \in 1 .. n /\ IsWrite(lg[q]) /\ SameBatch(lg[q], lg[n + 1]) /\ ~ Ended(lg, q, n)
    BY DEF Unended
  <2>2. SameBatch(lg[p], lg[q]) /\ SameBatch(lg[q], lg[p])
    BY <1>1, <2>1 DEF SameBatch
  <2>3. ~ Ended(lg, p, q) /\ ~ Ended(lg, q, p)
    BY <1>1, <2>1 DEF Ended
  <2>4. ~ q < p
    BY <1>1, <2>1, <2>2, <2>3, <1>3 DEF OncePerKey
  <2>5. ~ p < q
    BY <1>1, <2>1, <2>2, <2>3, <1>3 DEF OncePerKey
  <2> QED BY <2>4, <2>5, <1>1, <2>1
<1>4. ASSUME NEW q \in 1 .. n + 1, Counts(lg, k, n, q) PROVE q <= p
  <2>1. q \in 1 .. n /\ Ended(lg, q, n)
    BY <1>4 DEF Counts
  <2>2. PICK x \in q + 1 .. n : lg[x].type = "finished"
    BY <2>1 DEF Ended
  <2>3. x \notin p .. n
    BY <1>2, <2>2 DEF IsWrite
  <2> QED BY <1>1, <2>1, <2>2, <2>3
<1>5. \A q \in 1 .. n + 1 : Counts(lg, k, n + 1, q) => q <= p
  <2> TAKE q \in 1 .. n + 1
  <2> HAVE Counts(lg, k, n + 1, q)
  <2>1. CASE Counts(lg, k, n, q)
    BY <2>1, <1>4
  <2>2. CASE q \in Unended(lg, lg[n + 1], n) /\ lg[q].key = k
    BY <2>2, <1>3, <1>1
  <2> QED BY <2>1, <2>2, CountsMark
<1>6. Counts(lg, k, n + 1, p)
  BY CountsMark
<1> QED BY <1>3, <1>5, <1>6 DEF LastWrite

\* A mark that ends no write of k leaves k as it was.
LEMMA LastUntouched ==
  ASSUME NEW lg, NEW n \in Nat, lg[n + 1].type = "finished", NEW k,
         \A q \in Unended(lg, lg[n + 1], n) : lg[q].key # k
  PROVE  /\ \A p : LastWrite(lg, k, n + 1, p) <=> LastWrite(lg, k, n, p)
         /\ Deleted(lg, k, n + 1) <=> Deleted(lg, k, n)
<1>1. \A q : Counts(lg, k, n + 1, q) <=> Counts(lg, k, n, q)
  BY CountsMark
<1>2. \A p : LastWrite(lg, k, n + 1, p) <=> LastWrite(lg, k, n, p)
  BY <1>1 DEF LastWrite, Counts
<1> QED BY <1>2 DEF Deleted, LastWrite, Counts

\* How the index must move when a mark is applied (IndexBatch, IndexWith).
LEMMA IndexMark ==
  ASSUME NEW lg, NEW n \in Nat, lg[n + 1].type = "finished",
         Contiguous(lg, n + 1), OncePerKey(lg, n + 1),
         \A p \in 1 .. n : lg[p].type \in {"normal", "deleted", "finished"},
         NEW ix, NEW iy, IndexOK(ix, lg, n),
         \A k \in Keys :
           (\A p \in Unended(lg, lg[n + 1], n) : lg[p].key # k) => iy[k] = ix[k],
         \A k \in Keys : \A p \in Unended(lg, lg[n + 1], n) :
           lg[p].key = k => iy[k] = IF lg[p].type = "normal" THEN p ELSE 0
  PROVE  IndexOK(iy, lg, n + 1)
<1> SUFFICES ASSUME NEW k \in Keys
             PROVE  \/ iy[k] = 0 /\ Deleted(lg, k, n + 1)
                    \/ /\ iy[k] \in 1 .. n + 1 /\ LastWrite(lg, k, n + 1, iy[k])
                       /\ lg[iy[k]].type = "normal"
  BY DEF IndexOK
<1>1. CASE \A p \in Unended(lg, lg[n + 1], n) : lg[p].key # k
  <2>1. iy[k] = ix[k]
    BY <1>1
  <2>2. CASE ix[k] = 0 /\ Deleted(lg, k, n)
    BY <2>1, <2>2, <1>1, LastUntouched
  <2>3. CASE ix[k] \in 1 .. n /\ LastWrite(lg, k, n, ix[k]) /\ lg[ix[k]].type = "normal"
    <3>1. LastWrite(lg, k, n + 1, ix[k])
      BY <2>3, <1>1, LastUntouched
    <3> QED BY <3>1, <2>1, <2>3
  <2> QED BY <2>2, <2>3 DEF IndexOK
<1>2. ASSUME NEW p \in Unended(lg, lg[n + 1], n), lg[p].key = k
      PROVE  \/ iy[k] = 0 /\ Deleted(lg, k, n + 1)
             \/ /\ iy[k] \in 1 .. n + 1 /\ LastWrite(lg, k, n + 1, iy[k])
                /\ lg[iy[k]].type = "normal"
  <2>1. p \in 1 .. n /\ IsWrite(lg[p])
    BY DEF Unended
  <2>2. LastWrite(lg, k, n + 1, p)
    BY <1>2, MarkedIsLast
  <2>3. CASE lg[p].type = "normal"
    BY <2>1, <2>2, <2>3, <1>2
  <2>4. CASE lg[p].type = "deleted"
    <3>1. \A q \in 1 .. n + 1 : LastWrite(lg, k, n + 1, q) => q = p
      BY <2>1, <2>2 DEF LastWrite
    <3> QED BY <3>1, <2>4, <1>2 DEF Deleted
  <2> QED BY <2>1, <2>3, <2>4 DEF IsWrite
<1> QED BY <1>1, <1>2

\* A right index gives the map to read, and what is read from it is that map.
LEMMA IndexGivesMap ==
  ASSUME NEW lg, NEW n \in Nat, NEW ix, IndexOK(ix, lg, n), NEW m,
         \A k \in Keys : m[k] = IF ix[k] = 0 THEN Nil ELSE lg[ix[k]].val
  PROVE  MapOK(m, lg, n)
<1> SUFFICES ASSUME NEW k \in Keys
             PROVE  \/ m[k] = Nil /\ Deleted(lg, k, n)
                    \/ \E p \in 1 .. n : /\ LastWrite(lg, k, n, p)
                                         /\ lg[p].type = "normal" /\ lg[p].val = m[k]
  BY DEF MapOK
<1>1. CASE ix[k] = 0 /\ Deleted(lg, k, n)
  BY <1>1
<1>2. CASE ix[k] \in 1 .. n /\ LastWrite(lg, k, n, ix[k]) /\ lg[ix[k]].type = "normal"
  <2>1. lg[ix[k]].val = m[k]
    BY <1>2
  <2> QED BY <1>2, <2>1
<1> QED BY <1>1, <1>2 DEF IndexOK

\* What is read through a right index is the map the log stands for (DB.Get).
LEMMA IndexReadsMap ==
  ASSUME NEW lg, NEW n \in Nat, NEW ix, IndexOK(ix, lg, n), NEW m, MapOK(m, lg, n),
         NEW k \in Keys
  PROVE  m[k] = IF ix[k] = 0 THEN Nil ELSE lg[ix[k]].val
<1>1. CASE ix[k] = 0 /\ Deleted(lg, k, n)
  BY <1>1 DEF MapOK, Deleted
<1>2. CASE ix[k] \in 1 .. n /\ LastWrite(lg, k, n, ix[k]) /\ lg[ix[k]].type = "normal"
  <2>1. \A p \in 1 .. n : LastWrite(lg, k, n, p) => p = ix[k]
    BY <1>2 DEF LastWrite
  <2>2. ~ Deleted(lg, k, n)
    BY <1>2 DEF Deleted
  <2>3. ix[k] # 0
    BY <1>2
  <2> QED BY <2>1, <2>2, <2>3 DEF MapOK
<1> QED BY <1>1, <1>2 DEF IndexOK

-----------------------------------------------------------------------------
(* A batch at the end of a log *)

\* Records L + 1 .. L + m are the writes of a batch and the next one is its mark:
\* the shape of the log, and the writes that the mark ends.
LEMMA AppendBatch ==
  ASSUME NEW lg, NEW L \in Nat, NEW m \in Nat, NEW t \in Nat,
         Contiguous(lg, L), OncePerKey(lg, L),
         \A p \in 1 .. L : lg[p].ms \in Nat,
         \A p \in 1 .. L : IsWrite(lg[p]) /\ ~ Ended(lg, p, L) => lg[p].ms < t,
         \A q \in L + 1 .. L + m : IsWrite(lg[q]),
         lg[L + m + 1].type = "finished",
         \A q \in L + 1 .. L + m + 1 : lg[q].ms = t,
         \A q \in L + 1 .. L + m + 1 : lg[q].step = lg[L + m + 1].step,
         \A p, q \in L + 1 .. L + m : lg[p].key = lg[q].key => p = q
  PROVE  /\ Contiguous(lg, L + m + 1)
         /\ OncePerKey(lg, L + m + 1)
         /\ Unended(lg, lg[L + m + 1], L + m) = L + 1 .. L + m
         /\ \A p \in 1 .. L + m + 1 :
              IsWrite(lg[p]) /\ ~ Ended(lg, p, L + m + 1) => lg[p].ms < t
\* A write of the old log without a mark has an older id.
<1>1. ASSUME NEW p \in 1 .. L, IsWrite(lg[p]), NEW x \in Nat, L <= x, ~ Ended(lg, p, x)
      PROVE  lg[p].ms < t
  <2>1. ~ Ended(lg, p, L)
    BY <1>1 DEF Ended
  <2> QED BY <1>1, <2>1
<1>2. ASSUME NEW p \in 1 .. L, IsWrite(lg[p]), NEW x \in Nat, L <= x, ~ Ended(lg, p, x),
             NEW q \in L + 1 .. L + m + 1
      PROVE  ~ SameBatch(lg[p], lg[q])
  <2>1. lg[p].ms < t /\ lg[q].ms = t /\ lg[p].ms \in Nat
    BY <1>1, <1>2
  <2> QED BY <2>1 DEF SameBatch
<1>3. Contiguous(lg, L + m + 1)
  <2> SUFFICES ASSUME NEW q \in 1 .. L + m + 1, NEW p \in 1 .. q - 1,
                      lg[q].type = "finished", IsWrite(lg[p]), SameBatch(lg[p], lg[q]),
                      ~ Ended(lg, p, q - 1),
                      NEW x \in p .. q - 1
               PROVE  IsWrite(lg[x])
    BY DEF Contiguous
  <2>1. CASE q <= L
    <3>1. q \in 1 .. L
      BY <2>1
    <3> QED BY <3>1 DEF Contiguous
  <2>2. CASE q > L
    <3>1. q \notin L + 1 .. L + m
      BY DEF IsWrite
    <3>2. q = L + m + 1
      BY <3>1, <2>2
    <3>3. ~ p <= L
      <4> SUFFICES ASSUME p <= L PROVE FALSE
        OBVIOUS
      <4>1. p \in 1 .. L /\ q - 1 \in Nat /\ L <= q - 1 /\ q \in L + 1 .. L + m + 1
        BY <2>2
      <4> QED BY <4>1, <1>2
    <3>4. x \in L + 1 .. L + m
      BY <3>2, <3>3
    <3> QED BY <3>4
  <2> QED BY <2>1, <2>2
<1>4. OncePerKey(lg, L + m + 1)
  <2> SUFFICES ASSUME NEW q \in 1 .. L + m + 1, NEW p \in 1 .. q - 1,
                      IsWrite(lg[p]), IsWrite(lg[q]), SameBatch(lg[p], lg[q]),
                      ~ Ended(lg, p, q)
               PROVE  lg[p].key # lg[q].key
    BY DEF OncePerKey
  <2>1. CASE q <= L
    <3>1. q \in 1 .. L
      BY <2>1
    <3> QED BY <3>1 DEF OncePerKey
  <2>2. CASE q > L
    <3>1. ~ p <= L
      <4> SUFFICES ASSUME p <= L PROVE FALSE
        OBVIOUS
      <4>1. p \in 1 .. L /\ q \in Nat /\ L <= q /\ q \in L + 1 .. L + m + 1
        BY <2>2
      <4> QED BY <4>1, <1>2
    <3>2. q # L + m + 1
      BY DEF IsWrite
    <3>3. q \in L + 1 .. L + m /\ p \in L + 1 .. L + m /\ p # q
      BY <2>2, <3>1, <3>2
    <3> QED BY <3>3
  <2> QED BY <2>1, <2>2
<1>5. ASSUME NEW p \in L + 1 .. L + m PROVE p \in Unended(lg, lg[L + m + 1], L + m)
  <2>1. IsWrite(lg[p])
    OBVIOUS
  <2>2. p \in L + 1 .. L + m + 1 /\ L + m + 1 \in L + 1 .. L + m + 1 /\ p \in 1 .. L + m
    OBVIOUS
  <2>3. SameBatch(lg[p], lg[L + m + 1])
    BY <2>2 DEF SameBatch
  <2>4. \A q \in p + 1 .. L + m : q \in L + 1 .. L + m
    OBVIOUS
  <2>5. ~ Ended(lg, p, L + m)
    BY <2>4 DEF Ended, IsWrite
  <2> QED BY <2>1, <2>2, <2>3, <2>5 DEF Unended
<1>6. ASSUME NEW p \in Unended(lg, lg[L + m + 1], L + m) PROVE p \in L + 1 .. L + m
  <2>1. p \in 1 .. L + m /\ IsWrite(lg[p]) /\ SameBatch(lg[p], lg[L + m + 1])
        /\ ~ Ended(lg, p, L + m)
    BY DEF Unended
  <2>2. L + m \in Nat /\ L <= L + m /\ L + m + 1 \in L + 1 .. L + m + 1
    OBVIOUS
  <2>3. p \notin 1 .. L
    BY <1>2, <2>1, <2>2
  <2> QED BY <2>1, <2>3
<1>7. ASSUME NEW p \in 1 .. L + m + 1, IsWrite(lg[p]), ~ Ended(lg, p, L + m + 1)
      PROVE  lg[p].ms < t
  <2>1. CASE p <= L
    <3>1. p \in 1 .. L /\ L + m + 1 \in Nat /\ L <= L + m + 1
      BY <2>1
    <3> QED BY <1>1, <1>7, <3>1
  <2>2. CASE p > L
    <3>1. p # L + m + 1
      BY <1>7 DEF IsWrite
    <3>2. p \in L + 1 .. L + m
      BY <3>1, <2>2
    <3>3. SameBatch(lg[p], lg[L + m + 1])
      BY <1>5, <3>2 DEF Unended
    <3>4. L + m + 1 \in p + 1 .. L + m + 1
      BY <3>2
    <3>5. Ended(lg, p, L + m + 1)
      BY <3>3, <3>4 DEF Ended
    <3> QED BY <1>7, <3>5
  <2> QED BY <2>1, <2>2
<1> QED BY <1>3, <1>4, <1>5, <1>6, <1>7

-----------------------------------------------------------------------------
(* Types *)

\* A function on 1 .. n is a sequence of length n.
LEMMA SeqOfLen ==
  ASSUME NEW n \in Nat, NEW S, NEW s \in [1 .. n -> S]
  PROVE  s \in Seq(S) /\ Len(s) = n
<1>1. s \in Seq(S)
  BY SeqDef
<1>2. DOMAIN s = 1 .. Len(s) /\ Len(s) \in Nat
  BY <1>1, LenProperties
<1> QED BY <1>1, <1>2

\* A nonempty set of numbers up to n has a largest one.
LEMMA HasMax ==
  ASSUME NEW n \in Nat, NEW P \in SUBSET (1 .. n), P # {}
  PROVE  \E q \in P : \A s \in P : s <= q
<1> DEFINE T == {n - p : p \in P}
<1>1. T \subseteq Nat /\ T # {}
  <2>1. ASSUME NEW p \in P PROVE n - p \in Nat
    OBVIOUS
  <2>2. PICK p \in P : TRUE
    OBVIOUS
  <2>3. n - p \in T
    BY <2>2
  <2> QED BY <2>1, <2>3
<1> HIDE DEF T
<1>2. PICK x \in T : \A y \in T : ~ (<<y, x>> \in OpToRel(<, Nat))
  BY <1>1, WFMin, NatLessThanWellFounded
<1>3. \A y \in T : ~ (y < x)
  BY <1>1, <1>2 DEF OpToRel
<1>4. PICK q \in P : x = n - q
  BY DEF T
<1>5. \A s \in P : n - s \in T
  BY DEF T
<1> QED BY <1>3, <1>4, <1>5

\* The first record that waits for a key.
First(pending, k) == CHOOSE i \in Lookup(pending, k) : TRUE

\* A key that waits in a batch waits at the place that is looked up.
LEMMA FirstProps ==
  ASSUME NEW pending \in Seq(Write), NEW k, Lookup(pending, k) # {}
  PROVE  /\ First(pending, k) \in 1 .. Len(pending)
         /\ pending[First(pending, k)] \in Write
         /\ pending[First(pending, k)].key = k
<1>1. First(pending, k) \in Lookup(pending, k)
  BY DEF First
<1>2. First(pending, k) \in 1 .. Len(pending) /\ pending[First(pending, k)].key = k
  BY <1>1 DEF Lookup
<1> QED BY <1>2, ElementOfSeq

\* A write waits once for its key (Put, Delete over lookupPendingWrites).
LEMMA PendProps ==
  ASSUME NEW pending \in Seq(Write), NEW w \in Write
  PROVE  /\ Pend(pending, w) \in Seq(Write)
         /\ DistinctKeys(pending) => DistinctKeys(Pend(pending, w))
<1>0. Len(pending) \in Nat /\ \A i \in 1 .. Len(pending) : pending[i] \in Write
  BY LenProperties, ElementOfSeq
<1>1. CASE Lookup(pending, w.key) = {}
  <2>1. Pend(pending, w) = Append(pending, w)
    BY <1>1 DEF Pend
  <2>2. /\ Append(pending, w) \in Seq(Write)
        /\ Len(Append(pending, w)) = Len(pending) + 1
        /\ \A i \in 1 .. Len(pending) : Append(pending, w)[i] = pending[i]
        /\ Append(pending, w)[Len(pending) + 1] = w
    BY AppendProperties
  <2>3. \A i \in 1 .. Len(pending) : pending[i].key # w.key
    BY <1>1 DEF Lookup
  <2>4. ASSUME DistinctKeys(pending),
               NEW i \in 1 .. Len(pending) + 1, NEW j \in 1 .. Len(pending) + 1,
               Append(pending, w)[i].key = Append(pending, w)[j].key
        PROVE  i = j
    <3>1. CASE i <= Len(pending) /\ j <= Len(pending)
      BY <3>1, <2>2, <2>4, <1>0 DEF DistinctKeys
    <3>2. CASE i = Len(pending) + 1 \/ j = Len(pending) + 1
      BY <3>2, <2>2, <2>3, <2>4, <1>0
    <3> QED BY <3>1, <3>2, <1>0
  <2> QED BY <2>1, <2>2, <2>4 DEF DistinctKeys
<1>2. CASE Lookup(pending, w.key) # {}
  <2> DEFINE s == [i \in 1 .. Len(pending) |->
                     IF pending[i].key = w.key THEN w ELSE pending[i]]
  <2>1. Pend(pending, w) = s
    BY <1>2 DEF Pend
  <2>2. s \in [1 .. Len(pending) -> Write]
    BY <1>0
  <2>3. s \in Seq(Write) /\ Len(s) = Len(pending)
    BY <2>2, <1>0, SeqOfLen
  <2>4. \A i \in 1 .. Len(pending) : s[i].key = pending[i].key
    BY <1>0
  <2> HIDE DEF s
  <2> QED BY <2>1, <2>3, <2>4 DEF DistinctKeys
<1> QED BY <1>1, <1>2

\* A batch applied to a map gives a map, with the value that waits for a key.
LEMMA ApplyType ==
  ASSUME NEW m \in Map, NEW pending \in Seq(Write)
  PROVE  Apply(m, pending) \in Map
<1> SUFFICES ASSUME NEW k \in Keys
             PROVE  (IF Lookup(pending, k) = {} THEN m[k]
                     ELSE pending[First(pending, k)].val) \in Values \cup {Nil}
  BY DEF Apply, Map, First
<1>1. CASE Lookup(pending, k) = {}
  BY <1>1 DEF Map
<1>2. CASE Lookup(pending, k) # {}
  BY <1>2, FirstProps DEF Write
<1> QED BY <1>1, <1>2

\* What Commit hands to the log: a record for every write, then one mark.
IsEncoded(e, pending, ms, step) ==
  /\ e \in Seq(Record)
  /\ Len(e) = Len(pending) + 1
  /\ \A i \in 1 .. Len(pending) :
       /\ e[i].type = pending[i].type /\ e[i].key = pending[i].key
       /\ e[i].val = pending[i].val /\ IsWrite(e[i])
  /\ e[Len(pending) + 1].type = "finished"
  /\ \A i \in 1 .. Len(pending) + 1 : e[i].ms = ms /\ e[i].step = step

\* That is what Encode makes.
LEMMA EncodeProps ==
  ASSUME NEW pending \in Seq(Write), NEW ms \in Nat, NEW step \in Steps
  PROVE  IsEncoded(Encode(pending, ms, step), pending, ms, step)
<1>0. Len(pending) \in Nat /\ \A i \in 1 .. Len(pending) : pending[i] \in Write
  BY LenProperties, ElementOfSeq
<1> DEFINE n == Len(pending) + 1
           e == Encode(pending, ms, step)
<1>1. e = [i \in 1 .. n |-> e[i]] /\ DOMAIN e = 1 .. n
  BY DEF Encode
<1>2. \A i \in 1 .. Len(pending) :
        e[i] = [type |-> pending[i].type, key |-> pending[i].key,
                val |-> pending[i].val, ms |-> ms, step |-> step]
  BY <1>0 DEF Encode
<1>3. e[n] = [type |-> "finished", key |-> Nil, val |-> Nil, ms |-> ms, step |-> step]
  BY <1>0 DEF Encode
<1> HIDE DEF e
<1>4. ASSUME NEW i \in 1 .. Len(pending)
      PROVE  /\ e[i] \in Record /\ e[i].type # "finished"
             /\ e[i].type = pending[i].type /\ e[i].key = pending[i].key
             /\ e[i].val = pending[i].val /\ e[i].ms = ms /\ e[i].step = step
  <2>1. /\ pending[i].type \in {"normal", "deleted"} /\ pending[i].key \in Keys
        /\ pending[i].val \in Values \cup {Nil}
    BY <1>0 DEF Write
  <2>2. e[i] = [type |-> pending[i].type, key |-> pending[i].key,
                val |-> pending[i].val, ms |-> ms, step |-> step]
    BY <1>2
  <2> QED BY <2>1, <2>2 DEF Record
<1>5. e[n] \in Record
  BY <1>3 DEF Record
<1>6. \A i \in 1 .. n : e[i] \in Record
  BY <1>0, <1>4, <1>5
<1>7. e \in [1 .. n -> Record]
  BY <1>1, <1>6
<1>8. e \in Seq(Record) /\ Len(e) = n
  BY <1>0, <1>7, SeqOfLen
<1>9. e[n].ms = ms /\ e[n].step = step /\ e[n].type = "finished"
  BY <1>3
<1>10. \A i \in 1 .. n : e[i].ms = ms /\ e[i].step = step
  BY <1>0, <1>4, <1>9
<1>11. ASSUME NEW i \in 1 .. Len(pending)
       PROVE  /\ e[i].type = pending[i].type /\ e[i].key = pending[i].key
              /\ e[i].val = pending[i].val /\ IsWrite(e[i])
  BY <1>4 DEF IsWrite
<1> QED BY <1>8, <1>9, <1>10, <1>11 DEF e, IsEncoded

\* The map of an empty log is a map.
LEMMA EmptyMapType == EmptyMap \in Map
BY DEF EmptyMap, Map

\* The history holds maps.
LEMMA MapAtType ==
  ASSUME TypeOK, NEW n \in 0 .. Len(log)
  PROVE  MapAt(n) \in Map
<1>1. CASE n = 0
  BY <1>1, EmptyMapType DEF MapAt
<1>2. CASE n # 0
  <2>1. hist \in Seq(Map) /\ n \in 1 .. Len(hist)
    BY <1>2 DEF TypeOK
  <2> QED BY <2>1, <1>2, ElementOfSeq DEF MapAt
<1> QED BY <1>1, <1>2

\* The committed map is a map.
LEMMA CommittedType == TypeOK => Committed \in Map
<1> SUFFICES ASSUME TypeOK PROVE Committed \in Map
  OBVIOUS
<1>1. Len(log) \in Nat
  BY LenProperties DEF TypeOK
<1> QED BY <1>1, MapAtType DEF Committed

\* How the history of a log grows: old entries stay, the new ones hold the
\* committed map until the mark.
LEMMA HistWithProps ==
  ASSUME TypeOK, NEW pending \in Seq(Write), NEW n \in Nat
  PROVE  /\ HistWith(pending, n) \in Seq(Map)
         /\ Len(HistWith(pending, n)) = Len(log) + n
         /\ \A i \in 1 .. Len(log) : HistWith(pending, n)[i] = hist[i]
         /\ \A i \in 1 .. n : HistWith(pending, n)[Len(log) + i] =
              IF i <= Len(pending) THEN Committed ELSE Apply(Committed, pending)
<1> DEFINE t == [i \in 1 .. n |-> IF i <= Len(pending) THEN Committed
                                 ELSE Apply(Committed, pending)]
<1>0. hist \in Seq(Map) /\ Len(hist) = Len(log) /\ Len(log) \in Nat
  BY LenProperties DEF TypeOK
<1>1. t \in [1 .. n -> Map]
  BY CommittedType, ApplyType
<1>2. t \in Seq(Map) /\ Len(t) = n
  BY <1>1, SeqOfLen
<1>3. \A i \in 1 .. n : t[i] = IF i <= Len(pending) THEN Committed
                                ELSE Apply(Committed, pending)
  OBVIOUS
<1>4. HistWith(pending, n) = hist \o t
  BY DEF HistWith
<1> HIDE DEF t
<1>5. /\ hist \o t \in Seq(Map)
      /\ Len(hist \o t) = Len(hist) + Len(t)
      /\ \A i \in 1 .. Len(hist) + Len(t) :
           (hist \o t)[i] = IF i <= Len(hist) THEN hist[i] ELSE t[i - Len(hist)]
  BY <1>0, <1>2, ConcatProperties
<1>6. \A i \in 1 .. Len(log) : (hist \o t)[i] = hist[i]
  BY <1>0, <1>2, <1>5
<1>7. ASSUME NEW i \in 1 .. n PROVE (hist \o t)[Len(log) + i] = t[i]
  BY <1>0, <1>2, <1>5
<1> QED BY <1>0, <1>2, <1>3, <1>4, <1>5, <1>6, <1>7

\* The index that Commit leaves holds positions.
LEMMA IndexWithType ==
  ASSUME TypeOK, NEW pending \in Seq(Write), NEW base \in Nat
  PROVE  IndexWith(index, pending, base) \in [Keys -> Nat]
<1> SUFFICES ASSUME NEW k \in Keys
             PROVE  (IF Lookup(pending, k) = {} THEN index[k]
                     ELSE IF pending[First(pending, k)].type = "deleted" THEN 0
                     ELSE base + First(pending, k)) \in Nat
  BY DEF IndexWith, First
<1>1. CASE Lookup(pending, k) = {}
  BY <1>1 DEF TypeOK
<1>2. CASE Lookup(pending, k) # {}
  <2>1. First(pending, k) \in 1 .. Len(pending) /\ Len(pending) \in Nat
    BY <1>2, FirstProps, LenProperties
  <2> QED BY <1>2, <2>1
<1> QED BY <1>1, <1>2

\* The index that a mark leaves holds positions (loadIndexFromWAL).
LEMMA IndexBatchType ==
  ASSUME TypeOK, NEW r
  PROVE  IndexBatch(r) \in [Keys -> Nat]
<1> DEFINE P(k) == {p \in Waiting(r) : log[p].key = k}
           top(k) == CHOOSE q \in P(k) : \A s \in P(k) : s <= q
<1>1. Len(log) \in Nat
  BY LenProperties DEF TypeOK
<1> SUFFICES ASSUME NEW k \in Keys
             PROVE  (IF P(k) = {} THEN index[k]
                     ELSE IF log[top(k)].type = "normal" THEN top(k) ELSE 0) \in Nat
  BY DEF IndexBatch
<1>2. CASE P(k) = {}
  BY <1>2 DEF TypeOK
<1>3. CASE P(k) # {}
  <2>1. P(k) \in SUBSET (1 .. Len(log))
    BY DEF TypeOK, Waiting
  <2>2. \E q \in P(k) : \A s \in P(k) : s <= q
    BY <1>1, <1>3, <2>1, HasMax
  <2>3. top(k) \in P(k)
    BY <2>2
  <2>4. top(k) \in Nat
    BY <1>1, <2>1, <2>3
  <2> QED BY <1>3, <2>4
<1> QED BY <1>2, <1>3

\* A batch that ends leaves the lock and the batches in their types.
LEMMA EndBatchType ==
  ASSUME TypeOK, NEW c \in Clients, EndBatch(c)
  PROVE  /\ batch' \in [Clients -> Batch]
         /\ writer' \in Clients \cup {Nil} /\ readers' \subseteq Clients
<1>1. NoBatch \in Batch
  BY EmptySeq DEF NoBatch, Batch
<1>2. batch' \in [Clients -> Batch]
  BY <1>1 DEF EndBatch, TypeOK
<1> QED BY <1>2 DEF EndBatch, Unlock, TypeOK

\* A process that dies leaves the memory in its types.
LEMMA DieType ==
  ASSUME Die
  PROVE  /\ db' = "down" /\ index' \in [Keys -> Nat]
         /\ batch' \in [Clients -> Batch]
         /\ writer' \in Clients \cup {Nil} /\ readers' \subseteq Clients
         /\ cursor' = 0 /\ buffered' = {}
<1>1. NoBatch \in Batch
  <2>1. <<>> \in Seq(Write)
    BY EmptySeq
  <2> QED BY <2>1 DEF NoBatch, Batch
<1> QED BY <1>1 DEF Die

\* A log and its history grow together.
LEMMA GrowType ==
  ASSUME TypeOK, NEW pending \in Seq(Write), NEW step \in Steps,
         NEW n \in 0 .. Len(pending) + 1
  PROVE  /\ SubSeq(Encode(pending, now, step), 1, n) \in Seq(Record)
         /\ Len(SubSeq(Encode(pending, now, step), 1, n)) = n
         /\ \A i \in 1 .. n : SubSeq(Encode(pending, now, step), 1, n)[i]
                                 = Encode(pending, now, step)[i]
         /\ log \o SubSeq(Encode(pending, now, step), 1, n) \in Seq(Record)
         /\ Len(log \o SubSeq(Encode(pending, now, step), 1, n)) = Len(log) + n
<1>0. Len(pending) \in Nat /\ now \in Nat /\ log \in Seq(Record) /\ Len(log) \in Nat
  BY LenProperties, DiskvAssumption DEF TypeOK
<1> DEFINE e == Encode(pending, now, step)
<1>1. e \in Seq(Record) /\ Len(e) = Len(pending) + 1
  BY <1>0, EncodeProps DEF IsEncoded
<1> HIDE DEF e
<1>2. n \in Int /\ \A i \in 1 .. n : e[i] \in Record
  BY <1>0, <1>1, ElementOfSeq
<1>3. /\ SubSeq(e, 1, n) \in Seq(Record)
      /\ Len(SubSeq(e, 1, n)) = IF 1 <= n THEN n - 1 + 1 ELSE 0
      /\ \A i \in 1 .. n - 1 + 1 : SubSeq(e, 1, n)[i] = e[1 + i - 1]
  BY <1>2, SubSeqProperties
<1>4. Len(SubSeq(e, 1, n)) = n /\ \A i \in 1 .. n : SubSeq(e, 1, n)[i] = e[i]
  BY <1>0, <1>3
<1>5. /\ log \o SubSeq(e, 1, n) \in Seq(Record)
      /\ Len(log \o SubSeq(e, 1, n)) = Len(log) + n
  BY <1>0, <1>3, <1>4, ConcatProperties
<1> QED BY <1>3, <1>4, <1>5 DEF e

\* A machine that dies leaves nothing unreadable but what was, and the tail.
LEMMA CutTail ==
  ASSUME NEW n, MachineCrash(n)
  PROVE  torn' \subseteq {t \in torn : t < n} \cup {n}
<1>1. PICK cut \in SUBSET {n} : torn' = {t \in torn : t < n} \cup cut
  BY DEF MachineCrash
<1> QED BY <1>1

\* The types hold at the start.
LEMMA TypeInit == Init => TypeOK
<1> SUFFICES ASSUME Init PROVE TypeOK
  OBVIOUS
<1>1. log \in Seq(Record) /\ hist \in Seq(Map) /\ Len(log) = 0 /\ Len(hist) = 0
  BY EmptySeq DEF Init
<1>2. batch \in [Clients -> Batch]
  <2>1. NoBatch \in Batch
    BY EmptySeq DEF NoBatch, Batch
  <2> QED BY <2>1 DEF Init
<1>3. now \in 0 .. MaxOpens /\ cursor \in 0 .. Len(log) /\ buffered \subseteq 1 .. Len(log)
  BY <1>1, DiskvAssumption DEF Init
<1> QED BY <1>1, <1>2, <1>3 DEF Init, TypeOK

\* Every step keeps the types.
LEMMA TypeStep == TypeOK /\ [Next]_vars => TypeOK'
<1> SUFFICES ASSUME TypeOK, [Next]_vars PROVE TypeOK'
  OBVIOUS
<1> USE DEF disk, scan, ghost, lock
<1>0. /\ Len(log) \in Nat /\ now \in Nat /\ MaxOpens \in Nat
      /\ \A c \in Clients : /\ batch[c] \in Batch /\ batch[c].pending \in Seq(Write)
                            /\ Len(batch[c].pending) \in Nat
  BY LenProperties, DiskvAssumption DEF TypeOK, Batch
<1>1. ASSUME NEW c \in Clients, NEW ro \in BOOLEAN, NEW sync \in BOOLEAN,
             NewBatch(c, ro, sync)
      PROVE  TypeOK'
  <2>1. [NoBatch EXCEPT !.mode = "open", !.ro = ro, !.sync = sync] \in Batch
    BY EmptySeq DEF NoBatch, Batch
  <2>2. batch' \in [Clients -> Batch]
    BY <1>1, <2>1 DEF NewBatch, TypeOK
  <2> QED BY <1>1, <2>2 DEF NewBatch, TypeOK
<1>2. ASSUME NEW c \in Clients, NEW w \in Write,
             batch' = [batch EXCEPT ![c].pending = Pend(@, w)],
             UNCHANGED <<disk, db, now, index, wend, lock, scan, ghost>>
      PROVE  TypeOK'
  <2>1. Pend(batch[c].pending, w) \in Seq(Write)
    BY <1>0, PendProps
  <2>2. [batch[c] EXCEPT !.pending = Pend(@, w)] \in Batch
    BY <1>0, <2>1 DEF Batch
  <2>3. batch' \in [Clients -> Batch]
    BY <1>2, <2>2 DEF TypeOK
  <2> QED BY <1>2, <2>3 DEF TypeOK
<1>3. ASSUME NEW c \in Clients, NEW k \in Keys, NEW v \in Values, BatchPut(c, k, v)
      PROVE  TypeOK'
  BY <1>2, <1>3 DEF BatchPut, Write
<1>4. ASSUME NEW c \in Clients, NEW k \in Keys, BatchDelete(c, k) PROVE TypeOK'
  BY <1>2, <1>4 DEF BatchDelete, Write
<1>5. ASSUME NEW c \in Clients, CommitNothing(c) \/ CommitTooLarge(c) \/ Rollback(c)
      PROVE  TypeOK'
  <2>1. EndBatch(c) /\ UNCHANGED <<disk, db, now, index, wend, scan, ghost>>
    BY <1>5 DEF CommitNothing, CommitTooLarge, Rollback
  <2> QED BY <2>1, EndBatchType DEF TypeOK
<1>6. ASSUME NEW c \in Clients, NEW step \in Steps, CommitWrite(c, step) PROVE TypeOK'
  <2> DEFINE pending == batch[c].pending
             e == Encode(pending, now, step)
  <2>1. e \in Seq(Record) /\ Len(e) = Len(pending) + 1
    <3>1. pending \in Seq(Write)
      BY <1>0
    <3>2. IsEncoded(e, pending, now, step)
      BY <1>0, <3>1, EncodeProps
    <3> QED BY <3>2 DEF IsEncoded
  <2>2. log \o e \in Seq(Record) /\ Len(log \o e) = Len(log) + (Len(pending) + 1)
    <3>1. log \in Seq(Record)
      BY DEF TypeOK
    <3> HIDE DEF e
    <3>2. log \o e \in Seq(Record) /\ Len(log \o e) = Len(log) + Len(e)
      BY <2>1, <3>1, ConcatProperties
    <3> QED BY <2>1, <3>2
  <2>3. /\ HistWith(pending, Len(pending) + 1) \in Seq(Map)
        /\ Len(HistWith(pending, Len(pending) + 1)) = Len(log) + (Len(pending) + 1)
    BY <1>0, HistWithProps
  <2>4. [batch[c] EXCEPT !.mode = "written", !.base = wend] \in Batch
    BY <1>0 DEF Batch, TypeOK
  <2>5. batch' \in [Clients -> Batch]
    BY <1>6, <2>4 DEF CommitWrite, TypeOK
  <2>6. log' = log \o e /\ hist' = HistWith(pending, Len(pending) + 1)
    BY <1>6 DEF CommitWrite
  <2>7. log' \in Seq(Record) /\ hist' \in Seq(Map) /\ Len(hist') = Len(log')
        /\ Len(log') = Len(log) + Len(pending) + 1
    BY <1>0, <2>2, <2>3, <2>6
  <2>8. cursor' \in 0 .. Len(log') /\ buffered' \subseteq 1 .. Len(log')
    BY <1>0, <1>6, <2>7, SMTT(30) DEF CommitWrite, TypeOK
  <2>9. wend' \in Nat
    BY <1>0, <1>6 DEF CommitWrite, TypeOK
  <2>10. torn' \subseteq 0 .. Len(log')
    <3>1. torn' \subseteq torn \cup {Len(log)}
      BY <1>6 DEF CommitWrite, Misplaced
    <3>2. torn \subseteq 0 .. Len(log)
      BY DEF TypeOK
    <3> HIDE DEF e, pending
    <3>3. \A t \in 0 .. Len(log) : t \in 0 .. Len(log')
      BY <1>0, <2>7
    <3>4. Len(log) \in 0 .. Len(log)
      BY <1>0
    <3> QED BY <3>1, <3>2, <3>3, <3>4
  <2> QED BY <1>6, <2>5, <2>7, <2>8, <2>9, <2>10 DEF CommitWrite, TypeOK
<1>7. ASSUME NEW c \in Clients, CommitIndex(c) PROVE TypeOK'
  <2>1. index' \in [Keys -> Nat]
    BY <1>0, <1>7, IndexWithType DEF CommitIndex, Batch
  <2>2. synced' \in Nat /\ acked' \in Nat
    BY <1>0, <1>7 DEF CommitIndex, CommitFsync, TypeOK
  <2> QED BY <1>7, <2>1, <2>2, EndBatchType DEF CommitIndex, TypeOK
<1>8. CASE Sync
  BY <1>0, <1>8 DEF Sync, TypeOK
<1>9. ASSUME Die, UNCHANGED <<disk, now, wend, ghost>> PROVE TypeOK'
  BY <1>0, <1>9, DieType DEF TypeOK
<1>10. CASE Close
  BY <1>9, <1>10 DEF Close
<1>11. CASE ProcessCrash
  BY <1>9, <1>11 DEF ProcessCrash
<1>12. ASSUME NEW c \in Clients, FsyncFails(c) PROVE TypeOK'
  BY <1>12, EndBatchType DEF FsyncFails, TypeOK
<1>13. ASSUME NEW c \in Clients, NEW step \in Steps, NEW n \in 0 .. Len(batch[c].pending),
              log' = log \o SubSeq(Encode(batch[c].pending, now, step), 1, n),
              hist' = HistWith(batch[c].pending, n)
       PROVE  /\ log' \in Seq(Record) /\ hist' \in Seq(Map)
              /\ Len(log') = Len(log) + n /\ Len(hist') = Len(log')
  <2>1. n \in Nat /\ n \in 0 .. Len(batch[c].pending) + 1
    BY <1>0
  <2>2. hist' \in Seq(Map) /\ Len(hist') = Len(log) + n
    BY <1>0, <1>13, <2>1, HistWithProps
  <2>3. log' \in Seq(Record) /\ Len(log') = Len(log) + n
    BY <1>0, <1>13, <2>1, GrowType
  <2> QED BY <2>2, <2>3
<1>14. ASSUME NEW c \in Clients, NEW step \in Steps, NEW n \in 0 .. MaxLog,
              CrashInWrite(c, step, n)
       PROVE  TypeOK'
  <2>1. n \in 0 .. Len(batch[c].pending)
    BY <1>14 DEF CrashInWrite
  <2>2. /\ log' \in Seq(Record) /\ hist' \in Seq(Map)
        /\ Len(log') = Len(log) + n /\ Len(hist') = Len(log')
    BY <1>13, <1>14, <2>1 DEF CrashInWrite
  <2>3. Die
    BY <1>14 DEF CrashInWrite
  <2>4. torn' \subseteq 0 .. Len(log')
    <3>1. torn' \subseteq torn \cup {Len(log), Len(log) + n}
      BY <1>14 DEF CrashInWrite, Misplaced
    <3>2. torn \subseteq 0 .. Len(log)
      BY DEF TypeOK
    <3>3. \A t \in 0 .. Len(log) : t \in 0 .. Len(log')
      BY <1>0, <2>1, <2>2
    <3>4. Len(log) \in 0 .. Len(log) /\ Len(log) + n \in 0 .. Len(log')
      BY <1>0, <2>1, <2>2
    <3> QED BY <3>1, <3>2, <3>3, <3>4
  <2> QED BY <1>0, <1>14, <2>2, <2>3, <2>4, DieType DEF CrashInWrite, TypeOK
<1>15. ASSUME NEW c \in Clients, NEW step \in Steps, NEW n \in 0 .. MaxLog,
              WriteFails(c, step, n)
       PROVE  TypeOK'
  <2>1. n \in 0 .. Len(batch[c].pending)
    BY <1>15 DEF WriteFails
  <2>2. /\ log' \in Seq(Record) /\ hist' \in Seq(Map)
        /\ Len(log') = Len(log) + n /\ Len(hist') = Len(log')
    BY <1>13, <1>15, <2>1 DEF WriteFails
  <2>3. cursor' \in 0 .. Len(log') /\ buffered' \subseteq 1 .. Len(log')
    BY <1>0, <1>15, <2>1, <2>2 DEF WriteFails, TypeOK
  <2>4. torn' \subseteq 0 .. Len(log')
    <3>1. torn' \subseteq torn \cup {Len(log), Len(log) + n}
      BY <1>15 DEF WriteFails, Misplaced
    <3>2. torn \subseteq 0 .. Len(log)
      BY DEF TypeOK
    <3>3. \A t \in 0 .. Len(log) : t \in 0 .. Len(log')
      BY <1>0, <2>1, <2>2
    <3>4. Len(log) \in 0 .. Len(log) /\ Len(log) + n \in 0 .. Len(log')
      BY <1>0, <2>1, <2>2
    <3> QED BY <3>1, <3>2, <3>3, <3>4
  <2> QED BY <1>15, <2>2, <2>3, <2>4, EndBatchType DEF WriteFails, TypeOK
<1>16. ASSUME NEW n \in 0 .. MaxLog, MachineCrash(n) PROVE TypeOK'
  <2>0. n \in 0 .. Len(log) /\ log \in Seq(Record) /\ hist \in Seq(Map)
        /\ Len(hist) = Len(log)
    BY <1>16, DiskvAssumption DEF MachineCrash, TypeOK
  <2>1. /\ \A i \in 1 .. n : log[i] \in Record
        /\ \A i \in 1 .. n : hist[i] \in Map
    BY <1>0, <2>0, ElementOfSeq
  <2>2. SubSeq(log, 1, n) \in Seq(Record) /\ SubSeq(hist, 1, n) \in Seq(Map)
        /\ Len(SubSeq(log, 1, n)) = n /\ Len(SubSeq(hist, 1, n)) = n
    BY <1>0, <2>0, <2>1, SubSeqProperties
  <2>3. torn' \subseteq 0 .. Len(log')
    <3>1. torn' \subseteq {t \in torn : t < n} \cup {n}
      BY <1>16, CutTail
    <3>2. torn \subseteq 0 .. Len(log) /\ Len(log') = n
      BY <1>16, <2>2 DEF MachineCrash, TypeOK
    <3>3. \A t \in torn : t < n => t \in 0 .. n
      BY <1>0, <2>0, <3>2
    <3>4. n \in 0 .. n
      BY <1>0, <2>0
    <3> QED BY <3>1, <3>2, <3>3, <3>4
  <2>4. Len(log') \in Nat
    BY <1>16, <2>2, LenProperties DEF MachineCrash
  <2> QED BY <1>16, <2>2, <2>3, <2>4, DieType DEF MachineCrash, TypeOK
<1>18. CASE Open
  BY <1>0, <1>18 DEF Open, TypeOK
<1>19. CASE LoadRecord
  <2>1. index' \in [Keys -> Nat]
    BY <1>19, IndexBatchType DEF LoadRecord, TypeOK
  <2>2. cursor' = cursor + 1 /\ cursor + 1 \in 1 .. Len(log)
    BY <1>0, <1>19 DEF LoadRecord, TypeOK
  <2>3. buffered' \subseteq buffered \cup {cursor + 1}
    BY <1>19 DEF LoadRecord
  <2>4. buffered' \subseteq 1 .. Len(log)
    BY <2>2, <2>3 DEF TypeOK
  <2> QED BY <1>0, <1>19, <2>1, <2>2, <2>4 DEF LoadRecord, TypeOK
<1>20. CASE LoadDone \/ LoadFails
  <2>1. /\ db' \in {"open", "corrupt"} /\ cursor' = 0 /\ buffered' = {}
        /\ UNCHANGED <<disk, now, index, wend, lock, batch, ghost>>
    BY <1>20 DEF LoadDone, LoadFails
  <2> QED BY <1>0, <2>1 DEF TypeOK
<1>21. CASE UNCHANGED vars
  BY <1>0, <1>21 DEF vars, TypeOK
<1> QED
  BY <1>1, <1>3, <1>4, <1>5, <1>6, <1>7, <1>8, <1>10, <1>11, <1>12, <1>14, <1>15,
     <1>16, <1>18, <1>19, <1>20, <1>21
  DEF Next, ClientStep, FaultStep

\* Every variable keeps its type, under any of the faults (TypeOK).
THEOREM TypeCorrect == Spec => []TypeOK
BY TypeInit, TypeStep, PTL DEF Spec

-----------------------------------------------------------------------------
(* The lock *)

\* A batch that ends gives the lock back in its mode, and was in it.
LEMMA EndBatchLock ==
  ASSUME TypeOK, LockInv, NEW c \in Clients, InBatch(c), EndBatch(c), db' = db
  PROVE  LockInv'
<1>1. /\ batch'[c].mode = "none"
      /\ \A d \in Clients : d # c => batch'[d] = batch[d]
  BY DEF EndBatch, NoBatch, TypeOK
<1>2. Unlock(c)
  BY DEF EndBatch
<1>3. CASE batch[c].ro
  <2>1. c \in readers /\ readers' = readers \ {c} /\ writer' = writer
    BY <1>2, <1>3 DEF Unlock, LockInv
  <2> QED BY <1>1, <2>1 DEF LockInv, InBatch
<1>4. CASE ~ batch[c].ro
  <2>1. writer = c /\ writer' = Nil /\ readers' = readers
    BY <1>2, <1>4 DEF Unlock, LockInv
  <2> QED BY <1>1, <2>1 DEF LockInv, InBatch
<1> QED BY <1>3, <1>4 DEF TypeOK, Batch

\* A process that died holds no lock.
LEMMA DieLock == Die => LockInv'
BY DEF Die, LockInv, InBatch, NoBatch

\* Every step keeps the lock in agreement with the batches.
LEMMA LockStep ==
  ASSUME TypeOK, LockInv, [Next]_vars
  PROVE  LockInv'
<1> USE DEF disk, scan, ghost, lock
<1>1. ASSUME NEW c \in Clients, NEW ro \in BOOLEAN, NEW sync \in BOOLEAN,
             NewBatch(c, ro, sync)
      PROVE  LockInv'
  <2>1. /\ batch'[c].mode = "open" /\ batch'[c].ro = ro
        /\ \A d \in Clients : d # c => batch'[d] = batch[d]
    BY <1>1 DEF NewBatch, NoBatch, TypeOK
  <2>2. c # Nil /\ db' = "open" /\ writer = Nil
    BY <1>1, DiskvAssumption DEF NewBatch
  <2>3. CASE ro
    <3>1. readers' = readers \cup {c} /\ writer' = Nil
      BY <1>1, <2>3 DEF NewBatch
    <3> QED BY <2>1, <2>2, <2>3, <3>1 DEF LockInv, InBatch
  <2>4. CASE ~ ro
    <3>1. readers = {} /\ readers' = {} /\ writer' = c
      BY <1>1, <2>4 DEF NewBatch
    <3>2. \A d \in Clients : ~ InBatch(d)
      BY <2>2, <3>1, DiskvAssumption DEF LockInv
    <3> QED BY <2>1, <2>2, <2>4, <3>1, <3>2 DEF LockInv, InBatch
  <2> QED BY <2>3, <2>4
<1>2. ASSUME NEW c \in Clients, NEW w,
             batch' = [batch EXCEPT ![c].pending = Pend(@, w)],
             UNCHANGED <<db, lock>>
      PROVE  LockInv'
  <2>1. \A d \in Clients : batch'[d].mode = batch[d].mode /\ batch'[d].ro = batch[d].ro
    BY <1>2 DEF TypeOK, Batch
  <2> QED BY <1>2, <2>1 DEF LockInv, InBatch
<1>3. ASSUME NEW c \in Clients, NEW k \in Keys, NEW v \in Values, BatchPut(c, k, v)
      PROVE  LockInv'
  BY <1>2, <1>3 DEF BatchPut
<1>4. ASSUME NEW c \in Clients, NEW k \in Keys, BatchDelete(c, k) PROVE LockInv'
  BY <1>2, <1>4 DEF BatchDelete
<1>5. ASSUME NEW c \in Clients, CommitNothing(c) \/ CommitTooLarge(c) \/ Rollback(c)
      PROVE  LockInv'
  <2>1. EndBatch(c) /\ InBatch(c) /\ db' = db
    BY <1>5 DEF CommitNothing, CommitTooLarge, Rollback, CanWrite, InBatch
  <2> QED BY <2>1, EndBatchLock
<1>6. ASSUME NEW c \in Clients, NEW step \in Steps, CommitWrite(c, step) PROVE LockInv'
  <2>1. /\ batch[c].mode = "open" /\ ~ batch[c].ro
        /\ batch'[c].mode = "written" /\ batch'[c].ro = batch[c].ro
        /\ \A d \in Clients : d # c => batch'[d] = batch[d]
    BY <1>6 DEF CommitWrite, Committing, CanWrite, TypeOK, Batch
  <2>2. UNCHANGED <<db, writer, readers>>
    BY <1>6 DEF CommitWrite
  <2> QED BY <2>1, <2>2 DEF LockInv, InBatch
<1>7. ASSUME NEW c \in Clients, CommitIndex(c) PROVE LockInv'
  <2>1. EndBatch(c) /\ InBatch(c) /\ db' = db
    BY <1>7 DEF CommitIndex, InBatch
  <2> QED BY <2>1, EndBatchLock
<1>8. ASSUME NEW c \in Clients, NEW step \in Steps, NEW n \in 0 .. MaxLog,
             WriteFails(c, step, n)
      PROVE  LockInv'
  <2>1. EndBatch(c) /\ InBatch(c) /\ db' = db
    BY <1>8 DEF WriteFails, Committing, CanWrite, InBatch
  <2> QED BY <2>1, EndBatchLock
<1>9. CASE Close \/ ProcessCrash
  BY <1>9, DieLock DEF Close, ProcessCrash
<1>10. ASSUME NEW n \in 0 .. MaxLog, MachineCrash(n) PROVE LockInv'
  BY <1>10, DieLock DEF MachineCrash
<1>11. ASSUME NEW c \in Clients, NEW step \in Steps, NEW n \in 0 .. MaxLog,
              CrashInWrite(c, step, n)
       PROVE  LockInv'
  BY <1>11, DieLock DEF CrashInWrite
<1>12. ASSUME NEW c \in Clients, FsyncFails(c) PROVE LockInv'
  <2>1. EndBatch(c) /\ InBatch(c) /\ db' = db
    BY <1>12 DEF FsyncFails, InBatch
  <2> QED BY <2>1, EndBatchLock
<1>13. CASE Sync \/ LoadRecord
  <2>1. UNCHANGED <<db, writer, readers, batch>>
    BY <1>13 DEF Sync, LoadRecord
  <2> QED BY <2>1 DEF LockInv, InBatch
<1>14. CASE Open \/ LoadDone \/ LoadFails
  <2>1. db # "open" /\ UNCHANGED <<writer, readers, batch>>
    BY <1>14 DEF Open, LoadDone, LoadFails
  <2> QED BY <2>1 DEF LockInv, InBatch
<1>15. CASE UNCHANGED vars
  BY <1>15 DEF vars, LockInv, InBatch
<1> QED
  BY <1>1, <1>3, <1>4, <1>5, <1>6, <1>7, <1>8, <1>9, <1>10, <1>11, <1>12, <1>13,
     <1>14, <1>15
  DEF Next, ClientStep, FaultStep

\* A batch that writes is alone, whatever crashes or fails (Batch.lock,
\* Batch.unlock).
THEOREM WriterAlone == Spec => []OneWriter
<1>1. Init => LockInv
  BY DEF Init, LockInv, InBatch, NoBatch
<1>2. TypeOK /\ LockInv /\ [Next]_vars => LockInv'
  BY LockStep
<1>3. LockInv => OneWriter
  <2> SUFFICES ASSUME LockInv, NEW c \in Clients, NEW d \in Clients,
                      c # d, InBatch(c), InBatch(d), ~ batch[c].ro \/ ~ batch[d].ro
               PROVE  FALSE
    BY DEF OneWriter
  <2>1. writer = c \/ writer = d
    BY DEF LockInv
  <2>2. readers = {}
    BY <2>1, DiskvAssumption DEF LockInv
  <2>3. writer = c /\ writer = d
    BY <2>2 DEF LockInv
  <2> QED BY <2>3
<1> QED BY <1>1, <1>2, <1>3, TypeCorrect, PTL DEF Spec

-----------------------------------------------------------------------------
(* What a commit does to the log *)

\* The log with a batch and its mark appended.
Grown(pending, step) == log \o Encode(pending, now, step)

\* lg is the log with a batch of m records and its mark appended at L.
Extends(lg, L, m, pending, step) ==
  /\ L \in Nat /\ m \in Nat /\ now \in Nat
  /\ lg \in Seq(Record) /\ Len(lg) = L + m + 1
  /\ Agree(log, lg, L)
  /\ \A q \in L + 1 .. L + m :
       /\ q - L \in 1 .. m
       /\ lg[q].key = pending[q - L].key /\ lg[q].type = pending[q - L].type
       /\ lg[q].val = pending[q - L].val
       /\ IsWrite(lg[q])
  /\ lg[L + m + 1].type = "finished"
  /\ \A q \in L + 1 .. L + m + 1 : lg[q].ms = now /\ lg[q].step = step

\* The records of the grown log, by position.
LEMMA GrownRecords ==
  ASSUME TypeOK, NEW pending \in Seq(Write), NEW step \in Steps,
         NEW L, NEW m, NEW lg,
         L = Len(log), m = Len(pending), lg = Grown(pending, step)
  PROVE  Extends(lg, L, m, pending, step)
<1>0. /\ Len(log) \in Nat /\ Len(pending) \in Nat /\ now \in Nat
      /\ log \in Seq(Record)
  BY LenProperties, DiskvAssumption DEF TypeOK
<1>11. PICK e : e = Encode(pending, now, step)
  OBVIOUS
<1>12. IsEncoded(e, pending, now, step)
  BY <1>0, <1>11, EncodeProps
<1>1. /\ e \in Seq(Record) /\ Len(e) = m + 1
      /\ \A i \in 1 .. m : /\ e[i].key = pending[i].key /\ e[i].type = pending[i].type
                          /\ e[i].val = pending[i].val /\ IsWrite(e[i])
      /\ e[m + 1].type = "finished"
      /\ \A i \in 1 .. m + 1 : e[i].ms = now /\ e[i].step = step
  BY <1>0, <1>12 DEF IsEncoded
<1>2. /\ log \o e \in Seq(Record)
      /\ Len(log \o e) = Len(log) + Len(e)
      /\ \A i \in 1 .. Len(log) + Len(e) :
           (log \o e)[i] = IF i <= Len(log) THEN log[i] ELSE e[i - Len(log)]
  BY <1>0, <1>1, ConcatProperties
<1>3. lg = log \o e
  BY <1>11 DEF Grown
<1>4. /\ lg \in Seq(Record) /\ Len(lg) = L + (m + 1)
      /\ \A i \in 1 .. L + (m + 1) : lg[i] = IF i <= L THEN log[i] ELSE e[i - L]
  BY <1>1, <1>2, <1>3
<1>5. L \in Nat /\ m \in Nat
  BY <1>0
<1>6. Agree(log, lg, L)
  <2> SUFFICES ASSUME NEW i \in 1 .. L PROVE log[i] = lg[i]
    BY DEF Agree
  <2>1. i \in 1 .. L + (m + 1) /\ i <= L
    BY <1>5
  <2> QED BY <1>4, <2>1
<1>7. ASSUME NEW q \in L + 1 .. L + m + 1
      PROVE  q - L \in 1 .. m + 1 /\ lg[q] = e[q - L]
  <2>1. q \in 1 .. L + (m + 1) /\ ~ (q <= L) /\ q - L \in 1 .. m + 1
    BY <1>5
  <2> QED BY <1>4, <2>1
<1>8. ASSUME NEW q \in L + 1 .. L + m
      PROVE  /\ q - L \in 1 .. m
             /\ lg[q].key = pending[q - L].key /\ lg[q].type = pending[q - L].type
             /\ lg[q].val = pending[q - L].val
             /\ IsWrite(lg[q])
  <2>1. q \in L + 1 .. L + m + 1 /\ q - L \in 1 .. m
    BY <1>5
  <2>2. lg[q] = e[q - L]
    BY <1>7, <2>1
  <2> QED BY <1>1, <2>1, <2>2
<1>9. lg[L + m + 1].type = "finished"
  <2>1. L + m + 1 \in L + 1 .. L + m + 1 /\ (L + m + 1) - L = m + 1
    BY <1>5
  <2> QED BY <1>1, <1>7, <2>1
<1>10. Len(lg) = L + m + 1
  BY <1>4, <1>5
<1> QED BY <1>0, <1>1, <1>4, <1>5, <1>6, <1>7, <1>8, <1>9, <1>10 DEF Extends

\* The shape of the grown log.
LEMMA GrownShape ==
  ASSUME TypeOK, LogInv, db = "open",
         NEW pending \in Seq(Write), DistinctKeys(pending), NEW step \in Steps,
         NEW L, NEW m, NEW lg,
         L = Len(log), m = Len(pending), Extends(lg, L, m, pending, step)
  PROVE  /\ Contiguous(lg, L + m + 1)
         /\ OncePerKey(lg, L + m + 1)
         /\ Unended(lg, lg[L + m + 1], L + m) = L + 1 .. L + m
         /\ \A p \in 1 .. L + m + 1 :
              IsWrite(lg[p]) /\ ~ Ended(lg, p, L + m + 1) => lg[p].ms < now
<1>1. /\ L \in Nat /\ m \in Nat /\ now \in Nat
      /\ Agree(log, lg, L)
      /\ \A q \in L + 1 .. L + m :
           /\ q - L \in 1 .. m /\ lg[q].key = pending[q - L].key
           /\ IsWrite(lg[q])
      /\ lg[L + m + 1].type = "finished"
      /\ \A q \in L + 1 .. L + m + 1 : lg[q].ms = now /\ lg[q].step = step
  BY DEF Extends
<1>2. Contiguous(lg, L) /\ OncePerKey(lg, L)
  BY <1>1, ContiguousPrefix, OncePerKeyPrefix DEF LogInv
<1>3. ASSUME NEW p \in 1 .. L
      PROVE  /\ lg[p].ms \in Nat
             /\ IsWrite(lg[p]) /\ ~ Ended(lg, p, L) => lg[p].ms < now
  <2>1. lg[p] = log[p] /\ log[p] \in Record
    BY <1>1, ElementOfSeq DEF Agree, TypeOK
  <2>2. Ended(log, p, L) <=> Ended(lg, p, L)
    BY <1>1, EndedAgree
  <2>3. lg[p].ms \in Nat
    BY <2>1 DEF Record
  <2>4. IsWrite(log[p]) /\ ~ Ended(log, p, L) => log[p].ms < now
    BY DEF LogInv
  <2> QED BY <2>1, <2>2, <2>3, <2>4
<1>4. ASSUME NEW p \in L + 1 .. L + m, NEW q \in L + 1 .. L + m, lg[p].key = lg[q].key
      PROVE  p = q
  <2>1. PICK i \in 1 .. m : i = p - L /\ lg[p].key = pending[i].key
    BY <1>1
  <2>2. PICK j \in 1 .. m : j = q - L /\ lg[q].key = pending[j].key
    BY <1>1
  <2>3. i \in 1 .. Len(pending) /\ j \in 1 .. Len(pending)
        /\ pending[i].key = pending[j].key
    BY <1>4, <2>1, <2>2
  <2>4. i = j
    BY <2>3 DEF DistinctKeys
  <2>5. p - L = q - L
    BY <2>1, <2>2, <2>4
  <2> QED BY <1>1, <2>5
<1>5. \A q \in L + 1 .. L + m + 1 : lg[q].step = lg[L + m + 1].step
  BY <1>1
<1>6. \A p \in 1 .. L : lg[p].ms \in Nat
  BY <1>3
<1>7. \A p \in 1 .. L : IsWrite(lg[p]) /\ ~ Ended(lg, p, L) => lg[p].ms < now
  BY <1>3
<1>8. \A p, q \in L + 1 .. L + m : lg[p].key = lg[q].key => p = q
  BY <1>4
<1>9. \A q \in L + 1 .. L + m : IsWrite(lg[q])
  BY <1>1
<1>10. \A q \in L + 1 .. L + m + 1 : lg[q].ms = now
  BY <1>1
<1>11. L \in Nat /\ m \in Nat /\ now \in Nat /\ lg[L + m + 1].type = "finished"
  BY <1>1
<1> QED BY <1>2, <1>5, <1>6, <1>7, <1>8, <1>9, <1>10, <1>11, AppendBatch, ZenonT(60)

\* The index that Commit leaves is right for the grown log.
LEMMA GrownIndex ==
  ASSUME TypeOK, LogInv, db = "open", IndexOK(index, log, Len(log)),
         NEW pending \in Seq(Write), DistinctKeys(pending), NEW step \in Steps,
         NEW L, NEW m, NEW lg,
         L = Len(log), m = Len(pending), Extends(lg, L, m, pending, step)
  PROVE  IndexOK(IndexWith(index, pending, L), lg, L + m + 1)
<1>1. /\ L \in Nat /\ m \in Nat
      /\ lg \in Seq(Record) /\ Len(lg) = L + m + 1
      /\ Agree(log, lg, L)
      /\ \A q \in L + 1 .. L + m :
           /\ q - L \in 1 .. m
           /\ lg[q].key = pending[q - L].key /\ lg[q].type = pending[q - L].type
           /\ IsWrite(lg[q])
      /\ lg[L + m + 1].type = "finished"
  BY DEF Extends
<1>2. /\ Contiguous(lg, L + m + 1) /\ OncePerKey(lg, L + m + 1)
      /\ Unended(lg, lg[L + m + 1], L + m) = L + 1 .. L + m
  BY GrownShape
<1>3. IndexOK(index, lg, L + m)
  <2>1. IndexOK(index, lg, L)
    BY <1>1, IndexAgree
  <2>2. \A q \in L + 1 .. L + m : lg[q].type # "finished"
    BY <1>1 DEF IsWrite
  <2>3. L + m \in Nat /\ L <= L + m
    BY <1>1
  <2> QED BY <1>1, <2>1, <2>2, <2>3, IndexUnmarked
<1>4. \A p \in 1 .. L + m : lg[p].type \in {"normal", "deleted", "finished"}
  <2> TAKE p \in 1 .. L + m
  <2>1. p \in 1 .. Len(lg)
    BY <1>1
  <2>2. lg[p] \in Record
    BY <1>1, <2>1, ElementOfSeq
  <2> QED BY <2>2 DEF Record
<1> DEFINE iy == IndexWith(index, pending, L)
<1>5. ASSUME NEW k \in Keys, \A p \in L + 1 .. L + m : lg[p].key # k
      PROVE  iy[k] = index[k]
  <2>1. ASSUME NEW i \in 1 .. m PROVE pending[i].key # k
    <3>1. L + i \in L + 1 .. L + m /\ (L + i) - L = i
      BY <1>1
    <3> QED BY <1>1, <1>5, <3>1, ZenonT(60)
  <2>2. Lookup(pending, k) = {}
    BY <2>1 DEF Lookup
  <2> QED BY <2>2 DEF IndexWith
<1>6. ASSUME NEW k \in Keys, NEW p \in L + 1 .. L + m, lg[p].key = k
      PROVE  iy[k] = IF lg[p].type = "normal" THEN p ELSE 0
  <2>1. p - L \in 1 .. m /\ pending[p - L].key = k /\ lg[p].type = pending[p - L].type
    BY <1>1, <1>6
  <2>2. p - L \in Lookup(pending, k) /\ Lookup(pending, k) # {}
    BY <2>1 DEF Lookup
  <2>3. /\ First(pending, k) \in 1 .. m /\ pending[First(pending, k)] \in Write
        /\ pending[First(pending, k)].key = k
    BY <2>2, FirstProps
  <2>4. First(pending, k) = p - L
    BY <2>1, <2>3 DEF DistinctKeys
  <2>5. iy[k] = IF pending[First(pending, k)].type = "deleted" THEN 0
                ELSE L + First(pending, k)
    BY <2>2 DEF IndexWith, First
  <2>6. pending[p - L].type \in {"normal", "deleted"} /\ L + (p - L) = p
    BY <1>1, <2>3, <2>4 DEF Write
  <2> QED BY <2>1, <2>4, <2>5, <2>6
<1>7. \A k \in Keys : (\A p \in Unended(lg, lg[L + m + 1], L + m) : lg[p].key # k)
                     => iy[k] = index[k]
  BY <1>2, <1>5
<1>8. \A k \in Keys : \A p \in Unended(lg, lg[L + m + 1], L + m) :
        lg[p].key = k => iy[k] = IF lg[p].type = "normal" THEN p ELSE 0
  BY <1>2, <1>6
<1> HIDE DEF iy
<1>9. L + m \in Nat
  BY <1>1
<1>10. IndexOK(iy, lg, L + m + 1)
  <2>1. PICK n : n = L + m
    OBVIOUS
  <2>2. n \in Nat /\ lg[n + 1].type = "finished"
    BY <1>1, <1>9, <2>1
  <2>3. Contiguous(lg, n + 1) /\ OncePerKey(lg, n + 1) /\ IndexOK(index, lg, n)
    BY <1>2, <1>3, <2>1
  <2>4. \A p \in 1 .. n : lg[p].type \in {"normal", "deleted", "finished"}
    BY <1>4, <2>1
  <2>5. \A k \in Keys : (\A p \in Unended(lg, lg[n + 1], n) : lg[p].key # k) => iy[k] = index[k]
    BY <1>7, <2>1
  <2>6. \A k \in Keys : \A p \in Unended(lg, lg[n + 1], n) :
          lg[p].key = k => iy[k] = IF lg[p].type = "normal" THEN p ELSE 0
    BY <1>8, <2>1
  <2>7. IndexOK(iy, lg, n + 1)
    BY <2>2, <2>3, <2>4, <2>5, <2>6, IndexMark
  <2> QED BY <2>1, <2>7
<1> QED BY <1>10 DEF iy

\* The map after the batch is what the new index reads.
LEMMA GrownMap ==
  ASSUME TypeOK, LogInv, HistInv, db = "open", IndexOK(index, log, Len(log)),
         NEW pending \in Seq(Write), DistinctKeys(pending), NEW step \in Steps,
         NEW L, NEW m, NEW lg,
         L = Len(log), m = Len(pending), Extends(lg, L, m, pending, step)
  PROVE  MapOK(Apply(Committed, pending), lg, L + m + 1)
<1> DEFINE iy == IndexWith(index, pending, L)
<1>1. /\ L \in Nat /\ m \in Nat
      /\ Agree(log, lg, L)
      /\ \A q \in L + 1 .. L + m :
           /\ q - L \in 1 .. m /\ lg[q].val = pending[q - L].val
  BY DEF Extends
<1>2. IndexOK(iy, lg, L + m + 1)
  BY GrownIndex
<1>3. MapOK(Committed, log, L)
  BY <1>1 DEF HistInv, Committed
<1>4. ASSUME NEW k \in Keys
      PROVE  Apply(Committed, pending)[k] = IF iy[k] = 0 THEN Nil ELSE lg[iy[k]].val
  <2>1. CASE Lookup(pending, k) = {}
    <3>1. Apply(Committed, pending)[k] = Committed[k] /\ iy[k] = index[k]
      BY <2>1 DEF Apply, IndexWith
    <3>2. Committed[k] = IF index[k] = 0 THEN Nil ELSE log[index[k]].val
      BY <1>1, <1>3, IndexReadsMap
    <3>3. index[k] # 0 => log[index[k]] = lg[index[k]]
      BY <1>1 DEF IndexOK, Agree
    <3> QED BY <3>1, <3>2, <3>3
  <2>2. CASE Lookup(pending, k) # {}
    <3> DEFINE i == First(pending, k)
    <3>1. i \in 1 .. m /\ pending[i] \in Write
      BY <2>2, FirstProps
    <3>2. /\ Apply(Committed, pending)[k] = pending[i].val
          /\ iy[k] = IF pending[i].type = "deleted" THEN 0 ELSE L + i
      BY <2>2 DEF Apply, IndexWith, First
    <3>3. L + i \in L + 1 .. L + m /\ (L + i) - L = i /\ L + i # 0
      BY <1>1, <3>1
    <3>4. lg[L + i].val = pending[i].val
      BY <1>1, <3>3
    <3>5. pending[i].type = "deleted" => pending[i].val = Nil
      BY <3>1 DEF Write
    <3> QED BY <3>2, <3>3, <3>4, <3>5
  <2> QED BY <2>1, <2>2
<1> HIDE DEF iy
<1>5. L + m + 1 \in Nat
  BY <1>1
<1> QED BY <1>2, <1>4, <1>5, IndexGivesMap

\* The history of n records of the batch is right, as far as it goes.
LEMMA GrownHist ==
  ASSUME TypeOK, LogInv, HistInv, db = "open", IndexOK(index, log, Len(log)),
         NEW pending \in Seq(Write), DistinctKeys(pending), NEW step \in Steps,
         NEW L, NEW m, NEW lg,
         L = Len(log), m = Len(pending), Extends(lg, L, m, pending, step),
         NEW n \in 0 .. m + 1, NEW x \in 0 .. L + n
  PROVE  MapOK(IF x = 0 THEN EmptyMap ELSE HistWith(pending, n)[x], lg, x)
<1>1. /\ L \in Nat /\ m \in Nat /\ n \in Nat
      /\ Agree(log, lg, L)
      /\ \A q \in L + 1 .. L + m : IsWrite(lg[q])
  BY DEF Extends
<1>2. /\ \A i \in 1 .. L : HistWith(pending, n)[i] = hist[i]
      /\ \A i \in 1 .. n : HistWith(pending, n)[L + i] =
           IF i <= m THEN Committed ELSE Apply(Committed, pending)
  BY <1>1, HistWithProps
<1>3. CASE x <= L
  <2>1. x \in 0 .. L /\ x \in Nat
    BY <1>1, <1>3
  <2>2. MapOK(MapAt(x), log, x)
    BY <2>1 DEF HistInv
  <2>3. MapAt(x) = IF x = 0 THEN EmptyMap ELSE HistWith(pending, n)[x]
    BY <1>2, <2>1 DEF MapAt
  <2>4. Agree(log, lg, x)
    BY <1>1, <2>1 DEF Agree
  <2> QED BY <2>1, <2>2, <2>3, <2>4, MapAgree
<1>4. CASE x > L /\ x <= L + m
  <2>1. x - L \in 1 .. n /\ x - L <= m /\ L + (x - L) = x /\ x # 0 /\ x \in Nat
    BY <1>1, <1>4
  <2>2. HistWith(pending, n)[x] = Committed
    BY <1>2, <2>1
  <2>3. MapOK(Committed, log, L)
    BY <1>1 DEF HistInv, Committed
  <2>4. MapOK(Committed, lg, L)
    BY <1>1, <2>3, MapAgree
  <2>5. \A q \in L + 1 .. x : lg[q].type # "finished"
    BY <1>1, <1>4, <2>1 DEF IsWrite
  <2>6. L <= x
    BY <1>1, <1>4, <2>1
  <2>7. MapOK(Committed, lg, x)
    BY <1>1, <2>1, <2>4, <2>5, <2>6, MapUnmarked
  <2> QED BY <2>1, <2>2, <2>7
<1>5. CASE x > L + m
  <2>1. x = L + m + 1 /\ m + 1 \in 1 .. n /\ ~ (m + 1 <= m) /\ L + (m + 1) = x /\ x # 0
    BY <1>1, <1>5
  <2>2. HistWith(pending, n)[x] = Apply(Committed, pending)
    BY <1>2, <2>1
  <2>3. MapOK(Apply(Committed, pending), lg, L + m + 1)
    BY GrownMap
  <2> QED BY <2>1, <2>2, <2>3
<1> QED BY <1>1, <1>3, <1>4, <1>5

-----------------------------------------------------------------------------
(* The steps *)

\* The batch that commits is the only one that could be between its write and
\* its index update, and it is not: the index is right for the whole log.
LEMMA WriterIndex ==
  ASSUME TypeOK, LockInv, DataInv, NEW c \in Clients, NEW step \in Steps,
         Committing(c, step)
  PROVE  /\ db = "open" /\ batch[c].mode = "open" /\ ~ batch[c].ro
         /\ writer = c /\ ~ MidCommit
         /\ IndexOK(index, log, Len(log))
<1>1. db = "open" /\ batch[c].mode = "open" /\ ~ batch[c].ro
  BY DEF Committing, CanWrite
<1>2. writer = c
  BY <1>1 DEF LockInv, InBatch
<1>3. ASSUME NEW d \in Clients, batch[d].mode = "written" PROVE FALSE
  <2>1. writer = d
    BY <1>3 DEF LockInv, InBatch
  <2> QED BY <1>1, <1>2, <1>3, <2>1
<1>4. ~ MidCommit
  BY <1>3 DEF MidCommit
<1> QED BY <1>1, <1>2, <1>4 DEF DataInv, IndexInv

\* Nothing is left of the memory.
LEMMA DieData ==
  ASSUME Die
  PROVE  /\ db' = "down" /\ IndexInv' /\ ScanInv'
         /\ \A c \in Clients : DistinctKeys(batch'[c].pending)
BY EmptySeq DEF Die, IndexInv, ScanInv, NoBatch, DistinctKeys

\* Memory is lost and the disk is not.
LEMMA DieKeepsDisk ==
  ASSUME TypeOK, DataInv, Die, UNCHANGED <<disk, now, wend, ghost>>
  PROVE  DataInv'
<1>1. log' = log /\ now' = now /\ hist' = hist
  BY DEF disk, ghost
<1>2. LogInv'
  BY <1>1, DieData DEF DataInv, LogInv
<1>3. HistInv'
  BY <1>1 DEF DataInv, HistInv, MapAt
<1> QED BY <1>2, <1>3, DieData DEF DataInv

\* A batch that ends without having been written changes nothing else.
LEMMA EndBatchData ==
  ASSUME TypeOK, DataInv, NEW c \in Clients, batch[c].mode = "open", EndBatch(c),
         UNCHANGED <<disk, db, now, index, wend, scan, ghost>>
  PROVE  DataInv'
<1> USE DEF disk, scan, ghost
<1>1. /\ batch'[c].mode = "none" /\ batch'[c].pending = <<>>
      /\ \A d \in Clients : d # c => batch'[d] = batch[d]
  BY DEF EndBatch, NoBatch, TypeOK
<1>2. \A d \in Clients : DistinctKeys(batch'[d].pending)
  BY <1>1, EmptySeq DEF DataInv, LogInv, DistinctKeys
<1>3. LogInv'
  BY <1>2 DEF DataInv, LogInv
<1>4. HistInv'
  BY DEF DataInv, HistInv, MapAt
<1>5. \A d \in Clients : batch'[d].mode = "written" => batch'[d] = batch[d]
  BY <1>1
<1>6. MidCommit' <=> MidCommit
  BY <1>1 DEF MidCommit
<1>7. ASSUME NEW d \in Clients, batch'[d].mode = "written"
      PROVE  IndexOK(IndexWith(index', batch'[d].pending, batch'[d].base), log', Len(log'))
  BY <1>5, <1>7 DEF DataInv, IndexInv
<1>8. IndexInv'
  BY <1>6, <1>7 DEF DataInv, IndexInv
<1>9. ScanInv'
  BY DEF DataInv, ScanInv
<1> QED BY <1>3, <1>4, <1>8, <1>9 DEF DataInv

\* The write of Commit keeps the data invariant (WAL.WriteAll).
LEMMA CommitWriteData ==
  ASSUME TypeOK, LockInv, DataInv, NEW c \in Clients, NEW step \in Steps,
         CommitWrite(c, step)
  PROVE  DataInv'
<1> DEFINE pending == batch[c].pending
           L == Len(log)
           m == Len(pending)
<1> USE DEF disk, scan, ghost, lock
<1>1. /\ db = "open" /\ db' = "open" /\ writer = c /\ ~ MidCommit
      /\ IndexOK(index, log, L)
  BY WriterIndex DEF CommitWrite
<1>2. pending \in Seq(Write) /\ DistinctKeys(pending)
  BY DEF TypeOK, Batch, DataInv, LogInv
<1>3. /\ log' = Grown(pending, step) /\ hist' = HistWith(pending, m + 1)
      /\ wend' = wend + m + 1 /\ now' = now /\ index' = index
  BY DEF CommitWrite, Grown
<1>4. Extends(log', L, m, pending, step)
  BY <1>2, <1>3, GrownRecords
<1>5. /\ L \in Nat /\ m \in Nat /\ now \in Nat /\ Len(log') = L + m + 1
      /\ Agree(log, log', L)
      /\ \A q \in L + 1 .. L + m + 1 : log'[q].ms = now
  BY <1>4 DEF Extends
<1>6. /\ batch'[c].mode = "written" /\ batch'[c].pending = pending /\ batch'[c].base = L
      /\ \A d \in Clients : d # c => batch'[d] = batch[d]
  BY <1>1 DEF CommitWrite, TypeOK, Batch, DataInv, LogInv
<1> HIDE DEF pending, L, m
<1>7. LogInv'
  <2>1. /\ Contiguous(log', L + m + 1) /\ OncePerKey(log', L + m + 1)
        /\ \A p \in 1 .. L + m + 1 :
             IsWrite(log'[p]) /\ ~ Ended(log', p, L + m + 1) => log'[p].ms < now
    BY <1>1, <1>2, <1>4, GrownShape DEF DataInv, L, m
  <2>2. ASSUME NEW p \in 1 .. L + m + 1 PROVE log'[p].ms <= now
    <3>1. CASE p <= L
      <4>1. p \in 1 .. L /\ log'[p] = log[p]
        BY <1>5, <3>1 DEF Agree
      <4> QED BY <4>1 DEF DataInv, LogInv, L
    <3>2. CASE p > L
      <4>1. p \in L + 1 .. L + m + 1
        BY <1>5, <3>2
      <4> QED BY <1>5, <4>1
    <3> QED BY <1>5, <3>1, <3>2
  <2>3. wend' = L + m + 1
    BY <1>1, <1>3 DEF DataInv, LogInv, L
  <2>4. \A d \in Clients : DistinctKeys(batch'[d].pending)
    BY <1>2, <1>6 DEF DataInv, LogInv
  <2> QED BY <1>3, <1>5, <2>1, <2>2, <2>3, <2>4 DEF LogInv
<1>8. HistInv'
  <2> SUFFICES ASSUME NEW x \in 0 .. L + m + 1
               PROVE  MapOK(IF x = 0 THEN EmptyMap ELSE hist'[x], log', x)
    BY <1>5 DEF HistInv, MapAt
  <2>1. m + 1 \in 0 .. m + 1 /\ x \in 0 .. L + (m + 1)
    BY <1>5
  <2> QED BY <1>1, <1>2, <1>3, <1>4, <2>1, GrownHist DEF DataInv, L, m
<1>9. IndexInv'
  <2>1. MidCommit'
    BY <1>6 DEF MidCommit
  <2> SUFFICES ASSUME NEW d \in Clients, batch'[d].mode = "written"
               PROVE  IndexOK(IndexWith(index', batch'[d].pending, batch'[d].base),
                              log', Len(log'))
    BY <2>1 DEF IndexInv
  <2>2. d = c
    BY <1>1, <1>6 DEF MidCommit
  <2>3. IndexOK(IndexWith(index, pending, L), log', L + m + 1)
    BY <1>1, <1>2, <1>4, GrownIndex DEF DataInv, L, m
  <2> QED BY <1>3, <1>5, <1>6, <2>2, <2>3
<1>10. ScanInv'
  BY <1>1 DEF ScanInv
<1> QED BY <1>7, <1>8, <1>9, <1>10 DEF DataInv

\* The rest of Commit keeps the data invariant (the index loop of Batch.Commit).
LEMMA CommitIndexData ==
  ASSUME TypeOK, LockInv, DataInv, NEW c \in Clients, CommitIndex(c)
  PROVE  DataInv'
<1> USE DEF disk, scan, ghost, lock
<1>1. /\ db = "open" /\ batch[c].mode = "written" /\ EndBatch(c)
      /\ index' = IndexWith(index, batch[c].pending, batch[c].base)
      /\ UNCHANGED <<log, db, now, wend, scan, hist>>
  BY DEF CommitIndex
<1>2. /\ batch'[c].mode = "none" /\ batch'[c].pending = <<>>
      /\ \A d \in Clients : d # c => batch'[d] = batch[d]
  BY <1>1 DEF EndBatch, NoBatch, TypeOK
<1>3. ASSUME NEW d \in Clients, batch'[d].mode = "written" PROVE FALSE
  <2>1. d # c /\ batch[d].mode = "written"
    BY <1>2, <1>3
  <2>2. writer = d /\ writer = c
    BY <1>1, <2>1 DEF LockInv, InBatch
  <2> QED BY <2>1, <2>2
<1>4. LogInv'
  <2>1. \A d \in Clients : DistinctKeys(batch'[d].pending)
    BY <1>2, EmptySeq DEF DataInv, LogInv, DistinctKeys
  <2> QED BY <1>1, <2>1 DEF DataInv, LogInv
<1>5. HistInv'
  BY <1>1 DEF DataInv, HistInv, MapAt
<1>6. IndexInv'
  <2>1. IndexOK(index', log', Len(log'))
    BY <1>1 DEF DataInv, IndexInv
  <2> QED BY <1>3, <2>1 DEF IndexInv
<1>7. ScanInv'
  BY <1>1 DEF ScanInv
<1> QED BY <1>4, <1>5, <1>6, <1>7 DEF DataInv

\* The log is cut to a prefix of a log lg of the right shape, and memory is lost.
LEMMA PrefixData ==
  ASSUME NEW lg, NEW y \in Nat, NEW x \in 0 .. y, Die, Len(log') = x, Agree(lg, log', x),
         Contiguous(lg, y), OncePerKey(lg, y),
         \A p \in 1 .. y : lg[p].ms <= now, now' = now,
         \A n \in 0 .. x : MapOK(IF n = 0 THEN EmptyMap ELSE hist'[n], lg, n)
  PROVE  DataInv'
<1>1. Contiguous(log', x) /\ OncePerKey(log', x)
  BY ContiguousPrefix, OncePerKeyPrefix
<1>2. \A p \in 1 .. x : log'[p].ms <= now
  <2> TAKE p \in 1 .. x
  <2>1. log'[p] = lg[p] /\ p \in 1 .. y
    BY DEF Agree
  <2> QED BY <2>1
<1>3. LogInv'
  BY <1>1, <1>2, DieData DEF LogInv
<1>4. ASSUME NEW n \in 0 .. x
      PROVE  MapOK(IF n = 0 THEN EmptyMap ELSE hist'[n], log', n)
  <2>1. n \in Nat /\ Agree(lg, log', n)
    BY DEF Agree
  <2>2. MapOK(IF n = 0 THEN EmptyMap ELSE hist'[n], lg, n)
    OBVIOUS
  <2> QED BY <2>1, <2>2, MapAgree
<1>5. HistInv'
  BY <1>4 DEF HistInv, MapAt
<1> QED BY <1>3, <1>5, DieData DEF DataInv

\* A crash inside the write of Commit keeps the data invariant.
LEMMA CrashInWriteData ==
  ASSUME TypeOK, LockInv, DataInv, NEW c \in Clients, NEW step \in Steps,
         NEW n \in 0 .. MaxLog, CrashInWrite(c, step, n)
  PROVE  DataInv'
<1> DEFINE pending == batch[c].pending
           L == Len(log)
           m == Len(pending)
           e == Encode(pending, now, step)
           lg == Grown(pending, step)
<1>1. /\ db = "open" /\ IndexOK(index, log, L)
      /\ Die /\ n \in 0 .. m /\ now' = now
      /\ log' = log \o SubSeq(e, 1, n) /\ hist' = HistWith(pending, n)
  BY WriterIndex DEF CrashInWrite
<1>2. pending \in Seq(Write) /\ DistinctKeys(pending) /\ Len(pending) \in Nat
  BY LenProperties DEF TypeOK, Batch, DataInv, LogInv
<1>3. Extends(lg, L, m, pending, step)
  BY <1>2, GrownRecords
<1>4. /\ L \in Nat /\ m \in Nat /\ now \in Nat /\ Agree(log, lg, L)
      /\ \A q \in L + 1 .. L + m + 1 : lg[q].ms = now
  BY <1>3 DEF Extends
<1>5. n \in 0 .. m + 1 /\ n \in Nat /\ L + n \in 0 .. L + m + 1
  BY <1>1, <1>4
<1>6. Len(log') = L + n /\ Agree(lg, log', L + n)
  <2>1. /\ SubSeq(e, 1, n) \in Seq(Record) /\ Len(SubSeq(e, 1, n)) = n
        /\ \A i \in 1 .. n : SubSeq(e, 1, n)[i] = e[i]
    BY <1>2, <1>5, GrowType
  <2>2. e \in Seq(Record) /\ Len(e) = m + 1
    <3>1. IsEncoded(e, pending, now, step)
      BY <1>2, <1>4, EncodeProps
    <3> QED BY <3>1 DEF IsEncoded
  <2>3. log \in Seq(Record)
    BY DEF TypeOK
  <2> HIDE DEF e
  <2>4. /\ Len(log') = L + n
        /\ \A i \in 1 .. L + n : log'[i] = IF i <= L THEN log[i] ELSE SubSeq(e, 1, n)[i - L]
    BY <1>1, <2>1, <2>3, ConcatProperties
  <2>5. \A i \in 1 .. L + (m + 1) : lg[i] = IF i <= L THEN log[i] ELSE e[i - L]
    BY <2>2, <2>3, ConcatProperties DEF Grown, e
  <2>6. ASSUME NEW i \in 1 .. L + n PROVE lg[i] = log'[i]
    <3> HIDE DEF pending, L, m, lg
    <3>1. i \in 1 .. L + (m + 1) /\ (~ i <= L => i - L \in 1 .. n)
      BY <1>4, <1>5
    <3> QED BY <1>4, <2>1, <2>4, <2>5, <3>1
  <2> QED BY <2>4, <2>6 DEF Agree
<1> HIDE DEF pending, L, m, lg
<1>7. Contiguous(lg, L + m + 1) /\ OncePerKey(lg, L + m + 1)
  BY <1>1, <1>2, <1>3, GrownShape DEF DataInv, L, m
<1>8. ASSUME NEW p \in 1 .. L + m + 1 PROVE lg[p].ms <= now
  <2>1. CASE p <= L
    <3>1. p \in 1 .. L /\ lg[p] = log[p]
      BY <1>4, <2>1 DEF Agree
    <3> QED BY <3>1 DEF DataInv, LogInv, L
  <2>2. CASE p > L
    <3>1. p \in L + 1 .. L + m + 1
      BY <1>4, <2>2
    <3> QED BY <1>4, <3>1
  <2> QED BY <1>4, <2>1, <2>2
<1>9. ASSUME NEW x \in 0 .. L + n
      PROVE  MapOK(IF x = 0 THEN EmptyMap ELSE hist'[x], lg, x)
  BY <1>1, <1>2, <1>3, <1>5, GrownHist DEF DataInv, L, m
<1>10. L + m + 1 \in Nat
  BY <1>4
<1> QED BY <1>1, <1>5, <1>6, <1>7, <1>8, <1>9, <1>10, PrefixData

\* A crash of the machine keeps the data invariant.
LEMMA MachineCrashData ==
  ASSUME TypeOK, DataInv, NEW n \in 0 .. MaxLog, MachineCrash(n)
  PROVE  DataInv'
<1>1. Die /\ now' = now /\ log' = SubSeq(log, 1, n) /\ hist' = SubSeq(hist, 1, n)
  BY DEF MachineCrash
<1>2. /\ log \in Seq(Record) /\ hist \in Seq(Map) /\ Len(hist) = Len(log)
      /\ Len(log) \in Nat /\ n \in Nat /\ n \in 0 .. Len(log)
  BY LenProperties, DiskvAssumption DEF MachineCrash, TypeOK
<1>3. /\ \A i \in 1 .. n : log[i] \in Record
      /\ \A i \in 1 .. n : hist[i] \in Map
  BY <1>2, ElementOfSeq
<1>4. /\ Len(log') = n
      /\ \A i \in 1 .. n : log'[i] = log[i]
      /\ \A i \in 1 .. n : hist'[i] = hist[i]
  BY <1>1, <1>2, <1>3, SubSeqProperties
<1>5. Agree(log, log', n)
  BY <1>4 DEF Agree
<1>6. ASSUME NEW x \in 0 .. n
      PROVE  MapOK(IF x = 0 THEN EmptyMap ELSE hist'[x], log, x)
  <2>1. x \in 0 .. Len(log) /\ (x # 0 => x \in 1 .. n)
    BY <1>2
  <2>2. MapOK(MapAt(x), log, x)
    BY <2>1 DEF DataInv, HistInv
  <2>3. MapAt(x) = IF x = 0 THEN EmptyMap ELSE hist'[x]
    BY <1>4, <2>1 DEF MapAt
  <2> QED BY <2>2, <2>3
<1>7. /\ Contiguous(log, Len(log)) /\ OncePerKey(log, Len(log))
      /\ \A p \in 1 .. Len(log) : log[p].ms <= now
  BY DEF DataInv, LogInv
<1> QED BY <1>1, <1>2, <1>4, <1>5, <1>6, <1>7, PrefixData

\* Starting the scan of Open keeps the data invariant.
LEMMA OpenData ==
  ASSUME TypeOK, DataInv, Open
  PROVE  DataInv'
<1> USE DEF disk, scan, ghost, lock
<1>1. /\ db = "down" /\ db' = "loading" /\ now' = now + 1 /\ wend' = Len(log)
      /\ UNCHANGED <<log, hist, index, batch, cursor, buffered>>
  BY DEF Open
<1>2. ASSUME NEW p \in 1 .. Len(log) PROVE log[p].ms <= now + 1 /\ log[p].ms < now + 1
  <2>1. log[p].ms \in Nat
    <3>1. log[p] \in Record
      BY ElementOfSeq DEF TypeOK
    <3> QED BY <3>1 DEF Record
  <2>2. now \in Nat
    BY DiskvAssumption DEF TypeOK
  <2>3. log[p].ms <= now
    BY DEF DataInv, LogInv
  <2> QED BY <2>1, <2>2, <2>3
<1>3. LogInv'
  BY <1>1, <1>2 DEF DataInv, LogInv
<1>4. HistInv'
  BY <1>1 DEF DataInv, HistInv, MapAt
<1>5. IndexInv'
  BY <1>1 DEF DataInv, IndexInv
<1>6. ScanInv'
  BY <1>1 DEF DataInv, ScanInv, IndexOK, Deleted
<1> QED BY <1>3, <1>4, <1>5, <1>6 DEF DataInv

\* Ending the scan of Open keeps the data invariant, well or not.
LEMMA LoadDoneData ==
  ASSUME TypeOK, LockInv, DataInv, LoadDone \/ LoadFails
  PROVE  DataInv'
<1> USE DEF disk, scan, ghost, lock
<1>1. /\ db = "loading" /\ db' \in {"open", "corrupt"}
      /\ db' = "open" => cursor = Len(log)
      /\ UNCHANGED <<log, hist, index, batch, now, wend>>
  BY DEF LoadDone, LoadFails
<1>2. LogInv'
  BY <1>1 DEF DataInv, LogInv
<1>3. HistInv'
  BY <1>1 DEF DataInv, HistInv, MapAt
<1>4. \A c \in Clients : batch[c].mode # "written"
  BY <1>1 DEF LockInv, InBatch
<1>5. IndexInv'
  BY <1>1, <1>4 DEF DataInv, IndexInv, ScanInv
<1>6. ScanInv'
  BY <1>1 DEF ScanInv
<1> QED BY <1>2, <1>3, <1>5, <1>6 DEF DataInv

\* The scan of Open keeps the index right for what it has read.
LEMMA LoadRecordData ==
  ASSUME TypeOK, LockInv, DataInv, LoadRecord
  PROVE  DataInv'
<1> DEFINE n == cursor
           r == log[cursor + 1]
           waiting == {p \in 1 .. n : IsWrite(log[p]) /\ ~ Ended(log, p, n)}
<1> USE DEF disk, scan, ghost, lock
<1>1. /\ db = "loading" /\ cursor' = n + 1 /\ n < Len(log)
      /\ UNCHANGED <<log, hist, db, batch, now, wend>>
  BY DEF LoadRecord
<1>2. n \in Nat /\ Len(log) \in Nat /\ n + 1 \in 1 .. Len(log)
  BY <1>1, LenProperties DEF TypeOK
<1>3. IndexOK(index, log, n) /\ buffered = waiting
  BY <1>1 DEF DataInv, ScanInv
<1>4. /\ Contiguous(log, n + 1) /\ OncePerKey(log, n + 1)
      /\ \A p \in 1 .. n : log[p].type \in {"normal", "deleted", "finished"}
  <2>1. Agree(log, log, n + 1) /\ n + 1 \in 0 .. Len(log)
    BY <1>2 DEF Agree
  <2>2. Contiguous(log, n + 1) /\ OncePerKey(log, n + 1)
    BY <1>2, <2>1, ContiguousPrefix, OncePerKeyPrefix DEF DataInv, LogInv
  <2>3. ASSUME NEW p \in 1 .. n PROVE log[p].type \in {"normal", "deleted", "finished"}
    <3>1. p \in 1 .. Len(log)
      BY <1>2
    <3>2. log[p] \in Record
      BY <3>1, ElementOfSeq DEF TypeOK
    <3> QED BY <3>2 DEF Record
  <2> QED BY <2>2, <2>3
<1>5. LogInv'
  BY <1>1 DEF DataInv, LogInv
<1>6. HistInv'
  BY <1>1 DEF DataInv, HistInv, MapAt
<1>7. IndexInv'
  <2>1. \A c \in Clients : batch'[c].mode = "written" =>
          IndexOK(IndexWith(index', batch'[c].pending, batch'[c].base), log', Len(log'))
    <3>1. \A c \in Clients : batch[c].mode # "written"
      BY <1>1 DEF DataInv, IndexInv, LockInv, InBatch
    <3> QED BY <1>1, <3>1
  <2> QED BY <1>1, <2>1 DEF IndexInv
<1>8. ASSUME r.type # "finished"
      PROVE  /\ IndexOK(index', log, n + 1)
             /\ buffered' = {p \in 1 .. n + 1 : IsWrite(log[p]) /\ ~ Ended(log, p, n + 1)}
  <2>1. index' = index /\ buffered' = waiting \cup {n + 1}
    BY <1>3, <1>8 DEF LoadRecord
  <2>2. \A q \in n + 1 .. n + 1 : log[q].type # "finished"
    BY <1>2, <1>8
  <2>3. IndexOK(index, log, n + 1)
    BY <1>2, <1>3, <2>2, IndexUnmarked
  <2>4. ASSUME NEW p \in 1 .. n PROVE Ended(log, p, n + 1) <=> Ended(log, p, n)
    BY <1>2, <2>2 DEF Ended
  <2>5. IsWrite(log[n + 1]) /\ ~ Ended(log, n + 1, n + 1)
    BY <1>2, <1>8 DEF IsWrite, Ended
  <2>6. ASSUME NEW p
        PROVE  p \in waiting \cup {n + 1} <=>
               p \in {s \in 1 .. n + 1 : IsWrite(log[s]) /\ ~ Ended(log, s, n + 1)}
    <3>1. p \in 1 .. n + 1 <=> p \in 1 .. n \/ p = n + 1
      BY <1>2
    <3>2. n + 1 \notin 1 .. n
      BY <1>2
    <3> QED BY <2>4, <2>5, <3>1, <3>2
  <2> QED BY <2>1, <2>3, <2>6
<1>9. ASSUME r.type = "finished"
      PROVE  /\ IndexOK(index', log, n + 1)
             /\ buffered' = {p \in 1 .. n + 1 : IsWrite(log[p]) /\ ~ Ended(log, p, n + 1)}
  <2>1. index' = IndexBatch(r) /\ buffered' = waiting \ Waiting(r)
    BY <1>3, <1>9 DEF LoadRecord
  <2>2. Waiting(r) = Unended(log, r, n)
    BY <1>3 DEF Waiting, Unended
  <2>3. ASSUME NEW k \in Keys, \A p \in Unended(log, r, n) : log[p].key # k
        PROVE  index'[k] = index[k]
    <3>1. {p \in Waiting(r) : log[p].key = k} = {}
      BY <2>2, <2>3
    <3> QED BY <2>1, <3>1 DEF IndexBatch
  <2>4. ASSUME NEW k \in Keys, NEW p \in Unended(log, r, n), log[p].key = k
        PROVE  index'[k] = IF log[p].type = "normal" THEN p ELSE 0
    <3> DEFINE P == {s \in Waiting(r) : log[s].key = k}
    <3>1. \A q \in Unended(log, r, n) : log[q].key = k => q = p
      BY <1>2, <1>4, <1>9, <2>4, MarkedIsLast
    <3>2. P = {p}
      BY <2>2, <2>4, <3>1
    <3>3. p \in Nat
      BY <1>2 DEF Unended
    <3>4. (CHOOSE q \in P : \A s \in P : s <= q) = p
      BY <3>2, <3>3
    <3>5. index'[k] = IF P = {} THEN index[k]
                      ELSE LET x == CHOOSE q \in P : \A s \in P : s <= q
                           IN  IF log[x].type = "normal" THEN x ELSE 0
      BY <2>1 DEF IndexBatch
    <3> HIDE DEF P
    <3> QED BY <3>2, <3>4, <3>5
  <2>5. \A k \in Keys : (\A p \in Unended(log, log[n + 1], n) : log[p].key # k)
                       => index'[k] = index[k]
    BY <2>3
  <2>6. \A k \in Keys : \A p \in Unended(log, log[n + 1], n) :
          log[p].key = k => index'[k] = IF log[p].type = "normal" THEN p ELSE 0
    BY <2>4
  <2>7. IndexOK(index', log, n + 1)
    BY <1>2, <1>3, <1>4, <1>9, <2>5, <2>6, IndexMark
  <2>8. ASSUME NEW p \in 1 .. n
        PROVE  Ended(log, p, n + 1) <=> Ended(log, p, n) \/ SameBatch(log[p], r)
    BY <1>2, <1>9 DEF Ended
  <2>9. ASSUME NEW p
        PROVE  p \in waiting \ Waiting(r) <=>
               p \in {s \in 1 .. n + 1 : IsWrite(log[s]) /\ ~ Ended(log, s, n + 1)}
    <3>1. p \in 1 .. n + 1 <=> p \in 1 .. n \/ p = n + 1
      BY <1>2
    <3>2. ~ IsWrite(log[n + 1])
      BY <1>9 DEF IsWrite
    <3> QED BY <2>2, <2>8, <3>1, <3>2 DEF Unended
  <2> QED BY <2>1, <2>7, <2>9
<1>10. ScanInv'
  BY <1>1, <1>8, <1>9 DEF ScanInv
<1> QED BY <1>5, <1>6, <1>7, <1>10 DEF DataInv

\* Every step keeps the data invariant, if no write(2) and no fsync fails.
LEMMA DataStep ==
  ASSUME "io" \notin Faults,
         TypeOK, LockInv, DataInv, [Next]_vars
  PROVE  DataInv'
<1> USE DEF disk, scan, ghost, lock
<1>1. ASSUME NEW c \in Clients, NEW ro \in BOOLEAN, NEW sync \in BOOLEAN,
             NewBatch(c, ro, sync)
      PROVE  DataInv'
  <2>1. /\ ~ InBatch(c) /\ batch'[c].mode = "open" /\ batch'[c].pending = <<>>
        /\ \A d \in Clients : d # c => batch'[d] = batch[d]
        /\ UNCHANGED <<log, hist, db, index, now, wend, cursor, buffered>>
    BY <1>1 DEF NewBatch, NoBatch, TypeOK
  <2>2. \A d \in Clients : DistinctKeys(batch'[d].pending)
    BY <2>1, EmptySeq DEF DataInv, LogInv, DistinctKeys
  <2>3. LogInv'
    BY <2>1, <2>2 DEF DataInv, LogInv
  <2>4. HistInv'
    BY <2>1 DEF DataInv, HistInv, MapAt
  <2>5. MidCommit' <=> MidCommit
    BY <2>1 DEF MidCommit, InBatch
  <2>6. \A d \in Clients : batch'[d].mode = "written" => batch'[d] = batch[d]
    BY <2>1
  <2>7. IndexInv'
    BY <2>1, <2>5, <2>6 DEF DataInv, IndexInv
  <2>8. ScanInv'
    BY <2>1 DEF DataInv, ScanInv
  <2> QED BY <2>3, <2>4, <2>7, <2>8 DEF DataInv
<1>2. ASSUME NEW c \in Clients, NEW w \in Write, batch[c].mode = "open",
             batch' = [batch EXCEPT ![c].pending = Pend(@, w)],
             UNCHANGED <<disk, db, now, index, wend, lock, scan, ghost>>
      PROVE  DataInv'
  <2>1. /\ batch'[c].mode = "open" /\ batch'[c].pending = Pend(batch[c].pending, w)
        /\ \A d \in Clients : d # c => batch'[d] = batch[d]
    BY <1>2 DEF TypeOK, Batch
  <2>2. batch[c].pending \in Seq(Write) /\ DistinctKeys(batch[c].pending)
    BY DEF TypeOK, Batch, DataInv, LogInv
  <2>3. DistinctKeys(Pend(batch[c].pending, w))
    BY <2>2, PendProps
  <2>4. \A d \in Clients : DistinctKeys(batch'[d].pending)
    BY <2>1, <2>3 DEF DataInv, LogInv
  <2>5. LogInv'
    BY <1>2, <2>4 DEF DataInv, LogInv
  <2>6. HistInv'
    BY <1>2 DEF DataInv, HistInv, MapAt
  <2>7. MidCommit' <=> MidCommit
    BY <1>2, <2>1 DEF MidCommit
  <2>8. \A d \in Clients : batch'[d].mode = "written" => batch'[d] = batch[d]
    BY <2>1
  <2>9. IndexInv'
    BY <1>2, <2>7, <2>8 DEF DataInv, IndexInv
  <2>10. ScanInv'
    BY <1>2 DEF DataInv, ScanInv
  <2> QED BY <2>5, <2>6, <2>9, <2>10 DEF DataInv
<1>3. ASSUME NEW c \in Clients, NEW k \in Keys, NEW v \in Values, BatchPut(c, k, v)
      PROVE  DataInv'
  BY <1>2, <1>3 DEF BatchPut, CanWrite, Write
<1>4. ASSUME NEW c \in Clients, NEW k \in Keys, BatchDelete(c, k) PROVE DataInv'
  BY <1>2, <1>4 DEF BatchDelete, CanWrite, Write
<1>5. ASSUME NEW c \in Clients, CommitNothing(c) \/ CommitTooLarge(c) \/ Rollback(c)
      PROVE  DataInv'
  <2>1. /\ EndBatch(c) /\ batch[c].mode = "open"
        /\ UNCHANGED <<disk, db, now, index, wend, scan, ghost>>
    BY <1>5 DEF CommitNothing, CommitTooLarge, Rollback, CanWrite
  <2> QED BY <2>1, EndBatchData
<1>6. ASSUME NEW c \in Clients, NEW step \in Steps, CommitWrite(c, step) PROVE DataInv'
  BY <1>6, CommitWriteData
<1>7. ASSUME NEW c \in Clients, CommitIndex(c) PROVE DataInv'
  BY <1>7, CommitIndexData
<1>8. ASSUME NEW c \in Clients, NEW step \in Steps, NEW n \in 0 .. MaxLog,
             WriteFails(c, step, n)
      PROVE  DataInv'
  BY <1>8 DEF WriteFails
<1>9. CASE Close \/ ProcessCrash
  BY <1>9, DieKeepsDisk DEF Close, ProcessCrash
<1>10. ASSUME NEW n \in 0 .. MaxLog, MachineCrash(n) PROVE DataInv'
  BY <1>10, MachineCrashData
<1>11. ASSUME NEW c \in Clients, NEW step \in Steps, NEW n \in 0 .. MaxLog,
              CrashInWrite(c, step, n)
       PROVE  DataInv'
  BY <1>11, CrashInWriteData
<1>12. ASSUME NEW c \in Clients, FsyncFails(c) PROVE DataInv'
  BY <1>12 DEF FsyncFails
<1>13. CASE Sync \/ UNCHANGED vars
  <2>1. UNCHANGED <<log, hist, db, batch, index, now, wend, cursor, buffered>>
    BY <1>13 DEF Sync, vars
  <2>2. MidCommit' <=> MidCommit
    BY <2>1 DEF MidCommit
  <2> QED
    BY <2>1, <2>2 DEF DataInv, LogInv, HistInv, MapAt, IndexInv, ScanInv
<1>14. CASE Open
  BY <1>14, OpenData
<1>15. CASE LoadRecord
  BY <1>15, LoadRecordData
<1>16. CASE LoadDone \/ LoadFails
  BY <1>16, LoadDoneData
<1> QED
  BY <1>1, <1>3, <1>4, <1>5, <1>6, <1>7, <1>8, <1>9, <1>10, <1>11, <1>12, <1>13,
     <1>14, <1>15, <1>16
  DEF Next, ClientStep, FaultStep

\* The invariant holds at the start.
LEMMA InitInv == Init => IInv
<1> SUFFICES ASSUME Init PROVE IInv
  OBVIOUS
<1>1. /\ log = <<>> /\ Len(log) = 0 /\ db = "down" /\ cursor = 0 /\ buffered = {}
      /\ \A k \in Keys : index[k] = 0
      /\ \A c \in Clients : batch[c].mode = "none" /\ batch[c].pending = <<>>
  BY EmptySeq DEF Init, NoBatch
<1>2. LockInv
  BY <1>1 DEF Init, LockInv, InBatch
<1>3. LogInv
  BY <1>1, EmptySeq DEF LogInv, Contiguous, OncePerKey, DistinctKeys
<1>4. HistInv
  <2>1. \A k : Deleted(log, k, 0)
    BY DEF Deleted
  <2>2. MapOK(EmptyMap, log, 0)
    BY <2>1 DEF MapOK, EmptyMap
  <2>3. MapAt(0) = EmptyMap
    BY DEF MapAt
  <2>4. \A n \in 0 .. 0 : n = 0
    OBVIOUS
  <2> QED BY <1>1, <2>2, <2>3, <2>4 DEF HistInv
<1>5. IndexInv /\ ScanInv
  BY <1>1 DEF IndexInv, ScanInv
<1> QED BY <1>2, <1>3, <1>4, <1>5, TypeInit DEF IInv, DataInv

\* The parts of the state agree, whatever crashes, as long as no write(2) and no
\* fsync returns an error.
THEOREM Invariance == "io" \notin Faults /\ Spec => []IInv
<1> SUFFICES ASSUME "io" \notin Faults PROVE Spec => []IInv
  OBVIOUS
<1>1. IInv /\ [Next]_vars => IInv'
  BY TypeStep, LockStep, DataStep DEF IInv
<1> QED BY <1>1, InitInv, PTL DEF Spec

\* The invariant gives what a read must answer.
LEMMA InvReads == IInv => ReadsLatestCommit
<1> SUFFICES ASSUME IInv, db = "open", ~ MidCommit, NEW k \in Keys
             PROVE  Read(k) = Committed[k]
  BY DEF ReadsLatestCommit
<1>1. Len(log) \in Nat
  BY LenProperties DEF IInv, TypeOK
<1>2. IndexOK(index, log, Len(log)) /\ MapOK(Committed, log, Len(log))
  BY <1>1 DEF IInv, DataInv, IndexInv, HistInv, Committed
<1>3. Committed[k] = IF index[k] = 0 THEN Nil ELSE log[index[k]].val
  BY <1>1, <1>2, IndexReadsMap
<1>4. index[k] = 0 \/ index[k] \in 1 .. Len(log)
  BY <1>2 DEF IndexOK
<1> QED BY <1>3, <1>4 DEF Read

\* What an open database answers is what the committed batches left, however
\* long the log, however many batches, crashes and restarts lie behind it
\* (Batch.Commit, loadIndexFromWAL).
THEOREM ReadsCommitted == "io" \notin Faults /\ Spec => []ReadsLatestCommit
<1>1. IInv => ReadsLatestCommit
  BY InvReads
<1> QED BY <1>1, Invariance, PTL

-----------------------------------------------------------------------------
(* Readers and durability *)

\* No step changes the answer to a reader whose batch it does not touch.
LEMMA FrozenStep ==
  ASSUME TypeOK, LockInv, [Next]_vars,
         NEW c \in Clients, InBatch(c), batch[c].ro, batch'[c] = batch[c], NEW k \in Keys
  PROVE  Read(k)' = Read(k)
<1> USE DEF disk, scan, ghost, lock
<1>1. c \in readers /\ writer = Nil /\ db = "open"
  BY DEF LockInv, InBatch
<1>2. \A d \in Clients : InBatch(d) => batch[d].ro
  BY <1>1, DiskvAssumption DEF LockInv
<1>3. ~ Die
  BY DEF Die, NoBatch, InBatch
<1>4. UNCHANGED <<log, index>> => Read(k)' = Read(k)
  BY DEF Read
<1>5. ASSUME NEW d \in Clients, NEW step \in Steps, Committing(d, step) PROVE FALSE
  BY <1>2, <1>5 DEF Committing, CanWrite, InBatch
<1>6. ASSUME NEW d \in Clients, CommitIndex(d) PROVE FALSE
  <2>1. batch[d].mode = "written"
    BY <1>6 DEF CommitIndex
  <2> QED BY <1>2, <2>1 DEF LockInv, InBatch
<1>7. ASSUME NEW d \in Clients, NEW step \in Steps, NEW n \in 0 .. MaxLog,
             CrashInWrite(d, step, n) \/ WriteFails(d, step, n)
      PROVE  FALSE
  BY <1>5, <1>7 DEF CrashInWrite, WriteFails
<1>8. ASSUME NEW n \in 0 .. MaxLog, MachineCrash(n) PROVE FALSE
  BY <1>3, <1>8 DEF MachineCrash
<1>9. ASSUME NEW d \in Clients, NEW step \in Steps, CommitWrite(d, step) PROVE FALSE
  BY <1>5, <1>9 DEF CommitWrite
<1>10. ASSUME NEW d \in Clients, ClientStep(d) PROVE UNCHANGED <<log, index>>
  <2>1. ASSUME NEW ro \in BOOLEAN, NEW sync \in BOOLEAN, NewBatch(d, ro, sync)
        PROVE  UNCHANGED <<log, index>>
    BY <2>1 DEF NewBatch
  <2>2. ASSUME NEW i \in Keys, NEW v \in Values, BatchPut(d, i, v)
        PROVE  UNCHANGED <<log, index>>
    BY <2>2 DEF BatchPut
  <2>3. ASSUME NEW i \in Keys, BatchDelete(d, i) PROVE UNCHANGED <<log, index>>
    BY <2>3 DEF BatchDelete
  <2>4. CASE CommitNothing(d) \/ CommitTooLarge(d) \/ Rollback(d)
    BY <2>4 DEF CommitNothing, CommitTooLarge, Rollback
  <2> QED BY <1>6, <1>9, <1>10, <2>1, <2>2, <2>3, <2>4 DEF ClientStep
<1>11. ASSUME \/ Sync \/ Close \/ Open \/ LoadRecord \/ LoadDone \/ LoadFails
              \/ UNCHANGED vars
       PROVE  UNCHANGED <<log, index>>
  BY <1>1, <1>3, <1>11 DEF Sync, Close, Open, LoadRecord, LoadDone, LoadFails, vars
<1>12. ASSUME FaultStep PROVE UNCHANGED <<log, index>>
  BY <1>3, <1>7, <1>8, <1>12 DEF FaultStep, ProcessCrash, FsyncFails
<1>13. UNCHANGED <<log, index>>
  BY <1>10, <1>11, <1>12 DEF Next
<1> QED BY <1>4, <1>13

\* A batch that reads has one version of the store before it while it lives
\* (Batch.lock takes db.mu for reading and keeps it until Commit or Rollback).
THEOREM ReadersFrozen == Spec => FrozenView
<1>1. Init => LockInv
  BY DEF Init, LockInv, InBatch, NoBatch
<1>2. TypeOK /\ LockInv /\ [Next]_vars => LockInv'
  BY LockStep
<1> DEFINE Frozen == \A c \in Clients :
                       (InBatch(c) /\ batch[c].ro /\ batch'[c] = batch[c])
                         => \A k \in Keys : Read(k)' = Read(k)
<1>3. TypeOK /\ LockInv /\ [Next]_vars => Frozen
  BY FrozenStep
<1>4. TypeOK /\ LockInv /\ [Next]_vars => [Frozen]_vars
  BY <1>3
<1> QED BY <1>1, <1>2, <1>4, TypeCorrect, PTL DEF Spec, FrozenView

\* What was forced to the device is in the log, and so is every commit that
\* promised to be, unless the database was opened with Options.Sync.
SyncInv == (~ OptSync => acked <= synced) /\ synced <= Len(log)

\* Every step keeps what was acknowledged as synced within what is on the device.
LEMMA SyncStep ==
  ASSUME TypeOK, SyncInv, [Next]_vars
  PROVE  SyncInv'
<1> USE DEF disk, scan, ghost, lock
<1>0. /\ Len(log) \in Nat /\ acked \in Nat /\ synced \in Nat /\ now \in Nat
      /\ log \in Seq(Record) /\ hist \in Seq(Map)
      /\ \A c \in Clients : batch[c].pending \in Seq(Write) /\ Len(batch[c].pending) \in Nat
  BY LenProperties, DiskvAssumption DEF TypeOK, Batch
<1>1. ASSUME UNCHANGED <<acked, synced>>, Len(log') \in Nat, Len(log) <= Len(log')
      PROVE  SyncInv'
  BY <1>0, <1>1 DEF SyncInv
<1>2. UNCHANGED <<acked, synced, log>> => SyncInv'
  BY DEF SyncInv
<1>3. ASSUME NEW c \in Clients, NEW step \in Steps, CommitWrite(c, step) PROVE SyncInv'
  <2> DEFINE e == Encode(batch[c].pending, now, step)
  <2>1. e \in Seq(Record) /\ Len(e) \in Nat
    BY <1>0, EncodeProps DEF IsEncoded
  <2> HIDE DEF e
  <2>2. Len(log \o e) = Len(log) + Len(e)
    BY <1>0, <2>1, ConcatProperties
  <2>3. log' = log \o e /\ UNCHANGED <<acked, synced>>
    BY <1>3 DEF CommitWrite, e
  <2> QED BY <1>0, <1>1, <2>1, <2>2, <2>3
<1>4. ASSUME NEW c \in Clients, NEW step \in Steps, NEW n \in 0 .. MaxLog,
             CrashInWrite(c, step, n) \/ WriteFails(c, step, n)
      PROVE  SyncInv'
  <2>1. /\ n \in 0 .. Len(batch[c].pending)
        /\ log' = log \o SubSeq(Encode(batch[c].pending, now, step), 1, n)
        /\ UNCHANGED <<acked, synced>>
    BY <1>4 DEF CrashInWrite, WriteFails
  <2>2. n \in 0 .. Len(batch[c].pending) + 1 /\ n \in Nat
    BY <1>0, <2>1
  <2>3. Len(log') = Len(log) + n
    BY <1>0, <2>1, <2>2, GrowType
  <2> QED BY <1>0, <1>1, <2>1, <2>2, <2>3
<1>5. ASSUME NEW c \in Clients, CommitIndex(c) PROVE SyncInv'
  BY <1>0, <1>5 DEF CommitIndex, CommitFsync, SyncInv, TypeOK
<1>6. CASE Sync
  BY <1>0, <1>6 DEF Sync, SyncInv
<1>7. ASSUME NEW n \in 0 .. MaxLog, MachineCrash(n) PROVE SyncInv'
  <2>1. n \in Nat /\ synced <= n /\ n <= Len(log)
    BY <1>0, <1>7 DEF MachineCrash
  <2>2. \A i \in 1 .. n : log[i] \in Record
    BY <1>0, <2>1, ElementOfSeq
  <2>3. Len(SubSeq(log, 1, n)) = n
    BY <2>1, <2>2, SubSeqProperties
  <2>4. log' = SubSeq(log, 1, n) /\ UNCHANGED <<acked, synced>>
    BY <1>7 DEF MachineCrash
  <2> QED BY <2>1, <2>3, <2>4 DEF SyncInv
<1>8. ASSUME NEW c \in Clients, ClientStep(c) PROVE SyncInv'
  <2>1. ASSUME NEW ro \in BOOLEAN, NEW sync \in BOOLEAN, NewBatch(c, ro, sync)
        PROVE  SyncInv'
    BY <1>2, <2>1 DEF NewBatch
  <2>2. ASSUME NEW i \in Keys, NEW v \in Values, BatchPut(c, i, v) PROVE SyncInv'
    BY <1>2, <2>2 DEF BatchPut
  <2>3. ASSUME NEW i \in Keys, BatchDelete(c, i) PROVE SyncInv'
    BY <1>2, <2>3 DEF BatchDelete
  <2>4. CASE CommitNothing(c) \/ CommitTooLarge(c) \/ Rollback(c)
    BY <1>2, <2>4 DEF CommitNothing, CommitTooLarge, Rollback
  <2> QED BY <1>3, <1>5, <1>8, <2>1, <2>2, <2>3, <2>4 DEF ClientStep
<1>9. CASE Close \/ Open \/ LoadRecord \/ LoadDone \/ LoadFails \/ UNCHANGED vars
  BY <1>2, <1>9 DEF Close, Open, LoadRecord, LoadDone, LoadFails, vars
<1>10. CASE ProcessCrash \/ \E c \in Clients : FsyncFails(c)
  BY <1>2, <1>10 DEF ProcessCrash, FsyncFails
<1> QED BY <1>4, <1>6, <1>7, <1>8, <1>9, <1>10 DEF Next, FaultStep

\* While no write fails, the counters of the active segment are right, and only
\* the tail of the log can be cut short; an open database has read all of it.
TornInv ==
  /\ db \in {"open", "loading"} => wend = Len(log)
  /\ torn \subseteq {Len(log)}
  /\ db = "open" => torn = {}

\* Every step keeps the log readable up to its tail, if no write(2) fails.
LEMMA TornStep ==
  ASSUME "io" \notin Faults, TypeOK, TornInv, [Next]_vars
  PROVE  TornInv'
<1> USE DEF disk, scan, ghost, lock
<1>0. /\ Len(log) \in Nat /\ now \in Nat /\ log \in Seq(Record)
      /\ \A c \in Clients : batch[c].pending \in Seq(Write) /\ Len(batch[c].pending) \in Nat
  BY LenProperties, DiskvAssumption DEF TypeOK, Batch
<1>1. ASSUME UNCHANGED <<log, torn, db, wend>> PROVE TornInv'
  BY <1>1 DEF TornInv
<1>2. ASSUME NEW c \in Clients, NEW step \in Steps, CommitWrite(c, step) PROVE TornInv'
  <2> DEFINE e == Encode(batch[c].pending, now, step)
  <2>1. e \in Seq(Record) /\ Len(e) = Len(batch[c].pending) + 1
    BY <1>0, EncodeProps DEF IsEncoded
  <2> HIDE DEF e
  <2>2. Len(log \o e) = Len(log) + Len(e)
    BY <1>0, <2>1, ConcatProperties
  <2>3. /\ log' = log \o e /\ wend' = wend + Len(batch[c].pending) + 1
        /\ db = "open" /\ db' = "open" /\ torn' \in Misplaced
    BY <1>2 DEF CommitWrite, Committing, CanWrite, e
  <2>4. wend = Len(log) /\ torn = {}
    BY <2>3 DEF TornInv
  <2>5. torn' = {}
    BY <2>3, <2>4 DEF Misplaced
  <2> QED BY <1>0, <2>1, <2>2, <2>3, <2>4, <2>5 DEF TornInv
<1>3. ASSUME NEW c \in Clients, NEW step \in Steps, NEW n \in 0 .. MaxLog,
             CrashInWrite(c, step, n)
      PROVE  TornInv'
  <2>1. /\ n \in 0 .. Len(batch[c].pending)
        /\ log' = log \o SubSeq(Encode(batch[c].pending, now, step), 1, n)
        /\ db = "open" /\ db' = "down"
        /\ torn' \in Misplaced \/ torn' = torn \cup {Len(log) + n}
    BY <1>3 DEF CrashInWrite, Committing, CanWrite, Die
  <2>2. n \in 0 .. Len(batch[c].pending) + 1 /\ n \in Nat
    BY <1>0, <2>1
  <2>3. Len(log') = Len(log) + n
    BY <1>0, <2>1, <2>2, GrowType
  <2>4. wend = Len(log) /\ torn = {}
    BY <2>1 DEF TornInv
  <2>5. torn' \subseteq {Len(log')}
    BY <2>1, <2>3, <2>4 DEF Misplaced
  <2> QED BY <2>1, <2>5 DEF TornInv
<1>4. ASSUME NEW n \in 0 .. MaxLog, MachineCrash(n) PROVE TornInv'
  <2>0. torn' \subseteq {t \in torn : t < n} \cup {n}
    BY <1>4, CutTail
  <2>1. n \in Nat /\ n <= Len(log) /\ db' = "down" /\ log' = SubSeq(log, 1, n)
    BY <1>0, <1>4, DiskvAssumption DEF MachineCrash, Die, TypeOK
  <2>2. \A i \in 1 .. n : log[i] \in Record
    BY <1>0, <2>1, ElementOfSeq
  <2>3. Len(log') = n
    BY <2>1, <2>2, SubSeqProperties
  <2>4. {t \in torn : t < n} = {}
    BY <1>0, <2>1 DEF TornInv
  <2> QED BY <2>0, <2>1, <2>3, <2>4 DEF TornInv
<1>5. ASSUME NEW c \in Clients, ClientStep(c) PROVE TornInv'
  <2>1. ASSUME NEW ro \in BOOLEAN, NEW sync \in BOOLEAN, NewBatch(c, ro, sync)
        PROVE  TornInv'
    BY <1>1, <2>1 DEF NewBatch
  <2>2. ASSUME NEW i \in Keys, NEW v \in Values, BatchPut(c, i, v) PROVE TornInv'
    BY <1>1, <2>2 DEF BatchPut
  <2>3. ASSUME NEW i \in Keys, BatchDelete(c, i) PROVE TornInv'
    BY <1>1, <2>3 DEF BatchDelete
  <2>4. CASE CommitNothing(c) \/ CommitTooLarge(c) \/ Rollback(c) \/ CommitIndex(c)
    BY <1>1, <2>4 DEF CommitNothing, CommitTooLarge, Rollback, CommitIndex
  <2> QED BY <1>2, <1>5, <2>1, <2>2, <2>3, <2>4 DEF ClientStep
<1>6. CASE Sync \/ LoadRecord \/ UNCHANGED vars
  BY <1>1, <1>6 DEF Sync, LoadRecord, vars
<1>7. CASE Close \/ ProcessCrash
  BY <1>7 DEF Close, ProcessCrash, Die, TornInv
<1>8. CASE Open \/ LoadFails
  BY <1>8 DEF Open, LoadFails, TornInv
<1>9. CASE LoadDone
  BY <1>9 DEF LoadDone, TornInv
<1>10. ASSUME NEW c \in Clients, NEW step \in Steps, NEW n \in 0 .. MaxLog,
              FsyncFails(c) \/ WriteFails(c, step, n)
       PROVE  FALSE
  BY <1>10 DEF FsyncFails, WriteFails
<1>11. ASSUME NEW c \in Clients, FsyncFails(c) PROVE FALSE
  BY <1>11 DEF FsyncFails
<1> QED BY <1>3, <1>4, <1>5, <1>6, <1>7, <1>8, <1>9, <1>10, <1>11 DEF Next, FaultStep

\* As long as no write(2) and no fsync returns an error, a batch committed with
\* BatchOptions.Sync stays in the log, where Open reaches it, through every crash
\* of the process and of the machine.  With Options.Sync it need not
\* (batch.go:312), and behind a failed write it does not (segment.writeAll).
THEOREM Durable ==
  "io" \notin Faults /\ ~ OptSync /\ Spec => []SyncedCommitsSurvive
<1> SUFFICES ASSUME "io" \notin Faults, ~ OptSync PROVE Spec => []SyncedCommitsSurvive
  OBVIOUS
<1>1. Init => SyncInv /\ TornInv
  BY EmptySeq DEF Init, SyncInv, TornInv
<1>2. TypeOK /\ SyncInv /\ [Next]_vars => SyncInv'
  BY SyncStep
<1>3. TypeOK /\ TornInv /\ [Next]_vars => TornInv'
  BY TornStep
<1>4. TypeOK /\ SyncInv /\ TornInv => SyncedCommitsSurvive
  <2> SUFFICES ASSUME TypeOK, SyncInv, TornInv PROVE SyncedCommitsSurvive
    OBVIOUS
  <2>1. acked <= Len(log)
    BY LenProperties DEF SyncInv, TypeOK
  <2> QED BY <2>1 DEF TornInv, SyncedCommitsSurvive
<1> QED BY <1>1, <1>2, <1>3, <1>4, TypeCorrect, PTL DEF Spec

\* What a step puts out of the reach of Open was not acknowledged as synced.
LEMMA HarmStep ==
  ASSUME ~ OptSync, TypeOK, SyncInv, [Next]_vars
  PROVE  acked <= Len(log)' /\ \A t \in torn' \ torn : acked <= t
<1> USE DEF disk, scan, ghost, lock
<1>0. /\ Len(log) \in Nat /\ now \in Nat /\ log \in Seq(Record)
      /\ acked \in Nat /\ synced \in Nat /\ acked <= synced /\ synced <= Len(log)
      /\ acked <= Len(log)
      /\ \A c \in Clients : batch[c].pending \in Seq(Write) /\ Len(batch[c].pending) \in Nat
  BY LenProperties, DiskvAssumption DEF TypeOK, Batch, SyncInv
<1> DEFINE Goal == acked <= Len(log)' /\ \A t \in torn' \ torn : acked <= t
<1>1. UNCHANGED <<log, torn>> => Goal
  BY <1>0
<1>2. ASSUME NEW c \in Clients, NEW step \in Steps, CommitWrite(c, step) PROVE Goal
  <2> DEFINE e == Encode(batch[c].pending, now, step)
  <2>1. e \in Seq(Record) /\ Len(e) \in Nat
    BY <1>0, EncodeProps DEF IsEncoded
  <2> HIDE DEF e
  <2>2. Len(log \o e) = Len(log) + Len(e)
    BY <1>0, <2>1, ConcatProperties
  <2>3. log' = log \o e /\ torn' \in Misplaced
    BY <1>2 DEF CommitWrite, e
  <2> QED BY <1>0, <2>1, <2>2, <2>3 DEF Misplaced
<1>3. ASSUME NEW c \in Clients, NEW step \in Steps, NEW n \in 0 .. MaxLog,
             CrashInWrite(c, step, n) \/ WriteFails(c, step, n)
      PROVE  Goal
  <2>1. /\ n \in 0 .. Len(batch[c].pending)
        /\ log' = log \o SubSeq(Encode(batch[c].pending, now, step), 1, n)
        /\ torn' \in Misplaced \/ torn' = torn \cup {Len(log) + n}
    BY <1>3 DEF CrashInWrite, WriteFails
  <2>2. n \in 0 .. Len(batch[c].pending) + 1 /\ n \in Nat
    BY <1>0, <2>1
  <2>3. Len(log') = Len(log) + n
    BY <1>0, <2>1, <2>2, GrowType
  <2> QED BY <1>0, <2>1, <2>2, <2>3 DEF Misplaced
<1>4. ASSUME NEW n \in 0 .. MaxLog, MachineCrash(n) PROVE Goal
  <2>0. torn' \subseteq {t \in torn : t < n} \cup {n}
    BY <1>4, CutTail
  <2>1. n \in Nat /\ synced <= n /\ n <= Len(log) /\ log' = SubSeq(log, 1, n)
    BY <1>0, <1>4, DiskvAssumption DEF MachineCrash, TypeOK
  <2>2. \A i \in 1 .. n : log[i] \in Record
    BY <1>0, <2>1, ElementOfSeq
  <2>3. Len(log') = n
    BY <2>1, <2>2, SubSeqProperties
  <2> QED BY <1>0, <2>0, <2>1, <2>3
<1>5. ASSUME NEW c \in Clients, ClientStep(c) PROVE Goal
  <2>1. ASSUME NEW ro \in BOOLEAN, NEW sync \in BOOLEAN, NewBatch(c, ro, sync)
        PROVE  Goal
    BY <1>1, <2>1 DEF NewBatch
  <2>2. ASSUME NEW i \in Keys, NEW v \in Values, BatchPut(c, i, v) PROVE Goal
    BY <1>1, <2>2 DEF BatchPut
  <2>3. ASSUME NEW i \in Keys, BatchDelete(c, i) PROVE Goal
    BY <1>1, <2>3 DEF BatchDelete
  <2>4. CASE CommitNothing(c) \/ CommitTooLarge(c) \/ Rollback(c) \/ CommitIndex(c)
    BY <1>1, <2>4 DEF CommitNothing, CommitTooLarge, Rollback, CommitIndex
  <2> QED BY <1>2, <1>5, <2>1, <2>2, <2>3, <2>4 DEF ClientStep
<1>6. CASE Sync \/ Close \/ Open \/ LoadRecord \/ LoadDone \/ LoadFails \/ UNCHANGED vars
  BY <1>1, <1>6 DEF Sync, Close, Open, LoadRecord, LoadDone, LoadFails, vars
<1>7. CASE ProcessCrash \/ \E c \in Clients : FsyncFails(c)
  BY <1>1, <1>7 DEF ProcessCrash, FsyncFails
<1> QED BY <1>3, <1>4, <1>5, <1>6, <1>7 DEF Next, FaultStep

\* Under every fault, a failing write among them, what was acknowledged as synced
\* within Open's reach stays there: only what is written after a failure, and
\* acknowledged behind it, is out of it (segment.writeAll, Batch.Commit).
THEOREM HarmNotSpread == ~ OptSync /\ Spec => AckedOutOfHarm
<1> SUFFICES ASSUME ~ OptSync PROVE Spec => AckedOutOfHarm
  OBVIOUS
<1>1. Init => SyncInv
  BY EmptySeq DEF Init, SyncInv
<1>2. TypeOK /\ SyncInv /\ [Next]_vars => SyncInv'
  BY SyncStep
<1> DEFINE Goal == acked <= Len(log)' /\ \A t \in torn' \ torn : acked <= t
<1>3. TypeOK /\ SyncInv /\ [Next]_vars => [Goal]_vars
  BY HarmStep
<1> QED BY <1>1, <1>2, <1>3, TypeCorrect, PTL DEF Spec, AckedOutOfHarm

-----------------------------------------------------------------------------
(* The refinement: every step of the log, the index and the scan is a step *)
(* of the abstract map or none at all.                                     *)

\* What the mapping takes from the invariants.
LEMMA MappingTypes ==
  ASSUME IInv, SyncInv
  PROVE  /\ TypeOK /\ Len(log) \in Nat /\ synced \in Nat /\ synced <= Len(log)
         /\ Committed \in Map /\ Committed \in Past
<1>1. TypeOK /\ Len(log) \in Nat /\ synced \in Nat /\ synced <= Len(log)
  BY LenProperties DEF IInv, TypeOK, SyncInv
<1>2. Committed \in Map
  BY <1>1, CommittedType
<1>3. Committed \in Past
  BY <1>1 DEF Committed, Past
<1> QED BY <1>1, <1>2, <1>3

\* An open database has a map to answer from.
LEMMA ViewIsMap ==
  ASSUME TypeOK, db = "open"
  PROVE  View \in Map /\ View # Nil
<1>1. ASSUME NEW k \in Keys PROVE Read(k) \in Values \cup {Nil}
  <2>1. CASE index[k] \in 1 .. Len(log)
    <3>1. log[index[k]] \in Record
      BY <2>1, ElementOfSeq DEF TypeOK
    <3> QED BY <2>1, <3>1 DEF Read, Record
  <2>2. CASE index[k] \notin 1 .. Len(log)
    BY <2>2 DEF Read
  <2> QED BY <2>1, <2>2
<1> QED BY <1>1, NilAssumption DEF View, Map

\* Between commits that map is the committed one.
LEMMA ViewIsCommitted == IInv /\ db = "open" /\ ~ MidCommit => View = Committed
<1> SUFFICES ASSUME IInv, db = "open", ~ MidCommit PROVE View = Committed
  OBVIOUS
<1>1. \A k \in Keys : Read(k) = Committed[k]
  BY InvReads DEF ReadsLatestCommit
<1>2. Committed \in Map
  BY CommittedType DEF IInv
<1> QED BY <1>1, <1>2 DEF View, Map

\* Steps that leave the log alone leave the versions alone.
LEMMA VersionsKept ==
  ASSUME UNCHANGED <<log, hist>>
  PROVE  /\ Committed' = Committed
         /\ synced' = synced => Past' = Past
BY DEF Committed, Past, MapAt

\* Steps that a client cannot see.
LEMMA Unseen ==
  ASSUME UNCHANGED <<log, hist, synced>>,
         UNCHANGED <<db, index>> \/ (db # "open" /\ db' # "open")
  PROVE  UNCHANGED KV!vars
<1>1. Committed' = Committed /\ Past' = Past
  BY VersionsKept
<1>2. View' = View
  <2>1. CASE UNCHANGED <<db, index>>
    BY <2>1 DEF View, Read
  <2>2. CASE db # "open" /\ db' # "open"
    BY <2>2 DEF View
  <2> QED BY <2>1, <2>2
<1> QED BY <1>1, <1>2 DEF KV!vars

\* The process is gone and the disk is what it was: the map stops at its last
\* version.
LEMMA StopsHere ==
  ASSUME IInv, SyncInv, Die, UNCHANGED <<log, hist, synced>>
  PROVE  KV!Stop
<1>1. Committed' = Committed /\ Past' = Past /\ Committed \in Past
  BY VersionsKept, MappingTypes
<1>2. View' = Nil
  BY DEF View, Die
<1> QED BY <1>1, <1>2 DEF KV!Stop

\* The write of a batch and its mark changes the committed map all at once.
LEMMA WriteCommits ==
  ASSUME IInv, SyncInv, NEW c \in Clients, NEW step \in Steps, CommitWrite(c, step)
  PROVE  KV!Commit
<1>a. PICK L \in Nat : L = Len(log)
  BY MappingTypes
<1>b. PICK pending \in Seq(Write) : pending = batch[c].pending
  BY MappingTypes DEF TypeOK, Batch
<1>c. PICK m \in Nat : m = Len(pending)
  BY LenProperties
<1>1. /\ TypeOK /\ L \in Nat /\ synced \in Nat /\ synced <= L
      /\ Committed \in Map /\ Committed \in Past
  BY MappingTypes, <1>a
<1>2. /\ pending \in Seq(Write) /\ m \in Nat /\ pending # <<>> /\ db = "open"
      /\ now \in Nat /\ log \in Seq(Record)
  BY <1>1, <1>b, DiskvAssumption
  DEF TypeOK, Batch, CommitWrite, Committing, CanWrite
<1>3. /\ log' = log \o Encode(pending, now, step) /\ hist' = HistWith(pending, m + 1)
      /\ UNCHANGED <<synced, db, index>>
  BY <1>b, <1>c DEF CommitWrite
<1>4. /\ Len(log') = L + m + 1
      /\ \A i \in 1 .. L : log'[i] = log[i]
  <2> DEFINE e == Encode(pending, now, step)
  <2>1. e \in Seq(Record) /\ Len(e) = m + 1
    <3>1. IsEncoded(e, pending, now, step)
      BY <1>2, <1>c, EncodeProps
    <3> QED BY <1>c, <3>1 DEF IsEncoded
  <2>2. log' = log \o e
    BY <1>3
  <2> HIDE DEF e
  <2> QED BY <1>1, <1>2, <1>a, <2>1, <2>2, ConcatProperties
<1>5. /\ \A i \in 1 .. L : hist'[i] = hist[i]
      /\ \A i \in 1 .. m + 1 : hist'[L + i] =
           IF i <= m THEN Committed ELSE Apply(Committed, pending)
  <2> DEFINE h == HistWith(pending, m + 1)
  <2>1. m + 1 \in Nat
    OBVIOUS
  <2>2. /\ \A i \in 1 .. Len(log) : h[i] = hist[i]
        /\ \A i \in 1 .. m + 1 : h[Len(log) + i] =
             IF i <= Len(pending) THEN Committed ELSE Apply(Committed, pending)
    BY <1>1, <2>1, HistWithProps
  <2>3. hist' = h
    BY <1>3
  <2> HIDE DEF h
  <2> QED BY <1>a, <1>c, <2>2, <2>3
<1>6. /\ \A n \in 0 .. L : MapAt(n)' = MapAt(n)
      /\ \A n \in L + 1 .. L + m : MapAt(n)' = Committed
      /\ MapAt(L + m + 1)' = Apply(Committed, pending)
  <2>1. \A n \in 0 .. L : MapAt(n)' = MapAt(n)
    BY <1>1, <1>5 DEF MapAt
  <2>2. ASSUME NEW n \in L + 1 .. L + m PROVE MapAt(n)' = Committed
    <3>1. n - L \in 1 .. m + 1 /\ n - L <= m /\ L + (n - L) = n /\ n # 0
      BY <1>1, <1>2
    <3> QED BY <1>5, <3>1 DEF MapAt
  <2>3. MapAt(L + m + 1)' = Apply(Committed, pending)
    <3>1. m + 1 \in 1 .. m + 1 /\ ~ (m + 1 <= m) /\ L + (m + 1) = L + m + 1 /\ L + m + 1 # 0
      BY <1>1, <1>2
    <3>2. hist'[L + (m + 1)] = Apply(Committed, pending)
      BY <1>5, <3>1
    <3>3. hist'[L + m + 1] = Apply(Committed, pending)
      BY <3>1, <3>2
    <3> QED BY <3>1, <3>3 DEF MapAt
  <2> QED BY <2>1, <2>2, <2>3
<1>7. Committed' = Apply(Committed, pending)
  BY <1>4, <1>6 DEF Committed
<1>8. Past' = Past \cup {Committed'}
  <2>1. Past' = {MapAt(n)' : n \in synced .. L + m + 1}
    BY <1>3, <1>4, <1>a DEF Past
  <2>2. ASSUME NEW n \in synced .. L + m + 1
        PROVE  MapAt(n)' \in Past \cup {Committed'}
    <3>1. CASE n <= L
      BY <1>1, <1>6, <1>a, <2>2, <3>1 DEF Past
    <3>2. CASE n > L /\ n <= L + m
      <4>1. n \in L + 1 .. L + m
        BY <1>1, <1>2, <3>2
      <4> QED BY <1>1, <1>6, <4>1
    <3>3. CASE n > L + m
      <4>1. n = L + m + 1
        BY <1>1, <1>2, <3>3
      <4> QED BY <1>6, <1>7, <4>1
    <3> QED BY <1>1, <1>2, <3>1, <3>2, <3>3
  <2>3. ASSUME NEW n \in synced .. L PROVE MapAt(n) \in Past'
    <3>1. n \in synced .. L + m + 1 /\ n \in 0 .. L
      BY <1>1, <1>2
    <3> QED BY <1>6, <2>1, <3>1
  <2>4. Committed' \in Past'
    <3>1. L + m + 1 \in synced .. L + m + 1
      BY <1>1, <1>2
    <3> QED BY <1>6, <1>7, <2>1, <3>1
  <2>5. Past \subseteq Past'
    BY <2>3, <1>a DEF Past
  <2>6. Past' \subseteq Past \cup {Committed'}
    BY <2>1, <2>2
  <2> QED BY <2>4, <2>5, <2>6
<1>9. View' = View
  <2>1. ASSUME NEW k \in Keys PROVE Read(k)' = Read(k)
    <3>1. ~ MidCommit /\ IndexOK(index, log, L)
      <4>1. LockInv /\ DataInv /\ Committing(c, step)
        BY DEF IInv, CommitWrite
      <4> QED BY <1>1, <1>a, <4>1, WriterIndex
    <3>2. index[k] = 0 \/ index[k] \in 1 .. L
      BY <3>1 DEF IndexOK
    <3>3. index[k] \in 1 .. L => index[k] \in 1 .. L + m + 1
      BY <1>1, <1>2
    <3> QED BY <1>3, <1>4, <1>a, <3>2, <3>3 DEF Read
  <2> QED BY <1>3, <2>1 DEF View
<1>10. View # Nil
  BY <1>1, <1>2, ViewIsMap
<1>11. \E dom \in (SUBSET Keys) \ {{}}, w \in [Keys -> Values \cup {Nil}] :
         Committed' = [k \in Keys |-> IF k \in dom THEN w[k] ELSE Committed[k]]
  <2> DEFINE dom == {k \in Keys : Lookup(pending, k) # {}}
             w == Apply(Committed, pending)
  <2>1. w \in [Keys -> Values \cup {Nil}]
    BY <1>1, <1>2, ApplyType DEF Map
  <2>2. dom # {}
    <3>1. 1 \in 1 .. m
      BY <1>2, <1>c, EmptySeq, LenProperties
    <3>2. pending[1] \in Write
      BY <1>2, <1>c, <3>1, ElementOfSeq
    <3>3. pending[1].key \in Keys /\ 1 \in Lookup(pending, pending[1].key)
      BY <3>1, <3>2, <1>c DEF Write, Lookup
    <3> QED BY <3>3
  <2>3. Committed' = [k \in Keys |-> IF k \in dom THEN w[k] ELSE Committed[k]]
    <3>1. ASSUME NEW k \in Keys
          PROVE  w[k] = IF k \in dom THEN w[k] ELSE Committed[k]
      <4>1. CASE k \in dom
        BY <4>1
      <4>2. CASE k \notin dom
        BY <4>2 DEF Apply
      <4> QED BY <4>1, <4>2
    <3> HIDE DEF dom
    <3>2. w = [k \in Keys |-> w[k]]
      BY <2>1
    <3> HIDE DEF w
    <3>3. [k \in Keys |-> w[k]] = [k \in Keys |-> IF k \in dom THEN w[k] ELSE Committed[k]]
      BY <3>1
    <3>4. Committed' = w
      BY <1>7 DEF w
    <3> QED BY <3>2, <3>3, <3>4
  <2>4. dom \subseteq Keys
    OBVIOUS
  <2> HIDE DEF dom, w
  <2>5. dom \in (SUBSET Keys) \ {{}}
    BY <2>2, <2>4
  <2> QED BY <2>1, <2>3, <2>5
<1> QED BY <1>8, <1>9, <1>10, <1>11 DEF KV!Commit

\* Nobody is between the write and the index update of a batch once one has
\* ended the batch it wrote.
LEMMA NoneMidCommit ==
  ASSUME IInv, IInv', NEW c \in Clients, CommitIndex(c)
  PROVE  ~ MidCommit'
<1>1. ~ batch[c].ro
  BY DEF CommitIndex, IInv, LockInv
<1>2. writer' = Nil
  BY <1>1 DEF CommitIndex, EndBatch, Unlock
<1>3. ASSUME NEW d \in Clients, batch'[d].mode = "written" PROVE FALSE
  <2>1. ~ batch'[d].ro /\ writer' = d
    BY <1>3 DEF IInv, LockInv, InBatch
  <2> QED BY <1>2, <2>1, DiskvAssumption
<1> QED BY <1>3 DEF MidCommit

\* The index update shows readers the commit.
LEMMA IndexPublishes ==
  ASSUME IInv, SyncInv, IInv', NEW c \in Clients, CommitIndex(c)
  PROVE  KV!Publish
<1>1. UNCHANGED <<log, hist, db>> /\ db = "open" /\ synced' = CommitFsync(c)
  BY DEF CommitIndex
<1>2. Committed' = Committed
  BY <1>1, VersionsKept
<1>3. View' = Committed'
  <2>1. (IInv /\ db = "open" /\ ~ MidCommit => View = Committed)'
    BY ViewIsCommitted, PTL
  <2> QED BY <1>1, <2>1, NoneMidCommit
<1>4. View # Nil
  BY <1>1, MappingTypes, ViewIsMap
<1>5. Past' \in {Past, {Committed'}}
  <2>1. CASE synced' = synced
    BY <1>1, <2>1, VersionsKept
  <2>2. CASE synced' = Len(log)
    <3>1. \A n : n \in Len(log) .. Len(log) <=> n = Len(log)
      BY MappingTypes
    <3>2. Past' = {MapAt(Len(log))}
      BY <1>1, <2>2, <3>1 DEF Past, MapAt
    <3> QED BY <1>2, <3>2 DEF Committed
  <2> QED BY <1>1, <2>1, <2>2 DEF CommitFsync
<1> QED BY <1>2, <1>3, <1>4, <1>5 DEF KV!Publish

\* DB.Sync forces the last version.
LEMMA SyncForces ==
  ASSUME IInv, SyncInv, Sync
  PROVE  KV!Force
<1> USE DEF disk, ghost
<1>1. UNCHANGED <<log, hist, db, index>> /\ synced' = Len(log)
  BY DEF Sync
<1>2. Committed' = Committed
  BY <1>1, VersionsKept
<1>3. \A n : n \in Len(log) .. Len(log) <=> n = Len(log)
  BY MappingTypes
<1>4. Past' = {MapAt(Len(log))}
  BY <1>1, <1>3 DEF Past, MapAt
<1>5. View' = View
  BY <1>1 DEF View, Read
<1> QED BY <1>2, <1>4, <1>5 DEF KV!Force, Committed

\* A process that dies inside a write leaves records without their mark: the map
\* stops at its last version.
LEMMA CrashInWriteStops ==
  ASSUME IInv, SyncInv, NEW c \in Clients, NEW step \in Steps, NEW n \in 0 .. MaxLog,
         CrashInWrite(c, step, n)
  PROVE  KV!Stop
<1> DEFINE pending == batch[c].pending
           L == Len(log)
<1>1. /\ TypeOK /\ L \in Nat /\ synced \in Nat /\ synced <= L
      /\ Committed \in Map /\ Committed \in Past
  BY MappingTypes
<1>2. pending \in Seq(Write) /\ Len(pending) \in Nat
  BY <1>1, LenProperties DEF TypeOK, Batch
<1>3. /\ log' = log \o SubSeq(Encode(pending, now, step), 1, n)
      /\ hist' = HistWith(pending, n)
      /\ n \in 0 .. Len(pending) /\ synced' = synced /\ Die
  BY DEF CrashInWrite
<1> HIDE DEF pending
<1>4. Len(log') = L + n
  <2>1. n \in 0 .. Len(pending) + 1
    BY <1>2, <1>3
  <2> QED BY <1>1, <1>2, <1>3, <2>1, GrowType
<1>5. /\ \A i \in 1 .. L : hist'[i] = hist[i]
      /\ \A i \in 1 .. n : hist'[L + i] = Committed
  <2>1. n \in Nat /\ \A i \in 1 .. n : i <= Len(pending)
    BY <1>2, <1>3
  <2> QED BY <1>1, <1>2, <1>3, <2>1, HistWithProps
<1>6. /\ \A x \in 0 .. L : MapAt(x)' = MapAt(x)
      /\ \A x \in L .. L + n : MapAt(x)' = Committed
  <2>1. \A x \in 0 .. L : MapAt(x)' = MapAt(x)
    BY <1>1, <1>5 DEF MapAt
  <2>2. ASSUME NEW x \in L .. L + n PROVE MapAt(x)' = Committed
    <3>1. CASE x = L
      BY <1>1, <2>1, <3>1 DEF Committed
    <3>2. CASE x # L
      <4>1. x - L \in 1 .. n /\ L + (x - L) = x /\ x # 0
        BY <1>1, <1>3, <3>2
      <4> QED BY <1>5, <4>1 DEF MapAt
    <3> QED BY <3>1, <3>2
  <2> QED BY <2>1, <2>2
<1>7. Committed' = Committed
  BY <1>1, <1>3, <1>4, <1>6 DEF Committed
<1>8. Past' = Past
  <2>1. Past' = {MapAt(x)' : x \in synced .. L + n}
    BY <1>3, <1>4 DEF Past
  <2>2. ASSUME NEW x \in synced .. L + n PROVE MapAt(x)' \in Past
    <3>1. CASE x <= L
      BY <1>1, <1>6, <3>1 DEF Past
    <3>2. CASE x > L
      BY <1>1, <1>3, <1>6, <3>2
    <3> QED BY <1>1, <1>3, <3>1, <3>2
  <2>3. ASSUME NEW x \in synced .. L PROVE MapAt(x) \in Past'
    <3>1. x \in synced .. L + n /\ x \in 0 .. L
      BY <1>1, <1>3
    <3> QED BY <1>6, <2>1, <3>1
  <2> QED BY <2>1, <2>2, <2>3 DEF Past
<1>9. View' = Nil
  BY <1>3 DEF View, Die
<1> QED BY <1>1, <1>7, <1>8, <1>9 DEF KV!Stop

\* A machine that dies falls back to a version not older than the last fsync.
LEMMA MachineCrashStops ==
  ASSUME IInv, SyncInv, NEW n \in 0 .. MaxLog, MachineCrash(n)
  PROVE  KV!Stop
<1>1. /\ TypeOK /\ Len(log) \in Nat /\ synced \in Nat /\ synced <= Len(log)
      /\ Len(hist) = Len(log) /\ hist \in Seq(Map) /\ log \in Seq(Record)
  BY MappingTypes DEF TypeOK
<1>2. /\ n \in synced .. Len(log) /\ n \in Nat
      /\ log' = SubSeq(log, 1, n) /\ hist' = SubSeq(hist, 1, n)
      /\ synced' = synced /\ Die
  BY <1>1 DEF MachineCrash
<1>3. Len(log') = n /\ \A i \in 1 .. n : hist'[i] = hist[i]
  <2>1. \A i \in 1 .. n : log[i] \in Record /\ hist[i] \in Map
    BY <1>1, <1>2, ElementOfSeq
  <2> QED BY <1>2, <2>1, SubSeqProperties
<1>4. \A x \in 0 .. n : MapAt(x)' = MapAt(x)
  BY <1>2, <1>3 DEF MapAt
<1>5. Committed' = MapAt(n)
  BY <1>2, <1>3, <1>4 DEF Committed
<1>6. Past' = {MapAt(x) : x \in synced .. n}
  <2>1. \A x \in synced .. n : x \in 0 .. n
    BY <1>1, <1>2
  <2> QED BY <1>2, <1>3, <1>4, <2>1 DEF Past
<1>7. Committed' \in Past /\ Committed' \in Past' /\ Past' \in SUBSET Past
  <2>1. n \in synced .. n /\ \A x \in synced .. n : x \in synced .. Len(log)
    BY <1>1, <1>2
  <2> QED BY <1>2, <1>5, <1>6, <2>1 DEF Past
<1>8. View' = Nil
  BY <1>2 DEF View, Die
<1> QED BY <1>7, <1>8 DEF KV!Stop

\* The end of the scan of Open: the map answers again.
LEMMA LoadDoneStarts ==
  ASSUME IInv, SyncInv, IInv', LoadDone
  PROVE  KV!Start
<1> USE DEF disk, ghost
<1>1. UNCHANGED <<log, hist, synced, batch>> /\ db = "loading" /\ db' = "open"
  BY DEF LoadDone
<1>2. ~ MidCommit'
  BY <1>1 DEF IInv, LockInv, InBatch, MidCommit
<1>3. View' = Committed'
  <2>1. (IInv /\ db = "open" /\ ~ MidCommit => View = Committed)'
    BY ViewIsCommitted, PTL
  <2> QED BY <1>1, <1>2, <2>1
<1>4. Committed' = Committed /\ Past' = Past /\ View = Nil
  BY <1>1, VersionsKept DEF View
<1> QED BY <1>3, <1>4 DEF KV!Start

\* Every step is a step of the abstract map or changes nothing that it shows.
LEMMA RefinementStep ==
  ASSUME "io" \notin Faults,
         IInv, SyncInv, IInv', [Next]_vars
  PROVE  [KV!Next]_KV!vars
<1> USE DEF disk, ghost, scan
<1>1. ASSUME NEW c \in Clients, ClientStep(c) PROVE KV!Next \/ UNCHANGED KV!vars
  <2>1. ASSUME NEW ro \in BOOLEAN, NEW sync \in BOOLEAN, NewBatch(c, ro, sync)
        PROVE  UNCHANGED KV!vars
    BY <2>1, Unseen DEF NewBatch
  <2>2. ASSUME NEW k \in Keys, NEW v \in Values, BatchPut(c, k, v)
        PROVE  UNCHANGED KV!vars
    BY <2>2, Unseen DEF BatchPut
  <2>3. ASSUME NEW k \in Keys, BatchDelete(c, k) PROVE UNCHANGED KV!vars
    BY <2>3, Unseen DEF BatchDelete
  <2>4. ASSUME CommitNothing(c) \/ CommitTooLarge(c) \/ Rollback(c)
        PROVE  UNCHANGED KV!vars
    BY <2>4, Unseen DEF CommitNothing, CommitTooLarge, Rollback
  <2>5. ASSUME NEW step \in Steps, CommitWrite(c, step) PROVE KV!Next
    BY <2>5, WriteCommits DEF KV!Next
  <2>6. ASSUME CommitIndex(c) PROVE KV!Next
    BY <2>6, IndexPublishes DEF KV!Next
  <2> QED BY <1>1, <2>1, <2>2, <2>3, <2>4, <2>5, <2>6 DEF ClientStep
<1>2. ASSUME FaultStep PROVE KV!Next
  <2>1. ASSUME ProcessCrash PROVE KV!Next
    BY <2>1, StopsHere DEF ProcessCrash, KV!Next
  <2>2. ASSUME NEW n \in 0 .. MaxLog, MachineCrash(n) PROVE KV!Next
    BY <2>2, MachineCrashStops DEF KV!Next
  <2>3. ASSUME NEW c \in Clients, FsyncFails(c) PROVE FALSE
    BY <2>3 DEF FsyncFails
  <2>4. ASSUME NEW c \in Clients, NEW step \in Steps, NEW n \in 0 .. MaxLog,
               CrashInWrite(c, step, n)
        PROVE  KV!Next
    BY <2>4, CrashInWriteStops DEF KV!Next
  <2>5. ASSUME NEW c \in Clients, NEW step \in Steps, NEW n \in 0 .. MaxLog,
               WriteFails(c, step, n)
        PROVE  FALSE
    BY <2>5 DEF WriteFails
  <2> QED BY <1>2, <2>1, <2>2, <2>3, <2>4, <2>5 DEF FaultStep
<1>3. CASE Sync
  BY <1>3, SyncForces DEF KV!Next
<1>4. CASE Close
  BY <1>4, StopsHere DEF Close, KV!Next
<1>5. CASE Open \/ LoadRecord \/ LoadFails
  BY <1>5, Unseen DEF Open, LoadRecord, LoadFails
<1>6. CASE LoadDone
  BY <1>6, LoadDoneStarts DEF KV!Next
<1>7. CASE UNCHANGED vars
  BY <1>7, Unseen DEF vars
<1> QED BY <1>1, <1>2, <1>3, <1>4, <1>5, <1>6, <1>7 DEF Next

\* The store starts as the empty map.
LEMMA RefinementInit == Init => KV!Init
<1> SUFFICES ASSUME Init PROVE KV!Init
  OBVIOUS
<1>1. Len(log) = 0 /\ synced = 0 /\ db = "down"
  BY EmptySeq DEF Init
<1>2. Committed = [k \in Keys |-> Nil]
  BY <1>1 DEF Committed, MapAt, EmptyMap
<1>3. Past = {Committed}
  <2>1. \A n : n \in 0 .. 0 <=> n = 0
    OBVIOUS
  <2> QED BY <1>1, <2>1 DEF Past, Committed
<1>4. View = Nil
  BY <1>1 DEF View
<1> QED BY <1>2, <1>3, <1>4 DEF KV!Init

\* The log-structured store with its index and its recovery implements the map
\* of KVStore, as long as no write(2) and no fsync returns an error: a client sees batches whole, and a crash loses no version that was fsynced.
THEOREM ImplementsKVStore ==
  "io" \notin Faults /\ Spec => RefinesKVStore
<1> SUFFICES ASSUME "io" \notin Faults PROVE Spec => RefinesKVStore
  OBVIOUS
<1>1. Spec => []IInv
  BY Invariance
<1>2. Init => SyncInv
  BY EmptySeq DEF Init, SyncInv
<1>3. TypeOK /\ SyncInv /\ [Next]_vars => SyncInv'
  BY SyncStep
<1>4. IInv /\ SyncInv /\ IInv' /\ [Next]_vars => [KV!Next]_KV!vars
  BY RefinementStep
<1> QED BY <1>1, <1>2, <1>3, <1>4, RefinementInit, TypeCorrect, PTL
        DEF Spec, RefinesKVStore, KV!Spec

=============================================================================
