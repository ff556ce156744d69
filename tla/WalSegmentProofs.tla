-------------------------- MODULE WalSegmentProofs --------------------------
(***************************************************************************)
(* Proofs about WalSegment, for blocks, headers, segments and records of   *)
(* any size and any number of writes.                                      *)
(***************************************************************************)
EXTENDS WalSegment, Integers, SequenceTheorems, WellFoundedInduction, TLAPS

-----------------------------------------------------------------------------
(* Arithmetic *)

\* What a block and a header measure.
LEMMA Measures ==
  /\ BlockSize \in Nat /\ HeaderSize \in Nat /\ SegmentSize \in Nat /\ MaxRecords \in Nat
  /\ HeaderSize > 0 /\ BlockSize > 2 * HeaderSize
  /\ \A s \in Sizes : s \in Nat /\ s > 0
BY WalSegmentAssumption

\* Quotient and remainder.
LEMMA DivMod ==
  ASSUME NEW x \in Nat, NEW d \in Nat, d > 0
  PROVE  /\ x \div d \in Nat /\ x % d \in Nat /\ x % d < d
         /\ x = (x \div d) * d + (x % d)
<1>1. PICK q : q = x \div d
  OBVIOUS
<1>2. PICK r : r = x % d
  OBVIOUS
<1>3. q \in Nat
  BY <1>1
<1>4. r \in Nat /\ r < d
  BY <1>2
<1>5. x = q * d + r
  BY <1>1, <1>2
<1>6. q \in Nat /\ r \in Nat /\ r < d /\ x = q * d + r
  BY <1>3, <1>4, <1>5
<1> QED BY <1>1, <1>2, <1>6, Zenon

\* They are determined.
LEMMA DivModIs ==
  ASSUME NEW k \in Nat, NEW d \in Nat, d > 0, NEW r \in Nat, r < d
  PROVE  (k * d + r) \div d = k /\ (k * d + r) % d = r
OBVIOUS

\* A number of whole parts is at most the quotient.
LEMMA DivBound ==
  ASSUME NEW k \in Nat, NEW d \in Nat, d > 0, NEW x \in Nat, k * d <= x
  PROVE  k <= x \div d
OBVIOUS

\* Multiplication by a factor.
LEMMA Times ==
  ASSUME NEW a \in Nat, NEW b \in Nat, NEW d \in Nat
  PROVE  /\ a * d \in Nat
         /\ (a + b) * d = a * d + b * d
         /\ (a + 1) * d = a * d + d
         /\ a <= b => a * d <= b * d
OBVIOUS

\* A set of numbers that is not empty has a least one.
LEMMA HasLeast ==
  ASSUME NEW S \in SUBSET Nat, S # {}
  PROVE  \E n \in S : \A m \in S : n <= m
<1>1. PICK n \in S : \A m \in S : <<m, n>> \notin OpToRel(<, Nat)
  BY NatLessThanWellFounded, WFMin
<1>2. \A m \in S : ~ (m < n)
  BY <1>1 DEF OpToRel
<1> QED BY <1>2

\* A set of numbers that has 0, and with each number up to N the next, has all up to N.
LEMMA UpTo ==
  ASSUME NEW N \in Nat, NEW S, 0 \in S, \A n \in 0 .. N : n \in S /\ n < N => n + 1 \in S
  PROVE  \A n \in 0 .. N : n \in S
<1> DEFINE T == {n \in 0 .. N : n \notin S}
<1>1. SUFFICES ASSUME T # {} PROVE FALSE
  OBVIOUS
<1>2. PICK n \in T : \A m \in T : n <= m
  <2>1. T \in SUBSET Nat
    OBVIOUS
  <2> HIDE DEF T
  <2> QED BY <1>1, <2>1, HasLeast
<1>3. n # 0 /\ n - 1 \in 0 .. N /\ n - 1 < N /\ n - 1 \notin T
  BY <1>2
<1>4. (n - 1) + 1 \in S
  BY <1>3
<1> QED BY <1>2, <1>4

\* f is a loop of N turns, from b on.
Turning(f, N, b, G) == f[0] = b /\ \A i \in 1 .. N : f[i] = G[<<i, f[i - 1]>>]

\* A loop of N turns, each taking a state of S to one of S, has a run.
LEMMA Turns ==
  \A N \in Nat : \A S : \A b \in S, G \in [(1 .. N) \X S -> S] :
    \E f \in [0 .. N -> S] : Turning(f, N, b, G)
<1> SUFFICES ASSUME NEW N \in Nat, NEW S, NEW b \in S, NEW G \in [(1 .. N) \X S -> S]
             PROVE  \E f \in [0 .. N -> S] : Turning(f, N, b, G)
  OBVIOUS
<1> DEFINE Runs(f, k) == f[0] = b /\ \A i \in 1 .. N : i <= k => f[i] = G[<<i, f[i - 1]>>]
           K == {k \in 0 .. N : \E f \in [0 .. N -> S] : Runs(f, k)}
<1>1. 0 \in K
  <2>1. [i \in 0 .. N |-> b] \in [0 .. N -> S] /\ [i \in 0 .. N |-> b][0] = b
    OBVIOUS
  <2>2. \A i \in 1 .. N : ~ (i <= 0)
    OBVIOUS
  <2>3. Runs([i \in 0 .. N |-> b], 0) /\ 0 \in 0 .. N
    BY <2>1, <2>2
  <2> HIDE DEF Runs
  <2> QED BY <2>1, <2>3
<1>2. ASSUME NEW k \in 0 .. N, k \in K, k < N PROVE k + 1 \in K
  <2>1. PICK f \in [0 .. N -> S] : Runs(f, k)
    BY <1>2
  <2>2. k + 1 \in 1 .. N /\ k + 1 \in 0 .. N
    BY <1>2
  <2>3. <<k + 1, f[k]>> \in (1 .. N) \X S
    BY <2>2
  <2> DEFINE x == G[<<k + 1, f[k]>>]
             g == [i \in 0 .. N |-> IF i = k + 1 THEN x ELSE f[i]]
  <2>4. x \in S
    BY <2>3
  <2> HIDE DEF x
  <2>5. g \in [0 .. N -> S] /\ g[0] = b
    BY <2>1, <2>4
  <2>6. ASSUME NEW i \in 1 .. N, i <= k + 1 PROVE g[i] = G[<<i, g[i - 1]>>]
    <3>1. i - 1 \in 0 .. N /\ i - 1 # k + 1 /\ g[i - 1] = f[i - 1]
      BY <2>6
    <3>2. CASE i = k + 1
      <4>1. i - 1 = k /\ g[i] = x
        BY <3>2
      <4> QED BY <3>1, <3>2, <4>1 DEF x
    <3>3. CASE i # k + 1
      <4>1. i <= k /\ g[i] = f[i]
        BY <2>6, <3>3
      <4> QED BY <2>1, <3>1, <4>1
    <3> QED BY <3>2, <3>3
  <2> HIDE DEF g
  <2> QED BY <2>2, <2>5, <2>6
<1>3. \E f \in [0 .. N -> S] : Runs(f, N)
  <2> HIDE DEF K
  <2>1. N \in K
    <3>1. \A k \in 0 .. N : k \in K
      BY <1>1, <1>2, UpTo
    <3> QED BY <3>1
  <2> QED BY <2>1 DEF K
<1>4. \A i \in 1 .. N : i <= N
  OBVIOUS
<1> HIDE DEF K
<1> QED BY <1>3, <1>4 DEF Turning

-----------------------------------------------------------------------------
(* Cutting a record *)

ChunkSet == [block : Nat, offset : Nat, len : Nat, rec : Nat, from : Nat,
             type : {"full", "first", "middle", "last"}]

\* The byte behind a chunk, and whether it is the last one of its record.
End(c)    == c.offset + HeaderSize + c.len
IsLast(c) == c.type \in {"full", "last"}

\* Chunk j of a record r that begins at byte u of block b: in its block it comes
\* first, unless it is the first of all.
Piece(c, j, r, b, u) ==
  /\ c \in ChunkSet /\ c.rec = r /\ c.block = b + j - 1
  /\ c.offset = IF j = 1 THEN u ELSE 0
  /\ c.len > 0 /\ End(c) <= BlockSize

\* The chunks p carry record r, of the given size, from byte u of block b on.
Run(p, r, size, b, u) ==
  /\ p \in Seq(ChunkSet) /\ Len(p) > 0
  /\ \A j \in 1 .. Len(p) : Piece(p[j], j, r, b, u) /\ (IsLast(p[j]) <=> j = Len(p))
  /\ \A j \in 1 .. Len(p) - 1 : End(p[j]) = BlockSize /\ p[j + 1].from = p[j].from + p[j].len
  /\ p[1].from = 0 /\ p[Len(p)].from + p[Len(p)].len = size
  /\ u + size + Len(p) * HeaderSize = (Len(p) - 1) * BlockSize + End(p[Len(p)])

\* The same for a record that is cut into k pieces so far, with left bytes to go from
\* byte u2 of block b2 on.
Begun(cs, n, rest, b2, u2, r, size, b, u) ==
  /\ cs \in Seq(ChunkSet) /\ b2 \in Nat /\ u2 \in Nat /\ rest \in 0 .. size
  /\ \A j \in 1 .. n : Piece(cs[j], j, r, b, u) /\ (IsLast(cs[j]) <=> j = n /\ rest = 0)
  /\ \A j \in 1 .. n - 1 : End(cs[j]) = BlockSize /\ cs[j + 1].from = cs[j].from + cs[j].len
  /\ n > 0 => cs[1].from = 0 /\ cs[n].from + cs[n].len = size - rest
  /\ rest = 0 => n > 0 /\ u + size + n * HeaderSize = (n - 1) * BlockSize + End(cs[n])
  /\ rest # 0 => /\ n > 0 => End(cs[n]) = BlockSize
                 /\ b2 = b + n /\ u2 = (IF n = 0 THEN u ELSE 0)
                 /\ rest <= size - n
                 /\ u + (size - rest) + n * HeaderSize = n * BlockSize + u2

CutOK(c, r, size, b, u) ==
  Begun(c.chunks, Len(c.chunks), c.left, c.block, c.used, r, size, b, u)

\* A turn of the loop goes on with a cut.
LEMMA CutGoesOn ==
  ASSUME NEW r \in Nat, NEW size \in Nat, NEW b \in Nat, NEW u \in Nat,
         u + HeaderSize < BlockSize, ~ Fits(size, u), NEW c, CutOK(c, r, size, b, u)
  PROVE  /\ CutOK(Cut(c, r, size), r, size, b, u)
         /\ c.left # 0 => Len(Cut(c, r, size).chunks) = Len(c.chunks) + 1
<1>1. CASE c.left = 0
  BY <1>1 DEF Cut
<1>2. CASE c.left # 0
  <2> DEFINE p     == c.chunks
             k     == Len(c.chunks)
             left  == c.left
             room  == BlockSize - c.used - HeaderSize
             len   == IF room > left THEN left ELSE room
             end   == c.used + HeaderSize + len
             x     == [block |-> c.block, offset |-> c.used, len |-> len, rec |-> r,
                       from |-> size - left, type |-> ChunkType(left, size, len)]
             q     == Append(p, x)
             d     == Cut(c, r, size)
  <2>1. /\ p \in Seq(ChunkSet) /\ k \in Nat /\ left \in 1 .. size /\ c.block = b + k
        /\ c.used = (IF k = 0 THEN u ELSE 0) /\ left <= size - k
        /\ u + (size - left) + k * HeaderSize = k * BlockSize + c.used
        /\ c.used \in Nat /\ c.used + HeaderSize < BlockSize
        /\ k > 0 => End(p[k]) = BlockSize
    <3>1. Begun(p, k, left, c.block, c.used, r, size, b, u)
      BY DEF CutOK
    <3>2. p \in Seq(ChunkSet) /\ c.used \in Nat /\ left \in 0 .. size
      BY <3>1 DEF Begun
    <3>3. /\ k > 0 => End(p[k]) = BlockSize
          /\ c.block = b + k /\ c.used = (IF k = 0 THEN u ELSE 0)
          /\ left <= size - k
          /\ u + (size - left) + k * HeaderSize = k * BlockSize + c.used
      BY <1>2, <3>1 DEF Begun
    <3>4. k \in Nat
      BY <3>2, LenProperties
    <3>5. left \in 1 .. size
      BY <1>2, <3>2
    <3>6. c.used + HeaderSize < BlockSize
      BY <3>3, Measures
    <3> HIDE DEF p, k, left
    <3> QED BY <3>2, <3>3, <3>4, <3>5, <3>6
  <2>2. /\ d.chunks = q /\ d.left = left - len
        /\ d.block = c.block + end \div BlockSize /\ d.used = end % BlockSize
    BY <1>2 DEF Cut
  <2>3. /\ len \in Nat /\ len > 0 /\ len <= left /\ end \in Nat /\ end <= BlockSize
        /\ len # left => end = BlockSize
    <3>1. PICK v \in Nat, l \in Nat, H \in Nat, B \in Nat :
            v = c.used /\ l = left /\ l > 0 /\ H = HeaderSize /\ B = BlockSize /\ v + H < B
      <4>1. c.used \in Nat /\ c.used + HeaderSize < BlockSize /\ left \in 1 .. size
        BY <2>1
      <4> HIDE DEF left, room, len, end, x, q, d
      <4>2. left \in Nat /\ left > 0
        BY <4>1
      <4>3. HeaderSize \in Nat /\ BlockSize \in Nat
        BY Measures
      <4> QED BY <4>1, <4>2, <4>3
    <3>2. PICK m \in Nat : m = B - v - H /\ m > 0 /\ v + H + m = B
      <4>1. B - v - H \in Nat /\ B - v - H > 0 /\ v + H + (B - v - H) = B
        BY <3>1
      <4> QED BY <4>1
    <3>3. room = m
      BY <3>1, <3>2
    <3> HIDE DEF room, left
    <3>4. CASE m > l
      <4>1. len = l
        BY <3>1, <3>3, <3>4
      <4>2. v + H + l <= B
        BY <3>1, <3>2, <3>4
      <4> QED BY <3>1, <4>1, <4>2
    <3>5. CASE ~ (m > l)
      <4>1. len = m
        BY <3>1, <3>3, <3>5
      <4> QED BY <3>1, <3>2, <3>5, <4>1
    <3> QED BY <3>4, <3>5
  <2>4. d.block \in Nat /\ d.used \in Nat
    <3>1. end \div BlockSize \in Nat /\ end % BlockSize \in Nat
      <4> HIDE DEF end
      <4> QED BY <2>3, Measures, DivMod
    <3> QED BY <2>1, <2>2, <3>1
  <2>5. x.type \in {"first", "middle", "last"} /\ (IsLast(x) <=> len = left)
    <3>1. left = size => len # left
      BY <2>1, Measures DEF Fits
    <3> QED BY <3>1 DEF ChunkType, IsLast
  <2>6. End(x) = end
    BY DEF End
  <2>7. Piece(x, k + 1, r, b, u)
    <3>1. x \in ChunkSet
      <4>1. c.block \in Nat /\ c.used \in Nat /\ size - left \in Nat
        BY <2>1
      <4>2. ChunkType(left, size, len) \in {"first", "middle", "last"}
        BY <2>5
      <4> HIDE DEF left, len
      <4> QED BY <2>3, <4>1, <4>2 DEF ChunkSet
    <3>2. x.block = b + (k + 1) - 1 /\ x.offset = (IF k + 1 = 1 THEN u ELSE 0)
      BY <2>1
    <3> HIDE DEF len, end, x
    <3> QED BY <2>3, <2>6, <3>1, <3>2 DEF Piece, x
  <2> HIDE DEF len, end, x, q, d
  <2>8. /\ q \in Seq(ChunkSet) /\ Len(q) = k + 1
        /\ \A j \in 1 .. k : q[j] = p[j]
        /\ q[k + 1] = x
    <3>1. x \in ChunkSet
      BY <2>7 DEF Piece
    <3> QED BY <2>1, <3>1, AppendProperties DEF q
  <2>9. d.left \in 0 .. size /\ (d.left = 0 <=> len = left)
    <3> HIDE DEF left
    <3>1. d.left = left - len /\ left \in 1 .. size /\ len \in Nat /\ len > 0 /\ len <= left
      BY <2>1, <2>2, <2>3
    <3> QED BY <3>1
  <2>10. \A j \in 1 .. k + 1 : /\ Piece(q[j], j, r, b, u)
                               /\ IsLast(q[j]) <=> j = k + 1 /\ d.left = 0
    <3>1. \A j \in 1 .. k : Piece(p[j], j, r, b, u) /\ ~ IsLast(p[j])
      BY <1>2 DEF CutOK, Begun
    <3> HIDE DEF p, k
    <3>2. ASSUME NEW j \in 1 .. k + 1 PROVE j \in 1 .. k \/ j = k + 1
      BY <2>1
    <3>3. \A j \in 1 .. k : j # k + 1
      BY <2>1
    <3> QED BY <2>5, <2>7, <2>8, <2>9, <3>1, <3>2, <3>3
  <2>11. \A j \in 1 .. k : End(q[j]) = BlockSize /\ q[j + 1].from = q[j].from + q[j].len
    <3>1. /\ \A j \in 1 .. k - 1 : End(p[j]) = BlockSize /\ p[j + 1].from = p[j].from + p[j].len
          /\ k > 0 => p[k].from + p[k].len = size - left
      BY DEF CutOK, Begun
    <3>2. x.from = size - left
      BY DEF x
    <3> HIDE DEF p, k, left
    <3>3. ASSUME NEW j \in 1 .. k PROVE End(q[j]) = BlockSize /\ q[j + 1].from = q[j].from + q[j].len
      <4>1. CASE j = k
        BY <2>1, <2>8, <3>1, <3>2, <4>1
      <4>2. CASE j # k
        <5>1. j \in 1 .. k - 1 /\ j + 1 \in 1 .. k
          BY <2>1, <4>2
        <5> QED BY <2>8, <3>1, <5>1
      <4> QED BY <4>1, <4>2
    <3> QED BY <3>3
  <2>12. q[1].from = 0 /\ q[k + 1].from + q[k + 1].len = size - d.left
    <3>1. x.from = size - left /\ x.len = len
      BY DEF x
    <3>2. k > 0 => p[1].from = 0
      BY DEF CutOK, Begun
    <3>3. k = 0 => left = size
      BY <2>1, Measures
    <3> HIDE DEF p, k, left
    <3>4. q[k + 1].from + q[k + 1].len = size - d.left
      BY <2>1, <2>2, <2>3, <2>8, <3>1
    <3>5. CASE k = 0
      BY <2>1, <2>8, <3>1, <3>3, <3>4, <3>5
    <3>6. CASE k > 0
      <4>1. 1 \in 1 .. k
        BY <2>1, <3>6
      <4> QED BY <2>8, <3>2, <3>4, <3>6, <4>1
    <3> QED BY <2>1, <3>4, <3>5, <3>6
  <2>13. u + (size - d.left) + (k + 1) * HeaderSize = k * BlockSize + end
    <3> HIDE DEF k, left
    <3>1. PICK kh \in Nat : kh = k * HeaderSize /\ (k + 1) * HeaderSize = kh + HeaderSize
      BY <2>1, Measures
    <3>2. PICK kb \in Nat : kb = k * BlockSize
      BY <2>1, Measures
    <3>3. end = c.used + HeaderSize + len /\ d.left = left - len
      BY <2>2 DEF end
    <3>4. u + (size - left) + kh = kb + c.used
      BY <2>1, <3>1, <3>2
    <3>5. left \in Nat /\ len \in Nat /\ c.used \in Nat /\ HeaderSize \in Nat
      BY <2>1, <2>3, Measures
    <3>6. u + (size - d.left) + (kh + HeaderSize) = kb + end
      BY <3>3, <3>4, <3>5
    <3> QED BY <3>1, <3>2, <3>6
  <2>14. Begun(q, k + 1, d.left, d.block, d.used, r, size, b, u)
    <3> HIDE DEF k
    <3>1. (k + 1) - 1 = k /\ k + 1 > 0 /\ k + 1 # 0
      BY <2>1
    <3>4. \A j \in 1 .. (k + 1) - 1 : End(q[j]) = BlockSize /\ q[j + 1].from = q[j].from + q[j].len
      BY <2>11, <3>1
    <3>5. /\ q \in Seq(ChunkSet) /\ d.block \in Nat /\ d.used \in Nat /\ d.left \in 0 .. size
          /\ \A j \in 1 .. k + 1 : Piece(q[j], j, r, b, u) /\ (IsLast(q[j]) <=> j = k + 1 /\ d.left = 0)
      BY <2>4, <2>8, <2>9, <2>10, Zenon
    <3>2. CASE d.left = 0
      <4>1. u + size + (k + 1) * HeaderSize = k * BlockSize + End(q[k + 1])
        <5>1. size - d.left = size
          BY <3>2
        <5> QED BY <2>6, <2>8, <2>13, <5>1
      <4>2. u + size + (k + 1) * HeaderSize = ((k + 1) - 1) * BlockSize + End(q[k + 1])
        BY <3>1, <4>1
      <4> QED BY <2>12, <3>1, <3>2, <3>4, <3>5, <4>2, Zenon DEF Begun
    <3>3. CASE d.left # 0
      <4>1. end = BlockSize
        BY <2>3, <2>9, <3>3
      <4>2. d.block = b + (k + 1) /\ d.used = 0
        <5>1. BlockSize \div BlockSize = 1 /\ BlockSize % BlockSize = 0
          BY Measures
        <5> QED BY <2>1, <2>2, <4>1, <5>1
      <4>3. d.left <= size - (k + 1)
        <5> HIDE DEF left
        <5> QED BY <2>1, <2>2, <2>3
      <4>4. u + (size - d.left) + (k + 1) * HeaderSize = (k + 1) * BlockSize + 0
        <5>1. (k + 1) * BlockSize = k * BlockSize + BlockSize /\ k * BlockSize \in Nat
          BY <2>1, Measures
        <5> QED BY <2>13, <4>1, <5>1, Measures
      <4>6. /\ d.block = b + (k + 1) /\ d.used = IF k + 1 = 0 THEN u ELSE 0
            /\ d.left <= size - (k + 1)
            /\ u + (size - d.left) + (k + 1) * HeaderSize = (k + 1) * BlockSize + d.used
        BY <3>1, <4>2, <4>3, <4>4
      <4>5. End(q[k + 1]) = BlockSize
        BY <2>6, <2>8, <4>1
      <4> QED BY <2>12, <3>1, <3>3, <3>4, <3>5, <4>4, <4>5, <4>6, Zenon DEF Begun
    <3> QED BY <3>2, <3>3
  <2>15. d.chunks = q /\ Len(d.chunks) = k + 1
    BY <2>2, <2>8
  <2> QED BY <2>14, <2>15 DEF CutOK, d
<1> QED BY <1>1, <1>2

\* ChunksFrom cuts the whole record.
LEMMA ChunksFromIs ==
  ASSUME NEW r \in Nat, NEW size \in Nat, size > 0, NEW b \in Nat, NEW u \in Nat,
         u + HeaderSize < BlockSize, ~ Fits(size, u)
  PROVE  Run(ChunksFrom(r, size, b, u), r, size, b, u)
<1> DEFINE c0     == [chunks |-> <<>>, block |-> b, used |-> u, left |-> size]
           CutSet == [chunks : Seq(ChunkSet), block : Nat, used : Nat, left : Nat]
           S      == {c \in CutSet : CutOK(c, r, size, b, u)}
           G      == [x \in (1 .. size) \X S |-> Cut(x[2], r, size)]
           cut    == CHOOSE f : f = [i \in 0 .. size |-> IF i = 0 THEN c0 ELSE Cut(f[i - 1], r, size)]
<1>1. c0 \in S
  <2>1. <<>> \in Seq(ChunkSet) /\ Len(<<>>) = 0
    OBVIOUS
  <2>2. c0 \in CutSet
    BY <2>1
  <2>3. Begun(<<>>, 0, size, b, u, r, size, b, u)
    BY <2>1, Measures DEF Begun
  <2>4. CutOK(c0, r, size, b, u)
    BY <2>1, <2>3 DEF CutOK
  <2> QED BY <2>2, <2>4
<1>2. ASSUME NEW c \in S
      PROVE  Cut(c, r, size) \in S /\ (c.left # 0 => Len(Cut(c, r, size).chunks) = Len(c.chunks) + 1)
  <2>1. CutOK(c, r, size, b, u)
    OBVIOUS
  <2>2. /\ CutOK(Cut(c, r, size), r, size, b, u)
        /\ c.left # 0 => Len(Cut(c, r, size).chunks) = Len(c.chunks) + 1
    BY <2>1, CutGoesOn
  <2>3. Cut(c, r, size) \in CutSet
    <3>1. CASE c.left = 0
      BY <3>1 DEF Cut
    <3>2. CASE c.left # 0
      <4>1. PICK x1, x2, x3, x4 : Cut(c, r, size) = [chunks |-> x1, block |-> x2, used |-> x3, left |-> x4]
        BY <3>2 DEF Cut
      <4>2. x1 \in Seq(ChunkSet) /\ x2 \in Nat /\ x3 \in Nat /\ x4 \in Nat
        BY <2>2, <4>1 DEF CutOK, Begun
      <4> QED BY <4>1, <4>2
    <3> QED BY <3>1, <3>2
  <2> QED BY <2>2, <2>3
<1> HIDE DEF S, c0
<1>3. \E f : f = [i \in 0 .. size |-> IF i = 0 THEN c0 ELSE Cut(f[i - 1], r, size)]
  <2>1. G \in [(1 .. size) \X S -> S]
    BY <1>2
  <2>2. PICK f \in [0 .. size -> S] : Turning(f, size, c0, G)
    <3> HIDE DEF G, CutSet, cut
    <3> QED BY <1>1, <2>1, Turns
  <2>3. ASSUME NEW i \in 0 .. size PROVE f[i] = IF i = 0 THEN c0 ELSE Cut(f[i - 1], r, size)
    <3>1. CASE i = 0
      BY <2>2, <3>1 DEF Turning
    <3>2. CASE i # 0
      <4>1. i \in 1 .. size /\ i - 1 \in 0 .. size
        BY <3>2
      <4>2. f[i - 1] \in S
        BY <4>1
      <4>3. f[i] = G[<<i, f[i - 1]>>]
        <5> HIDE DEF G
        <5> QED BY <2>2, <4>1 DEF Turning
      <4> QED BY <3>2, <4>1, <4>2, <4>3
    <3> QED BY <3>1, <3>2
  <2>4. f = [i \in 0 .. size |-> f[i]]
    OBVIOUS
  <2>5. [i \in 0 .. size |-> f[i]] = [i \in 0 .. size |-> IF i = 0 THEN c0 ELSE Cut(f[i - 1], r, size)]
    BY <2>3
  <2> HIDE DEF G
  <2> QED BY <2>4, <2>5
<1>4. cut = [i \in 0 .. size |-> IF i = 0 THEN c0 ELSE Cut(cut[i - 1], r, size)]
  BY <1>3
<1>5. ChunksFrom(r, size, b, u) = cut[size].chunks
  BY DEF ChunksFrom, c0
<1> HIDE DEF cut, G
<1>6. ASSUME NEW i \in 0 .. size, i # 0 PROVE cut[i] = Cut(cut[i - 1], r, size) /\ i - 1 \in 0 .. size
  BY <1>4, <1>6
<1>7. cut[0] = c0
  <2>1. 0 \in 0 .. size
    OBVIOUS
  <2> QED BY <1>4, <2>1
<1> DEFINE K == {i \in 0 .. size : cut[i] \in S /\ (cut[i].left # 0 => Len(cut[i].chunks) = i)}
<1>8. size \in K
  <2>1. 0 \in K
    <3>1. Len(c0.chunks) = 0
      BY DEF c0
    <3> QED BY <1>1, <1>7, <3>1
  <2>2. ASSUME NEW i \in 0 .. size, i \in K, i < size PROVE i + 1 \in K
    <3>1. i + 1 \in 0 .. size /\ i + 1 # 0 /\ (i + 1) - 1 = i
      BY <2>2
    <3>2. cut[i + 1] = Cut(cut[i], r, size)
      BY <1>6, <3>1
    <3>3. cut[i] \in S /\ (cut[i].left # 0 => Len(cut[i].chunks) = i)
      BY <2>2
    <3>4. /\ cut[i + 1] \in S
          /\ cut[i].left # 0 => Len(cut[i + 1].chunks) = i + 1
      BY <1>2, <3>2, <3>3
    <3>5. cut[i].left = 0 => cut[i + 1].left = 0
      BY <3>2 DEF Cut
    <3> QED BY <3>1, <3>4, <3>5
  <2> HIDE DEF K
  <2>3. \A i \in 0 .. size : i \in K
    BY <2>1, <2>2, UpTo
  <2> QED BY <2>3
<1>9. PICK c : c = cut[size] /\ c \in S /\ (c.left # 0 => Len(c.chunks) = size)
  BY <1>8
<1>10. PICK p, n, left, b2, u2 : /\ p = c.chunks /\ n = Len(p) /\ left = c.left
                                 /\ Begun(p, n, left, b2, u2, r, size, b, u)
  BY <1>9 DEF S, CutOK
<1>11. p \in Seq(ChunkSet) /\ n \in Nat /\ left \in 0 .. size
  BY <1>10, LenProperties DEF Begun
<1>12. left = 0
  BY <1>9, <1>10, <1>11 DEF Begun
<1>13. /\ n > 0 /\ u + size + n * HeaderSize = (n - 1) * BlockSize + End(p[n])
       /\ p[1].from = 0 /\ p[n].from + p[n].len = size
       /\ \A j \in 1 .. n : Piece(p[j], j, r, b, u) /\ (IsLast(p[j]) <=> j = n)
       /\ \A j \in 1 .. n - 1 : End(p[j]) = BlockSize /\ p[j + 1].from = p[j].from + p[j].len
  BY <1>10, <1>11, <1>12 DEF Begun
<1>14. Run(p, r, size, b, u)
  BY <1>10, <1>11, <1>13 DEF Run
<1> QED BY <1>5, <1>9, <1>10, <1>14

\* Chunks cuts the whole record too.
LEMMA ChunksIs ==
  ASSUME NEW r \in Nat, NEW size \in Nat, size > 0, NEW b \in Nat, NEW u \in Nat,
         u + HeaderSize < BlockSize
  PROVE  Run(Chunks(r, size, b, u), r, size, b, u)
<1>1. CASE ~ Fits(size, u)
  BY <1>1, ChunksFromIs DEF Chunks
<1>2. CASE Fits(size, u)
  <2> DEFINE x == [block |-> b, offset |-> u, len |-> size, rec |-> r, from |-> 0, type |-> "full"]
  <2>1. x \in ChunkSet /\ IsLast(x) /\ End(x) = u + HeaderSize + size /\ x.from + x.len = size
    BY DEF ChunkSet, IsLast, End
  <2>2. x.rec = r /\ x.block = b /\ x.offset = u /\ x.len = size /\ x.from = 0
    OBVIOUS
  <2> HIDE DEF x
  <2>3. <<x>> \in Seq(ChunkSet) /\ Len(<<x>>) = 1 /\ <<x>>[1] = x
    BY <2>1
  <2>4. End(x) <= BlockSize
    BY <1>2, <2>1, Measures DEF Fits
  <2>5. Piece(x, 1, r, b, u)
    BY <2>1, <2>2, <2>4 DEF Piece
  <2>6. u + size + 1 * HeaderSize = (1 - 1) * BlockSize + End(x)
    BY <2>1, Measures
  <2>7. Run(<<x>>, r, size, b, u)
    BY <2>1, <2>2, <2>3, <2>5, <2>6 DEF Run
  <2> QED BY <1>2, <2>7 DEF Chunks, x
<1> QED BY <1>1, <1>2

-----------------------------------------------------------------------------
(* Places: a chunk begins at one or behind it, and ends at one or before it *)

PlaceSet == [block : Nat, offset : Nat]

NotAfter(b1, u1, b2, u2) == b1 < b2 \/ (b1 = b2 /\ u1 <= u2)
From(c, b, u)            == b < c.block \/ (b = c.block /\ u <= c.offset)
UpToPlace(c, b, u)       == c.block < b \/ (c.block = b /\ End(c) <= u)
Ahead(c, d)              == c.block < d.block \/ (c.block = d.block /\ End(c) <= d.offset)

\* Chunks that are laid out one behind the other, between two places.
Laid(cs) ==
  /\ cs \in Seq(ChunkSet)
  /\ \A i \in 1 .. Len(cs) : End(cs[i]) <= BlockSize
  /\ \A i, j \in 1 .. Len(cs) : i < j => Ahead(cs[i], cs[j])
Between(cs, b1, u1, b2, u2) ==
  \A i \in 1 .. Len(cs) : From(cs[i], b1, u1) /\ UpToPlace(cs[i], b2, u2)

\* Places are in a linear order.
LEMMA PlacesOrdered ==
  ASSUME NEW c \in ChunkSet, NEW d \in ChunkSet, NEW b1 \in Nat, NEW u1 \in Nat,
         NEW b2 \in Nat, NEW u2 \in Nat
  PROVE  /\ UpToPlace(c, b1, u1) /\ NotAfter(b1, u1, b2, u2) => UpToPlace(c, b2, u2)
         /\ From(c, b2, u2) /\ NotAfter(b1, u1, b2, u2) => From(c, b1, u1)
         /\ UpToPlace(c, b1, u1) /\ From(d, b1, u1) => Ahead(c, d)
<1>1. PICK cb \in Nat, co \in Nat, ce \in Nat : cb = c.block /\ co = c.offset /\ ce = End(c)
  BY Measures DEF ChunkSet, End
<1>2. PICK db \in Nat, do \in Nat : db = d.block /\ do = d.offset
  BY DEF ChunkSet
<1>3. /\ (cb < b1 \/ (cb = b1 /\ ce <= u1)) /\ (b1 < b2 \/ (b1 = b2 /\ u1 <= u2))
            => cb < b2 \/ (cb = b2 /\ ce <= u2)
      /\ (b2 < cb \/ (b2 = cb /\ u2 <= co)) /\ (b1 < b2 \/ (b1 = b2 /\ u1 <= u2))
            => b1 < cb \/ (b1 = cb /\ u1 <= co)
      /\ (cb < b1 \/ (cb = b1 /\ ce <= u1)) /\ (b1 < db \/ (b1 = db /\ u1 <= do))
            => cb < db \/ (cb = db /\ ce <= do)
  OBVIOUS
<1> QED BY <1>1, <1>2, <1>3, Zenon DEF UpToPlace, From, NotAfter, Ahead

\* What is laid out up to a place and what is laid out from there on.
LEMMA LaidConcat ==
  ASSUME NEW cs, NEW ds, Laid(cs), Laid(ds),
         NEW b0 \in Nat, NEW u0 \in Nat, NEW b1 \in Nat, NEW u1 \in Nat,
         NEW b2 \in Nat, NEW u2 \in Nat,
         NotAfter(b0, u0, b1, u1), NotAfter(b1, u1, b2, u2),
         Between(cs, b0, u0, b1, u1), Between(ds, b1, u1, b2, u2)
  PROVE  Laid(cs \o ds) /\ Between(cs \o ds, b0, u0, b2, u2)
<1>1. cs \in Seq(ChunkSet) /\ ds \in Seq(ChunkSet)
  BY DEF Laid
<1>2. Len(cs) \in Nat /\ Len(ds) \in Nat
  BY <1>1, LenProperties
<1> DEFINE es == cs \o ds
           L  == Len(cs)
<1>3. /\ es \in Seq(ChunkSet) /\ Len(es) = L + Len(ds)
      /\ \A i \in 1 .. L + Len(ds) : es[i] = IF i <= L THEN cs[i] ELSE ds[i - L]
  BY <1>1, ConcatProperties
<1>4. \A i \in 1 .. L : cs[i] \in ChunkSet
  BY <1>1, ElementOfSeq
<1>5. \A i \in 1 .. Len(ds) : ds[i] \in ChunkSet
  BY <1>1, ElementOfSeq
<1> HIDE DEF es
<1>7. ASSUME NEW i \in 1 .. Len(es)
      PROVE  \/ i \in 1 .. L /\ es[i] = cs[i]
             \/ i - L \in 1 .. Len(ds) /\ es[i] = ds[i - L] /\ i > L
  <2>1. i \in 1 .. L + Len(ds) /\ L \in Nat /\ Len(ds) \in Nat
    BY <1>2, <1>3
  <2>2. es[i] = IF i <= L THEN cs[i] ELSE ds[i - L]
    BY <1>3, <2>1
  <2> HIDE DEF L
  <2>3. CASE i <= L
    BY <2>1, <2>2, <2>3
  <2>4. CASE ~ (i <= L)
    <3>1. i - L \in 1 .. Len(ds) /\ i > L
      BY <2>1, <2>4
    <3> QED BY <2>2, <2>4, <3>1
  <2> QED BY <2>3, <2>4
<1>8. ASSUME NEW i \in 1 .. Len(es)
      PROVE  End(es[i]) <= BlockSize /\ From(es[i], b0, u0) /\ UpToPlace(es[i], b2, u2)
  <2>1. CASE i \in 1 .. L /\ es[i] = cs[i]
    <3>1. /\ End(cs[i]) <= BlockSize /\ From(cs[i], b0, u0) /\ UpToPlace(cs[i], b1, u1)
      BY <2>1 DEF Laid, Between
    <3>2. UpToPlace(cs[i], b2, u2)
      BY <1>4, <2>1, <3>1, PlacesOrdered, Zenon
    <3> QED BY <2>1, <3>1, <3>2
  <2>2. CASE i - L \in 1 .. Len(ds) /\ es[i] = ds[i - L]
    <3>1. /\ End(es[i]) <= BlockSize /\ From(es[i], b1, u1) /\ UpToPlace(es[i], b2, u2)
      BY <2>2 DEF Laid, Between
    <3>2. From(es[i], b0, u0)
      BY <1>5, <2>2, <3>1, PlacesOrdered, Zenon
    <3> QED BY <2>2, <3>1, <3>2
  <2> QED BY <1>7, <2>1, <2>2
<1>9. ASSUME NEW i \in 1 .. Len(es), NEW j \in 1 .. Len(es), i < j
      PROVE  Ahead(es[i], es[j])
  <2>1. CASE j \in 1 .. L /\ es[j] = cs[j]
    <3>1. i \in 1 .. L /\ es[i] = cs[i]
      BY <1>2, <1>7, <1>9, <2>1
    <3> QED BY <1>9, <2>1, <3>1 DEF Laid
  <2>2. CASE j - L \in 1 .. Len(ds) /\ es[j] = ds[j - L]
    <3>1. CASE i \in 1 .. L /\ es[i] = cs[i]
      <4>1. UpToPlace(es[i], b1, u1) /\ From(es[j], b1, u1)
        BY <2>2, <3>1 DEF Between
      <4> QED BY <1>4, <1>5, <2>2, <3>1, <4>1, PlacesOrdered, Zenon
    <3>2. CASE i - L \in 1 .. Len(ds) /\ es[i] = ds[i - L]
      <4>1. i - L < j - L
        BY <1>2, <1>9
      <4> QED BY <2>2, <3>2, <4>1 DEF Laid
    <3> QED BY <1>7, <3>1, <3>2
  <2> QED BY <1>7, <2>1, <2>2
<1> QED BY <1>3, <1>8, <1>9 DEF Laid, Between, es

\* A run of n chunks is laid out from byte u of block b on, up to where the counters
\* then stand: at the start of the next block if it fills the last one.
Placed(p, n, e, b, u, ab, ao) ==
  /\ n \in Nat /\ n > 0 /\ e \in Nat /\ e > 0 /\ e <= BlockSize
  /\ e = BlockSize => ab = b + n /\ ao = 0
  /\ e # BlockSize => ab = b + (n - 1) /\ ao = e
  /\ Laid(p) /\ Between(p, b, u, ab, ao) /\ NotAfter(b, u, ab, ao)
  /\ PlaceAfter(ab, ao) = PlaceAfter(p[n].block, e)

LEMMA RunLaid ==
  ASSUME NEW p, NEW r \in Nat, NEW size \in Nat, NEW b \in Nat, NEW u \in Nat,
         Run(p, r, size, b, u), NEW n, n = Len(p), NEW e, e = End(p[n]),
         NEW at, at = Place(b, u + (n * HeaderSize + size)),
         NEW ab, ab = at.block, NEW ao, ao = at.offset
  PROVE  Placed(p, n, e, b, u, ab, ao)
<1>1. p \in Seq(ChunkSet) /\ n \in Nat /\ n > 0
  BY LenProperties DEF Run
<1>2. \A j \in 1 .. n : p[j] \in ChunkSet
  BY <1>1, ElementOfSeq
<1>3. \A c \in ChunkSet : c.block \in Nat /\ c.offset \in Nat /\ c.len \in Nat /\ End(c) \in Nat
                          /\ End(c) = c.offset + HeaderSize + c.len /\ c.offset < End(c)
  BY Measures DEF ChunkSet, End
<1>4. \A j \in 1 .. n : /\ p[j].block = b + (j - 1) /\ End(p[j]) <= BlockSize
                        /\ p[j].offset = IF j = 1 THEN u ELSE 0
  BY <1>1 DEF Run, Piece
<1>5. n \in 1 .. n /\ 1 \in 1 .. n
  BY <1>1
<1>6. e \in Nat /\ e > 0 /\ e <= BlockSize
  BY <1>2, <1>3, <1>4, <1>5
<1>7. u + (n * HeaderSize + size) = (n - 1) * BlockSize + e
  <2>1. u + size + n * HeaderSize = (n - 1) * BlockSize + e
    BY DEF Run
  <2>2. n * HeaderSize \in Nat
    BY <1>1, Measures
  <2> QED BY <2>1, <2>2
<1>8. at = IF e = BlockSize THEN [block |-> b + n, offset |-> 0]
                            ELSE [block |-> b + (n - 1), offset |-> e]
  <2> DEFINE x == (n - 1) * BlockSize + e
  <2>1. at = [block |-> b + x \div BlockSize, offset |-> x % BlockSize]
    BY <1>7 DEF Place
  <2>2. CASE e = BlockSize
    <3>1. x = n * BlockSize + 0
      BY <1>1, <2>2, Measures
    <3>2. (n * BlockSize + 0) \div BlockSize = n /\ (n * BlockSize + 0) % BlockSize = 0
      <4>1. BlockSize > 0 /\ 0 < BlockSize /\ BlockSize \in Nat
        BY Measures
      <4> QED BY <1>1, <4>1, DivModIs
    <3> HIDE DEF x
    <3> QED BY <2>1, <2>2, <3>1, <3>2
  <2>3. CASE e # BlockSize
    <3>1. e < BlockSize /\ BlockSize \in Nat /\ BlockSize > 0 /\ n - 1 \in Nat
      BY <1>1, <1>6, <2>3, Measures
    <3>2. x \div BlockSize = n - 1 /\ x % BlockSize = e
      <4>1. PICK k \in Nat : k = n - 1
        BY <3>1
      <4>2. PICK f \in Nat : f = e
        BY <1>6
      <4>3. PICK d \in Nat : d = BlockSize
        BY <3>1
      <4>4. (k * d + f) \div d = k /\ (k * d + f) % d = f
        <5>1. d > 0 /\ f < d
          BY <3>1, <4>2, <4>3
        <5> QED BY <5>1, DivModIs
      <4>5. x = k * d + f
        BY <4>1, <4>2, <4>3
      <4> HIDE DEF x
      <4> QED BY <4>1, <4>2, <4>3, <4>4, <4>5
    <3> HIDE DEF x
    <3> QED BY <2>1, <2>3, <3>2
  <2> QED BY <2>2, <2>3
<1>13. /\ ab \in Nat /\ ao \in Nat
       /\ e = BlockSize => ab = b + n /\ ao = 0
       /\ e # BlockSize => ab = b + (n - 1) /\ ao = e
  <2>1. CASE e = BlockSize
    BY <1>1, <1>8, <2>1
  <2>2. CASE e # BlockSize
    BY <1>1, <1>6, <1>8, <2>2
  <2> QED BY <2>1, <2>2
<1>9. Laid(p)
  <2>1. ASSUME NEW i \in 1 .. n, NEW j \in 1 .. n, i < j PROVE Ahead(p[i], p[j])
    <3>1. p[i].block = b + (i - 1) /\ p[j].block = b + (j - 1)
      BY <1>4
    <3>2. b + (i - 1) < b + (j - 1)
      BY <1>1, <2>1
    <3> QED BY <3>1, <3>2 DEF Ahead
  <2> QED BY <1>1, <1>4, <2>1 DEF Laid
<1>10. Between(p, b, u, ab, ao)
  <2>1. ASSUME NEW i \in 1 .. n PROVE From(p[i], b, u) /\ UpToPlace(p[i], ab, ao)
    <3>1. p[i].block = b + (i - 1) /\ (p[i].offset = IF i = 1 THEN u ELSE 0)
      BY <1>4
    <3>4. From(p[i], b, u)
      <4>1. CASE i = 1
        <5>1. b = b + (i - 1)
          BY <4>1
        <5> QED BY <3>1, <4>1, <5>1 DEF From
      <4>2. CASE i # 1
        <5>1. b < b + (i - 1)
          BY <1>1, <4>2
        <5> QED BY <3>1, <5>1 DEF From
      <4> QED BY <4>1, <4>2
    <3>2. CASE i = n
      <4>1. e = BlockSize => b + (n - 1) < ab
        BY <1>1, <1>13
      <4>2. e # BlockSize => b + (n - 1) = ab /\ e <= ao
        BY <1>6, <1>13
      <4> QED BY <3>1, <3>2, <3>4, <4>1, <4>2 DEF UpToPlace
    <3>3. CASE i # n
      <4>1. b + (i - 1) < ab
        BY <1>1, <1>13, <3>3
      <4> QED BY <3>1, <3>4, <4>1 DEF UpToPlace
    <3> QED BY <3>2, <3>3
  <2> QED BY <2>1 DEF Between
<1>11. NotAfter(b, u, ab, ao)
  <2>1. u < End(p[1])
    BY <1>2, <1>3, <1>4, <1>5
  <2>2. CASE n = 1
    <3>1. u < e
      BY <2>1, <2>2
    <3>2. (e = BlockSize => b < ab) /\ (e # BlockSize => b = ab /\ u <= ao)
      BY <1>6, <1>13, <2>2, <3>1
    <3> QED BY <3>2 DEF NotAfter
  <2>3. CASE n > 1
    <3>1. b < ab
      BY <1>1, <1>13, <2>3
    <3> QED BY <3>1 DEF NotAfter
  <2> QED BY <1>1, <2>2, <2>3
<1>12. PlaceAfter(ab, ao) = PlaceAfter(p[n].block, e)
  <2>1. p[n].block = b + (n - 1)
    BY <1>4, <1>5
  <2>2. CASE e = BlockSize
    <3>1. 0 + HeaderSize < BlockSize /\ e + HeaderSize >= BlockSize
      BY <2>2, Measures
    <3>2. PlaceAfter(ab, ao) = [block |-> b + n, offset |-> 0]
      BY <1>13, <2>2, <3>1, Measures DEF PlaceAfter
    <3>3. PlaceAfter(p[n].block, e) = [block |-> (b + (n - 1)) + 1, offset |-> 0]
      BY <2>1, <3>1 DEF PlaceAfter
    <3>4. (b + (n - 1)) + 1 = b + n
      BY <1>1
    <3> QED BY <3>2, <3>3, <3>4
  <2>3. CASE e # BlockSize
    BY <1>13, <2>1, <2>3
  <2> QED BY <2>2, <2>3
<1> QED BY <1>1, <1>6, <1>9, <1>10, <1>11, <1>12, <1>13 DEF Placed

-----------------------------------------------------------------------------
(* Writing a record behind what a buffer holds *)

\* A buffer whose counters are those of a segment.
IsBuffer(buf) ==
  /\ buf.block \in Nat /\ buf.used \in Nat /\ buf.used < BlockSize /\ buf.len \in Nat
  /\ buf.chunks \in Seq(ChunkSet) /\ buf.pos \in Seq(PlaceSet)

\* new is buf with record r written behind it, as the chunks p from byte u of block b on.
Wrote(buf, new, p, r, size, b, u) ==
  /\ b \in Nat /\ u \in Nat /\ u + HeaderSize < BlockSize
  /\ PlaceAfter(buf.block, buf.used) = [block |-> b, offset |-> u]
  /\ NotAfter(buf.block, buf.used, b, u)
  /\ Run(p, r, size, b, u)
  /\ new.chunks = buf.chunks \o p
  /\ new.pos = Append(buf.pos, [block |-> b, offset |-> u])
  /\ Place(b, u + (Len(p) * HeaderSize + size)) = [block |-> new.block, offset |-> new.used]
  /\ new.len = buf.len + (Padding(buf.used) + (Len(p) * HeaderSize + size))
  /\ Padding(buf.used) \in Nat /\ Padding(buf.used) <= HeaderSize
  /\ Padding(buf.used) > 0 \/ buf.used = 0 => u = 0
  /\ buf.used = 0 => Padding(buf.used) = 0
  /\ new.block * BlockSize + new.used
       = (buf.block * BlockSize + buf.used) + (Padding(buf.used) + (Len(p) * HeaderSize + size))

LEMMA WriteIs ==
  ASSUME NEW buf, IsBuffer(buf), NEW r \in Nat, NEW size \in Nat, size > 0,
         NEW new, new = WriteToBuffer(buf, r, size)
  PROVE  /\ IsBuffer(new)
         /\ \E p, b, u : Wrote(buf, new, p, r, size, b, u)
<1>1. PICK b0 \in Nat, u0 \in Nat : b0 = buf.block /\ u0 = buf.used /\ u0 < BlockSize
  BY DEF IsBuffer
<1>2. PICK pad : pad = Padding(u0)
  OBVIOUS
<1>3. PICK b, u : /\ b = IF pad > 0 THEN b0 + 1 ELSE b0
                  /\ u = IF pad > 0 THEN 0 ELSE u0
  OBVIOUS
<1>4. /\ pad \in Nat /\ pad <= HeaderSize /\ b \in Nat /\ u \in Nat /\ u + HeaderSize < BlockSize
      /\ (pad > 0 \/ u0 = 0 => u = 0) /\ (u0 = 0 => pad = 0)
      /\ PlaceAfter(b0, u0) = [block |-> b, offset |-> u]
      /\ NotAfter(b0, u0, b, u)
  <2>1. CASE u0 + HeaderSize >= BlockSize
    <3>1. pad = BlockSize - u0
      BY <1>1, <1>2, <2>1, Measures DEF Padding
    <3>2. pad \in Nat /\ pad > 0 /\ pad <= HeaderSize /\ u0 # 0
      BY <1>1, <2>1, <3>1, Measures
    <3>3. b = b0 + 1 /\ u = 0
      BY <1>3, <3>2
    <3>4. b0 < b /\ 0 + HeaderSize < BlockSize
      BY <1>1, <3>3, Measures
    <3> QED BY <1>1, <2>1, <3>2, <3>3, <3>4 DEF PlaceAfter, NotAfter
  <2>2. CASE ~ (u0 + HeaderSize >= BlockSize)
    <3>1. pad = 0 /\ 0 \in Nat /\ ~ (0 > 0)
      BY <1>2, <2>2 DEF Padding
    <3>2. b = b0 /\ u = u0
      BY <1>3, <3>1
    <3>3. u0 + HeaderSize < BlockSize /\ 0 <= HeaderSize
      BY <1>1, <2>2, Measures
    <3>4. PlaceAfter(b0, u0) = [block |-> b0, offset |-> u0]
      BY <2>2 DEF PlaceAfter
    <3>5. NotAfter(b0, u0, b0, u0)
      BY <1>1 DEF NotAfter
    <3> QED BY <1>1, <3>1, <3>2, <3>3, <3>4, <3>5
  <2> QED BY <2>1, <2>2
<1>5. PICK p : p = Chunks(r, size, b, u)
  OBVIOUS
<1>6. Run(p, r, size, b, u)
  BY <1>4, <1>5, ChunksIs
<1>7. PICK n : n = Len(p)
  OBVIOUS
<1>8. n \in Nat /\ n > 0 /\ p \in Seq(ChunkSet)
  BY <1>6, <1>7, LenProperties DEF Run
<1>9. PICK bytes \in Nat : bytes = n * HeaderSize + size
  BY <1>8, Measures
<1>10. PICK at : at = Place(b, u + bytes)
  OBVIOUS
<1>11. /\ new.chunks = buf.chunks \o p /\ new.block = at.block /\ new.used = at.offset
       /\ new.len = (buf.len + pad) + bytes
       /\ new.pos = Append(buf.pos, [block |-> b, offset |-> u])
  BY <1>1, <1>2, <1>3, <1>5, <1>7, <1>9, <1>10 DEF WriteToBuffer
<1>12. new.len = buf.len + (pad + bytes) /\ new.len \in Nat
  <2>1. PICK l \in Nat : l = buf.len
    BY DEF IsBuffer
  <2>2. (l + pad) + bytes = l + (pad + bytes) /\ l + (pad + bytes) \in Nat
    BY <1>4, <1>9
  <2> QED BY <1>11, <2>1, <2>2
<1>13. PICK q \in Nat, m \in Nat : /\ at = [block |-> b + q, offset |-> m]
                                   /\ m < BlockSize /\ u + bytes = q * BlockSize + m
  <2>1. BlockSize \in Nat /\ BlockSize > 0 /\ u + bytes \in Nat
    BY <1>4, <1>9, Measures
  <2>2. PICK x \in Nat : x = u + bytes
    BY <2>1
  <2>3. /\ x \div BlockSize \in Nat /\ x % BlockSize \in Nat /\ x % BlockSize < BlockSize
        /\ x = (x \div BlockSize) * BlockSize + (x % BlockSize)
    BY <2>1, <2>2, DivMod
  <2>4. at = [block |-> b + (x \div BlockSize), offset |-> x % BlockSize]
    BY <1>10, <2>2 DEF Place
  <2> QED BY <2>2, <2>3, <2>4
<1>14. at = [block |-> new.block, offset |-> new.used] /\ new.block = b + q /\ new.used = m
  BY <1>11, <1>13
<1>15. b * BlockSize + u = (b0 * BlockSize + u0) + pad
  <2>1. CASE pad > 0
    <3>1. b = b0 + 1 /\ u = 0 /\ pad = BlockSize - u0
      BY <1>2, <1>3, <2>1 DEF Padding
    <3>2. (b0 + 1) * BlockSize = b0 * BlockSize + BlockSize /\ b0 * BlockSize \in Nat
      BY <1>1, Measures
    <3> QED BY <1>1, <3>1, <3>2, Measures
  <2>2. CASE ~ (pad > 0)
    <3>1. b = b0 /\ u = u0 /\ pad = 0
      BY <1>3, <1>4, <2>2
    <3>2. b0 * BlockSize \in Nat
      BY <1>1, Measures
    <3> QED BY <1>1, <3>1, <3>2
  <2> QED BY <2>1, <2>2
<1>16. new.block * BlockSize + new.used = (b0 * BlockSize + u0) + (pad + bytes)
  <2>1. PICK kb \in Nat, kq \in Nat : kb = b * BlockSize /\ kq = q * BlockSize
    BY <1>4, <1>13, Measures
  <2>2. (b + q) * BlockSize = kb + kq
    BY <1>4, <1>13, <2>1, Measures, Times
  <2>3. PICK k0 \in Nat : k0 = b0 * BlockSize
    BY <1>1, Measures
  <2>4. kb + u = (k0 + u0) + pad /\ u + bytes = kq + m
    BY <1>13, <1>15, <2>1, <2>3
  <2>5. (kb + kq) + m = (k0 + u0) + (pad + bytes)
    BY <1>1, <1>4, <1>9, <1>13, <2>1, <2>3, <2>4
  <2> QED BY <1>14, <2>2, <2>3, <2>5
<1>17. IsBuffer(new)
  <2>1. new.chunks \in Seq(ChunkSet)
    BY <1>8, <1>11, ConcatProperties DEF IsBuffer
  <2>2. [block |-> b, offset |-> u] \in PlaceSet
    BY <1>4 DEF PlaceSet
  <2>3. new.pos \in Seq(PlaceSet)
    BY <1>11, <2>2, AppendProperties DEF IsBuffer
  <2>4. new.block \in Nat /\ new.used \in Nat /\ new.used < BlockSize
    BY <1>4, <1>13, <1>14
  <2> QED BY <1>12, <2>1, <2>3, <2>4 DEF IsBuffer
<1>18. Wrote(buf, new, p, r, size, b, u)
  BY <1>1, <1>2, <1>4, <1>6, <1>7, <1>9, <1>10, <1>11, <1>12, <1>14, <1>16, Zenon DEF Wrote
<1> QED BY <1>17, <1>18

\* The chunks of a record are its headers, and one more if it begins within a block.
LEMMA RunHeaders ==
  ASSUME NEW p, NEW r \in Nat, NEW size \in Nat, size > 0, NEW b \in Nat, NEW u \in Nat,
         Run(p, r, size, b, u)
  PROVE  /\ Len(p) \in Nat /\ Headers(size) \in Nat /\ Len(p) <= Headers(size) + 1
         /\ u = 0 => Len(p) <= Headers(size)
<1>1. PICK n : n = Len(p)
  OBVIOUS
<1>2. n \in Nat /\ n > 0
  BY <1>1, LenProperties DEF Run
<1>3. PICK e : e = End(p[n])
  OBVIOUS
<1>4. u + size + n * HeaderSize = (n - 1) * BlockSize + e
  BY <1>1, <1>3 DEF Run
<1>5. e \in Nat /\ e > (IF n = 1 THEN u ELSE 0) + HeaderSize
  <2>1. n \in 1 .. n
    BY <1>2
  <2>2. Piece(p[n], n, r, b, u)
    BY <1>1, <2>1 DEF Run
  <2>3. p[n].len \in Nat /\ p[n].len > 0 /\ p[n].offset = (IF n = 1 THEN u ELSE 0)
    BY <2>2 DEF Piece, ChunkSet
  <2> QED BY <1>3, <2>3, Measures DEF End
<1>6. PICK d \in Nat : d = BlockSize - HeaderSize /\ d > 0
  BY Measures
<1>7. PICK k \in Nat : k = n - 1
  BY <1>2
<1>8. PICK kd \in Nat, kh \in Nat : kd = k * d /\ kh = k * HeaderSize
  BY <1>6, <1>7, Measures
<1>9. k * BlockSize = kd + kh /\ n * HeaderSize = kh + HeaderSize
  <2>1. BlockSize = d + HeaderSize /\ n = k + 1
    BY <1>2, <1>6, <1>7, Measures
  <2>2. k * (d + HeaderSize) = k * d + k * HeaderSize
    BY <1>6, <1>7, Measures
  <2>3. (k + 1) * HeaderSize = k * HeaderSize + HeaderSize
    BY <1>7, Measures
  <2> QED BY <1>8, <2>1, <2>2, <2>3
<1>10. u + size + HeaderSize = kd + e
  BY <1>4, <1>5, <1>7, <1>8, <1>9, Measures
<1>11. Headers(size) = (size + (d - 1)) \div d
  <2>1. size + BlockSize - HeaderSize - 1 = size + (d - 1)
    BY <1>6, Measures
  <2> QED BY <1>6, <2>1 DEF Headers
<1>12. PICK x \in Nat : x = size + (d - 1)
  BY <1>6
<1>13. Headers(size) \in Nat
  BY <1>6, <1>11, <1>12, DivMod
<1>14. u = 0 => n <= Headers(size)
  <2>1. SUFFICES ASSUME u = 0 PROVE n <= Headers(size)
    OBVIOUS
  <2>2. kd < size
    BY <1>5, <1>8, <1>10, <2>1, Measures
  <2>3. n * d = kd + d
    BY <1>2, <1>6, <1>7, <1>8
  <2>4. n * d <= x
    BY <1>6, <1>8, <1>12, <2>2, <2>3
  <2> QED BY <1>2, <1>6, <1>11, <1>12, <2>4, DivBound
<1>15. n <= Headers(size) + 1
  <2>1. CASE n = 1
    BY <1>13, <2>1
  <2>2. CASE n > 1
    <3>1. u + HeaderSize < BlockSize
      <4>1. 1 \in 1 .. n
        BY <1>2
      <4>2. Piece(p[1], 1, r, b, u)
        BY <1>1, <4>1 DEF Run
      <4>3. p[1].len \in Nat /\ p[1].len > 0 /\ p[1].offset = u /\ End(p[1]) <= BlockSize
        BY <4>2 DEF Piece, ChunkSet
      <4> QED BY <4>3, Measures DEF End
    <3>2. PICK j \in Nat : j = k - 1
      BY <1>2, <1>7, <2>2
    <3>3. kd = j * d + d /\ j * d \in Nat
      BY <1>6, <1>7, <1>8, <3>2
    <3>4. e > HeaderSize
      BY <1>2, <1>5, <2>2, Measures
    <3>5. kd < size + u /\ u < d
      BY <1>5, <1>6, <1>8, <1>10, <3>1, <3>4, Measures
    <3>6. kd <= x
      BY <1>6, <1>8, <1>12, <3>5
    <3>7. k <= x \div d
      BY <1>6, <1>7, <1>8, <3>6, DivBound
    <3>8. k <= Headers(size)
      BY <1>11, <1>12, <3>7
    <3> QED BY <1>2, <1>7, <1>13, <3>8
  <2> QED BY <1>2, <2>1, <2>2
<1> QED BY <1>1, <1>2, <1>13, <1>14, <1>15

-----------------------------------------------------------------------------
(* Segments and the records in them *)

FileSet   == [chunks : Seq(ChunkSet), len : Nat]
RecordSet == [size : Sizes, seg : Nat, pos : PlaceSet]

\* A chunk ends within so many bytes of its file.
Within(c, len) == c.block * BlockSize + End(c) <= len

\* Record r is in the chunks of a file from place pos on; behind it comes place nx.
CarriedBy(p, cs, r, size, pos, nx) ==
  /\ Run(p, r, size, pos.block, pos.offset)
  /\ \A j \in 1 .. Len(p) : p[j] \in ToSet(cs)
  /\ nx = PlaceAfter(p[Len(p)].block, End(p[Len(p)]))
Carried(cs, r, size, pos, nx) == \E p : CarriedBy(p, cs, r, size, pos, nx)

\* Record i has a record behind it in its segment.
Followed(rs, i) == i < Len(rs) /\ rs[i + 1].seg = rs[i].seg

FileOK(f) == Laid(f.chunks) /\ \A i \in 1 .. Len(f.chunks) : Within(f.chunks[i], f.len)

\* Record i is in its file, and nx is where it ends: there is the next record, or the
\* end of the file; in the active one that is where the counters are.
RecordOK(fs, b, u, rs, i, nx) ==
  /\ Carried(fs[rs[i].seg].chunks, i, rs[i].size, rs[i].pos, nx)
  /\ Followed(rs, i) => nx = rs[i + 1].pos
  /\ ~ Followed(rs, i) => nx.block * BlockSize + nx.offset >= fs[rs[i].seg].len
  /\ i = Len(rs) /\ rs[i].seg = Len(fs) => nx = PlaceAfter(b, u)

\* Files fs, counters b and u of the last of them, and records rs.
Layout(fs, b, u, rs) ==
  /\ fs \in Seq(FileSet) /\ Len(fs) > 0 /\ rs \in Seq(RecordSet)
  /\ b \in Nat /\ u \in Nat /\ u < BlockSize
  /\ b * BlockSize + u = fs[Len(fs)].len
  /\ \A s \in 1 .. Len(fs) : FileOK(fs[s])
  /\ Between(fs[Len(fs)].chunks, 0, 0, b, u)
  /\ \A i \in 1 .. Len(rs) : /\ rs[i].seg \in 1 .. Len(fs)
                             /\ i < Len(rs) => rs[i].seg <= rs[i + 1].seg
  /\ \A i \in 1 .. Len(rs) : i = 1 \/ rs[i - 1].seg # rs[i].seg
       => rs[i].pos = [block |-> 0, offset |-> 0]
  /\ rs = <<>> \/ rs[Len(rs)].seg # Len(fs) => b = 0 /\ u = 0
  /\ \A i \in 1 .. Len(rs) : \E nx \in PlaceSet : RecordOK(fs, b, u, rs, i, nx)

\* What ends before a place ends within the bytes before it.
LEMMA WithinPlace ==
  ASSUME NEW c \in ChunkSet, NEW b \in Nat, NEW u \in Nat, End(c) <= BlockSize,
         UpToPlace(c, b, u)
  PROVE  Within(c, b * BlockSize + u)
<1>1. PICK cb \in Nat, ce \in Nat : cb = c.block /\ ce = End(c)
  BY Measures DEF ChunkSet, End
<1>2. PICK B \in Nat : B = BlockSize
  BY Measures
<1>3. cb * B \in Nat /\ b * B \in Nat /\ (cb + 1) * B = cb * B + B
  BY <1>1, <1>2, Times
<1>4. cb * B + ce <= b * B + u
  <2>1. CASE cb < b
    <3>1. cb + 1 \in Nat /\ cb + 1 <= b
      BY <1>1, <2>1
    <3>2. (cb + 1) * B <= b * B
      BY <1>2, <3>1, Times
    <3>3. PICK x \in Nat, y \in Nat : x = cb * B /\ y = b * B
      BY <1>3
    <3>4. x + B <= y /\ ce <= B
      BY <1>1, <1>2, <1>3, <3>2, <3>3
    <3>5. x + ce <= y + u
      BY <1>1, <1>2, <3>3, <3>4
    <3> QED BY <3>3, <3>5
  <2>2. CASE cb = b /\ ce <= u
    BY <1>1, <1>3, <2>2
  <2> QED BY <1>1, <2>1, <2>2 DEF UpToPlace
<1> QED BY <1>1, <1>2, <1>4 DEF Within

\* Where a place is padded away there is no byte of a record.
LEMMA PlaceAfterAddress ==
  ASSUME NEW b \in Nat, NEW u \in Nat, u <= BlockSize
  PROVE  /\ PlaceAfter(b, u) \in PlaceSet
         /\ PlaceAfter(b, u).block * BlockSize + PlaceAfter(b, u).offset >= b * BlockSize + u
<1>1. (b + 1) * BlockSize = b * BlockSize + BlockSize /\ b * BlockSize \in Nat
  BY Measures
<1>2. CASE u + HeaderSize >= BlockSize
  <2>1. PlaceAfter(b, u) = [block |-> b + 1, offset |-> 0]
    BY <1>2 DEF PlaceAfter
  <2>2. (b + 1) * BlockSize + 0 >= b * BlockSize + u
    BY <1>1, Measures
  <2>3. [block |-> b + 1, offset |-> 0] \in PlaceSet
    BY DEF PlaceSet
  <2> QED BY <2>1, <2>2, <2>3
<1>3. CASE ~ (u + HeaderSize >= BlockSize)
  <2>1. PlaceAfter(b, u) = [block |-> b, offset |-> u]
    BY <1>3 DEF PlaceAfter
  <2>2. b * BlockSize + u >= b * BlockSize + u
    BY <1>1
  <2>3. [block |-> b, offset |-> u] \in PlaceSet
    BY DEF PlaceSet
  <2> QED BY <2>1, <2>2, <2>3
<1> QED BY <1>2, <1>3

\* A record stays where it is when chunks are put behind those of its file.
LEMMA StillCarried ==
  ASSUME NEW cs \in Seq(ChunkSet), NEW p \in Seq(ChunkSet), NEW r, NEW size, NEW pos, NEW nx,
         Carried(cs, r, size, pos, nx)
  PROVE  Carried(cs \o p, r, size, pos, nx)
<1>1. ToSet(cs) \subseteq ToSet(cs \o p)
  <2>1. /\ Len(cs \o p) = Len(cs) + Len(p) /\ Len(cs) \in Nat /\ Len(p) \in Nat
        /\ \A i \in 1 .. Len(cs) : (cs \o p)[i] = cs[i]
    BY ConcatProperties, LenProperties
  <2>2. DOMAIN cs = 1 .. Len(cs) /\ DOMAIN (cs \o p) = 1 .. Len(cs \o p)
    BY ConcatProperties, LenProperties
  <2> QED BY <2>1, <2>2 DEF ToSet
<1>2. PICK q : CarriedBy(q, cs, r, size, pos, nx)
  BY DEF Carried
<1>3. CarriedBy(q, cs \o p, r, size, pos, nx)
  BY <1>1, <1>2 DEF CarriedBy
<1> QED BY <1>3 DEF Carried

\* A new segment file leaves the layout in order.
LEMMA RotateKeeps ==
  ASSUME NEW fs, NEW b, NEW u, NEW rs, Layout(fs, b, u, rs)
  PROVE  Layout(Append(fs, NewFile), 0, 0, rs)
<1> DEFINE gs == Append(fs, NewFile)
<1>1. fs \in Seq(FileSet) /\ Len(fs) > 0 /\ rs \in Seq(RecordSet)
  BY DEF Layout
<1>2. Len(fs) \in Nat /\ Len(rs) \in Nat
  BY <1>1, LenProperties
<1>3. NewFile \in FileSet /\ NewFile.chunks = <<>> /\ NewFile.len = 0
  <2>1. <<>> \in Seq(ChunkSet)
    OBVIOUS
  <2> QED BY <2>1 DEF NewFile, FileSet
<1>4. /\ gs \in Seq(FileSet) /\ Len(gs) = Len(fs) + 1
      /\ \A s \in 1 .. Len(fs) : gs[s] = fs[s]
      /\ gs[Len(gs)] = NewFile
  BY <1>1, <1>3, AppendProperties
<1> HIDE DEF gs
<1>5. Len(<<>>) = 0 /\ Laid(<<>>) /\ \A b1, u1, b2, u2 : Between(<<>>, b1, u1, b2, u2)
  BY DEF Laid, Between
<1>6. \A s \in 1 .. Len(gs) : FileOK(gs[s])
  <2>1. FileOK(NewFile)
    BY <1>3, <1>5 DEF FileOK
  <2>2. \A s \in 1 .. Len(gs) : s \in 1 .. Len(fs) \/ s = Len(gs)
    BY <1>2, <1>4
  <2>3. \A s \in 1 .. Len(fs) : FileOK(fs[s])
    BY DEF Layout
  <2> QED BY <1>4, <2>1, <2>2, <2>3
<1>7. 0 * BlockSize + 0 = gs[Len(gs)].len /\ 0 < BlockSize
  BY <1>3, <1>4, Measures
<1>8. \A i \in 1 .. Len(rs) : /\ rs[i].seg \in 1 .. Len(fs) /\ rs[i].seg \in 1 .. Len(gs)
                              /\ rs[i].seg # Len(gs)
                              /\ i < Len(rs) => rs[i].seg <= rs[i + 1].seg
  <2>1. \A i \in 1 .. Len(rs) : /\ rs[i].seg \in 1 .. Len(fs)
                                /\ i < Len(rs) => rs[i].seg <= rs[i + 1].seg
    BY DEF Layout
  <2> QED BY <1>2, <1>4, <2>1
<1>9. \A i \in 1 .. Len(rs) : \E nx \in PlaceSet : RecordOK(gs, 0, 0, rs, i, nx)
  <2>1. ASSUME NEW i \in 1 .. Len(rs) PROVE \E nx \in PlaceSet : RecordOK(gs, 0, 0, rs, i, nx)
    <3>1. PICK nx \in PlaceSet : RecordOK(fs, b, u, rs, i, nx)
      BY DEF Layout
    <3>2. gs[rs[i].seg] = fs[rs[i].seg] /\ rs[i].seg # Len(gs)
      BY <1>4, <1>8
    <3>3. RecordOK(gs, 0, 0, rs, i, nx)
      BY <3>1, <3>2 DEF RecordOK
    <3> QED BY <3>3
  <2> QED BY <2>1
<1>10. \A i \in 1 .. Len(rs) : i = 1 \/ rs[i - 1].seg # rs[i].seg
         => rs[i].pos = [block |-> 0, offset |-> 0]
  BY DEF Layout
<1>11. Between(gs[Len(gs)].chunks, 0, 0, 0, 0) /\ Len(gs) > 0
  BY <1>2, <1>3, <1>4, <1>5
<1>12. Layout(gs, 0, 0, rs)
  BY <1>1, <1>4, <1>6, <1>7, <1>8, <1>9, <1>10, <1>11 DEF Layout
<1> QED BY <1>12 DEF gs

\* The files when the active one gets chunks and bytes.
Extended(fs, chunks, add) ==
  [fs EXCEPT ![Len(fs)] = [chunks |-> @.chunks \o chunks, len |-> @.len + add]]

\* A record that is written leaves the layout in order.
LEMMA WriteKeeps ==
  ASSUME NEW fs, NEW b, NEW u, NEW rs, Layout(fs, b, u, rs), NEW size \in Sizes,
         NEW p, NEW pb \in Nat, NEW pu \in Nat, NEW nb \in Nat, NEW nu \in Nat, NEW add \in Nat,
         PlaceAfter(b, u) = [block |-> pb, offset |-> pu], NotAfter(b, u, pb, pu),
         Run(p, Len(rs) + 1, size, pb, pu),
         Place(pb, pu + (Len(p) * HeaderSize + size)) = [block |-> nb, offset |-> nu],
         nu < BlockSize, nb * BlockSize + nu = (b * BlockSize + u) + add,
         NEW rec, rec = [size |-> size, seg |-> Len(fs), pos |-> [block |-> pb, offset |-> pu]]
  PROVE  Layout(Extended(fs, p, add), nb, nu, Append(rs, rec))
<1> DEFINE N  == Len(fs)
           R  == Len(rs)
           f  == fs[N]
           g  == [chunks |-> f.chunks \o p, len |-> f.len + add]
           gs == Extended(fs, p, add)
           qs == Append(rs, rec)
<1>1. /\ fs \in Seq(FileSet) /\ N > 0 /\ rs \in Seq(RecordSet)
      /\ b \in Nat /\ u \in Nat /\ u < BlockSize /\ b * BlockSize + u = f.len
      /\ \A s \in 1 .. N : FileOK(fs[s])
      /\ Between(f.chunks, 0, 0, b, u)
  BY DEF Layout
<1>2. N \in Nat /\ R \in Nat /\ N \in 1 .. N /\ \A s \in 1 .. N : fs[s] \in FileSet
  BY <1>1, LenProperties, ElementOfSeq
<1>3. f.chunks \in Seq(ChunkSet) /\ f.len \in Nat /\ Laid(f.chunks)
  <2>1. f \in FileSet /\ FileOK(f)
    BY <1>1, <1>2
  <2> HIDE DEF f
  <2> QED BY <2>1 DEF FileSet, FileOK
<1>4. p \in Seq(ChunkSet) /\ Len(p) \in Nat /\ Len(p) > 0
  BY LenProperties DEF Run
<1>5. g \in FileSet
  <2>1. f.chunks \o p \in Seq(ChunkSet) /\ f.len + add \in Nat
    BY <1>3, <1>4, ConcatProperties
  <2> HIDE DEF f
  <2> QED BY <2>1 DEF FileSet
<1>6. /\ gs \in Seq(FileSet) /\ Len(gs) = N /\ gs[N] = g
      /\ \A s \in 1 .. N : s # N => gs[s] = fs[s]
  <2>1. gs = [fs EXCEPT ![N] = g]
    BY DEF Extended
  <2> HIDE DEF N, g, gs
  <2>2. gs \in Seq(FileSet) /\ Len(gs) = Len(fs)
    BY <1>1, <1>2, <1>5, <2>1, ExceptSeq DEF N
  <2>3. DOMAIN fs = 1 .. N
    BY <1>1, LenProperties DEF N
  <2> QED BY <1>2, <2>1, <2>2, <2>3 DEF N
<1>24. PICK r \in Nat : r = R + 1 /\ Run(p, r, size, pb, pu) /\ size \in Nat
  BY <1>2, Measures
<1>7. PICK n, e, at : n = Len(p) /\ e = End(p[n]) /\ at = Place(pb, pu + (n * HeaderSize + size))
  OBVIOUS
<1>25. nb = at.block /\ nu = at.offset
  BY <1>7
<1>8. /\ n \in Nat /\ n > 0 /\ e \in Nat /\ e <= BlockSize
      /\ Laid(p) /\ Between(p, pb, pu, nb, nu) /\ NotAfter(pb, pu, nb, nu)
      /\ PlaceAfter(nb, nu) = PlaceAfter(p[n].block, e)
  <2>1. /\ n = Len(p) /\ e = End(p[n]) /\ at = Place(pb, pu + (n * HeaderSize + size))
        /\ nb = at.block /\ nu = at.offset
    BY <1>7, <1>25
  <2> HIDE DEF N, R, f, g, gs, qs
  <2>2. Placed(p, n, e, pb, pu, nb, nu)
    BY <1>24, <2>1, RunLaid
  <2> QED BY <2>2 DEF Placed
<1>9. Laid(g.chunks) /\ Between(g.chunks, 0, 0, nb, nu)
  <2>1. NotAfter(0, 0, pb, pu) /\ NotAfter(0, 0, b, u)
    BY <1>1 DEF NotAfter
  <2>2. Between(f.chunks, 0, 0, pb, pu)
    <3>1. ASSUME NEW i \in 1 .. Len(f.chunks)
          PROVE  From(f.chunks[i], 0, 0) /\ UpToPlace(f.chunks[i], pb, pu)
      <4>1. f.chunks[i] \in ChunkSet
        <5> HIDE DEF f
        <5> QED BY <1>3, ElementOfSeq
      <4>2. From(f.chunks[i], 0, 0) /\ UpToPlace(f.chunks[i], b, u)
        BY <1>1 DEF Between
      <4> HIDE DEF f
      <4> QED BY <1>1, <4>1, <4>2, PlacesOrdered
    <3> HIDE DEF f
    <3> QED BY <3>1 DEF Between
  <2>3. Laid(f.chunks \o p) /\ Between(f.chunks \o p, 0, 0, nb, nu)
    <3> HIDE DEF f
    <3> QED BY <1>3, <1>8, <2>1, <2>2, LaidConcat
  <2>4. g.chunks = f.chunks \o p
    <3> HIDE DEF f
    <3> QED OBVIOUS
  <2> QED BY <2>3, <2>4
<1>10. g.len = nb * BlockSize + nu
  BY <1>1
<1> HIDE DEF g, gs, f
<1>11. \A s \in 1 .. N : FileOK(gs[s])
  <2>1. ASSUME NEW i \in 1 .. Len(g.chunks) PROVE Within(g.chunks[i], g.len)
    <3>1. g.chunks[i] \in ChunkSet /\ End(g.chunks[i]) <= BlockSize
      BY <1>9, ElementOfSeq DEF Laid
    <3>2. UpToPlace(g.chunks[i], nb, nu)
      BY <1>9 DEF Between
    <3> QED BY <1>10, <3>1, <3>2, WithinPlace
  <2>2. FileOK(g)
    BY <1>9, <2>1 DEF FileOK
  <2> QED BY <1>1, <1>6, <2>2
<1>12. rec \in RecordSet
  <2>1. [block |-> pb, offset |-> pu] \in PlaceSet
    BY DEF PlaceSet
  <2> QED BY <1>2, <2>1 DEF RecordSet
<1>13. /\ qs \in Seq(RecordSet) /\ Len(qs) = R + 1 /\ qs[R + 1] = rec
       /\ \A i \in 1 .. R : qs[i] = rs[i]
  BY <1>1, <1>12, AppendProperties
<1>14. rec.seg = N /\ rec.size = size /\ rec.pos = [block |-> pb, offset |-> pu]
  OBVIOUS
<1> HIDE DEF qs, N, R
<1>15. \A i \in 1 .. R : rs[i].seg \in 1 .. N /\ (i < R => rs[i].seg <= rs[i + 1].seg)
  BY DEF Layout, N, R
<1>16. \A i \in 1 .. R + 1 : i = R + 1 \/ (i \in 1 .. R /\ qs[i] = rs[i])
  BY <1>2, <1>13
<1>17. \A i \in 1 .. R + 1 : /\ qs[i].seg \in 1 .. N
                             /\ i < R + 1 => qs[i].seg <= qs[i + 1].seg
  <2>1. ASSUME NEW i \in 1 .. R + 1
        PROVE  qs[i].seg \in 1 .. N /\ (i < R + 1 => qs[i].seg <= qs[i + 1].seg)
    <3>1. CASE i = R + 1
      BY <1>2, <1>13, <1>14, <3>1
    <3>2. CASE i = R /\ i \in 1 .. R
      <4>1. rs[i].seg \in 1 .. N
        BY <1>15, <3>2
      <4> QED BY <1>2, <1>13, <1>14, <3>2, <4>1
    <3>3. CASE i # R /\ i \in 1 .. R
      <4>1. i < R /\ i + 1 \in 1 .. R
        BY <1>2, <3>3
      <4> QED BY <1>13, <1>15, <3>3, <4>1
    <3> QED BY <1>16, <3>1, <3>2, <3>3
  <2> QED BY <2>1
<1>18. \A i \in 1 .. R + 1 : i = 1 \/ qs[i - 1].seg # qs[i].seg
         => qs[i].pos = [block |-> 0, offset |-> 0]
  <2>1. ASSUME NEW i \in 1 .. R + 1, i = 1 \/ qs[i - 1].seg # qs[i].seg
        PROVE  qs[i].pos = [block |-> 0, offset |-> 0]
    <3>1. CASE i = R + 1
      <4>1. rs = <<>> \/ rs[R].seg # N
        <5>1. CASE R = 0
          BY <1>1, <5>1, EmptySeq DEF R
        <5>2. CASE R # 0
          <6>1. R \in 1 .. R /\ i # 1 /\ i - 1 = R
            BY <1>2, <3>1, <5>2
          <6> QED BY <1>13, <1>14, <2>1, <3>1, <6>1
        <5> QED BY <5>1, <5>2
      <4>2. b = 0 /\ u = 0
        BY <4>1 DEF Layout, N, R
      <4>3. PlaceAfter(0, 0) = [block |-> 0, offset |-> 0]
        <5>1. ~ (0 + HeaderSize >= BlockSize)
          BY Measures
        <5> QED BY <5>1 DEF PlaceAfter
      <4> QED BY <1>13, <1>14, <3>1, <4>2, <4>3
    <3>2. CASE i \in 1 .. R
      <4>1. i = 1 \/ rs[i - 1].seg # rs[i].seg
        <5>1. i # 1 => i - 1 \in 1 .. R
          BY <1>2, <3>2
        <5> QED BY <1>13, <2>1, <3>2, <5>1
      <4> QED BY <1>13, <3>2, <4>1 DEF Layout, R
    <3> QED BY <1>16, <3>1, <3>2
  <2> QED BY <2>1
<1>19. PlaceAfter(nb, nu) \in PlaceSet
       /\ PlaceAfter(nb, nu).block * BlockSize + PlaceAfter(nb, nu).offset >= g.len
  <2>1. nu <= BlockSize
    BY Measures
  <2> QED BY <1>10, <2>1, PlaceAfterAddress
<1>20. ASSUME NEW i \in 1 .. R + 1 PROVE \E nx \in PlaceSet : RecordOK(gs, nb, nu, qs, i, nx)
  <2>1. CASE i = R + 1
    <3>1. CarriedBy(p, g.chunks, R + 1, size, rec.pos, PlaceAfter(nb, nu))
      <4>1. Run(p, R + 1, size, rec.pos.block, rec.pos.offset)
        BY <1>14 DEF R
      <4>2. \A j \in 1 .. Len(p) : p[j] \in ToSet(f.chunks \o p)
        <5>1. f.chunks \o p \in Seq(ChunkSet)
          BY <1>3, <1>4, ConcatProperties
        <5>2. /\ Len(f.chunks \o p) = Len(f.chunks) + Len(p)
              /\ Len(f.chunks) \in Nat
              /\ \A k \in 1 .. Len(f.chunks) + Len(p) :
                   (f.chunks \o p)[k] = IF k <= Len(f.chunks) THEN (f.chunks)[k] ELSE p[k - Len(f.chunks)]
          BY <1>3, <1>4, ConcatProperties, LenProperties
        <5>3. ASSUME NEW j \in 1 .. Len(p) PROVE p[j] \in ToSet(f.chunks \o p)
          <6>1. PICK k : k = Len(f.chunks) + j
            OBVIOUS
          <6>2. /\ k \in 1 .. Len(f.chunks) + Len(p) /\ ~ (k <= Len(f.chunks))
                /\ k - Len(f.chunks) = j
            BY <1>4, <5>2, <6>1
          <6>3. (f.chunks \o p)[k] = p[j] /\ k \in DOMAIN (f.chunks \o p)
            BY <5>1, <5>2, <6>2, LenProperties
          <6> QED BY <6>3 DEF ToSet
        <5> QED BY <5>3
      <4>3. g.chunks = f.chunks \o p
        BY DEF g
      <4> QED BY <1>7, <1>8, <4>1, <4>2, <4>3 DEF CarriedBy
    <3>2. Carried(gs[qs[i].seg].chunks, i, qs[i].size, qs[i].pos, PlaceAfter(nb, nu))
      BY <1>6, <1>13, <1>14, <2>1, <3>1 DEF Carried
    <3>3. ~ Followed(qs, i)
      BY <1>2, <1>13, <2>1 DEF Followed
    <3>4. gs[qs[i].seg].len = g.len
      BY <1>6, <1>13, <1>14, <2>1
    <3>5. RecordOK(gs, nb, nu, qs, i, PlaceAfter(nb, nu))
      BY <1>19, <3>2, <3>3, <3>4 DEF RecordOK
    <3> QED BY <1>19, <3>5
  <2>2. CASE i \in 1 .. R
    <3>1. PICK nx \in PlaceSet : RecordOK(fs, b, u, rs, i, nx)
      BY <2>2 DEF Layout, R
    <3>2. qs[i] = rs[i] /\ i # R + 1 /\ i # Len(qs)
      BY <1>2, <1>13, <2>2
    <3>3. PICK s \in 1 .. N : s = rs[i].seg
      BY <1>15, <2>2
    <3>4. Carried(fs[s].chunks, i, rs[i].size, rs[i].pos, nx)
      BY <3>1, <3>3 DEF RecordOK
    <3>5. Carried(gs[s].chunks, i, rs[i].size, rs[i].pos, nx)
      <4>1. CASE s = N
        <5>1. fs[s].chunks = f.chunks /\ gs[s].chunks = f.chunks \o p
          BY <1>6, <4>1 DEF f, g
        <5> QED BY <1>3, <1>4, <3>4, <5>1, StillCarried
      <4>2. CASE s # N
        BY <1>6, <3>4, <4>2
      <4> QED BY <4>1, <4>2
    <3>6. Followed(qs, i) => nx = qs[i + 1].pos
      <4>1. SUFFICES ASSUME Followed(qs, i) PROVE nx = qs[i + 1].pos
        OBVIOUS
      <4>2. CASE i = R
        <5>1. qs[i + 1] = rec /\ s = N
          BY <1>13, <1>14, <3>2, <3>3, <4>1, <4>2 DEF Followed
        <5>2. nx = PlaceAfter(b, u)
          BY <3>1, <3>3, <4>2, <5>1 DEF RecordOK, N, R
        <5> QED BY <1>14, <5>1, <5>2
      <4>3. CASE i # R
        <5>1. i + 1 \in 1 .. R /\ i < R
          BY <1>2, <2>2, <4>3
        <5>2. qs[i + 1] = rs[i + 1]
          BY <1>13, <5>1
        <5>3. Followed(rs, i)
          BY <3>2, <4>1, <5>1, <5>2 DEF Followed, R
        <5> QED BY <3>1, <5>2, <5>3 DEF RecordOK
      <4> QED BY <4>2, <4>3
    <3>7. ~ Followed(qs, i) => nx.block * BlockSize + nx.offset >= gs[s].len
      <4>1. SUFFICES ASSUME ~ Followed(qs, i) PROVE nx.block * BlockSize + nx.offset >= gs[s].len
        OBVIOUS
      <4>2. ~ Followed(rs, i)
        <5>1. SUFFICES ASSUME i < R, rs[i + 1].seg = rs[i].seg PROVE FALSE
          BY DEF Followed, R
        <5>2. i + 1 \in 1 .. R /\ i < Len(qs)
          BY <1>2, <1>13, <2>2, <5>1
        <5> QED BY <1>13, <3>2, <4>1, <5>1, <5>2 DEF Followed
      <4>3. s # N
        <5>1. SUFFICES ASSUME s = N PROVE FALSE
          OBVIOUS
        <5>2. CASE i = R
          <6>1. i < Len(qs) /\ qs[i + 1].seg = qs[i].seg
            BY <1>2, <1>13, <1>14, <3>2, <3>3, <5>1, <5>2
          <6> QED BY <4>1, <6>1 DEF Followed
        <5>3. CASE i # R
          <6>1. i < R /\ i + 1 \in 1 .. R
            BY <1>2, <2>2, <5>3
          <6>2. rs[i + 1].seg \in 1 .. N /\ N <= rs[i + 1].seg
            BY <1>15, <2>2, <3>3, <5>1, <6>1
          <6>3. rs[i + 1].seg = rs[i].seg
            BY <1>2, <3>3, <5>1, <6>2
          <6> QED BY <4>2, <6>1, <6>3 DEF Followed, R
        <5> QED BY <5>2, <5>3
      <4>4. nx.block * BlockSize + nx.offset >= fs[s].len
        BY <3>1, <3>3, <4>2 DEF RecordOK
      <4> QED BY <1>6, <4>3, <4>4
    <3>8. RecordOK(gs, nb, nu, qs, i, nx)
      BY <3>2, <3>3, <3>5, <3>6, <3>7 DEF RecordOK
    <3> QED BY <3>8
  <2> QED BY <1>16, <2>1, <2>2
<1>21. qs # <<>> /\ qs[Len(qs)].seg = N
  <2>1. Len(qs) # 0
    BY <1>2, <1>13
  <2> QED BY <1>13, <1>14, <2>1
<1>22. Between(gs[N].chunks, 0, 0, nb, nu) /\ nb * BlockSize + nu = gs[N].len
  BY <1>6, <1>9, <1>10
<1>23. Layout(gs, nb, nu, qs)
  <2>1. N > 0 /\ Len(gs) = N /\ Len(qs) = R + 1
    BY <1>1, <1>6, <1>13
  <2> QED BY <1>6, <1>11, <1>13, <1>17, <1>18, <1>20, <1>21, <1>22, <2>1, Zenon DEF Layout
<1> QED BY <1>23 DEF gs, qs

-----------------------------------------------------------------------------
(* Writing a batch *)

BufferSet == [chunks : Seq(ChunkSet), block : Nat, used : 0 .. BlockSize - 1, len : Nat,
              pos : Seq(PlaceSet)]

\* fill is the buffer after each record of a batch.
Filling(fill, b, u, r, sizes) ==
  /\ fill[0] = Buffer(b, u)
  /\ \A i \in 1 .. Len(sizes) : fill[i] = WriteToBuffer(fill[i - 1], r + i - 1, sizes[i])

Filled(fill, b, u, r, sizes) ==
  /\ fill \in [0 .. Len(sizes) -> BufferSet] /\ Filling(fill, b, u, r, sizes)
  /\ FillBuffer(b, u, r, sizes) = fill[Len(sizes)]

LEMMA BufferIs ==
  ASSUME NEW buf \in BufferSet
  PROVE  IsBuffer(buf)
BY Measures DEF BufferSet, IsBuffer

\* FillBuffer writes the records one behind the other.
LEMMA FillIs ==
  ASSUME NEW b \in Nat, NEW u \in Nat, u < BlockSize, NEW r \in Nat, NEW sizes \in Seq(Sizes)
  PROVE  \E fill : Filled(fill, b, u, r, sizes)
<1>1. PICK L \in Nat : L = Len(sizes) /\ (\A i \in 1 .. L : sizes[i] \in Sizes /\ sizes[i] \in Nat /\ sizes[i] > 0)
  <2>1. Len(sizes) \in Nat /\ \A i \in 1 .. Len(sizes) : sizes[i] \in Sizes
    BY LenProperties, ElementOfSeq
  <2> QED BY <2>1, Measures
<1> DEFINE b0   == Buffer(b, u)
           G    == [x \in (1 .. L) \X BufferSet |-> WriteToBuffer(x[2], r + x[1] - 1, sizes[x[1]])]
           fill == CHOOSE f : f = [i \in 0 .. L |-> IF i = 0 THEN b0
                                     ELSE WriteToBuffer(f[i - 1], r + i - 1, sizes[i])]
<1>2. b0 \in BufferSet
  <2>1. <<>> \in Seq(ChunkSet) /\ <<>> \in Seq(PlaceSet) /\ u \in 0 .. BlockSize - 1
    BY Measures
  <2> QED BY <2>1 DEF Buffer, BufferSet
<1>3. ASSUME NEW i \in 1 .. L, NEW buf \in BufferSet
      PROVE  WriteToBuffer(buf, r + i - 1, sizes[i]) \in BufferSet
  <2>1. PICK new : new = WriteToBuffer(buf, r + i - 1, sizes[i])
    OBVIOUS
  <2>2. r + i - 1 \in Nat /\ IsBuffer(buf)
    BY BufferIs
  <2>3. IsBuffer(new)
    BY <1>1, <2>1, <2>2, WriteIs
  <2>4. new = [chunks |-> new.chunks, block |-> new.block, used |-> new.used, len |-> new.len,
               pos |-> new.pos]
    BY <2>1 DEF WriteToBuffer
  <2>5. /\ new.chunks \in Seq(ChunkSet) /\ new.block \in Nat /\ new.used \in 0 .. BlockSize - 1
        /\ new.len \in Nat /\ new.pos \in Seq(PlaceSet)
    BY <2>3, Measures DEF IsBuffer
  <2>6. new \in BufferSet
    BY <2>4, <2>5 DEF BufferSet
  <2> QED BY <2>1, <2>6
<1> HIDE DEF b0
<1>4. \E f : f = [i \in 0 .. L |-> IF i = 0 THEN b0 ELSE WriteToBuffer(f[i - 1], r + i - 1, sizes[i])]
  <2>1. G \in [(1 .. L) \X BufferSet -> BufferSet]
    BY <1>3
  <2>2. PICK f \in [0 .. L -> BufferSet] : Turning(f, L, b0, G)
    <3> HIDE DEF G, fill
    <3> QED BY <1>2, <2>1, Turns
  <2>3. ASSUME NEW i \in 0 .. L
        PROVE  f[i] = IF i = 0 THEN b0 ELSE WriteToBuffer(f[i - 1], r + i - 1, sizes[i])
    <3>1. CASE i = 0
      BY <2>2, <3>1 DEF Turning
    <3>2. CASE i # 0
      <4>1. i \in 1 .. L /\ i - 1 \in 0 .. L
        BY <3>2
      <4>2. f[i - 1] \in BufferSet
        BY <4>1
      <4>3. f[i] = G[<<i, f[i - 1]>>]
        <5> HIDE DEF G
        <5> QED BY <2>2, <4>1 DEF Turning
      <4>4. <<i, f[i - 1]>> \in (1 .. L) \X BufferSet
        BY <4>1, <4>2
      <4> QED BY <3>2, <4>3, <4>4
    <3> QED BY <3>1, <3>2
  <2>4. f = [i \in 0 .. L |-> f[i]]
    OBVIOUS
  <2>5. [i \in 0 .. L |-> f[i]]
          = [i \in 0 .. L |-> IF i = 0 THEN b0 ELSE WriteToBuffer(f[i - 1], r + i - 1, sizes[i])]
    BY <2>3
  <2> HIDE DEF G
  <2> QED BY <2>4, <2>5
<1>5. fill = [i \in 0 .. L |-> IF i = 0 THEN b0 ELSE WriteToBuffer(fill[i - 1], r + i - 1, sizes[i])]
  BY <1>4
<1>6. FillBuffer(b, u, r, sizes) = fill[L]
  BY <1>1 DEF FillBuffer, b0
<1> HIDE DEF fill, G
<1>7. fill[0] = b0
  <2>1. 0 \in 0 .. L
    OBVIOUS
  <2> QED BY <1>5, <2>1
<1>8. ASSUME NEW i \in 1 .. L
      PROVE  i - 1 \in 0 .. L /\ fill[i] = WriteToBuffer(fill[i - 1], r + i - 1, sizes[i])
  <2>1. i \in 0 .. L /\ i # 0 /\ i - 1 \in 0 .. L
    OBVIOUS
  <2> QED BY <1>5, <2>1
<1> DEFINE K == {i \in 0 .. L : fill[i] \in BufferSet}
<1>9. \A i \in 0 .. L : fill[i] \in BufferSet
  <2>1. 0 \in K
    BY <1>2, <1>7
  <2>2. ASSUME NEW i \in 0 .. L, i \in K, i < L PROVE i + 1 \in K
    <3>1. i + 1 \in 1 .. L /\ (i + 1) - 1 = i /\ fill[i] \in BufferSet
      BY <2>2
    <3>2. fill[i + 1] = WriteToBuffer(fill[i], r + (i + 1) - 1, sizes[i + 1])
      BY <1>8, <3>1
    <3>3. fill[i + 1] \in BufferSet
      BY <1>3, <3>1, <3>2
    <3> QED BY <3>1, <3>3
  <2> HIDE DEF K
  <2>3. \A i \in 0 .. L : i \in K
    BY <2>1, <2>2, UpTo
  <2> QED BY <2>3 DEF K
<1>10. fill \in [0 .. L -> BufferSet]
  <2>1. fill = [i \in 0 .. L |-> fill[i]]
    BY <1>5
  <2> QED BY <1>9, <2>1
<1>11. Filling(fill, b, u, r, sizes)
  BY <1>1, <1>7, <1>8 DEF Filling, b0
<1>12. Filled(fill, b, u, r, sizes)
  BY <1>1, <1>6, <1>10, <1>11 DEF Filled
<1> QED BY <1>12

\* The records of the first i writes of a batch.
Noted(sizes, seg, pos, i) ==
  [j \in 1 .. i |-> [size |-> sizes[j], seg |-> seg, pos |-> pos[j]]]

\* Chunks and bytes that come in two parts.
LEMMA ExtendedTwice ==
  ASSUME NEW fs \in Seq(FileSet), Len(fs) > 0, NEW c \in Seq(ChunkSet), NEW d \in Seq(ChunkSet),
         NEW l \in Nat, NEW m \in Nat
  PROVE  Extended(Extended(fs, c, l), d, m) = Extended(fs, c \o d, l + m)
<1>1. PICK N : N = Len(fs)
  OBVIOUS
<1>2. N \in Nat /\ N \in 1 .. N /\ DOMAIN fs = 1 .. N
  BY <1>1, LenProperties
<1>3. PICK a, k : a = fs[N].chunks /\ k = fs[N].len
  OBVIOUS
<1>4. a \in Seq(ChunkSet) /\ k \in Nat
  <2>1. fs[N] \in FileSet
    BY <1>1, <1>2, ElementOfSeq
  <2> QED BY <1>3, <2>1 DEF FileSet
<1>5. PICK gs : gs = Extended(fs, c, l)
  OBVIOUS
<1>6. gs = [fs EXCEPT ![N] = [chunks |-> a \o c, len |-> k + l]]
  BY <1>1, <1>2, <1>3, <1>5 DEF Extended
<1>7. gs \in Seq(FileSet) /\ Len(gs) = N
  <2>1. a \o c \in Seq(ChunkSet) /\ k + l \in Nat
    BY <1>4, ConcatProperties
  <2>2. [chunks |-> a \o c, len |-> k + l] \in FileSet
    BY <2>1 DEF FileSet
  <2> QED BY <1>1, <1>2, <1>6, <2>2, ExceptSeq
<1>8. gs[N].chunks = a \o c /\ gs[N].len = k + l /\ DOMAIN gs = 1 .. N
  BY <1>2, <1>6
<1>9. Extended(gs, d, m) = [gs EXCEPT ![N] = [chunks |-> (a \o c) \o d, len |-> (k + l) + m]]
  BY <1>2, <1>7, <1>8 DEF Extended
<1>10. (a \o c) \o d = a \o (c \o d) /\ (k + l) + m = k + (l + m)
  BY <1>4, ConcatAssociative
<1>11. Extended(gs, d, m) = [fs EXCEPT ![N] = [chunks |-> a \o (c \o d), len |-> k + (l + m)]]
  BY <1>2, <1>6, <1>9, <1>10
<1>12. Extended(fs, c \o d, l + m) = [fs EXCEPT ![N] = [chunks |-> a \o (c \o d), len |-> k + (l + m)]]
  BY <1>1, <1>2, <1>3 DEF Extended
<1> QED BY <1>5, <1>11, <1>12

\* A batch that is written leaves the layout in order.
LEMMA BatchKeeps ==
  ASSUME NEW fs, NEW b, NEW u, NEW rs, Layout(fs, b, u, rs), NEW sizes \in Seq(Sizes),
         NEW buf, buf = FillBuffer(b, u, Len(rs) + 1, sizes)
  PROVE  /\ IsBuffer(buf) /\ Len(buf.pos) = Len(sizes)
         /\ Layout(Extended(fs, buf.chunks, buf.len), buf.block, buf.used,
                   rs \o Noted(sizes, Len(fs), buf.pos, Len(sizes)))
<1>1. /\ fs \in Seq(FileSet) /\ Len(fs) > 0 /\ rs \in Seq(RecordSet)
      /\ b \in Nat /\ u \in Nat /\ u < BlockSize
  BY DEF Layout
<1>2. PICK L \in Nat : L = Len(sizes) /\ (\A i \in 1 .. L : sizes[i] \in Sizes /\ sizes[i] \in Nat /\ sizes[i] > 0)
  <2>1. Len(sizes) \in Nat /\ \A i \in 1 .. Len(sizes) : sizes[i] \in Sizes
    BY LenProperties, ElementOfSeq
  <2> QED BY <2>1, Measures
<1>3. PICK N \in Nat, R \in Nat, r \in Nat : N = Len(fs) /\ R = Len(rs) /\ r = R + 1
  BY <1>1, LenProperties
<1>4. PICK fill : /\ fill \in [0 .. L -> BufferSet] /\ Filling(fill, b, u, r, sizes)
                  /\ FillBuffer(b, u, r, sizes) = fill[L]
  <2>1. PICK fill : Filled(fill, b, u, r, sizes)
    BY <1>1, FillIs, Zenon
  <2> QED BY <1>2, <2>1 DEF Filled
<1> DEFINE Here(i) == Extended(fs, fill[i].chunks, fill[i].len)
           Then(i) == rs \o Noted(sizes, N, fill[i].pos, i)
           Kept(i) == Layout(Here(i), fill[i].block, fill[i].used, Then(i))
           K       == {i \in 0 .. L : Len(fill[i].pos) = i /\ Kept(i)}
<1>5. \A i \in 0 .. L : fill[i] \in BufferSet /\ IsBuffer(fill[i])
  BY <1>4, BufferIs
<1>6. 0 \in K
  <2>1. /\ fill[0].chunks = <<>> /\ fill[0].block = b /\ fill[0].used = u /\ fill[0].len = 0
        /\ fill[0].pos = <<>> /\ Len(<<>>) = 0
    BY <1>4 DEF Filling, Buffer
  <2>2. Then(0) = rs
    <3>1. Noted(sizes, N, <<>>, 0) = <<>>
      BY DEF Noted
    <3> QED BY <1>1, <2>1, <3>1, ConcatEmptySeq
  <2>3. Extended(fs, <<>>, 0) = fs
    <3>1. N \in 1 .. N /\ DOMAIN fs = 1 .. N
      BY <1>1, <1>3, LenProperties
    <3>2. PICK f \in FileSet : f = fs[N]
      BY <1>1, <1>3, <3>1, ElementOfSeq
    <3>3. f.chunks \o <<>> = f.chunks /\ f.len + 0 = f.len
      <4>1. f.chunks \in Seq(ChunkSet) /\ f.len \in Nat
        BY DEF FileSet
      <4> QED BY <4>1, ConcatEmptySeq
    <3>4. [chunks |-> f.chunks, len |-> f.len] = f
      BY DEF FileSet
    <3>5. Extended(fs, <<>>, 0) = [fs EXCEPT ![N] = f]
      BY <1>3, <3>1, <3>2, <3>3, <3>4 DEF Extended
    <3>6. [fs EXCEPT ![N] = f] = fs
      <4>1. fs = [i \in 1 .. N |-> fs[i]]
        BY <1>1, <1>3, LenProperties
      <4> QED BY <3>1, <3>2, <4>1
    <3> QED BY <3>5, <3>6
  <2>4. Kept(0)
    BY <2>1, <2>2, <2>3
  <2>5. 0 \in 0 .. L
    BY <1>2
  <2> QED BY <2>1, <2>4, <2>5
<1> HIDE DEF Kept
<1>7. ASSUME NEW i \in 0 .. L, i \in K, i < L PROVE i + 1 \in K
  <2>1. PICK k \in 1 .. L : k = i + 1 /\ k - 1 = i /\ k \in 0 .. L
    BY <1>7
  <2>2. PICK old, new, size, m : /\ old = fill[i] /\ new = fill[k] /\ size = sizes[k]
                                 /\ m = r + k - 1
    OBVIOUS
  <2>3. /\ IsBuffer(old) /\ IsBuffer(new) /\ size \in Sizes /\ size \in Nat /\ size > 0
        /\ m \in Nat /\ new = WriteToBuffer(old, m, size)
    <3>1. fill[k] = WriteToBuffer(fill[k - 1], r + k - 1, sizes[k])
      BY <1>2, <1>4, <2>1 DEF Filling
    <3>2. r + k - 1 \in Nat
      BY <2>1
    <3> QED BY <1>2, <1>5, <2>1, <2>2, <3>1, <3>2
  <2>4. Len(old.pos) = i /\ Layout(Here(i), old.block, old.used, Then(i))
    BY <1>7, <2>2 DEF Kept
  <2>5. PICK p, pb, pu : Wrote(old, new, p, m, size, pb, pu)
    BY <2>3, WriteIs
  <2>6. PICK add \in Nat : add = Padding(old.used) + (Len(p) * HeaderSize + size)
    <3>1. p \in Seq(ChunkSet) /\ Padding(old.used) \in Nat
      BY <2>5 DEF Wrote, Run
    <3>2. Len(p) * HeaderSize \in Nat
      BY <3>1, LenProperties, Measures
    <3> QED BY <2>3, <3>1, <3>2
  <2>7. /\ pb \in Nat /\ pu \in Nat /\ PlaceAfter(old.block, old.used) = [block |-> pb, offset |-> pu]
        /\ NotAfter(old.block, old.used, pb, pu) /\ Run(p, m, size, pb, pu)
        /\ new.chunks = old.chunks \o p
        /\ new.pos = Append(old.pos, [block |-> pb, offset |-> pu])
        /\ Place(pb, pu + (Len(p) * HeaderSize + size)) = [block |-> new.block, offset |-> new.used]
        /\ new.len = old.len + add
        /\ new.block * BlockSize + new.used = (old.block * BlockSize + old.used) + add
    BY <2>5, <2>6, Zenon DEF Wrote
  <2>8. new.block \in Nat /\ new.used \in Nat /\ new.used < BlockSize
    BY <2>3 DEF IsBuffer
  <2>9. Noted(sizes, N, old.pos, i) \in Seq(RecordSet) /\ Len(Noted(sizes, N, old.pos, i)) = i
    <3>1. ASSUME NEW j \in 1 .. i PROVE [size |-> sizes[j], seg |-> N, pos |-> old.pos[j]] \in RecordSet
      <4>1. old.pos \in Seq(PlaceSet) /\ j \in 1 .. Len(old.pos)
        BY <2>3, <2>4 DEF IsBuffer
      <4>2. old.pos[j] \in PlaceSet
        BY <4>1, ElementOfSeq
      <4>3. sizes[j] \in Sizes
        BY <1>2
      <4> QED BY <4>2, <4>3 DEF RecordSet
    <3>2. Noted(sizes, N, old.pos, i) \in [1 .. i -> RecordSet]
      BY <3>1 DEF Noted
    <3>3. i \in Nat
      OBVIOUS
    <3> QED BY <3>2, <3>3, LenProperties DEF Noted
  <2>10. Then(i) \in Seq(RecordSet) /\ Len(Then(i)) = R + i
    <3>1. PICK q : q = Noted(sizes, N, old.pos, i)
      OBVIOUS
    <3>2. q \in Seq(RecordSet) /\ Len(q) = i
      BY <2>9, <3>1
    <3>3. rs \o q \in Seq(RecordSet) /\ Len(rs \o q) = R + i
      BY <1>1, <1>3, <3>2, ConcatProperties
    <3> QED BY <2>2, <3>1, <3>3
  <2>11. m = Len(Then(i)) + 1
    BY <1>3, <2>1, <2>2, <2>10
  <2>12. Len(Here(i)) = N
    <3>1. DOMAIN Extended(fs, old.chunks, old.len) = DOMAIN fs
      BY DEF Extended
    <3>2. Extended(fs, old.chunks, old.len) \in Seq(FileSet)
      BY <2>2, <2>4 DEF Layout
    <3>3. Len(Extended(fs, old.chunks, old.len)) = Len(fs)
      BY <1>1, <3>1, <3>2, LenProperties
    <3> QED BY <1>3, <2>2, <3>3
  <2> DEFINE rec == [size |-> size, seg |-> N, pos |-> [block |-> pb, offset |-> pu]]
  <2>13. Layout(Extended(Here(i), p, add), new.block, new.used, Append(Then(i), rec))
    <3>1. PICK gs, qs, ob, ou, nb, nu, rc :
            /\ gs = Here(i) /\ qs = Then(i) /\ ob = old.block /\ ou = old.used
            /\ nb = new.block /\ nu = new.used /\ rc = rec
      OBVIOUS
    <3>2. /\ Layout(gs, ob, ou, qs) /\ PlaceAfter(ob, ou) = [block |-> pb, offset |-> pu]
          /\ NotAfter(ob, ou, pb, pu) /\ Run(p, Len(qs) + 1, size, pb, pu)
          /\ Place(pb, pu + (Len(p) * HeaderSize + size)) = [block |-> nb, offset |-> nu]
          /\ nb \in Nat /\ nu \in Nat /\ nu < BlockSize
          /\ nb * BlockSize + nu = (ob * BlockSize + ou) + add
          /\ rc = [size |-> size, seg |-> Len(gs), pos |-> [block |-> pb, offset |-> pu]]
      BY <2>4, <2>7, <2>8, <2>11, <2>12, <3>1
    <3>3. Layout(Extended(gs, p, add), nb, nu, Append(qs, rc))
      BY <2>3, <2>7, <3>2, WriteKeeps
    <3> QED BY <3>1, <3>3
  <2>14. Extended(Here(i), p, add) = Here(k)
    <3>1. old.chunks \in Seq(ChunkSet) /\ old.len \in Nat /\ p \in Seq(ChunkSet)
      BY <2>3, <2>7 DEF IsBuffer, Run
    <3>2. Extended(Extended(fs, old.chunks, old.len), p, add) = Extended(fs, old.chunks \o p, old.len + add)
      <4>1. PICK c \in Seq(ChunkSet), l \in Nat : c = old.chunks /\ l = old.len
        BY <3>1
      <4>2. fs \in Seq(FileSet) /\ Len(fs) > 0 /\ p \in Seq(ChunkSet) /\ add \in Nat
        BY <1>1, <3>1
      <4>3. Extended(Extended(fs, c, l), p, add) = Extended(fs, c \o p, l + add)
        <5> HIDE DEF Here, Then, K, rec
        <5> QED BY <4>2, ExtendedTwice, SMTT(30)
      <4> QED BY <4>1, <4>3
    <3> QED BY <2>2, <2>7, <3>2
  <2>15. Append(Then(i), rec) = Then(k) /\ Len(new.pos) = k
    <3>1. /\ new.pos \in Seq(PlaceSet) /\ Len(new.pos) = k
          /\ \A j \in 1 .. i : new.pos[j] = old.pos[j]
          /\ new.pos[k] = [block |-> pb, offset |-> pu]
      <4>1. old.pos \in Seq(PlaceSet) /\ [block |-> pb, offset |-> pu] \in PlaceSet
        BY <2>3, <2>7 DEF IsBuffer, PlaceSet
      <4> QED BY <2>1, <2>4, <2>7, <4>1, AppendProperties
    <3>2. PICK q : q = Noted(sizes, N, old.pos, i)
      OBVIOUS
    <3>3. rec \in RecordSet
      <4>1. [block |-> pb, offset |-> pu] \in PlaceSet
        BY <2>7 DEF PlaceSet
      <4> QED BY <2>3, <4>1 DEF RecordSet
    <3>4. Noted(sizes, N, new.pos, k) = Append(q, rec)
      <4>1. /\ Append(q, rec) \in Seq(RecordSet) /\ Len(Append(q, rec)) = k
            /\ \A j \in 1 .. i : Append(q, rec)[j] = q[j]
            /\ Append(q, rec)[k] = rec
        <5> HIDE DEF rec
        <5> QED BY <2>1, <2>9, <3>2, <3>3, AppendProperties
      <4>2. Append(q, rec) = [j \in 1 .. k |-> Append(q, rec)[j]]
        <5> HIDE DEF rec
        <5> QED BY <4>1, LenProperties
      <4>3. ASSUME NEW j \in 1 .. k
            PROVE  Append(q, rec)[j] = [size |-> sizes[j], seg |-> N, pos |-> new.pos[j]]
        <5>1. CASE j = k
          BY <2>2, <3>1, <4>1, <5>1
        <5>2. CASE j # k
          <6>1. j \in 1 .. i
            BY <2>1, <5>2
          <6>2. q[j] = [size |-> sizes[j], seg |-> N, pos |-> old.pos[j]]
            BY <3>2, <6>1 DEF Noted
          <6> QED BY <3>1, <4>1, <6>1, <6>2
        <5> QED BY <5>1, <5>2
      <4>4. [j \in 1 .. k |-> Append(q, rec)[j]] = [j \in 1 .. k |-> [size |-> sizes[j], seg |-> N, pos |-> new.pos[j]]]
        <5> HIDE DEF rec
        <5> QED BY <4>3
      <4> HIDE DEF rec
      <4> QED BY <4>2, <4>4 DEF Noted
    <3>5. Append(rs \o q, rec) = rs \o Append(q, rec)
      <4> HIDE DEF rec
      <4>1. q \in Seq(RecordSet)
        BY <2>9, <3>2
      <4>2. Append(rs \o q, rec) = (rs \o q) \o <<rec>> /\ Append(q, rec) = q \o <<rec>>
        BY <1>1, <3>3, <4>1, AppendIsConcat, ConcatProperties
      <4>3. <<rec>> \in Seq(RecordSet)
        BY <3>3
      <4>4. (rs \o q) \o <<rec>> = rs \o (q \o <<rec>>)
        <5>1. PICK t \in Seq(RecordSet) : t = <<rec>>
          BY <4>3
        <5>2. (rs \o q) \o t = rs \o (q \o t)
          <6>1. rs \in Seq(RecordSet) /\ q \in Seq(RecordSet) /\ t \in Seq(RecordSet)
            BY <1>1, <4>1
          <6> QED BY <6>1, ConcatAssociative, SMTT(30)
        <5> QED BY <5>1, <5>2
      <4> QED BY <4>2, <4>4
    <3> QED BY <2>2, <3>1, <3>2, <3>4, <3>5
  <2>16. Kept(k)
    <3> HIDE DEF rec, Here, Then
    <3> QED BY <2>2, <2>13, <2>14, <2>15 DEF Kept
  <2> QED BY <2>1, <2>2, <2>15, <2>16
<1>8. L \in K
  <2> HIDE DEF K
  <2>1. \A i \in 0 .. L : i \in K
    BY <1>2, <1>6, <1>7, UpTo
  <2> QED BY <1>2, <2>1
<1>9. buf = fill[L] /\ IsBuffer(buf) /\ Len(buf.pos) = L
  <2>1. L \in 0 .. L
    BY <1>2
  <2> QED BY <1>3, <1>4, <1>5, <1>8, <2>1
<1> QED BY <1>2, <1>3, <1>8, <1>9 DEF Kept

-----------------------------------------------------------------------------
(* Reading *)

\* Chunks of a file that begin at the same place are the same.
LEMMA OneAtPlace ==
  ASSUME NEW cs, Laid(cs), NEW c \in ToSet(cs), NEW d \in ToSet(cs),
         c.block = d.block, c.offset = d.offset
  PROVE  c = d
<1>1. cs \in Seq(ChunkSet) /\ Len(cs) \in Nat /\ DOMAIN cs = 1 .. Len(cs)
  BY LenProperties DEF Laid
<1>2. PICK i \in 1 .. Len(cs), j \in 1 .. Len(cs) : c = cs[i] /\ d = cs[j]
  BY <1>1 DEF ToSet
<1>3. \A a \in ChunkSet : a.block \in Nat /\ a.offset \in Nat /\ a.offset < End(a) /\ End(a) \in Nat
  BY Measures DEF ChunkSet, End
<1>4. c \in ChunkSet /\ d \in ChunkSet
  BY <1>1, <1>2, ElementOfSeq
<1>5. PICK cb \in Nat, co \in Nat, ce \in Nat, de \in Nat :
        /\ cb = c.block /\ cb = d.block /\ co = c.offset /\ co = d.offset
        /\ ce = End(c) /\ de = End(d) /\ co < ce /\ co < de
  BY <1>3, <1>4
<1>6. ~ (i < j)
  <2>1. SUFFICES ASSUME i < j PROVE FALSE
    OBVIOUS
  <2>2. Ahead(c, d)
    BY <1>2, <2>1 DEF Laid
  <2>3. cb < cb \/ ce <= co
    BY <1>5, <2>2 DEF Ahead
  <2> QED BY <1>5, <2>3
<1>7. ~ (j < i)
  <2>1. SUFFICES ASSUME j < i PROVE FALSE
    OBVIOUS
  <2>2. Ahead(d, c)
    BY <1>2, <2>1 DEF Laid
  <2>3. cb < cb \/ de <= co
    BY <1>5, <2>2 DEF Ahead
  <2> QED BY <1>5, <2>3
<1>8. i = j
  BY <1>1, <1>6, <1>7
<1> QED BY <1>2, <1>8

\* A record that a file carries is what the reader finds at its place.
LEMMA ReadIs ==
  ASSUME NEW f \in FileSet, FileOK(f), NEW p, NEW r \in Nat, NEW size \in Nat,
         NEW pos \in PlaceSet, NEW nx, CarriedBy(p, f.chunks, r, size, pos, nx)
  PROVE  /\ ReadInternal(f, pos.block, pos.offset) = [parts |-> p, eof |-> FALSE, next |-> nx]
         /\ IsWhole(p, r, size)
<1>1. PICK b \in Nat, u \in Nat : b = pos.block /\ u = pos.offset
  BY DEF PlaceSet
<1>2. PICK n \in Nat : n = Len(p) /\ n > 0 /\ p \in Seq(ChunkSet)
  BY LenProperties DEF CarriedBy, Run
<1>3. Run(p, r, size, b, u)
  BY <1>1 DEF CarriedBy
<1>4. \A j \in 1 .. n : /\ p[j] \in ChunkSet /\ p[j] \in ToSet(f.chunks)
                        /\ Piece(p[j], j, r, b, u) /\ (IsLast(p[j]) <=> j = n)
  BY <1>2, <1>3, ElementOfSeq DEF Run, CarriedBy
<1>5. \A j \in 1 .. n : End(p[j]) \in Nat /\ p[j].offset < End(p[j]) /\ Within(p[j], f.len)
  <2>1. ASSUME NEW j \in 1 .. n
        PROVE  End(p[j]) \in Nat /\ p[j].offset < End(p[j]) /\ Within(p[j], f.len)
    <3>1. f.chunks \in Seq(ChunkSet)
      BY DEF FileSet
    <3>2. PICK i \in 1 .. Len(f.chunks) : p[j] = f.chunks[i]
      BY <1>4, <3>1, LenProperties DEF ToSet
    <3>3. Within(p[j], f.len)
      BY <3>2 DEF FileOK
    <3>4. p[j] \in ChunkSet
      BY <1>4
    <3>5. End(p[j]) \in Nat /\ p[j].offset < End(p[j])
      <4>1. PICK co \in Nat, cl \in Nat : co = p[j].offset /\ cl = p[j].len
        BY <3>4 DEF ChunkSet
      <4>2. End(p[j]) = co + HeaderSize + cl
        BY <4>1 DEF End
      <4>3. HeaderSize \in Nat /\ HeaderSize > 0
        BY Measures
      <4>4. co + HeaderSize + cl \in Nat /\ co < co + HeaderSize + cl
        BY <4>3
      <4> QED BY <4>1, <4>2, <4>4
    <3> QED BY <3>3, <3>5
  <2> QED BY <2>1
<1> DEFINE At(k)  == {c \in ToSet(f.chunks) : /\ c.block = b + k
                                              /\ c.offset = IF k = 0 THEN u ELSE 0}
           Ends(k) == \E c \in At(k) : c.type \in {"full", "last"}
           Stops   == {k \in 0 .. f.len \div BlockSize :
                         Ends(k) /\ \A i \in 0 .. k - 1 : At(i) # {} /\ ~ Ends(i)}
           parts(k) == [i \in 1 .. k + 1 |-> CHOOSE c \in At(i - 1) : TRUE]
<1>6. \A k \in 0 .. n - 1 : At(k) = {p[k + 1]}
  <2>1. ASSUME NEW k \in 0 .. n - 1 PROVE At(k) = {p[k + 1]}
    <3>1. PICK j \in 1 .. n : j = k + 1 /\ (j = 1 <=> k = 0) /\ b + j - 1 = b + k
      BY <1>2
    <3>2. p[j].block = b + k /\ p[j].offset = (IF k = 0 THEN u ELSE 0) /\ p[j] \in ToSet(f.chunks)
      BY <1>4, <3>1 DEF Piece
    <3>3. \A c \in At(k) : c = p[j]
      BY <3>2, OneAtPlace DEF FileOK
    <3>4. p[j] \in At(k)
      BY <3>2
    <3> HIDE DEF At
    <3> QED BY <3>1, <3>3, <3>4
  <2> QED BY <2>1
<1> HIDE DEF At
<1>7. \A k \in 0 .. n - 1 : At(k) # {} /\ (Ends(k) <=> k = n - 1)
  <2>1. ASSUME NEW k \in 0 .. n - 1 PROVE At(k) # {} /\ (Ends(k) <=> k = n - 1)
    <3>1. PICK j \in 1 .. n : j = k + 1 /\ (j = n <=> k = n - 1)
      BY <1>2
    <3>2. IsLast(p[j]) <=> j = n
      BY <1>4
    <3>3. At(k) = {p[j]}
      BY <1>6, <3>1
    <3> QED BY <3>1, <3>2, <3>3 DEF IsLast
  <2> QED BY <2>1
<1> HIDE DEF Ends
<1>8. n - 1 \in 0 .. f.len \div BlockSize
  <2>1. n \in 1 .. n /\ n - 1 \in Nat
    BY <1>2
  <2>2. p[n].block = b + (n - 1) /\ End(p[n]) \in Nat /\ Within(p[n], f.len)
    BY <1>4, <1>5, <2>1 DEF Piece
  <2>3. PICK k \in Nat, x \in Nat : k = n - 1 /\ x = f.len
    BY <2>1 DEF FileSet
  <2>4. PICK kb \in Nat, bb \in Nat : kb = k * BlockSize /\ bb = b * BlockSize
    BY Measures
  <2>5. (b + k) * BlockSize = bb + kb
    BY <2>4, Measures, Times
  <2>6. (b + k) * BlockSize + End(p[n]) <= x
    BY <2>2, <2>3 DEF Within
  <2>7. kb <= x
    BY <2>2, <2>5, <2>6
  <2>8. BlockSize \in Nat /\ BlockSize > 0
    BY Measures
  <2>9. k <= x \div BlockSize /\ x \div BlockSize \in Nat
    BY <2>4, <2>7, <2>8, DivBound, DivMod
  <2> QED BY <2>3, <2>9
<1>9. Stops = {n - 1}
  <2>1. n - 1 \in Stops
    <3>1. n - 1 \in 0 .. n - 1
      BY <1>2
    <3>2. \A i \in 0 .. (n - 1) - 1 : At(i) # {} /\ ~ Ends(i)
      <4>1. \A i \in 0 .. (n - 1) - 1 : i \in 0 .. n - 1 /\ i # n - 1
        BY <1>2
      <4> QED BY <1>7, <4>1
    <3> QED BY <1>7, <1>8, <3>1, <3>2
  <2>2. ASSUME NEW k \in Stops PROVE k = n - 1
    <3>1. /\ k \in Int /\ k >= 0 /\ Ends(k)
          /\ \A i \in 0 .. k - 1 : ~ Ends(i)
      OBVIOUS
    <3>2. CASE k < n - 1
      <4>1. k \in 0 .. n - 1 /\ k # n - 1
        BY <1>2, <3>1, <3>2
      <4> QED BY <1>7, <3>1, <4>1
    <3>3. CASE k > n - 1
      <4>1. n - 1 \in 0 .. k - 1 /\ n - 1 \in 0 .. n - 1
        BY <1>2, <3>1, <3>3
      <4> QED BY <1>7, <3>1, <4>1
    <3> QED BY <1>2, <3>1, <3>2, <3>3
  <2> HIDE DEF Stops
  <2> QED BY <2>1, <2>2
<1>10. parts(n - 1) = p
  <2>1. (n - 1) + 1 = n
    BY <1>2
  <2>2. ASSUME NEW i \in 1 .. n PROVE (CHOOSE c \in At(i - 1) : TRUE) = p[i]
    <3>1. i - 1 \in 0 .. n - 1 /\ (i - 1) + 1 = i
      BY <1>2
    <3>2. At(i - 1) = {p[i]}
      BY <1>6, <3>1
    <3> QED BY <3>2
  <2>3. p = [i \in 1 .. n |-> p[i]]
    BY <1>2, LenProperties
  <2>4. [i \in 1 .. n |-> CHOOSE c \in At(i - 1) : TRUE] = [i \in 1 .. n |-> p[i]]
    BY <2>2
  <2> QED BY <2>1, <2>3, <2>4
<1>11. ~ (b * BlockSize + u >= f.len)
  <2>1. 1 \in 1 .. n
    BY <1>2
  <2>2. p[1].block = b /\ p[1].offset = u
    <3>1. p[1].block = b + (1 - 1) /\ b + (1 - 1) = b
      BY <1>4, <2>1 DEF Piece
    <3> QED BY <1>4, <2>1, <3>1 DEF Piece
  <2>3. PICK e \in Nat, x \in Nat : e = End(p[1]) /\ x = f.len /\ u < e
    BY <1>5, <2>1, <2>2 DEF FileSet
  <2>4. PICK bb \in Nat : bb = b * BlockSize
    BY Measures
  <2>5. bb + e <= x
    BY <1>5, <2>1, <2>2, <2>3, <2>4 DEF Within
  <2>6. ~ (bb + u >= x)
    BY <2>3, <2>5
  <2> QED BY <2>3, <2>4, <2>6
<1>12. (CHOOSE k \in Stops : TRUE) = n - 1 /\ Stops # {}
  <2> HIDE DEF Stops
  <2> QED BY <1>9
<1>13. PlaceAfter(p[Len(p)].block, p[Len(p)].offset + HeaderSize + p[Len(p)].len) = nx
  BY DEF CarriedBy, End
<1>14. ReadInternal(f, b, u) = [parts |-> p, eof |-> FALSE, next |-> nx]
  <2> HIDE DEF parts, Stops
  <2>1. ReadInternal(f, b, u)
          = LET ps == parts(CHOOSE k \in Stops : TRUE)
            IN  [parts |-> ps, eof |-> FALSE,
                 next  |-> PlaceAfter(ps[Len(ps)].block, ps[Len(ps)].offset + HeaderSize + ps[Len(ps)].len)]
    BY <1>11, <1>12 DEF ReadInternal, parts, Stops, Ends, At
  <2>2. parts(CHOOSE k \in Stops : TRUE) = p
    BY <1>10, <1>12
  <2> QED BY <1>13, <2>1, <2>2
<1>15. IsWhole(p, r, size)
  <2>1. p # <<>>
    BY <1>2
  <2>2. \A j \in 1 .. Len(p) : p[j].rec = r
    BY <1>2, <1>4 DEF Piece
  <2>3. ASSUME NEW j \in 1 .. Len(p), j # Len(p) PROVE p[j + 1].from = p[j].from + p[j].len
    <3>1. j \in 1 .. Len(p) - 1
      BY <1>2, <2>3
    <3> QED BY <1>3, <3>1 DEF Run
  <2>4. p[1].from = 0 /\ p[Len(p)].from + p[Len(p)].len = size
    BY <1>3 DEF Run
  <2> QED BY <2>1, <2>2, <2>3, <2>4 DEF IsWhole
<1> QED BY <1>1, <1>14, <1>15

-----------------------------------------------------------------------------
(* What a write adds to a file *)

\* Headers counts at least what maxDataWriteSize foresees.
LEMMA SizesAre ==
  ASSUME NEW size \in Nat, size > 0
  PROVE  /\ Headers(size) \in Nat /\ Headers(size) > 0
         /\ Unforeseen(size) \in Nat /\ MaxDataWriteSize(size) \in Nat
         /\ size + HeaderSize <= MaxDataWriteSize(size)
         /\ MaxDataWriteSize(size) + Unforeseen(size)
              = HeaderSize + (size + Headers(size) * HeaderSize)
<1>1. PICK d \in Nat, B \in Nat, H \in Nat :
        B = BlockSize /\ H = HeaderSize /\ d = B - H /\ d > 0 /\ B > 0 /\ H > 0
  BY Measures
<1>2. PICK x \in Nat : x = size + (d - 1) /\ Headers(size) = x \div d
  <2>1. size + BlockSize - HeaderSize - 1 = size + (d - 1)
    BY <1>1
  <2> QED BY <1>1, <2>1 DEF Headers
<1>3. PICK k \in Nat : k = size \div B /\ k * B <= size
  <2>1. /\ size \div B \in Nat /\ size % B \in Nat /\ size = (size \div B) * B + (size % B)
    BY <1>1, DivMod
  <2>2. PICK k \in Nat, m \in Nat : k = size \div B /\ m = size % B /\ size = k * B + m
    BY <2>1
  <2>3. k * B \in Nat
    BY <1>1
  <2> QED BY <2>2, <2>3
<1>4. PICK h \in Nat : h = Headers(size)
  BY <1>1, <1>2, DivMod
<1>5. k + 1 <= h
  <2>1. PICK kd \in Nat, kh \in Nat : kd = k * d /\ kh = k * H
    BY <1>1
  <2>2. k * B = kd + kh
    <3>1. B = d + H
      BY <1>1
    <3>2. k * (d + H) = k * d + k * H
      BY <1>1
    <3> QED BY <2>1, <3>1, <3>2
  <2>3. kd < size
    <3>1. CASE k = 0
      <4>1. kd = 0
        BY <1>1, <2>1, <3>1
      <4> QED BY <4>1
    <3>2. CASE k # 0
      <4>1. kh > 0
        <5>1. PICK j \in Nat : k = j + 1
          <6>1. k - 1 \in Nat /\ k = (k - 1) + 1
            BY <3>2
          <6> QED BY <6>1
        <5>2. kh = j * H + H /\ j * H \in Nat
          BY <1>1, <2>1, <5>1, Times
        <5> QED BY <1>1, <5>2
      <4> QED BY <1>3, <2>2, <4>1
    <3> QED BY <3>1, <3>2
  <2>4. (k + 1) * d = kd + d
    BY <1>1, <2>1, Times
  <2>5. (k + 1) * d <= x
    BY <1>1, <1>2, <2>3, <2>4
  <2>6. k + 1 \in Nat
    OBVIOUS
  <2>7. k + 1 <= x \div d
    BY <1>1, <2>5, <2>6, DivBound
  <2> QED BY <1>2, <1>4, <2>7
<1>6. PICK more \in Nat : more = h - (k + 1)
  BY <1>5
<1>7. PICK hh \in Nat, kh \in Nat, mh \in Nat : hh = h * H /\ kh = (k + 1) * H /\ mh = more * H
  BY <1>1
<1>8. hh = kh + mh
  <2>1. h = (k + 1) + more
    BY <1>6
  <2>2. ((k + 1) + more) * H = (k + 1) * H + more * H
    <3>1. k + 1 \in Nat
      OBVIOUS
    <3> QED BY <1>1, <3>1, Times
  <2> QED BY <1>7, <2>1, <2>2
<1>9. Unforeseen(size) = mh
  BY <1>1, <1>3, <1>4, <1>6, <1>7 DEF Unforeseen
<1>10. MaxDataWriteSize(size) = H + size + kh
  BY <1>1, <1>3, <1>7 DEF MaxDataWriteSize
<1>11. h > 0 /\ kh \in Nat
  BY <1>5
<1>12. H + size + kh + mh = H + (size + hh)
  BY <1>8
<1> QED BY <1>1, <1>4, <1>7, <1>9, <1>10, <1>11, <1>12

\* A record adds at most what maxDataWriteSize foresees and the bytes it does not; in
\* a file of its own it is behind no padding, and in no block that is begun.
LEMMA WriteAdds ==
  ASSUME NEW buf, IsBuffer(buf), NEW r \in Nat, NEW size \in Nat, size > 0,
         NEW new, new = WriteToBuffer(buf, r, size)
  PROVE  /\ IsBuffer(new)
         /\ new.len <= buf.len + (MaxDataWriteSize(size) + Unforeseen(size))
         /\ buf.used = 0 => new.len <= buf.len + (size + Headers(size) * HeaderSize)
<1>1. IsBuffer(new) /\ \E p, b, u : Wrote(buf, new, p, r, size, b, u)
  BY WriteIs
<1>2. PICK p, b, u : Wrote(buf, new, p, r, size, b, u)
  BY <1>1
<1>3. PICK pad \in Nat : pad = Padding(buf.used) /\ pad <= HeaderSize
  BY <1>2 DEF Wrote
<1>4. PICK h \in Nat : h = Headers(size)
  BY SizesAre
<1>5. b \in Nat /\ u \in Nat /\ Run(p, r, size, b, u)
  BY <1>2 DEF Wrote
<1>6. PICK n \in Nat : n = Len(p) /\ n <= h + 1 /\ (u = 0 => n <= h)
  BY <1>4, <1>5, RunHeaders
<1>7. PICK old \in Nat : old = buf.len
  BY DEF IsBuffer
<1>8. PICK nh \in Nat, hh \in Nat : nh = n * HeaderSize /\ hh = h * HeaderSize
  BY Measures
<1>9. new.len = old + (pad + (nh + size))
  BY <1>2, <1>3, <1>6, <1>7, <1>8 DEF Wrote
<1>10. (n <= h => nh <= hh) /\ nh <= hh + HeaderSize
  <2>1. n <= h => n * HeaderSize <= h * HeaderSize
    BY Measures, Times
  <2>2. h + 1 \in Nat /\ (h + 1) * HeaderSize = hh + HeaderSize
    BY <1>8, Measures, Times
  <2>3. n * HeaderSize <= (h + 1) * HeaderSize
    BY <1>6, <2>2, Measures, Times
  <2> QED BY <1>8, <2>1, <2>2, <2>3
<1>11. (pad > 0 \/ buf.used = 0 => u = 0) /\ (buf.used = 0 => pad = 0)
  BY <1>2, <1>3 DEF Wrote
<1>12. pad + (nh + size) <= HeaderSize + (size + hh)
  <2>1. CASE pad > 0
    BY <1>3, <1>6, <1>10, <1>11, <2>1, Measures
  <2>2. CASE ~ (pad > 0)
    BY <1>3, <1>10, <2>2, Measures
  <2> QED BY <2>1, <2>2
<1>13. buf.used = 0 => pad + (nh + size) <= size + hh
  BY <1>6, <1>10, <1>11, Measures
<1>14. MaxDataWriteSize(size) + Unforeseen(size) = HeaderSize + (size + hh)
  BY <1>4, <1>8, SizesAre
<1>15. new.len <= old + (HeaderSize + (size + hh))
  BY <1>9, <1>12, Measures
<1>16. buf.used = 0 => new.len <= old + (size + hh)
  BY <1>9, <1>13
<1> QED BY <1>1, <1>4, <1>7, <1>8, <1>14, <1>15, <1>16

\* What a batch of one record or two may take.
LEMMA PendingIs ==
  ASSUME NEW sizes \in Seq(Sizes)
  PROVE  /\ Len(sizes) = 1 => PendingSize(sizes) = MaxDataWriteSize(sizes[1])
         /\ Len(sizes) = 2
              => PendingSize(sizes) = MaxDataWriteSize(sizes[1]) + MaxDataWriteSize(sizes[2])
<1>1. PICK L \in Nat : L = Len(sizes)
  BY LenProperties
<1>2. \A i \in 1 .. L : MaxDataWriteSize(sizes[i]) \in Nat
  <2>1. ASSUME NEW i \in 1 .. L PROVE sizes[i] \in Nat /\ sizes[i] > 0
    <3>1. sizes[i] \in Sizes
      BY <1>1, ElementOfSeq
    <3> QED BY <3>1, Measures
  <2> QED BY <2>1, SizesAre
<1> DEFINE G   == [x \in (1 .. L) \X Nat |-> x[2] + MaxDataWriteSize(sizes[x[1]])]
           sum == CHOOSE f : f = [i \in 0 .. L |-> IF i = 0 THEN 0
                                    ELSE f[i - 1] + MaxDataWriteSize(sizes[i])]
<1>3. \E f : f = [i \in 0 .. L |-> IF i = 0 THEN 0 ELSE f[i - 1] + MaxDataWriteSize(sizes[i])]
  <2>1. G \in [(1 .. L) \X Nat -> Nat]
    BY <1>2
  <2>2. PICK f \in [0 .. L -> Nat] : Turning(f, L, 0, G)
    <3> HIDE DEF G, sum
    <3>1. 0 \in Nat
      OBVIOUS
    <3> QED BY <2>1, <3>1, Turns
  <2>3. ASSUME NEW i \in 0 .. L
        PROVE  f[i] = IF i = 0 THEN 0 ELSE f[i - 1] + MaxDataWriteSize(sizes[i])
    <3>1. CASE i = 0
      BY <2>2, <3>1 DEF Turning
    <3>2. CASE i # 0
      <4>1. i \in 1 .. L /\ i - 1 \in 0 .. L
        BY <3>2
      <4>2. f[i] = G[<<i, f[i - 1]>>]
        <5> HIDE DEF G
        <5> QED BY <2>2, <4>1 DEF Turning
      <4>3. <<i, f[i - 1]>> \in (1 .. L) \X Nat
        BY <4>1
      <4> QED BY <3>2, <4>2, <4>3
    <3> QED BY <3>1, <3>2
  <2>4. f = [i \in 0 .. L |-> f[i]]
    OBVIOUS
  <2>5. [i \in 0 .. L |-> f[i]]
          = [i \in 0 .. L |-> IF i = 0 THEN 0 ELSE f[i - 1] + MaxDataWriteSize(sizes[i])]
    BY <2>3
  <2> HIDE DEF G
  <2> QED BY <2>4, <2>5
<1>4. sum = [i \in 0 .. L |-> IF i = 0 THEN 0 ELSE sum[i - 1] + MaxDataWriteSize(sizes[i])]
  BY <1>3
<1>5. PendingSize(sizes) = sum[L]
  BY <1>1 DEF PendingSize
<1> HIDE DEF sum, G
<1>6. ASSUME NEW i \in 0 .. L
      PROVE  sum[i] = IF i = 0 THEN 0 ELSE sum[i - 1] + MaxDataWriteSize(sizes[i])
  BY <1>4
<1>7. L \in {1, 2} => sum[1] = MaxDataWriteSize(sizes[1])
  <2>1. SUFFICES ASSUME L \in {1, 2} PROVE sum[1] = MaxDataWriteSize(sizes[1])
    OBVIOUS
  <2>2. 0 \in 0 .. L /\ 1 \in 0 .. L /\ 1 # 0 /\ 1 - 1 = 0 /\ 1 \in 1 .. L
    BY <2>1
  <2>3. sum[0] = 0 /\ sum[1] = sum[0] + MaxDataWriteSize(sizes[1])
    BY <1>6, <2>2
  <2> QED BY <1>2, <2>2, <2>3
<1>8. L = 2 => sum[2] = sum[1] + MaxDataWriteSize(sizes[2])
  <2>1. SUFFICES ASSUME L = 2 PROVE sum[2] = sum[1] + MaxDataWriteSize(sizes[2])
    OBVIOUS
  <2>2. 2 \in 0 .. L /\ 2 # 0 /\ 2 - 1 = 1
    BY <2>1
  <2> QED BY <1>6, <2>2
<1> QED BY <1>1, <1>5, <1>7, <1>8

\* What a batch of one record or two adds.
LEMMA BatchAdds ==
  ASSUME NEW b \in Nat, NEW u \in Nat, u < BlockSize, NEW r \in Nat, NEW sizes \in Seq(Sizes),
         NEW buf, buf = FillBuffer(b, u, r, sizes)
  PROVE  /\ Len(sizes) = 1
              => /\ buf.len <= MaxDataWriteSize(sizes[1]) + Unforeseen(sizes[1])
                 /\ u = 0 => buf.len <= sizes[1] + Headers(sizes[1]) * HeaderSize
         /\ Len(sizes) = 2
              => buf.len <= (MaxDataWriteSize(sizes[1]) + Unforeseen(sizes[1]))
                              + (MaxDataWriteSize(sizes[2]) + Unforeseen(sizes[2]))
<1>1. PICK L \in Nat : L = Len(sizes) /\ (\A i \in 1 .. L : sizes[i] \in Nat /\ sizes[i] > 0)
  <2>1. Len(sizes) \in Nat /\ \A i \in 1 .. Len(sizes) : sizes[i] \in Sizes
    BY LenProperties, ElementOfSeq
  <2> QED BY <2>1, Measures
<1>2. PICK fill : /\ fill \in [0 .. L -> BufferSet] /\ Filling(fill, b, u, r, sizes)
                  /\ buf = fill[L]
  <2>1. PICK fill : Filled(fill, b, u, r, sizes)
    BY FillIs, Zenon
  <2> QED BY <1>1, <2>1 DEF Filled
<1>3. \A i \in 0 .. L : IsBuffer(fill[i])
  BY <1>2, BufferIs
<1>4. fill[0].len = 0 /\ fill[0].used = u
  BY <1>2 DEF Filling, Buffer
<1>5. ASSUME NEW i \in 1 .. L
      PROVE  /\ fill[i].len <= fill[i - 1].len + (MaxDataWriteSize(sizes[i]) + Unforeseen(sizes[i]))
             /\ fill[i - 1].used = 0
                  => fill[i].len <= fill[i - 1].len + (sizes[i] + Headers(sizes[i]) * HeaderSize)
             /\ fill[i].len \in Nat
             /\ MaxDataWriteSize(sizes[i]) + Unforeseen(sizes[i]) \in Nat
             /\ sizes[i] + Headers(sizes[i]) * HeaderSize \in Nat
  <2>1. PICK old, new, size, m : /\ old = fill[i - 1] /\ new = fill[i] /\ size = sizes[i]
                                 /\ m = r + i - 1
    OBVIOUS
  <2>2. i - 1 \in 0 .. L /\ i \in 0 .. L /\ m \in Nat
    BY <2>1
  <2>3. IsBuffer(old) /\ size \in Nat /\ size > 0 /\ new = WriteToBuffer(old, m, size)
    BY <1>1, <1>2, <1>3, <2>1, <2>2 DEF Filling
  <2>4. /\ IsBuffer(new)
        /\ new.len <= old.len + (MaxDataWriteSize(size) + Unforeseen(size))
        /\ old.used = 0 => new.len <= old.len + (size + Headers(size) * HeaderSize)
    BY <2>2, <2>3, WriteAdds
  <2>5. new.len \in Nat
    BY <2>4 DEF IsBuffer
  <2>6. MaxDataWriteSize(size) + Unforeseen(size) \in Nat /\ size + Headers(size) * HeaderSize \in Nat
    <3>1. MaxDataWriteSize(size) \in Nat /\ Unforeseen(size) \in Nat /\ Headers(size) \in Nat
      BY <2>3, SizesAre
    <3>2. Headers(size) * HeaderSize \in Nat
      BY <3>1, Measures
    <3> QED BY <2>3, <3>1, <3>2
  <2> QED BY <2>1, <2>4, <2>5, <2>6
<1>6. L = 1 => /\ buf.len <= MaxDataWriteSize(sizes[1]) + Unforeseen(sizes[1])
               /\ u = 0 => buf.len <= sizes[1] + Headers(sizes[1]) * HeaderSize
  <2>1. SUFFICES ASSUME L = 1
                 PROVE  /\ buf.len <= MaxDataWriteSize(sizes[1]) + Unforeseen(sizes[1])
                        /\ u = 0 => buf.len <= sizes[1] + Headers(sizes[1]) * HeaderSize
    OBVIOUS
  <2>2. 1 \in 1 .. L /\ 1 - 1 = 0
    BY <2>1
  <2>3. /\ fill[1].len <= fill[0].len + (MaxDataWriteSize(sizes[1]) + Unforeseen(sizes[1]))
        /\ fill[0].used = 0 => fill[1].len <= fill[0].len + (sizes[1] + Headers(sizes[1]) * HeaderSize)
        /\ MaxDataWriteSize(sizes[1]) + Unforeseen(sizes[1]) \in Nat
        /\ sizes[1] + Headers(sizes[1]) * HeaderSize \in Nat
    BY <1>5, <2>2
  <2>4. PICK x \in Nat, y \in Nat : /\ x = MaxDataWriteSize(sizes[1]) + Unforeseen(sizes[1])
                                    /\ y = sizes[1] + Headers(sizes[1]) * HeaderSize
    BY <2>3
  <2>5. 0 + x = x /\ 0 + y = y
    OBVIOUS
  <2> QED BY <1>2, <1>4, <2>1, <2>3, <2>4, <2>5
<1>7. L = 2 => buf.len <= (MaxDataWriteSize(sizes[1]) + Unforeseen(sizes[1]))
                            + (MaxDataWriteSize(sizes[2]) + Unforeseen(sizes[2]))
  <2>1. SUFFICES ASSUME L = 2
                 PROVE  buf.len <= (MaxDataWriteSize(sizes[1]) + Unforeseen(sizes[1]))
                                     + (MaxDataWriteSize(sizes[2]) + Unforeseen(sizes[2]))
    OBVIOUS
  <2>2. 1 \in 1 .. L /\ 1 - 1 = 0 /\ 2 \in 1 .. L /\ 2 - 1 = 1
    BY <2>1
  <2>3. PICK x \in Nat, y \in Nat : /\ x = MaxDataWriteSize(sizes[1]) + Unforeseen(sizes[1])
                                    /\ y = MaxDataWriteSize(sizes[2]) + Unforeseen(sizes[2])
    BY <1>5, <2>2
  <2>4. PICK k \in Nat, m \in Nat : k = fill[1].len /\ m = fill[2].len
    BY <1>5, <2>2
  <2>5. k <= 0 + x /\ m <= k + y
    BY <1>4, <1>5, <2>2, <2>3, <2>4
  <2>6. m <= x + y
    BY <2>5
  <2> QED BY <1>2, <2>1, <2>3, <2>4, <2>6
<1> QED BY <1>1, <1>6, <1>7

-----------------------------------------------------------------------------
(* The layout is in order in every state *)

LayoutInv == Layout(files, block, used, records)

\* A Store of a batch to files fs, after the rotation if there is one.
Stored(fs, b, u, buf, sizes, rotate) ==
  /\ fs = IF rotate THEN Append(files, NewFile) ELSE files
  /\ b = IF rotate THEN 0 ELSE block
  /\ u = IF rotate THEN 0 ELSE used
  /\ Layout(fs, b, u, records)
  /\ buf = FillBuffer(b, u, Len(records) + 1, sizes)
  /\ files' = Extended(fs, buf.chunks, buf.len)
  /\ block' = buf.block /\ used' = buf.used
  /\ records' = records \o Noted(sizes, Len(fs), buf.pos, Len(sizes))

LEMMA StoreIs ==
  ASSUME LayoutInv, NEW sizes \in Seq(Sizes), NEW rotate \in BOOLEAN, Store(sizes, rotate)
  PROVE  /\ LayoutInv'
         /\ \E fs, b, u, buf : Stored(fs, b, u, buf, sizes, rotate)
<1>1. PICK fs, b, u, buf :
        /\ fs = IF rotate THEN Append(files, NewFile) ELSE files
        /\ b = IF rotate THEN 0 ELSE block
        /\ u = IF rotate THEN 0 ELSE used
        /\ buf = FillBuffer(b, u, Len(records) + 1, sizes)
  OBVIOUS
<1>2. Layout(fs, b, u, records)
  <2>1. CASE rotate
    BY <1>1, <2>1, RotateKeeps DEF LayoutInv
  <2>2. CASE ~ rotate
    BY <1>1, <2>2 DEF LayoutInv
  <2> QED BY <2>1, <2>2
<1>3. /\ files' = Extended(fs, buf.chunks, buf.len)
      /\ block' = buf.block /\ used' = buf.used
      /\ records' = records \o Noted(sizes, Len(fs), buf.pos, Len(sizes))
  BY <1>1 DEF Store, Extended, Noted
<1>4. Layout(Extended(fs, buf.chunks, buf.len), buf.block, buf.used,
             records \o Noted(sizes, Len(fs), buf.pos, Len(sizes)))
  BY <1>1, <1>2, BatchKeeps
<1>5. Stored(fs, b, u, buf, sizes, rotate)
  BY <1>1, <1>2, <1>3 DEF Stored
<1> QED BY <1>3, <1>4, <1>5 DEF LayoutInv

LEMMA LayoutInit == Init => LayoutInv
<1> SUFFICES ASSUME Init PROVE LayoutInv
  OBVIOUS
<1>1. /\ files = <<NewFile>> /\ block = 0 /\ used = 0 /\ records = <<>>
  BY DEF Init, NewFile
<1>2. NewFile \in FileSet /\ NewFile.chunks = <<>> /\ NewFile.len = 0
  <2>1. <<>> \in Seq(ChunkSet)
    OBVIOUS
  <2> QED BY <2>1 DEF NewFile, FileSet
<1>3. <<NewFile>> \in Seq(FileSet) /\ Len(<<NewFile>>) = 1 /\ <<NewFile>>[1] = NewFile
  BY <1>2
<1>4. Len(<<>>) = 0 /\ Laid(<<>>) /\ Between(<<>>, 0, 0, 0, 0) /\ <<>> \in Seq(RecordSet)
  BY DEF Laid, Between
<1>5. FileOK(NewFile)
  BY <1>2, <1>4 DEF FileOK
<1>6. \A s \in 1 .. 1 : s = 1
  OBVIOUS
<1>7. \A i : i \notin 1 .. 0
  OBVIOUS
<1>8. 0 * BlockSize + 0 = 0 /\ 0 < BlockSize /\ 0 \in Nat /\ 1 > 0
  BY Measures
<1>9. Layout(<<NewFile>>, 0, 0, <<>>)
  BY <1>2, <1>3, <1>4, <1>5, <1>6, <1>7, <1>8 DEF Layout
<1> QED BY <1>1, <1>9 DEF LayoutInv

\* Which Store a write is.
LEMMA WriteStores ==
  ASSUME NEW size \in Sizes, WalWrite(size)
  PROVE  /\ size + HeaderSize <= SegmentSize
         /\ \E rotate \in BOOLEAN : /\ Store(<<size>>, rotate)
                                    /\ ~ rotate => ~ (Size + MaxDataWriteSize(size) > SegmentSize)
<1> DEFINE full == Size + MaxDataWriteSize(size) > SegmentSize
<1>1. CASE full
  <2>1. full = TRUE
    BY <1>1
  <2>2. Store(<<size>>, full)
    BY DEF WalWrite
  <2>3. Store(<<size>>, TRUE)
    BY <2>1, <2>2
  <2> QED BY <2>3 DEF WalWrite
<1>2. CASE ~ full
  <2>1. full = FALSE
    BY <1>2
  <2>2. Store(<<size>>, full)
    BY DEF WalWrite
  <2>3. Store(<<size>>, FALSE)
    BY <2>1, <2>2
  <2> QED BY <1>2, <2>3 DEF WalWrite
<1> QED BY <1>1, <1>2

LEMMA WriteAllStores ==
  ASSUME NEW sizes, WalWriteAll(sizes)
  PROVE  /\ PendingSize(sizes) <= SegmentSize
         /\ \E rotate \in BOOLEAN : /\ Store(sizes, rotate)
                                    /\ ~ rotate => ~ (Size + PendingSize(sizes) > SegmentSize)
<1> DEFINE full == Size + PendingSize(sizes) > SegmentSize
<1>1. CASE full
  <2>1. full = TRUE
    BY <1>1
  <2>2. Store(sizes, full)
    BY DEF WalWriteAll
  <2>3. Store(sizes, TRUE)
    BY <2>1, <2>2
  <2> QED BY <2>3 DEF WalWriteAll
<1>2. CASE ~ full
  <2>1. full = FALSE
    BY <1>2
  <2>2. Store(sizes, full)
    BY DEF WalWriteAll
  <2>3. Store(sizes, FALSE)
    BY <2>1, <2>2
  <2> QED BY <1>2, <2>3 DEF WalWriteAll
<1> QED BY <1>1, <1>2

\* What the file measures is what the counters say.
LEMMA ReopenKeeps ==
  ASSUME LayoutInv, WalReopen
  PROVE  block' = block /\ used' = used /\ files' = files /\ records' = records
<1>1. PICK b \in Nat, u \in Nat, B \in Nat, N \in Nat :
        /\ b = block /\ u = used /\ B = BlockSize /\ u < B /\ B > 0 /\ N = Len(files)
        /\ b * B + u = files[N].len
  <2>1. /\ block \in Nat /\ used \in Nat /\ used < BlockSize
        /\ block * BlockSize + used = files[Len(files)].len
    BY DEF LayoutInv, Layout
  <2>2. BlockSize \in Nat /\ BlockSize > 0
    BY Measures
  <2>3. Len(files) \in Nat
    BY LenProperties DEF LayoutInv, Layout
  <2> QED BY <2>1, <2>2, <2>3
<1>2. (b * B + u) \div B = b /\ (b * B + u) % B = u
  BY <1>1, DivModIs
<1>3. block' = files[N].len \div B /\ used' = files[N].len % B
  BY <1>1 DEF WalReopen
<1>4. files' = files /\ records' = records
  BY DEF WalReopen
<1>5. block' = b /\ used' = u
  BY <1>1, <1>2, <1>3
<1> QED BY <1>1, <1>4, <1>5

LEMMA LayoutStep == LayoutInv /\ [Next]_vars => LayoutInv'
<1> SUFFICES ASSUME LayoutInv, [Next]_vars PROVE LayoutInv'
  OBVIOUS
<1>1. CASE \E s \in Sizes : WalWrite(s)
  <2>1. PICK s \in Sizes : WalWrite(s)
    BY <1>1
  <2>2. <<s>> \in Seq(Sizes)
    OBVIOUS
  <2> QED BY <2>1, <2>2, WriteStores, StoreIs
<1>2. ASSUME NEW sizes \in Seq(Sizes), WalWriteAll(sizes) PROVE LayoutInv'
  BY <1>2, WriteAllStores, StoreIs
<1>3. CASE \E s, t \in Sizes : WalWriteAll(<<s>>) \/ WalWriteAll(<<s, t>>)
  <2>1. PICK s \in Sizes, t \in Sizes : WalWriteAll(<<s>>) \/ WalWriteAll(<<s, t>>)
    BY <1>3
  <2>2. <<s>> \in Seq(Sizes) /\ <<s, t>> \in Seq(Sizes)
    OBVIOUS
  <2> QED BY <1>2, <2>1, <2>2
<1>4. CASE OpenNewActiveSegment
  <2>1. /\ files' = Append(files, NewFile) /\ block' = 0 /\ used' = 0 /\ records' = records
    BY <1>4 DEF OpenNewActiveSegment
  <2> QED BY <2>1, RotateKeeps DEF LayoutInv
<1>5. CASE WalReopen
  BY <1>5, ReopenKeeps DEF LayoutInv
<1>6. CASE UNCHANGED vars
  BY <1>6 DEF vars, LayoutInv
<1> QED BY <1>1, <1>3, <1>4, <1>5, <1>6 DEF Next

LEMMA LayoutAlways == Spec => []LayoutInv
BY LayoutInit, LayoutStep, PTL DEF Spec

\* What the variables are.
LEMMA LayoutTypes ==
  ASSUME LayoutInv
  PROVE  /\ files \in Seq(FileSet) /\ Len(files) \in Nat /\ Len(files) > 0 /\ DOMAIN files = 1 .. Len(files)
         /\ records \in Seq(RecordSet) /\ Len(records) \in Nat /\ DOMAIN records = 1 .. Len(records)
         /\ \A s \in 1 .. Len(files) : files[s] \in FileSet /\ FileOK(files[s])
         /\ \A i \in 1 .. Len(records) : /\ records[i] \in RecordSet /\ records[i].seg \in 1 .. Len(files)
                                         /\ i < Len(records) => records[i].seg <= records[i + 1].seg
<1>1. /\ files \in Seq(FileSet) /\ Len(files) > 0 /\ records \in Seq(RecordSet)
      /\ \A s \in 1 .. Len(files) : FileOK(files[s])
      /\ \A i \in 1 .. Len(records) : /\ records[i].seg \in 1 .. Len(files)
                                      /\ i < Len(records) => records[i].seg <= records[i + 1].seg
  BY DEF LayoutInv, Layout
<1>2. /\ Len(files) \in Nat /\ DOMAIN files = 1 .. Len(files)
      /\ Len(records) \in Nat /\ DOMAIN records = 1 .. Len(records)
  BY <1>1, LenProperties
<1>3. \A s \in 1 .. Len(files) : files[s] \in FileSet
  BY <1>1, ElementOfSeq
<1>4. \A i \in 1 .. Len(records) : records[i] \in RecordSet
  BY <1>1, ElementOfSeq
<1> QED BY <1>1, <1>2, <1>3, <1>4

\* WalTypes: every variable is in its type (segment.go, wal.go).
THEOREM WalTypes == Spec => []TypeOK
<1>1. LayoutInv => TypeOK
  <2> SUFFICES ASSUME LayoutInv PROVE TypeOK
    OBVIOUS
  <2>1. block \in Nat /\ used \in 0 .. BlockSize - 1
    BY Measures DEF LayoutInv, Layout
  <2>2. \A s \in DOMAIN files : files[s].len \in Nat
    BY LayoutTypes DEF FileSet
  <2>3. \A i \in DOMAIN records : records[i].size \in Sizes /\ records[i].seg \in DOMAIN files
    BY LayoutTypes DEF RecordSet
  <2> QED BY <2>1, <2>2, <2>3 DEF TypeOK
<1> QED BY <1>1, LayoutAlways, PTL

\* CountersAgree: the counters of the writer are those that opening the file again
\* would give (openSegmentFile, segment.Size).
THEOREM CountersAgree == Spec => []CountersMatchFile
<1>1. LayoutInv => CountersMatchFile
  BY DEF LayoutInv, Layout, CountersMatchFile, Size
<1> QED BY <1>1, LayoutAlways, PTL

\* ChunksDoNotOverlap: a chunk stays within its block and no two chunks overlap
\* (writeToBuffer).
THEOREM ChunksDoNotOverlap == Spec => []ChunksApart
<1>1. LayoutInv => ChunksApart
  <2> SUFFICES ASSUME LayoutInv, NEW s \in DOMAIN files, NEW cs, cs = files[s].chunks,
                      NEW i \in DOMAIN cs, NEW j \in DOMAIN cs
               PROVE  /\ cs[i].offset + HeaderSize + cs[i].len <= BlockSize
                      /\ i # j /\ cs[i].block = cs[j].block =>
                           \/ cs[i].offset + HeaderSize + cs[i].len <= cs[j].offset
                           \/ cs[j].offset + HeaderSize + cs[j].len <= cs[i].offset
    BY DEF ChunksApart
  <2>1. Laid(cs)
    BY LayoutTypes DEF FileOK
  <2>2. cs \in Seq(ChunkSet) /\ Len(cs) \in Nat /\ DOMAIN cs = 1 .. Len(cs)
    BY <2>1, LenProperties DEF Laid
  <2>3. cs[i] \in ChunkSet /\ cs[j] \in ChunkSet
    BY <2>2, ElementOfSeq
  <2>4. End(cs[i]) <= BlockSize
    BY <2>1, <2>2 DEF Laid
  <2>5. \A k \in Nat : ~ (k < k)
    OBVIOUS
  <2>6. \A c \in ChunkSet : c.block \in Nat
    BY DEF ChunkSet
  <2>7. CASE i < j
    <3>1. Ahead(cs[i], cs[j])
      BY <2>1, <2>2, <2>7 DEF Laid
    <3> QED BY <2>3, <2>4, <2>5, <2>6, <3>1 DEF Ahead, End
  <2>8. CASE j < i
    <3>1. Ahead(cs[j], cs[i])
      BY <2>1, <2>2, <2>8 DEF Laid
    <3> QED BY <2>3, <2>4, <2>5, <2>6, <3>1 DEF Ahead, End
  <2>9. i < j \/ j < i \/ i = j
    BY <2>2
  <2> QED BY <2>4, <2>7, <2>8, <2>9 DEF End
<1> QED BY <1>1, LayoutAlways, PTL

\* WritersAreRead: the record at a position that a write returned is the one written
\* there, and the reader goes on where the writer did (writeToBuffer, readInternal).
THEOREM WritersAreRead == Spec => []ReadersMeetWriters
<1>1. LayoutInv => ReadersMeetWriters
  <2> SUFFICES ASSUME LayoutInv, NEW i \in DOMAIN records
               PROVE  LET r     == records[i]
                          f     == files[r.seg]
                          got   == ReadInternal(f, r.pos.block, r.pos.offset)
                          first == i = 1 \/ records[i - 1].seg # r.seg
                          last  == i = Len(records) \/ records[i + 1].seg # r.seg
                      IN  /\ first => r.pos = [block |-> 0, offset |-> 0]
                          /\ IsWhole(got.parts, i, r.size)
                          /\ IF last THEN ReadInternal(f, got.next.block, got.next.offset) = EOF
                                     ELSE got.next = records[i + 1].pos
    BY DEF ReadersMeetWriters
  <2>10. i \in 1 .. Len(records)
    BY LayoutTypes
  <2>11. PICK r, f, got : /\ r = records[i] /\ f = files[r.seg]
                          /\ got = ReadInternal(f, r.pos.block, r.pos.offset)
    OBVIOUS
  <2>1. /\ f \in FileSet /\ FileOK(f) /\ i \in Nat /\ r.size \in Nat /\ r.pos \in PlaceSet
    <3>1. r \in RecordSet /\ f \in FileSet /\ FileOK(f)
      BY <2>10, <2>11, LayoutTypes
    <3>2. r.size \in Sizes /\ r.pos \in PlaceSet
      BY <3>1 DEF RecordSet
    <3> QED BY <2>10, <3>1, <3>2, Measures
  <2>2. PICK nx \in PlaceSet : RecordOK(files, block, used, records, i, nx)
    BY <2>10 DEF LayoutInv, Layout
  <2>3. PICK p : CarriedBy(p, f.chunks, i, r.size, r.pos, nx)
    BY <2>2, <2>11 DEF RecordOK, Carried
  <2>4. got = [parts |-> p, eof |-> FALSE, next |-> nx] /\ IsWhole(p, i, r.size)
    <3>1. PICK size \in Nat, pos \in PlaceSet : size = r.size /\ pos = r.pos
      BY <2>1
    <3>2. CarriedBy(p, f.chunks, i, size, pos, nx)
      BY <2>3, <3>1
    <3>3. /\ ReadInternal(f, pos.block, pos.offset) = [parts |-> p, eof |-> FALSE, next |-> nx]
          /\ IsWhole(p, i, size)
      BY <2>1, <3>2, ReadIs, SMTT(30)
    <3> QED BY <2>11, <3>1, <3>3
  <2>5. got.parts = p /\ got.next = nx
    BY <2>4
  <2>6. i = 1 \/ records[i - 1].seg # r.seg => r.pos = [block |-> 0, offset |-> 0]
    BY <2>10, <2>11 DEF LayoutInv, Layout
  <2>7. Followed(records, i) <=> ~ (i = Len(records) \/ records[i + 1].seg # r.seg)
    BY <2>10, <2>11, LayoutTypes DEF Followed
  <2>8. CASE Followed(records, i)
    BY <2>2, <2>4, <2>5, <2>6, <2>7, <2>8, <2>11 DEF RecordOK
  <2>9. CASE ~ Followed(records, i)
    <3>1. nx.block * BlockSize + nx.offset >= f.len
      BY <2>2, <2>9, <2>11 DEF RecordOK
    <3>2. ReadInternal(f, nx.block, nx.offset) = EOF
      BY <3>1 DEF ReadInternal
    <3> QED BY <2>4, <2>5, <2>6, <2>7, <2>9, <2>11, <3>2
  <2> QED BY <2>8, <2>9
<1> QED BY <1>1, LayoutAlways, PTL

-----------------------------------------------------------------------------
(* How long a segment gets *)

\* The bound on the segment of record i.
IsFirst(rs, i) == i = 1 \/ rs[i - 1].seg # rs[i].seg
Excess(rs, i) ==
  IF IsFirst(rs, i) THEN (Headers(rs[i].size) - 1) * HeaderSize
                    ELSE Unforeseen(rs[i].size) + Unforeseen(rs[i - 1].size)
Bounded(fs, rs, i) == ~ Followed(rs, i) => fs[rs[i].seg].len <= SegmentSize + Excess(rs, i)

LEMMA BoundedIs ==
  ASSUME NEW fs, NEW rs, rs \in Seq(RecordSet)
  PROVE  (\A i \in DOMAIN rs :
            LET r      == rs[i]
                first  == i = 1 \/ rs[i - 1].seg # r.seg
                last   == i = Len(rs) \/ rs[i + 1].seg # r.seg
                before == IF first THEN 0 ELSE Unforeseen(rs[i - 1].size)
                excess == IF first THEN (Headers(r.size) - 1) * HeaderSize
                                   ELSE Unforeseen(r.size) + before
            IN  last => fs[r.seg].len <= SegmentSize + excess)
         <=> \A i \in DOMAIN rs : Bounded(fs, rs, i)
<1>1. ASSUME NEW i \in DOMAIN rs
      PROVE  (LET r      == rs[i]
                  first  == i = 1 \/ rs[i - 1].seg # r.seg
                  last   == i = Len(rs) \/ rs[i + 1].seg # r.seg
                  before == IF first THEN 0 ELSE Unforeseen(rs[i - 1].size)
                  excess == IF first THEN (Headers(r.size) - 1) * HeaderSize
                                     ELSE Unforeseen(r.size) + before
              IN  last => fs[r.seg].len <= SegmentSize + excess)
             <=> Bounded(fs, rs, i)
  <2>1. i \in 1 .. Len(rs) /\ Len(rs) \in Nat
    BY LenProperties
  <2>2. Followed(rs, i) <=> ~ (i = Len(rs) \/ rs[i + 1].seg # rs[i].seg)
    BY <2>1 DEF Followed
  <2>3. CASE IsFirst(rs, i)
    BY <2>2, <2>3 DEF Bounded, Excess, IsFirst
  <2>4. CASE ~ IsFirst(rs, i)
    BY <2>2, <2>4 DEF Bounded, Excess, IsFirst
  <2> QED BY <2>3, <2>4
<1> QED BY <1>1

\* The records of a Store are behind those that were there, which stay as they are.
StoredBehind(fs, buf, sizes, rotate, R, n, N) ==
  /\ R \in Nat /\ n \in Nat /\ N \in Nat /\ Len(records') = R + n
  /\ records' \in Seq(RecordSet) /\ DOMAIN records' = 1 .. R + n
  /\ \A i \in 1 .. R : records'[i] = records[i]
  /\ \A j \in 1 .. n : records'[R + j].size = sizes[j] /\ records'[R + j].seg = N
  /\ rotate => N = Len(files) + 1 /\ fs[N].len = 0
  /\ ~ rotate => N = Len(files) /\ fs[N].len = Size
  /\ fs[N].len \in Nat /\ buf.len \in Nat
  /\ files'[N].len = fs[N].len + buf.len
  /\ \A s \in 1 .. Len(files) : s # N => files'[s] = files[s]

LEMMA StoreRecords ==
  ASSUME LayoutInv, NEW sizes \in Seq(Sizes), NEW rotate \in BOOLEAN,
         NEW fs, NEW b, NEW u, NEW buf, Stored(fs, b, u, buf, sizes, rotate),
         NEW R, R = Len(records), NEW n, n = Len(sizes), NEW N, N = Len(fs)
  PROVE  StoredBehind(fs, buf, sizes, rotate, R, n, N)
<1>1. /\ records \in Seq(RecordSet) /\ files \in Seq(FileSet) /\ Len(files) \in Nat /\ Len(files) > 0
      /\ R \in Nat /\ n \in Nat
  BY LayoutTypes, LenProperties
<1>2. /\ fs = IF rotate THEN Append(files, NewFile) ELSE files
      /\ buf = FillBuffer(b, u, Len(records) + 1, sizes) /\ Layout(fs, b, u, records)
      /\ files' = Extended(fs, buf.chunks, buf.len)
      /\ records' = records \o Noted(sizes, N, buf.pos, n)
  BY DEF Stored
<1>3. IsBuffer(buf) /\ Len(buf.pos) = n
  BY <1>2, BatchKeeps
<1>4. PICK q : q = Noted(sizes, N, buf.pos, n)
  OBVIOUS
<1>5. fs \in Seq(FileSet) /\ N \in Nat /\ N > 0 /\ DOMAIN fs = 1 .. N
  BY <1>2, LenProperties DEF Layout
<1>6. q \in Seq(RecordSet) /\ Len(q) = n
  <2>1. ASSUME NEW j \in 1 .. n PROVE [size |-> sizes[j], seg |-> N, pos |-> buf.pos[j]] \in RecordSet
    <3>1. buf.pos \in Seq(PlaceSet) /\ j \in 1 .. Len(buf.pos)
      BY <1>3 DEF IsBuffer
    <3>2. buf.pos[j] \in PlaceSet /\ sizes[j] \in Sizes
      BY <3>1, ElementOfSeq
    <3> QED BY <1>5, <3>2 DEF RecordSet
  <2>2. q \in [1 .. n -> RecordSet]
    BY <1>4, <2>1 DEF Noted
  <2>3. n \in Nat /\ DOMAIN q = 1 .. n
    BY <1>1, <1>4 DEF Noted
  <2>4. q \in Seq(RecordSet)
    BY <2>2, <2>3
  <2> QED BY <2>3, <2>4, LenProperties
<1>7. \A j \in 1 .. n : q[j].size = sizes[j] /\ q[j].seg = N
  BY <1>4 DEF Noted
<1>8. /\ records' \in Seq(RecordSet) /\ Len(records') = R + n
      /\ \A i \in 1 .. R + n : records'[i] = IF i <= R THEN records[i] ELSE q[i - R]
  <2>1. records' = records \o q
    BY <1>2, <1>4
  <2>2. PICK rs \in Seq(RecordSet) : rs = records /\ Len(rs) = R
    BY <1>1
  <2>3. /\ rs \o q \in Seq(RecordSet) /\ Len(rs \o q) = Len(rs) + Len(q)
        /\ \A i \in 1 .. Len(rs) + Len(q) :
             (rs \o q)[i] = IF i <= Len(rs) THEN rs[i] ELSE q[i - Len(rs)]
    BY <1>6, ConcatProperties
  <2>4. /\ rs \o q \in Seq(RecordSet) /\ Len(rs \o q) = R + n
        /\ \A i \in 1 .. R + n : (rs \o q)[i] = IF i <= R THEN rs[i] ELSE q[i - R]
    BY <1>6, <2>2, <2>3, Zenon
  <2> QED BY <2>1, <2>2, <2>4
<1>9. /\ DOMAIN records' = 1 .. R + n
      /\ \A i \in 1 .. R : records'[i] = records[i]
  BY <1>1, <1>8, LenProperties
<1>10. \A j \in 1 .. n : records'[R + j].size = sizes[j] /\ records'[R + j].seg = N
  <2>1. ASSUME NEW j \in 1 .. n PROVE records'[R + j] = q[j]
    <3>1. R + j \in 1 .. R + n /\ ~ (R + j <= R) /\ (R + j) - R = j
      BY <1>1
    <3> QED BY <1>8, <3>1
  <2> QED BY <1>7, <2>1
<1>11. fs[N] \in FileSet /\ fs[N].len \in Nat
  <2>1. fs[N] \in FileSet
    BY <1>5, ElementOfSeq
  <2> QED BY <2>1 DEF FileSet
<1>12. files'[N].len = fs[N].len + buf.len
  BY <1>2, <1>5 DEF Extended
<1>13. \A s \in 1 .. N : s # N => files'[s] = fs[s]
  BY <1>2, <1>5 DEF Extended
<1>14. buf.len \in Nat
  BY <1>3 DEF IsBuffer
<1>15. CASE rotate
  <2>1. NewFile \in FileSet /\ NewFile.len = 0
    <3>1. <<>> \in Seq(ChunkSet)
      OBVIOUS
    <3> QED BY <3>1 DEF NewFile, FileSet
  <2>2. fs = Append(files, NewFile)
    BY <1>2, <1>15
  <2>3. N = Len(files) + 1 /\ fs[N] = NewFile /\ \A s \in 1 .. Len(files) : fs[s] = files[s]
    BY <1>1, <2>1, <2>2, AppendProperties
  <2>4. \A s \in 1 .. Len(files) : s \in 1 .. N
    BY <1>1, <2>3
  <2>5. \A s \in 1 .. Len(files) : s # N => files'[s] = files[s]
    BY <1>13, <2>3, <2>4
  <2> QED BY <1>1, <1>5, <1>8, <1>9, <1>10, <1>11, <1>12, <1>14, <1>15, <2>1, <2>3, <2>5 DEF StoredBehind
<1>16. CASE ~ rotate
  <2>1. fs = files /\ N = Len(files)
    BY <1>2, <1>16
  <2>2. fs[N].len = Size
    BY <2>1 DEF LayoutInv, Layout, Size
  <2> QED BY <1>1, <1>5, <1>8, <1>9, <1>10, <1>11, <1>12, <1>13, <1>14, <1>16, <2>1, <2>2 DEF StoredBehind
<1> QED BY <1>15, <1>16

\* A Store that has room for what maxDataWriteSize foresees keeps the bound.
LEMMA StoreBounded ==
  ASSUME LayoutInv, SegmentsBounded, NEW sizes \in Seq(Sizes), NEW rotate \in BOOLEAN,
         Store(sizes, rotate), Len(sizes) \in {1, 2},
         PendingSize(sizes) <= SegmentSize \/ Len(sizes) = 1,
         ~ rotate => ~ (Size + PendingSize(sizes) > SegmentSize),
         Len(sizes) = 1 => sizes[1] + HeaderSize <= SegmentSize
  PROVE  SegmentsBounded'
<1>1. PICK fs, b, u, buf : Stored(fs, b, u, buf, sizes, rotate)
  BY StoreIs
<1>2. \A i \in DOMAIN records : Bounded(files, records, i)
  BY LayoutTypes, BoundedIs DEF SegmentsBounded
<1>3. PICK R, n, N : R = Len(records) /\ n = Len(sizes) /\ N = Len(fs)
  OBVIOUS
<1>10. n \in {1, 2}
  BY <1>3
<1>11. StoredBehind(fs, buf, sizes, rotate, R, n, N)
  BY <1>1, <1>3, StoreRecords, Zenon
<1>4. /\ R \in Nat /\ n \in Nat /\ N \in Nat /\ Len(records') = R + n
      /\ records' \in Seq(RecordSet) /\ DOMAIN records' = 1 .. R + n
      /\ \A i \in 1 .. R : records'[i] = records[i]
      /\ \A j \in 1 .. n : records'[R + j].size = sizes[j] /\ records'[R + j].seg = N
      /\ rotate => N = Len(files) + 1 /\ fs[N].len = 0
      /\ ~ rotate => N = Len(files) /\ fs[N].len = Size
      /\ fs[N].len \in Nat /\ buf.len \in Nat
      /\ files'[N].len = fs[N].len + buf.len
      /\ \A s \in 1 .. Len(files) : s # N => files'[s] = files[s]
  BY <1>11 DEF StoredBehind
<1>5. \A j \in 1 .. n : /\ sizes[j] \in Nat /\ sizes[j] > 0
                        /\ MaxDataWriteSize(sizes[j]) \in Nat /\ Unforeseen(sizes[j]) \in Nat
                        /\ Headers(sizes[j]) \in Nat /\ Headers(sizes[j]) > 0
  <2>1. ASSUME NEW j \in 1 .. n PROVE sizes[j] \in Nat /\ sizes[j] > 0
    <3>1. sizes[j] \in Sizes
      BY <1>3, ElementOfSeq
    <3> QED BY <3>1, Measures
  <2> QED BY <2>1, SizesAre
<1>6. /\ b \in Nat /\ u \in Nat /\ u < BlockSize /\ buf = FillBuffer(b, u, R + 1, sizes)
      /\ Layout(fs, b, u, records) /\ R + 1 \in Nat
  <2>1. Layout(fs, b, u, records) /\ buf = FillBuffer(b, u, R + 1, sizes)
    BY <1>1, <1>3 DEF Stored
  <2> QED BY <1>4, <2>1 DEF Layout
<1>7. ASSUME NEW i \in 1 .. R PROVE Bounded(files', records', i)
  <2>1. SUFFICES ASSUME ~ Followed(records', i)
                 PROVE  files'[records'[i].seg].len <= SegmentSize + Excess(records', i)
    BY DEF Bounded
  <2>2. PICK s \in 1 .. Len(files) : s = records[i].seg /\ records'[i].seg = s
    BY <1>3, <1>4, LayoutTypes
  <2>3. CASE i = R
    <3>1. i + 1 = R + 1 /\ i < R + n /\ 1 \in 1 .. n
      BY <1>4, <1>10, <2>3
    <3>2. records'[i + 1].seg = N
      BY <1>4, <3>1
    <3>3. s # N
      BY <1>4, <2>1, <2>2, <3>1, <3>2 DEF Followed
    <3>4. ~ Followed(records, i)
      BY <1>3, <1>4, <2>3 DEF Followed
    <3>5. Bounded(files, records, i)
      BY <1>2, <1>3, LayoutTypes
    <3>6. Excess(records', i) = Excess(records, i)
      <4>1. i # 1 => i - 1 \in 1 .. R
        BY <1>4
      <4> QED BY <1>4, <4>1 DEF Excess, IsFirst
    <3> QED BY <1>4, <2>2, <3>3, <3>4, <3>5, <3>6 DEF Bounded
  <2>4. CASE i # R
    <3>1. i + 1 \in 1 .. R /\ i < R /\ i < R + n
      <4>1. R \in Nat /\ n \in Nat /\ n > 0
        BY <1>4, <1>10
      <4> QED BY <2>4, <4>1
    <3>2. ~ Followed(records, i)
      BY <1>4, <2>1, <3>1 DEF Followed
    <3>3. records[i + 1].seg # s
      BY <1>3, <2>2, <3>1, <3>2 DEF Followed
    <3>4. records[i + 1].seg \in 1 .. Len(files) /\ s <= records[i + 1].seg
      BY <1>3, <2>2, <3>1, LayoutTypes
    <3>5. s # N
      <4>1. PICK L \in Nat, k \in Nat : L = Len(files) /\ k = records[i + 1].seg /\ k <= L
        <5>1. Len(files) \in Nat
          BY LayoutTypes
        <5> QED BY <3>4, <5>1
      <4>2. s \in 1 .. L /\ s <= k /\ k # s
        BY <2>2, <3>3, <3>4, <4>1
      <4>3. s < L
        BY <4>1, <4>2
      <4>4. N = L \/ N = L + 1
        BY <1>4, <4>1
      <4> QED BY <4>3, <4>4
    <3>6. Bounded(files, records, i)
      BY <1>2, <1>3, LayoutTypes
    <3>7. Excess(records', i) = Excess(records, i)
      <4>1. i # 1 => i - 1 \in 1 .. R
        BY <1>4
      <4> QED BY <1>4, <4>1 DEF Excess, IsFirst
    <3> QED BY <1>4, <2>2, <3>2, <3>5, <3>6, <3>7 DEF Bounded
  <2> QED BY <2>3, <2>4
<1>8. CASE n = 1
  <2>1. PICK size \in Nat, w \in Nat, x \in Nat, h \in Nat, k \in Nat :
          /\ size = sizes[1] /\ w = MaxDataWriteSize(size) /\ x = Unforeseen(size)
          /\ h = Headers(size) /\ h > 0 /\ k = h - 1 /\ h = k + 1 /\ size > 0
    <3>1. 1 \in 1 .. n
      BY <1>8
    <3>2. PICK h \in Nat : h = Headers(sizes[1]) /\ h > 0
      BY <1>5, <3>1
    <3>3. PICK k \in Nat : k = h - 1 /\ h = k + 1
      <4>1. h - 1 \in Nat /\ h = (h - 1) + 1
        BY <3>2
      <4> QED BY <4>1
    <3> QED BY <1>5, <3>1, <3>2, <3>3
  <2>2. PICK hh \in Nat, kh \in Nat : hh = h * HeaderSize /\ kh = k * HeaderSize /\ hh = kh + HeaderSize
    <3>1. h * HeaderSize = k * HeaderSize + HeaderSize
      BY <2>1, Measures, Times
    <3>2. h * HeaderSize \in Nat /\ k * HeaderSize \in Nat
      BY Measures
    <3> QED BY <3>1, <3>2
  <2>3. buf.len <= w + x /\ (u = 0 => buf.len <= size + hh)
    <3>1. Len(sizes) = 1 /\ b \in Nat /\ u \in Nat /\ u < BlockSize /\ R + 1 \in Nat
      BY <1>3, <1>6, <1>8
    <3>2. /\ buf.len <= MaxDataWriteSize(sizes[1]) + Unforeseen(sizes[1])
          /\ u = 0 => buf.len <= sizes[1] + Headers(sizes[1]) * HeaderSize
      BY <1>6, <3>1, BatchAdds, SMTT(30)
    <3> QED BY <2>1, <2>2, <3>2
  <2>4. PICK old \in Nat, add \in Nat, S \in Nat, H \in Nat :
          old = fs[N].len /\ add = buf.len /\ S = SegmentSize /\ H = HeaderSize
    BY <1>4, Measures
  <2>5. PendingSize(sizes) = w
    BY <1>3, <1>8, <2>1, PendingIs
  <2>6. records'[R + 1].size = size /\ records'[R + 1].seg = N /\ files'[N].len = old + add
    <3>1. 1 \in 1 .. n
      BY <1>8
    <3> QED BY <1>4, <2>1, <2>4, <3>1
  <2>7. size + H <= S
    BY <1>3, <1>8, <2>1, <2>4
  <2>8. ASSUME IsFirst(records', R + 1) PROVE Bounded(files', records', R + 1)
    <3>1. records = <<>> \/ records[R].seg # N
      <4>1. CASE R = 0
        BY <1>3, <4>1, LayoutTypes, EmptySeq
      <4>2. CASE R # 0
        <5>1. R + 1 # 1 /\ (R + 1) - 1 = R /\ R \in 1 .. R
          BY <1>4, <4>2
        <5> QED BY <1>4, <2>6, <2>8, <5>1 DEF IsFirst
      <4> QED BY <4>1, <4>2
    <3>2. b = 0 /\ u = 0
      BY <1>3, <1>6, <3>1 DEF Layout
    <3>3. old = 0
      <4>1. b * BlockSize + u = fs[N].len
        BY <1>3, <1>6 DEF Layout
      <4>2. 0 * BlockSize + 0 = 0
        BY Measures
      <4> QED BY <2>4, <3>2, <4>1, <4>2
    <3>4. add <= size + hh
      BY <2>3, <2>4, <3>2
    <3>5. old + add <= S + kh
      <4>1. hh = kh + H
        BY <2>2, <2>4
      <4> QED BY <2>7, <3>3, <3>4, <4>1
    <3>6. Excess(records', R + 1) = kh
      BY <2>1, <2>2, <2>6, <2>8 DEF Excess
    <3> QED BY <2>4, <2>6, <3>5, <3>6 DEF Bounded
  <2>9. ASSUME ~ IsFirst(records', R + 1) PROVE Bounded(files', records', R + 1)
    <3>1. R # 0 /\ R \in 1 .. R /\ (R + 1) - 1 = R /\ records[R].seg = N
      <4>1. R # 0 /\ (R + 1) - 1 = R
        BY <1>4, <2>9 DEF IsFirst
      <4>2. R \in 1 .. R
        BY <1>4, <4>1
      <4> QED BY <1>4, <2>6, <2>9, <4>1, <4>2 DEF IsFirst
    <3>2. ~ rotate
      <4>1. records[R].seg \in 1 .. Len(files) /\ Len(files) \in Nat
        BY <1>3, <3>1, LayoutTypes
      <4> QED BY <1>4, <3>1, <4>1
    <3>3. old + w <= S
      BY <1>4, <2>4, <2>5, <3>2
    <3>4. PICK y \in Nat : y = Unforeseen(records[R].size)
      <4>1. records[R].size \in Sizes
        BY <1>3, <3>1, LayoutTypes DEF RecordSet
      <4> QED BY <4>1, Measures, SizesAre
    <3>5. old + add <= S + (x + y)
      BY <2>3, <2>4, <3>3
    <3>6. Excess(records', R + 1) = x + y
      BY <1>4, <2>1, <2>6, <2>9, <3>1, <3>4 DEF Excess
    <3> QED BY <2>4, <2>6, <3>5, <3>6 DEF Bounded
  <2>10. Bounded(files', records', R + 1)
    BY <2>8, <2>9
  <2>11. \A i \in 1 .. R + n : i \in 1 .. R \/ i = R + 1
    BY <1>4, <1>8
  <2>12. \A i \in DOMAIN records' : Bounded(files', records', i)
    BY <1>4, <1>7, <2>10, <2>11
  <2> QED BY <1>4, <2>12, BoundedIs DEF SegmentsBounded
<1>9. CASE n = 2
  <2>1. 1 \in 1 .. n /\ 2 \in 1 .. n
    BY <1>9
  <2>2. PICK w \in Nat, x \in Nat, v \in Nat, y \in Nat :
          /\ w = MaxDataWriteSize(sizes[1]) /\ x = Unforeseen(sizes[1])
          /\ v = MaxDataWriteSize(sizes[2]) /\ y = Unforeseen(sizes[2])
    BY <1>5, <2>1
  <2>3. PICK old \in Nat, add \in Nat, S \in Nat :
          old = fs[N].len /\ add = buf.len /\ S = SegmentSize
    BY <1>4, Measures
  <2>4. add <= (w + x) + (v + y)
    BY <1>3, <1>6, <1>9, <2>2, <2>3, BatchAdds
  <2>5. PendingSize(sizes) = w + v
    BY <1>3, <1>9, <2>2, PendingIs
  <2>6. old + (w + v) <= S
    <3>1. CASE rotate
      BY <1>3, <1>4, <1>9, <2>3, <2>5, <3>1
    <3>2. CASE ~ rotate
      BY <1>4, <2>3, <2>5, <3>2
    <3> QED BY <3>1, <3>2
  <2>7. /\ records'[R + 1].size = sizes[1] /\ records'[R + 1].seg = N
        /\ records'[R + 2].size = sizes[2] /\ records'[R + 2].seg = N
        /\ files'[N].len = old + add
    BY <1>4, <2>1, <2>3
  <2>8. Bounded(files', records', R + 2)
    <3>1. (R + 2) - 1 = R + 1 /\ R + 2 # 1
      BY <1>4
    <3>2. ~ IsFirst(records', R + 2)
      BY <2>7, <3>1 DEF IsFirst
    <3>3. Excess(records', R + 2) = y + x
      BY <2>2, <2>7, <3>1, <3>2 DEF Excess
    <3>4. old + add <= S + (y + x)
      BY <2>4, <2>6
    <3> QED BY <2>3, <2>7, <3>3, <3>4 DEF Bounded
  <2>9. Bounded(files', records', R + 1)
    <3>1. R + 1 < R + 2 /\ (R + 1) + 1 = R + 2
      BY <1>4
    <3>2. Followed(records', R + 1)
      BY <1>4, <1>9, <2>7, <3>1 DEF Followed
    <3> QED BY <3>2 DEF Bounded
  <2>10. \A i \in 1 .. R + n : i \in 1 .. R \/ i = R + 1 \/ i = R + 2
    BY <1>4, <1>9
  <2>11. \A i \in DOMAIN records' : Bounded(files', records', i)
    BY <1>4, <1>7, <2>8, <2>9, <2>10
  <2> QED BY <1>4, <2>11, BoundedIs DEF SegmentsBounded
<1> QED BY <1>8, <1>9, <1>10

LEMMA BoundedStep == LayoutInv /\ SegmentsBounded /\ [Next]_vars => SegmentsBounded'
<1> SUFFICES ASSUME LayoutInv, SegmentsBounded, [Next]_vars PROVE SegmentsBounded'
  OBVIOUS
<1>1. \A size \in Sizes : Len(<<size>>) = 1 /\ <<size>>[1] = size /\ <<size>> \in Seq(Sizes)
  OBVIOUS
<1>2. \A size \in Sizes : PendingSize(<<size>>) = MaxDataWriteSize(size)
  BY <1>1, PendingIs
<1>3. \A size \in Sizes : size \in Nat /\ size + HeaderSize <= MaxDataWriteSize(size)
                           /\ MaxDataWriteSize(size) \in Nat
  BY Measures, SizesAre
<1>4. ASSUME NEW size \in Sizes, WalWrite(size) PROVE SegmentsBounded'
  <2>1. /\ size + HeaderSize <= SegmentSize
        /\ \E rotate \in BOOLEAN : /\ Store(<<size>>, rotate)
                                   /\ ~ rotate => ~ (Size + MaxDataWriteSize(size) > SegmentSize)
    BY <1>4, WriteStores
  <2> QED BY <1>1, <1>2, <2>1, StoreBounded
<1>5. ASSUME NEW size \in Sizes, WalWriteAll(<<size>>) PROVE SegmentsBounded'
  <2>1. /\ PendingSize(<<size>>) <= SegmentSize
        /\ \E rotate \in BOOLEAN : /\ Store(<<size>>, rotate)
                                   /\ ~ rotate => ~ (Size + PendingSize(<<size>>) > SegmentSize)
    BY <1>5, WriteAllStores
  <2>2. size + HeaderSize <= SegmentSize
    BY <1>2, <1>3, <2>1, Measures
  <2> QED BY <1>1, <2>1, <2>2, StoreBounded
<1>6. ASSUME NEW s \in Sizes, NEW t \in Sizes, WalWriteAll(<<s, t>>) PROVE SegmentsBounded'
  <2>1. /\ PendingSize(<<s, t>>) <= SegmentSize
        /\ \E rotate \in BOOLEAN : /\ Store(<<s, t>>, rotate)
                                   /\ ~ rotate => ~ (Size + PendingSize(<<s, t>>) > SegmentSize)
    BY <1>6, WriteAllStores
  <2>2. <<s, t>> \in Seq(Sizes) /\ Len(<<s, t>>) = 2
    OBVIOUS
  <2>3. PICK rotate \in BOOLEAN : /\ Store(<<s, t>>, rotate)
                                  /\ ~ rotate => ~ (Size + PendingSize(<<s, t>>) > SegmentSize)
    BY <2>1
  <2>4. Len(<<s, t>>) \in {1, 2} /\ Len(<<s, t>>) # 1
    BY <2>2
  <2> QED BY <2>1, <2>2, <2>3, <2>4, StoreBounded, Zenon
<1>7. CASE OpenNewActiveSegment
  <2>1. files' = Append(files, NewFile) /\ records' = records
    BY <1>7 DEF OpenNewActiveSegment
  <2>2. \A i \in DOMAIN records : Bounded(files, records, i)
    BY LayoutTypes, BoundedIs DEF SegmentsBounded
  <2>3. NewFile \in FileSet
    <3>1. <<>> \in Seq(ChunkSet)
      OBVIOUS
    <3> QED BY <3>1 DEF NewFile, FileSet
  <2>4. \A s \in 1 .. Len(files) : files'[s] = files[s]
    BY <2>1, <2>3, LayoutTypes, AppendProperties
  <2>5. \A i \in DOMAIN records' : Bounded(files', records', i)
    BY <2>1, <2>2, <2>4, LayoutTypes DEF Bounded
  <2>6. records' \in Seq(RecordSet)
    BY <2>1, LayoutTypes
  <2> QED BY <2>5, <2>6, BoundedIs DEF SegmentsBounded
<1>8. CASE WalReopen
  BY <1>8, ReopenKeeps DEF SegmentsBounded
<1>9. CASE UNCHANGED vars
  BY <1>9 DEF vars, SegmentsBounded
<1> QED BY <1>4, <1>5, <1>6, <1>7, <1>8, <1>9 DEF Next

\* SegmentsStayBounded: a segment file outgrows SegmentSize by the headers that
\* maxDataWriteSize does not foresee, those of its last records, and no more (isFull).
THEOREM SegmentsStayBounded == Spec => []SegmentsBounded
<1>1. Init => SegmentsBounded
  BY DEF Init, SegmentsBounded
<1>2. LayoutInv /\ SegmentsBounded /\ [Next]_vars => SegmentsBounded'
  BY BoundedStep
<1> QED BY <1>1, <1>2, LayoutAlways, PTL DEF Spec
=====
