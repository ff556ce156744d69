------------------------------ MODULE WalSegment ------------------------------
(***************************************************************************)
(* How the write-ahead log lays records out: a record is cut into chunks   *)
(* with headers, a chunk stays within a block, the end of a block that     *)
(* cannot hold a chunk is padded, and a segment file that has no room for  *)
(* the record is followed by a new one.  The writer computes positions     *)
(* from counters, Open computes the counters from the file's size, and the *)
(* reader computes positions from the chunks it meets: all three agree.    *)
(*                                                                         *)
(* Bytes are counted and not stored: a chunk names its record and the part *)
(* of it that it carries, and a place where no chunk starts fails its      *)
(* checksum.  What is forced to the device, and when, is in Diskv.         *)
(***************************************************************************)
EXTENDS Naturals, Sequences, SequencesExt

CONSTANTS
  BlockSize, HeaderSize,   \* blockSize (32KB) and chunkHeaderSize (7)
  SegmentSize,             \* Options.SegmentSize
  Sizes,                   \* sizes of the records written
  MaxRecords,              \* bound: records written
  MaxFiles                 \* bound: segment files at which a merge rotates no more

ASSUME WalSegmentAssumption ==
  /\ HeaderSize \in Nat \ {0} /\ BlockSize \in Nat /\ BlockSize > 2 * HeaderSize
  /\ SegmentSize \in Nat
  /\ Sizes \subseteq Nat \ {0} /\ MaxRecords \in Nat /\ MaxFiles \in Nat

VARIABLES
  files,       \* chunks and length of every segment file, the last one active
  block,       \* activeSegment.currentBlockNumber
  used,        \* activeSegment.currentBlockSize
  records      \* history: size of every record, and the position returned for it

vars == <<files, block, used, records>>

-----------------------------------------------------------------------------
(* Cutting a record into chunks *)

\* writeToBuffer pads a block that has no room for a header and a byte.
Padding(u) == IF u + HeaderSize >= BlockSize /\ u < BlockSize THEN BlockSize - u
                                                              ELSE 0

ChunkType(left, size, len) ==
  CASE left = size -> "first"
    [] left # size /\ left = len -> "last"
    [] OTHER -> "middle"

\* One turn of the loop that cuts record r: c has the chunks so far, the place
\* behind them, and how much of the record is left.
Cut(c, r, size) ==
  LET room == BlockSize - c.used - HeaderSize
      len  == IF room > c.left THEN c.left ELSE room
      end  == c.used + HeaderSize + len
  IN  IF c.left = 0 THEN c
      ELSE [chunks |-> Append(c.chunks,
              [block |-> c.block, offset |-> c.used, len |-> len, rec |-> r,
               from |-> size - c.left, type |-> ChunkType(c.left, size, len)]),
            block |-> c.block + end \div BlockSize,
            used  |-> end % BlockSize,
            left  |-> c.left - len]

\* The chunks of record r, of the given size, from byte u of block b on.
ChunksFrom(r, size, b, u) ==
  LET cut[i \in 0 .. size] ==   \* after i turns
        IF i = 0 THEN [chunks |-> <<>>, block |-> b, used |-> u, left |-> size]
                 ELSE Cut(cut[i - 1], r, size)
  IN  cut[size].chunks

\* Mutant of Fits: a chunk is measured without its header.
FitsWithoutHeader(size, u) == u + size <= BlockSize

\* A record of this size fits into what is left of the block after byte u.
Fits(size, u) == u + size + HeaderSize <= BlockSize

\* One whole chunk, or as many as it takes.
Chunks(r, size, b, u) ==
  IF Fits(size, u)
    THEN <<[block |-> b, offset |-> u, len |-> size, rec |-> r, from |-> 0,
            type |-> "full"]>>
    ELSE ChunksFrom(r, size, b, u)

\* A buffer that is being filled for the active segment: chunks, the counters,
\* how much longer the file gets, and the positions handed out.
Buffer(b, u) == [chunks |-> <<>>, block |-> b, used |-> u, len |-> 0, pos |-> <<>>]

\* Mutant of Place: a block that is exactly full is not left behind.
PlaceFull(b, end) ==
  [block |-> IF end > BlockSize THEN b + end \div BlockSize ELSE b,
   offset |-> IF end > BlockSize THEN end % BlockSize ELSE end]

\* Mutant of Place: a record moves the writer one block on at most.
PlaceOneBlock(b, end) ==
  [block |-> IF end >= BlockSize THEN b + 1 ELSE b, offset |-> end % BlockSize]

\* The counters of a segment that ends that many bytes after the start of block b.
Place(b, end) == [block |-> b + end \div BlockSize, offset |-> end % BlockSize]

\* writeToBuffer: record r behind what the buffer holds.
WriteToBuffer(buf, r, size) ==
  LET pad    == Padding(buf.used)
      b      == IF pad > 0 THEN buf.block + 1 ELSE buf.block
      u      == IF pad > 0 THEN 0 ELSE buf.used
      chunks == Chunks(r, size, b, u)
      bytes  == Len(chunks) * HeaderSize + size
      place  == Place(b, u + bytes)
  IN  [chunks |-> buf.chunks \o chunks,
       block  |-> place.block,
       used   |-> place.offset,
       len    |-> buf.len + pad + bytes,
       pos    |-> Append(buf.pos, [block |-> b, offset |-> u])]

\* writeToBuffer for every record of a batch, the first of them numbered r.
FillBuffer(b, u, r, sizes) ==
  LET fill[i \in 0 .. Len(sizes)] ==
        IF i = 0 THEN Buffer(b, u) ELSE WriteToBuffer(fill[i - 1], r + i - 1, sizes[i])
  IN  fill[Len(sizes)]

-----------------------------------------------------------------------------
Init ==
  /\ files = <<[chunks |-> <<>>, len |-> 0]>>
  /\ block = 0 /\ used = 0
  /\ records = <<>>

\* segment.Size.
Size == block * BlockSize + used

\* Mutant of MaxDataWriteSize: the padding before a record is forgotten.
MaxDataWriteSizeUnpadded(size) == size + (size \div BlockSize + 1) * HeaderSize

\* maxDataWriteSize.
MaxDataWriteSize(size) ==
  HeaderSize + size + (size \div BlockSize + 1) * HeaderSize

NewFile == [chunks |-> <<>>, len |-> 0]

\* The records are written to the active segment, after a rotation if rotate.
Store(sizes, rotate) ==
  LET fs  == IF rotate THEN Append(files, NewFile) ELSE files
      buf == FillBuffer(IF rotate THEN 0 ELSE block, IF rotate THEN 0 ELSE used,
                        Len(records) + 1, sizes)
  IN
  /\ Len(records) + Len(sizes) <= MaxRecords
  /\ files' = [fs EXCEPT ![Len(fs)] = [chunks |-> @.chunks \o buf.chunks,
                                       len    |-> @.len + buf.len]]
  /\ block' = buf.block /\ used' = buf.used
  /\ records' = records \o [i \in 1 .. Len(sizes) |->
                              [size |-> sizes[i], seg |-> Len(fs),
                               pos |-> buf.pos[i]]]

\* WAL.Write, rotating first when isFull.
WalWrite(size) ==
  /\ size + HeaderSize <= SegmentSize
  /\ Store(<<size>>, Size + MaxDataWriteSize(size) > SegmentSize)

\* WAL.PendingWrites: the sum of what the writes of a batch may take.
PendingSize(sizes) ==
  LET sum[i \in 0 .. Len(sizes)] ==
        IF i = 0 THEN 0 ELSE sum[i - 1] + MaxDataWriteSize(sizes[i])
  IN  sum[Len(sizes)]

\* WAL.WriteAll: a batch goes into one segment.
WalWriteAll(sizes) ==
  /\ PendingSize(sizes) <= SegmentSize
  /\ Store(sizes, Size + PendingSize(sizes) > SegmentSize)

\* WAL.OpenNewActiveSegment, the rotation that a merge asks for, also when nothing
\* was written to the active segment.
OpenNewActiveSegment ==
  /\ Len(files) < MaxFiles
  /\ files' = Append(files, NewFile)
  /\ block' = 0 /\ used' = 0
  /\ UNCHANGED records

\* WAL.Close and Open: openSegmentFile takes the counters from the file's size.
WalReopen ==
  LET len == files[Len(files)].len IN
  /\ block' = len \div BlockSize /\ used' = len % BlockSize
  /\ UNCHANGED <<files, records>>

Next ==
  \/ \E s \in Sizes : WalWrite(s)
  \/ \E s, t \in Sizes : WalWriteAll(<<s>>) \/ WalWriteAll(<<s, t>>)
  \/ OpenNewActiveSegment
  \/ WalReopen

Spec == Init /\ [][Next]_vars

-----------------------------------------------------------------------------
(* Reading *)

\* What readInternal returns at the end of the file, and where a checksum fails.
EOF      == [parts |-> <<>>, eof |-> TRUE]
BadChunk == [parts |-> <<>>, eof |-> FALSE]

\* Mutant of PlaceAfter: the reader passes padding later than the writer pads.
PlaceAfterLate(b, end) ==
  IF end + HeaderSize > BlockSize THEN [block |-> b + 1, offset |-> 0]
                                  ELSE [block |-> b, offset |-> end]

\* Where readInternal looks for the chunk behind one that ends at byte end of block b.
PlaceAfter(b, end) ==
  IF end + HeaderSize >= BlockSize THEN [block |-> b + 1, offset |-> 0]
                                   ELSE [block |-> b, offset |-> end]

\* readInternal: the record at byte u of block b of a segment file, as the chunks
\* that carry it, and the place where the next record is looked for.  A chunk that
\* is not the last of its record goes on at the start of the next block.
ReadInternal(f, b, u) ==
  LET At(i)    == {c \in ToSet(f.chunks) : /\ c.block = b + i
                                           /\ c.offset = IF i = 0 THEN u ELSE 0}
      Ends(i)  == \E c \in At(i) : c.type \in {"full", "last"}
      Stops    == {n \in 0 .. f.len \div BlockSize :
                     Ends(n) /\ \A i \in 0 .. n - 1 : At(i) # {} /\ ~ Ends(i)}
      parts(n) == [i \in 1 .. n + 1 |-> CHOOSE c \in At(i - 1) : TRUE]
      next(c)  == PlaceAfter(c.block, c.offset + HeaderSize + c.len)
  IN  IF b * BlockSize + u >= f.len THEN EOF
      ELSE IF Stops = {} THEN BadChunk
      ELSE LET ps == parts(CHOOSE n \in Stops : TRUE)
           IN  [parts |-> ps, eof |-> FALSE, next |-> next(ps[Len(ps)])]

\* The parts are the record r, all of it, in order, and of no other record.
IsWhole(parts, r, size) ==
  /\ parts # <<>>
  /\ \A i \in 1 .. Len(parts) : parts[i].rec = r
  /\ \A i \in 1 .. Len(parts) :
       LET end == parts[i].from + parts[i].len IN
         IF i = Len(parts) THEN end = size ELSE parts[i + 1].from = end
  /\ parts[1].from = 0

-----------------------------------------------------------------------------
(* Properties *)

\* Every variable is in its type.
TypeOK ==
  /\ block \in Nat /\ used \in 0 .. BlockSize - 1
  /\ \A s \in DOMAIN files : files[s].len \in Nat
  /\ \A i \in DOMAIN records :
       records[i].size \in Sizes /\ records[i].seg \in DOMAIN files

\* The record at a position that a write returned is the one written there, and
\* the reader that goes on from it looks for the next record where the writer
\* put it (writeToBuffer, readInternal, segmentReader.Next, positionEquals).
ReadersMeetWriters ==
  \A i \in DOMAIN records :
    LET r     == records[i]
        f     == files[r.seg]
        got   == ReadInternal(f, r.pos.block, r.pos.offset)
        first == i = 1 \/ records[i - 1].seg # r.seg
        last  == i = Len(records) \/ records[i + 1].seg # r.seg
    IN  /\ first => r.pos = [block |-> 0, offset |-> 0]
        /\ IsWhole(got.parts, i, r.size)
        /\ IF last THEN ReadInternal(f, got.next.block, got.next.offset) = EOF
                   ELSE got.next = records[i + 1].pos

\* The counters of the writer are those that opening the file again would give
\* (openSegmentFile, segment.Size).
CountersMatchFile == Size = files[Len(files)].len

\* A chunk stays within its block and no two chunks overlap (writeToBuffer).
ChunksApart ==
  \A s \in DOMAIN files : \A i \in DOMAIN files[s].chunks :
    LET c == files[s].chunks[i] IN
      /\ c.offset + HeaderSize + c.len <= BlockSize
      /\ \A j \in DOMAIN files[s].chunks :
           LET d == files[s].chunks[j] IN
             i # j /\ c.block = d.block =>
               \/ c.offset + HeaderSize + c.len <= d.offset
               \/ d.offset + HeaderSize + d.len <= c.offset

\* The chunks of a record that begins a block.
Headers(size) == (size + BlockSize - HeaderSize - 1) \div (BlockSize - HeaderSize)

\* The header bytes of a record that maxDataWriteSize does not foresee: it divides
\* by a block, and a block holds a header less than that.
Unforeseen(size) == (Headers(size) - (size \div BlockSize + 1)) * HeaderSize

\* A segment file outgrows SegmentSize ("the maximum size of each segment file in bytes",
\* Options of diskv) by those bytes at most, and only through the batch written to it
\* last (isFull, maxDataWriteSize; batches here have two records at most).  A record with
\* a segment of its own may bring all its headers but the one that Write compares.
SegmentsBounded ==
  \A i \in DOMAIN records :
    LET r      == records[i]
        first  == i = 1 \/ records[i - 1].seg # r.seg
        last   == i = Len(records) \/ records[i + 1].seg # r.seg
        before == IF first THEN 0 ELSE Unforeseen(records[i - 1].size)
        excess == IF first THEN (Headers(r.size) - 1) * HeaderSize
                           ELSE Unforeseen(r.size) + before
    IN  last => files[r.seg].len <= SegmentSize + excess

=============================================================================
