SPECIFICATION Spec
CONSTANTS
  BlockSize = 7
  HeaderSize = 2
  SegmentSize = 30
  Sizes = {1, 2, 3, 4, 5, 6, 9, 10, 11, 27}
  MaxRecords = 4
  MaxFiles = 3
INVARIANTS TypeOK ReadersMeetWriters CountersMatchFile ChunksApart SegmentsBounded
CHECK_DEADLOCK FALSE
