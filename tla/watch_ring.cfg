SPECIFICATION FairSpec
CONSTANTS
  Capacity = 4
  ChanSize = 2
  MaxEvents = 8
INVARIANTS TypeOK NewestQueued
PROPERTIES InOrder NewestDelivered
CHECK_DEADLOCK FALSE
