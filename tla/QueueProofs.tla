----------------------------- MODULE QueueProofs -----------------------------
(***************************************************************************)
(* Proofs about the two bounded queues.  DiskvWatch, for a ring, a channel *)
(* and a run of any length: the ring holds the newest events, and a user   *)
(* sees events in order.  ResultQueue, for any items, scores and size:     *)
(* what is pushed may come in any order, and the queues of the maps may be *)
(* merged, and the result is the same.                                     *)
(***************************************************************************)
EXTENDS DiskvWatch, ResultQueue, Integers, SequenceTheorems, FiniteSetTheorems,
        WellFoundedInduction, TLAPS

-----------------------------------------------------------------------------
(* The watch queue: the invariant *)

\* The events that a ring can hold: one place is free, and another is given up
\* as soon as it is taken (putEvent).
Room == IF Capacity = 1 THEN 0 ELSE Capacity - 2

\* The ring holds the newest of the events that were not taken.
RingInv ==
  /\ Queued = IF put - taken <= Room THEN put - taken ELSE Room
  /\ \A i \in 0 .. Queued - 1 : InQueue(i) = put - Queued + 1 + i

\* Events on their way to the user are in order: those in the channel, then the
\* one that sendEvent holds, all newer than what the user saw.
FlightInv ==
  /\ \A i \in 1 .. Len(watchCh) : received < watchCh[i] /\ watchCh[i] <= taken
  /\ \A j \in 1 .. Len(watchCh) : \A i \in 1 .. j - 1 : watchCh[i] < watchCh[j]
  /\ sending # 0 => /\ sending = taken /\ received < taken
                    /\ \A i \in 1 .. Len(watchCh) : watchCh[i] < taken

WatchInv == TypeOK /\ RingInv /\ FlightInv

-----------------------------------------------------------------------------
(* The ring *)

\* An index of the ring after one wrap at most.
LEMMA Wrap ==
  ASSUME NEW x \in 0 .. 2 * Capacity - 1
  PROVE  x % Capacity = IF x < Capacity THEN x ELSE x - Capacity
<1>1. Capacity \in Nat \ {0}
  BY DiskvWatchAssumption
<1>2. CASE x < Capacity
  BY <1>1, <1>2
<1>3. CASE x >= Capacity
  BY <1>1, <1>3
<1> QED BY <1>1, <1>2, <1>3

\* The next index.
LEMMA AfterIs ==
  ASSUME NEW i \in 0 .. Capacity - 1
  PROVE  After(i) = IF i = Capacity - 1 THEN 0 ELSE i + 1
<1>1. Capacity \in Nat \ {0}
  BY DiskvWatchAssumption
<1>2. i + 1 \in 0 .. 2 * Capacity - 1
  BY <1>1
<1> QED BY <1>1, <1>2, Wrap DEF After

\* How many events lie between two indices.
LEMMA Between ==
  ASSUME NEW f \in 0 .. Capacity - 1, NEW b \in 0 .. Capacity - 1
  PROVE  (b + Capacity - f) % Capacity = IF b >= f THEN b - f ELSE b + Capacity - f
<1>1. Capacity \in Nat \ {0}
  BY DiskvWatchAssumption
<1>2. b + Capacity - f \in 0 .. 2 * Capacity - 1
  BY <1>1
<1> QED BY <1>1, <1>2, Wrap

\* The place of an event of the ring.
LEMMA Place ==
  ASSUME NEW f \in 0 .. Capacity - 1, NEW i \in 0 .. Capacity - 1
  PROVE  (f + i) % Capacity = IF f + i < Capacity THEN f + i ELSE f + i - Capacity
<1>1. Capacity \in Nat \ {0}
  BY DiskvWatchAssumption
<1>2. f + i \in 0 .. 2 * Capacity - 1
  BY <1>1
<1> QED BY <1>1, <1>2, Wrap

\* A new event goes behind the others, and the oldest goes when the ring is full.
LEMMA PutKeepsRing ==
  ASSUME TypeOK, RingInv, PutEvent
  PROVE  /\ events' \in [0 .. Capacity - 1 -> 0 .. MaxEvents]
         /\ front' \in 0 .. Capacity - 1 /\ back' \in 0 .. Capacity - 1
         /\ RingInv'
<1> DEFINE Q == Queued
<1>1. /\ Capacity \in Nat \ {0} /\ MaxEvents \in Nat
      /\ events \in [0 .. Capacity - 1 -> 0 .. MaxEvents]
      /\ front \in 0 .. Capacity - 1 /\ back \in 0 .. Capacity - 1
      /\ put \in 0 .. MaxEvents /\ taken \in 0 .. put /\ put < MaxEvents
      /\ put' = put + 1 /\ taken' = taken
      /\ events' = [events EXCEPT ![back] = put + 1]
      /\ back' = After(back) /\ front' = FrontAfterPush(After(back))
  BY DiskvWatchAssumption DEF TypeOK, PutEvent
<1>0. Capacity \in Nat \ {0} /\ front \in 0 .. Capacity - 1 /\ back \in 0 .. Capacity - 1
  BY <1>1
<1>2. /\ back' = IF back = Capacity - 1 THEN 0 ELSE back + 1
      /\ back' \in 0 .. Capacity - 1
  BY <1>1, AfterIs
<1>3. front' = IF (IF back' = Capacity - 1 THEN 0 ELSE back' + 1) = front
                 THEN IF front = Capacity - 1 THEN 0 ELSE front + 1
                 ELSE front
  BY <1>1, <1>2, AfterIs DEF FrontAfterPush
<1>4. front' \in 0 .. Capacity - 1
  BY <1>1, <1>3
<1>5. Q = IF back >= front THEN back - front ELSE back + Capacity - front
  BY <1>1, Between DEF Queued
<1>6. Queued' = IF back' >= front' THEN back' - front' ELSE back' + Capacity - front'
  BY <1>2, <1>4, Between DEF Queued
<1>7. Q = IF put - taken <= Room THEN put - taken ELSE Room
  BY DEF RingInv
<1> HIDE DEF Q
<1>8. Queued' = IF Q = Room THEN Room ELSE Q + 1
  BY <1>1, <1>2, <1>3, <1>5, <1>6, <1>7 DEF Room
<1>9. Queued' = IF put' - taken' <= Room THEN put' - taken' ELSE Room
  BY <1>1, <1>7, <1>8 DEF Room
<1>12. Queued' \in 0 .. Capacity - 1
  BY <1>1, <1>7, <1>8 DEF Room
<1>10. ASSUME NEW i \in 0 .. Queued' - 1
       PROVE  InQueue(i)' = put' - Queued' + 1 + i
  <2>1. i \in 0 .. Capacity - 1
    BY <1>1, <1>7, <1>8 DEF Room
  <2>2. PICK f \in 0 .. Capacity - 1 : f = front'
    BY <1>4
  <2>3. PICK b \in 0 .. Capacity - 1 : b = back'
    BY <1>2
  <2>4. PICK q \in 0 .. Capacity - 1 : q = Queued'
    BY <1>12
  <2> DEFINE p == IF f + i < Capacity THEN f + i ELSE f + i - Capacity
  <2>5. InQueue(i)' = events'[p]
    BY <2>1, <2>2, Place DEF InQueue
  <2>6. i \in 0 .. q - 1
    BY <2>4
  <2>7. /\ b = IF back = Capacity - 1 THEN 0 ELSE back + 1
        /\ q = IF b >= f THEN b - f ELSE b + Capacity - f
    BY <1>2, <1>6, <2>2, <2>3, <2>4
  <2>8. p \in 0 .. Capacity - 1 /\ (p = back <=> i = q - 1)
    BY <1>0, <2>1, <2>6, <2>7
  <2> HIDE DEF p
  <2>9. CASE i = Queued' - 1
    <3>1. p = back
      BY <2>4, <2>8, <2>9
    <3>2. events'[p] = put + 1
      BY <1>1, <3>1
    <3>3. put' - q + 1 + i = put + 1
      <4>1. i = q - 1 /\ q \in Int
        BY <2>4, <2>9
      <4>2. put' = put + 1 /\ put \in Int
        BY <1>1
      <4> QED BY <4>1, <4>2
    <3> QED BY <2>4, <2>5, <3>2, <3>3
  <2>10. CASE i # Queued' - 1
    <3>1. p # back
      BY <2>4, <2>8, <2>10
    <3>2. events'[p] = events[p]
      BY <1>1, <2>8, <3>1
    <3>3. CASE Q = Room
      <4>1. i + 1 \in 0 .. Q - 1 /\ i + 1 \in 0 .. Capacity - 1 /\ Queued' = Q
        BY <1>1, <1>7, <1>8, <2>1, <2>10, <3>3 DEF Room
      <4>2. InQueue(i + 1) = put - Q + 1 + (i + 1)
        BY <4>1 DEF RingInv, Q
      <4>3. (front + (i + 1)) % Capacity = p
        <5>1. (front + (i + 1)) % Capacity = IF front + (i + 1) < Capacity
                THEN front + (i + 1) ELSE front + (i + 1) - Capacity
          BY <1>1, <4>1, Place
        <5>2. front' = IF front = Capacity - 1 THEN 0 ELSE front + 1
          BY <1>1, <1>2, <1>3, <1>5, <3>3, <4>1 DEF Room
        <5> QED BY <1>0, <2>1, <2>2, <5>1, <5>2 DEF p
      <4> QED BY <1>1, <1>7, <2>5, <3>2, <4>1, <4>2, <4>3 DEF InQueue, Room
    <3>4. CASE Q # Room
      <4>1. i \in 0 .. Q - 1 /\ Queued' = Q + 1
        BY <1>1, <1>7, <1>8, <2>1, <2>10, <3>4 DEF Room
      <4>2. InQueue(i) = put - Q + 1 + i
        BY <4>1 DEF RingInv, Q
      <4>3. front' = front
        BY <1>1, <1>2, <1>3, <1>5, <1>7, <3>4, <4>1 DEF Room
      <4>4. (front + i) % Capacity = p
        BY <1>1, <2>1, <2>2, <4>3, Place DEF p
      <4> QED BY <1>1, <1>7, <2>5, <3>2, <4>1, <4>2, <4>4 DEF InQueue, Room
    <3> QED BY <3>3, <3>4
  <2> QED BY <2>9, <2>10
<1>11. events' \in [0 .. Capacity - 1 -> 0 .. MaxEvents]
  BY <1>1
<1> QED BY <1>2, <1>4, <1>9, <1>10, <1>11 DEF RingInv

\* The oldest event is taken: it is newer than every event taken before it.
LEMMA GetKeepsRing ==
  ASSUME TypeOK, RingInv, GetEvent
  PROVE  /\ front' \in 0 .. Capacity - 1
         /\ taken' \in 1 .. put /\ taken' > taken /\ sending' = taken'
         /\ RingInv'
<1> DEFINE Q == Queued
<1>0. /\ Capacity \in Nat \ {0} /\ front \in 0 .. Capacity - 1
      /\ back \in 0 .. Capacity - 1 /\ back # front
      /\ put \in Nat /\ taken \in 0 .. put
  BY DiskvWatchAssumption DEF TypeOK, GetEvent, IsEmpty
<1>1. /\ taken' = events[front] /\ sending' = events[front]
      /\ front' = After(front) /\ back' = back /\ put' = put /\ events' = events
  BY DEF GetEvent, FrontAfterPop
<1>2. /\ front' = IF front = Capacity - 1 THEN 0 ELSE front + 1
      /\ front' \in 0 .. Capacity - 1
  BY <1>0, <1>1, AfterIs
<1>3. Q = IF back >= front THEN back - front ELSE back + Capacity - front
  BY <1>0, Between DEF Queued
<1>4. Q = IF put - taken <= Room THEN put - taken ELSE Room
  BY DEF RingInv
<1>5. \A i \in 0 .. Q - 1 : InQueue(i) = put - Q + 1 + i
  BY DEF RingInv
<1> HIDE DEF Q
<1>6. Q \in 1 .. Capacity - 1 /\ Q <= put - taken /\ Q <= Room
  BY <1>0, <1>3, <1>4 DEF Room
<1>7. taken' = put - Q + 1
  <2>1. InQueue(0) = put - Q + 1
    BY <1>0, <1>5, <1>6
  <2>2. (front + 0) % Capacity = front
    <3>1. 0 \in 0 .. Capacity - 1 /\ front + 0 = front /\ front < Capacity
      BY <1>0
    <3> QED BY <1>0, <3>1, Place
  <2> QED BY <1>1, <2>1, <2>2 DEF InQueue
<1>8. taken' \in 1 .. put /\ taken' > taken /\ sending' = taken'
  BY <1>0, <1>1, <1>6, <1>7
<1>9. Queued' = Q - 1
  <2>1. PICK f \in 0 .. Capacity - 1 : f = front'
    BY <1>2
  <2>2. (back + Capacity - f) % Capacity = IF back >= f THEN back - f ELSE back + Capacity - f
    BY <1>0, Between
  <2>3. f = IF front = Capacity - 1 THEN 0 ELSE front + 1
    BY <1>2, <2>1
  <2>4. (IF back >= f THEN back - f ELSE back + Capacity - f) = Q - 1
    BY <1>0, <1>3, <2>3
  <2> QED BY <1>1, <2>1, <2>2, <2>4 DEF Queued
<1>10. Queued' = IF put' - taken' <= Room THEN put' - taken' ELSE Room
  <2>1. put' - taken' = Q - 1
    BY <1>0, <1>1, <1>6, <1>7
  <2>2. Q - 1 <= Room
    BY <1>0, <1>6 DEF Room
  <2> QED BY <1>9, <2>1, <2>2
<1>11. ASSUME NEW i \in 0 .. Queued' - 1
       PROVE  InQueue(i)' = put' - Queued' + 1 + i
  <2>1. i \in 0 .. Q - 2 /\ i + 1 \in 0 .. Q - 1
    BY <1>6, <1>9
  <2>2. InQueue(i + 1) = put - Q + 1 + (i + 1)
    BY <1>5, <2>1
  <2>3. PICK f \in 0 .. Capacity - 1 : f = front'
    BY <1>2
  <2>4. (f + i) % Capacity = IF f + i < Capacity THEN f + i ELSE f + i - Capacity
    BY <1>0, <1>6, <2>1, Place
  <2>5. (front + (i + 1)) % Capacity = IF front + (i + 1) < Capacity
          THEN front + (i + 1) ELSE front + (i + 1) - Capacity
    <3>1. i + 1 \in 0 .. Capacity - 1
      BY <1>0, <1>6, <2>1
    <3> QED BY <1>0, <3>1, Place
  <2>6. f = IF front = Capacity - 1 THEN 0 ELSE front + 1
    BY <1>2, <2>3
  <2>7. (f + i) % Capacity = (front + (i + 1)) % Capacity
    BY <1>0, <1>6, <2>1, <2>4, <2>5, <2>6
  <2>8. InQueue(i)' = InQueue(i + 1)
    BY <1>1, <2>3, <2>7 DEF InQueue
  <2>9. put - Q + 1 + (i + 1) = put - (Q - 1) + 1 + i
    BY <1>0, <1>6, <2>1
  <2> QED BY <1>1, <1>9, <2>2, <2>8, <2>9
<1> QED BY <1>2, <1>8, <1>10, <1>11 DEF RingInv

\* Steps that leave the ring and what was taken from it alone.
LEMMA RingUntouched ==
  ASSUME RingInv, UNCHANGED <<queue, put, taken>>
  PROVE  RingInv'
BY DEF RingInv, Queued, InQueue, queue

-----------------------------------------------------------------------------
(* Order *)

\* The rest of an ordered channel is ordered, and newer than its head.
LEMMA TailOrder ==
  ASSUME NEW S \in SUBSET Int, NEW s \in Seq(S), s # <<>>, NEW t,
         \A i \in 1 .. Len(s) : s[i] <= t,
         \A j \in 1 .. Len(s) : \A i \in 1 .. j - 1 : s[i] < s[j]
  PROVE  /\ \A i \in 1 .. Len(Tail(s)) : Head(s) < Tail(s)[i] /\ Tail(s)[i] <= t
         /\ \A j \in 1 .. Len(Tail(s)) : \A i \in 1 .. j - 1 : Tail(s)[i] < Tail(s)[j]
         /\ \A i \in 1 .. Len(Tail(s)) : \E j \in 1 .. Len(s) : Tail(s)[i] = s[j]
<1>1. /\ Len(s) \in Nat /\ Len(s) >= 1 /\ Head(s) = s[1]
      /\ Len(Tail(s)) = Len(s) - 1
      /\ \A i \in 1 .. Len(s) - 1 : Tail(s)[i] = s[i + 1]
  BY HeadTailProperties, LenProperties
<1>2. \A i \in 1 .. Len(s) - 1 : i + 1 \in 1 .. Len(s)
  BY <1>1
<1>3. \A i \in 1 .. Len(Tail(s)) : Head(s) < Tail(s)[i] /\ Tail(s)[i] <= t
  BY <1>1, <1>2
<1>4. ASSUME NEW j \in 1 .. Len(Tail(s)), NEW i \in 1 .. j - 1
      PROVE  Tail(s)[i] < Tail(s)[j]
  <2>1. i \in 1 .. Len(s) - 1 /\ j \in 1 .. Len(s) - 1 /\ i + 1 \in 1 .. (j + 1) - 1
    BY <1>1
  <2> QED BY <1>1, <1>2, <2>1
<1> QED BY <1>1, <1>2, <1>3, <1>4

\* What Init sets up.
LEMMA WatchInit == Init => WatchInv
<1> SUFFICES ASSUME Init PROVE WatchInv
  OBVIOUS
<1>1. Capacity \in Nat \ {0} /\ MaxEvents \in Nat
  BY DiskvWatchAssumption
<1>2. watchCh \in Seq(1 .. MaxEvents) /\ Len(watchCh) = 0
  BY EmptySeq DEF Init
<1>3. TypeOK
  <2>1. events \in [0 .. Capacity - 1 -> 0 .. MaxEvents]
    BY <1>1 DEF Init
  <2>2. front \in 0 .. Capacity - 1 /\ back \in 0 .. Capacity - 1
    BY <1>1 DEF Init
  <2>3. /\ put \in 0 .. MaxEvents /\ taken \in 0 .. put /\ received \in 0 .. taken
        /\ sending \in 0 .. MaxEvents
    BY <1>1 DEF Init
  <2> QED BY <1>2, <2>1, <2>2, <2>3 DEF Init, TypeOK
<1>4. Queued = 0
  BY <1>1, Between DEF Init, Queued
<1>5. RingInv
  BY <1>1, <1>4 DEF Init, RingInv, Room
<1>6. FlightInv
  BY <1>2 DEF Init, FlightInv
<1> QED BY <1>3, <1>5, <1>6 DEF WatchInv

\* Every step keeps the invariant.
LEMMA WatchStep == WatchInv /\ [Next]_vars => WatchInv'
<1> SUFFICES ASSUME WatchInv, [Next]_vars PROVE WatchInv'
  OBVIOUS
<1> USE DEF WatchInv
<1>0. /\ Capacity \in Nat \ {0} /\ MaxEvents \in Nat /\ Len(watchCh) \in Nat
      /\ watchCh \in Seq(1 .. MaxEvents)
      /\ put \in 0 .. MaxEvents /\ taken \in 0 .. put /\ received \in 0 .. taken
      /\ \A i \in 1 .. Len(watchCh) : watchCh[i] \in 1 .. MaxEvents
  BY DiskvWatchAssumption, LenProperties, ElementOfSeq DEF TypeOK
<1>1. CASE PutEvent
  <2>1. /\ events' \in [0 .. Capacity - 1 -> 0 .. MaxEvents]
        /\ front' \in 0 .. Capacity - 1 /\ back' \in 0 .. Capacity - 1
        /\ RingInv'
    BY <1>1, PutKeepsRing
  <2>2. TypeOK'
    BY <1>0, <1>1, <2>1 DEF PutEvent, TypeOK
  <2>3. FlightInv'
    BY <1>1 DEF PutEvent, FlightInv
  <2> QED BY <2>1, <2>2, <2>3
<1>2. CASE GetEvent
  <2>1. /\ front' \in 0 .. Capacity - 1
        /\ taken' \in 1 .. put /\ taken' > taken /\ sending' = taken'
        /\ RingInv'
    BY <1>2, GetKeepsRing
  <2>2. /\ events' = events /\ back' = back /\ watchCh' = watchCh /\ open' = open
        /\ panicked' = panicked /\ put' = put /\ received' = received
    BY <1>2 DEF GetEvent
  <2>3. TypeOK'
    BY <1>0, <2>1, <2>2 DEF TypeOK
  <2>4. \A i \in 1 .. Len(watchCh) : received < watchCh[i] /\ watchCh[i] <= taken
    BY DEF FlightInv
  <2>5. received < taken'
    BY <1>0, <2>1
  <2>6. \A i \in 1 .. Len(watchCh) : watchCh[i] < taken'
    BY <1>0, <2>1, <2>4
  <2>7. FlightInv'
    BY <1>0, <2>1, <2>2, <2>4, <2>5, <2>6 DEF FlightInv
  <2> QED BY <2>1, <2>3, <2>7
<1>3. CASE SendEvent
  <2>1. /\ watchCh' = Append(watchCh, sending) /\ sending' = 0 /\ sending # 0
        /\ UNCHANGED <<queue, open, panicked, put, taken, received>>
    BY <1>3 DEF SendEvent
  <2>2. sending = taken /\ received < taken /\ sending \in 1 .. MaxEvents
    BY <1>0, <2>1 DEF FlightInv, TypeOK
  <2>3. /\ watchCh' \in Seq(1 .. MaxEvents) /\ Len(watchCh') = Len(watchCh) + 1
        /\ \A i \in 1 .. Len(watchCh) : watchCh'[i] = watchCh[i]
        /\ watchCh'[Len(watchCh) + 1] = sending
    BY <1>0, <2>1, <2>2, AppendProperties
  <2>4. TypeOK'
    BY <1>0, <2>1, <2>3 DEF TypeOK, queue
  <2>5. RingInv'
    BY <2>1, RingUntouched
  <2>6. /\ \A i \in 1 .. Len(watchCh) : received < watchCh[i] /\ watchCh[i] < taken
        /\ \A j \in 1 .. Len(watchCh) : \A i \in 1 .. j - 1 : watchCh[i] < watchCh[j]
    BY <2>1 DEF FlightInv
  <2>7. FlightInv'
    BY <1>0, <2>1, <2>2, <2>3, <2>6 DEF FlightInv
  <2> QED BY <2>4, <2>5, <2>7
<1>4. CASE SendPanics
  <2>1. TypeOK'
    BY <1>4 DEF SendPanics, TypeOK, queue
  <2>2. RingInv'
    BY <1>4, RingUntouched DEF SendPanics
  <2>3. FlightInv'
    BY <1>4 DEF SendPanics, FlightInv
  <2> QED BY <2>1, <2>2, <2>3
<1>5. CASE Receive
  <2>1. /\ watchCh # <<>> /\ received' = Head(watchCh) /\ watchCh' = Tail(watchCh)
        /\ UNCHANGED <<queue, sending, open, panicked, put, taken>>
    BY <1>5 DEF Receive
  <2>2. /\ received' = watchCh[1] /\ Len(watchCh) >= 1
        /\ watchCh' \in Seq(1 .. MaxEvents) /\ Len(watchCh') = Len(watchCh) - 1
        /\ \A i \in 1 .. Len(watchCh) - 1 : watchCh'[i] = watchCh[i + 1]
    BY <1>0, <2>1, HeadTailProperties
  <2>3. /\ \A i \in 1 .. Len(watchCh) : received < watchCh[i] /\ watchCh[i] <= taken
        /\ \A j \in 1 .. Len(watchCh) : \A i \in 1 .. j - 1 : watchCh[i] < watchCh[j]
    BY DEF FlightInv
  <2>4. received' \in 1 .. taken
    BY <1>0, <2>2, <2>3
  <2>5. TypeOK'
    BY <1>0, <2>1, <2>2, <2>4 DEF TypeOK, queue
  <2>6. RingInv'
    BY <2>1, RingUntouched
  <2>7. /\ \A i \in 1 .. Len(watchCh') : received' < watchCh'[i] /\ watchCh'[i] <= taken
        /\ \A j \in 1 .. Len(watchCh') : \A i \in 1 .. j - 1 : watchCh'[i] < watchCh'[j]
        /\ \A i \in 1 .. Len(watchCh') :
             \E j \in 1 .. Len(watchCh) : watchCh'[i] = watchCh[j]
    BY <1>0, <2>1, <2>3, TailOrder
  <2>9. sending # 0 => /\ sending = taken /\ received' < taken
                       /\ \A i \in 1 .. Len(watchCh') : watchCh'[i] < taken
    <3> SUFFICES ASSUME sending # 0
                 PROVE  /\ sending = taken /\ received' < taken
                        /\ \A i \in 1 .. Len(watchCh') : watchCh'[i] < taken
      OBVIOUS
    <3>1. sending = taken /\ \A i \in 1 .. Len(watchCh) : watchCh[i] < taken
      BY DEF FlightInv
    <3>2. received' < taken
      BY <1>0, <2>2, <3>1
    <3> QED BY <2>7, <3>1, <3>2
  <2> QED BY <2>1, <2>5, <2>6, <2>7, <2>9 DEF FlightInv
<1>6. CASE Close
  <2>1. TypeOK'
    BY <1>6 DEF Close, TypeOK, queue
  <2>2. RingInv'
    BY <1>6, RingUntouched DEF Close
  <2>3. FlightInv'
    BY <1>6 DEF Close, FlightInv
  <2> QED BY <2>1, <2>2, <2>3
<1>7. CASE UNCHANGED vars
  BY <1>7 DEF vars, queue, TypeOK, RingInv, FlightInv, Queued, InQueue
<1> QED BY <1>1, <1>2, <1>3, <1>4, <1>5, <1>6, <1>7 DEF Next

\* Every variable of the watch is in its type: no index leaves the ring, nothing is
\* taken that was not put, nothing received that was not taken (eventQueue).
THEOREM WatchTypes == Spec => []TypeOK
<1>1. WatchInv => TypeOK
  BY DEF WatchInv
<1> QED BY <1>1, WatchInit, WatchStep, PTL DEF Spec

\* The ring holds the newest events without a gap, for a ring of two places or
\* more: a ring of one place never holds an event (putEvent, WatchQueueSize).
THEOREM RingHoldsNewest == Capacity # 1 /\ Spec => []NewestQueued
<1> SUFFICES ASSUME Capacity # 1 PROVE Spec => []NewestQueued
  OBVIOUS
<1>1. WatchInv => NewestQueued
  <2> SUFFICES ASSUME WatchInv PROVE NewestQueued
    OBVIOUS
  <2>1. /\ Capacity - 2 \in Nat /\ put - taken \in Nat /\ Room = Capacity - 2
    BY DiskvWatchAssumption DEF WatchInv, TypeOK, Room
  <2>2. \A a, b \in Nat : Min({a, b}) = IF b <= a THEN b ELSE a
    BY DEF Min
  <2>3. Queued = Min({Capacity - 2, put - taken})
    BY <2>1, <2>2 DEF WatchInv, RingInv
  <2> QED BY <2>3 DEF NewestQueued, WatchInv, RingInv
<1> QED BY <1>1, WatchInit, WatchStep, PTL DEF Spec

\* A user sees every event at most once and in the order in which they were put,
\* whatever the sizes of the ring and of the channel (sendEvent, Watch).
THEOREM UserSeesOrder == Spec => InOrder
<1>1. WatchInv /\ [Next]_vars => [received' # received => received' > received]_received
  <2> SUFFICES ASSUME WatchInv, [Next]_vars, received' # received
               PROVE  received' > received
    OBVIOUS
  <2>1. Receive
    BY DEF Next, vars, PutEvent, GetEvent, SendEvent, SendPanics, Close
  <2>2. /\ watchCh \in Seq(1 .. MaxEvents) /\ watchCh # <<>> /\ received' = Head(watchCh)
    BY <2>1 DEF Receive, WatchInv, TypeOK
  <2>3. received' = watchCh[1] /\ 1 \in 1 .. Len(watchCh)
    BY <2>2, HeadTailProperties, LenProperties
  <2>4. received < watchCh[1] /\ watchCh[1] \in Int /\ received \in Int
    BY <2>2, <2>3, ElementOfSeq, DiskvWatchAssumption DEF WatchInv, FlightInv, TypeOK
  <2> QED BY <2>3, <2>4
<1> QED BY <1>1, WatchInit, WatchStep, PTL DEF Spec, InOrder

-----------------------------------------------------------------------------
(* The result queue *)

\* Scores are numbers, and there is a lowest: only their order counts.
Scored(Items) == Score \in [Items -> Nat] /\ Size \in Nat

\* A queue that is not empty has a top.
LEMMA LeastIsLeast ==
  ASSUME NEW Items, Scored(Items), NEW Q \in SUBSET Items, Q # {}
  PROVE  Least(Q) \in Q /\ \A y \in Q : Score[Least(Q)] <= Score[y]
<1> DEFINE scores == {Score[x] : x \in Q}
<1>1. scores \subseteq Nat /\ scores # {}
  BY DEF Scored
<1>2. PICK low \in scores : \A s \in scores : <<s, low>> \notin OpToRel(<, Nat)
  <2> HIDE DEF scores
  <2> QED BY <1>1, NatLessThanWellFounded, WFMin
<1>3. \A s \in scores : low <= s
  <2>1. OpToRel(<, Nat) = {ss \in Nat \X Nat : ss[1] < ss[2]}
    BY DEF OpToRel
  <2>2. \A s \in scores : ~(s < low)
    BY <1>1, <1>2, <2>1
  <2> HIDE DEF scores
  <2> QED BY <1>1, <2>2
<1>4. \E x \in Q : \A y \in Q : Score[x] <= Score[y]
  BY <1>3
<1> QED BY <1>4 DEF Least

\* Whatever is pushed, and whenever: a queue that holds the items of the
\* greatest scores of those pushed so far holds them after the next push
\* (priority_queue.go:38-47).
THEOREM AddKeepsTop ==
  ASSUME NEW Items, Scored(Items), NEW S \in SUBSET Items, IsFiniteSet(S),
         NEW Q, IsTop(Q, S), NEW x \in Items
  PROVE  IsTop(Add(Q, x), S \cup {x})
<1> DEFINE all  == Q \cup {x}
           more == S \cup {x}
<1>1. IsFiniteSet(Q) /\ IsFiniteSet(all) /\ Q \subseteq Items /\ all \in SUBSET Items
  BY FS_Subset, FS_AddElement DEF IsTop
<1>2. Cardinality(Q) \in Nat /\ Cardinality(all) \in Nat /\ Cardinality(Q) <= Size
  BY <1>1, FS_CardinalityType DEF IsTop
<1>3. Cardinality(all) = IF x \in Q THEN Cardinality(Q) ELSE Cardinality(Q) + 1
  BY <1>1, FS_AddElement
<1>4. CASE Cardinality(all) > Size
  <2>1. x \notin Q /\ Cardinality(Q) = Size
    BY <1>2, <1>3, <1>4 DEF Scored
  <2> DEFINE top == Least(all)
             new == all \ {top}
  <2>2. top \in all /\ \A y \in all : Score[top] <= Score[y]
    BY <1>1, LeastIsLeast
  <2>3. Cardinality(new) = Size
    <3>1. Cardinality(new) = Cardinality(all) - 1
      BY <1>1, <2>2, FS_RemoveElement
    <3> QED BY <1>3, <2>1, <3>1 DEF Scored
  <2>4. ASSUME NEW z \in more \ new, NEW y \in new
        PROVE  Score[z] <= Score[y]
    <3>1. {Score[z], Score[y], Score[top]} \subseteq Nat
      BY <1>1, <2>2 DEF Scored
    <3>2. CASE z = top
      BY <3>2, <2>2
    <3>3. CASE z # top
      <4>1. z \in S \ Q
        BY <3>3
      <4>2. CASE y \in Q
        BY <4>1, <4>2 DEF IsTop
      <4>3. CASE y = x
        <5>1. top \in Q
          BY <2>2, <4>3
        <5>2. Score[z] <= Score[top] /\ Score[top] <= Score[y]
          BY <4>1, <5>1, <2>2 DEF IsTop
        <5> QED BY <3>1, <5>2
      <4> QED BY <4>2, <4>3
    <3> QED BY <3>2, <3>3
  <2>5. Add(Q, x) = new
    BY <1>4 DEF Add
  <2>6. IsTop(new, more)
    <3>1. new \subseteq more
      BY DEF IsTop
    <3>2. Cardinality(new) <= Size
      BY <2>3 DEF Scored
    <3> HIDE DEF new, more
    <3> QED BY <2>3, <2>4, <3>1, <3>2 DEF IsTop
  <2> QED BY <2>5, <2>6
<1>5. CASE ~(Cardinality(all) > Size)
  <2>1. Add(Q, x) = all /\ Cardinality(all) <= Size
    BY <1>2, <1>5 DEF Add, Scored
  <2>2. ASSUME NEW z \in more \ all
        PROVE  all = Q /\ Cardinality(Q) = Size /\ \A y \in Q : Score[z] <= Score[y]
    <3>1. z \in S \ Q
      OBVIOUS
    <3>2. Cardinality(Q) = Size /\ \A y \in Q : Score[z] <= Score[y]
      BY <3>1 DEF IsTop
    <3>3. x \in Q
      BY <3>2, <1>2, <1>3, <2>1 DEF Scored
    <3> QED BY <3>2, <3>3
  <2>3. IsTop(all, more)
    <3>1. all \subseteq more
      BY DEF IsTop
    <3> HIDE DEF all, more
    <3> QED BY <2>1, <2>2, <3>1 DEF IsTop
  <2> QED BY <2>1, <2>3
<1> QED BY <1>4, <1>5

\* What a goroutine left out of the queue of its map is not missed: merging the
\* queue Q2 of a map with what was merged before gives what pushing every vertex
\* of the map gives (none_vectorstore.go:174-183, multi_vector_vertex.go:129-134).
THEOREM MergeKeepsTop ==
  ASSUME NEW Items, Scored(Items), NEW S1 \in SUBSET Items, NEW S2 \in SUBSET Items,
         IsFiniteSet(S1), IsFiniteSet(S2),
         NEW Q2, IsTop(Q2, S2), NEW Q, IsTop(Q, S1 \cup Q2)
  PROVE  IsTop(Q, S1 \cup S2)
<1>1. Q2 \subseteq S2 /\ Q \subseteq S1 \cup S2 /\ Cardinality(Q) <= Size
  BY DEF IsTop
<1>2. IsFiniteSet(S1 \cup S2)
  BY FS_Union
<1>3. IsFiniteSet(Q) /\ IsFiniteSet(Q2)
  BY <1>1, <1>2, FS_Subset
<1>4. Cardinality(Q) \in Nat /\ Cardinality(Q2) \in Nat
  BY <1>3, FS_CardinalityType
<1>5. ASSUME NEW z \in (S1 \cup S2) \ Q
      PROVE  Cardinality(Q) = Size /\ \A y \in Q : Score[z] <= Score[y]
  <2>1. CASE z \in S1 \cup Q2
    BY <2>1 DEF IsTop
  <2>2. CASE z \in S2 \ Q2
    <3>1. Cardinality(Q2) = Size /\ \A y \in Q2 : Score[z] <= Score[y]
      BY <2>2 DEF IsTop
    <3>2. CASE Q2 \subseteq Q
      <4>1. Q2 = Q
        BY <1>1, <1>3, <1>4, <3>1, <3>2, FS_Subset DEF Scored
      <4> QED BY <3>1, <4>1
    <3>3. CASE ~(Q2 \subseteq Q)
      <4>1. PICK q \in Q2 \ Q : TRUE
        BY <3>3
      <4>2. Cardinality(Q) = Size /\ \A y \in Q : Score[q] <= Score[y]
        BY <4>1 DEF IsTop
      <4>3. Score[z] <= Score[q]
        BY <3>1, <4>1
      <4>4. \A y \in Q \cup {q, z} : Score[y] \in Nat
        BY <1>1, <4>1 DEF Scored
      <4> QED BY <4>2, <4>3, <4>4
    <3> QED BY <3>2, <3>3
  <2> QED BY <2>1, <2>2
<1> QED BY <1>1, <1>5 DEF IsTop
==============================================================================
