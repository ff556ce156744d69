------------------------------ MODULE DiskvWatch ------------------------------
(***************************************************************************)
(* The watch of diskv: Commit puts an event for every record it indexes    *)
(* into a ring that drops the oldest event when it is full; a goroutine    *)
(* takes events out of it, one at a time, and sends them on the channel    *)
(* that a user reads.                                                      *)
(*                                                                         *)
(* An event is the number of its putEvent call.  putEvent and getEvent     *)
(* hold the watcher's lock, and one goroutine calls getEvent.              *)
(***************************************************************************)
EXTENDS Naturals, Sequences, FiniteSetsExt

CONSTANTS
  Capacity,     \* Options.WatchQueueSize
  ChanSize,     \* what the channel buffers (100 in the code)
  MaxEvents     \* bound: events put

ASSUME DiskvWatchAssumption ==
  Capacity \in Nat \ {0} /\ ChanSize \in Nat \ {0} /\ MaxEvents \in Nat

VARIABLES
  events,       \* eventQueue.Events
  front, back,  \* eventQueue.Front and Back
  sending,      \* the event that sendEvent holds, 0 when it polls the ring
  watchCh,      \* events in the channel
  open,         \* the database is open, the channel is not closed
  panicked,     \* sendEvent has sent on a closed channel: the process is gone
  put,          \* history: the last event put
  taken,        \* history: the last event taken from the ring
  received      \* history: the last event the user received

queue == <<events, front, back>>
vars  == <<queue, sending, watchCh, open, panicked, put, taken, received>>

Init ==
  /\ events = [i \in 0 .. Capacity - 1 |-> 0]
  /\ front = 0 /\ back = 0
  /\ sending = 0 /\ watchCh = <<>>
  /\ open = TRUE /\ panicked = FALSE
  /\ put = 0 /\ taken = 0 /\ received = 0

\* Mutant of After: an index runs past the end of the ring.
AfterUnwrapped(i) == i + 1

After(i) == (i + 1) % Capacity

\* Mutant of FrontAfterPush: a full ring keeps its oldest event.
FrontAfterPushKeeps(newback) == front

\* The position of the read point once an event was pushed: a ring that is now
\* full gives up its oldest event.
FrontAfterPush(newback) == IF After(newback) = front THEN After(front) ELSE front

\* putEvent, called by Commit under db.mu.
PutEvent ==
  /\ open /\ ~ panicked /\ put < MaxEvents
  /\ put' = put + 1
  /\ events' = [events EXCEPT ![back] = put + 1]
  /\ back' = After(back)
  /\ front' = FrontAfterPush(After(back))
  /\ UNCHANGED <<sending, watchCh, open, panicked, taken, received>>

\* Mutant of IsEmpty: a ring with one event is taken for an empty one.
IsEmptyWithOne == back = front \/ After(front) = back

IsEmpty == back = front

\* Mutant of FrontAfterPop: the read point moves in the wrong direction.
FrontAfterPopBack == (front + Capacity - 1) % Capacity

\* pop, frontTakeAStep.
FrontAfterPop == After(front)

\* sendEvent takes the oldest event; it goes on after Close.
GetEvent ==
  /\ ~ panicked /\ sending = 0 /\ ~ IsEmpty
  /\ sending' = events[front]
  /\ taken' = events[front]
  /\ front' = FrontAfterPop
  /\ UNCHANGED <<events, back, watchCh, open, panicked, put, received>>

\* c <- event: waits for room in the channel.
SendEvent ==
  /\ ~ panicked /\ sending # 0 /\ open
  /\ Len(watchCh) < ChanSize
  /\ watchCh' = Append(watchCh, sending)
  /\ sending' = 0
  /\ UNCHANGED <<queue, open, panicked, put, taken, received>>

\* A send on a closed channel ends the process.
SendPanics ==
  /\ ~ panicked /\ sending # 0 /\ ~ open
  /\ panicked' = TRUE
  /\ UNCHANGED <<queue, sending, watchCh, open, put, taken, received>>

\* The user of DB.Watch reads the channel, of a closed one what is left in it.
Receive ==
  /\ ~ panicked /\ watchCh # <<>>
  /\ received' = Head(watchCh)
  /\ watchCh' = Tail(watchCh)
  /\ UNCHANGED <<queue, sending, open, panicked, put, taken>>

\* DB.Close closes the channel and leaves the goroutine running.
Close ==
  /\ open /\ ~ panicked
  /\ open' = FALSE
  /\ UNCHANGED <<queue, sending, watchCh, panicked, put, taken, received>>

Next ==
  \/ PutEvent
  \/ GetEvent \/ SendEvent \/ SendPanics
  \/ Receive
  \/ Close

Spec == Init /\ [][Next]_vars

\* The goroutine polls for ever, and the user goes on reading.
Fairness ==
  WF_vars(GetEvent) /\ WF_vars(SendEvent \/ SendPanics) /\ WF_vars(Receive)

FairSpec == Spec /\ Fairness

-----------------------------------------------------------------------------
(* Properties *)

\* Every variable is in its type.
TypeOK ==
  /\ events \in [0 .. Capacity - 1 -> 0 .. MaxEvents]
  /\ front \in 0 .. Capacity - 1 /\ back \in 0 .. Capacity - 1
  /\ sending \in 0 .. MaxEvents /\ watchCh \in Seq(1 .. MaxEvents)
  /\ open \in BOOLEAN /\ panicked \in BOOLEAN
  /\ put \in 0 .. MaxEvents /\ taken \in 0 .. put /\ received \in 0 .. taken

Queued == (back + Capacity - front) % Capacity
InQueue(i) == events[(front + i) % Capacity]

\* The ring holds the newest events, in order and without a gap, and drops one
\* only when Capacity - 2 newer ones wait: it is full with one place free, and
\* drops the oldest event as soon as it is ("If the event is overflow, It will
\* remove the oldest data", Watcher).
NewestQueued ==
  /\ Queued = Min({Capacity - 2, put - taken})
  /\ \A i \in 0 .. Queued - 1 : InQueue(i) = put - Queued + 1 + i

\* A user never sees an event twice, nor one older than one seen before, though
\* the ring is overwritten while the goroutine waits for the channel (sendEvent).
InOrder == [][received' # received => received' > received]_received

\* The newest event reaches a user who goes on reading, unless a newer one is put
\* or the database is closed ("if the size greater than 0, which means enable
\* the watch", Options.WatchQueueSize).
NewestDelivered ==
  \A e \in 1 .. MaxEvents : put = e ~> received = e \/ put > e \/ ~ open

=============================================================================
