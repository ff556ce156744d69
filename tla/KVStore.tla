------------------------------ MODULE KVStore ------------------------------
(***************************************************************************)
(* What the diskv store promises its users, with no log and no index: a    *)
(* map that batches change all at once, that readers see only in committed *)
(* versions, and that a crash may take back to a version not older than    *)
(* the last one forced to the device, never to anything in between.        *)
(***************************************************************************)
CONSTANTS Keys, Values, Nil

VARIABLES
  store,     \* the last committed map
  past,      \* the versions a machine crash may fall back to
  view       \* the map reads are answered from, or Nil when there is none

vars == <<store, past, view>>

Map == [Keys -> Values \cup {Nil}]

Init ==
  /\ store = [k \in Keys |-> Nil]
  /\ past = {store}
  /\ view = Nil

\* A batch of writes takes effect as one.
Commit ==
  /\ view # Nil
  /\ \E dom \in (SUBSET Keys) \ {{}}, w \in [Keys -> Values \cup {Nil}] :
       store' = [k \in Keys |-> IF k \in dom THEN w[k] ELSE store[k]]
  /\ past' = past \cup {store'}
  /\ UNCHANGED view

\* Reads see the last commit from now on; it may have been forced to the device.
Publish ==
  /\ view # Nil
  /\ view' = store
  /\ past' \in {past, {store}}
  /\ UNCHANGED store

\* A version is forced to the device.
Force ==
  /\ past' = {store}
  /\ UNCHANGED <<store, view>>

\* The store stops, and may fall back to an earlier version.
Stop ==
  /\ view' = Nil
  /\ store' \in past
  /\ past' \in SUBSET past
  /\ store' \in past'

\* The store answers again, from its last version.
Start ==
  /\ view = Nil
  /\ view' = store
  /\ UNCHANGED <<store, past>>

Next == Commit \/ Publish \/ Force \/ Stop \/ Start

Spec == Init /\ [][Next]_vars

=============================================================================
