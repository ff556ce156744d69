------------------------ MODULE VectorStoresProofs ------------------------
(***************************************************************************)
(* Proofs about VectorStores for any collections, handlers, vertices and   *)
(* faults: a loaded collection of edge or experimental has all that its    *)
(* handlers use without a check, as long as calls on collections wait for  *)
(* each other; calls on vertices and searches may do what they like.       *)
(* Then the types, and what each step does to the call that takes it, to   *)
(* memory, to the promises and to the bucket: VectorStoresPromises builds  *)
(* on it.  Last, all that TypeOK says: what searches find and promises     *)
(* hold are vertices, and a search finds no more than it was asked for.    *)
(***************************************************************************)
EXTENDS VectorStores, SequenceTheorems, FiniteSetTheorems, WellFoundedInduction, TLAPS

\* NoBucket is not a bucket: in the code it is the answer that there is none.
NoRecord == DOMAIN NoBucket # {"meta", "vertex", "inverted"}

-----------------------------------------------------------------------------
(* Shapes: as much of the types as says that a step changes what it names  *)

Ops == AdminOps \cup {"change", "remove", "search"}

IsCall(a) == {"op", "name", "at"} \subseteq DOMAIN a /\ a.op \in Ops /\ a.name \in Names

IsSpace(s) == {"ready", "indexed"} \subseteq DOMAIN s

IsBucket(b) == DOMAIN b = {"meta", "vertex", "inverted"}

WorkShape   == DOMAIN work = Workers /\ \A w \in Workers : work[w] = Idle \/ IsCall(work[w])
SpaceShape  == /\ \E S : spaces \in Seq(S)
               /\ \A i \in 1 .. Len(spaces) : IsSpace(spaces[i])
               /\ space \in [Names -> 0 .. Len(spaces)]
BucketShape == DOMAIN bucket = Names /\ \A n \in Names : bucket[n] = NoBucket \/ IsBucket(bucket[n])

Shape == WorkShape /\ SpaceShape /\ BucketShape /\ process \in {"up", "closing", "down"}

\* A call that goes on remains what it was.
LEMMA GoesOn ==
  ASSUME WorkShape, NEW w \in Workers, Busy(w), NEW a, work' = [work EXCEPT ![w] = a],
         DOMAIN a = DOMAIN work[w], a.op = work[w].op, a.name = work[w].name
  PROVE  /\ WorkShape'
         /\ work'[w] = a /\ \A v \in Workers \ {w} : work'[v] = work[v]
         /\ Busy(w)'
<1>1. IsCall(work[w])
  BY DEF WorkShape, Busy
<1>2. IsCall(a)
  BY <1>1 DEF IsCall
<1>3. work'[w] = a /\ (\A v \in Workers \ {w} : work'[v] = work[v]) /\ DOMAIN work' = Workers
  BY DEF WorkShape
<1>4. a # Idle
  BY <1>2 DEF IsCall, Idle, Ops, AdminOps
<1> QED BY <1>2, <1>3, <1>4 DEF WorkShape, Busy

\* The same for a call that only goes to another place.
LEMMA GoShape ==
  ASSUME WorkShape, NEW w \in Workers, Busy(w), NEW at, Go(w, at)
  PROVE  /\ WorkShape' /\ Busy(w)'
         /\ work'[w].op = work[w].op /\ work'[w].name = work[w].name /\ work'[w].at = at
         /\ \A v \in Workers \ {w} : work'[v] = work[v]
<1> DEFINE a == [work[w] EXCEPT !.at = at]
<1>1. IsCall(work[w])
  BY DEF WorkShape, Busy
<1>2. DOMAIN a = DOMAIN work[w] /\ a.op = work[w].op /\ a.name = work[w].name /\ a.at = at
  BY <1>1 DEF IsCall
<1>3. work' = [work EXCEPT ![w] = a]
  BY DEF Go
<1> HIDE DEF a
<1> QED BY <1>2, <1>3, GoesOn

\* A call that returns is over.
LEMMA ReturnShape ==
  ASSUME WorkShape, NEW w \in Workers, Return(w)
  PROVE  /\ WorkShape' /\ work'[w] = Idle
         /\ \A v \in Workers \ {w} : work'[v] = work[v]
BY DEF WorkShape, Return

\* A call that begins is a call.
LEMMA CallShape ==
  ASSUME WorkShape, NEW w \in Workers, NEW a, IsCall(a), work' = [work EXCEPT ![w] = a]
  PROVE  /\ WorkShape' /\ work'[w] = a
         /\ \A v \in Workers \ {w} : work'[v] = work[v]
BY DEF WorkShape

\* A call as it begins.
LEMMA NewCall ==
  ASSUME NEW op \in Ops, NEW at, NEW n \in Names
  PROVE  /\ IsCall(Call(op, at, n))
         /\ Call(op, at, n).op = op /\ Call(op, at, n).name = n /\ Call(op, at, n).at = at
BY DEF Call, IsCall

\* A space is changed in what Served does not ask for.
SameSpaces == /\ SpaceShape' /\ space' = space
              /\ Len(spaces') = Len(spaces)
              /\ \A i \in 1 .. Len(spaces) : /\ spaces'[i].ready = spaces[i].ready
                                             /\ spaces'[i].indexed = spaces[i].indexed

\* A sequence of which one element is changed, if it has it.
LEMMA ChangedSeq ==
  ASSUME NEW S, NEW q \in Seq(S), NEW i, NEW e, NEW p, p = [q EXCEPT ![i] = e]
  PROVE  /\ p \in Seq(S \cup {e}) /\ Len(p) = Len(q)
         /\ \A j \in 1 .. Len(q) : p[j] = IF j = i THEN e ELSE q[j]
<1>1. q \in Seq(S \cup {e})
  BY SeqMonotonic
<1>2. CASE i \in 1 .. Len(q)
  BY <1>1, <1>2, ExceptSeq
<1>3. CASE i \notin 1 .. Len(q)
  <2>1. q \in [1 .. Len(q) -> S]
    BY LenProperties
  <2>2. p = q
    BY <1>3, <2>1
  <2> QED BY <1>1, <1>3, <2>2
<1> QED BY <1>2, <1>3

\* The same for spaces.
LEMMA ChangedSpace ==
  ASSUME NEW q, \E S : q \in Seq(S), NEW s, NEW r, NEW p, p = [q EXCEPT ![s] = r],
         \A i \in 1 .. Len(q) : IsSpace(q[i]), IsSpace(q[s]) => IsSpace(r)
  PROVE  /\ \E S : p \in Seq(S)
         /\ Len(p) = Len(q)
         /\ \A i \in 1 .. Len(q) : IsSpace(p[i]) /\ p[i] = IF i = s THEN r ELSE q[i]
<1>1. PICK S : q \in Seq(S)
  OBVIOUS
<1>2. p \in Seq(S \cup {r})
  BY <1>1, ChangedSeq
<1>6. Len(p) = Len(q)
  BY <1>1, ChangedSeq
<1>5. \A j \in 1 .. Len(q) : p[j] = IF j = s THEN r ELSE q[j]
  BY <1>1, ChangedSeq
<1>3. \A i \in 1 .. Len(q) : IsSpace(p[i])
  BY <1>5
<1>4. \E T : p \in Seq(T)
  BY <1>2
<1> QED BY <1>3, <1>4, <1>5, <1>6

\* One space is changed in what Served does not ask for.
LEMMA SpaceStays ==
  ASSUME SpaceShape, NEW s, NEW r, spaces' = [spaces EXCEPT ![s] = r], space' = space,
         IsSpace(spaces[s]) => IsSpace(r) /\ r.ready = spaces[s].ready /\ r.indexed = spaces[s].indexed
  PROVE  SameSpaces
<1>0. /\ \E S : spaces \in Seq(S)
      /\ \A i \in 1 .. Len(spaces) : IsSpace(spaces[i])
  BY DEF SpaceShape
<1> DEFINE p == spaces'
<1>1. /\ \E S : p \in Seq(S)
      /\ Len(p) = Len(spaces)
      /\ \A i \in 1 .. Len(spaces) : IsSpace(p[i]) /\ p[i] = IF i = s THEN r ELSE spaces[i]
  <2>1. p = [spaces EXCEPT ![s] = r]
    OBVIOUS
  <2> HIDE DEF p
  <2>2. \E S : p \in Seq(S)
    BY <1>0, <2>1, ChangedSpace, ZenonT(60)
  <2>3. Len(p) = Len(spaces)
    BY <1>0, <2>1, ChangedSpace
  <2>4. \A i \in 1 .. Len(spaces) : IsSpace(p[i]) /\ p[i] = IF i = s THEN r ELSE spaces[i]
    BY <1>0, <2>1, ChangedSpace
  <2> QED BY <2>2, <2>3, <2>4
<1>2. \A i \in 1 .. Len(spaces) : /\ spaces'[i].ready = spaces[i].ready
                                  /\ spaces'[i].indexed = spaces[i].indexed
  BY <1>0, <1>1
<1>3. SpaceShape'
  BY <1>1 DEF SpaceShape
<1> QED BY <1>1, <1>2, <1>3 DEF SameSpaces

\* A new space takes the place of another, and the others stay.
LEMMA NewSpaceShape ==
  ASSUME SpaceShape, NEW n \in Names, NEW s, IsSpace(s), NewSpace(n, s)
  PROVE  /\ SpaceShape'
         /\ space'[n] = Len(spaces) + 1 /\ space'[n] # 0 /\ spaces'[space'[n]] = s
         /\ \A m \in Names \ {n} : space'[m] = space[m]
         /\ \A i \in 1 .. Len(spaces) : spaces'[i] = spaces[i]
<1>1. PICK S : spaces \in Seq(S)
  BY DEF SpaceShape
<1>2. spaces \in Seq(S \cup {s}) /\ Len(spaces) \in Nat
  BY <1>1
<1>3. spaces' = Append(spaces, s) /\ space' = [space EXCEPT ![n] = Len(spaces) + 1]
  BY DEF NewSpace
<1>4. /\ spaces' \in Seq(S \cup {s}) /\ Len(spaces') = Len(spaces) + 1
      /\ spaces'[Len(spaces) + 1] = s
      /\ \A i \in 1 .. Len(spaces) : spaces'[i] = spaces[i]
  BY <1>2, <1>3
<1>5. \A i \in 1 .. Len(spaces') : IsSpace(spaces'[i])
  BY <1>2, <1>4 DEF SpaceShape
<1>6. space' \in [Names -> 0 .. Len(spaces')]
  BY <1>2, <1>3, <1>4 DEF SpaceShape
<1> QED BY <1>2, <1>3, <1>4, <1>5, <1>6 DEF SpaceShape

-----------------------------------------------------------------------------
(* What a step does to the call that takes it *)

Others(w) == \A v \in Workers \ {w} : work'[v] = work[v]

\* The call goes on at another place, goes on somewhere, or returns.
GoesTo(w, at) == /\ WorkShape' /\ Busy(w)' /\ Others(w)
                 /\ work'[w].op = work[w].op /\ work'[w].name = work[w].name /\ work'[w].at = at
Goes(w)       == /\ WorkShape' /\ Busy(w)' /\ Others(w)
                 /\ work'[w].op = work[w].op /\ work'[w].name = work[w].name
Returns(w)    == WorkShape' /\ work'[w] = Idle /\ Others(w)
Moves(w)      == Goes(w) \/ Returns(w)

\* A call that goes to a place is there.
LEMMA GoTo ==
  ASSUME WorkShape, NEW w \in Workers, Busy(w), NEW at, Go(w, at)
  PROVE  GoesTo(w, at)
BY GoShape DEF GoesTo, Others

\* A call that returns has returned.
LEMMA ReturnTo ==
  ASSUME WorkShape, NEW w \in Workers, Return(w)
  PROVE  Returns(w)
BY ReturnShape DEF Returns, Others

\* A call that keeps its operation and its name, whatever else it notes down.
LEMMA GoesWith ==
  ASSUME WorkShape, NEW w \in Workers, Busy(w), NEW a, work' = [work EXCEPT ![w] = a],
         DOMAIN a = DOMAIN work[w], a.op = work[w].op, a.name = work[w].name
  PROVE  Goes(w)
BY GoesOn DEF Goes, Others

\* A save that turns to the next object.
LEMMA NextTo ==
  ASSUME WorkShape, NEW w \in Workers, Busy(w), NEW at, NextObject(w, at)
  PROVE  GoesTo(w, at)
<1> DEFINE a == [work[w] EXCEPT !.at = at, !.to = Space(w), !.map = 0, !.data = {}]
<1>1. IsCall(work[w])
  BY DEF WorkShape, Busy
<1>2. DOMAIN a = DOMAIN work[w] /\ a.op = work[w].op /\ a.name = work[w].name /\ a.at = at
  BY <1>1 DEF IsCall
<1>3. work' = [work EXCEPT ![w] = a]
  BY DEF NextObject, WorkShape
<1> HIDE DEF a
<1>4. Goes(w)
  BY <1>2, <1>3, GoesWith
<1>5. work'[w].at = at
  BY <1>2, <1>3 DEF WorkShape
<1> QED BY <1>4, <1>5 DEF Goes, GoesTo

\* A save of an object that failed.
LEMMA AbandonTo ==
  ASSUME WorkShape, NEW w \in Workers, Busy(w), NEW at, Abandon(w, at)
  PROVE  IF work[w].op = "create" THEN GoesTo(w, "undo bucket")
         ELSE IF work[w].op = "close" THEN GoesTo(w, at) ELSE Returns(w)
BY GoTo, NextTo, ReturnTo DEF Abandon

\* A save of all objects.
LEMMA SavedTo ==
  ASSUME WorkShape, NEW w \in Workers, Busy(w), Saved(w)
  PROVE  /\ work[w].op = "create" => GoesTo(w, "flag") /\ loaded' = loaded
         /\ work[w].op = "release" =>
              GoesTo(w, IF mode = "edge" THEN "destroy" ELSE "unflag") /\ loaded' = loaded
         /\ work[w].op = "flush" => Returns(w) /\ loaded' = loaded
         /\ work[w].op = "close" => Returns(w)
<1>1. ASSUME work[w].op = "create" PROVE GoesTo(w, "flag") /\ loaded' = loaded
  BY <1>1, GoTo DEF Saved
<1>2. ASSUME work[w].op = "release"
      PROVE  GoesTo(w, IF mode = "edge" THEN "destroy" ELSE "unflag") /\ loaded' = loaded
  BY <1>2, GoTo DEF Saved
<1>3. ASSUME work[w].op = "flush" PROVE Returns(w) /\ loaded' = loaded
  BY <1>3, ReturnTo DEF Saved
<1>4. ASSUME work[w].op = "close" PROVE Returns(w)
  BY <1>4, ReturnTo DEF Saved
<1> QED BY <1>1, <1>2, <1>3, <1>4

\* What was ready or indexed stays so.
Grows == \A i \in 1 .. Len(spaces) : /\ spaces[i].ready => spaces'[i].ready
                                     /\ spaces[i].indexed => spaces'[i].indexed

\* One space is changed, and has at least what it had.
LEMMA SpaceGrows ==
  ASSUME SpaceShape, NEW s \in 1 .. Len(spaces), NEW r, spaces' = [spaces EXCEPT ![s] = r],
         space' = space, IsSpace(spaces[s]) => IsSpace(r),
         spaces[s].ready => r.ready, spaces[s].indexed => r.indexed
  PROVE  SpaceShape' /\ Grows /\ spaces'[s] = r
<1>0. /\ \E S : spaces \in Seq(S)
      /\ \A i \in 1 .. Len(spaces) : IsSpace(spaces[i])
  BY DEF SpaceShape
<1> DEFINE p == spaces'
<1>1. p = [spaces EXCEPT ![s] = r]
  OBVIOUS
<1> HIDE DEF p
<1>2. \E S : p \in Seq(S)
  BY <1>0, <1>1, ChangedSpace
<1>3. Len(p) = Len(spaces)
  BY <1>0, <1>1, ChangedSpace
<1>4. \A i \in 1 .. Len(spaces) : IsSpace(p[i]) /\ p[i] = IF i = s THEN r ELSE spaces[i]
  BY <1>0, <1>1, ChangedSpace
<1> USE DEF p
<1>5. SpaceShape'
  BY <1>2, <1>3, <1>4 DEF SpaceShape
<1> QED BY <1>4, <1>5 DEF Grows

\* What stays the same grows.
LEMMA StaysGrows ==
  ASSUME SameSpaces PROVE SpaceShape' /\ Grows
BY DEF SameSpaces, Grows

\* A name loses its space.
LEMMA SpaceGoes ==
  ASSUME SpaceShape, NEW n \in Names, space' = [space EXCEPT ![n] = 0], UNCHANGED spaces
  PROVE  SpaceShape' /\ Grows /\ \A m \in Names \ {n} : space'[m] = space[m]
<1>1. PICK S : spaces \in Seq(S)
  BY DEF SpaceShape
<1>2. Len(spaces) \in Nat
  BY <1>1
<1>3. SpaceShape'
  BY <1>2 DEF SpaceShape
<1>4. Grows
  BY DEF Grows
<1> QED BY <1>3, <1>4 DEF SpaceShape

\* A new space takes nothing from the others.
LEMMA NewSpaceGrows ==
  ASSUME SpaceShape, NEW n \in Names, NEW s, IsSpace(s), NewSpace(n, s)
  PROVE  /\ SpaceShape' /\ Grows
         /\ space'[n] # 0 /\ spaces'[space'[n]] = s
         /\ \A m \in Names \ {n} : space'[m] = space[m]
BY NewSpaceShape DEF Grows

\* A bucket is replaced, by none or by one of the same objects.
LEMMA BucketTo ==
  ASSUME BucketShape, NEW n \in Names, NEW b, b = NoBucket \/ IsBucket(b),
         bucket' = [bucket EXCEPT ![n] = b]
  PROVE  /\ BucketShape' /\ bucket'[n] = b
         /\ \A m \in Names \ {n} : bucket'[m] = bucket[m]
BY DEF BucketShape

\* An object is put into a bucket.
LEMMA ObjectTo ==
  ASSUME NoRecord, BucketShape, NEW n \in Names, bucket[n] # NoBucket, NEW object, NEW d,
         bucket' = [bucket EXCEPT ![n][object] = d]
  PROVE  /\ BucketShape' /\ bucket'[n] # NoBucket
         /\ \A m \in Names \ {n} : bucket'[m] = bucket[m]
<1> DEFINE b == [bucket[n] EXCEPT ![object] = d]
<1>1. IsBucket(b)
  BY DEF BucketShape, IsBucket
<1>2. bucket' = [bucket EXCEPT ![n] = b]
  OBVIOUS
<1>3. b # NoBucket
  BY <1>1 DEF IsBucket, NoRecord
<1> HIDE DEF b
<1> QED BY <1>1, <1>2, <1>3, BucketTo

-----------------------------------------------------------------------------
(* What a collection has *)

\* A space has its maps and, in edge, its index.
Full(n) == /\ space[n] # 0 /\ spaces[space[n]].ready
           /\ mode = "edge" => spaces[space[n]].indexed

\* What Served asks of a collection, whatever the process is doing.
Sound(n) == /\ n \in loaded => n \in exists /\ bucket[n] # NoBucket /\ Full(n)
            /\ mode = "edge" /\ n \in exists => bucket[n] # NoBucket

\* How far a call on a collection has come.
Progress(op, at, n) ==
  /\ op = "create" =>
       /\ at \in {"space", "meta", "vertex", "inverted", "flag"} => bucket[n] # NoBucket
       /\ at \in {"meta", "vertex", "inverted", "flag"} => Full(n)
  /\ op = "delete" => IF at = "flags" THEN Sound(n)
                      ELSE n \notin loaded /\ (mode = "edge" => n \notin exists)
  /\ op = "load" =>
       /\ n \notin loaded /\ (mode = "edge" /\ n \in exists => bucket[n] # NoBucket)
       /\ at # "fill" => bucket[n] # NoBucket
       /\ at = "load vertex" /\ mode = "edge" => space[n] # 0 /\ spaces[space[n]].indexed
       /\ at = "flag" => Full(n)
  /\ op = "release" =>
       /\ Sound(n)
       /\ mode = "edge" \/ at = "destroy" => n \notin loaded
  /\ op = "flush" => Sound(n)
  /\ op # "close"

\* Of the calls on collections only one is in progress, it has come as far as it
\* says, and every other collection is what Served asks.
UpInv == /\ \A v, w \in Admins : v = w
         /\ \A w \in Admins : Progress(work[w].op, work[w].at, work[w].name)
         /\ \A n \in Names : (\A w \in Admins : work[w].name # n) => Sound(n)

\* What UpInv asks is asked of a process that is up.
ServedInv == /\ process = "up" => UpInv
             /\ process = "down" => loaded = {} /\ \A w \in Workers : work[w] = Idle

\* A step leaves alone all collections but one.
Rest(n) ==
  /\ mode' = mode /\ Grows
  /\ \A m \in Names \ {n} : /\ space'[m] = space[m] /\ bucket'[m] = bucket[m]
                            /\ m \in loaded' <=> m \in loaded
                            /\ m \in exists' <=> m \in exists

\* Who is left alone keeps what Served asks.
LEMMA RestSound ==
  ASSUME SpaceShape, NEW n \in Names, Rest(n), NEW m \in Names \ {n}, Sound(m)
  PROVE  Sound(m)'
<1>1. space[m] # 0 => space[m] \in 1 .. Len(spaces)
  <2>1. PICK S : spaces \in Seq(S)
    BY DEF SpaceShape
  <2>2. Len(spaces) \in Nat /\ space[m] \in 0 .. Len(spaces)
    BY <2>1 DEF SpaceShape
  <2> QED BY <2>2
<1>2. Full(m) => Full(m)'
  BY <1>1 DEF Full, Rest, Grows
<1> QED BY <1>2 DEF Sound, Rest

\* Who is an administrator is a busy worker with a call on a collection.
LEMMA AdminCalls ==
  ASSUME WorkShape, NEW w \in Workers
  PROVE  w \in Admins <=> Busy(w) /\ work[w].op \in AdminOps
BY DEF Admins, Busy, Idle, AdminOps

\* A call on a collection that goes on.
LEMMA GoesServed ==
  ASSUME Shape, NEW w \in Workers, Busy(w), NEW op \in AdminOps, NEW at, NEW n \in Names,
         work[w].op = op, work[w].name = n, GoesTo(w, at), Rest(n),
         SpaceShape', BucketShape', process' = process, UpInv => Progress(op, at, n)'
  PROVE  Shape' /\ (UpInv => UpInv')
<1>1. Shape'
  BY DEF Shape, GoesTo
<1>2. ASSUME UpInv PROVE UpInv'
  <2>1. w \in Admins
    BY AdminCalls DEF Shape
  <2>2. Admins = {w}
    BY <1>2, <2>1 DEF UpInv
  <2>3. Admins' = {w}
    BY <2>2 DEF Admins, GoesTo, Others
  <2>4. \A m \in Names \ {n} : Sound(m)'
    BY <1>2, <2>2, RestSound DEF UpInv, Shape
  <2>5. Progress(work[w].op, work[w].at, work[w].name)'
    BY <1>2 DEF GoesTo
  <2> QED BY <2>3, <2>4, <2>5 DEF UpInv, GoesTo
<1> QED BY <1>1, <1>2

\* A call on a collection that returns.
LEMMA ReturnsServed ==
  ASSUME Shape, NEW w \in Workers, Busy(w), NEW op \in AdminOps, NEW n \in Names,
         work[w].op = op, work[w].name = n, Returns(w), Rest(n),
         SpaceShape', BucketShape', process' = process, UpInv => Sound(n)'
  PROVE  Shape' /\ (UpInv => UpInv')
<1>1. Shape'
  BY DEF Shape, Returns
<1>2. ASSUME UpInv PROVE UpInv'
  <2>1. w \in Admins
    BY AdminCalls DEF Shape
  <2>2. Admins = {w}
    BY <1>2, <2>1 DEF UpInv
  <2>3. Admins' = {}
    BY <2>2 DEF Admins, Returns, Others, Idle, AdminOps
  <2>4. \A m \in Names \ {n} : Sound(m)'
    BY <1>2, <2>2, RestSound DEF UpInv, Shape
  <2> QED BY <1>2, <2>3, <2>4 DEF UpInv
<1> QED BY <1>1, <1>2

\* Where a call on a collection is, and what that says.
LEMMA CallAt ==
  ASSUME Shape, NEW w \in Workers, NEW ops \in SUBSET AdminOps, NEW at, At(w, ops, at)
  PROVE  /\ WorkShape /\ SpaceShape /\ BucketShape
         /\ Busy(w) /\ work[w].op \in ops /\ work[w].at = at /\ work[w].name \in Names
         /\ UpInv => Progress(work[w].op, at, work[w].name)
<1>1. WorkShape /\ SpaceShape /\ BucketShape /\ Busy(w) /\ work[w].op \in ops /\ work[w].at = at
  BY DEF Shape, At
<1>2. work[w].name \in Names
  BY <1>1 DEF WorkShape, Busy, IsCall
<1>3. w \in Admins
  BY <1>1, AdminCalls
<1> QED BY <1>1, <1>2, <1>3 DEF UpInv

-----------------------------------------------------------------------------
(* CreateCollection and DeleteCollection *)

\* Nothing in memory is changed, and of the flags and buckets only those of n.
LEMMA RestBucket ==
  ASSUME SpaceShape, NEW n \in Names, UNCHANGED <<mode, space, spaces>>,
         \A m \in Names \ {n} : bucket'[m] = bucket[m],
         \A m \in Names \ {n} : (m \in loaded' <=> m \in loaded) /\ (m \in exists' <=> m \in exists)
  PROVE  SpaceShape' /\ Rest(n)
BY DEF SpaceShape, Rest, Grows

\* CreateBucket and Versioning (edge.go:104-121).
LEMMA CreateBucketServed ==
  ASSUME NoRecord, Shape, NEW w \in Workers, CreateBucket(w)
  PROVE  Shape' /\ (UpInv => UpInv')
<1>1. At(w, {"create"}, "bucket")
  BY DEF CreateBucket
<1>2. /\ WorkShape /\ SpaceShape /\ BucketShape /\ Busy(w) /\ work[w].op = "create"
  BY <1>1 DEF Shape, At
<1>3. PICK n \in Names : work[w].name = n
  BY <1>1, CallAt DEF AdminOps
<1> DEFINE empty == [meta |-> FALSE, vertex |-> NoObject, inverted |-> NoObject]
<1>4. IsBucket(empty) /\ empty # NoBucket
  BY DEF IsBucket, NoRecord
<1>6. BucketShape' /\ \A m \in Names \ {n} : bucket'[m] = bucket[m]
  <2>1. CASE UNCHANGED bucket
    BY <1>2, <2>1 DEF BucketShape
  <2>2. CASE \E b \in {NoBucket, empty} : bucket' = [bucket EXCEPT ![n] = b]
    <3>1. PICK b \in {NoBucket, empty} : bucket' = [bucket EXCEPT ![n] = b]
      BY <2>2
    <3> QED BY <1>2, <1>4, <3>1, BucketTo
  <2> QED BY <1>3, <2>1, <2>2 DEF CreateBucket
<1>7. UNCHANGED <<mode, process, exists, loaded, space, spaces>>
  BY DEF CreateBucket, flags, memory
<1>8. SpaceShape' /\ Rest(n)
  BY <1>2, <1>6, <1>7, RestBucket
<1>9. CASE bucket' = [bucket EXCEPT ![n] = empty] /\ Go(w, "space")
  <2>1. GoesTo(w, "space")
    BY <1>2, <1>9, GoTo
  <2>2. bucket'[n] # NoBucket
    BY <1>2, <1>4, <1>9 DEF BucketShape
  <2>3. Progress("create", "space", n)'
    BY <2>2 DEF Progress
  <2> QED BY <1>2, <1>3, <1>6, <1>7, <1>8, <2>1, <2>3, GoesServed DEF AdminOps
<1>10. CASE Go(w, "undo bucket")
  <2>1. GoesTo(w, "undo bucket")
    BY <1>2, <1>10, GoTo
  <2>2. Progress("create", "undo bucket", n)'
    BY DEF Progress
  <2> QED BY <1>2, <1>3, <1>6, <1>7, <1>8, <2>1, <2>2, GoesServed DEF AdminOps
<1> QED BY <1>3, <1>9, <1>10 DEF CreateBucket

\* A space is made complete.
LEMMA CreateSpaceServed ==
  ASSUME Shape, NEW w \in Workers, CreateSpace(w)
  PROVE  Shape' /\ (UpInv => UpInv')
<1>1. At(w, {"create"}, "space")
  BY DEF CreateSpace
<1>2. /\ WorkShape /\ SpaceShape /\ BucketShape /\ Busy(w) /\ work[w].op = "create"
  BY <1>1 DEF Shape, At
<1>3. PICK n \in Names : work[w].name = n
  BY <1>1, CallAt DEF AdminOps
<1>4. UpInv => Progress("create", "space", n)
  BY <1>1, <1>2, <1>3, CallAt DEF AdminOps
<1>5. UNCHANGED <<mode, process, exists, loaded, bucket>>
  BY DEF CreateSpace, flags
<1>6. BucketShape'
  BY <1>2, <1>5 DEF BucketShape
<1>7. CASE NewSpace(n, Fresh) /\ Go(w, "meta")
  <2>1. GoesTo(w, "meta")
    BY <1>2, <1>7, GoTo
  <2>2. IsSpace(Fresh) /\ Fresh.ready /\ (mode = "edge" => Fresh.indexed)
    BY DEF IsSpace, Fresh, Hollow
  <2>3. /\ SpaceShape' /\ Grows
        /\ space'[n] # 0 /\ spaces'[space'[n]] = Fresh
        /\ \A m \in Names \ {n} : space'[m] = space[m]
    BY <1>2, <1>7, <2>2, NewSpaceGrows
  <2>4. Rest(n)
    BY <1>5, <2>3 DEF Rest
  <2>5. UpInv => Progress("create", "meta", n)'
    BY <1>4, <1>5, <2>2, <2>3 DEF Progress, Full
  <2> QED BY <1>2, <1>3, <1>5, <1>6, <2>1, <2>3, <2>4, <2>5, GoesServed DEF AdminOps
<1>8. CASE Go(w, "undo bucket") /\ UNCHANGED <<space, spaces>>
  <2>1. GoesTo(w, "undo bucket")
    BY <1>2, <1>8, GoTo
  <2>2. Progress("create", "undo bucket", n)'
    BY DEF Progress
  <2>3. SpaceShape' /\ Rest(n)
    BY <1>2, <1>5, <1>8, RestBucket
  <2> QED BY <1>2, <1>3, <1>5, <1>6, <2>1, <2>2, <2>3, GoesServed DEF AdminOps
<1> QED BY <1>3, <1>7, <1>8 DEF CreateSpace

\* Whatever RemoveBucket leaves is a bucket or none, and of its collection.
LEMMA RemoveBucketTo ==
  ASSUME BucketShape, NEW w \in Workers, NEW n \in Names, work[w].name = n, RemoveBucket(w)
  PROVE  BucketShape' /\ \A m \in Names \ {n} : bucket'[m] = bucket[m]
<1>1. PICK b : (b = NoBucket \/ IsBucket(b)) /\ bucket' = [bucket EXCEPT ![n] = b]
  BY DEF RemoveBucket, IsBucket
<1> QED BY <1>1, BucketTo

\* A creation that failed takes back the bucket, ...
LEMMA CreateUndoBucketServed ==
  ASSUME Shape, NEW w \in Workers, CreateUndoBucket(w)
  PROVE  Shape' /\ (UpInv => UpInv')
<1>1. At(w, {"create"}, "undo bucket")
  BY DEF CreateUndoBucket
<1>2. /\ WorkShape /\ SpaceShape /\ BucketShape /\ Busy(w) /\ work[w].op = "create"
  BY <1>1 DEF Shape, At
<1>3. PICK n \in Names : work[w].name = n
  BY <1>1, CallAt DEF AdminOps
<1>4. UNCHANGED <<mode, process, exists, loaded, space, spaces>>
  BY DEF CreateUndoBucket, flags, memory
<1>5. BucketShape' /\ \A m \in Names \ {n} : bucket'[m] = bucket[m]
  BY <1>2, <1>3, RemoveBucketTo DEF CreateUndoBucket
<1>6. SpaceShape' /\ Rest(n)
  BY <1>2, <1>4, <1>5, RestBucket
<1>7. GoesTo(w, "undo space")
  BY <1>2, GoTo DEF CreateUndoBucket
<1>8. Progress("create", "undo space", n)'
  BY DEF Progress
<1> QED BY <1>2, <1>3, <1>4, <1>5, <1>6, <1>7, <1>8, GoesServed DEF AdminOps

\* ... the space, ...
LEMMA DestroySpaceServed ==
  ASSUME Shape, NEW w \in Workers, DestroySpace(w)
  PROVE  Shape' /\ (UpInv => UpInv')
<1>1. PICK op \in {"create", "delete", "release"}, at \in {"undo space", "space", "destroy"} :
        At(w, {op}, at) /\ (op = "release" => at = "destroy") /\ (op = "delete" => at = "space")
  BY DEF DestroySpace, At
<1>2. /\ WorkShape /\ SpaceShape /\ BucketShape /\ Busy(w) /\ work[w].op = op
  BY <1>1 DEF Shape, At
<1>3. PICK n \in Names : work[w].name = n
  BY <1>1, CallAt DEF AdminOps
<1>4. UpInv => Progress(op, at, n)
  BY <1>1, <1>2, <1>3, CallAt DEF AdminOps
<1>5. UNCHANGED <<mode, process, exists, loaded, bucket, spaces>>
  BY DEF DestroySpace, flags
<1>6. SpaceShape' /\ Grows /\ \A m \in Names \ {n} : space'[m] = space[m]
  BY <1>2, <1>3, <1>5, SpaceGoes DEF DestroySpace
<1>7. BucketShape' /\ Rest(n)
  BY <1>2, <1>5, <1>6 DEF BucketShape, Rest
<1>8. CASE op = "create"
  <2>1. GoesTo(w, "undo flags")
    BY <1>2, <1>8, GoTo DEF DestroySpace, At
  <2>2. Progress("create", "undo flags", n)'
    BY DEF Progress
  <2> QED BY <1>2, <1>3, <1>5, <1>6, <1>7, <1>8, <2>1, <2>2, GoesServed DEF AdminOps
<1>9. CASE op = "delete"
  <2>1. GoesTo(w, "remove bucket")
    BY <1>2, <1>9, GoTo DEF DestroySpace, At
  <2>2. UpInv => Progress("delete", "remove bucket", n)'
    BY <1>1, <1>4, <1>5, <1>9 DEF Progress
  <2> QED BY <1>2, <1>3, <1>5, <1>6, <1>7, <1>9, <2>1, <2>2, GoesServed DEF AdminOps
<1>10. CASE op = "release"
  <2>1. Returns(w)
    BY <1>2, <1>10, ReturnTo DEF DestroySpace, At
  <2>2. UpInv => Sound(n)'
    BY <1>1, <1>4, <1>5, <1>10 DEF Progress, Sound
  <2> QED BY <1>2, <1>3, <1>5, <1>6, <1>7, <1>10, <2>1, <2>2, ReturnsServed DEF AdminOps
<1> QED BY <1>1, <1>8, <1>9, <1>10

\* A step that changes only flags of its collection, and where the call is.
LEMMA FlagsShape ==
  ASSUME SpaceShape, BucketShape, NEW n \in Names, UNCHANGED <<mode, bucket, space, spaces>>,
         exists' \ {n} = exists \ {n}, loaded' \ {n} = loaded \ {n}
  PROVE  SpaceShape' /\ BucketShape' /\ Rest(n)
<1>1. \A m \in Names \ {n} : (m \in loaded' <=> m \in loaded) /\ (m \in exists' <=> m \in exists)
  OBVIOUS
<1>2. BucketShape'
  BY DEF BucketShape
<1> QED BY <1>1, <1>2, RestBucket

\* ... and the flags: what it leaves is not loaded and does not exist.
LEMMA CreateUndoFlagsServed ==
  ASSUME Shape, NEW w \in Workers, CreateUndoFlags(w)
  PROVE  Shape' /\ (UpInv => UpInv')
<1>1. At(w, {"create"}, "undo flags")
  BY DEF CreateUndoFlags
<1>2. /\ WorkShape /\ SpaceShape /\ BucketShape /\ Busy(w) /\ work[w].op = "create"
  BY <1>1 DEF Shape, At
<1>3. PICK n \in Names : work[w].name = n
  BY <1>1, CallAt DEF AdminOps
<1>4. /\ UNCHANGED <<mode, process, bucket, space, spaces>>
      /\ exists' = exists \ {n} /\ loaded' = loaded \ {n}
  BY <1>3 DEF CreateUndoFlags, DestroyFlags, memory
<1>5. SpaceShape' /\ BucketShape' /\ Rest(n)
  BY <1>2, <1>4, FlagsShape
<1>6. Returns(w)
  BY <1>2, ReturnTo DEF CreateUndoFlags
<1>7. Sound(n)'
  BY <1>4 DEF Sound
<1> QED BY <1>2, <1>3, <1>4, <1>5, <1>6, <1>7, ReturnsServed DEF AdminOps

\* The flags are set when the space is full.
LEMMA SetFlagsServed ==
  ASSUME Shape, NEW w \in Workers, SetFlags(w)
  PROVE  Shape' /\ (UpInv => UpInv')
<1>1. PICK op \in {"create", "load"} : At(w, {op}, "flag")
  BY DEF SetFlags, At
<1>2. /\ WorkShape /\ SpaceShape /\ BucketShape /\ Busy(w) /\ work[w].op = op
  BY <1>1 DEF Shape, At
<1>3. PICK n \in Names : work[w].name = n
  BY <1>1, CallAt DEF AdminOps
<1>4. UpInv => Progress(op, "flag", n)
  BY <1>1, <1>2, <1>3, CallAt DEF AdminOps
<1>5. /\ UNCHANGED <<mode, process, bucket, space, spaces>>
      /\ exists' = exists \cup {n} /\ loaded' = loaded \cup {n}
  BY <1>3 DEF SetFlags, memory
<1>6. SpaceShape' /\ BucketShape' /\ Rest(n)
  BY <1>2, <1>5, FlagsShape
<1>7. Returns(w)
  BY <1>2, ReturnTo DEF SetFlags
<1>8. UpInv => Full(n) /\ bucket[n] # NoBucket
  BY <1>1, <1>4 DEF Progress
<1>9. UpInv => Sound(n)'
  BY <1>5, <1>8 DEF Sound, Full
<1> QED BY <1>1, <1>2, <1>3, <1>5, <1>6, <1>7, <1>9, ReturnsServed DEF AdminOps

\* A collection that is being deleted has lost its flags before its space.
LEMMA DeleteFlagsServed ==
  ASSUME Shape, NEW w \in Workers, DeleteFlags(w)
  PROVE  Shape' /\ (UpInv => UpInv')
<1>1. At(w, {"delete"}, "flags")
  BY DEF DeleteFlags
<1>2. /\ WorkShape /\ SpaceShape /\ BucketShape /\ Busy(w) /\ work[w].op = "delete"
  BY <1>1 DEF Shape, At
<1>3. PICK n \in Names : work[w].name = n
  BY <1>1, CallAt DEF AdminOps
<1>4. UpInv => Sound(n)
  BY <1>1, <1>2, <1>3, CallAt DEF AdminOps, Progress
<1>5. /\ UNCHANGED <<mode, process, bucket, space, spaces>>
      /\ IF mode = "edge" \/ n \in exists \cap loaded
         THEN exists' = exists \ {n} /\ loaded' = loaded \ {n} ELSE UNCHANGED <<exists, loaded>>
  BY <1>3 DEF DeleteFlags, DestroyFlags, memory, flags
<1>6. SpaceShape' /\ BucketShape' /\ Rest(n)
  BY <1>2, <1>5, FlagsShape
<1>7. GoesTo(w, "space")
  BY <1>2, GoTo DEF DeleteFlags
<1>8. UpInv => Progress("delete", "space", n)'
  BY <1>4, <1>5 DEF Progress, Sound
<1> QED BY <1>2, <1>3, <1>5, <1>6, <1>7, <1>8, GoesServed DEF AdminOps

\* The bucket goes last.
LEMMA DeleteBucketServed ==
  ASSUME Shape, NEW w \in Workers, DeleteBucket(w)
  PROVE  Shape' /\ (UpInv => UpInv')
<1>1. At(w, {"delete"}, "remove bucket")
  BY DEF DeleteBucket
<1>2. /\ WorkShape /\ SpaceShape /\ BucketShape /\ Busy(w) /\ work[w].op = "delete"
  BY <1>1 DEF Shape, At
<1>3. PICK n \in Names : work[w].name = n
  BY <1>1, CallAt DEF AdminOps
<1>4. UpInv => Progress("delete", "remove bucket", n)
  BY <1>1, <1>2, <1>3, CallAt DEF AdminOps
<1>5. UNCHANGED <<mode, process, exists, loaded, space, spaces>>
  BY DEF DeleteBucket, flags, memory
<1>6. BucketShape' /\ \A m \in Names \ {n} : bucket'[m] = bucket[m]
  BY <1>2, <1>3, RemoveBucketTo DEF DeleteBucket
<1>7. SpaceShape' /\ Rest(n)
  BY <1>2, <1>5, <1>6, RestBucket
<1>8. Returns(w)
  BY <1>2, ReturnTo DEF DeleteBucket
<1>9. UpInv => Sound(n)'
  BY <1>4, <1>5 DEF Progress, Sound
<1> QED BY <1>2, <1>3, <1>5, <1>6, <1>7, <1>8, <1>9, ReturnsServed DEF AdminOps

-----------------------------------------------------------------------------
(* LoadCollection *)

\* A space is begun for a name that is not loaded.
LEMMA LoadFillServed ==
  ASSUME Shape, NEW w \in Workers, LoadFill(w)
  PROVE  Shape' /\ (UpInv => UpInv')
<1>1. At(w, {"load"}, "fill")
  BY DEF LoadFill
<1>2. /\ WorkShape /\ SpaceShape /\ BucketShape /\ Busy(w) /\ work[w].op = "load"
  BY <1>1 DEF Shape, At
<1>3. PICK n \in Names : work[w].name = n
  BY <1>1, CallAt DEF AdminOps
<1>4. UpInv => Progress("load", "fill", n)
  BY <1>1, <1>2, <1>3, CallAt DEF AdminOps
<1>5. UNCHANGED <<mode, process, exists, loaded, bucket>>
  BY DEF LoadFill, flags
<1>6. BucketShape'
  BY <1>2, <1>5 DEF BucketShape
<1> DEFINE described == [Hollow EXCEPT !.described = TRUE]
<1>7. IsSpace(Hollow) /\ IsSpace(described)
  BY DEF IsSpace, Hollow
<1>8. CASE HasMeta(n) /\ NewSpace(n, described)
           /\ Go(w, IF mode = "edge" THEN "load inverted" ELSE "load vertex")
  <2>1. /\ SpaceShape' /\ Grows
        /\ \A m \in Names \ {n} : space'[m] = space[m]
    BY <1>2, <1>7, <1>8, NewSpaceGrows
  <2>2. Rest(n)
    BY <1>5, <2>1 DEF Rest
  <2>3. bucket[n] # NoBucket
    BY <1>8 DEF HasMeta
  <2>4. CASE mode = "edge"
    <3>1. GoesTo(w, "load inverted")
      BY <1>2, <1>8, <2>4, GoTo
    <3>2. UpInv => Progress("load", "load inverted", n)'
      BY <1>4, <1>5, <2>3 DEF Progress
    <3> QED BY <1>2, <1>3, <1>5, <1>6, <2>1, <2>2, <3>1, <3>2, GoesServed DEF AdminOps
  <2>5. CASE mode # "edge"
    <3>1. GoesTo(w, "load vertex")
      BY <1>2, <1>8, <2>5, GoTo
    <3>2. UpInv => Progress("load", "load vertex", n)'
      BY <1>4, <1>5, <2>3, <2>5 DEF Progress
    <3> QED BY <1>2, <1>3, <1>5, <1>6, <2>1, <2>2, <3>1, <3>2, GoesServed DEF AdminOps
  <2> QED BY <2>4, <2>5
<1>9. CASE (UNCHANGED <<space, spaces>> \/ NewSpace(n, Hollow)) /\ Return(w)
  <2>1. Returns(w)
    BY <1>2, <1>9, ReturnTo
  <2>2. UpInv => Sound(n)'
    BY <1>4, <1>5 DEF Progress, Sound
  <2>3. CASE UNCHANGED <<space, spaces>>
    <3>1. SpaceShape' /\ Rest(n)
      BY <1>2, <1>5, <2>3, RestBucket
    <3> QED BY <1>2, <1>3, <1>5, <1>6, <2>1, <2>2, <3>1, ReturnsServed DEF AdminOps
  <2>4. CASE NewSpace(n, Hollow)
    <3>1. /\ SpaceShape' /\ Grows
          /\ \A m \in Names \ {n} : space'[m] = space[m]
      BY <1>2, <1>7, <2>4, NewSpaceGrows
    <3>2. Rest(n)
      BY <1>5, <3>1 DEF Rest
    <3> QED BY <1>2, <1>3, <1>5, <1>6, <2>1, <2>2, <3>1, <3>2, ReturnsServed DEF AdminOps
  <2> QED BY <1>9, <2>3, <2>4
<1> QED BY <1>3, <1>8, <1>9 DEF LoadFill

\* The space of a call, if its name has one.
LEMMA SpaceThere ==
  ASSUME SpaceShape, NEW n \in Names, space[n] # 0
  PROVE  space[n] \in 1 .. Len(spaces) /\ IsSpace(spaces[space[n]])
<1>1. PICK S : spaces \in Seq(S)
  BY DEF SpaceShape
<1>2. Len(spaces) \in Nat /\ space[n] \in 0 .. Len(spaces)
  BY <1>1 DEF SpaceShape
<1> QED BY <1>2 DEF SpaceShape

\* In edge the index comes before the vertices, ...
LEMMA LoadInvertedServed ==
  ASSUME Shape, NEW w \in Workers, LoadInverted(w)
  PROVE  Shape' /\ (UpInv => UpInv')
<1>1. At(w, {"load"}, "load inverted")
  BY DEF LoadInverted
<1>2. /\ WorkShape /\ SpaceShape /\ BucketShape /\ Busy(w) /\ work[w].op = "load"
  BY <1>1 DEF Shape, At
<1>3. PICK n \in Names : work[w].name = n
  BY <1>1, CallAt DEF AdminOps
<1>4. UpInv => Progress("load", "load inverted", n)
  BY <1>1, <1>2, <1>3, CallAt DEF AdminOps
<1>5. UNCHANGED <<mode, process, exists, loaded, bucket, space>>
  BY DEF LoadInverted, flags
<1>6. BucketShape'
  BY <1>2, <1>5 DEF BucketShape
<1> DEFINE s == space[n]
<1>7. CASE /\ s # 0
           /\ spaces' = [spaces EXCEPT ![s].indexed = TRUE, ![s].column = Len(shards) + 1]
           /\ Go(w, "load vertex")
  <2> DEFINE r == [spaces[s] EXCEPT !.indexed = TRUE, !.column = Len(shards) + 1]
  <2>1. s \in 1 .. Len(spaces) /\ IsSpace(spaces[s])
    BY <1>2, <1>7, SpaceThere
  <2>2. IsSpace(r) /\ r.indexed /\ (spaces[s].ready => r.ready)
    BY <2>1 DEF IsSpace
  <2>3. spaces' = [spaces EXCEPT ![s] = r]
    BY <1>2, <1>7, <2>1 DEF SpaceShape
  <2> HIDE DEF r
  <2>4. SpaceShape' /\ Grows /\ spaces'[s] = r
    BY <1>2, <1>5, <2>1, <2>2, <2>3, SpaceGrows
  <2>5. Rest(n)
    BY <1>5, <2>4 DEF Rest
  <2>6. GoesTo(w, "load vertex")
    BY <1>2, <1>7, GoTo
  <2>7. space'[n] # 0 /\ spaces'[space'[n]].indexed
    BY <1>5, <1>7, <2>2, <2>4
  <2>8. UpInv => Progress("load", "load vertex", n)'
    BY <1>4, <1>5, <2>7 DEF Progress
  <2> QED BY <1>2, <1>3, <1>5, <1>6, <2>4, <2>5, <2>6, <2>8, GoesServed DEF AdminOps
<1>8. CASE Return(w) /\ UNCHANGED spaces
  <2>1. Returns(w)
    BY <1>2, <1>8, ReturnTo
  <2>2. UpInv => Sound(n)'
    BY <1>4, <1>5 DEF Progress, Sound
  <2>3. SpaceShape' /\ Rest(n)
    BY <1>2, <1>5, <1>8, RestBucket
  <2> QED BY <1>2, <1>3, <1>5, <1>6, <2>1, <2>2, <2>3, ReturnsServed DEF AdminOps
<1> QED BY <1>3, <1>7, <1>8 DEF LoadInverted, Space

\* ... and with the vertices the space is full.
LEMMA LoadVertexServed ==
  ASSUME Shape, NEW w \in Workers, LoadVertex(w)
  PROVE  Shape' /\ (UpInv => UpInv')
<1>1. At(w, {"load"}, "load vertex")
  BY DEF LoadVertex
<1>2. /\ WorkShape /\ SpaceShape /\ BucketShape /\ Busy(w) /\ work[w].op = "load"
  BY <1>1 DEF Shape, At
<1>3. PICK n \in Names : work[w].name = n
  BY <1>1, CallAt DEF AdminOps
<1>4. UpInv => Progress("load", "load vertex", n)
  BY <1>1, <1>2, <1>3, CallAt DEF AdminOps
<1>5. UNCHANGED <<mode, process, exists, loaded, bucket, space>>
  BY DEF LoadVertex, flags
<1>6. BucketShape'
  BY <1>2, <1>5 DEF BucketShape
<1> DEFINE s == space[n]
<1>7. CASE /\ s # 0
           /\ spaces' = [spaces EXCEPT ![s].ready = TRUE, ![s].vertices = bucket[n].vertex]
           /\ Go(w, "flag")
  <2> DEFINE r == [spaces[s] EXCEPT !.ready = TRUE, !.vertices = bucket[n].vertex]
  <2>1. s \in 1 .. Len(spaces) /\ IsSpace(spaces[s])
    BY <1>2, <1>7, SpaceThere
  <2>2. IsSpace(r) /\ r.ready /\ (spaces[s].indexed => r.indexed)
    BY <2>1 DEF IsSpace
  <2>3. spaces' = [spaces EXCEPT ![s] = r]
    BY <1>2, <1>7, <2>1 DEF SpaceShape
  <2> HIDE DEF r
  <2>4. SpaceShape' /\ Grows /\ spaces'[s] = r
    BY <1>2, <1>5, <2>1, <2>2, <2>3, SpaceGrows
  <2>5. Rest(n)
    BY <1>5, <2>4 DEF Rest
  <2>6. GoesTo(w, "flag")
    BY <1>2, <1>7, GoTo
  <2>7. UpInv => Full(n)'
    BY <1>4, <1>5, <1>7, <2>2, <2>4 DEF Progress, Full
  <2>8. UpInv => Progress("load", "flag", n)'
    BY <1>4, <1>5, <2>7 DEF Progress
  <2> QED BY <1>2, <1>3, <1>5, <1>6, <2>4, <2>5, <2>6, <2>8, GoesServed DEF AdminOps
<1>8. CASE Return(w) /\ UNCHANGED spaces
  <2>1. Returns(w)
    BY <1>2, <1>8, ReturnTo
  <2>2. UpInv => Sound(n)'
    BY <1>4, <1>5 DEF Progress, Sound
  <2>3. SpaceShape' /\ Rest(n)
    BY <1>2, <1>5, <1>8, RestBucket
  <2> QED BY <1>2, <1>3, <1>5, <1>6, <2>1, <2>2, <2>3, ReturnsServed DEF AdminOps
<1> QED BY <1>3, <1>7, <1>8 DEF LoadVertex, Space

-----------------------------------------------------------------------------
(* What CreateCollection, ReleaseCollection, Flush and Close save *)

Saving == {"meta", "vertex", "inverted"}

\* A save changes neither what a collection is nor what its space has.
Keeps(n) ==
  /\ UNCHANGED <<mode, process, exists, space>>
  /\ SpaceShape' /\ Grows
  /\ BucketShape' /\ \A m \in Names \ {n} : bucket'[m] = bucket[m]
  /\ bucket[n] # NoBucket => bucket'[n] # NoBucket

\* So what Served asks holds on.
LEMMA KeepsSound ==
  ASSUME SpaceShape, NEW n \in Names, Keeps(n)
  PROVE  /\ Full(n) => Full(n)'
         /\ Sound(n) /\ (n \in loaded' => n \in loaded) => Sound(n)'
<1>1. Full(n) => Full(n)'
  BY SpaceThere DEF Full, Keeps, Grows
<1> QED BY <1>1 DEF Sound, Keeps

\* A save that goes on, or cannot.
LEMMA SaveGoes ==
  ASSUME Shape, NEW w \in Workers, Busy(w), NEW op \in Savers, NEW n \in Names,
         work[w].op = op, work[w].name = n, NEW at \in Saving,
         UpInv => Progress(op, at, n), Keeps(n), loaded' = loaded,
         \/ \E next \in Saving : GoesTo(w, next)
         \/ IF op = "create" THEN GoesTo(w, "undo bucket")
            ELSE IF op = "close" THEN \E next : GoesTo(w, next) ELSE Returns(w)
  PROVE  Shape' /\ (UpInv => UpInv')
<1>1. SpaceShape' /\ BucketShape' /\ process' = process /\ Rest(n) /\ op \in AdminOps /\ SpaceShape
  BY DEF Keeps, Rest, Shape, Savers, AdminOps
<1>2. (Full(n) => Full(n)') /\ (Sound(n) => Sound(n)')
  BY <1>1, KeepsSound
<1>3. ASSUME NEW next \in Saving, GoesTo(w, next) PROVE Shape' /\ (UpInv => UpInv')
  <2>1. UpInv => Progress(op, next, n)'
    BY <1>2, <1>3 DEF Progress, Keeps, Savers, Saving
  <2> QED BY <1>1, <1>3, <2>1, GoesServed
<1>4. CASE op = "create" /\ GoesTo(w, "undo bucket")
  <2>1. Progress("create", "undo bucket", n)'
    BY DEF Progress
  <2> QED BY <1>1, <1>4, <2>1, GoesServed
<1>5. ASSUME op = "close", NEW next, GoesTo(w, next) PROVE Shape' /\ (UpInv => UpInv')
  <2>1. UpInv => Progress(op, next, n)'
    BY <1>5 DEF Progress
  <2> QED BY <1>1, <1>5, <2>1, GoesServed
<1>6. CASE op \in {"release", "flush"} /\ Returns(w)
  <2>1. UpInv => Sound(n)'
    BY <1>2, <1>6 DEF Progress
  <2> QED BY <1>1, <1>6, <2>1, ReturnsServed
<1> QED BY <1>3, <1>4, <1>5, <1>6 DEF Savers

\* A save that is complete.
LEMMA SaveEnds ==
  ASSUME Shape, NEW w \in Workers, Busy(w), NEW op \in Savers, NEW n \in Names,
         work[w].op = op, work[w].name = n, NEW at \in Saving,
         UpInv => Progress(op, at, n), Keeps(n), Saved(w)
  PROVE  Shape' /\ (UpInv => UpInv')
<1>1. /\ WorkShape /\ SpaceShape /\ SpaceShape' /\ BucketShape' /\ process' = process
      /\ op \in AdminOps
  BY DEF Keeps, Shape, Savers, AdminOps
<1>2. Rest(n)
  <2>1. loaded' = loaded \/ loaded' = loaded \ {n}
    BY DEF Saved, Savers
  <2> QED BY <2>1 DEF Keeps, Rest
<1>3. CASE op = "create"
  <2>1. GoesTo(w, "flag") /\ loaded' = loaded
    BY <1>1, <1>3, SavedTo
  <2>2. UpInv => Progress(op, "flag", n)'
    BY <1>1, <1>3, KeepsSound DEF Progress, Keeps, Saving
  <2> QED BY <1>1, <1>2, <2>1, <2>2, GoesServed
<1>4. CASE op = "release"
  <2>1. loaded' = loaded
    BY <1>1, <1>4, SavedTo
  <2>2. UpInv => Sound(n)'
    BY <1>1, <1>4, <2>1, KeepsSound DEF Progress
  <2>3. CASE mode = "edge"
    <3>1. GoesTo(w, "destroy")
      BY <1>1, <1>4, <2>3, SavedTo
    <3>2. UpInv => Progress(op, "destroy", n)'
      BY <1>4, <2>1, <2>2, <2>3 DEF Progress
    <3> QED BY <1>1, <1>2, <3>1, <3>2, GoesServed
  <2>4. CASE mode # "edge"
    <3>1. GoesTo(w, "unflag")
      BY <1>1, <1>4, <2>4, SavedTo
    <3>2. UpInv => Progress(op, "unflag", n)'
      BY <1>4, <2>1, <2>2, <2>4 DEF Progress, Keeps
    <3> QED BY <1>1, <1>2, <3>1, <3>2, GoesServed
  <2> QED BY <2>3, <2>4
<1>5. CASE op = "flush"
  <2>1. Returns(w) /\ loaded' = loaded
    BY <1>1, <1>5, SavedTo
  <2>2. UpInv => Sound(n)'
    BY <1>1, <1>5, <2>1, KeepsSound DEF Progress
  <2> QED BY <1>1, <1>2, <2>1, <2>2, ReturnsServed
<1>6. CASE op = "close"
  <2>1. Returns(w)
    BY <1>1, <1>6, SavedTo
  <2>2. UpInv => Sound(n)'
    BY <1>6 DEF Progress
  <2> QED BY <1>1, <1>2, <2>1, <2>2, ReturnsServed
<1> QED BY <1>3, <1>4, <1>5, <1>6 DEF Savers

\* A call that notes down what it has read, and stays where it is.
LEMMA StaysAt ==
  ASSUME WorkShape, NEW w \in Workers, Busy(w), NEW at, work[w].at = at, NEW a,
         work' = [work EXCEPT ![w] = a],
         DOMAIN a = DOMAIN work[w], a.op = work[w].op, a.name = work[w].name, a.at = work[w].at
  PROVE  GoesTo(w, at)
<1>1. Goes(w)
  BY GoesWith
<1>2. work'[w] = a
  BY DEF WorkShape
<1> QED BY <1>1, <1>2 DEF Goes, GoesTo

\* Where a save is, and what its call has come to.
LEMMA SaveAt ==
  ASSUME Shape, NEW w \in Workers, NEW at, At(w, Savers, at)
  PROVE  /\ WorkShape /\ SpaceShape /\ BucketShape /\ Busy(w) /\ work[w].at = at
         /\ \E op \in Savers, n \in Names :
              work[w].op = op /\ work[w].name = n /\ (UpInv => Progress(op, at, n))
<1>1. WorkShape /\ SpaceShape /\ BucketShape /\ Busy(w) /\ work[w].at = at /\ work[w].op \in Savers
  BY DEF Shape, At
<1>2. Savers \in SUBSET AdminOps
  BY DEF Savers, AdminOps
<1>3. work[w].name \in Names
  BY <1>2, CallAt
<1>4. UpInv => Progress(work[w].op, at, work[w].name)
  BY <1>2, CallAt
<1> QED BY <1>1, <1>3, <1>4

\* A step that saves nothing yet.
LEMMA KeepsAll ==
  ASSUME SpaceShape, BucketShape, NEW n \in Names,
         UNCHANGED <<mode, process, exists, space, spaces, bucket>>
  PROVE  Keeps(n)
BY DEF Keeps, SpaceShape, BucketShape, Grows

\* A step that puts an object.
LEMMA KeepsPut ==
  ASSUME NoRecord, SpaceShape, BucketShape, NEW n \in Names, bucket[n] # NoBucket,
         NEW object, NEW d, bucket' = [bucket EXCEPT ![n][object] = d],
         UNCHANGED <<mode, process, exists, space, spaces>>
  PROVE  Keeps(n)
<1>1. /\ BucketShape' /\ bucket'[n] # NoBucket
      /\ \A m \in Names \ {n} : bucket'[m] = bucket[m]
  BY ObjectTo
<1> QED BY <1>1 DEF Keeps, SpaceShape, Grows

\* The metadata.
LEMMA SaveMetaServed ==
  ASSUME NoRecord, Shape, NEW w \in Workers, SaveMeta(w)
  PROVE  Shape' /\ (UpInv => UpInv')
<1>1. At(w, Savers, "meta")
  BY DEF SaveMeta
<1>2. WorkShape /\ SpaceShape /\ BucketShape /\ Busy(w)
  BY <1>1, SaveAt
<1>3. PICK op \in Savers, n \in Names :
        work[w].op = op /\ work[w].name = n /\ (UpInv => Progress(op, "meta", n))
  BY <1>1, SaveAt
<1>4. UNCHANGED <<mode, process, exists, loaded, space, spaces>>
  BY DEF SaveMeta, flags, memory
<1>5. CASE /\ bucket[n] # NoBucket
           /\ bucket' = [bucket EXCEPT ![n].meta = TRUE] /\ NextObject(w, "vertex")
  <2>1. Keeps(n)
    BY <1>2, <1>4, <1>5, KeepsPut
  <2>2. GoesTo(w, "vertex") /\ "vertex" \in Saving /\ "meta" \in Saving
    BY <1>2, <1>5, NextTo DEF Saving
  <2> QED BY <1>2, <1>3, <1>4, <2>1, <2>2, SaveGoes
<1>6. CASE Abandon(w, "vertex") /\ UNCHANGED bucket
  <2>1. Keeps(n)
    BY <1>2, <1>4, <1>6, KeepsAll
  <2>2. IF op = "create" THEN GoesTo(w, "undo bucket")
        ELSE IF op = "close" THEN \E next : GoesTo(w, next) ELSE Returns(w)
    BY <1>2, <1>3, <1>6, AbandonTo
  <2>3. "meta" \in Saving
    BY DEF Saving
  <2> QED BY <1>2, <1>3, <1>4, <2>1, <2>2, <2>3, SaveGoes
<1> QED BY <1>3, <1>5, <1>6 DEF SaveMeta

\* One map of the vertices is read.
LEMMA SaveVertexMapServed ==
  ASSUME Shape, NEW w \in Workers, SaveVertexMap(w)
  PROVE  Shape' /\ (UpInv => UpInv')
<1>1. At(w, Savers, "vertex")
  BY DEF SaveVertexMap
<1>2. WorkShape /\ SpaceShape /\ BucketShape /\ Busy(w) /\ work[w].at = "vertex"
  BY <1>1, SaveAt
<1>3. PICK op \in Savers, n \in Names :
        work[w].op = op /\ work[w].name = n /\ (UpInv => Progress(op, "vertex", n))
  BY <1>1, SaveAt
<1>4. UNCHANGED <<mode, process, exists, loaded, space, spaces, bucket>>
  BY DEF SaveVertexMap, flags, memory
<1>5. Keeps(n)
  BY <1>2, <1>4, KeepsAll
<1> DEFINE a == [work[w] EXCEPT !.map = work[w].map + 1,
                                !.data = @ \cup Part(work[w].to, work[w].map)]
<1>6. work' = [work EXCEPT ![w] = a]
  BY <1>2 DEF SaveVertexMap, WorkShape
<1>7. IsCall(work[w])
  BY <1>2 DEF WorkShape, Busy
<1>8. DOMAIN a = DOMAIN work[w] /\ a.op = work[w].op /\ a.name = work[w].name /\ a.at = work[w].at
  BY <1>7 DEF IsCall
<1> HIDE DEF a
<1>9. GoesTo(w, "vertex") /\ "vertex" \in Saving
  BY <1>2, <1>6, <1>8, StaysAt DEF Saving
<1> QED BY <1>2, <1>3, <1>4, <1>5, <1>9, SaveGoes

\* A map cannot be read: a lock may be kept, the maps and the index stay.
LEMMA SaveVertexFailsServed ==
  ASSUME Shape, NEW w \in Workers, SaveVertexFails(w)
  PROVE  Shape' /\ (UpInv => UpInv')
<1>1. At(w, Savers, "vertex")
  BY DEF SaveVertexFails
<1>2. WorkShape /\ SpaceShape /\ BucketShape /\ Busy(w) /\ work[w].at = "vertex"
  BY <1>1, SaveAt
<1>3. PICK op \in Savers, n \in Names :
        work[w].op = op /\ work[w].name = n /\ (UpInv => Progress(op, "vertex", n))
  BY <1>1, SaveAt
<1>4. UNCHANGED <<mode, process, exists, loaded, space, bucket>>
  BY DEF SaveVertexFails, flags
<1>5. SpaceShape' /\ Grows
  <2>1. spaces' = KeepLock(work[w].to, work[w].map)
    BY DEF SaveVertexFails
  <2>2. CASE spaces' = spaces
    BY <1>2, <1>4, <2>2 DEF SpaceShape, Grows
  <2>3. CASE spaces' = [spaces EXCEPT ![work[w].to].leaked = @ \cup {work[w].map}]
    <3> DEFINE s == work[w].to
               r == [spaces[s] EXCEPT !.leaked = @ \cup {work[w].map}]
    <3>1. IsSpace(spaces[s]) => IsSpace(r) /\ r.ready = spaces[s].ready /\ r.indexed = spaces[s].indexed
      BY DEF IsSpace
    <3>2. spaces' = [spaces EXCEPT ![s] = r]
      BY <2>3
    <3> HIDE DEF r
    <3>3. SameSpaces
      BY <1>2, <1>4, <3>1, <3>2, SpaceStays
    <3> QED BY <3>3, StaysGrows
  <2> QED BY <2>1, <2>2, <2>3 DEF KeepLock
<1>6. Keeps(n)
  BY <1>2, <1>4, <1>5 DEF Keeps, BucketShape
<1>7. "vertex" \in Saving
  BY DEF Saving
<1>8. CASE /\ work[w].op = "close"
           /\ work' = [work EXCEPT ![w].map = MapShards, ![w].data = Unreadable]
  <2> DEFINE a == [work[w] EXCEPT !.map = MapShards, !.data = Unreadable]
  <2>1. work' = [work EXCEPT ![w] = a]
    BY <1>2, <1>8 DEF WorkShape
  <2>2. IsCall(work[w])
    BY <1>2 DEF WorkShape, Busy
  <2>3. DOMAIN a = DOMAIN work[w] /\ a.op = work[w].op /\ a.name = work[w].name /\ a.at = work[w].at
    BY <2>2 DEF IsCall
  <2> HIDE DEF a
  <2>4. GoesTo(w, "vertex")
    BY <1>2, <2>1, <2>3, StaysAt
  <2> QED BY <1>2, <1>3, <1>4, <1>6, <1>7, <2>4, SaveGoes
<1>9. CASE work[w].op # "close" /\ Abandon(w, "")
  <2>1. IF op = "create" THEN GoesTo(w, "undo bucket")
        ELSE IF op = "close" THEN \E next : GoesTo(w, next) ELSE Returns(w)
    BY <1>2, <1>3, <1>9, AbandonTo
  <2> QED BY <1>2, <1>3, <1>4, <1>6, <1>7, <2>1, SaveGoes
<1> QED BY <1>8, <1>9 DEF SaveVertexFails

\* The vertices.
LEMMA SaveVertexPutServed ==
  ASSUME NoRecord, Shape, NEW w \in Workers, SaveVertexPut(w)
  PROVE  Shape' /\ (UpInv => UpInv')
<1>1. At(w, Savers, "vertex")
  BY DEF SaveVertexPut
<1>2. WorkShape /\ SpaceShape /\ BucketShape /\ Busy(w)
  BY <1>1, SaveAt
<1>3. PICK op \in Savers, n \in Names :
        work[w].op = op /\ work[w].name = n /\ (UpInv => Progress(op, "vertex", n))
  BY <1>1, SaveAt
<1>4. UNCHANGED <<mode, process, exists, space, spaces>>
  BY DEF SaveVertexPut, memory
<1>5. "vertex" \in Saving /\ "inverted" \in Saving
  BY DEF Saving
<1>6. Keeps(n)
  <2>1. CASE PutObject(w, "vertex")
    BY <1>2, <1>3, <1>4, <2>1, KeepsPut DEF PutObject
  <2>2. CASE UNCHANGED bucket
    BY <1>2, <1>4, <2>2, KeepsAll
  <2> QED BY <2>1, <2>2 DEF SaveVertexPut
<1>7. CASE NextObject(w, "inverted") /\ loaded' = loaded
  <2>1. GoesTo(w, "inverted")
    BY <1>2, <1>7, NextTo
  <2> QED BY <1>2, <1>3, <1>5, <1>6, <1>7, <2>1, SaveGoes
<1>8. CASE Saved(w)
  BY <1>2, <1>3, <1>5, <1>6, <1>8, SaveEnds
<1>9. CASE Abandon(w, "inverted") /\ loaded' = loaded
  <2>1. IF op = "create" THEN GoesTo(w, "undo bucket")
        ELSE IF op = "close" THEN \E next : GoesTo(w, next) ELSE Returns(w)
    BY <1>2, <1>3, <1>9, AbandonTo
  <2> QED BY <1>2, <1>3, <1>5, <1>6, <1>9, <2>1, SaveGoes
<1> QED BY <1>7, <1>8, <1>9 DEF SaveVertexPut

\* The inverted index is read.
LEMMA SaveInvertedServed ==
  ASSUME Shape, NEW w \in Workers, SaveInverted(w)
  PROVE  Shape' /\ (UpInv => UpInv')
<1>1. At(w, Savers, "inverted")
  BY DEF SaveInverted
<1>2. WorkShape /\ SpaceShape /\ BucketShape /\ Busy(w) /\ work[w].at = "inverted"
  BY <1>1, SaveAt
<1>3. PICK op \in Savers, n \in Names :
        work[w].op = op /\ work[w].name = n /\ (UpInv => Progress(op, "inverted", n))
  BY <1>1, SaveAt
<1>4. UNCHANGED <<mode, process, exists, loaded, space, spaces, bucket>>
  BY DEF SaveInverted, flags, memory
<1>5. Keeps(n) /\ "inverted" \in Saving
  BY <1>2, <1>4, KeepsAll DEF Saving
<1>6. ASSUME NEW d, work' = [work EXCEPT ![w].map = MapShards, ![w].data = d]
      PROVE  Shape' /\ (UpInv => UpInv')
  <2> DEFINE a == [work[w] EXCEPT !.map = MapShards, !.data = d]
  <2>1. work' = [work EXCEPT ![w] = a]
    BY <1>2, <1>6 DEF WorkShape
  <2>2. IsCall(work[w])
    BY <1>2 DEF WorkShape, Busy
  <2>3. DOMAIN a = DOMAIN work[w] /\ a.op = work[w].op /\ a.name = work[w].name /\ a.at = work[w].at
    BY <2>2 DEF IsCall
  <2> HIDE DEF a
  <2>4. GoesTo(w, "inverted")
    BY <1>2, <2>1, <2>3, StaysAt
  <2> QED BY <1>2, <1>3, <1>4, <1>5, <2>4, SaveGoes
<1>7. CASE Abandon(w, "")
  <2>1. IF op = "create" THEN GoesTo(w, "undo bucket")
        ELSE IF op = "close" THEN \E next : GoesTo(w, next) ELSE Returns(w)
    BY <1>2, <1>3, <1>7, AbandonTo
  <2> QED BY <1>2, <1>3, <1>4, <1>5, <2>1, SaveGoes
<1>8. CASE work' = [work EXCEPT ![w].map = MapShards, ![w].data = Postings(work[w].to)]
  BY <1>6, <1>8
<1>9. CASE work' = [work EXCEPT ![w].map = MapShards, ![w].data = Unreadable]
  BY <1>6, <1>9
<1> QED BY <1>7, <1>8, <1>9 DEF SaveInverted

\* The inverted index.
LEMMA SaveInvertedPutServed ==
  ASSUME NoRecord, Shape, NEW w \in Workers, SaveInvertedPut(w)
  PROVE  Shape' /\ (UpInv => UpInv')
<1>1. At(w, Savers, "inverted")
  BY DEF SaveInvertedPut
<1>2. WorkShape /\ SpaceShape /\ BucketShape /\ Busy(w)
  BY <1>1, SaveAt
<1>3. PICK op \in Savers, n \in Names :
        work[w].op = op /\ work[w].name = n /\ (UpInv => Progress(op, "inverted", n))
  BY <1>1, SaveAt
<1>4. UNCHANGED <<mode, process, exists, space, spaces>>
  BY DEF SaveInvertedPut, memory
<1>5. "inverted" \in Saving
  BY DEF Saving
<1>6. Keeps(n)
  <2>1. CASE PutObject(w, "inverted")
    BY <1>2, <1>3, <1>4, <2>1, KeepsPut DEF PutObject
  <2>2. CASE UNCHANGED bucket
    BY <1>2, <1>4, <2>2, KeepsAll
  <2> QED BY <2>1, <2>2 DEF SaveInvertedPut
<1>7. CASE Saved(w)
  BY <1>2, <1>3, <1>5, <1>6, <1>7, SaveEnds
<1>8. CASE Abandon(w, "") /\ loaded' = loaded
  <2>1. IF op = "create" THEN GoesTo(w, "undo bucket")
        ELSE IF op = "close" THEN \E next : GoesTo(w, next) ELSE Returns(w)
    BY <1>2, <1>3, <1>8, AbandonTo
  <2> QED BY <1>2, <1>3, <1>5, <1>6, <1>8, <2>1, SaveGoes
<1> QED BY <1>7, <1>8 DEF SaveInvertedPut

\* experimental drops the flag when all is saved.
LEMMA ReleaseUnflagServed ==
  ASSUME Shape, NEW w \in Workers, ReleaseUnflag(w)
  PROVE  Shape' /\ (UpInv => UpInv')
<1>1. At(w, {"release"}, "unflag")
  BY DEF ReleaseUnflag
<1>2. /\ WorkShape /\ SpaceShape /\ BucketShape /\ Busy(w) /\ work[w].op = "release"
  BY <1>1 DEF Shape, At
<1>3. PICK n \in Names : work[w].name = n
  BY <1>1, CallAt DEF AdminOps
<1>4. UpInv => Sound(n)
  BY <1>1, <1>2, <1>3, CallAt DEF AdminOps, Progress
<1>5. UNCHANGED <<mode, process, bucket, exists, space, spaces>> /\ loaded' = loaded \ {n}
  BY <1>3 DEF ReleaseUnflag, memory
<1>6. SpaceShape' /\ BucketShape' /\ Rest(n)
  BY <1>2, <1>5, FlagsShape
<1>7. GoesTo(w, "destroy")
  BY <1>2, GoTo DEF ReleaseUnflag
<1>8. UpInv => Progress("release", "destroy", n)'
  BY <1>4, <1>5 DEF Progress, Sound
<1> QED BY <1>2, <1>3, <1>5, <1>6, <1>7, <1>8, GoesServed DEF AdminOps

\* The steps of a call on a collection.
LEMMA AdminStepServed ==
  ASSUME NoRecord, Shape, NEW w \in Workers, AdminStep(w)
  PROVE  Shape' /\ (UpInv => UpInv') /\ process' = process /\ Busy(w)
<1>1. Shape' /\ (UpInv => UpInv')
  BY CreateBucketServed, CreateSpaceServed, CreateUndoBucketServed, CreateUndoFlagsServed,
     DestroySpaceServed, SetFlagsServed, DeleteFlagsServed, DeleteBucketServed, LoadFillServed,
     LoadInvertedServed, LoadVertexServed, ReleaseUnflagServed, SaveMetaServed,
     SaveVertexMapServed, SaveVertexFailsServed, SaveVertexPutServed, SaveInvertedServed,
     SaveInvertedPutServed DEF AdminStep
<1>2. process' = process /\ Busy(w)
  BY DEF AdminStep, At, CreateBucket, CreateSpace, CreateUndoBucket, CreateUndoFlags,
         DestroySpace, SetFlags, DeleteFlags, DeleteBucket, LoadFill, LoadInverted, LoadVertex,
         ReleaseUnflag, SaveMeta, SaveVertexMap, SaveVertexFails, SaveVertexPut, SaveInverted,
         SaveInvertedPut
<1> QED BY <1>1, <1>2

-----------------------------------------------------------------------------
(* Calls on vertices and searches                                          *)

VertexOps == {"change", "remove", "search"}

\* What a call on vertices, or a search, leaves alone.
Aside(w) ==
  /\ Moves(w) /\ SpaceShape' /\ Grows
  /\ UNCHANGED <<mode, process, bucket, exists, loaded, space>>

\* A call on a collection does not notice.
LEMMA ElsewhereServed ==
  ASSUME Shape, NEW w \in Workers, w \notin Admins, w \notin Admins', WorkShape', Others(w),
         SpaceShape', Grows, UNCHANGED <<mode, process, bucket, exists, loaded, space>>
  PROVE  Shape' /\ (UpInv => UpInv')
<1>1. Shape'
  BY DEF Shape, BucketShape
<1>2. \A n \in Names : (Full(n) => Full(n)') /\ (Sound(n) => Sound(n)')
  <2> SUFFICES ASSUME NEW n \in Names PROVE (Full(n) => Full(n)') /\ (Sound(n) => Sound(n)')
    OBVIOUS
  <2>1. Keeps(n)
    BY <1>1 DEF Keeps, Shape
  <2>2. SpaceShape /\ (n \in loaded' => n \in loaded)
    BY DEF Shape
  <2>3. Full(n) => Full(n)'
    BY <2>1, <2>2, KeepsSound
  <2>4. Sound(n) => Sound(n)'
    BY <2>1, <2>2, KeepsSound
  <2> QED BY <2>3, <2>4
<1>3. ASSUME NEW op, NEW at, NEW n \in Names, Progress(op, at, n) PROVE Progress(op, at, n)'
  <2>1. space[n] # 0 /\ spaces[space[n]].indexed => space'[n] # 0 /\ spaces'[space'[n]].indexed
    BY SpaceThere DEF Grows, Shape
  <2> QED BY <1>2, <1>3, <2>1 DEF Progress
<1>6. \A v \in Workers \ {w} : work'[v] = work[v]
  BY DEF Others
<1>7. Admins' = Admins
  BY <1>6 DEF Admins
<1>8. ASSUME UpInv PROVE UpInv'
  <2>1. ASSUME NEW v \in Admins PROVE Progress(work[v].op, work[v].at, work[v].name)'
    <3>1. v \in Workers /\ work'[v] = work[v]
      BY <1>6 DEF Admins
    <3>2. work[v].name \in Names
      BY <3>1, AdminCalls DEF Shape, WorkShape, IsCall, Busy
    <3>3. PICK op, at, n : op = work[v].op /\ at = work[v].at /\ n = work[v].name
      OBVIOUS
    <3>4. Progress(op, at, n)
      BY <1>8, <3>3 DEF UpInv
    <3>5. Progress(op, at, n)'
      BY <1>3, <3>2, <3>3, <3>4
    <3> QED BY <3>1, <3>3, <3>5
  <2>2. ASSUME NEW n \in Names, \A v \in Admins' : work'[v].name # n PROVE Sound(n)'
    <3>1. \A v \in Admins : work[v].name # n
      BY <1>6, <1>7, <2>2 DEF Admins
    <3> QED BY <1>2, <1>8, <3>1 DEF UpInv
  <2> QED BY <1>7, <1>8, <2>1, <2>2 DEF UpInv
<1> QED BY <1>1, <1>8

\* The same for a step of a call in progress.
LEMMA AsideServed ==
  ASSUME Shape, NEW w \in Workers, Busy(w), work[w].op \in VertexOps, Aside(w)
  PROVE  Shape' /\ (UpInv => UpInv')
<1>1. w \notin Admins /\ w \notin Admins'
  BY DEF Aside, Moves, Goes, Returns, Admins, AdminOps, VertexOps, Idle
<1>2. WorkShape' /\ Others(w)
  BY DEF Aside, Moves, Goes, Returns
<1> QED BY <1>1, <1>2, ElsewhereServed DEF Aside

\* A call that keeps its operation and its name moves, ...
LEMMA AsideGoes ==
  ASSUME Shape, NEW w \in Workers, Busy(w), NEW a, work' = [work EXCEPT ![w] = a],
         DOMAIN a = DOMAIN work[w], a.op = work[w].op, a.name = work[w].name
  PROVE  Moves(w)
BY GoesWith DEF Moves, Shape

\* ... and so does one that returns, ...
LEMMA AsideReturns ==
  ASSUME Shape, NEW w \in Workers, Return(w)
  PROVE  Moves(w)
BY ReturnTo DEF Moves, Shape

\* Spaces of which one is changed in what Served does not ask for, or none.
LEMMA SameSpace ==
  ASSUME Shape, UNCHANGED space,
         \/ spaces' = spaces
         \/ \E s, c : spaces' = [spaces EXCEPT ![s].column = c]
         \/ \E s, c : spaces' = [spaces EXCEPT ![s].vertices = c]
         \/ \E s, c : spaces' = [spaces EXCEPT ![s].leaked = c]
  PROVE  SpaceShape' /\ Grows
<1>1. SpaceShape
  BY DEF Shape
<1>2. CASE spaces' = spaces
  BY <1>1, <1>2 DEF SpaceShape, Grows
<1>3. ASSUME NEW s, NEW c, spaces' = [spaces EXCEPT ![s].column = c] PROVE SpaceShape' /\ Grows
  <2> DEFINE r == [spaces[s] EXCEPT !.column = c]
  <2>1. IsSpace(spaces[s]) => IsSpace(r) /\ r.ready = spaces[s].ready /\ r.indexed = spaces[s].indexed
    BY DEF IsSpace
  <2>2. spaces' = [spaces EXCEPT ![s] = r]
    BY <1>3
  <2> HIDE DEF r
  <2> QED BY <1>1, <2>1, <2>2, SpaceStays, StaysGrows
<1>4. ASSUME NEW s, NEW c, spaces' = [spaces EXCEPT ![s].vertices = c] PROVE SpaceShape' /\ Grows
  <2> DEFINE r == [spaces[s] EXCEPT !.vertices = c]
  <2>1. IsSpace(spaces[s]) => IsSpace(r) /\ r.ready = spaces[s].ready /\ r.indexed = spaces[s].indexed
    BY DEF IsSpace
  <2>2. spaces' = [spaces EXCEPT ![s] = r]
    BY <1>4
  <2> HIDE DEF r
  <2> QED BY <1>1, <2>1, <2>2, SpaceStays, StaysGrows
<1>5. ASSUME NEW s, NEW c, spaces' = [spaces EXCEPT ![s].leaked = c] PROVE SpaceShape' /\ Grows
  <2> DEFINE r == [spaces[s] EXCEPT !.leaked = c]
  <2>1. IsSpace(spaces[s]) => IsSpace(r) /\ r.ready = spaces[s].ready /\ r.indexed = spaces[s].indexed
    BY DEF IsSpace
  <2>2. spaces' = [spaces EXCEPT ![s] = r]
    BY <1>5
  <2> HIDE DEF r
  <2> QED BY <1>1, <2>1, <2>2, SpaceStays, StaysGrows
<1> QED BY <1>2, <1>3, <1>4, <1>5

\* getShard changes no more of a space than its column.
LEMMA GetShardAside ==
  ASSUME Shape, NEW w \in Workers, Busy(w), IsCall(work[w]), UNCHANGED space, NEW at, GetShard(w, at)
  PROVE  Moves(w) /\ SpaceShape' /\ Grows
<1>1. SpaceShape' /\ Grows
  BY SameSpace DEF GetShard
<1>2. PICK i : work' = [work EXCEPT ![w].shard = i, ![w].at = at]
  BY DEF GetShard
<1> DEFINE a == [work[w] EXCEPT !.shard = i, !.at = at]
<1>3. work' = [work EXCEPT ![w] = a]
  BY <1>2 DEF Shape, WorkShape
<1>4. DOMAIN a = DOMAIN work[w] /\ a.op = work[w].op /\ a.name = work[w].name
  BY DEF IsCall
<1> HIDE DEF a
<1>5. Moves(w)
  BY <1>3, <1>4, AsideGoes
<1> QED BY <1>1, <1>5

\* ... and one that only goes to another place.
LEMMA GoAside ==
  ASSUME Shape, NEW w \in Workers, Busy(w), NEW at, Go(w, at)
  PROVE  Moves(w)
BY GoTo DEF Moves, Goes, GoesTo, Shape

\* The steps of calls on vertices.
LEMMA ChangeStepAside ==
  ASSUME Shape, NEW w \in Workers, ChangeStep(w)
  PROVE  Busy(w) /\ work[w].op \in VertexOps /\ Aside(w)
<1>1. Busy(w) /\ work[w].op \in VertexOps /\ IsCall(work[w])
  BY DEF ChangeStep, Enter, ChangeColumn, ChangePost, ChangePanics, ChangeStore, RemoveColumn, RemoveSearch,
         RemoveNext, RemoveLock, RemoveFindColumn, RemovePosting, RemoveColumnShard, RemoveErase,
         MultiRemove, At, VertexOps, Shape, WorkShape, Busy
<1>2. UNCHANGED <<mode, process, bucket, exists, loaded, space>>
  BY DEF ChangeStep, Enter, ChangeColumn, ChangePost, ChangePanics, ChangeStore, RemoveColumn, RemoveSearch,
         RemoveNext, RemoveLock, RemoveFindColumn, RemovePosting, RemoveColumnShard, RemoveErase,
         MultiRemove, UnchangedByIndex, flags, memory
<1>3. ASSUME SpaceShape' /\ Grows, Moves(w)
      PROVE  Busy(w) /\ work[w].op \in VertexOps /\ Aside(w)
  BY <1>1, <1>2, <1>3 DEF Aside
<1>4. ASSUME spaces' = spaces \/ (\E s, c : spaces' = [spaces EXCEPT ![s].column = c])
             \/ (\E s, c : spaces' = [spaces EXCEPT ![s].vertices = c])
             \/ (\E s, c : spaces' = [spaces EXCEPT ![s].leaked = c]),
             Return(w) \/ \E at : Go(w, at)
      PROVE  Busy(w) /\ work[w].op \in VertexOps /\ Aside(w)
  <2>1. SpaceShape' /\ Grows
    BY <1>2, <1>4, SameSpace
  <2>2. Moves(w)
    BY <1>1, <1>4, AsideReturns, GoAside
  <2> QED BY <1>3, <2>1, <2>2
<1>5. CASE Enter(w)
  <2>1. spaces' = spaces
    BY <1>5 DEF Enter, memory
  <2>2. CASE Return(w)
    BY <1>4, <2>1, <2>2
  <2>3. ASSUME NEW to, NEW at, work' = [work EXCEPT ![w].to = to, ![w].at = at] PROVE Moves(w)
    <3> DEFINE a == [work[w] EXCEPT !.to = to, !.at = at]
    <3>1. work' = [work EXCEPT ![w] = a]
      BY <2>3 DEF Shape, WorkShape
    <3>2. DOMAIN a = DOMAIN work[w] /\ a.op = work[w].op /\ a.name = work[w].name
      BY <1>1 DEF IsCall
    <3> HIDE DEF a
    <3> QED BY <1>1, <3>1, <3>2, AsideGoes
  <2>4. CASE Moves(w)
    BY <1>2, <1>3, <2>1, <2>4, SameSpace
  <2> QED BY <1>5, <2>2, <2>3, <2>4 DEF Enter
<1>6. CASE ChangeColumn(w)
  <2>1. CASE GetShard(w, "post")
    BY <1>1, <1>2, <1>3, <2>1, GetShardAside
  <2>2. CASE Return(w) /\ UNCHANGED <<spaces, shards>>
    BY <1>4, <2>2
  <2> QED BY <1>6, <2>1, <2>2 DEF ChangeColumn
<1>7. CASE ChangePost(w)
  <2>1. spaces' = spaces /\ Go(w, "store")
    BY <1>7 DEF ChangePost
  <2> QED BY <1>4, <2>1
<1>8. CASE ChangeStore(w)
  <2>1. Return(w) /\ (spaces' = spaces \/ \E s, c : spaces' = [spaces EXCEPT ![s].vertices = c])
    BY <1>8 DEF ChangeStore
  <2> QED BY <1>4, <2>1
<1>9. CASE RemoveColumn(w)
  <2>1. CASE GetShard(w, "read")
    BY <1>1, <1>2, <1>3, <2>1, GetShardAside
  <2>2. CASE Return(w) /\ UNCHANGED <<spaces, shards>>
    BY <1>4, <2>2
  <2> QED BY <1>9, <2>1, <2>2 DEF RemoveColumn
<1>10. CASE RemoveSearch(w)
  <2> DEFINE a == [work[w] EXCEPT !.at = "next", !.ids = {p.id : p \in Found(w)}]
  <2>1. spaces' = spaces /\ work' = [work EXCEPT ![w] = a]
    BY <1>10 DEF RemoveSearch, Shape, WorkShape
  <2>2. DOMAIN a = DOMAIN work[w] /\ a.op = work[w].op /\ a.name = work[w].name
    BY <1>1 DEF IsCall
  <2> HIDE DEF a
  <2>3. Moves(w)
    BY <1>1, <2>1, <2>2, AsideGoes
  <2> QED BY <1>2, <1>3, <2>1, <2>3, SameSpace
<1>11. CASE RemoveNext(w)
  <2>1. spaces' = spaces
    BY <1>11 DEF RemoveNext
  <2>2. CASE Return(w)
    BY <1>4, <2>1, <2>2
  <2>3. ASSUME NEW id, work' = [work EXCEPT ![w].at = "lock", ![w].ids = work[w].ids \ {id},
                                            ![w].vertex.id = id]
        PROVE  Moves(w)
    <3> DEFINE a == [work[w] EXCEPT !.at = "lock", !.ids = work[w].ids \ {id}, !.vertex.id = id]
    <3>1. work' = [work EXCEPT ![w] = a]
      BY <2>3 DEF Shape, WorkShape
    <3>2. DOMAIN a = DOMAIN work[w] /\ a.op = work[w].op /\ a.name = work[w].name
      BY <1>1 DEF IsCall
    <3> HIDE DEF a
    <3> QED BY <1>1, <3>1, <3>2, AsideGoes
  <2>4. CASE Moves(w)
    BY <1>2, <1>3, <2>1, <2>4, SameSpace
  <2> QED BY <1>11, <2>2, <2>3, <2>4 DEF RemoveNext
<1>12. CASE RemoveLock(w)
  <2>1. spaces' = spaces /\ (Return(w) \/ \E at : Go(w, at))
    BY <1>12 DEF RemoveLock
  <2> QED BY <1>4, <2>1
<1>13. CASE RemoveFindColumn(w)
  BY <1>1, <1>2, <1>3, <1>13, GetShardAside DEF RemoveFindColumn
<1>14. CASE RemovePosting(w)
  <2>1. spaces' = spaces /\ (Return(w) \/ \E at : Go(w, at))
    BY <1>14 DEF RemovePosting
  <2> QED BY <1>4, <2>1
<1>15. CASE RemoveColumnShard(w)
  <2>1. (\E s, c : spaces' = [spaces EXCEPT ![s].column = c]) /\ Go(w, "erase")
    BY <1>15 DEF RemoveColumnShard
  <2> QED BY <1>4, <2>1
<1>16. CASE RemoveErase(w)
  <2>1. (\E s, c : spaces' = [spaces EXCEPT ![s].vertices = c]) /\ Go(w, "next")
    BY <1>16 DEF RemoveErase, Erase
  <2> QED BY <1>4, <2>1
<1>17. CASE MultiRemove(w)
  <2>1. Return(w) /\ (spaces' = spaces \/ \E s, c : spaces' = [spaces EXCEPT ![s].vertices = c])
    BY <1>17 DEF MultiRemove, Erase
  <2> QED BY <1>4, <2>1
<1>18. CASE ChangePanics(w)
  <2>1. PICK s, c : s = work[w].to /\ c = spaces[s].leaked \cup {ShardLock(work[w].shard)}
    OBVIOUS
  <2>2. spaces' = [spaces EXCEPT ![s].leaked = c] /\ Return(w)
    BY <1>18, <2>1 DEF ChangePanics
  <2> QED BY <1>4, <2>2
<1> QED BY <1>5, <1>6, <1>7, <1>8, <1>9, <1>10, <1>11, <1>12, <1>13, <1>14, <1>15, <1>16, <1>17, <1>18
        DEF ChangeStep

\* A search that knows what to read.
LEMMA SearchScanAside ==
  ASSUME Shape, NEW w \in Workers, Busy(w), IsCall(work[w]), NEW s, NEW ids, SearchScan(w, s, ids)
  PROVE  Moves(w)
<1>1. PICK at, left : work' = [work EXCEPT ![w].at = at, ![w].to = s, ![w].ids = ids, ![w].left = left]
  BY DEF SearchScan
<1> DEFINE a == [work[w] EXCEPT !.at = at, !.to = s, !.ids = ids, !.left = left]
<1>2. work' = [work EXCEPT ![w] = a]
  BY <1>1 DEF Shape, WorkShape
<1>3. DOMAIN a = DOMAIN work[w] /\ a.op = work[w].op /\ a.name = work[w].name
  BY DEF IsCall
<1> HIDE DEF a
<1> QED BY <1>2, <1>3, AsideGoes

\* The steps of searches; a panic ends the process.
LEMMA SearchStepAside ==
  ASSUME Shape, NEW w \in Workers, SearchStep(w)
  PROVE  Busy(w) /\ work[w].op \in VertexOps /\ (Aside(w) \/ Die)
<1>1. Busy(w) /\ work[w].op \in VertexOps /\ IsCall(work[w])
  BY DEF SearchStep, SearchEnter, SearchColumn, SearchFilter, SearchMap, SearchAnswer, SearchEnd,
         SearchFails, SearchKeepsLock, SearchPanics, At, VertexOps, Shape, WorkShape, Busy
<1>2. CASE SearchPanics(w)
  BY <1>1, <1>2 DEF SearchPanics
<1>3. ASSUME ~SearchPanics(w) PROVE UNCHANGED <<mode, process, bucket, exists, loaded, space>>
  BY <1>3 DEF SearchStep, SearchEnter, SearchColumn, SearchFilter, SearchMap, SearchAnswer,
              SearchEnd, SearchFails, SearchKeepsLock, SearchReturn, UnchangedByIndex, flags
<1>4. ASSUME ~SearchPanics(w), SpaceShape' /\ Grows, Moves(w)
      PROVE  Busy(w) /\ work[w].op \in VertexOps /\ (Aside(w) \/ Die)
  BY <1>1, <1>3, <1>4 DEF Aside
<1>5. ASSUME ~SearchPanics(w), spaces' = spaces, Moves(w)
      PROVE  Busy(w) /\ work[w].op \in VertexOps /\ (Aside(w) \/ Die)
  BY <1>3, <1>4, <1>5, SameSpace
<1>6. ASSUME ~SearchPanics(w), SearchEnter(w)
      PROVE  Busy(w) /\ work[w].op \in VertexOps /\ (Aside(w) \/ Die)
  <2>1. spaces' = spaces
    BY <1>6 DEF SearchEnter
  <2>2. CASE SearchScan(w, Space(w), 1 .. MaxIds)
    BY <1>1, <1>5, <1>6, <2>1, <2>2, SearchScanAside
  <2>3. CASE work' = [work EXCEPT ![w].to = Space(w), ![w].at = "column"]
    <3> DEFINE a == [work[w] EXCEPT !.to = Space(w), !.at = "column"]
    <3>1. work' = [work EXCEPT ![w] = a]
      BY <2>3 DEF Shape, WorkShape
    <3>2. DOMAIN a = DOMAIN work[w] /\ a.op = work[w].op /\ a.name = work[w].name
      BY <1>1 DEF IsCall
    <3> HIDE DEF a
    <3>3. Moves(w)
      BY <1>1, <3>1, <3>2, AsideGoes
    <3> QED BY <1>5, <1>6, <2>1, <3>3
  <2> QED BY <1>6, <2>2, <2>3 DEF SearchEnter
<1>7. ASSUME ~SearchPanics(w), SearchColumn(w)
      PROVE  Busy(w) /\ work[w].op \in VertexOps /\ (Aside(w) \/ Die)
  BY <1>1, <1>3, <1>4, <1>7, GetShardAside DEF SearchColumn
<1>8. ASSUME ~SearchPanics(w), SearchFilter(w)
      PROVE  Busy(w) /\ work[w].op \in VertexOps /\ (Aside(w) \/ Die)
  BY <1>1, <1>5, <1>8, SearchScanAside DEF SearchFilter
<1>9. ASSUME ~SearchPanics(w), SearchMap(w)
      PROVE  Busy(w) /\ work[w].op \in VertexOps /\ (Aside(w) \/ Die)
  <2>1. spaces' = spaces
    BY <1>9 DEF SearchMap
  <2>2. PICK i, part : work' = [work EXCEPT ![w].left = @ \ {i}, ![w].data =
                        IF work[w].at = "scan" THEN Queue!AddAll(@, part)
                        ELSE @ \cup Queue!AddAll({}, part)]
    BY <1>9 DEF SearchMap
  <2> DEFINE a == [work[w] EXCEPT !.left = @ \ {i}, !.data =
                        IF work[w].at = "scan" THEN Queue!AddAll(@, part)
                        ELSE @ \cup Queue!AddAll({}, part)]
  <2>3. work' = [work EXCEPT ![w] = a]
    BY <2>2 DEF Shape, WorkShape
  <2>4. DOMAIN a = DOMAIN work[w] /\ a.op = work[w].op /\ a.name = work[w].name
    BY <1>1 DEF IsCall
  <2> HIDE DEF a
  <2>5. Moves(w)
    BY <1>1, <2>3, <2>4, AsideGoes
  <2> QED BY <1>5, <1>9, <2>1, <2>5
<1>10. ASSUME ~SearchPanics(w), SearchAnswer(w)
       PROVE  Busy(w) /\ work[w].op \in VertexOps /\ (Aside(w) \/ Die)
  <2> DEFINE a == [work[w] EXCEPT !.at = "answer", !.ids = {}, !.data =
                        IF work[w].at = "scan" THEN @ ELSE Queue!AddAll({}, @)]
  <2>1. spaces' = spaces
    BY <1>10 DEF SearchAnswer
  <2>2. work' = [work EXCEPT ![w] = a]
    BY <1>10 DEF SearchAnswer, Shape, WorkShape
  <2>3. DOMAIN a = DOMAIN work[w] /\ a.op = work[w].op /\ a.name = work[w].name
    BY <1>1 DEF IsCall
  <2> HIDE DEF a
  <2>4. Moves(w)
    BY <1>1, <2>2, <2>3, AsideGoes
  <2> QED BY <1>5, <1>10, <2>1, <2>4
<1>11. ASSUME ~SearchPanics(w), SearchReturn(w)
       PROVE  Busy(w) /\ work[w].op \in VertexOps /\ (Aside(w) \/ Die)
  BY <1>5, <1>11, AsideReturns DEF SearchReturn
<1>12. ASSUME ~SearchPanics(w), SearchKeepsLock(w)
       PROVE  Busy(w) /\ work[w].op \in VertexOps /\ (Aside(w) \/ Die)
  <2>1. (\E s, c : spaces' = [spaces EXCEPT ![s].leaked = c]) /\ Return(w)
    BY <1>12 DEF SearchKeepsLock
  <2>2. SpaceShape' /\ Grows
    BY <1>3, <1>12, <2>1, SameSpace
  <2> QED BY <1>4, <1>12, <2>1, <2>2, AsideReturns
<1> QED BY <1>2, <1>6, <1>7, <1>8, <1>9, <1>10, <1>11, <1>12 DEF SearchStep, SearchEnd, SearchFails

-----------------------------------------------------------------------------
(* Calls that begin, and the process *)

\* A call on a collection that begins when there is no other.
LEMMA AdminBegins ==
  ASSUME Shape, NEW w \in Workers, Admins = {}, NEW op \in AdminOps, NEW at, NEW n \in Names,
         work' = [work EXCEPT ![w] = Call(op, at, n)],
         UNCHANGED <<mode, process, bucket, exists, space, spaces>>,
         loaded' \ {n} = loaded \ {n},
         (\A m \in Names : Sound(m)) => Progress(op, at, n)'
  PROVE  Shape' /\ (UpInv => UpInv')
<1>1. WorkShape /\ SpaceShape /\ BucketShape
  BY DEF Shape
<1>2. /\ IsCall(Call(op, at, n))
      /\ Call(op, at, n).op = op /\ Call(op, at, n).name = n /\ Call(op, at, n).at = at
  BY NewCall DEF Ops
<1>3. /\ WorkShape' /\ work'[w] = Call(op, at, n)
      /\ \A v \in Workers \ {w} : work'[v] = work[v]
  BY <1>1, <1>2, CallShape
<1>4. SpaceShape' /\ BucketShape' /\ Rest(n)
  BY <1>1, FlagsShape
<1>5. Shape'
  BY <1>3, <1>4 DEF Shape
<1>6. Admins' = {w}
  BY <1>2, <1>3 DEF Admins
<1>7. ASSUME UpInv PROVE UpInv'
  <2>1. \A m \in Names : Sound(m)
    BY <1>7 DEF UpInv
  <2>2. \A m \in Names \ {n} : Sound(m)'
    BY <1>1, <1>4, <2>1, RestSound
  <2>3. Progress(work[w].op, work[w].at, work[w].name)'
    BY <1>2, <1>3, <2>1
  <2> QED BY <1>2, <1>3, <1>6, <2>2, <2>3 DEF UpInv
<1> QED BY <1>5, <1>7

\* A call on vertices, or a search, that begins.
LEMMA VertexBegins ==
  ASSUME Shape, NEW w \in Workers, NEW op \in VertexOps, NEW n \in Names, NEW v,
         BeginChange(w, op, "enter", n, v),
         UNCHANGED <<mode, process, bucket, exists, loaded, space, spaces>>
  PROVE  Shape' /\ (UpInv => UpInv') /\ process = "up"
<1> DEFINE c == [Call(op, "enter", n) EXCEPT !.vertex = v]
<1>1. ~Busy(w) /\ process = "up" /\ work' = [work EXCEPT ![w] = c]
  BY DEF BeginChange
<1>2. IsCall(c) /\ c.op = op
  BY DEF Call, IsCall, Ops, VertexOps
<1> HIDE DEF c
<1>3. WorkShape' /\ work'[w] = c /\ Others(w)
  BY <1>1, <1>2, CallShape DEF Shape, Others
<1>4. w \notin Admins
  BY <1>1, AdminCalls DEF Shape
<1>5. w \notin Admins'
  BY <1>2, <1>3 DEF Admins, AdminOps, VertexOps
<1>6. SpaceShape' /\ Grows
  BY SameSpace
<1> QED BY <1>1, <1>3, <1>4, <1>5, <1>6, ElsewhereServed

\* The calls that begin: with OneAdmin, one on a collection has no other beside it.
LEMMA BeginServed ==
  ASSUME OneAdmin, Shape, NEW w \in Workers, NEW n \in Names, Begin(w, n)
  PROVE  /\ Shape' /\ process' = process /\ process # "down"
         /\ process = "up" /\ UpInv => UpInv'
<1> USE DEF flags, memory
<1>1. CASE CreateBegin(w, n)
  <2>1. PICK at \in {"undo bucket", "bucket"} : work' = [work EXCEPT ![w] = Call("create", at, n)]
    BY <1>1 DEF CreateBegin, BeginAdmin
  <2>2. /\ Admins = {} /\ process = "up" /\ process' = process /\ loaded' = loaded
        /\ UNCHANGED <<mode, process, bucket, exists, space, spaces>>
    BY <1>1 DEF CreateBegin, BeginAdmin
  <2>3. Progress("create", at, n)'
    BY <2>1 DEF Progress
  <2> QED BY <2>1, <2>2, <2>3, AdminBegins DEF AdminOps
<1>2. CASE DeleteBegin(w, n)
  <2>1. /\ Admins = {} /\ process = "up" /\ process' = process /\ loaded' = loaded
        /\ UNCHANGED <<mode, process, bucket, exists, space, spaces>>
        /\ work' = [work EXCEPT ![w] = Call("delete", "flags", n)]
    BY <1>2 DEF DeleteBegin, BeginAdmin
  <2>2. (\A m \in Names : Sound(m)) => Progress("delete", "flags", n)'
    BY <2>1 DEF Progress, Sound, Full
  <2> QED BY <2>1, <2>2, AdminBegins DEF AdminOps
<1>3. CASE LoadBegin(w, n)
  <2>1. /\ Admins = {} /\ process = "up" /\ process' = process /\ loaded' = loaded
        /\ UNCHANGED <<mode, process, bucket, exists, space, spaces>> /\ n \notin loaded
        /\ work' = [work EXCEPT ![w] = Call("load", "fill", n)]
    BY <1>3 DEF LoadBegin, BeginAdmin
  <2>2. (\A m \in Names : Sound(m)) => Progress("load", "fill", n)'
    BY <2>1 DEF Progress, Sound
  <2> QED BY <2>1, <2>2, AdminBegins DEF AdminOps
<1>4. CASE ReleaseBegin(w, n)
  <2>1. /\ Admins = {} /\ process = "up" /\ process' = process
        /\ loaded' = IF mode = "edge" THEN loaded \ {n} ELSE loaded
        /\ UNCHANGED <<mode, process, bucket, exists, space, spaces>>
        /\ work' = [work EXCEPT ![w] = Call("release", "meta", n)]
    BY <1>4 DEF ReleaseBegin, BeginAdmin
  <2>2. (\A m \in Names : Sound(m)) => Progress("release", "meta", n)'
    BY <2>1 DEF Progress, Sound, Full
  <2>3. loaded' \ {n} = loaded \ {n}
    BY <2>1
  <2> QED BY <2>1, <2>2, <2>3, AdminBegins DEF AdminOps
<1>5. CASE FlushBegin(w, n)
  <2>1. /\ Admins = {} /\ process = "up" /\ process' = process /\ loaded' = loaded
        /\ UNCHANGED <<mode, process, bucket, exists, space, spaces>>
        /\ work' = [work EXCEPT ![w] = Call("flush", "meta", n)]
    BY <1>5 DEF FlushBegin, BeginAdmin
  <2>2. (\A m \in Names : Sound(m)) => Progress("flush", "meta", n)'
    BY <2>1 DEF Progress, Sound, Full
  <2> QED BY <2>1, <2>2, AdminBegins DEF AdminOps
<1>6. CASE CloseCollection(w, n)
  <2>1. /\ process = "closing" /\ UNCHANGED <<process, bucket, space, spaces>>
        /\ work' = [work EXCEPT ![w] = Call("close", "meta", n)]
    BY <1>6 DEF CloseCollection
  <2>2. IsCall(Call("close", "meta", n))
    BY NewCall DEF Ops, AdminOps
  <2>3. WorkShape'
    BY <2>1, <2>2, CallShape DEF Shape
  <2> QED BY <2>1, <2>3 DEF Shape, SpaceShape, BucketShape
<1>7. ASSUME NEW t \in Tags, EdgeRemoveBegin(w, n, t)
      PROVE  /\ Shape' /\ process' = process /\ process # "down"
             /\ process = "up" /\ UpInv => UpInv'
  <2>1. /\ BeginChange(w, "remove", "enter", n, [id |-> 0, tag |-> t])
        /\ UNCHANGED <<mode, process, bucket, exists, loaded, space, spaces>>
    BY <1>7 DEF EdgeRemoveBegin, RemoveBegin
  <2> QED BY <2>1, VertexBegins DEF VertexOps
<1>8. ASSUME NEW filter, SearchBegin(w, n, filter)
      PROVE  /\ Shape' /\ process' = process /\ process # "down"
             /\ process = "up" /\ UpInv => UpInv'
  <2>1. /\ BeginChange(w, "search", "enter", n, filter)
        /\ UNCHANGED <<mode, process, bucket, exists, loaded, space, spaces>>
    BY <1>8 DEF SearchBegin
  <2> QED BY <2>1, VertexBegins DEF VertexOps
<1>9. ASSUME NEW id \in 1 .. MaxIds, MultiRemoveBegin(w, n, id)
      PROVE  /\ Shape' /\ process' = process /\ process # "down"
             /\ process = "up" /\ UpInv => UpInv'
  <2>1. /\ BeginChange(w, "remove", "enter", n, [id |-> id, tag |-> CHOOSE t \in Tags : TRUE])
        /\ UNCHANGED <<mode, process, bucket, exists, loaded, space, spaces>>
    BY <1>9 DEF MultiRemoveBegin, RemoveBegin
  <2> QED BY <2>1, VertexBegins DEF VertexOps
<1>10. ASSUME NEW id \in 1 .. MaxIds, NEW t \in Tags, ChangeBegin(w, n, id, t)
       PROVE  /\ Shape' /\ process' = process /\ process # "down"
              /\ process = "up" /\ UpInv => UpInv'
  <2>1. /\ BeginChange(w, "change", "enter", n, [id |-> id, tag |-> t])
        /\ UNCHANGED <<mode, process, bucket, exists, loaded, space, spaces>>
    BY <1>10 DEF ChangeBegin
  <2> QED BY <2>1, VertexBegins DEF VertexOps
<1> QED BY <1>1, <1>2, <1>3, <1>4, <1>5, <1>6, <1>7, <1>8, <1>9, <1>10 DEF Begin

\* A process that ends forgets all calls and all spaces.
LEMMA ForgetServed ==
  ASSUME Shape, Forget, UNCHANGED bucket
  PROVE  Shape' /\ ServedInv'
<1>1. WorkShape'
  BY DEF Forget, WorkShape
<1>2. SpaceShape'
  <2>1. spaces' \in Seq({}) /\ Len(spaces') = 0
    BY DEF Forget
  <2> QED BY <2>1 DEF Forget, SpaceShape
<1>3. BucketShape'
  BY DEF Shape, BucketShape
<1>4. process' = "down" /\ loaded' = {} /\ \A w \in Workers : work'[w] = Idle
  BY DEF Forget
<1> QED BY <1>1, <1>2, <1>3, <1>4 DEF Shape, ServedInv

\* StableRelease, a crash, and the next start, which takes the buckets for collections.
LEMMA ProcessServed ==
  ASSUME Shape, ServedInv, CloseBegin \/ CloseEnd \/ Crash \/ Start
  PROVE  Shape' /\ ServedInv'
<1> USE DEF flags, memory
<1>1. CASE CloseBegin
  <2>1. Shape'
    BY <1>1 DEF CloseBegin, Shape, WorkShape, SpaceShape, BucketShape
  <2> QED BY <1>1, <2>1 DEF CloseBegin, ServedInv
<1>2. CASE CloseEnd
  BY <1>2, ForgetServed DEF CloseEnd
<1>3. CASE Crash
  BY <1>3, ForgetServed DEF Crash, Die
<1>4. CASE Start
  <2>1. Shape'
    BY <1>4 DEF Start, Shape, WorkShape, SpaceShape, BucketShape
  <2>2. Admins' = {}
    BY <1>4 DEF Start, Admins, ServedInv, Idle, AdminOps
  <2>3. \A n \in Names : Sound(n)'
    BY <1>4 DEF Start, ServedInv, Sound
  <2>4. UpInv'
    BY <2>2, <2>3 DEF UpInv
  <2> QED BY <1>4, <2>1, <2>4 DEF Start, ServedInv
<1> QED BY <1>1, <1>2, <1>3, <1>4

\* A process that starts for the first time.
LEMMA ServedInit ==
  ASSUME Init
  PROVE  Shape /\ ServedInv
<1>1. WorkShape /\ BucketShape
  BY DEF Init, WorkShape, BucketShape
<1>2. SpaceShape
  <2>1. spaces \in Seq({}) /\ Len(spaces) = 0
    BY DEF Init
  <2> QED BY <2>1 DEF Init, SpaceShape
<1>3. Admins = {} /\ \A n \in Names : Sound(n)
  BY DEF Init, Admins, Idle, AdminOps, Sound
<1> QED BY <1>1, <1>2, <1>3 DEF Init, Shape, ServedInv, UpInv

\* Every step, with what a step of nothing is.
LEMMA ServedStep ==
  ASSUME OneAdmin, NoRecord, Shape, ServedInv, [Next]_vars
  PROVE  Shape' /\ ServedInv'
<1>1. ASSUME NEW w \in Workers, NEW n \in Names, Begin(w, n) PROVE Shape' /\ ServedInv'
  BY <1>1, BeginServed DEF ServedInv
<1>2. ASSUME NEW w \in Workers, AdminStep(w) PROVE Shape' /\ ServedInv'
  <2>1. Shape' /\ (UpInv => UpInv') /\ process' = process /\ Busy(w)
    BY <1>2, AdminStepServed
  <2> QED BY <2>1 DEF ServedInv, Busy
<1>3. ASSUME NEW w \in Workers, Busy(w), work[w].op \in VertexOps, Aside(w)
      PROVE  Shape' /\ ServedInv'
  <2>1. Shape' /\ (UpInv => UpInv')
    BY <1>3, AsideServed
  <2>2. process' = process
    BY <1>3 DEF Aside
  <2> QED BY <1>3, <2>1, <2>2 DEF ServedInv, Busy
<1>4. ASSUME NEW w \in Workers, ChangeStep(w) PROVE Shape' /\ ServedInv'
  BY <1>3, <1>4, ChangeStepAside
<1>5. CASE Die
  BY <1>5, ForgetServed DEF Die
<1>6. ASSUME NEW w \in Workers, SearchStep(w) PROVE Shape' /\ ServedInv'
  BY <1>3, <1>5, <1>6, SearchStepAside
<1>7. CASE UNCHANGED vars
  <2>1. UNCHANGED <<mode, bucket, process, exists, loaded, space, spaces, work>>
    BY <1>7 DEF vars, flags, memory
  <2>2. Shape'
    BY <2>1 DEF Shape, WorkShape, SpaceShape, BucketShape
  <2>3. ASSUME NEW n PROVE (Full(n) => Full(n)') /\ (Sound(n) => Sound(n)')
    BY <2>1 DEF Sound, Full
  <2>4. Admins' = Admins
    BY <2>1 DEF Admins
  <2>5. ASSUME NEW op, NEW at, NEW n, Progress(op, at, n) PROVE Progress(op, at, n)'
    BY <2>1, <2>3, <2>5 DEF Progress
  <2>6. ASSUME UpInv, NEW w \in Admins PROVE Progress(work[w].op, work[w].at, work[w].name)'
    <3>1. PICK op, at, n : op = work[w].op /\ at = work[w].at /\ n = work[w].name
      OBVIOUS
    <3>2. Progress(op, at, n)'
      BY <2>5, <2>6, <3>1 DEF UpInv
    <3> QED BY <2>1, <3>1, <3>2
  <2>7. UpInv => UpInv'
    BY <2>1, <2>3, <2>4, <2>6 DEF UpInv
  <2> QED BY <2>1, <2>2, <2>7 DEF ServedInv
<1> QED BY <1>1, <1>2, <1>4, <1>6, <1>7, ProcessServed DEF Next

-----------------------------------------------------------------------------
\* When calls on collections wait for each other, a loaded collection has a
\* bucket to save to and a complete space, and in edge a collection that exists
\* has a bucket, whatever calls on vertices, searches, storage failures and
\* crashes there are, for any collections, handlers and values
\* (edge.go:83-341, none_vectorstore.go:262-287, edge_helper.go:43-66).
THEOREM StoresAreServed == OneAdmin /\ NoRecord /\ Spec => []Served
<1> SUFFICES ASSUME OneAdmin, NoRecord PROVE Spec => []Served
  OBVIOUS
<1>1. Init => Shape /\ ServedInv
  BY ServedInit
<1>2. Shape /\ ServedInv /\ [Next]_vars => Shape' /\ ServedInv'
  BY ServedStep
<1>3. ServedInv => Served
  <2> SUFFICES ASSUME ServedInv, process = "up", NEW n \in Names,
                      \A w \in Admins : work[w].name # n \/ work[w].op = "flush"
               PROVE  Sound(n)
    BY DEF Served, Sound, Full
  <2>1. CASE \A w \in Admins : work[w].name # n
    BY <2>1 DEF ServedInv, UpInv
  <2>2. CASE \E w \in Admins : work[w].name = n /\ work[w].op = "flush"
    BY <2>2 DEF ServedInv, UpInv, Progress
  <2> QED BY <2>1, <2>2
<1> QED BY <1>1, <1>2, <1>3, PTL DEF Spec

-----------------------------------------------------------------------------
(* Types: what TypeOK says, but for what a search has found, which is a    *)
(* fold over the maps, and for what the proofs have no use for             *)

CallFields    == {"op", "at", "name", "vertex", "to", "shard", "ids", "map", "data", "left"}
PromiseFields == {"calls", "acked", "saving", "kept", "sought"}

\* A call on vertices that has entered has a space, and who uses a shard has one; a
\* save that reads the maps has read vertices so far.
Typed(a) ==
  /\ DOMAIN a = CallFields /\ a.op \in Ops /\ a.name \in Names
  /\ a.to \in Nat /\ a.shard \in Nat /\ a.map \in 0 .. MapShards /\ a.ids \subseteq 1 .. MaxIds
  /\ a.op = "change" => a.vertex \in Vertex
  /\ a.op = "remove" => DOMAIN a.vertex = {"id", "tag"} /\ a.vertex.id \in 0 .. MaxIds
  /\ a.op \in VertexOps /\ a.at # "enter" => a.to # 0
  /\ a.at \in {"read", "post", "withdraw"} => a.shard # 0
  /\ a.op \in AdminOps => a.data \in {Unreadable} \cup SUBSET Vertex
  /\ a.op \in AdminOps /\ a.at = "vertex" /\ a.map < MapShards => a.data \in SUBSET Vertex

SpaceType == [described : BOOLEAN, ready : BOOLEAN, indexed : BOOLEAN, column : Nat,
              vertices : SUBSET Vertex, leaked : SUBSET Nat]

PromiseTyped(p) == /\ DOMAIN p = PromiseFields /\ p.calls \subseteq Workers
                   /\ p.acked \subseteq Vertex /\ p.saving \subseteq Vertex /\ p.kept \subseteq Vertex

WorkTyped     == DOMAIN work = Workers /\ \A w \in Workers : work[w] = Idle \/ Typed(work[w])
SpacesTyped   == spaces \in Seq(SpaceType) /\ space \in [Names -> 0 .. Len(spaces)]
ShardsTyped   == shards \in Seq(SUBSET Vertex)
Bucket        == [meta : BOOLEAN, vertex : Object, inverted : Object]
BucketTyped   == DOMAIN bucket = Names /\ \A n \in Names : bucket[n] \in {NoBucket} \cup Bucket
PromisesTyped == DOMAIN promise = Names /\ \A n \in Names : PromiseTyped(promise[n])

\* Numbers of spaces and of shards are those of what there is.
Column(s) == spaces[s].column
Bounds    == /\ \A w \in Workers : Busy(w) => /\ work[w].to <= Len(spaces)
                                             /\ work[w].shard <= Len(shards)
             /\ \A i \in 1 .. Len(spaces) : Column(i) <= Len(shards)

TypeInv == /\ WorkTyped /\ SpacesTyped /\ ShardsTyped /\ BucketTyped /\ PromisesTyped
           /\ Bounds /\ mode \in {"edge", "multi"} /\ lastId \in 0 .. MaxIds

-----------------------------------------------------------------------------
(* What each step does to the call that takes it *)

\* The call goes on with a change of those fields only.
But(w, fields) == /\ DOMAIN work' = Workers /\ Others(w) /\ Busy(w) /\ Busy(w)'
                  /\ DOMAIN work'[w] = CallFields
                  /\ \A f \in CallFields \ fields : work'[w][f] = work[w][f]

\* The call is over.
Ends(w) == DOMAIN work' = Workers /\ Others(w) /\ work'[w] = Idle

\* A call in progress is one.
LEMMA CallTyped ==
  ASSUME WorkTyped, NEW w \in Workers, Busy(w)
  PROVE  Typed(work[w])
BY DEF WorkTyped, Busy

\* A call that is given new fields goes on.
LEMMA BecomesWhat ==
  ASSUME WorkTyped, NEW w \in Workers, Busy(w), NEW a, work' = [work EXCEPT ![w] = a],
         DOMAIN a = CallFields, NEW fields,
         \A f \in CallFields \ fields : a[f] = work[w][f]
  PROVE  But(w, fields) /\ work'[w] = a
<1>1. work'[w] = a /\ DOMAIN work' = Workers /\ Others(w)
  BY DEF WorkTyped, Others
<1>2. Idle \notin {x : x \in {a}}
  <2>1. "name" \in DOMAIN a
    BY DEF CallFields
  <2>2. DOMAIN Idle = {"op"}
    BY DEF Idle
  <2> QED BY <2>1, <2>2
<1>3. Busy(w)'
  BY <1>1, <1>2 DEF Busy
<1> QED BY <1>1, <1>3 DEF But

\* A call that goes to a place.
LEMMA GoBut ==
  ASSUME WorkTyped, NEW w \in Workers, Busy(w), NEW at, Go(w, at)
  PROVE  But(w, {"at"}) /\ work'[w].at = at
<1> DEFINE a == [work[w] EXCEPT !.at = at]
<1>1. DOMAIN work[w] = CallFields
  BY CallTyped DEF Typed
<1>2. DOMAIN a = CallFields /\ a.at = at /\ \A f \in CallFields \ {"at"} : a[f] = work[w][f]
  BY <1>1 DEF CallFields
<1>3. work' = [work EXCEPT ![w] = a]
  BY DEF Go, WorkTyped
<1> HIDE DEF a
<1>4. But(w, {"at"}) /\ work'[w] = a
  BY <1>2, <1>3, BecomesWhat
<1> QED BY <1>2, <1>4

\* A call that returns.
LEMMA ReturnEnds ==
  ASSUME WorkTyped, NEW w \in Workers, Return(w)
  PROVE  Ends(w)
BY DEF WorkTyped, Return, Ends, Others

\* A save that turns to the next object.
LEMMA NextBut ==
  ASSUME WorkTyped, NEW w \in Workers, Busy(w), NEW at, NextObject(w, at)
  PROVE  /\ But(w, {"at", "to", "map", "data"})
         /\ work'[w].at = at /\ work'[w].to = Space(w) /\ work'[w].map = 0 /\ work'[w].data = {}
<1> DEFINE a == [work[w] EXCEPT !.at = at, !.to = Space(w), !.map = 0, !.data = {}]
           fields == {"at", "to", "map", "data"}
<1>1. DOMAIN work[w] = CallFields
  BY CallTyped DEF Typed
<1>2. /\ DOMAIN a = CallFields /\ a.at = at /\ a.to = Space(w) /\ a.map = 0 /\ a.data = {}
      /\ \A f \in CallFields \ fields : a[f] = work[w][f]
  BY <1>1 DEF CallFields
<1>3. work' = [work EXCEPT ![w] = a]
  BY DEF NextObject, WorkTyped
<1> HIDE DEF a
<1>4. But(w, fields) /\ work'[w] = a
  BY <1>2, <1>3, BecomesWhat
<1> QED BY <1>2, <1>4

\* A save that has read something.
LEMMA ReadBut ==
  ASSUME WorkTyped, NEW w \in Workers, Busy(w), NEW i, NEW d,
         work' = [work EXCEPT ![w].map = i, ![w].data = d]
  PROVE  But(w, {"map", "data"}) /\ work'[w].map = i /\ work'[w].data = d
<1> DEFINE a == [work[w] EXCEPT !.map = i, !.data = d]
           fields == {"map", "data"}
<1>1. DOMAIN work[w] = CallFields
  BY CallTyped DEF Typed
<1>2. /\ DOMAIN a = CallFields /\ a.map = i /\ a.data = d
      /\ \A f \in CallFields \ fields : a[f] = work[w][f]
  BY <1>1 DEF CallFields
<1>3. work' = [work EXCEPT ![w] = a]
  BY DEF WorkTyped
<1> HIDE DEF a
<1>4. But(w, fields) /\ work'[w] = a
  BY <1>2, <1>3, BecomesWhat, ZenonT(60)
<1> QED BY <1>2, <1>4

\* A call that has found its space.
LEMMA ToBut ==
  ASSUME WorkTyped, NEW w \in Workers, Busy(w), NEW s, NEW at,
         work' = [work EXCEPT ![w].to = s, ![w].at = at]
  PROVE  But(w, {"to", "at"}) /\ work'[w].to = s /\ work'[w].at = at
<1> DEFINE a == [work[w] EXCEPT !.to = s, !.at = at]
           fields == {"to", "at"}
<1>1. DOMAIN work[w] = CallFields
  BY CallTyped DEF Typed
<1>2. /\ DOMAIN a = CallFields /\ a.to = s /\ a.at = at
      /\ \A f \in CallFields \ fields : a[f] = work[w][f]
  BY <1>1 DEF CallFields
<1>3. work' = [work EXCEPT ![w] = a]
  BY DEF WorkTyped
<1> HIDE DEF a
<1>4. But(w, fields) /\ work'[w] = a
  BY <1>2, <1>3, BecomesWhat, ZenonT(60)
<1> QED BY <1>2, <1>4

\* A call that has found its shard.
LEMMA ShardBut ==
  ASSUME WorkTyped, NEW w \in Workers, Busy(w), NEW i, NEW at,
         work' = [work EXCEPT ![w].shard = i, ![w].at = at]
  PROVE  But(w, {"shard", "at"}) /\ work'[w].shard = i /\ work'[w].at = at
<1> DEFINE a == [work[w] EXCEPT !.shard = i, !.at = at]
           fields == {"shard", "at"}
<1>1. DOMAIN work[w] = CallFields
  BY CallTyped DEF Typed
<1>2. /\ DOMAIN a = CallFields /\ a.shard = i /\ a.at = at
      /\ \A f \in CallFields \ fields : a[f] = work[w][f]
  BY <1>1 DEF CallFields
<1>3. work' = [work EXCEPT ![w] = a]
  BY DEF WorkTyped
<1> HIDE DEF a
<1>4. But(w, fields) /\ work'[w] = a
  BY <1>2, <1>3, BecomesWhat, ZenonT(60)
<1> QED BY <1>2, <1>4

\* A removal that has found its ids.
LEMMA SearchBut ==
  ASSUME WorkTyped, NEW w \in Workers, RemoveSearch(w)
  PROVE  /\ But(w, {"at", "ids"})
         /\ work'[w].at = "next" /\ work'[w].ids = {p.id : p \in Found(w)}
<1> DEFINE found == {p.id : p \in Found(w)}
<1>0. Busy(w) /\ work' = [work EXCEPT ![w].at = "next", ![w].ids = found]
  BY DEF RemoveSearch, At
<1> HIDE DEF found
<1> DEFINE a == [work[w] EXCEPT !.at = "next", !.ids = found]
           fields == {"at", "ids"}
<1>1. DOMAIN work[w] = CallFields
  BY <1>0, CallTyped DEF Typed
<1>2. /\ DOMAIN a = CallFields /\ a.at = "next" /\ a.ids = found
      /\ \A f \in CallFields \ fields : a[f] = work[w][f]
  BY <1>1 DEF CallFields
<1>3. work' = [work EXCEPT ![w] = a]
  BY <1>0 DEF WorkTyped
<1> HIDE DEF a
<1>4. But(w, fields) /\ work'[w] = a
  BY <1>0, <1>2, <1>3, BecomesWhat, ZenonT(60)
<1> QED BY <1>2, <1>4 DEF found

\* A removal that turns to the next id.
LEMMA TurnBut ==
  ASSUME WorkTyped, NEW w \in Workers, Busy(w), NEW id, work[w].op = "remove",
         work' = [work EXCEPT ![w].at = "lock", ![w].ids = work[w].ids \ {id}, ![w].vertex.id = id]
  PROVE  /\ But(w, {"at", "ids", "vertex"})
         /\ work'[w].at = "lock" /\ work'[w].ids = work[w].ids \ {id}
         /\ DOMAIN work'[w].vertex = {"id", "tag"}
         /\ work'[w].vertex.id = id /\ work'[w].vertex.tag = work[w].vertex.tag
<1> DEFINE a == [work[w] EXCEPT !.at = "lock", !.ids = work[w].ids \ {id}, !.vertex.id = id]
           fields == {"at", "ids", "vertex"}
<1>1. DOMAIN work[w] = CallFields /\ DOMAIN work[w].vertex = {"id", "tag"}
  BY CallTyped DEF Typed
<1>2. /\ a.at = "lock" /\ a.ids = work[w].ids \ {id}
      /\ a.vertex = [work[w].vertex EXCEPT !.id = id]
  BY <1>1 DEF CallFields
<1>6. DOMAIN a = CallFields /\ \A f \in CallFields \ fields : a[f] = work[w][f]
  BY <1>1 DEF CallFields
<1>3. DOMAIN a.vertex = {"id", "tag"} /\ a.vertex.id = id /\ a.vertex.tag = work[w].vertex.tag
  BY <1>1, <1>2
<1>4. work' = [work EXCEPT ![w] = a]
  BY DEF WorkTyped
<1> HIDE DEF a
<1>5. But(w, fields) /\ work'[w] = a
  BY <1>4, <1>6, BecomesWhat, ZenonT(60)
<1> QED BY <1>2, <1>3, <1>5

-----------------------------------------------------------------------------
(* What each step does to the spaces and the shards *)

\* What a part of a space, or a shard, holds are vertices.
LEMMA MemoryTyped ==
  ASSUME TypeInv
  PROVE  /\ Len(spaces) \in Nat /\ Len(shards) \in Nat /\ MapShards \in Nat \ {0} /\ MaxIds \in Nat
         /\ \A i \in 1 .. Len(spaces) : spaces[i] \in SpaceType
         /\ \A i \in 1 .. Len(shards) : shards[i] \subseteq Vertex
         /\ \A n \in Names : space[n] \in 0 .. Len(spaces)
BY VectorStoresAssumption DEF TypeInv, SpacesTyped, ShardsTyped

\* A sequence of which one element is changed within its type.
LEMMA PutSeq ==
  ASSUME NEW T, NEW q \in Seq(T), NEW i, NEW e, NEW p, p = [q EXCEPT ![i] = e],
         i \in 1 .. Len(q) => e \in T
  PROVE  /\ p \in Seq(T) /\ Len(p) = Len(q)
         /\ \A j \in 1 .. Len(q) : p[j] = IF j = i THEN e ELSE q[j]
<1>1. Len(p) = Len(q) /\ \A j \in 1 .. Len(q) : p[j] = IF j = i THEN e ELSE q[j]
  BY ChangedSeq
<1>2. p \in Seq(T)
  <2>1. CASE i \in 1 .. Len(q)
    <3>1. T \cup {e} = T
      BY <2>1
    <3>2. p \in Seq(T \cup {e})
      BY ChangedSeq
    <3> QED BY <3>1, <3>2
  <2>2. CASE i \notin 1 .. Len(q)
    <3>1. q \in [1 .. Len(q) -> T]
      BY LenProperties
    <3>2. p = q
      BY <2>2, <3>1
    <3> QED BY <3>2
  <2> QED BY <2>1, <2>2
<1> QED BY <1>1, <1>2

\* There are spaces of their types, as many as before, and they differ at s in those fields.
SpaceBut(s, fields) ==
  /\ spaces' \in Seq(SpaceType) /\ Len(spaces') = Len(spaces)
  /\ \A i \in 1 .. Len(spaces) :
       \A f \in {"described", "ready", "indexed", "column", "vertices", "leaked"} :
         i # s \/ f \notin fields => spaces'[i][f] = spaces[i][f]

\* A space is replaced by one of the same type that differs in those fields.
LEMMA SpacePut ==
  ASSUME SpacesTyped, NEW s, NEW r, spaces' = [spaces EXCEPT ![s] = r],
         s \in 1 .. Len(spaces) => r \in SpaceType, NEW fields,
         \A f \in {"described", "ready", "indexed", "column", "vertices", "leaked"} \ fields :
           r[f] = spaces[s][f]
  PROVE  SpaceBut(s, fields) /\ (s \in 1 .. Len(spaces) => spaces'[s] = r)
<1>1. spaces' = [spaces EXCEPT ![s] = r] /\ spaces \in Seq(SpaceType)
  BY DEF SpacesTyped
<1>2. spaces' \in Seq(SpaceType)
  BY <1>1, PutSeq
<1>3. Len(spaces') = Len(spaces)
  BY <1>1, PutSeq
<1>4. \A j \in 1 .. Len(spaces) : spaces'[j] = IF j = s THEN r ELSE spaces[j]
  BY <1>1, PutSeq
<1> QED BY <1>2, <1>3, <1>4 DEF SpaceBut

\* The column of a space is changed, ...
LEMMA ColumnPut ==
  ASSUME SpacesTyped, NEW s, NEW c \in Nat, spaces' = [spaces EXCEPT ![s].column = c]
  PROVE  SpaceBut(s, {"column"}) /\ (s \in 1 .. Len(spaces) => Column(s)' = c)
<1> DEFINE r == [spaces[s] EXCEPT !.column = c]
           fields == {"column"}
<1>1. s \in 1 .. Len(spaces) => spaces[s] \in SpaceType
  BY DEF SpacesTyped
<1>2. CASE s \in 1 .. Len(spaces)
  <2>1. r \in SpaceType /\ r.column = c
    BY <1>1, <1>2 DEF SpaceType
  <2>2. \A f \in {"described", "ready", "indexed", "column", "vertices", "leaked"} \ fields :
          r[f] = spaces[s][f]
    BY <1>1, <1>2 DEF SpaceType
  <2>3. spaces' = [spaces EXCEPT ![s] = r]
    OBVIOUS
  <2> HIDE DEF r
  <2>4. SpaceBut(s, fields) /\ (s \in 1 .. Len(spaces) => spaces'[s] = r)
    BY <2>1, <2>2, <2>3, SpacePut
  <2> QED BY <2>1, <2>4 DEF Column
<1>3. CASE s \notin 1 .. Len(spaces)
  <2>1. spaces' = spaces
    BY <1>3, PutSeq DEF SpacesTyped
  <2> QED BY <1>3, <2>1 DEF SpaceBut, SpacesTyped
<1> QED BY <1>2, <1>3

\* ... or its vertices, ...
LEMMA VerticesPut ==
  ASSUME SpacesTyped, NEW s, NEW V, spaces' = [spaces EXCEPT ![s].vertices = V],
         s \in 1 .. Len(spaces) => V \subseteq Vertex
  PROVE  SpaceBut(s, {"vertices"}) /\ (s \in 1 .. Len(spaces) => spaces'[s].vertices = V)
<1> DEFINE r == [spaces[s] EXCEPT !.vertices = V]
           fields == {"vertices"}
<1>1. s \in 1 .. Len(spaces) => spaces[s] \in SpaceType
  BY DEF SpacesTyped
<1>2. CASE s \in 1 .. Len(spaces)
  <2>1. r \in SpaceType /\ r.vertices = V
    BY <1>1, <1>2 DEF SpaceType
  <2>2. \A f \in {"described", "ready", "indexed", "column", "vertices", "leaked"} \ fields :
          r[f] = spaces[s][f]
    BY <1>1, <1>2 DEF SpaceType
  <2>3. spaces' = [spaces EXCEPT ![s] = r]
    OBVIOUS
  <2> HIDE DEF r
  <2>4. SpaceBut(s, fields) /\ (s \in 1 .. Len(spaces) => spaces'[s] = r)
    BY <2>1, <2>2, <2>3, SpacePut
  <2> QED BY <2>1, <2>4
<1>3. CASE s \notin 1 .. Len(spaces)
  <2>1. spaces' = spaces
    BY <1>3, PutSeq DEF SpacesTyped
  <2> QED BY <1>3, <2>1 DEF SpaceBut, SpacesTyped
<1> QED BY <1>2, <1>3

\* ... or what SaveVertex has locked.
LEMMA LeakedPut ==
  ASSUME SpacesTyped, NEW s, NEW i \in Nat,
         spaces' = [spaces EXCEPT ![s].leaked = spaces[s].leaked \cup {i}]
  PROVE  SpaceBut(s, {"leaked"})
<1> DEFINE r == [spaces[s] EXCEPT !.leaked = spaces[s].leaked \cup {i}]
           fields == {"leaked"}
<1>1. s \in 1 .. Len(spaces) => spaces[s] \in SpaceType
  BY DEF SpacesTyped
<1>2. CASE s \in 1 .. Len(spaces)
  <2>1. r \in SpaceType
    BY <1>1, <1>2 DEF SpaceType
  <2>2. \A f \in {"described", "ready", "indexed", "column", "vertices", "leaked"} \ fields :
          r[f] = spaces[s][f]
    BY <1>1, <1>2 DEF SpaceType
  <2>3. spaces' = [spaces EXCEPT ![s] = r]
    OBVIOUS
  <2> HIDE DEF r
  <2> QED BY <2>1, <2>2, <2>3, SpacePut
<1>3. CASE s \notin 1 .. Len(spaces)
  <2>1. spaces' = spaces
    BY <1>3, PutSeq DEF SpacesTyped
  <2> QED BY <1>3, <2>1 DEF SpaceBut, SpacesTyped
<1> QED BY <1>2, <1>3

\* LoadVertexInverted gives the space its index, LoadVertex its vertices.
LEMMA IndexPut ==
  ASSUME SpacesTyped, NEW s \in 1 .. Len(spaces), NEW c \in Nat,
         spaces' = [spaces EXCEPT ![s].indexed = TRUE, ![s].column = c]
  PROVE  SpaceBut(s, {"indexed", "column"}) /\ Column(s)' = c
<1> DEFINE r == [spaces[s] EXCEPT !.indexed = TRUE, !.column = c]
           fields == {"indexed", "column"}
<1>1. spaces[s] \in SpaceType /\ spaces \in Seq(SpaceType)
  BY DEF SpacesTyped
<1>2. r \in SpaceType /\ r.column = c
  BY <1>1 DEF SpaceType
<1>3. \A f \in {"described", "ready", "indexed", "column", "vertices", "leaked"} \ fields :
        r[f] = spaces[s][f]
  BY <1>1 DEF SpaceType
<1>4. spaces' = [spaces EXCEPT ![s] = r]
  BY <1>1
<1> HIDE DEF r
<1>5. SpaceBut(s, fields) /\ (s \in 1 .. Len(spaces) => spaces'[s] = r)
  BY <1>2, <1>3, <1>4, SpacePut
<1> QED BY <1>2, <1>5 DEF Column

\* A load fills the maps of a space.
LEMMA LoadPut ==
  ASSUME SpacesTyped, NEW s \in 1 .. Len(spaces), NEW V, V \subseteq Vertex,
         spaces' = [spaces EXCEPT ![s].ready = TRUE, ![s].vertices = V]
  PROVE  SpaceBut(s, {"ready", "vertices"}) /\ spaces'[s].vertices = V
<1> DEFINE r == [spaces[s] EXCEPT !.ready = TRUE, !.vertices = V]
           fields == {"ready", "vertices"}
<1>1. spaces[s] \in SpaceType /\ spaces \in Seq(SpaceType)
  BY DEF SpacesTyped
<1>2. r \in SpaceType /\ r.vertices = V
  BY <1>1 DEF SpaceType
<1>3. \A f \in {"described", "ready", "indexed", "column", "vertices", "leaked"} \ fields :
        r[f] = spaces[s][f]
  BY <1>1 DEF SpaceType
<1>4. spaces' = [spaces EXCEPT ![s] = r]
  BY <1>1
<1> HIDE DEF r
<1>5. SpaceBut(s, fields) /\ (s \in 1 .. Len(spaces) => spaces'[s] = r)
  BY <1>2, <1>3, <1>4, SpacePut
<1> QED BY <1>2, <1>5

\* A space that is added.
LEMMA AppendSpace ==
  ASSUME SpacesTyped, NEW n \in Names, NEW s \in SpaceType, NewSpace(n, s)
  PROVE  /\ SpacesTyped' /\ Len(spaces') = Len(spaces) + 1
         /\ space' = [space EXCEPT ![n] = Len(spaces) + 1] /\ spaces'[Len(spaces) + 1] = s
         /\ \A i \in 1 .. Len(spaces) : spaces'[i] = spaces[i]
<1>1. spaces \in Seq(SpaceType) /\ Len(spaces) \in Nat
  BY DEF SpacesTyped
<1>2. spaces' = Append(spaces, s) /\ space' = [space EXCEPT ![n] = Len(spaces) + 1]
  BY DEF NewSpace
<1>3. /\ spaces' \in Seq(SpaceType) /\ Len(spaces') = Len(spaces) + 1
      /\ spaces'[Len(spaces) + 1] = s
      /\ \A i \in 1 .. Len(spaces) : spaces'[i] = spaces[i]
  BY <1>1, <1>2
<1>4. space' \in [Names -> 0 .. Len(spaces')]
  BY <1>1, <1>2, <1>3 DEF SpacesTyped
<1> QED BY <1>2, <1>3, <1>4 DEF SpacesTyped

\* A shard that is added, or changed.
LEMMA AppendShard ==
  ASSUME ShardsTyped, NEW S \in SUBSET Vertex, shards' = Append(shards, S)
  PROVE  /\ ShardsTyped' /\ Len(shards') = Len(shards) + 1 /\ shards'[Len(shards) + 1] = S
         /\ \A i \in 1 .. Len(shards) : shards'[i] = shards[i]
BY DEF ShardsTyped

\* A shard is put in place of another.
LEMMA ShardPut ==
  ASSUME ShardsTyped, NEW c, NEW S, shards' = [shards EXCEPT ![c] = S],
         c \in 1 .. Len(shards) => S \subseteq Vertex
  PROVE  /\ ShardsTyped' /\ Len(shards') = Len(shards)
         /\ \A i \in 1 .. Len(shards) : shards'[i] = IF i = c THEN S ELSE shards[i]
<1>1. shards \in Seq(SUBSET Vertex) /\ shards' = [shards EXCEPT ![c] = S]
  BY DEF ShardsTyped
<1>2. shards' \in Seq(SUBSET Vertex)
  BY <1>1, PutSeq
<1>3. Len(shards') = Len(shards)
  BY <1>1, PutSeq
<1>4. \A i \in 1 .. Len(shards) : shards'[i] = IF i = c THEN S ELSE shards[i]
  BY <1>1, PutSeq
<1> QED BY <1>2, <1>3, <1>4 DEF ShardsTyped

-----------------------------------------------------------------------------
(* Types are kept *)

\* What the call that takes the step has become.
Fine(w) == /\ DOMAIN work' = Workers /\ Others(w)
           /\ \/ work'[w] = Idle
              \/ /\ Typed(work'[w])
                 /\ work'[w].to <= Len(spaces) /\ work'[w].shard <= Len(shards)

\* What the spaces and the shards have become.
MemoryFine == /\ SpacesTyped' /\ ShardsTyped'
              /\ Len(spaces) <= Len(spaces') /\ Len(shards) <= Len(shards')
              /\ \A i \in 1 .. Len(spaces') : Column(i)' <= Len(shards')

\* Both together.
LEMMA StepTyped ==
  ASSUME TypeInv, NEW w \in Workers, MemoryFine, DOMAIN work' = Workers, Others(w),
         \/ work'[w] = Idle
         \/ /\ Typed(work'[w])
            /\ work'[w].to <= Len(spaces') /\ work'[w].shard <= Len(shards')
  PROVE  WorkTyped' /\ Bounds'
<1>1. WorkTyped'
  BY DEF TypeInv, WorkTyped, Others
<1>2. ASSUME NEW v \in Workers, Busy(v)'
      PROVE  work'[v].to <= Len(spaces') /\ work'[v].shard <= Len(shards')
  <2>1. CASE v = w
    BY <1>2, <2>1 DEF Busy
  <2>2. CASE v # w
    <3>1. work'[v] = work[v] /\ Busy(v)
      BY <1>2, <2>2 DEF Others, Busy
    <3>2. work[v].to <= Len(spaces) /\ work[v].shard <= Len(shards)
      BY <3>1 DEF TypeInv, Bounds
    <3>3. work[v].to \in Nat /\ work[v].shard \in Nat
      BY <3>1, CallTyped DEF TypeInv, Typed
    <3>4. Len(spaces) \in Nat /\ Len(shards) \in Nat
      BY MemoryTyped
    <3>5. Len(spaces') \in Nat /\ Len(shards') \in Nat
      BY DEF MemoryFine, SpacesTyped, ShardsTyped
    <3>6. Len(spaces) <= Len(spaces') /\ Len(shards) <= Len(shards')
      BY DEF MemoryFine
    <3> QED BY <3>1, <3>2, <3>3, <3>4, <3>5, <3>6
  <2> QED BY <2>1, <2>2
<1> QED BY <1>1, <1>2 DEF Bounds, MemoryFine

\* A fine step is a typed one.
LEMMA FineTyped ==
  ASSUME TypeInv, NEW w \in Workers, MemoryFine, Fine(w)
  PROVE  WorkTyped' /\ Bounds'
<1>1. CASE work'[w] = Idle
  BY <1>1, StepTyped DEF Fine
<1>2. CASE /\ Typed(work'[w]) /\ work'[w].to <= Len(spaces) /\ work'[w].shard <= Len(shards)
  <2>1. /\ Len(spaces) \in Nat /\ Len(shards) \in Nat
        /\ work'[w].to \in Nat /\ work'[w].shard \in Nat
    BY <1>2, MemoryTyped DEF Typed
  <2>2. /\ Len(spaces') \in Nat /\ Len(shards') \in Nat
        /\ Len(spaces) <= Len(spaces') /\ Len(shards) <= Len(shards')
    BY DEF MemoryFine, SpacesTyped, ShardsTyped
  <2>3. work'[w].to <= Len(spaces') /\ work'[w].shard <= Len(shards')
    BY <1>2, <2>1, <2>2
  <2> QED BY <1>2, <2>3, StepTyped DEF Fine
<1> QED BY <1>1, <1>2 DEF Fine

\* Memory that is left alone, ...
LEMMA MemoryStays ==
  ASSUME TypeInv, UNCHANGED <<space, spaces, shards>>
  PROVE  MemoryFine
<1>1. Len(spaces) \in Nat /\ Len(shards) \in Nat
  BY MemoryTyped
<1> QED BY <1>1 DEF MemoryFine, TypeInv, SpacesTyped, ShardsTyped, Bounds, Column

\* ... a space that is changed, but for its column, ...
LEMMA MemoryBut ==
  ASSUME TypeInv, UNCHANGED space, NEW s, NEW fields, SpaceBut(s, fields), "column" \notin fields,
         \/ shards' = shards
         \/ \E c, S : shards' = [shards EXCEPT ![c] = S] /\ (c \in 1 .. Len(shards) => S \subseteq Vertex)
  PROVE  MemoryFine
<1>1. Len(spaces) \in Nat /\ Len(shards) \in Nat
  BY MemoryTyped
<1>2. SpacesTyped' /\ Len(spaces') = Len(spaces)
  BY DEF SpaceBut, TypeInv, SpacesTyped
<1>3. ShardsTyped' /\ Len(shards') = Len(shards)
  <2>1. CASE shards' = shards
    BY <2>1 DEF TypeInv, ShardsTyped
  <2>2. ASSUME NEW c, NEW S, shards' = [shards EXCEPT ![c] = S], c \in 1 .. Len(shards) => S \subseteq Vertex
        PROVE  ShardsTyped' /\ Len(shards') = Len(shards)
    <3>1. ShardsTyped'
      BY <2>2, ShardPut DEF TypeInv
    <3>2. Len(shards') = Len(shards)
      BY <2>2, ShardPut DEF TypeInv
    <3> QED BY <3>1, <3>2
  <2> QED BY <2>1, <2>2
<1>4. \A i \in 1 .. Len(spaces) : Column(i)' = Column(i)
  BY DEF SpaceBut, Column
<1> QED BY <1>1, <1>2, <1>3, <1>4 DEF MemoryFine, TypeInv, Bounds

\* ... and shards alone.
LEMMA ShardsBut ==
  ASSUME TypeInv, UNCHANGED <<space, spaces>>, NEW c, NEW S,
         shards' = [shards EXCEPT ![c] = S], c \in 1 .. Len(shards) => S \subseteq Vertex
  PROVE  MemoryFine
<1>1. SpaceBut(0, {})
  BY DEF SpaceBut, TypeInv, SpacesTyped
<1> QED BY <1>1, MemoryBut

\* A column is given away.
LEMMA ColumnLeft ==
  ASSUME TypeInv, UNCHANGED <<space, shards>>, NEW s, spaces' = [spaces EXCEPT ![s].column = 0]
  PROVE  MemoryFine
<1>1. SpaceBut(s, {"column"}) /\ (s \in 1 .. Len(spaces) => Column(s)' = 0)
  BY ColumnPut DEF TypeInv
<1>2. Len(spaces) \in Nat /\ Len(shards) \in Nat
  BY MemoryTyped
<1>3. SpacesTyped' /\ Len(spaces') = Len(spaces) /\ ShardsTyped'
  BY <1>1 DEF SpaceBut, TypeInv, SpacesTyped, ShardsTyped
<1>4. \A i \in 1 .. Len(spaces) : Column(i)' \in {0, Column(i)}
  BY <1>1 DEF SpaceBut, Column
<1> QED BY <1>2, <1>3, <1>4 DEF MemoryFine, TypeInv, Bounds

\* A shard is added, and a space gets its column.
LEMMA ColumnFound ==
  ASSUME TypeInv, UNCHANGED space, NEW s, NEW S \in SUBSET Vertex, shards' = Append(shards, S),
         NEW fields, SpaceBut(s, fields), s \in 1 .. Len(spaces) => Column(s)' = Len(shards) + 1
  PROVE  MemoryFine
<1>1. ShardsTyped' /\ Len(shards') = Len(shards) + 1 /\ Len(spaces) \in Nat /\ Len(shards) \in Nat
  BY AppendShard, MemoryTyped DEF TypeInv
<1>2. SpacesTyped' /\ Len(spaces') = Len(spaces)
  BY DEF SpaceBut, TypeInv, SpacesTyped
<1>3. ASSUME NEW i \in 1 .. Len(spaces) PROVE Column(i)' <= Len(shards')
  <2>1. CASE i = s
    BY <1>1, <2>1
  <2>2. CASE i # s
    <3>1. Column(i)' = Column(i)
      BY <2>2 DEF SpaceBut, Column
    <3>2. Column(i) \in Nat
      BY MemoryTyped DEF Column, SpaceType
    <3> QED BY <1>1, <3>1, <3>2 DEF TypeInv, Bounds
  <2> QED BY <2>1, <2>2
<1> QED BY <1>1, <1>2, <1>3 DEF MemoryFine

\* A space is added.
LEMMA SpaceAdded ==
  ASSUME TypeInv, UNCHANGED shards, NEW n \in Names, NEW s \in SpaceType, s.column = 0, NewSpace(n, s)
  PROVE  MemoryFine
<1>1. /\ SpacesTyped' /\ Len(spaces') = Len(spaces) + 1 /\ spaces'[Len(spaces) + 1] = s
      /\ \A i \in 1 .. Len(spaces) : spaces'[i] = spaces[i]
  BY AppendSpace DEF TypeInv
<1>2. Len(spaces) \in Nat /\ Len(shards) \in Nat /\ ShardsTyped'
  BY MemoryTyped DEF TypeInv, ShardsTyped
<1>3. ASSUME NEW i \in 1 .. Len(spaces') PROVE Column(i)' <= Len(shards')
  <2>1. CASE i = Len(spaces) + 1
    BY <1>1, <1>2, <2>1 DEF Column
  <2>2. CASE i \in 1 .. Len(spaces)
    BY <1>1, <2>2 DEF Column, TypeInv, Bounds
  <2> QED BY <1>1, <1>2, <2>1, <2>2
<1> QED BY <1>1, <1>2, <1>3 DEF MemoryFine

\* A call that only goes to another place, ...
LEMMA GoFine ==
  ASSUME TypeInv, NEW w \in Workers, Busy(w), NEW at, Go(w, at),
         at \notin {"vertex", "read", "post", "withdraw"},
         work[w].op \in VertexOps => work[w].at # "enter"
  PROVE  Fine(w)
<1>1. But(w, {"at"}) /\ work'[w].at = at /\ Typed(work[w])
  BY GoBut, CallTyped DEF TypeInv
<1>2. Typed(work'[w])
  BY <1>1 DEF But, Typed, CallFields
<1>3. work'[w].to <= Len(spaces) /\ work'[w].shard <= Len(shards)
  BY <1>1 DEF But, CallFields, TypeInv, Bounds
<1> QED BY <1>1, <1>2, <1>3 DEF Fine, But

\* ... returns, ...
LEMMA ReturnFine ==
  ASSUME TypeInv, NEW w \in Workers, Return(w)
  PROVE  Fine(w)
BY ReturnEnds DEF Fine, Ends, TypeInv

\* ... turns to the next object, ...
LEMMA NextFine ==
  ASSUME TypeInv, NEW w \in Workers, Busy(w), work[w].op \in AdminOps, NEW at, NextObject(w, at),
         at \notin {"read", "post", "withdraw"}
  PROVE  Fine(w)
<1>1. /\ But(w, {"at", "to", "map", "data"})
      /\ work'[w].at = at /\ work'[w].to = Space(w) /\ work'[w].map = 0 /\ work'[w].data = {}
  BY NextBut DEF TypeInv
<1>2. Typed(work[w])
  BY CallTyped DEF TypeInv
<1>3. Space(w) \in 0 .. Len(spaces) /\ Len(spaces) \in Nat /\ MapShards \in Nat
  BY <1>2, MemoryTyped DEF Space, Typed
<1>4. Typed(work'[w])
  BY <1>1, <1>2, <1>3 DEF But, Typed, CallFields, AdminOps, VertexOps
<1>5. work'[w].to <= Len(spaces) /\ work'[w].shard <= Len(shards)
  BY <1>1, <1>3 DEF But, CallFields, TypeInv, Bounds
<1> QED BY <1>1, <1>4, <1>5 DEF Fine, But

\* ... has read something to save, ...
LEMMA ReadFine ==
  ASSUME TypeInv, NEW w \in Workers, Busy(w), NEW i \in 0 .. MapShards,
         NEW d \in {Unreadable} \cup SUBSET Vertex, i < MapShards => d \in SUBSET Vertex,
         work' = [work EXCEPT ![w].map = i, ![w].data = d]
  PROVE  Fine(w)
<1>1. But(w, {"map", "data"}) /\ work'[w].map = i /\ work'[w].data = d /\ Typed(work[w])
  BY ReadBut, CallTyped DEF TypeInv
<1>2. Typed(work'[w])
  BY <1>1 DEF But, Typed, CallFields
<1>3. work'[w].to <= Len(spaces) /\ work'[w].shard <= Len(shards)
  BY <1>1 DEF But, CallFields, TypeInv, Bounds
<1> QED BY <1>1, <1>2, <1>3 DEF Fine, But

\* ... has found its space.
LEMMA ToFine ==
  ASSUME TypeInv, NEW w \in Workers, Busy(w), Space(w) # 0, NEW at,
         at \notin {"vertex", "read", "post", "withdraw"},
         work' = [work EXCEPT ![w].to = Space(w), ![w].at = at]
  PROVE  Fine(w)
<1>1. But(w, {"to", "at"}) /\ work'[w].to = Space(w) /\ work'[w].at = at /\ Typed(work[w])
  BY ToBut, CallTyped DEF TypeInv
<1>2. Space(w) \in 0 .. Len(spaces) /\ Len(spaces) \in Nat
  BY <1>1, MemoryTyped DEF Space, Typed
<1>3. Typed(work'[w])
  BY <1>1, <1>2 DEF But, Typed, CallFields
<1>4. work'[w].to <= Len(spaces) /\ work'[w].shard <= Len(shards)
  BY <1>1, <1>2 DEF But, CallFields, TypeInv, Bounds
<1> QED BY <1>1, <1>3, <1>4 DEF Fine, But

\* A save that is complete, and one that fails.
LEMMA SavedFine ==
  ASSUME TypeInv, NEW w \in Workers, Busy(w), work[w].op \in Savers, Saved(w)
  PROVE  Fine(w)
<1>1. Return(w) \/ \E at \in {"flag", "destroy", "unflag"} : Go(w, at)
  BY DEF Saved, Savers
<1>2. work[w].op \notin VertexOps
  BY DEF Savers, VertexOps
<1> QED BY <1>1, <1>2, GoFine, ReturnFine

\* A call that is abandoned returns, undoes what it did, or goes on with the next object.
LEMMA AbandonFine ==
  ASSUME TypeInv, NEW w \in Workers, Busy(w), work[w].op \in Savers,
         NEW at \in {"vertex", "inverted", ""}, Abandon(w, at)
  PROVE  Fine(w)
<1>1. Return(w) \/ Go(w, "undo bucket") \/ NextObject(w, at)
  BY DEF Abandon
<1>2. work[w].op \notin VertexOps /\ work[w].op \in AdminOps
  BY DEF Savers, VertexOps, AdminOps
<1> QED BY <1>1, <1>2, GoFine, ReturnFine, NextFine

\* What a save reads of the maps, and of the index.
LEMMA PartTyped ==
  ASSUME TypeInv, NEW w \in Workers, Busy(w), work[w].to # 0
  PROVE  /\ work[w].to \in 1 .. Len(spaces)
         /\ \A i : Part(work[w].to, i) \subseteq Vertex
         /\ Postings(work[w].to) \subseteq Vertex
<1>1. work[w].to \in Nat /\ work[w].to <= Len(spaces) /\ Len(spaces) \in Nat
  BY CallTyped, MemoryTyped DEF TypeInv, Bounds, Typed
<1>2. work[w].to \in 1 .. Len(spaces)
  BY <1>1
<1> DEFINE s == work[w].to
<1>3. spaces[s] \in SpaceType
  BY <1>2, MemoryTyped
<1>4. spaces[s].vertices \subseteq Vertex /\ spaces[s].column \in Nat
  BY <1>3 DEF SpaceType
<1>5. Postings(s) \subseteq Vertex
  <2>1. CASE spaces[s].column = 0
    BY <2>1 DEF Postings
  <2>2. CASE spaces[s].column # 0
    <3>1. spaces[s].column <= Len(shards) /\ Len(shards) \in Nat
      BY <1>2, MemoryTyped DEF TypeInv, Bounds, Column
    <3>2. spaces[s].column \in 1 .. Len(shards)
      BY <1>4, <2>2, <3>1
    <3> QED BY <2>2, <3>2, MemoryTyped DEF Postings
  <2> QED BY <2>1, <2>2
<1> QED BY <1>2, <1>4, <1>5 DEF Part

\* The calls on collections.
LEMMA AdminFine ==
  ASSUME TypeInv, NEW w \in Workers, AdminStep(w)
  PROVE  Fine(w)
<1> USE DEF At
<1>1. ASSUME Busy(w), work[w].op \in AdminOps,
             Return(w) \/ \E at : Go(w, at) /\ at \notin {"vertex", "read", "post", "withdraw"}
      PROVE  Fine(w)
  <2>1. work[w].op \notin VertexOps
    BY <1>1 DEF AdminOps, VertexOps
  <2> QED BY <1>1, <2>1, GoFine, ReturnFine
<1>2. CASE \/ CreateBucket(w) \/ CreateSpace(w) \/ CreateUndoBucket(w) \/ CreateUndoFlags(w)
           \/ DestroySpace(w) \/ SetFlags(w) \/ DeleteFlags(w) \/ DeleteBucket(w)
           \/ LoadFill(w) \/ LoadInverted(w) \/ LoadVertex(w) \/ ReleaseUnflag(w)
  <2>1. Busy(w) /\ work[w].op \in AdminOps
    BY <1>2 DEF CreateBucket, CreateSpace, CreateUndoBucket, CreateUndoFlags, DestroySpace, SetFlags,
                DeleteFlags, DeleteBucket, LoadFill, LoadInverted, LoadVertex, ReleaseUnflag, AdminOps
  <2>2. Return(w) \/ \E at \in {"space", "undo bucket", "meta", "undo space", "undo flags", "remove bucket",
                                "load inverted", "load vertex", "flag", "destroy"} : Go(w, at)
    BY <1>2 DEF CreateBucket, CreateSpace, CreateUndoBucket, CreateUndoFlags, DestroySpace, SetFlags,
                DeleteFlags, DeleteBucket, LoadFill, LoadInverted, LoadVertex, ReleaseUnflag
  <2> QED BY <1>1, <2>1, <2>2
<1>3. CASE SaveMeta(w)
  <2>1. Busy(w) /\ work[w].op \in Savers /\ work[w].op \in AdminOps
    BY <1>3 DEF SaveMeta, Savers, AdminOps
  <2>2. NextObject(w, "vertex") \/ Abandon(w, "vertex")
    BY <1>3 DEF SaveMeta
  <2> QED BY <2>1, <2>2, NextFine, AbandonFine
<1>4. CASE SaveVertexMap(w)
  <2>1. /\ Busy(w) /\ work[w].op \in Savers /\ work[w].at = "vertex" /\ work[w].map < MapShards
        /\ work[w].to # 0
    BY <1>4 DEF SaveVertexMap
  <2>2. PICK i, d : /\ i = work[w].map + 1 /\ d = work[w].data \cup Part(work[w].to, work[w].map)
                    /\ work' = [work EXCEPT ![w].map = i, ![w].data = d]
    BY <1>4 DEF SaveVertexMap, TypeInv, WorkTyped
  <2>3. Typed(work[w]) /\ MapShards \in Nat
    BY <2>1, CallTyped, MemoryTyped DEF TypeInv
  <2>4. i \in 0 .. MapShards
    BY <2>1, <2>2, <2>3 DEF Typed
  <2>5. d \subseteq Vertex
    BY <2>1, <2>2, <2>3, PartTyped DEF Typed, Savers, AdminOps
  <2> QED BY <2>1, <2>2, <2>4, <2>5, ReadFine
<1>5. ASSUME NEW d \in {Unreadable} \cup SUBSET Vertex, Busy(w),
             work' = [work EXCEPT ![w].map = MapShards, ![w].data = d]
      PROVE  Fine(w)
  <2>1. MapShards \in Nat
    BY MemoryTyped
  <2>2. MapShards \in 0 .. MapShards /\ ~ (MapShards < MapShards)
    BY <2>1
  <2> QED BY <1>5, <2>2, ReadFine
<1>6. CASE SaveVertexFails(w)
  <2>1. Busy(w) /\ work[w].op \in Savers
    BY <1>6 DEF SaveVertexFails
  <2>2. Abandon(w, "") \/ work' = [work EXCEPT ![w].map = MapShards, ![w].data = Unreadable]
    BY <1>6 DEF SaveVertexFails
  <2> QED BY <1>5, <2>1, <2>2, AbandonFine
<1>7. CASE SaveVertexPut(w)
  <2>1. Busy(w) /\ work[w].op \in Savers /\ work[w].op \in AdminOps
    BY <1>7 DEF SaveVertexPut, Savers, AdminOps
  <2>2. NextObject(w, "inverted") \/ Saved(w) \/ Abandon(w, "inverted")
    BY <1>7 DEF SaveVertexPut
  <2> QED BY <2>1, <2>2, NextFine, SavedFine, AbandonFine
<1>8. CASE SaveInverted(w)
  <2>1. Busy(w) /\ work[w].op \in Savers
    BY <1>8 DEF SaveInverted
  <2>2. \/ Abandon(w, "") \/ work' = [work EXCEPT ![w].map = MapShards, ![w].data = Unreadable]
        \/ work[w].to # 0 /\ work' = [work EXCEPT ![w].map = MapShards, ![w].data = Postings(work[w].to)]
    BY <1>8 DEF SaveInverted
  <2>3. CASE /\ work[w].to # 0
             /\ work' = [work EXCEPT ![w].map = MapShards, ![w].data = Postings(work[w].to)]
    <3>1. PICK d : d = Postings(work[w].to)
      OBVIOUS
    <3>2. d \subseteq Vertex
      BY <2>1, <2>3, <3>1, PartTyped
    <3> QED BY <1>5, <2>1, <2>3, <3>1, <3>2
  <2> QED BY <1>5, <2>1, <2>2, <2>3, AbandonFine
<1>9. CASE SaveInvertedPut(w)
  <2>1. Busy(w) /\ work[w].op \in Savers
    BY <1>9 DEF SaveInvertedPut
  <2>2. Saved(w) \/ Abandon(w, "")
    BY <1>9 DEF SaveInvertedPut
  <2> QED BY <2>1, <2>2, SavedFine, AbandonFine
<1> QED BY <1>2, <1>3, <1>4, <1>6, <1>7, <1>8, <1>9 DEF AdminStep

\* Their spaces.
LEMMA AdminMemory ==
  ASSUME TypeInv, NEW w \in Workers, AdminStep(w)
  PROVE  MemoryFine
<1> USE DEF memory, At
<1>1. CASE CreateSpace(w)
  <2>1. work[w].name \in Names /\ shards' = shards
    BY <1>1, CallTyped DEF CreateSpace, TypeInv, Typed
  <2>2. Fresh \in SpaceType /\ Fresh.column = 0
    BY DEF Fresh, Hollow, SpaceType
  <2> QED BY <1>1, <2>1, <2>2, SpaceAdded, MemoryStays DEF CreateSpace
<1>2. CASE DestroySpace(w)
  <2>1. UNCHANGED <<spaces, shards>> /\ space' = [space EXCEPT ![work[w].name] = 0]
    BY <1>2 DEF DestroySpace
  <2>3. Len(spaces) \in Nat /\ Len(shards) \in Nat
    BY MemoryTyped
  <2>2. space' \in [Names -> 0 .. Len(spaces)]
    <3>1. space \in [Names -> 0 .. Len(spaces)]
      BY DEF TypeInv, SpacesTyped
    <3>2. 0 \in 0 .. Len(spaces)
      BY <2>3
    <3> QED BY <2>1, <3>1, <3>2
  <2> QED BY <2>1, <2>2, <2>3 DEF MemoryFine, TypeInv, SpacesTyped, ShardsTyped, Bounds, Column
<1>3. CASE LoadFill(w)
  <2>1. work[w].name \in Names /\ shards' = shards
    BY <1>3, CallTyped DEF LoadFill, TypeInv, Typed
  <2>2. Hollow \in SpaceType /\ Hollow.column = 0
    BY DEF Hollow, SpaceType
  <2>3. [Hollow EXCEPT !.described = TRUE] \in SpaceType /\ [Hollow EXCEPT !.described = TRUE].column = 0
    BY DEF Hollow, SpaceType
  <2>4. \/ NewSpace(work[w].name, Hollow) \/ NewSpace(work[w].name, [Hollow EXCEPT !.described = TRUE])
        \/ UNCHANGED <<space, spaces>>
    BY <1>3 DEF LoadFill
  <2> QED BY <2>1, <2>2, <2>3, <2>4, SpaceAdded, MemoryStays
<1>4. CASE LoadInverted(w)
  <2>1. Busy(w) /\ work[w].name \in Names /\ space' = space
    BY <1>4, CallTyped DEF LoadInverted, TypeInv, Typed
  <2>2. CASE UNCHANGED <<spaces, shards>>
    BY <2>1, <2>2, MemoryStays
  <2>3. CASE /\ Readable(work[w].name, "inverted") /\ Space(w) # 0
             /\ shards' = Append(shards, bucket[work[w].name].inverted)
             /\ spaces' = [spaces EXCEPT ![Space(w)].indexed = TRUE, ![Space(w)].column = Len(shards) + 1]
    <3>1. PICK s, S, c : s = Space(w) /\ S = bucket[work[w].name].inverted /\ c = Len(shards) + 1
      OBVIOUS
    <3>2. s \in 1 .. Len(spaces) /\ c \in Nat
      BY <2>1, <2>3, <3>1, MemoryTyped DEF Space
    <3>3. bucket[work[w].name] \in Bucket
      BY <2>1, <2>3 DEF Readable, TypeInv, BucketTyped
    <3>4. S \in SUBSET Vertex
      BY <2>3, <3>1, <3>3 DEF Readable, Object, Bucket
    <3>5. SpaceBut(s, {"indexed", "column"}) /\ Column(s)' = c
      BY <2>3, <3>1, <3>2, IndexPut DEF TypeInv
    <3> QED BY <2>1, <2>3, <3>1, <3>2, <3>4, <3>5, ColumnFound
  <2> QED BY <1>4, <2>2, <2>3 DEF LoadInverted
<1>5. CASE LoadVertex(w)
  <2>1. Busy(w) /\ work[w].name \in Names /\ UNCHANGED <<space, shards>>
    BY <1>5, CallTyped DEF LoadVertex, TypeInv, Typed
  <2>2. CASE UNCHANGED spaces
    BY <2>1, <2>2, MemoryStays
  <2>3. CASE /\ Readable(work[w].name, "vertex") /\ Space(w) # 0
             /\ spaces' = [spaces EXCEPT ![Space(w)].ready = TRUE,
                                         ![Space(w)].vertices = bucket[work[w].name].vertex]
    <3>1. PICK s, S : s = Space(w) /\ S = bucket[work[w].name].vertex
      OBVIOUS
    <3>2. s \in 1 .. Len(spaces)
      BY <2>1, <2>3, <3>1, MemoryTyped DEF Space
    <3>3. bucket[work[w].name] \in Bucket
      BY <2>1, <2>3 DEF Readable, TypeInv, BucketTyped
    <3>4. S \subseteq Vertex
      BY <2>3, <3>1, <3>3 DEF Readable, Object, Bucket
    <3>5. SpaceBut(s, {"ready", "vertices"})
      BY <2>3, <3>1, <3>2, <3>4, LoadPut DEF TypeInv
    <3> QED BY <2>1, <3>5, MemoryBut
  <2> QED BY <1>5, <2>2, <2>3 DEF LoadVertex
<1>6. CASE SaveVertexFails(w)
  <2>0. Busy(w) /\ UNCHANGED <<space, shards>>
    BY <1>6 DEF SaveVertexFails
  <2>1. Busy(w) /\ UNCHANGED <<space, shards>> /\ work[w].map \in Nat
    <3>1. Typed(work[w]) /\ MapShards \in Nat
      BY <2>0, CallTyped, MemoryTyped DEF TypeInv
    <3> QED BY <2>0, <3>1 DEF Typed
  <2>2. \/ spaces' = spaces
        \/ spaces' = [spaces EXCEPT ![work[w].to].leaked = spaces[work[w].to].leaked \cup {work[w].map}]
    BY <1>6 DEF SaveVertexFails, KeepLock
  <2>3. ASSUME NEW s, NEW i \in Nat,
               spaces' = [spaces EXCEPT ![s].leaked = spaces[s].leaked \cup {i}]
        PROVE  MemoryFine
    <3>1. SpaceBut(s, {"leaked"})
      BY <2>3, LeakedPut DEF TypeInv
    <3> QED BY <2>1, <3>1, MemoryBut
  <2> QED BY <2>1, <2>2, <2>3, MemoryStays
<1>7. ASSUME ~ CreateSpace(w), ~ DestroySpace(w), ~ LoadFill(w), ~ LoadInverted(w), ~ LoadVertex(w),
             ~ SaveVertexFails(w)
      PROVE  MemoryFine
  <2>1. UNCHANGED <<space, spaces, shards>>
    BY <1>7 DEF AdminStep, CreateBucket, CreateUndoBucket, CreateUndoFlags, SetFlags, DeleteFlags,
                DeleteBucket, ReleaseUnflag, SaveMeta, SaveVertexMap, SaveVertexPut, SaveInverted,
                SaveInvertedPut
  <2> QED BY <2>1, MemoryStays
<1> QED BY <1>1, <1>2, <1>3, <1>4, <1>5, <1>6, <1>7

\* getShard finds the shard of the column, or adds one.
LEMMA GetShardDoes ==
  ASSUME TypeInv, NEW w \in Workers, Busy(w), NEW s, s = work[w].to, s # 0,
         NEW at, GetShard(w, at), UNCHANGED space
  PROVE  /\ But(w, {"shard", "at"}) /\ work'[w].at = at
         /\ SpaceBut(s, {"column"}) /\ Column(s)' = work'[w].shard /\ Column(s)' # 0
         /\ \/ Column(s) # 0 /\ spaces' = spaces /\ shards' = shards
            \/ Column(s) = 0 /\ Column(s)' = Len(shards) + 1 /\ shards' = Append(shards, {})
<1>0. s \in 1 .. Len(spaces) /\ spaces[s] \in SpaceType /\ Len(shards) \in Nat
  BY PartTyped, MemoryTyped
<1>1. CASE Column(s) # 0
  <2>1. /\ work' = [work EXCEPT ![w].shard = Column(s), ![w].at = at]
        /\ UNCHANGED <<spaces, shards>>
    BY <1>1 DEF GetShard, Column
  <2>2. But(w, {"shard", "at"}) /\ work'[w].shard = Column(s) /\ work'[w].at = at
    BY <2>1, ShardBut DEF TypeInv
  <2>3. SpaceBut(s, {"column"})
    BY <2>1 DEF SpaceBut, TypeInv, SpacesTyped
  <2>4. Column(s)' = Column(s)
    BY <2>1 DEF Column
  <2> QED BY <1>1, <2>1, <2>2, <2>3, <2>4
<1>2. CASE Column(s) = 0
  <2>1. PICK c : c = Len(shards) + 1
    OBVIOUS
  <2>2. /\ work' = [work EXCEPT ![w].shard = c, ![w].at = at]
        /\ shards' = Append(shards, {}) /\ spaces' = [spaces EXCEPT ![s].column = c]
    BY <1>2, <2>1 DEF GetShard, Column
  <2>3. But(w, {"shard", "at"}) /\ work'[w].shard = c /\ work'[w].at = at
    BY <2>2, ShardBut DEF TypeInv
  <2>4. SpaceBut(s, {"column"}) /\ Column(s)' = c
    <3>1. c \in Nat
      BY <1>0, <2>1
    <3> QED BY <1>0, <2>2, <3>1, ColumnPut DEF TypeInv
  <2>5. c # 0
    BY <1>0, <2>1
  <2> QED BY <1>2, <2>1, <2>2, <2>3, <2>4, <2>5
<1> QED BY <1>1, <1>2

\* So types are kept.
LEMMA GetShardTyped ==
  ASSUME TypeInv, NEW w \in Workers, Busy(w), work[w].to # 0,
         NEW at \in {"post", "read", "withdraw"}, GetShard(w, at), UNCHANGED space
  PROVE  MemoryFine /\ WorkTyped' /\ Bounds'
<1>1. PICK s : s = work[w].to
  OBVIOUS
<1>2. But(w, {"shard", "at"}) /\ work'[w].at = at
  BY <1>1, GetShardDoes
<1>3. /\ SpaceBut(s, {"column"}) /\ Column(s)' = work'[w].shard /\ Column(s)' # 0
      /\ \/ Column(s) # 0 /\ spaces' = spaces /\ shards' = shards
         \/ Column(s) = 0 /\ Column(s)' = Len(shards) + 1 /\ shards' = Append(shards, {})
  BY <1>1, GetShardDoes
<1>4. s \in 1 .. Len(spaces)
  BY <1>1, PartTyped
<1>5. MemoryFine
  BY <1>3, MemoryStays, ColumnFound
<1>6. Len(spaces') = Len(spaces) /\ Column(s)' \in Nat /\ Column(s)' <= Len(shards')
  <2>1. Len(spaces') = Len(spaces) /\ spaces' \in Seq(SpaceType)
    BY <1>3 DEF SpaceBut
  <2>2. spaces'[s] \in SpaceType
    BY <1>4, <2>1
  <2> QED BY <1>4, <1>5, <2>1, <2>2 DEF MemoryFine, Column, SpaceType
<1>7. Typed(work'[w])
  <2>1. Typed(work[w])
    BY CallTyped DEF TypeInv
  <2> QED BY <1>1, <1>2, <1>3, <1>6, <2>1 DEF But, Typed, CallFields
<1>8. work'[w].to <= Len(spaces') /\ work'[w].shard <= Len(shards')
  BY <1>2, <1>3, <1>6 DEF But, CallFields, TypeInv, Bounds
<1> QED BY <1>2, <1>5, <1>7, <1>8, StepTyped DEF But

\* A call on vertices that has entered has its space.
LEMMA HasEntered ==
  ASSUME TypeInv, NEW w \in Workers, Busy(w), work[w].op \in VertexOps, work[w].at # "enter"
  PROVE  work[w].to # 0
BY CallTyped DEF TypeInv, Typed

\* A call ends and keeps a lock of its space.
Locks(w, i) == /\ spaces' = [spaces EXCEPT ![work[w].to].leaked = spaces[work[w].to].leaked \cup {i}]
               /\ shards' = shards /\ Return(w)

\* The memory keeps its types, ...
LEMMA LocksSpace ==
  ASSUME TypeInv, NEW w \in Workers, NEW i \in Nat, Locks(w, i)
  PROVE  SpaceBut(work[w].to, {"leaked"}) /\ (UNCHANGED space => MemoryFine)
<1>1. PICK s : s = work[w].to
  OBVIOUS
<1>2. spaces' = [spaces EXCEPT ![s].leaked = spaces[s].leaked \cup {i}] /\ shards' = shards
  BY <1>1 DEF Locks
<1>3. SpaceBut(s, {"leaked"})
  BY <1>2, LeakedPut DEF TypeInv
<1> QED BY <1>1, <1>2, <1>3, MemoryBut

\* ... as when a panic of Add keeps the lock of the shard, ...
LEMMA PanicLocks ==
  ASSUME TypeInv, NEW w \in Workers, ChangePanics(w)
  PROVE  /\ Busy(w) /\ work[w].op = "change" /\ work[w].at = "post" /\ space' = space
         /\ ShardLock(work[w].shard) \in 0 .. MapShards + Len(shards)
         /\ Locks(w, ShardLock(work[w].shard))
<1>1. Busy(w) /\ work[w].op = "change" /\ work[w].at = "post" /\ space' = space
  BY DEF ChangePanics, At, UnchangedByIndex
<1>2. Typed(work[w]) /\ work[w].shard <= Len(shards)
  BY <1>1, CallTyped DEF TypeInv, Bounds
<1>3. work[w].shard \in Nat /\ Len(shards) \in Nat /\ MapShards \in Nat
  BY <1>2, MemoryTyped DEF Typed
<1>4. ShardLock(work[w].shard) \in 0 .. MapShards + Len(shards)
  BY <1>2, <1>3 DEF ShardLock
<1>5. Locks(w, ShardLock(work[w].shard))
  BY DEF ChangePanics, Locks
<1> QED BY <1>1, <1>4, <1>5

\* ... and one of a search the lock of the map.
LEMMA SearchLocks ==
  ASSUME TypeInv, NEW w \in Workers, SearchKeepsLock(w)
  PROVE  work[w].at = "scan" /\ \E i \in 0 .. MapShards - 1 : Locks(w, i)
<1>1. PICK i : Mismatch(w, i) /\ spaces' = [spaces EXCEPT ![work[w].to].leaked = @ \cup {i}]
  BY DEF SearchKeepsLock
<1>2. PICK v \in Part(work[w].to, i) : v.id \in work[w].ids
  BY <1>1 DEF Mismatch
<1>3. Busy(w) /\ work[w].op = "search" /\ work[w].at = "scan" /\ shards' = shards /\ Return(w)
  BY DEF SearchKeepsLock, At
<1>4. work[w].to # 0
  BY <1>3, HasEntered DEF VertexOps
<1>5. v \in Vertex /\ i = v.id % MapShards
  BY <1>2, <1>3, <1>4, PartTyped DEF Part, MapOf
<1>6. v.id \in Nat /\ MapShards \in Nat \ {0}
  BY <1>5, VectorStoresAssumption, MemoryTyped DEF Vertex
<1>7. i \in 0 .. MapShards - 1
  BY <1>5, <1>6
<1>8. Locks(w, i)
  BY <1>1, <1>3 DEF Locks
<1> QED BY <1>3, <1>7, <1>8

\* The calls on vertices.
LEMMA ChangeTyped ==
  ASSUME TypeInv, NEW w \in Workers, ChangeStep(w)
  PROVE  MemoryFine /\ WorkTyped' /\ Bounds'
<1> USE DEF At
<1>1. Busy(w) /\ work[w].op \in {"change", "remove"} /\ space' = space
  BY DEF ChangeStep, Enter, ChangeColumn, ChangePost, ChangePanics, ChangeStore, RemoveColumn, RemoveSearch,
         RemoveNext, RemoveLock, RemoveFindColumn, RemovePosting, RemoveColumnShard, RemoveErase,
         MultiRemove, UnchangedByIndex, memory
<1>2. Typed(work[w]) /\ work[w].op \in VertexOps
  BY <1>1, CallTyped DEF TypeInv, VertexOps
<1>3. work[w].at # "enter" => work[w].to # 0 /\ work[w].to \in 1 .. Len(spaces)
  BY <1>1, <1>2, HasEntered, PartTyped
<1>4. ASSUME work[w].at # "enter",
             \/ Return(w) \/ Go(w, "store") \/ Go(w, "find column") \/ Go(w, "next")
             \/ Go(w, "drop column") \/ Go(w, "erase")
      PROVE  Fine(w)
  BY <1>1, <1>4, GoFine, ReturnFine
<1>5. MemoryFine /\ Fine(w) => MemoryFine /\ WorkTyped' /\ Bounds'
  BY FineTyped
<1>6. UNCHANGED <<spaces, shards>> => MemoryFine
  BY <1>1, MemoryStays
<1>7. ASSUME NEW s, NEW V, spaces' = [spaces EXCEPT ![s].vertices = V], shards' = shards,
             s \in 1 .. Len(spaces) => V \subseteq Vertex
      PROVE  MemoryFine
  <2>1. SpaceBut(s, {"vertices"})
    BY <1>7, VerticesPut DEF TypeInv
  <2> QED BY <1>1, <1>7, <2>1, MemoryBut
<1>8. ASSUME NEW at \in {"post", "read", "withdraw"}, work[w].at # "enter", GetShard(w, at)
      PROVE  MemoryFine /\ WorkTyped' /\ Bounds'
  BY <1>1, <1>3, <1>8, GetShardTyped
<1>9. \A i \in 1 .. Len(spaces) : spaces[i].vertices \subseteq Vertex
  BY MemoryTyped DEF SpaceType
<1>10. \A i \in 1 .. Len(shards) : shards[i] \subseteq Vertex
  BY MemoryTyped
<1>11. CASE Enter(w)
  <2>1. UNCHANGED <<spaces, shards>>
    BY <1>11 DEF Enter, memory
  <2>2. CASE Return(w)
    BY <1>5, <1>6, <2>1, <2>2, ReturnFine
  <2>3. CASE Space(w) # 0 /\ \E at \in {"store", "lock", "column", "search"} :
                               work' = [work EXCEPT ![w].to = Space(w), ![w].at = at]
    BY <1>1, <1>5, <1>6, <2>1, <2>3, ToFine
  <2> QED BY <1>11, <2>2, <2>3 DEF Enter
<1>12. CASE ChangeColumn(w) \/ RemoveColumn(w)
  <2>1. work[w].at # "enter"
    BY <1>12 DEF ChangeColumn, RemoveColumn
  <2>2. GetShard(w, "post") \/ GetShard(w, "read") \/ (Return(w) /\ UNCHANGED <<spaces, shards>>)
    BY <1>12 DEF ChangeColumn, RemoveColumn
  <2> QED BY <1>4, <1>5, <1>6, <1>8, <2>1, <2>2
<1>13. CASE RemoveFindColumn(w)
  <2>1. work[w].at # "enter" /\ GetShard(w, "withdraw")
    BY <1>13 DEF RemoveFindColumn
  <2> QED BY <1>8, <2>1
<1>14. CASE ChangePost(w)
  <2>1. /\ shards' = [shards EXCEPT ![work[w].shard] = shards[work[w].shard] \cup {work[w].vertex}]
        /\ spaces' = spaces /\ Go(w, "store") /\ work[w].at = "post" /\ work[w].op = "change"
    BY <1>14, <1>2 DEF ChangePost, TypeInv
  <2>2. PICK c, S : c = work[w].shard /\ S = shards[c] \cup {work[w].vertex}
    OBVIOUS
  <2>3. c \in 1 .. Len(shards) => S \subseteq Vertex
    BY <1>2, <1>10, <2>1, <2>2 DEF Typed
  <2>4. MemoryFine
    BY <1>1, <2>1, <2>2, <2>3, ShardsBut
  <2> QED BY <1>4, <1>5, <2>1, <2>4
<1>15. CASE ChangeStore(w)
  <2>1. PICK s, x : s = work[w].to /\ x = work[w].vertex
    OBVIOUS
  <2>2. /\ Return(w) /\ shards' = shards /\ work[w].at # "enter" /\ work[w].op = "change"
        /\ \/ spaces' = [spaces EXCEPT ![s].vertices = Except(spaces[s].vertices, LAMBDA y : y.id = x.id) \cup {x}]
           \/ spaces' = spaces
    BY <1>15, <2>1 DEF ChangeStore
  <2>3. s \in 1 .. Len(spaces) => Except(spaces[s].vertices, LAMBDA y : y.id = x.id) \cup {x} \subseteq Vertex
    BY <1>2, <1>9, <2>1, <2>2 DEF Except, Typed
  <2>4. MemoryFine
    BY <1>6, <1>7, <2>2, <2>3
  <2> QED BY <1>4, <1>5, <2>2, <2>4
<1>16. CASE RemoveSearch(w)
  <2>1. UNCHANGED <<spaces, shards>> /\ work[w].at = "read"
    BY <1>16 DEF RemoveSearch
  <2>2. But(w, {"at", "ids"}) /\ work'[w].at = "next" /\ work'[w].ids = {p.id : p \in Found(w)}
    BY <1>16, SearchBut DEF TypeInv
  <2>3. work[w].shard \in 1 .. Len(shards)
    BY <1>1, <1>2, <2>1, MemoryTyped DEF Typed, TypeInv, Bounds
  <2>4. work'[w].ids \subseteq 1 .. MaxIds
    BY <1>10, <2>2, <2>3 DEF Found, Vertex
  <2>5. Typed(work'[w])
    BY <1>2, <2>1, <2>2, <2>4 DEF But, Typed, CallFields
  <2>6. work'[w].to <= Len(spaces) /\ work'[w].shard <= Len(shards)
    BY <1>1, <2>2 DEF But, CallFields, TypeInv, Bounds
  <2> QED BY <1>5, <1>6, <2>1, <2>2, <2>5, <2>6 DEF Fine, But
<1>17. CASE RemoveNext(w)
  <2>1. UNCHANGED <<spaces, shards>> /\ work[w].at = "next" /\ work[w].op = "remove"
    BY <1>17 DEF RemoveNext
  <2>2. CASE Return(w)
    BY <1>4, <1>5, <1>6, <2>1, <2>2
  <2>3. ASSUME NEW id \in work[w].ids,
               work' = [work EXCEPT ![w].at = "lock", ![w].ids = work[w].ids \ {id}, ![w].vertex.id = id]
        PROVE  Fine(w)
    <3>1. /\ But(w, {"at", "ids", "vertex"})
          /\ work'[w].at = "lock" /\ work'[w].ids = work[w].ids \ {id}
          /\ DOMAIN work'[w].vertex = {"id", "tag"} /\ work'[w].vertex.id = id
      BY <1>1, <2>1, <2>3, TurnBut DEF TypeInv
    <3>2. id \in 0 .. MaxIds /\ work'[w].ids \subseteq 1 .. MaxIds
      BY <1>2, <3>1 DEF Typed
    <3>3. Typed(work'[w])
      BY <1>2, <2>1, <3>1, <3>2 DEF But, Typed, CallFields
    <3>4. work'[w].to <= Len(spaces) /\ work'[w].shard <= Len(shards)
      BY <1>1, <3>1 DEF But, CallFields, TypeInv, Bounds
    <3> QED BY <3>1, <3>3, <3>4 DEF Fine, But
  <2>4. \/ Return(w)
        \/ \E id \in work[w].ids :
             work' = [work EXCEPT ![w].at = "lock", ![w].ids = work[w].ids \ {id}, ![w].vertex.id = id]
    BY <1>17 DEF RemoveNext
  <2> QED BY <1>5, <1>6, <2>1, <2>2, <2>3, <2>4
<1>18. CASE RemoveLock(w)
  <2>1. /\ UNCHANGED <<spaces, shards>> /\ work[w].at # "enter"
        /\ (Return(w) \/ Go(w, "find column") \/ Go(w, "next"))
    BY <1>18 DEF RemoveLock
  <2> QED BY <1>4, <1>5, <1>6, <2>1
<1>19. CASE RemovePosting(w)
  <2>1. PICK c, S : c = work[w].shard /\ S = {p \in shards[c] : p.id # work[w].vertex.id}
    OBVIOUS
  <2>2. /\ shards' = [shards EXCEPT ![c] = S] /\ spaces' = spaces /\ work[w].at # "enter"
        /\ (Go(w, "drop column") \/ Go(w, "erase"))
    BY <1>19, <2>1 DEF RemovePosting
  <2>3. c \in 1 .. Len(shards) => S \subseteq Vertex
    BY <1>10, <2>1
  <2>4. MemoryFine
    BY <1>1, <2>2, <2>3, ShardsBut
  <2> QED BY <1>4, <1>5, <2>2, <2>4
<1>20. CASE RemoveColumnShard(w)
  <2>1. /\ spaces' = [spaces EXCEPT ![work[w].to].column = 0] /\ shards' = shards
        /\ Go(w, "erase") /\ work[w].at # "enter"
    BY <1>20 DEF RemoveColumnShard
  <2>2. MemoryFine
    BY <1>1, <2>1, ColumnLeft
  <2> QED BY <1>4, <1>5, <2>1, <2>2
<1>21. CASE RemoveErase(w) \/ MultiRemove(w)
  <2>1. PICK s, V : s = work[w].to /\ V = Except(spaces[s].vertices, LAMBDA y : y.id = work[w].vertex.id)
    OBVIOUS
  <2>2. /\ work[w].at # "enter" /\ (Return(w) \/ Go(w, "next"))
        /\ (spaces' = [spaces EXCEPT ![s].vertices = V] \/ spaces' = spaces)
    BY <1>21, <2>1 DEF RemoveErase, MultiRemove, Erase
  <2>3. shards' = shards
    BY <1>21 DEF RemoveErase, MultiRemove
  <2>4. s \in 1 .. Len(spaces) => V \subseteq Vertex
    BY <1>9, <2>1 DEF Except
  <2>5. MemoryFine
    BY <1>6, <1>7, <2>2, <2>3, <2>4
  <2> QED BY <1>4, <1>5, <2>2, <2>5
<1>22. CASE ChangePanics(w)
  <2>1. PICK i \in Nat : Locks(w, i)
    BY <1>22, PanicLocks
  <2>2. MemoryFine /\ Fine(w)
    BY <1>1, <2>1, LocksSpace, ReturnFine DEF Locks
  <2> QED BY <1>5, <2>2
<1> QED BY <1>11, <1>12, <1>13, <1>14, <1>15, <1>16, <1>17, <1>18, <1>19, <1>20, <1>21, <1>22 DEF ChangeStep

\* A search goes on, with another space only when it enters, ...
Sought(w) == /\ But(w, {"at", "to", "ids", "left", "data"})
             /\ work'[w].at \notin {"enter", "read", "post", "withdraw"} /\ work'[w].to # 0
             /\ work'[w].to = work[w].to \/ (work[w].at = "enter" /\ work'[w].to = Space(w))
             /\ work'[w].ids \subseteq 1 .. MaxIds

\* ... as it does when it knows what to read.
LEMMA ScanSought ==
  ASSUME TypeInv, NEW w \in Workers, Busy(w), NEW s, NEW ids, SearchScan(w, s, ids), s # 0,
         s = work[w].to \/ (work[w].at = "enter" /\ s = Space(w)), ids \subseteq 1 .. MaxIds
  PROVE  Sought(w)
<1>1. PICK at : at \in Scans /\ \E left : work' = [work EXCEPT ![w].at = at, ![w].to = s, ![w].ids = ids, ![w].left = left]
  BY DEF SearchScan
<1>0. PICK left : work' = [work EXCEPT ![w].at = at, ![w].to = s, ![w].ids = ids, ![w].left = left]
  BY <1>1
<1> DEFINE a == [work[w] EXCEPT !.at = at, !.to = s, !.ids = ids, !.left = left]
           fields == {"at", "to", "ids", "left", "data"}
<1>2. DOMAIN work[w] = CallFields
  BY CallTyped DEF TypeInv, Typed
<1>3. /\ DOMAIN a = CallFields /\ a.at = at /\ a.to = s /\ a.ids = ids
      /\ \A f \in CallFields \ fields : a[f] = work[w][f]
  BY <1>2 DEF CallFields
<1>4. work' = [work EXCEPT ![w] = a]
  BY <1>0 DEF TypeInv, WorkTyped
<1>5. at \in {"scan", "parallel"}
  BY <1>1 DEF Scans
<1> HIDE DEF a
<1>6. But(w, fields) /\ work'[w] = a
  BY <1>3, <1>4, BecomesWhat, ZenonT(60) DEF TypeInv
<1> QED BY <1>3, <1>5, <1>6 DEF Sought

\* The steps of searches.
LEMMA SearchMoves ==
  ASSUME TypeInv, NEW w \in Workers, SearchStep(w)
  PROVE  /\ Busy(w) /\ work[w].op = "search"
         /\ \/ Die
            \/ /\ UNCHANGED <<mode, bucket, process, exists, loaded, space, lastId, torn>>
               /\ \/ UNCHANGED <<spaces, shards>> /\ (Return(w) \/ Sought(w))
                  \/ work[w].at # "enter" /\ GetShard(w, "read")
                  \/ work[w].at = "scan" /\ \E i \in 0 .. MapShards - 1 : Locks(w, i)
<1> USE DEF At
<1>1. Busy(w) /\ work[w].op = "search"
  BY DEF SearchStep, SearchEnter, SearchColumn, SearchFilter, SearchMap, SearchAnswer, SearchEnd,
         SearchFails, SearchKeepsLock, SearchPanics
<1>2. Typed(work[w]) /\ (work[w].at # "enter" => work[w].to # 0)
  BY <1>1, CallTyped, HasEntered DEF TypeInv, VertexOps
<1>3. \/ Die
      \/ UNCHANGED <<mode, bucket, process, exists, loaded, space, lastId, torn>>
  BY DEF SearchStep, SearchEnter, SearchColumn, SearchFilter, SearchMap, SearchAnswer, SearchEnd,
         SearchFails, SearchKeepsLock, SearchPanics, SearchReturn, UnchangedByIndex, flags
<1>4. CASE SearchEnter(w)
  <2>1. UNCHANGED <<spaces, shards>> /\ work[w].at = "enter" /\ Space(w) # 0
    BY <1>4 DEF SearchEnter
  <2>2. CASE SearchScan(w, Space(w), 1 .. MaxIds)
    <3>1. PICK s, ids : s = Space(w) /\ ids = 1 .. MaxIds
      OBVIOUS
    <3>2. Sought(w)
      BY <1>1, <2>1, <2>2, <3>1, ScanSought
    <3> QED BY <1>1, <1>3, <2>1, <3>2
  <2>3. CASE work' = [work EXCEPT ![w].to = Space(w), ![w].at = "column"]
    <3>1. But(w, {"to", "at"}) /\ work'[w].to = Space(w) /\ work'[w].at = "column"
      BY <1>1, <2>3, ToBut DEF TypeInv
    <3>2. Sought(w)
      BY <1>2, <2>1, <3>1 DEF Sought, But, CallFields, Typed
    <3> QED BY <1>1, <1>3, <2>1, <3>2
  <2> QED BY <1>4, <2>2, <2>3 DEF SearchEnter
<1>5. CASE SearchColumn(w)
  <2>1. work[w].at # "enter" /\ GetShard(w, "read")
    BY <1>5 DEF SearchColumn
  <2> QED BY <1>1, <1>3, <2>1
<1>6. CASE SearchFilter(w)
  <2>1. UNCHANGED <<spaces, shards>> /\ work[w].at = "read"
    BY <1>6 DEF SearchFilter
  <2>2. PICK s, ids : s = work[w].to /\ ids = {p.id : p \in Found(w)}
    OBVIOUS
  <2>3. work[w].shard \in 1 .. Len(shards)
    BY <1>1, <1>2, <2>1, MemoryTyped DEF Typed, TypeInv, Bounds
  <2>4. ids \subseteq 1 .. MaxIds
    BY <2>2, <2>3, MemoryTyped DEF Found, Vertex
  <2>5. SearchScan(w, s, ids)
    BY <1>6, <2>2 DEF SearchFilter
  <2>6. s # 0
    BY <1>2, <2>1, <2>2
  <2>7. Sought(w)
    BY <1>1, <2>2, <2>4, <2>5, <2>6, ScanSought
  <2> QED BY <1>1, <1>3, <2>1, <2>7
<1>7. CASE SearchMap(w)
  <2>1. UNCHANGED <<spaces, shards>> /\ work[w].at \in {"scan", "parallel"}
    BY <1>7 DEF SearchMap
  <2>2. PICK i, d : work' = [work EXCEPT ![w].left = work[w].left \ {i}, ![w].data = d]
    <3>1. PICK i, part : work' = [work EXCEPT ![w].left = @ \ {i}, ![w].data =
                          IF work[w].at = "scan" THEN Queue!AddAll(@, part)
                          ELSE @ \cup Queue!AddAll({}, part)]
      BY <1>7 DEF SearchMap
    <3>2. work' = [work EXCEPT ![w].left = work[w].left \ {i}, ![w].data =
                          IF work[w].at = "scan" THEN Queue!AddAll(work[w].data, part)
                          ELSE work[w].data \cup Queue!AddAll({}, part)]
      BY <3>1 DEF TypeInv, WorkTyped
    <3> QED BY <3>2
  <2> DEFINE a == [work[w] EXCEPT !.left = work[w].left \ {i}, !.data = d]
             fields == {"at", "to", "ids", "left", "data"}
  <2>3. DOMAIN work[w] = CallFields
    BY <1>2 DEF Typed
  <2>4. /\ DOMAIN a = CallFields /\ a.at = work[w].at /\ a.to = work[w].to /\ a.ids = work[w].ids
        /\ \A f \in CallFields \ fields : a[f] = work[w][f]
    BY <2>3 DEF CallFields
  <2>5. work' = [work EXCEPT ![w] = a]
    BY <2>2 DEF TypeInv, WorkTyped
  <2> HIDE DEF a
  <2>6. But(w, fields) /\ work'[w] = a
    BY <1>1, <2>4, <2>5, BecomesWhat, ZenonT(60) DEF TypeInv
  <2>7. Sought(w)
    BY <1>2, <2>1, <2>4, <2>6 DEF Sought, Typed
  <2> QED BY <1>1, <1>3, <2>1, <2>7
<1>8. CASE SearchAnswer(w)
  <2>1. UNCHANGED <<spaces, shards>> /\ work[w].at \in {"scan", "parallel"}
    BY <1>8 DEF SearchAnswer
  <2>2. PICK d : work' = [work EXCEPT ![w].at = "answer", ![w].ids = {}, ![w].data = d]
    BY <1>8 DEF SearchAnswer, TypeInv, WorkTyped
  <2> DEFINE a == [work[w] EXCEPT !.at = "answer", !.ids = {}, !.data = d]
             fields == {"at", "to", "ids", "left", "data"}
  <2>3. DOMAIN work[w] = CallFields
    BY <1>2 DEF Typed
  <2>4. /\ DOMAIN a = CallFields /\ a.at = "answer" /\ a.to = work[w].to /\ a.ids = {}
        /\ \A f \in CallFields \ fields : a[f] = work[w][f]
    BY <2>3 DEF CallFields
  <2>5. work' = [work EXCEPT ![w] = a]
    BY <2>2 DEF TypeInv, WorkTyped
  <2> HIDE DEF a
  <2>6. But(w, fields) /\ work'[w] = a
    BY <1>1, <2>4, <2>5, BecomesWhat, ZenonT(60) DEF TypeInv
  <2>7. Sought(w)
    BY <1>2, <2>1, <2>4, <2>6 DEF Sought, Typed
  <2> QED BY <1>1, <1>3, <2>1, <2>7
<1>9. CASE SearchEnd(w) \/ SearchFails(w)
  <2>1. UNCHANGED <<spaces, shards>> /\ Return(w)
    BY <1>9 DEF SearchEnd, SearchFails, SearchReturn
  <2> QED BY <1>1, <1>3, <2>1
<1>10. CASE SearchPanics(w)
  BY <1>1, <1>10 DEF SearchPanics
<1>11. CASE SearchKeepsLock(w)
  BY <1>1, <1>3, <1>11, SearchLocks
<1> QED BY <1>4, <1>5, <1>6, <1>7, <1>8, <1>9, <1>10, <1>11 DEF SearchStep

\* A process that ends has nothing in memory.
LEMMA ForgetTyped ==
  ASSUME TypeInv, Forget
  PROVE  WorkTyped' /\ SpacesTyped' /\ ShardsTyped' /\ Bounds'
<1>1. spaces' \in Seq(SpaceType) /\ Len(spaces') = 0 /\ shards' \in Seq(SUBSET Vertex) /\ Len(shards') = 0
  BY DEF Forget
<1>2. space' \in [Names -> 0 .. Len(spaces')]
  BY <1>1 DEF Forget
<1>3. DOMAIN work' = Workers /\ \A w \in Workers : work'[w] = Idle
  BY DEF Forget
<1> QED BY <1>1, <1>2, <1>3 DEF WorkTyped, SpacesTyped, ShardsTyped, Bounds, Busy

\* Searches.
LEMMA SearchTyped ==
  ASSUME TypeInv, NEW w \in Workers, SearchStep(w)
  PROVE  WorkTyped' /\ SpacesTyped' /\ ShardsTyped' /\ Bounds'
<1>1. Busy(w) /\ work[w].op = "search" /\ work[w].op \in VertexOps
  BY SearchMoves DEF VertexOps
<1>2. CASE Die
  BY <1>2, ForgetTyped DEF Die
<1>3. CASE UNCHANGED <<space, spaces, shards>> /\ Return(w)
  BY <1>3, MemoryStays, ReturnFine, FineTyped DEF MemoryFine
<1>4. CASE UNCHANGED <<space, spaces, shards>> /\ Sought(w)
  <2>1. Typed(work[w])
    BY <1>1, CallTyped DEF TypeInv
  <2>2. work'[w].to \in 0 .. Len(spaces) /\ work[w].shard <= Len(shards)
    <3>1. Space(w) \in 0 .. Len(spaces)
      BY <2>1, MemoryTyped DEF Space, Typed
    <3>2. work[w].to \in 0 .. Len(spaces) /\ work[w].shard <= Len(shards)
      BY <1>1, <2>1, MemoryTyped DEF TypeInv, Bounds, Typed
    <3> QED BY <1>4, <3>1, <3>2 DEF Sought
  <2>3. But(w, {"at", "to", "ids", "left", "data"})
    BY <1>4 DEF Sought
  <2>4. work'[w].op = "search" /\ work'[w].shard = work[w].shard
    BY <1>1, <2>3 DEF But, CallFields
  <2>5. Len(spaces) \in Nat
    BY MemoryTyped
  <2>6. Typed(work'[w])
    BY <1>4, <2>1, <2>2, <2>3, <2>4, <2>5 DEF Sought, But, CallFields, Typed, AdminOps, VertexOps
  <2>7. work'[w].to <= Len(spaces)
    BY <2>2, <2>5
  <2>8. Fine(w)
    BY <2>2, <2>3, <2>4, <2>6, <2>7 DEF Fine, But
  <2> QED BY <1>4, <2>8, MemoryStays, FineTyped DEF MemoryFine
<1>5. CASE UNCHANGED space /\ work[w].at # "enter" /\ GetShard(w, "read")
  <2>1. work[w].to # 0
    BY <1>1, <1>5, HasEntered
  <2> QED BY <1>1, <1>5, <2>1, GetShardTyped DEF MemoryFine
<1>6. ASSUME UNCHANGED space, NEW i \in Nat, Locks(w, i)
      PROVE  WorkTyped' /\ SpacesTyped' /\ ShardsTyped' /\ Bounds'
  <2>1. MemoryFine /\ Fine(w)
    BY <1>6, LocksSpace, ReturnFine DEF Locks
  <2> QED BY <2>1, FineTyped DEF MemoryFine
<1>7. MapShards \in Nat /\ \A i \in 0 .. MapShards - 1 : i \in Nat
  BY MemoryTyped
<1> QED BY <1>2, <1>3, <1>4, <1>5, <1>6, <1>7, SearchMoves

\* A call as it begins.
Starts(w, op, at, n, v) ==
  /\ DOMAIN work' = Workers /\ Others(w) /\ ~ Busy(w) /\ Busy(w)' /\ DOMAIN work'[w] = CallFields
  /\ work'[w].op = op /\ work'[w].at = at /\ work'[w].name = n /\ work'[w].vertex = v
  /\ work'[w].to = 0 /\ work'[w].shard = 0 /\ work'[w].ids = {} /\ work'[w].map = 0 /\ work'[w].data = {}

\* On a collection, ...
LEMMA AdminStarts ==
  ASSUME TypeInv, NEW w \in Workers, NEW op, NEW at, NEW n, ~ Busy(w),
         work' = [work EXCEPT ![w] = Call(op, at, n)]
  PROVE  Starts(w, op, at, n, NoVertex)
<1> DEFINE a == Call(op, at, n)
<1>1. /\ DOMAIN a = CallFields /\ a.op = op /\ a.at = at /\ a.name = n /\ a.vertex = NoVertex
      /\ a.to = 0 /\ a.shard = 0 /\ a.ids = {} /\ a.map = 0 /\ a.data = {}
  BY DEF Call, CallFields
<1>2. a # Idle
  BY DEF Call, Idle
<1> HIDE DEF a
<1>3. work' = [work EXCEPT ![w] = a]
  BY DEF a
<1>4. work'[w] = a /\ DOMAIN work' = Workers /\ Others(w)
  BY <1>3 DEF TypeInv, WorkTyped, Others
<1> QED BY <1>1, <1>2, <1>4 DEF Starts, Busy

\* ... or on vertices.
LEMMA VertexStarts ==
  ASSUME TypeInv, NEW w \in Workers, NEW op, NEW n, NEW v, BeginChange(w, op, "enter", n, v)
  PROVE  Starts(w, op, "enter", n, v) /\ n \in exists \cap loaded /\ process = "up"
<1> DEFINE a == [Call(op, "enter", n) EXCEPT !.vertex = v]
<1>0. work' = [work EXCEPT ![w] = a] /\ ~ Busy(w) /\ n \in exists \cap loaded /\ process = "up"
  BY DEF BeginChange
<1>1. /\ DOMAIN a = CallFields /\ a.op = op /\ a.at = "enter" /\ a.name = n /\ a.vertex = v
      /\ a.to = 0 /\ a.shard = 0 /\ a.ids = {} /\ a.map = 0 /\ a.data = {}
  BY DEF Call, CallFields
<1>2. a # Idle
  <2>1. "name" \in DOMAIN a
    BY <1>1 DEF CallFields
  <2>2. DOMAIN Idle = {"op"}
    BY DEF Idle
  <2> QED BY <2>1, <2>2
<1> HIDE DEF a
<1>4. work'[w] = a /\ DOMAIN work' = Workers /\ Others(w)
  BY <1>0 DEF TypeInv, WorkTyped, Others
<1> QED BY <1>0, <1>1, <1>2, <1>4 DEF Starts, Busy

\* All calls that begin.
LEMMA BeginStarts ==
  ASSUME TypeInv, NEW w \in Workers, NEW n \in Names, Begin(w, n)
  PROVE  /\ UNCHANGED <<mode, bucket, process, exists, space, spaces, shards, torn>>
         /\ \E op \in Ops : \E at : \E v :
              /\ Starts(w, op, at, n, v)
              /\ op \in AdminOps => at \in {"undo bucket", "bucket", "flags", "fill", "meta"}
              /\ op \in VertexOps => at = "enter"
              /\ op = "change" => v \in Vertex
              /\ op = "remove" => DOMAIN v = {"id", "tag"} /\ v.id \in 0 .. MaxIds
<1> USE DEF memory, flags
<1>0. MaxIds \in Nat
  BY MemoryTyped
<1>1. CASE \/ CreateBegin(w, n) \/ DeleteBegin(w, n) \/ LoadBegin(w, n) \/ ReleaseBegin(w, n)
           \/ FlushBegin(w, n) \/ CloseCollection(w, n)
  <2>1. /\ UNCHANGED <<mode, bucket, process, exists, space, spaces, shards, torn>>
        /\ ~ Busy(w)
        /\ \E op \in AdminOps, at \in {"undo bucket", "bucket", "flags", "fill", "meta"} :
             work' = [work EXCEPT ![w] = Call(op, at, n)]
    BY <1>1 DEF CreateBegin, DeleteBegin, LoadBegin, ReleaseBegin, FlushBegin, CloseCollection,
                BeginAdmin, AdminOps
  <2>2. PICK op \in AdminOps, at \in {"undo bucket", "bucket", "flags", "fill", "meta"} :
          work' = [work EXCEPT ![w] = Call(op, at, n)]
    BY <2>1
  <2>3. Starts(w, op, at, n, NoVertex)
    BY <2>1, <2>2, AdminStarts
  <2>4. op \in Ops /\ op \notin VertexOps /\ op # "change" /\ op # "remove"
    BY DEF Ops, AdminOps, VertexOps
  <2> QED BY <2>1, <2>3, <2>4
<1>2. ASSUME NEW op \in VertexOps, NEW v, BeginChange(w, op, "enter", n, v),
             op = "change" => v \in Vertex,
             op = "remove" => DOMAIN v = {"id", "tag"} /\ v.id \in 0 .. MaxIds
      PROVE  \E o \in Ops : \E at : \E x :
              /\ Starts(w, o, at, n, x)
              /\ o \in AdminOps => at \in {"undo bucket", "bucket", "flags", "fill", "meta"}
              /\ o \in VertexOps => at = "enter"
              /\ o = "change" => x \in Vertex
              /\ o = "remove" => DOMAIN x = {"id", "tag"} /\ x.id \in 0 .. MaxIds
  <2>1. Starts(w, op, "enter", n, v)
    BY <1>2, VertexStarts
  <2>2. op \in Ops /\ op \notin AdminOps
    BY DEF Ops, AdminOps, VertexOps
  <2> QED BY <1>2, <2>1, <2>2
<1>3. ASSUME NEW t \in Tags, EdgeRemoveBegin(w, n, t)
      PROVE  BeginChange(w, "remove", "enter", n, [id |-> 0, tag |-> t])
             /\ UNCHANGED <<mode, bucket, process, exists, space, spaces, shards, torn>>
  BY <1>3 DEF EdgeRemoveBegin, RemoveBegin
<1>4. ASSUME NEW filter, SearchBegin(w, n, filter)
      PROVE  BeginChange(w, "search", "enter", n, filter)
             /\ UNCHANGED <<mode, bucket, process, exists, space, spaces, shards, torn>>
  BY <1>4 DEF SearchBegin
<1>5. ASSUME NEW id \in 1 .. MaxIds, MultiRemoveBegin(w, n, id)
      PROVE  BeginChange(w, "remove", "enter", n, [id |-> id, tag |-> CHOOSE t \in Tags : TRUE])
             /\ UNCHANGED <<mode, bucket, process, exists, space, spaces, shards, torn>>
  BY <1>5 DEF MultiRemoveBegin, RemoveBegin
<1>6. ASSUME NEW id \in 1 .. MaxIds, NEW t \in Tags, ChangeBegin(w, n, id, t)
      PROVE  BeginChange(w, "change", "enter", n, [id |-> id, tag |-> t])
             /\ UNCHANGED <<mode, bucket, process, exists, space, spaces, shards, torn>>
  BY <1>6 DEF ChangeBegin
<1>7. CASE \E t \in Tags : EdgeRemoveBegin(w, n, t)
  <2>1. PICK t \in Tags : EdgeRemoveBegin(w, n, t)
    BY <1>7
  <2>2. DOMAIN [id |-> 0, tag |-> t] = {"id", "tag"} /\ [id |-> 0, tag |-> t].id \in 0 .. MaxIds
    BY <1>0
  <2> QED BY <1>2, <1>3, <2>1, <2>2 DEF VertexOps
<1>8. CASE \E filter \in {NoVertex} \cup [id : {0}, tag : Tags \ Odd] : SearchBegin(w, n, filter)
  BY <1>2, <1>4, <1>8 DEF VertexOps
<1>9. CASE \E id \in 1 .. MaxIds : MultiRemoveBegin(w, n, id)
  <2>1. PICK id \in 1 .. MaxIds : MultiRemoveBegin(w, n, id)
    BY <1>9
  <2>2. PICK v : v = [id |-> id, tag |-> CHOOSE t \in Tags : TRUE]
    OBVIOUS
  <2>3. DOMAIN v = {"id", "tag"} /\ v.id \in 0 .. MaxIds
    BY <1>0, <2>2
  <2>4. BeginChange(w, "remove", "enter", n, v)
             /\ UNCHANGED <<mode, bucket, process, exists, space, spaces, shards, torn>>
    BY <1>5, <2>1, <2>2
  <2> QED BY <1>2, <2>3, <2>4 DEF VertexOps
<1>10. CASE \E id \in 1 .. MaxIds, t \in Tags : ChangeBegin(w, n, id, t)
  <2>1. PICK id \in 1 .. MaxIds, t \in Tags : ChangeBegin(w, n, id, t)
    BY <1>10
  <2>2. [id |-> id, tag |-> t] \in Vertex
    BY DEF Vertex
  <2> QED BY <1>2, <1>6, <2>1, <2>2 DEF VertexOps
<1> QED BY <1>1, <1>7, <1>8, <1>9, <1>10 DEF Begin

\* A call that begins leaves the types as they are.
LEMMA BeginTyped ==
  ASSUME TypeInv, NEW w \in Workers, NEW n \in Names, Begin(w, n)
  PROVE  WorkTyped' /\ SpacesTyped' /\ ShardsTyped' /\ Bounds'
<1>1. UNCHANGED <<space, spaces, shards>>
  BY BeginStarts
<1>2. PICK op, at, v :
              /\ op \in Ops
              /\ Starts(w, op, at, n, v)
              /\ op \in AdminOps => at \in {"undo bucket", "bucket", "flags", "fill", "meta"}
              /\ op \in VertexOps => at = "enter"
              /\ op = "change" => v \in Vertex
              /\ op = "remove" => DOMAIN v = {"id", "tag"} /\ v.id \in 0 .. MaxIds
  BY BeginStarts
<1>3. Len(spaces) \in Nat /\ Len(shards) \in Nat /\ MapShards \in Nat
  BY MemoryTyped
<1>4. op \in AdminOps \/ op \in VertexOps
  BY <1>2 DEF Ops, AdminOps, VertexOps
<1>5. PICK a : a = work'[w]
  OBVIOUS
<1>6. /\ DOMAIN a = CallFields /\ a.op = op /\ a.at = at /\ a.name = n /\ a.vertex = v
      /\ a.to = 0 /\ a.shard = 0 /\ a.ids = {} /\ a.map = 0 /\ a.data = {}
  BY <1>2, <1>5 DEF Starts
<1>7. op \in AdminOps => op \notin VertexOps /\ op # "change" /\ op # "remove"
  BY DEF AdminOps, VertexOps
<1>8. at \notin {"read", "post", "withdraw"}
  BY <1>2, <1>4
<1>9. 0 \in 0 .. MapShards /\ {} \subseteq 1 .. MaxIds /\ {} \in SUBSET Vertex
  BY <1>3
<1>10. Typed(a)
  <2>1. a.at \notin {"read", "post", "withdraw"} /\ (a.op \in VertexOps => a.at = "enter")
    BY <1>2, <1>6, <1>8
  <2>2. a.op = "change" => a.vertex \in Vertex
    BY <1>2, <1>6
  <2>3. a.op = "remove" => DOMAIN a.vertex = {"id", "tag"} /\ a.vertex.id \in 0 .. MaxIds
    BY <1>2, <1>6
  <2>4. a.op \in Ops /\ a.name \in Names
    BY <1>2, <1>6
  <2>5. a.to \in Nat /\ a.shard \in Nat /\ a.map \in 0 .. MapShards /\ a.ids \subseteq 1 .. MaxIds
    BY <1>6, <1>9
  <2>6. a.data \in SUBSET Vertex
    BY <1>6, <1>9
  <2> QED BY <1>6, <2>1, <2>2, <2>3, <2>4, <2>5, <2>6 DEF Typed
<1>11. a.to <= Len(spaces) /\ a.shard <= Len(shards)
  BY <1>3, <1>6
<1>12. Fine(w)
  BY <1>2, <1>5, <1>10, <1>11 DEF Starts, Fine
<1> QED BY <1>1, <1>12, MemoryStays, FineTyped DEF MemoryFine

\* What is in memory has its type after every step.
LEMMA CoreTyped ==
  ASSUME TypeInv, [Next]_vars
  PROVE  WorkTyped' /\ SpacesTyped' /\ ShardsTyped' /\ Bounds'
<1>1. ASSUME UNCHANGED <<work, space, spaces, shards>>
      PROVE  WorkTyped' /\ SpacesTyped' /\ ShardsTyped' /\ Bounds'
  BY <1>1 DEF TypeInv, WorkTyped, SpacesTyped, ShardsTyped, Bounds, Column, Busy
<1>2. ASSUME NEW w \in Workers, AdminStep(w)
      PROVE  WorkTyped' /\ SpacesTyped' /\ ShardsTyped' /\ Bounds'
  BY <1>2, AdminFine, AdminMemory, FineTyped DEF MemoryFine
<1>3. ASSUME NEW w \in Workers, ChangeStep(w)
      PROVE  WorkTyped' /\ SpacesTyped' /\ ShardsTyped' /\ Bounds'
  BY <1>3, ChangeTyped DEF MemoryFine
<1>4. CASE CloseBegin \/ Start \/ UNCHANGED vars
  BY <1>1, <1>4 DEF CloseBegin, Start, vars, memory
<1>5. CASE CloseEnd \/ Crash
  BY <1>5, ForgetTyped DEF CloseEnd, Crash, Die
<1> QED BY <1>2, <1>3, <1>4, <1>5, BeginTyped, SearchTyped DEF Next

-----------------------------------------------------------------------------
(* What each step does to the promises *)

\* The promises of a collection become these, and those of the others stay.
Pledge(n, calls, acked, saving, kept) ==
  /\ DOMAIN promise' = Names /\ \A m \in Names \ {n} : promise'[m] = promise[m]
  /\ DOMAIN promise'[n] = PromiseFields
  /\ promise'[n].calls = calls /\ promise'[n].acked = acked
  /\ promise'[n].saving = saving /\ promise'[n].kept = kept

\* One collection's promise changes, and no other's.
LEMMA PledgePut ==
  ASSUME PromisesTyped, NEW n \in Names, NEW p, promise' = [promise EXCEPT ![n] = p],
         DOMAIN p = PromiseFields
  PROVE  Pledge(n, p.calls, p.acked, p.saving, p.kept)
BY DEF PromisesTyped, Pledge

\* A collection that is created or deleted promises nothing, ...
LEMMA PledgeNothing ==
  ASSUME PromisesTyped, NEW n \in Names, promise' = [promise EXCEPT ![n] = NoPromise]
  PROVE  Pledge(n, {}, {}, {}, {})
<1>1. /\ DOMAIN NoPromise = PromiseFields /\ NoPromise.calls = {} /\ NoPromise.acked = {}
      /\ NoPromise.saving = {} /\ NoPromise.kept = {}
  BY DEF NoPromise, PromiseFields
<1> QED BY <1>1, PledgePut

\* ... one that is loaded what was kept, ...
LEMMA PledgeLoaded ==
  ASSUME PromisesTyped, NEW n \in Names, promise' = [promise EXCEPT ![n].acked = promise[n].kept]
  PROVE  Pledge(n, promise[n].calls, promise[n].kept, promise[n].saving, promise[n].kept)
<1> DEFINE p == [promise[n] EXCEPT !.acked = promise[n].kept]
<1>1. DOMAIN promise[n] = PromiseFields
  BY DEF PromisesTyped, PromiseTyped
<1>2. /\ DOMAIN p = PromiseFields /\ p.calls = promise[n].calls /\ p.acked = promise[n].kept
      /\ p.saving = promise[n].saving /\ p.kept = promise[n].kept
  BY <1>1 DEF PromiseFields
<1>3. promise' = [promise EXCEPT ![n] = p]
  BY DEF PromisesTyped
<1> HIDE DEF p
<1>4. Pledge(n, p.calls, p.acked, p.saving, p.kept)
  BY <1>2, <1>3, PledgePut
<1> QED BY <1>2, <1>4

\* ... one that is about to be loaded, or released, waits for no change, ...
LEMMA PledgeNoCalls ==
  ASSUME PromisesTyped, NEW n \in Names, promise' = [promise EXCEPT ![n].calls = {}]
  PROVE  Pledge(n, {}, promise[n].acked, promise[n].saving, promise[n].kept)
<1> DEFINE p == [promise[n] EXCEPT !.calls = {}]
<1>1. DOMAIN promise[n] = PromiseFields
  BY DEF PromisesTyped, PromiseTyped
<1>2. /\ DOMAIN p = PromiseFields /\ p.calls = {} /\ p.acked = promise[n].acked
      /\ p.saving = promise[n].saving /\ p.kept = promise[n].kept
  BY <1>1 DEF PromiseFields
<1>3. promise' = [promise EXCEPT ![n] = p]
  BY DEF PromisesTyped
<1> HIDE DEF p
<1>4. Pledge(n, p.calls, p.acked, p.saving, p.kept)
  BY <1>2, <1>3, PledgePut
<1> QED BY <1>2, <1>4

\* A release is to save what is acknowledged, and ends the changes under way.
LEMMA PledgeReleased ==
  ASSUME PromisesTyped, NEW n \in Names,
         promise' = [promise EXCEPT ![n] = [@ EXCEPT !.calls = {}, !.saving = promise[n].acked]]
  PROVE  Pledge(n, {}, promise[n].acked, promise[n].acked, promise[n].kept)
<1> DEFINE p == [promise[n] EXCEPT !.calls = {}, !.saving = promise[n].acked]
<1>1. DOMAIN promise[n] = PromiseFields
  BY DEF PromisesTyped, PromiseTyped
<1>2. /\ DOMAIN p = PromiseFields /\ p.calls = {} /\ p.acked = promise[n].acked
      /\ p.saving = promise[n].acked /\ p.kept = promise[n].kept
  BY <1>1 DEF PromiseFields
<1>3. promise' = [promise EXCEPT ![n] = p]
  BY DEF PromisesTyped
<1> HIDE DEF p
<1>4. Pledge(n, p.calls, p.acked, p.saving, p.kept)
  BY <1>2, <1>3, PledgePut
<1> QED BY <1>2, <1>4

\* ... one that is flushed saves what is acknowledged, ...
LEMMA PledgeFlushed ==
  ASSUME PromisesTyped, NEW n \in Names, promise' = [promise EXCEPT ![n].saving = promise[n].acked]
  PROVE  Pledge(n, promise[n].calls, promise[n].acked, promise[n].acked, promise[n].kept)
<1> DEFINE p == [promise[n] EXCEPT !.saving = promise[n].acked]
<1>1. DOMAIN promise[n] = PromiseFields
  BY DEF PromisesTyped, PromiseTyped
<1>2. /\ DOMAIN p = PromiseFields /\ p.calls = promise[n].calls /\ p.acked = promise[n].acked
      /\ p.saving = promise[n].acked /\ p.kept = promise[n].kept
  BY <1>1 DEF PromiseFields
<1>3. promise' = [promise EXCEPT ![n] = p]
  BY DEF PromisesTyped
<1> HIDE DEF p
<1>4. Pledge(n, p.calls, p.acked, p.saving, p.kept)
  BY <1>2, <1>3, PledgePut
<1> QED BY <1>2, <1>4

\* ... one that is saved keeps something else.
LEMMA PledgeKept ==
  ASSUME PromisesTyped, NEW n \in Names, NEW K, promise' = [promise EXCEPT ![n].kept = K]
  PROVE  Pledge(n, promise[n].calls, promise[n].acked, promise[n].saving, K)
<1> DEFINE p == [promise[n] EXCEPT !.kept = K]
<1>1. DOMAIN promise[n] = PromiseFields
  BY DEF PromisesTyped, PromiseTyped
<1>2. /\ DOMAIN p = PromiseFields /\ p.calls = promise[n].calls /\ p.acked = promise[n].acked
      /\ p.saving = promise[n].saving /\ p.kept = K
  BY <1>1 DEF PromiseFields
<1>3. promise' = [promise EXCEPT ![n] = p]
  BY DEF PromisesTyped
<1> HIDE DEF p
<1>4. Pledge(n, p.calls, p.acked, p.saving, p.kept)
  BY <1>2, <1>3, PledgePut
<1> QED BY <1>2, <1>4

\* A search changes no promise that is looked at here.
LEMMA PledgeSought ==
  ASSUME PromisesTyped, NEW n \in Names, NEW w, NEW S, promise' = [promise EXCEPT ![n].sought[w] = S]
  PROVE  Pledge(n, promise[n].calls, promise[n].acked, promise[n].saving, promise[n].kept)
<1> DEFINE p == [promise[n] EXCEPT !.sought[w] = S]
<1>1. DOMAIN promise[n] = PromiseFields
  BY DEF PromisesTyped, PromiseTyped
<1>2. /\ DOMAIN p = PromiseFields /\ p.calls = promise[n].calls /\ p.acked = promise[n].acked
      /\ p.saving = promise[n].saving /\ p.kept = promise[n].kept
  BY <1>1 DEF PromiseFields
<1>3. promise' = [promise EXCEPT ![n] = p]
  BY DEF PromisesTyped
<1> HIDE DEF p
<1>4. Pledge(n, p.calls, p.acked, p.saving, p.kept)
  BY <1>2, <1>3, PledgePut
<1> QED BY <1>2, <1>4

\* A change that is acknowledged.
LEMMA PledgeAcked ==
  ASSUME PromisesTyped, NEW n \in Names, NEW w, NEW x,
         promise' = [promise EXCEPT ![n].acked = @ \cup {x}, ![n].calls = @ \ {w}]
  PROVE  Pledge(n, promise[n].calls \ {w}, promise[n].acked \cup {x}, promise[n].saving, promise[n].kept)
<1> DEFINE p == [promise[n] EXCEPT !.acked = @ \cup {x}, !.calls = @ \ {w}]
<1>1. DOMAIN promise[n] = PromiseFields
  BY DEF PromisesTyped, PromiseTyped
<1>2. /\ DOMAIN p = PromiseFields /\ p.calls = promise[n].calls \ {w}
      /\ p.acked = promise[n].acked \cup {x}
      /\ p.saving = promise[n].saving /\ p.kept = promise[n].kept
  BY <1>1 DEF PromiseFields
<1>3. promise' = [promise EXCEPT ![n] = p]
  BY DEF PromisesTyped
<1> HIDE DEF p
<1>4. Pledge(n, p.calls, p.acked, p.saving, p.kept)
  BY <1>2, <1>3, PledgePut
<1> QED BY <1>2, <1>4

\* A removal withdraws what has its tag, or in experimental its id, ...
LEMMA PledgeTagRemoved ==
  ASSUME PromisesTyped, NEW n \in Names, NEW t,
         promise' = [promise EXCEPT ![n] = Withdraws(n, LAMBDA y : y.tag = t)]
  PROVE  Pledge(n, {u \in promise[n].calls : work[u].vertex.tag # t}, {y \in promise[n].acked : y.tag # t},
                {y \in promise[n].saving : y.tag # t}, {y \in promise[n].kept : y.tag # t})
<1> DEFINE p == Withdraws(n, LAMBDA y : y.tag = t)
<1>1. DOMAIN promise[n] = PromiseFields
  BY DEF PromisesTyped, PromiseTyped
<1>2. /\ DOMAIN p = PromiseFields /\ p.calls = {u \in promise[n].calls : work[u].vertex.tag # t}
      /\ p.acked = {y \in promise[n].acked : y.tag # t}
      /\ p.saving = {y \in promise[n].saving : y.tag # t} /\ p.kept = {y \in promise[n].kept : y.tag # t}
  BY <1>1 DEF PromiseFields, Withdraws, Except
<1>3. promise' = [promise EXCEPT ![n] = p]
  OBVIOUS
<1> HIDE DEF p
<1>4. Pledge(n, p.calls, p.acked, p.saving, p.kept)
  BY <1>2, <1>3, PledgePut
<1> QED BY <1>2, <1>4

\* A removal in experimental withdraws an id.
LEMMA PledgeIdRemoved ==
  ASSUME PromisesTyped, NEW n \in Names, NEW i,
         promise' = [promise EXCEPT ![n] = Withdraws(n, LAMBDA y : y.id = i)]
  PROVE  Pledge(n, {u \in promise[n].calls : work[u].vertex.id # i}, {y \in promise[n].acked : y.id # i},
                {y \in promise[n].saving : y.id # i}, {y \in promise[n].kept : y.id # i})
<1> DEFINE p == Withdraws(n, LAMBDA y : y.id = i)
<1>1. DOMAIN promise[n] = PromiseFields
  BY DEF PromisesTyped, PromiseTyped
<1>2. /\ DOMAIN p = PromiseFields /\ p.calls = {u \in promise[n].calls : work[u].vertex.id # i}
      /\ p.acked = {y \in promise[n].acked : y.id # i}
      /\ p.saving = {y \in promise[n].saving : y.id # i} /\ p.kept = {y \in promise[n].kept : y.id # i}
  BY <1>1 DEF PromiseFields, Withdraws, Except
<1>3. promise' = [promise EXCEPT ![n] = p]
  OBVIOUS
<1> HIDE DEF p
<1>4. Pledge(n, p.calls, p.acked, p.saving, p.kept)
  BY <1>2, <1>3, PledgePut
<1> QED BY <1>2, <1>4

\* ... and a change what has its id; then it is waited for, unless another is in its way.
LEMMA PledgeChanged ==
  ASSUME PromisesTyped, NEW w \in Workers, NEW n \in Names, NEW id, NEW t, ChangeBegin(w, n, id, t)
  PROVE  \E C : /\ Pledge(n, C, {y \in promise[n].acked : y.id # id},
                          {y \in promise[n].saving : y.id # id}, {y \in promise[n].kept : y.id # id})
                /\ \/ C = {u \in promise[n].calls : work[u].vertex.id # id}
                   \/ /\ C = {u \in promise[n].calls : work[u].vertex.id # id} \cup {w}
                      /\ ~ AdminOn(n)
                      /\ \A v \in OthersOn(w, n) : ~ Collides(v, [id |-> id, tag |-> t])
<1> DEFINE q == Withdraws(n, LAMBDA y : y.id = id)
           clash == \E v \in OthersOn(w, n) : Collides(v, [id |-> id, tag |-> t])
           p == [q EXCEPT !.calls = IF clash \/ AdminOn(n) THEN @ ELSE @ \cup {w}]
<1>1. DOMAIN promise[n] = PromiseFields
  BY DEF PromisesTyped, PromiseTyped
<1>2. /\ DOMAIN q = PromiseFields /\ q.calls = {u \in promise[n].calls : work[u].vertex.id # id}
      /\ q.acked = {y \in promise[n].acked : y.id # id}
      /\ q.saving = {y \in promise[n].saving : y.id # id} /\ q.kept = {y \in promise[n].kept : y.id # id}
  BY <1>1 DEF PromiseFields, Withdraws, Except
<1>3. promise' = [promise EXCEPT ![n] = p]
  BY DEF ChangeBegin
<1> HIDE DEF q, clash
<1>4. /\ DOMAIN p = PromiseFields /\ p.acked = q.acked /\ p.saving = q.saving /\ p.kept = q.kept
      /\ p.calls = q.calls \/ (p.calls = q.calls \cup {w} /\ ~ clash /\ ~ AdminOn(n))
  BY <1>2 DEF PromiseFields
<1> HIDE DEF p
<1>5. Pledge(n, p.calls, p.acked, p.saving, p.kept)
  BY <1>3, <1>4, PledgePut
<1>6. Pledge(n, p.calls, {y \in promise[n].acked : y.id # id},
                          {y \in promise[n].saving : y.id # id}, {y \in promise[n].kept : y.id # id})
  BY <1>2, <1>4, <1>5
<1>7. p.calls = {u \in promise[n].calls : work[u].vertex.id # id}
      \/ /\ p.calls = {u \in promise[n].calls : work[u].vertex.id # id} \cup {w}
         /\ ~ AdminOn(n)
         /\ \A v \in OthersOn(w, n) : ~ Collides(v, [id |-> id, tag |-> t])
  BY <1>2, <1>4 DEF clash
<1> QED BY <1>6, <1>7

-----------------------------------------------------------------------------
(* What each step does to the bucket *)

\* An object of a collection becomes d, and all else stays.
Puts(n, object, d) ==
  /\ DOMAIN bucket' = Names /\ \A m \in Names \ {n} : bucket'[m] = bucket[m]
  /\ bucket[n] # NoBucket /\ bucket'[n] # NoBucket /\ bucket'[n] \in Bucket /\ bucket'[n][object] = d
  /\ \A o \in {"meta", "vertex", "inverted"} \ {object} : bucket'[n][o] = bucket[n][o]

\* PutObject puts an object of a bucket that is there.
LEMMA PutBucket ==
  ASSUME NoRecord, BucketTyped, NEW n \in Names, bucket[n] # NoBucket,
         NEW object \in {"meta", "vertex", "inverted"}, NEW d,
         object = "meta" => d \in BOOLEAN, object # "meta" => d \in Object,
         bucket' = [bucket EXCEPT ![n][object] = d]
  PROVE  Puts(n, object, d)
<1> DEFINE b == [bucket[n] EXCEPT ![object] = d]
<1>1. bucket[n] \in Bucket
  BY DEF BucketTyped
<1>2. /\ b \in Bucket /\ b[object] = d
      /\ \A o \in {"meta", "vertex", "inverted"} \ {object} : b[o] = bucket[n][o]
  BY <1>1 DEF Bucket
<1>3. bucket' = [bucket EXCEPT ![n] = b]
  BY DEF BucketTyped
<1> HIDE DEF b
<1>4. b # NoBucket
  BY <1>2 DEF Bucket, NoRecord
<1> QED BY <1>2, <1>3, <1>4 DEF Puts, BucketTyped

\* The bucket of a collection alone.
BucketOf(n) == BucketTyped' /\ \A m \in Names \ {n} : bucket'[m] = bucket[m]

\* Steps of a save, as they change the bucket.
LEMMA SavePuts ==
  ASSUME NoRecord, TypeInv, NEW w \in Workers, NEW n, n = work[w].name,
         SaveMeta(w) \/ SaveVertexPut(w) \/ SaveInvertedPut(w)
  PROVE  /\ SaveMeta(w) => bucket' = bucket \/ Puts(n, "meta", TRUE)
         /\ SaveVertexPut(w) => bucket' = bucket \/ Puts(n, "vertex", work[w].data)
         /\ SaveInvertedPut(w) => bucket' = bucket \/ Puts(n, "inverted", work[w].data)
<1>1. Busy(w) /\ work[w].op \in AdminOps
  BY DEF SaveMeta, SaveVertexPut, SaveInvertedPut, At, Savers, AdminOps
<1>2. n \in Names /\ work[w].data \in Object /\ BucketTyped
  BY <1>1, CallTyped DEF TypeInv, Typed, Object
<1>3. ASSUME SaveMeta(w) PROVE bucket' = bucket \/ Puts(n, "meta", TRUE)
  <2>1. bucket' = bucket \/ (bucket[n] # NoBucket /\ bucket' = [bucket EXCEPT ![n].meta = TRUE])
    BY <1>3 DEF SaveMeta
  <2> QED BY <1>2, <2>1, PutBucket
<1>4. ASSUME SaveVertexPut(w) PROVE bucket' = bucket \/ Puts(n, "vertex", work[w].data)
  <2>1. \/ bucket' = bucket
        \/ bucket[n] # NoBucket /\ bucket' = [bucket EXCEPT ![n]["vertex"] = work[w].data]
    BY <1>4 DEF SaveVertexPut, PutObject
  <2> QED BY <1>2, <2>1, PutBucket
<1>5. ASSUME SaveInvertedPut(w) PROVE bucket' = bucket \/ Puts(n, "inverted", work[w].data)
  <2>1. \/ bucket' = bucket
        \/ bucket[n] # NoBucket /\ bucket' = [bucket EXCEPT ![n]["inverted"] = work[w].data]
    BY <1>5 DEF SaveInvertedPut, PutObject
  <2> QED BY <1>2, <2>1, PutBucket
<1> QED BY <1>3, <1>4, <1>5

\* A bucket that is removed, or made.
LEMMA RemoveChanges ==
  ASSUME TypeInv, NEW w \in Workers, Busy(w), NEW n, n = work[w].name, RemoveBucket(w) \/ CreateBucket(w)
  PROVE  BucketOf(n)
<1>1. n \in Names
  BY CallTyped DEF TypeInv, Typed
<1>2. ASSUME NEW b \in {NoBucket} \cup Bucket, bucket' = [bucket EXCEPT ![n] = b]
      PROVE  BucketOf(n)
  BY <1>1, <1>2 DEF BucketOf, TypeInv, BucketTyped
<1>3. CASE RemoveBucket(w)
  <2>1. CASE bucket' = [bucket EXCEPT ![n] = NoBucket]
    BY <1>2, <2>1
  <2>2. ASSUME bucket[n] # NoBucket,
               NEW m \in {bucket[n].meta, FALSE}, NEW v \in {bucket[n].vertex, NoObject},
               NEW i \in {bucket[n].inverted, NoObject},
               bucket' = [bucket EXCEPT ![n] = [meta |-> m, vertex |-> v, inverted |-> i]]
        PROVE  BucketOf(n)
    <3>1. bucket[n] \in Bucket
      BY <1>1, <2>2 DEF TypeInv, BucketTyped
    <3>2. m \in BOOLEAN /\ v \in Object /\ i \in Object
      BY <2>2, <3>1 DEF Bucket, Object
    <3>3. [meta |-> m, vertex |-> v, inverted |-> i] \in Bucket
      BY <3>2 DEF Bucket
    <3> QED BY <1>2, <2>2, <3>3
  <2> QED BY <1>3, <2>1, <2>2 DEF RemoveBucket
<1>4. CASE CreateBucket(w)
  <2>1. PICK empty : empty = [meta |-> FALSE, vertex |-> NoObject, inverted |-> NoObject]
    OBVIOUS
  <2>2. bucket' = bucket \/ \E b \in {NoBucket, empty} : bucket' = [bucket EXCEPT ![n] = b]
    BY <1>4, <2>1 DEF CreateBucket
  <2>3. empty \in Bucket
    BY <2>1 DEF Bucket, Object
  <2>4. bucket' = bucket => BucketOf(n)
    BY DEF BucketOf, TypeInv, BucketTyped
  <2> QED BY <1>2, <2>2, <2>3, <2>4
<1> QED BY <1>3, <1>4

\* The calls on collections leave the bucket of the others alone.
LEMMA AdminBucket ==
  ASSUME NoRecord, TypeInv, NEW w \in Workers, AdminStep(w), NEW n, n = work[w].name
  PROVE  BucketOf(n)
<1>1. bucket' = bucket => BucketOf(n)
  BY DEF BucketOf, TypeInv, BucketTyped
<1>2. ASSUME NEW object, NEW d, Puts(n, object, d) PROVE BucketOf(n)
  BY <1>2 DEF Puts, BucketOf, BucketTyped, TypeInv
<1>3. CASE SaveMeta(w) \/ SaveVertexPut(w) \/ SaveInvertedPut(w)
  <2>1. bucket' = bucket \/ \E object, d : Puts(n, object, d)
    BY <1>3, SavePuts
  <2> QED BY <1>1, <1>2, <2>1
<1>4. CASE CreateUndoBucket(w) \/ DeleteBucket(w) \/ CreateBucket(w)
  <2>1. Busy(w) /\ (RemoveBucket(w) \/ CreateBucket(w))
    BY <1>4 DEF CreateUndoBucket, DeleteBucket, CreateBucket, At
  <2> QED BY <2>1, RemoveChanges
<1>5. ASSUME ~ SaveMeta(w), ~ SaveVertexPut(w), ~ SaveInvertedPut(w), ~ CreateUndoBucket(w),
             ~ DeleteBucket(w), ~ CreateBucket(w)
      PROVE  bucket' = bucket
  BY <1>5 DEF AdminStep, CreateSpace, CreateUndoFlags, DestroySpace, SetFlags, DeleteFlags,
              LoadFill, LoadInverted, LoadVertex, ReleaseUnflag, SaveVertexMap, SaveVertexFails,
              SaveInverted
<1> QED BY <1>1, <1>3, <1>4, <1>5

\* What the calls on collections do to the promises.
LEMMA AdminPledges ==
  ASSUME TypeInv, NEW w \in Workers, AdminStep(w), NEW n, n = work[w].name
  PROVE  /\ n \in Names /\ Busy(w) /\ work[w].op \in AdminOps
         /\ \/ promise' = promise
            \/ /\ SetFlags(w)
               /\ Pledge(n, promise[n].calls, promise[n].kept, promise[n].saving, promise[n].kept)
            \/ /\ work[w].op \in {"release", "flush"}
               /\ Pledge(n, promise[n].calls, promise[n].acked, promise[n].saving, promise[n].saving)
            \/ /\ work[w].op = "close"
               /\ Pledge(n, promise[n].calls, promise[n].acked, promise[n].saving, {})
<1>1. Busy(w) /\ work[w].op \in AdminOps
  BY DEF AdminStep, CreateBucket, CreateSpace, CreateUndoBucket, CreateUndoFlags, DestroySpace, SetFlags,
         DeleteFlags, DeleteBucket, LoadFill, LoadInverted, LoadVertex, ReleaseUnflag, SaveMeta,
         SaveVertexMap, SaveVertexFails, SaveVertexPut, SaveInverted, SaveInvertedPut, At, Savers, AdminOps
<1>2. n \in Names /\ PromisesTyped
  BY <1>1, CallTyped DEF TypeInv, Typed
<1>3. CASE SetFlags(w)
  <2>1. promise' = [promise EXCEPT ![n].acked = promise[n].kept]
    BY <1>3 DEF SetFlags
  <2> QED BY <1>1, <1>2, <1>3, <2>1, PledgeLoaded
<1>4. CASE SaveVertexPut(w) \/ SaveInvertedPut(w)
  <2>1. Saved(w) \/ promise' = promise
    BY <1>4 DEF SaveVertexPut, SaveInvertedPut
  <2>2. work[w].op \in Savers
    BY <1>4 DEF SaveVertexPut, SaveInvertedPut, At
  <2>3. \/ promise' = promise
        \/ work[w].op \in {"release", "flush"} /\ promise' = [promise EXCEPT ![n].kept = promise[n].saving]
    BY <2>1, <2>2 DEF Saved, Savers
  <2> QED BY <1>1, <1>2, <2>3, PledgeKept
<1>5. CASE SaveVertexFails(w) \/ SaveInverted(w)
  <2>1. promise' = promise \/ (work[w].op = "close" /\ promise' = [promise EXCEPT ![n].kept = {}])
    BY <1>5 DEF SaveVertexFails, SaveInverted
  <2> QED BY <1>1, <1>2, <2>1, PledgeKept
<1>6. ASSUME ~ SetFlags(w), ~ SaveVertexPut(w), ~ SaveInvertedPut(w), ~ SaveVertexFails(w), ~ SaveInverted(w)
      PROVE  promise' = promise
  BY <1>6 DEF AdminStep, CreateBucket, CreateSpace, CreateUndoBucket, CreateUndoFlags, DestroySpace,
         DeleteFlags, DeleteBucket, LoadFill, LoadInverted, LoadVertex, ReleaseUnflag, SaveMeta, SaveVertexMap
<1> QED BY <1>1, <1>2, <1>3, <1>4, <1>5, <1>6

\* A call that panics is waited for no longer.
LEMMA PledgeBroken ==
  ASSUME PromisesTyped, NEW n \in Names, NEW w, promise' = [promise EXCEPT ![n].calls = @ \ {w}]
  PROVE  Pledge(n, promise[n].calls \ {w}, promise[n].acked, promise[n].saving, promise[n].kept)
<1> DEFINE p == [promise[n] EXCEPT !.calls = @ \ {w}]
<1>1. DOMAIN promise[n] = PromiseFields
  BY DEF PromisesTyped, PromiseTyped
<1>2. /\ DOMAIN p = PromiseFields /\ p.calls = promise[n].calls \ {w} /\ p.acked = promise[n].acked
      /\ p.saving = promise[n].saving /\ p.kept = promise[n].kept
  BY <1>1 DEF PromiseFields
<1>3. promise' = [promise EXCEPT ![n] = p]
  BY DEF PromisesTyped
<1> HIDE DEF p
<1>4. Pledge(n, p.calls, p.acked, p.saving, p.kept)
  BY <1>2, <1>3, PledgePut
<1> QED BY <1>2, <1>4

\* What the calls on vertices do, and the searches.
LEMMA VertexPledges ==
  ASSUME TypeInv, NEW w \in Workers, ChangeStep(w) \/ (SearchStep(w) /\ ~ Die), NEW n, n = work[w].name
  PROVE  /\ n \in Names /\ Busy(w) /\ work[w].op \in VertexOps
         /\ \/ promise' = promise
            \/ Pledge(n, promise[n].calls, promise[n].acked, promise[n].saving, promise[n].kept)
            \/ /\ ChangeStore(w) /\ w \in promise[n].calls
               /\ Pledge(n, promise[n].calls \ {w}, promise[n].acked \cup {work[w].vertex},
                         promise[n].saving, promise[n].kept)
            \/ /\ ChangePanics(w)
               /\ Pledge(n, promise[n].calls \ {w}, promise[n].acked, promise[n].saving, promise[n].kept)
<1>1. Busy(w) /\ work[w].op \in VertexOps
  BY DEF ChangeStep, Enter, ChangeColumn, ChangePost, ChangePanics, ChangeStore, RemoveColumn, RemoveSearch,
         RemoveNext, RemoveLock, RemoveFindColumn, RemovePosting, RemoveColumnShard, RemoveErase,
         MultiRemove, SearchStep, SearchEnter, SearchColumn, SearchFilter, SearchMap, SearchAnswer, SearchEnd,
         SearchFails, SearchKeepsLock, SearchPanics, At, VertexOps
<1>2. n \in Names /\ PromisesTyped
  BY <1>1, CallTyped DEF TypeInv, Typed
<1>3. CASE SearchStep(w) /\ ~ Die
  <2>1. promise' = promise \/ promise' = [promise EXCEPT ![n].sought[w] = {}]
    BY <1>3 DEF SearchStep, SearchEnter, SearchColumn, SearchFilter, SearchMap, SearchAnswer, SearchEnd,
                SearchFails, SearchKeepsLock, SearchPanics, SearchReturn
  <2> QED BY <1>1, <1>2, <2>1, PledgeSought
<1>4. CASE ChangeStore(w)
  <2>1. PICK x : x = work[w].vertex
    OBVIOUS
  <2>2. \/ promise' = promise
        \/ /\ w \in promise[n].calls
           /\ promise' = [promise EXCEPT ![n].acked = @ \cup {x}, ![n].calls = @ \ {w}]
    BY <1>4, <2>1 DEF ChangeStore
  <2> QED BY <1>1, <1>2, <1>4, <2>1, <2>2, PledgeAcked
<1>6. CASE ChangePanics(w)
  <2>1. promise' = [promise EXCEPT ![n].calls = @ \ {w}]
    BY <1>6 DEF ChangePanics
  <2> QED BY <1>1, <1>2, <1>6, <2>1, PledgeBroken
<1>5. CASE ChangeStep(w) /\ ~ ChangeStore(w) /\ ~ ChangePanics(w)
  <2>1. promise' = promise
    BY <1>5 DEF ChangeStep, Enter, ChangeColumn, ChangePost, RemoveColumn, RemoveSearch,
         RemoveNext, RemoveLock, RemoveFindColumn, RemovePosting, RemoveColumnShard, RemoveErase,
         MultiRemove
  <2> QED BY <1>1, <1>2, <2>1
<1> QED BY <1>3, <1>4, <1>5, <1>6

\* No more is promised than was, but that a change may be waited for.
Less(n, w) == \E c, a, s, k :
  /\ Pledge(n, c, a, s, k) /\ c \subseteq promise[n].calls \cup {w} /\ a \subseteq promise[n].acked
  /\ k \subseteq promise[n].kept /\ s \subseteq promise[n].saving \cup promise[n].acked

\* So it is when a call begins.
LEMMA BeginPledges ==
  ASSUME TypeInv, NEW w \in Workers, NEW n \in Names, Begin(w, n)
  PROVE  promise' = promise \/ Less(n, w)
<1>0. PromisesTyped
  BY DEF TypeInv
<1>1. ASSUME NEW c, NEW a, NEW s, NEW k, Pledge(n, c, a, s, k), c \subseteq promise[n].calls \cup {w},
             a \subseteq promise[n].acked, k \subseteq promise[n].kept,
             s \subseteq promise[n].saving \cup promise[n].acked
      PROVE  Less(n, w)
  BY <1>1 DEF Less
<1>2. CASE CreateBegin(w, n) \/ DeleteBegin(w, n)
  <2>1. Pledge(n, {}, {}, {}, {})
    BY <1>0, <1>2, PledgeNothing DEF CreateBegin, DeleteBegin
  <2> QED BY <1>1, <2>1
<1>3. CASE LoadBegin(w, n)
  <2>1. Pledge(n, {}, promise[n].acked, promise[n].saving, promise[n].kept)
    BY <1>0, <1>3, PledgeNoCalls DEF LoadBegin
  <2> QED BY <1>1, <2>1
<1>4. CASE ReleaseBegin(w, n)
  <2>1. Pledge(n, {}, promise[n].acked, promise[n].acked, promise[n].kept)
    BY <1>0, <1>4, PledgeReleased DEF ReleaseBegin
  <2> QED BY <1>1, <2>1
<1>5. CASE FlushBegin(w, n)
  <2>1. Pledge(n, promise[n].calls, promise[n].acked, promise[n].acked, promise[n].kept)
    BY <1>0, <1>5, PledgeFlushed DEF FlushBegin
  <2> QED BY <1>1, <2>1
<1>6. CASE CloseCollection(w, n)
  BY <1>6 DEF CloseCollection
<1>7. ASSUME NEW t \in Tags, EdgeRemoveBegin(w, n, t) PROVE Less(n, w)
  <2>1. Pledge(n, {u \in promise[n].calls : work[u].vertex.tag # t}, {y \in promise[n].acked : y.tag # t},
                {y \in promise[n].saving : y.tag # t}, {y \in promise[n].kept : y.tag # t})
    BY <1>0, <1>7, PledgeTagRemoved DEF EdgeRemoveBegin, RemoveBegin
  <2> QED BY <1>1, <2>1
<1>8. ASSUME NEW i, MultiRemoveBegin(w, n, i) PROVE Less(n, w)
  <2>1. Pledge(n, {u \in promise[n].calls : work[u].vertex.id # i}, {y \in promise[n].acked : y.id # i},
                {y \in promise[n].saving : y.id # i}, {y \in promise[n].kept : y.id # i})
    BY <1>0, <1>8, PledgeIdRemoved DEF MultiRemoveBegin, RemoveBegin
  <2> QED BY <1>1, <2>1
<1>9. ASSUME NEW filter, SearchBegin(w, n, filter) PROVE Less(n, w)
  <2>1. Pledge(n, promise[n].calls, promise[n].acked, promise[n].saving, promise[n].kept)
    BY <1>0, <1>9, PledgeSought DEF SearchBegin
  <2> QED BY <1>1, <2>1
<1>10. ASSUME NEW id, NEW t, ChangeBegin(w, n, id, t) PROVE Less(n, w)
  <2>1. PICK c : /\ Pledge(n, c, {y \in promise[n].acked : y.id # id},
                          {y \in promise[n].saving : y.id # id}, {y \in promise[n].kept : y.id # id})
                /\ \/ c = {u \in promise[n].calls : work[u].vertex.id # id}
                   \/ /\ c = {u \in promise[n].calls : work[u].vertex.id # id} \cup {w}
                      /\ ~ AdminOn(n)
                      /\ \A v \in OthersOn(w, n) : ~ Collides(v, [id |-> id, tag |-> t])
    BY <1>0, <1>10, PledgeChanged
  <2>2. c \subseteq promise[n].calls \cup {w}
    BY <2>1
  <2> QED BY <1>1, <2>1, <2>2
<1> QED BY <1>2, <1>3, <1>4, <1>5, <1>6, <1>7, <1>8, <1>9, <1>10 DEF Begin

\* The rest of the types.
LEMMA RestTyped ==
  ASSUME NoRecord, TypeInv, [Next]_vars
  PROVE  BucketTyped' /\ PromisesTyped' /\ mode' = mode /\ lastId' \in 0 .. MaxIds
<1> USE DEF memory, flags
<1>0. lastId \in 0 .. MaxIds /\ MaxIds \in Nat /\ BucketTyped /\ PromisesTyped
  BY MemoryTyped DEF TypeInv
<1>1. bucket' = bucket => BucketTyped'
  BY <1>0 DEF BucketTyped
<1>2. promise' = promise => PromisesTyped'
  BY <1>0 DEF PromisesTyped, PromiseTyped
<1>3. ASSUME NEW n \in Names, NEW c \in SUBSET Workers, NEW a \in SUBSET Vertex, NEW s \in SUBSET Vertex,
             NEW k \in SUBSET Vertex, Pledge(n, c, a, s, k)
      PROVE  PromisesTyped'
  <2>1. PromiseTyped(promise'[n])
    BY <1>3 DEF Pledge, PromiseTyped
  <2>2. \A m \in Names \ {n} : PromiseTyped(promise'[m])
    BY <1>0, <1>3 DEF Pledge, PromisesTyped
  <2> QED BY <1>3, <2>1, <2>2 DEF Pledge, PromisesTyped
<1>4. \A n \in Names : /\ promise[n].calls \subseteq Workers /\ promise[n].acked \subseteq Vertex
                       /\ promise[n].saving \subseteq Vertex /\ promise[n].kept \subseteq Vertex
  BY <1>0 DEF PromisesTyped, PromiseTyped
<1>5. ASSUME NEW w \in Workers, AdminStep(w)
      PROVE  BucketTyped' /\ PromisesTyped' /\ mode' = mode /\ lastId' \in 0 .. MaxIds
  <2>1. PICK n : n = work[w].name
    OBVIOUS
  <2>2. BucketTyped'
    BY <1>5, <2>1, AdminBucket DEF BucketOf
  <2>3. n \in Names /\ (promise' = promise \/ \E c \in SUBSET Workers : \E a, s, k \in SUBSET Vertex : Pledge(n, c, a, s, k))
    BY <1>4, <1>5, <2>1, AdminPledges
  <2>4. mode' = mode /\ lastId' = lastId
    BY <1>5 DEF AdminStep, CreateBucket, CreateSpace, CreateUndoBucket, CreateUndoFlags, DestroySpace, SetFlags,
                DeleteFlags, DeleteBucket, LoadFill, LoadInverted, LoadVertex, ReleaseUnflag, SaveMeta,
                SaveVertexMap, SaveVertexFails, SaveVertexPut, SaveInverted, SaveInvertedPut
  <2> QED BY <1>0, <1>2, <1>3, <2>2, <2>3, <2>4
<1>6. ASSUME NEW w \in Workers, ChangeStep(w) \/ (SearchStep(w) /\ ~ Die)
      PROVE  BucketTyped' /\ PromisesTyped' /\ mode' = mode /\ lastId' \in 0 .. MaxIds
  <2>1. PICK n, x : n = work[w].name /\ x = work[w].vertex
    OBVIOUS
  <2>2. n \in Names /\ Busy(w) /\ (ChangeStore(w) => x \in Vertex)
    <3>1. n \in Names /\ Busy(w)
      BY <1>6, <2>1, VertexPledges
    <3>2. Typed(work[w])
      BY <3>1, CallTyped DEF TypeInv
    <3> QED BY <2>1, <3>1, <3>2 DEF ChangeStore, At, Typed
  <2>3. \/ promise' = promise
        \/ Pledge(n, promise[n].calls, promise[n].acked, promise[n].saving, promise[n].kept)
        \/ /\ ChangeStore(w)
           /\ Pledge(n, promise[n].calls \ {w}, promise[n].acked \cup {x}, promise[n].saving, promise[n].kept)
        \/ Pledge(n, promise[n].calls \ {w}, promise[n].acked, promise[n].saving, promise[n].kept)
    BY <1>6, <2>1, VertexPledges
  <2>4. promise' = promise \/ \E c \in SUBSET Workers : \E a, s, k \in SUBSET Vertex : Pledge(n, c, a, s, k)
    BY <1>4, <2>2, <2>3
  <2>5. mode' = mode /\ lastId' = lastId /\ bucket' = bucket
    <3>1. CASE ChangeStep(w)
      BY <3>1 DEF ChangeStep, Enter, ChangeColumn, ChangePost, ChangePanics, ChangeStore, RemoveColumn, RemoveSearch,
         RemoveNext, RemoveLock, RemoveFindColumn, RemovePosting, RemoveColumnShard, RemoveErase,
         MultiRemove, UnchangedByIndex
    <3> QED BY <1>6, <3>1, SearchMoves
  <2> QED BY <1>0, <1>1, <1>2, <1>3, <2>2, <2>4, <2>5
<1>7. ASSUME NEW w \in Workers, NEW n \in Names, Begin(w, n)
      PROVE  BucketTyped' /\ PromisesTyped' /\ mode' = mode /\ lastId' \in 0 .. MaxIds
  <2>1. mode' = mode /\ bucket' = bucket
    BY <1>7, BeginStarts
  <2>2. promise' = promise \/ \E c \in SUBSET Workers : \E a, s, k \in SUBSET Vertex : Pledge(n, c, a, s, k)
    BY <1>4, <1>7, BeginPledges DEF Less
  <2>3. lastId' = lastId \/ lastId' \in 1 .. MaxIds
    BY <1>7 DEF Begin, CreateBegin, DeleteBegin, LoadBegin, ReleaseBegin, FlushBegin, CloseCollection,
                EdgeRemoveBegin, MultiRemoveBegin, RemoveBegin, SearchBegin, ChangeBegin
  <2> QED BY <1>0, <1>1, <1>2, <1>3, <2>1, <2>2, <2>3
<1>8. CASE Die
  <2>1. ASSUME NEW n \in Names PROVE PromiseTyped(promise'[n])
    <3> DEFINE p == [NoPromise EXCEPT !.kept = promise[n].kept]
    <3>1. promise'[n] = p
      BY <1>8 DEF Die
    <3>2. PromiseTyped(p)
      BY <1>4 DEF NoPromise, PromiseTyped, PromiseFields
    <3> QED BY <3>1, <3>2
  <2>2. DOMAIN promise' = Names /\ mode' = mode /\ bucket' = bucket /\ lastId' = lastId
    BY <1>8 DEF Die
  <2> QED BY <1>0, <1>1, <2>1, <2>2 DEF PromisesTyped
<1>9. CASE CloseBegin \/ CloseEnd \/ Start \/ UNCHANGED vars
  BY <1>0, <1>1, <1>2, <1>9 DEF CloseBegin, CloseEnd, Start, vars
<1> QED BY <1>5, <1>6, <1>7, <1>8, <1>9 DEF Next, Crash

\* Types hold in every step, and at the start.
LEMMA TypeStep ==
  ASSUME NoRecord, TypeInv, [Next]_vars
  PROVE  TypeInv' /\ mode' = mode
<1>1. BucketTyped' /\ PromisesTyped' /\ mode' = mode /\ lastId' \in 0 .. MaxIds
  BY RestTyped
<1>2. WorkTyped' /\ SpacesTyped' /\ ShardsTyped' /\ Bounds'
  BY CoreTyped
<1>3. MaxIds \in Nat /\ mode \in {"edge", "multi"}
  BY MemoryTyped DEF TypeInv
<1> QED BY <1>1, <1>2, <1>3 DEF TypeInv

\* The types hold at the start.
LEMMA TypeInit ==
  ASSUME Init
  PROVE  TypeInv
<1>1. WorkTyped /\ SpacesTyped /\ ShardsTyped
  <2>1. 0 \in 0 .. Len(spaces)
    BY DEF Init
  <2> QED BY <2>1 DEF Init, WorkTyped, SpacesTyped, ShardsTyped
<1>2. BucketTyped /\ PromisesTyped
  BY DEF Init, BucketTyped, PromisesTyped, NoPromise, PromiseTyped, PromiseFields
<1>3. Bounds
  BY DEF Init, Bounds, Busy
<1>4. mode \in {"edge", "multi"} /\ lastId \in 0 .. MaxIds
  BY VectorStoresAssumption DEF Init
<1> QED BY <1>1, <1>2, <1>3, <1>4 DEF TypeInv

-----------------------------------------------------------------------------
(* The queue of a search: what a fold of pushes keeps                      *)

\* There are finitely many vertices.
LEMMA VertexFinite ==
  ASSUME IsFiniteSet(Tags)
  PROVE  \A S \in SUBSET Vertex : IsFiniteSet(S) /\ Cardinality(S) \in Nat
<1> DEFINE f == [v \in Vertex |-> <<v.id, v.tag>>]
           P == (1 .. MaxIds) \X Tags
<1>1. IsFiniteSet(1 .. MaxIds)
  BY FS_Interval, VectorStoresAssumption
<1>2. IsFiniteSet(P)
  BY <1>1, FS_Product
<1>3. f \in Injection(Vertex, P)
  <2>1. f \in [Vertex -> P]
    BY DEF Vertex
  <2>2. ASSUME NEW x \in Vertex, NEW y \in Vertex, f[x] = f[y] PROVE x = y
    <3>1. x.id = y.id /\ x.tag = y.tag
      BY <2>2
    <3> QED BY <3>1 DEF Vertex
  <2> QED BY <2>1, <2>2 DEF Injection, IsInjective
<1> HIDE DEF f, P
<1>4. IsFiniteSet(Vertex)
  BY <1>2, <1>3, FS_Injection
<1> QED BY <1>4, FS_Subset, FS_CardinalityType

\* A set of numbers that is not empty has a least one.
LEMMA LeastNumber ==
  ASSUME NEW S \in SUBSET Nat, S # {}
  PROVE  \E n \in S : \A m \in S : n <= m
<1>1. PICK n \in S : \A m \in S : <<m, n>> \notin OpToRel(<, Nat)
  BY NatLessThanWellFounded, WFMin
<1>2. \A m \in S : ~ (m < n)
  BY <1>1 DEF OpToRel
<1> QED BY <1>2

\* A set of numbers that has 0, and with each number the next, has all.
LEMMA AllNumbers ==
  ASSUME NEW S, 0 \in S, \A n \in Nat : n \in S => n + 1 \in S
  PROVE  \A n \in Nat : n \in S
<1> DEFINE T == {n \in Nat : n \notin S}
<1>1. SUFFICES ASSUME T # {} PROVE FALSE
  OBVIOUS
<1>2. PICK n \in T : \A m \in T : n <= m
  <2>1. T \in SUBSET Nat
    OBVIOUS
  <2> HIDE DEF T
  <2> QED BY <1>1, <2>1, LeastNumber
<1>3. n # 0 /\ n - 1 \in Nat /\ n - 1 \notin T
  BY <1>2
<1>4. (n - 1) + 1 \in S
  BY <1>3
<1> QED BY <1>2, <1>4

\* The queue counts as the proofs do.
LEMMA CountIs == \A S : Queue!Cardinality(S) = Cardinality(S)
BY DEF Queue!Cardinality, Cardinality

\* The vertex on top of a queue has the least id.
LEMMA TopIsLeast ==
  ASSUME NEW Q \in SUBSET Vertex, Q # {}
  PROVE  Queue!Least(Q) \in Q /\ \A y \in Q : Queue!Least(Q).id <= y.id
<1> DEFINE ids == {y.id : y \in Q}
<1>1. ids \in SUBSET Nat /\ ids # {}
  BY VectorStoresAssumption DEF Vertex
<1>2. PICK i \in ids : \A m \in ids : i <= m
  <2> HIDE DEF ids
  <2> QED BY <1>1, LeastNumber
<1>3. PICK x \in Q : \A y \in Q : x.id <= y.id
  BY <1>2
<1> DEFINE score == [v \in Vertex |-> v.id]
<1>4. \A y \in Q : score[y] = y.id
  OBVIOUS
<1>5. \E z \in Q : \A y \in Q : score[z] <= score[y]
  BY <1>3, <1>4
<1>6. Queue!Least(Q) \in Q /\ \A y \in Q : score[Queue!Least(Q)] <= score[y]
  BY <1>5 DEF Queue!Least
<1> QED BY <1>4, <1>6

\* What it is to be the top of S: as the search knows it, by ids.
Top(Q, S) ==
  /\ Q \subseteq S /\ Cardinality(Q) <= TopK
  /\ \A x \in S \ Q : Cardinality(Q) = TopK /\ \A y \in Q : x.id <= y.id

\* It is what the queue says.
LEMMA TopIs ==
  ASSUME NEW S \in SUBSET Vertex, NEW Q
  PROVE  Queue!IsTop(Q, S) <=> Top(Q, S)
<1> DEFINE score == [v \in Vertex |-> v.id]
<1>1. \A y \in S : score[y] = y.id
  OBVIOUS
<1>2. Queue!IsTop(Q, S) <=> /\ Q \subseteq S /\ Cardinality(Q) <= TopK
                            /\ \A x \in S \ Q : Cardinality(Q) = TopK /\ \A y \in Q : score[x] <= score[y]
  BY CountIs DEF Queue!IsTop
<1> HIDE DEF score
<1> QED BY <1>1, <1>2 DEF Top

\* One more is pushed.
LEMMA TopAdd ==
  ASSUME IsFiniteSet(Tags), NEW S \in SUBSET Vertex, NEW Q, Top(Q, S), NEW x \in Vertex
  PROVE  Top(Queue!Add(Q, x), S \cup {x})
<1> DEFINE all  == Q \cup {x}
           more == S \cup {x}
<1>1. IsFiniteSet(Q) /\ IsFiniteSet(all) /\ all \in SUBSET Vertex /\ Q \subseteq S
  BY VertexFinite DEF Top
<1>2. Cardinality(Q) \in Nat /\ Cardinality(all) \in Nat /\ Cardinality(Q) <= TopK /\ TopK \in Nat
  BY <1>1, FS_CardinalityType, VectorStoresAssumption DEF Top
<1>3. Cardinality(all) = IF x \in Q THEN Cardinality(Q) ELSE Cardinality(Q) + 1
  BY <1>1, FS_AddElement
<1>4. \A v \in Vertex : v.id \in Nat
  BY VectorStoresAssumption DEF Vertex
<1>5. CASE Cardinality(all) > TopK
  <2>1. x \notin Q /\ Cardinality(Q) = TopK
    BY <1>2, <1>3, <1>5
  <2> DEFINE least == Queue!Least(all)
             new   == all \ {least}
  <2>2. least \in all /\ \A y \in all : least.id <= y.id
    BY <1>1, TopIsLeast
  <2>3. Cardinality(new) = TopK
    <3>1. Cardinality(new) = Cardinality(all) - 1
      BY <1>1, <2>2, FS_RemoveElement
    <3> QED BY <1>2, <1>3, <2>1, <3>1
  <2>4. ASSUME NEW z \in more \ new, NEW y \in new
        PROVE  z.id <= y.id
    <3>1. {z, y, least} \subseteq Vertex
      BY <1>1, <2>2
    <3>2. CASE z = least
      BY <3>2, <2>2
    <3>3. CASE z # least
      <4>1. z \in S \ Q
        BY <3>3
      <4>2. CASE y \in Q
        BY <4>1, <4>2 DEF Top
      <4>3. CASE y = x
        <5>1. least \in Q
          BY <2>2, <4>3
        <5>2. z.id <= least.id /\ least.id <= y.id
          BY <4>1, <5>1, <2>2 DEF Top
        <5> QED BY <1>4, <3>1, <5>2
      <4> QED BY <4>2, <4>3
    <3> QED BY <3>2, <3>3
  <2>5. Queue!Add(Q, x) = new
    BY <1>5, CountIs DEF Queue!Add
  <2>6. new \subseteq more /\ Cardinality(new) <= TopK
    BY <1>1, <1>2, <2>3
  <2> HIDE DEF new, more
  <2> QED BY <2>3, <2>4, <2>5, <2>6 DEF Top, more
<1>6. CASE ~(Cardinality(all) > TopK)
  <2>1. Queue!Add(Q, x) = all /\ Cardinality(all) <= TopK
    BY <1>2, <1>6, CountIs DEF Queue!Add
  <2>2. ASSUME NEW z \in more \ all
        PROVE  all = Q /\ Cardinality(Q) = TopK /\ \A y \in Q : z.id <= y.id
    <3>1. z \in S \ Q
      OBVIOUS
    <3>2. Cardinality(Q) = TopK /\ \A y \in Q : z.id <= y.id
      BY <3>1 DEF Top
    <3>3. x \in Q
      BY <3>2, <1>2, <1>3, <2>1
    <3> QED BY <3>2, <3>3
  <2>3. all \subseteq more
    BY <1>1
  <2> HIDE DEF all, more
  <2> QED BY <2>1, <2>2, <2>3 DEF Top, more
<1> QED BY <1>5, <1>6

\* The order in which a fold pushes the vertices of a set.
Pick(s) == CHOOSE x \in s : TRUE
Pushes(f, Q, s) == f[s] = IF s = {} THEN Q ELSE Queue!Add(f[s \ {Pick(s)}], Pick(s))

\* The sets with at most k vertices; a set without the next one to push has less.
UpToSize(S, k) == {s \in SUBSET S : Cardinality(s) <= k}

LEMMA PickLess ==
  ASSUME IsFiniteSet(Tags), NEW S \in SUBSET Vertex, NEW s \in SUBSET S, s # {}
  PROVE  /\ Pick(s) \in s /\ s \ {Pick(s)} \in SUBSET S
         /\ Cardinality(s) \in Nat /\ Cardinality(s) # 0
         /\ Cardinality(s \ {Pick(s)}) = Cardinality(s) - 1
<1>1. Pick(s) \in s
  BY DEF Pick
<1>2. IsFiniteSet(s) /\ Cardinality(s) \in Nat
  BY VertexFinite
<1> QED BY <1>1, <1>2, FS_RemoveElement, FS_EmptySet

\* There is a function that is a fold on the sets of any size: it pushes once more
\* than the one of the size before.
LEMMA FoldExists ==
  ASSUME IsFiniteSet(Tags), NEW S \in SUBSET Vertex, NEW Q
  PROVE  \E f : f = [s \in SUBSET S |-> f[s]] /\ \A s \in SUBSET S : Pushes(f, Q, s)
<1> DEFINE D(k) == UpToSize(S, k)
           K == {k \in Nat : \E f : f = [s \in D(k) |-> f[s]] /\ \A s \in D(k) : Pushes(f, Q, s)}
<1>0. \A s \in SUBSET S : Cardinality(s) \in Nat /\ (Cardinality(s) = 0 <=> s = {})
  BY VertexFinite, FS_EmptySet
<1>1. 0 \in K
  <2> DEFINE f == [s \in D(0) |-> Q]
  <2>1. \A s \in D(0) : s = {}
    BY <1>0 DEF UpToSize
  <2>2. \A s \in D(0) : Pushes(f, Q, s)
    BY <2>1 DEF Pushes
  <2> QED BY <2>2
<1>2. ASSUME NEW k \in Nat, k \in K PROVE k + 1 \in K
  <2>1. PICK f : \A s \in D(k) : Pushes(f, Q, s)
    BY <1>2
  <2> DEFINE g == [s \in D(k + 1) |-> IF s \in D(k) THEN f[s] ELSE Queue!Add(f[s \ {Pick(s)}], Pick(s))]
  <2>2. ASSUME NEW s \in D(k + 1) PROVE Pushes(g, Q, s)
    <3>1. s \in SUBSET S /\ Cardinality(s) \in Nat /\ Cardinality(s) <= k + 1
      BY <1>0 DEF UpToSize
    <3>2. CASE s = {}
      <4>1. s \in D(k)
        BY <1>0, <3>1, <3>2 DEF UpToSize
      <4>2. g[s] = f[s] /\ f[s] = Q
        BY <2>1, <3>2, <4>1 DEF Pushes
      <4> HIDE DEF g
      <4> QED BY <3>2, <4>2 DEF Pushes
    <3>3. CASE s # {}
      <4> DEFINE t == s \ {Pick(s)}
      <4>1. t \in SUBSET S /\ Cardinality(t) = Cardinality(s) - 1
        BY <3>1, <3>3, PickLess
      <4>2. t \in D(k) /\ t \in D(k + 1)
        BY <3>1, <4>1 DEF UpToSize
      <4>3. g[t] = f[t]
        BY <4>2
      <4>4. g[s] = Queue!Add(f[t], Pick(s))
        BY <2>1, <3>3 DEF Pushes
      <4>5. g[s] = Queue!Add(g[t], Pick(s))
        BY <4>3, <4>4
      <4> HIDE DEF g
      <4> QED BY <3>3, <4>5 DEF Pushes
    <3> QED BY <3>2, <3>3
  <2>3. g = [s \in D(k + 1) |-> g[s]]
    OBVIOUS
  <2> HIDE DEF g
  <2> QED BY <2>2, <2>3
<1>3. \A k \in Nat : k \in K
  <2> HIDE DEF K
  <2> QED BY <1>1, <1>2, AllNumbers
<1>4. PICK k \in Nat : D(k) = SUBSET S
  <2>1. \A s \in SUBSET S : Cardinality(s) <= Cardinality(S)
    BY VertexFinite, FS_Subset
  <2>2. Cardinality(S) \in Nat
    BY VertexFinite
  <2> QED BY <2>1, <2>2 DEF UpToSize
<1>5. PICK f : f = [s \in D(k) |-> f[s]] /\ \A s \in D(k) : Pushes(f, Q, s)
  BY <1>3
<1>6. f = [s \in SUBSET S |-> f[s]] /\ \A s \in SUBSET S : Pushes(f, Q, s)
  BY <1>4, <1>5
<1> QED BY <1>6

\* So AddAll pushes vertex after vertex.
LEMMA AddAllFolds ==
  ASSUME IsFiniteSet(Tags), NEW S \in SUBSET Vertex, NEW Q
  PROVE  \E f : (\A s \in SUBSET S : Pushes(f, Q, s)) /\ Queue!AddAll(Q, S) = f[S]
<1> DEFINE h == CHOOSE f : f = [s \in SUBSET S |-> IF s = {} THEN Q ELSE Queue!Add(f[s \ {Pick(s)}], Pick(s))]
<1>0. PICK g : g = [s \in SUBSET S |-> g[s]] /\ \A s \in SUBSET S : Pushes(g, Q, s)
  BY FoldExists
<1>4. g = [s \in SUBSET S |-> IF s = {} THEN Q ELSE Queue!Add(g[s \ {Pick(s)}], Pick(s))]
  BY <1>0 DEF Pushes
<1>1. h = [s \in SUBSET S |-> IF s = {} THEN Q ELSE Queue!Add(h[s \ {Pick(s)}], Pick(s))]
  BY <1>4
<1>2. Queue!AddAll(Q, S) = h[S]
  BY DEF Queue!AddAll, Queue!FoldSet, Queue!MapThenFoldSet, Pick
<1> HIDE DEF h
<1>3. \A s \in SUBSET S : Pushes(h, Q, s)
  BY <1>1 DEF Pushes
<1> QED BY <1>2, <1>3

\* What was in the queue and what is pushed has its top there.
LEMMA AddAllTop ==
  ASSUME IsFiniteSet(Tags), NEW S \in SUBSET Vertex, NEW Q \in SUBSET Vertex, Cardinality(Q) <= TopK
  PROVE  Top(Queue!AddAll(Q, S), Q \cup S)
<1>1. PICK f : (\A s \in SUBSET S : Pushes(f, Q, s)) /\ Queue!AddAll(Q, S) = f[S]
  BY AddAllFolds
<1> DEFINE K == {k \in Nat : \A s \in UpToSize(S, k) : Top(f[s], Q \cup s)}
<1>2. 0 \in K
  <2>1. ASSUME NEW s \in UpToSize(S, 0) PROVE Top(f[s], Q \cup s)
    <3>1. s \in SUBSET S /\ s = {}
      BY <2>1, VertexFinite, FS_EmptySet DEF UpToSize
    <3>2. f[s] = Q
      BY <1>1, <3>1 DEF Pushes
    <3> QED BY <3>1, <3>2 DEF Top
  <2> QED BY <2>1
<1>3. ASSUME NEW k \in Nat, k \in K PROVE k + 1 \in K
  <2>1. ASSUME NEW s \in UpToSize(S, k + 1) PROVE Top(f[s], Q \cup s)
    <3>1. s \in SUBSET S /\ Cardinality(s) <= k + 1
      BY DEF UpToSize
    <3>2. CASE s = {}
      <4>1. f[s] = Q
        BY <1>1, <3>1, <3>2 DEF Pushes
      <4> QED BY <3>2, <4>1 DEF Top
    <3>3. CASE s # {}
      <4> DEFINE x == Pick(s)
                 t == s \ {x}
      <4>1. x \in s /\ t \in SUBSET S /\ Cardinality(t) = Cardinality(s) - 1 /\ Cardinality(s) \in Nat
        BY <3>1, <3>3, PickLess
      <4>2. t \in UpToSize(S, k)
        BY <3>1, <4>1 DEF UpToSize
      <4>3. Top(f[t], Q \cup t)
        BY <1>3, <4>2
      <4>4. f[s] = Queue!Add(f[t], x)
        BY <1>1, <3>1, <3>3 DEF Pushes
      <4>5. x \in Vertex /\ Q \cup t \in SUBSET Vertex /\ (Q \cup t) \cup {x} = Q \cup s
        BY <3>1, <4>1
      <4>6. Top(Queue!Add(f[t], x), (Q \cup t) \cup {x})
        BY <4>3, <4>5, TopAdd
      <4> QED BY <4>4, <4>5, <4>6
    <3> QED BY <3>2, <3>3
  <2> QED BY <2>1
<1>4. \A k \in Nat : k \in K
  <2> HIDE DEF K
  <2> QED BY <1>2, <1>3, AllNumbers
<1>5. S \in UpToSize(S, Cardinality(S)) /\ Cardinality(S) \in Nat
  BY VertexFinite DEF UpToSize
<1> QED BY <1>1, <1>4, <1>5

-----------------------------------------------------------------------------
(* The types in full                                                       *)

Places == {"bucket", "space", "undo bucket", "undo space", "undo flags", "flag", "flags", "remove bucket",
           "fill", "load inverted", "load vertex", "meta", "vertex", "inverted", "unflag", "destroy",
           "enter", "column", "post", "store", "search", "read", "next", "lock", "find column",
           "withdraw", "drop column", "erase", "scan", "parallel", "answer"}

\* What a search has found are vertices: none before it reads the maps, and where it has
\* one queue no more than that holds.
Sized(a) ==
  a.op = "search" => /\ a.data \in SUBSET Vertex
                     /\ a.at \in {"enter", "column", "read"} => a.data = {}
                     /\ a.at \in {"scan", "answer"} => Cardinality(a.data) <= TopK

Doing  == {a \in Activity : Sized(a)}
WorkIs == work \in [Workers -> {Idle} \cup Doing]

\* What a call is, with a name for the set of its places.
LEMMA ActivityIs ==
  Activity = [op : Ops, name : Names, to : Nat, shard : Nat,
              vertex : {NoVertex} \cup [id : 0 .. MaxIds, tag : Tags], ids : SUBSET (1 .. MaxIds),
              map : 0 .. MapShards, left : SUBSET (0 .. MapShards - 1), data : {Unreadable} \cup SUBSET Vertex,
              at : Places]
BY DEF Activity, Places, Ops

\* A call in progress is given a new state, ...
LEMMA DoingPut ==
  ASSUME WorkIs, NEW w \in Workers, NEW a \in {Idle} \cup Doing, work' = [work EXCEPT ![w] = a]
  PROVE  WorkIs'
BY DEF WorkIs

\* ... which it had before.
LEMMA DoingNow ==
  ASSUME WorkIs, NEW w \in Workers, Busy(w)
  PROVE  work[w] \in Doing /\ work[w] \in Activity /\ Sized(work[w])
BY DEF WorkIs, Busy, Doing

\* It goes to a place, ...
LEMMA DoingGo ==
  ASSUME WorkIs, NEW w \in Workers, Busy(w), work[w].op # "search", NEW at \in Places, Go(w, at)
  PROVE  WorkIs'
<1> DEFINE a == [work[w] EXCEPT !.at = at]
<1>1. work[w] \in Activity
  BY DoingNow
<1>2. a \in Activity /\ a.op = work[w].op
  BY <1>1, ActivityIs
<1>3. work' = [work EXCEPT ![w] = a]
  BY DEF Go, WorkIs
<1> HIDE DEF a
<1>4. a \in Doing
  BY <1>2 DEF Doing, Sized
<1> QED BY <1>3, <1>4, DoingPut

\* ... returns, ...
LEMMA DoingReturn ==
  ASSUME WorkIs, NEW w \in Workers, Return(w)
  PROVE  WorkIs'
BY DoingPut DEF Return

\* ... turns to the next object, ...
LEMMA DoingNext ==
  ASSUME WorkIs, NEW w \in Workers, Busy(w), work[w].op # "search", NEW at \in Places, NextObject(w, at),
         Space(w) \in Nat
  PROVE  WorkIs'
<1> DEFINE a == [work[w] EXCEPT !.at = at, !.to = Space(w), !.map = 0, !.data = {}]
<1>1. work[w] \in Activity /\ 0 \in 0 .. MapShards
  BY DoingNow, VectorStoresAssumption
<1>2. a \in Activity /\ a.op = work[w].op
  BY <1>1, ActivityIs
<1>3. work' = [work EXCEPT ![w] = a]
  BY DEF NextObject, WorkIs
<1> HIDE DEF a
<1>4. a \in Doing
  BY <1>2 DEF Doing, Sized
<1> QED BY <1>3, <1>4, DoingPut

\* ... has read something, ...
LEMMA DoingRead ==
  ASSUME WorkIs, NEW w \in Workers, Busy(w), work[w].op # "search", NEW i \in 0 .. MapShards,
         NEW d \in {Unreadable} \cup SUBSET Vertex, work' = [work EXCEPT ![w].map = i, ![w].data = d]
  PROVE  WorkIs'
<1> DEFINE a == [work[w] EXCEPT !.map = i, !.data = d]
<1>1. work[w] \in Activity
  BY DoingNow
<1>2. a \in Activity /\ a.op = work[w].op
  BY <1>1, ActivityIs
<1>3. work' = [work EXCEPT ![w] = a]
  BY DEF WorkIs
<1> HIDE DEF a
<1>4. a \in Doing
  BY <1>2 DEF Doing, Sized
<1> QED BY <1>3, <1>4, DoingPut

\* ... has found its space, ...
LEMMA DoingTo ==
  ASSUME WorkIs, NEW w \in Workers, Busy(w), NEW s \in Nat, NEW at \in Places,
         work[w].op = "search" => work[w].at = "enter" /\ at = "column",
         work' = [work EXCEPT ![w].to = s, ![w].at = at]
  PROVE  WorkIs'
<1> DEFINE a == [work[w] EXCEPT !.to = s, !.at = at]
<1>1. work[w] \in Activity /\ Sized(work[w])
  BY DoingNow
<1>2. a \in Activity /\ a.op = work[w].op /\ a.data = work[w].data /\ a.at = at
  BY <1>1, ActivityIs
<1>3. work' = [work EXCEPT ![w] = a]
  BY DEF WorkIs
<1> HIDE DEF a
<1>4. a \in Doing
  BY <1>1, <1>2 DEF Doing, Sized
<1> QED BY <1>3, <1>4, DoingPut

\* ... or its shard, ...
LEMMA DoingShard ==
  ASSUME WorkIs, NEW w \in Workers, Busy(w), NEW i \in Nat, NEW at \in Places,
         work[w].op = "search" => work[w].at = "column" /\ at = "read",
         work' = [work EXCEPT ![w].shard = i, ![w].at = at]
  PROVE  WorkIs'
<1> DEFINE a == [work[w] EXCEPT !.shard = i, !.at = at]
<1>1. work[w] \in Activity /\ Sized(work[w])
  BY DoingNow
<1>2. a \in Activity /\ a.op = work[w].op /\ a.data = work[w].data /\ a.at = at
  BY <1>1, ActivityIs
<1>3. work' = [work EXCEPT ![w] = a]
  BY DEF WorkIs
<1> HIDE DEF a
<1>4. a \in Doing
  BY <1>1, <1>2 DEF Doing, Sized
<1> QED BY <1>3, <1>4, DoingPut

\* ... or the ids it removes, ...
LEMMA DoingIds ==
  ASSUME WorkIs, NEW w \in Workers, Busy(w), work[w].op # "search", NEW ids \in SUBSET (1 .. MaxIds),
         work' = [work EXCEPT ![w].at = "next", ![w].ids = ids]
  PROVE  WorkIs'
<1> DEFINE a == [work[w] EXCEPT !.at = "next", !.ids = ids]
<1>1. work[w] \in Activity
  BY DoingNow
<1>2. a \in Activity /\ a.op = work[w].op
  <2>1. "next" \in Places
    BY DEF Places
  <2> QED BY <1>1, <2>1, ActivityIs
<1>3. work' = [work EXCEPT ![w] = a]
  BY DEF WorkIs
<1> HIDE DEF a
<1>4. a \in Doing
  BY <1>2 DEF Doing, Sized
<1> QED BY <1>3, <1>4, DoingPut

\* ... and turns to the next of them.
LEMMA DoingTurn ==
  ASSUME WorkIs, NEW w \in Workers, Busy(w), work[w].op # "search", NEW id \in 1 .. MaxIds,
         DOMAIN work[w].vertex = {"id", "tag"},
         work' = [work EXCEPT ![w].at = "lock", ![w].ids = work[w].ids \ {id}, ![w].vertex.id = id]
  PROVE  WorkIs'
<1> DEFINE x == [work[w].vertex EXCEPT !.id = id]
           a == [work[w] EXCEPT !.at = "lock", !.ids = work[w].ids \ {id}, !.vertex = x]
<1>1. work[w] \in Activity
  BY DoingNow
<1>0. x \in [id : 0 .. MaxIds, tag : Tags]
  <2>1. work[w].vertex \in {NoVertex} \cup [id : 0 .. MaxIds, tag : Tags]
    BY <1>1, ActivityIs
  <2>2. work[w].vertex # NoVertex
    <3>1. DOMAIN NoVertex = {"id"}
      BY DEF NoVertex
    <3> QED BY <3>1
  <2>3. id \in 0 .. MaxIds
    BY VectorStoresAssumption
  <2> QED BY <2>1, <2>2, <2>3
<1>3. work' = [work EXCEPT ![w] = a]
  BY DEF WorkIs
<1> HIDE DEF x
<1>2. a \in Activity /\ a.op = work[w].op
  <2>1. "lock" \in Places
    BY DEF Places
  <2> QED BY <1>0, <1>1, <2>1, ActivityIs
<1> HIDE DEF a
<1>4. a \in Doing
  BY <1>2 DEF Doing, Sized
<1> QED BY <1>3, <1>4, DoingPut

\* The maps of some ids are maps of a space.
LEMMA MapsAre ==
  ASSUME NEW ids \in SUBSET (1 .. MaxIds)
  PROVE  MapsOf(ids) \subseteq 0 .. MapShards - 1
<1>1. MapShards \in Nat \ {0} /\ MaxIds \in Nat
  BY VectorStoresAssumption
<1>2. \A id \in 1 .. MaxIds : id % MapShards \in 0 .. MapShards - 1
  BY <1>1
<1> QED BY <1>2 DEF MapsOf, MapOf

\* A search begins to read the maps, ...
LEMMA DoingScan ==
  ASSUME WorkIs, NEW w \in Workers, Busy(w), work[w].op = "search", work[w].at \in {"enter", "read"},
         NEW s \in Nat, NEW ids \in SUBSET (1 .. MaxIds), SearchScan(w, s, ids)
  PROVE  WorkIs'
<1>1. work[w] \in Activity /\ work[w].data = {}
  BY DoingNow DEF Sized
<1>2. PICK left : left = IF work[w].vertex = NoVertex THEN 0 .. MapShards - 1 ELSE MapsOf(ids)
  OBVIOUS
<1>8. PICK at \in Scans : work' = [work EXCEPT ![w].at = at, ![w].to = s, ![w].ids = ids, ![w].left = left]
  BY <1>2 DEF SearchScan
<1>3. at \in Places /\ left \in SUBSET (0 .. MapShards - 1)
  BY <1>2, MapsAre DEF Places, Scans
<1> DEFINE a == [work[w] EXCEPT !.at = at, !.to = s, !.ids = ids, !.left = left]
<1>4. a \in Activity /\ a.data = {}
  BY <1>1, <1>3, ActivityIs
<1>5. work' = [work EXCEPT ![w] = a]
  BY <1>8 DEF WorkIs
<1> HIDE DEF a
<1>6. Cardinality({}) <= TopK
  BY FS_EmptySet, VectorStoresAssumption
<1>7. a \in Doing
  BY <1>4, <1>6 DEF Doing, Sized
<1> QED BY <1>5, <1>7, DoingPut

\* What a queue keeps of some vertices are some of them, and no more than it holds.
LEMMA QueueKeeps ==
  ASSUME IsFiniteSet(Tags), NEW S \in SUBSET Vertex, NEW Q \in SUBSET Vertex, Cardinality(Q) <= TopK
  PROVE  Queue!AddAll(Q, S) \in SUBSET Vertex /\ Cardinality(Queue!AddAll(Q, S)) <= TopK
BY AddAllTop DEF Top

\* ... reads one, ...
LEMMA DoingMap ==
  ASSUME IsFiniteSet(Tags), WorkIs, NEW w \in Workers, SearchMap(w),
         \A i : Part(work[w].to, i) \in SUBSET Vertex
  PROVE  WorkIs'
<1>1. Busy(w) /\ work[w].op = "search" /\ work[w].at \in {"scan", "parallel"}
  BY DEF SearchMap, At
<1>2. work[w] \in Activity /\ Sized(work[w])
  BY <1>1, DoingNow
<1>3. PICK i, part, d : /\ i \in work[w].left /\ part = {v \in Part(work[w].to, i) : v.id \in work[w].ids}
                        /\ d = IF work[w].at = "scan" THEN Queue!AddAll(work[w].data, part)
                               ELSE work[w].data \cup Queue!AddAll({}, part)
                        /\ work' = [work EXCEPT ![w].left = work[w].left \ {i}, ![w].data = d]
  <2>1. PICK i \in work[w].left : work' = [work EXCEPT ![w].left = @ \ {i}, ![w].data =
                      IF work[w].at = "scan" THEN Queue!AddAll(@, {v \in Part(work[w].to, i) : v.id \in work[w].ids})
                      ELSE @ \cup Queue!AddAll({}, {v \in Part(work[w].to, i) : v.id \in work[w].ids})]
    BY DEF SearchMap
  <2>2. PICK part : part = {v \in Part(work[w].to, i) : v.id \in work[w].ids}
    OBVIOUS
  <2>3. work' = [work EXCEPT ![w].left = @ \ {i}, ![w].data =
                      IF work[w].at = "scan" THEN Queue!AddAll(@, part) ELSE @ \cup Queue!AddAll({}, part)]
    BY <2>1, <2>2
  <2>4. PICK d : d = IF work[w].at = "scan" THEN Queue!AddAll(work[w].data, part)
                     ELSE work[w].data \cup Queue!AddAll({}, part)
    OBVIOUS
  <2>5. work' = [work EXCEPT ![w].left = work[w].left \ {i}, ![w].data = d]
    BY <2>3, <2>4 DEF WorkIs
  <2> QED BY <2>1, <2>2, <2>4, <2>5
<1>4. part \in SUBSET Vertex /\ {} \in SUBSET Vertex /\ Cardinality({}) <= TopK /\ work[w].data \in SUBSET Vertex
  BY <1>1, <1>2, <1>3, FS_EmptySet, VectorStoresAssumption DEF Sized
<1>5. d \in SUBSET Vertex /\ (work[w].at = "scan" => Cardinality(d) <= TopK)
  <2>1. CASE work[w].at = "scan"
    <3>1. Cardinality(work[w].data) <= TopK
      BY <1>1, <1>2, <2>1 DEF Sized
    <3> QED BY <1>3, <1>4, <2>1, <3>1, QueueKeeps
  <2>2. CASE work[w].at # "scan"
    <3>1. Queue!AddAll({}, part) \in SUBSET Vertex
      BY <1>4, QueueKeeps
    <3> QED BY <1>3, <1>4, <2>2, <3>1
  <2> QED BY <2>1, <2>2
<1> DEFINE a == [work[w] EXCEPT !.left = work[w].left \ {i}, !.data = d]
<1>6. a \in Activity /\ a.data = d /\ a.at = work[w].at
  BY <1>2, <1>5, ActivityIs
<1>7. work' = [work EXCEPT ![w] = a]
  BY <1>3 DEF WorkIs
<1> HIDE DEF a
<1>8. a \in Doing
  BY <1>1, <1>5, <1>6 DEF Doing, Sized
<1> QED BY <1>7, <1>8, DoingPut

\* ... and has read all.
LEMMA DoingAnswer ==
  ASSUME IsFiniteSet(Tags), WorkIs, NEW w \in Workers, SearchAnswer(w)
  PROVE  WorkIs'
<1>1. Busy(w) /\ work[w].op = "search" /\ work[w].at \in {"scan", "parallel"}
  BY DEF SearchAnswer, At
<1>2. work[w] \in Activity /\ Sized(work[w])
  BY <1>1, DoingNow
<1>3. PICK d : /\ d = IF work[w].at = "scan" THEN work[w].data ELSE Queue!AddAll({}, work[w].data)
               /\ work' = [work EXCEPT ![w].at = "answer", ![w].ids = {}, ![w].data = d]
  <2>1. PICK d : d = IF work[w].at = "scan" THEN work[w].data ELSE Queue!AddAll({}, work[w].data)
    OBVIOUS
  <2>2. work' = [work EXCEPT ![w].at = "answer", ![w].ids = {}, ![w].data =
                    IF work[w].at = "scan" THEN @ ELSE Queue!AddAll({}, @)]
    BY DEF SearchAnswer
  <2>3. work' = [work EXCEPT ![w].at = "answer", ![w].ids = {}, ![w].data = d]
    BY <2>1, <2>2 DEF WorkIs
  <2> QED BY <2>1, <2>3
<1>4. {} \in SUBSET Vertex /\ Cardinality({}) <= TopK /\ work[w].data \in SUBSET Vertex
  BY <1>1, <1>2, FS_EmptySet, VectorStoresAssumption DEF Sized
<1>5. d \in SUBSET Vertex /\ Cardinality(d) <= TopK
  BY <1>1, <1>2, <1>3, <1>4, QueueKeeps DEF Sized
<1> DEFINE a == [work[w] EXCEPT !.at = "answer", !.ids = {}, !.data = d]
<1>6. a \in Activity /\ a.data = d /\ a.at = "answer"
  <2>1. "answer" \in Places
    BY DEF Places
  <2> QED BY <1>2, <1>5, <2>1, ActivityIs
<1>7. work' = [work EXCEPT ![w] = a]
  BY <1>3 DEF WorkIs
<1> HIDE DEF a
<1>8. a \in Doing
  BY <1>5, <1>6 DEF Doing, Sized
<1> QED BY <1>7, <1>8, DoingPut

\* A call begins.
LEMMA DoingCall ==
  ASSUME WorkIs, NEW w \in Workers, NEW op \in Ops, NEW at \in Places, NEW n \in Names,
         NEW v \in {NoVertex} \cup [id : 0 .. MaxIds, tag : Tags],
         work' = [work EXCEPT ![w] = [Call(op, at, n) EXCEPT !.vertex = v]], op = "search" => at = "enter"
  PROVE  WorkIs'
<1> DEFINE a == [Call(op, at, n) EXCEPT !.vertex = v]
<1>1. 0 \in 0 .. MapShards
  BY VectorStoresAssumption
<1>2. a \in Activity /\ a.op = op /\ a.at = at /\ a.data = {}
  BY <1>1, ActivityIs DEF Call
<1>3. work' = [work EXCEPT ![w] = a]
  OBVIOUS
<1> HIDE DEF a
<1>4. a \in Doing
  BY <1>2 DEF Doing, Sized
<1> QED BY <1>3, <1>4, DoingPut

\* A call on a collection has no vertex.
LEMMA DoingAdmin ==
  ASSUME WorkIs, NEW w \in Workers, NEW op \in AdminOps, NEW at \in Places, NEW n \in Names,
         work' = [work EXCEPT ![w] = Call(op, at, n)]
  PROVE  WorkIs'
<1> DEFINE a == Call(op, at, n)
<1>1. 0 \in 0 .. MapShards
  BY VectorStoresAssumption
<1>2. op \in Ops /\ op # "search"
  BY DEF Ops, AdminOps
<1>3. a \in Activity /\ a.op = op
  BY <1>1, <1>2, ActivityIs DEF Call
<1>4. work' = [work EXCEPT ![w] = a]
  OBVIOUS
<1> HIDE DEF a
<1>5. a \in Doing
  BY <1>2, <1>3 DEF Doing, Sized
<1> QED BY <1>4, <1>5, DoingPut

\* So every step leaves calls behind it: of those on collections, ...
LEMMA AdminDoing ==
  ASSUME TypeInv, WorkIs, NEW w \in Workers, AdminStep(w)
  PROVE  WorkIs'
<1> USE DEF At
<1>0. Busy(w) /\ work[w].op \in AdminOps /\ work[w].name \in Names
  BY AdminPledges
<1>1. work[w].op # "search"
  BY <1>0 DEF AdminOps
<1>2. Space(w) \in Nat /\ MapShards \in Nat
  <2>1. Space(w) \in 0 .. Len(spaces)
    BY <1>0, MemoryTyped DEF Space
  <2> QED BY <2>1, MemoryTyped
<1>3. ASSUME Return(w) \/ \E at \in Places : Go(w, at) \/ NextObject(w, at)
      PROVE  WorkIs'
  BY <1>0, <1>1, <1>2, <1>3, DoingGo, DoingReturn, DoingNext
<1>4. CASE \/ CreateBucket(w) \/ CreateSpace(w) \/ CreateUndoBucket(w) \/ CreateUndoFlags(w)
           \/ DestroySpace(w) \/ SetFlags(w) \/ DeleteFlags(w) \/ DeleteBucket(w)
           \/ LoadFill(w) \/ LoadInverted(w) \/ LoadVertex(w) \/ ReleaseUnflag(w)
  <2>1. Return(w) \/ \E at \in {"space", "undo bucket", "meta", "undo space", "undo flags", "remove bucket",
                                "load inverted", "load vertex", "flag", "destroy"} : Go(w, at)
    BY <1>4 DEF CreateBucket, CreateSpace, CreateUndoBucket, CreateUndoFlags, DestroySpace, SetFlags,
                DeleteFlags, DeleteBucket, LoadFill, LoadInverted, LoadVertex, ReleaseUnflag
  <2>2. {"space", "undo bucket", "meta", "undo space", "undo flags", "remove bucket",
         "load inverted", "load vertex", "flag", "destroy"} \subseteq Places
    BY DEF Places
  <2> QED BY <1>3, <2>1, <2>2
<1>5. CASE SaveMeta(w) \/ SaveVertexPut(w) \/ SaveInvertedPut(w)
  <2>1. work[w].op \in Savers
    BY <1>5 DEF SaveMeta, SaveVertexPut, SaveInvertedPut
  <2>2. \/ Saved(w) \/ \E at \in {"vertex", "inverted"} : NextObject(w, at) \/ Abandon(w, at)
        \/ work[w].op # "close" /\ Abandon(w, "")
    BY <1>5 DEF SaveMeta, SaveVertexPut, SaveInvertedPut
  <2>3. Return(w) \/ \E at \in {"vertex", "inverted", "undo bucket", "flag", "destroy", "unflag"} :
                       Go(w, at) \/ NextObject(w, at)
    BY <2>1, <2>2 DEF Saved, Abandon, Savers
  <2>4. {"vertex", "inverted", "undo bucket", "flag", "destroy", "unflag"} \subseteq Places
    BY DEF Places
  <2> QED BY <1>3, <2>3, <2>4
<1>6. CASE SaveVertexMap(w) \/ SaveVertexFails(w) \/ SaveInverted(w)
  <2>1. \/ work[w].op # "close" /\ Abandon(w, "")
        \/ work' = [work EXCEPT ![w].map = MapShards, ![w].data = Unreadable]
        \/ /\ SaveVertexMap(w)
           /\ work' = [work EXCEPT ![w].map = work[w].map + 1, ![w].data = work[w].data \cup Part(work[w].to, work[w].map)]
        \/ work[w].to # 0 /\ work' = [work EXCEPT ![w].map = MapShards, ![w].data = Postings(work[w].to)]
    BY <1>6 DEF SaveVertexMap, SaveVertexFails, SaveInverted, TypeInv, WorkTyped
  <2>2. CASE work[w].op # "close" /\ Abandon(w, "")
    <3>1. Return(w) \/ Go(w, "undo bucket")
      BY <2>2 DEF Abandon
    <3>2. "undo bucket" \in Places
      BY DEF Places
    <3> QED BY <1>3, <3>1, <3>2
  <2>3. ASSUME NEW i \in 0 .. MapShards, NEW d \in {Unreadable} \cup SUBSET Vertex,
               work' = [work EXCEPT ![w].map = i, ![w].data = d]
        PROVE  WorkIs'
    BY <1>0, <1>1, <2>3, DoingRead
  <2>4. MapShards \in 0 .. MapShards
    BY <1>2
  <2>5. CASE work' = [work EXCEPT ![w].map = MapShards, ![w].data = Unreadable]
    BY <2>3, <2>4, <2>5
  <2>6. CASE /\ work[w].to # 0
             /\ work' = [work EXCEPT ![w].map = MapShards, ![w].data = Postings(work[w].to)]
    <3>1. PICK d : d = Postings(work[w].to)
      OBVIOUS
    <3>2. d \in SUBSET Vertex
      BY <1>0, <2>6, <3>1, PartTyped
    <3> QED BY <2>3, <2>4, <2>6, <3>1, <3>2
  <2>7. CASE /\ SaveVertexMap(w)
             /\ work' = [work EXCEPT ![w].map = work[w].map + 1,
                                     ![w].data = work[w].data \cup Part(work[w].to, work[w].map)]
    <3>1. PICK i, d : i = work[w].map + 1 /\ d = work[w].data \cup Part(work[w].to, work[w].map)
      OBVIOUS
    <3>2. work[w].at = "vertex" /\ work[w].map < MapShards /\ work[w].to # 0
      BY <2>7 DEF SaveVertexMap
    <3>3. Typed(work[w])
      BY <1>0, CallTyped DEF TypeInv
    <3>4. i \in 0 .. MapShards
      BY <1>2, <3>1, <3>2, <3>3 DEF Typed
    <3>5. d \in SUBSET Vertex
      BY <1>0, <3>1, <3>2, <3>3, PartTyped DEF Typed
    <3> QED BY <2>3, <2>7, <3>1, <3>4, <3>5
  <2> QED BY <2>1, <2>2, <2>5, <2>6, <2>7
<1> QED BY <1>4, <1>5, <1>6 DEF AdminStep

\* getShard.
LEMMA ShardDoing ==
  ASSUME TypeInv, WorkIs, NEW w \in Workers, Busy(w), work[w].to # 0, NEW at \in {"post", "read", "withdraw"},
         work[w].op = "search" => work[w].at = "column" /\ at = "read", GetShard(w, at)
  PROVE  WorkIs'
<1>1. work[w].to \in 1 .. Len(spaces) /\ Len(shards) \in Nat
  BY PartTyped, MemoryTyped
<1>2. spaces[work[w].to] \in SpaceType
  BY <1>1, MemoryTyped
<1>3. PICK i \in Nat : work' = [work EXCEPT ![w].shard = i, ![w].at = at]
  <2>1. spaces[work[w].to].column \in Nat /\ Len(shards) + 1 \in Nat
    BY <1>1, <1>2 DEF SpaceType
  <2> QED BY <2>1 DEF GetShard
<1>4. at \in Places
  BY DEF Places
<1> QED BY <1>3, <1>4, DoingShard

\* ... of those on vertices, ...
LEMMA ChangeDoing ==
  ASSUME TypeInv, WorkIs, NEW w \in Workers, ChangeStep(w)
  PROVE  WorkIs'
<1> USE DEF At
<1>0. Busy(w) /\ work[w].op \in VertexOps /\ work[w].name \in Names
  BY VertexPledges
<1>1. work[w].op # "search"
  BY DEF ChangeStep, Enter, ChangeColumn, ChangePost, ChangePanics, ChangeStore, RemoveColumn, RemoveSearch,
         RemoveNext, RemoveLock, RemoveFindColumn, RemovePosting, RemoveColumnShard, RemoveErase, MultiRemove
<1>2. Typed(work[w])
  BY <1>0, CallTyped DEF TypeInv
<1>3. CASE Enter(w)
  <2>1. Space(w) \in Nat
    <3>1. Space(w) \in 0 .. Len(spaces)
      BY <1>0, MemoryTyped DEF Space
    <3> QED BY <3>1, MemoryTyped
  <2>2. \/ Return(w)
        \/ \E at \in {"store", "lock", "column", "search"} : work' = [work EXCEPT ![w].to = Space(w), ![w].at = at]
    BY <1>3 DEF Enter
  <2>3. {"store", "lock", "column", "search"} \subseteq Places
    BY DEF Places
  <2>4. ASSUME NEW at \in Places, work' = [work EXCEPT ![w].to = Space(w), ![w].at = at] PROVE WorkIs'
    BY <1>0, <1>1, <2>1, <2>4, DoingTo
  <2> QED BY <2>2, <2>3, <2>4, DoingReturn
<1>4. CASE ChangeColumn(w) \/ RemoveColumn(w) \/ RemoveFindColumn(w)
  <2>1. work[w].at # "enter"
    BY <1>4 DEF ChangeColumn, RemoveColumn, RemoveFindColumn
  <2>2. Return(w) \/ \E at \in {"post", "read", "withdraw"} : GetShard(w, at)
    BY <1>4 DEF ChangeColumn, RemoveColumn, RemoveFindColumn
  <2>3. work[w].to # 0
    BY <1>0, <2>1, HasEntered
  <2> QED BY <1>0, <1>1, <2>2, <2>3, DoingReturn, ShardDoing
<1>5. CASE ChangePost(w) \/ ChangePanics(w) \/ ChangeStore(w) \/ RemoveLock(w) \/ RemovePosting(w)
            \/ RemoveColumnShard(w) \/ RemoveErase(w) \/ MultiRemove(w)
  <2>1. Return(w) \/ \E at \in {"store", "find column", "next", "drop column", "erase"} : Go(w, at)
    BY <1>5 DEF ChangePost, ChangePanics, ChangeStore, RemoveLock, RemovePosting, RemoveColumnShard, RemoveErase, MultiRemove
  <2>2. {"store", "find column", "next", "drop column", "erase"} \subseteq Places
    BY DEF Places
  <2> QED BY <1>0, <1>1, <2>1, <2>2, DoingGo, DoingReturn
<1>6. CASE RemoveSearch(w)
  <2>1. PICK ids : ids = {p.id : p \in Found(w)}
    OBVIOUS
  <2>2. work[w].shard \in 1 .. Len(shards)
    BY <1>0, <1>2, <1>6, MemoryTyped DEF RemoveSearch, Typed, TypeInv, Bounds
  <2>3. ids \in SUBSET (1 .. MaxIds)
    BY <2>1, <2>2, MemoryTyped DEF Found, Vertex
  <2>4. work' = [work EXCEPT ![w].at = "next", ![w].ids = ids]
    BY <1>6, <2>1 DEF RemoveSearch
  <2> QED BY <1>0, <1>1, <2>3, <2>4, DoingIds
<1>7. CASE RemoveNext(w)
  <2>1. /\ work[w].op = "remove"
        /\ \/ Return(w)
           \/ \E id \in work[w].ids :
                work' = [work EXCEPT ![w].at = "lock", ![w].ids = work[w].ids \ {id}, ![w].vertex.id = id]
    BY <1>7 DEF RemoveNext
  <2>2. work[w].ids \subseteq 1 .. MaxIds /\ DOMAIN work[w].vertex = {"id", "tag"}
    BY <1>2, <2>1 DEF Typed
  <2>3. ASSUME NEW id \in 1 .. MaxIds,
               work' = [work EXCEPT ![w].at = "lock", ![w].ids = work[w].ids \ {id}, ![w].vertex.id = id]
        PROVE  WorkIs'
    BY <1>0, <1>1, <2>2, <2>3, DoingTurn
  <2> QED BY <2>1, <2>2, <2>3, DoingReturn
<1> QED BY <1>3, <1>4, <1>5, <1>6, <1>7 DEF ChangeStep

\* ... of searches, ...
LEMMA SearchDoing ==
  ASSUME IsFiniteSet(Tags), TypeInv, WorkIs, NEW w \in Workers, SearchStep(w), ~ Die
  PROVE  WorkIs'
<1> USE DEF At
<1>0. Busy(w) /\ work[w].op = "search" /\ work[w].op \in VertexOps
  BY SearchMoves DEF VertexOps
<1>1. Typed(work[w])
  BY <1>0, CallTyped DEF TypeInv
<1>2. work[w].at # "enter" => work[w].to # 0 /\ work[w].to \in Nat /\ \A i : Part(work[w].to, i) \in SUBSET Vertex
  BY <1>0, <1>1, HasEntered, PartTyped DEF Typed
<1>3. CASE SearchEnter(w)
  <2>1. Space(w) \in Nat
    <3>1. Space(w) \in 0 .. Len(spaces)
      BY <1>1, MemoryTyped DEF Space, Typed
    <3> QED BY <3>1, MemoryTyped
  <2>2. work[w].at = "enter" /\ "column" \in Places
    BY <1>3 DEF SearchEnter, Places
  <2>3. PICK s, ids : s = Space(w) /\ ids = 1 .. MaxIds
    OBVIOUS
  <2>4. SearchScan(w, s, ids) \/ work' = [work EXCEPT ![w].to = s, ![w].at = "column"]
    BY <1>3, <2>3 DEF SearchEnter
  <2>5. ids \in SUBSET (1 .. MaxIds) /\ s \in Nat
    BY <2>1, <2>3
  <2> QED BY <1>0, <2>2, <2>4, <2>5, DoingScan, DoingTo
<1>4. CASE SearchColumn(w)
  <2>1. work[w].at = "column" /\ GetShard(w, "read")
    BY <1>4 DEF SearchColumn
  <2> QED BY <1>0, <1>2, <2>1, ShardDoing
<1>5. CASE SearchFilter(w)
  <2>1. work[w].at = "read"
    BY <1>5 DEF SearchFilter
  <2>2. PICK s, ids : s = work[w].to /\ ids = {p.id : p \in Found(w)}
    OBVIOUS
  <2>3. work[w].shard \in 1 .. Len(shards)
    BY <1>0, <1>1, <2>1, MemoryTyped DEF Typed, TypeInv, Bounds
  <2>4. ids \in SUBSET (1 .. MaxIds)
    BY <2>2, <2>3, MemoryTyped DEF Found, Vertex
  <2>5. SearchScan(w, s, ids)
    BY <1>5, <2>2 DEF SearchFilter
  <2> QED BY <1>0, <1>2, <2>1, <2>2, <2>4, <2>5, DoingScan
<1>6. CASE SearchMap(w)
  <2>1. work[w].at # "enter"
    BY <1>6 DEF SearchMap
  <2> QED BY <1>2, <1>6, <2>1, DoingMap
<1>7. CASE SearchAnswer(w)
  BY <1>7, DoingAnswer
<1>8. CASE SearchEnd(w) \/ SearchFails(w) \/ SearchKeepsLock(w)
  BY <1>8, DoingReturn DEF SearchEnd, SearchFails, SearchKeepsLock, SearchReturn
<1> QED BY <1>3, <1>4, <1>5, <1>6, <1>7, <1>8 DEF SearchStep, SearchPanics

\* ... and of those that begin.
LEMMA BeginDoing ==
  ASSUME Tags # {}, WorkIs, NEW w \in Workers, NEW n \in Names, Begin(w, n)
  PROVE  WorkIs'
<1>0. MaxIds \in Nat /\ "enter" \in Places /\ {"change", "remove", "search"} \subseteq Ops
  BY VectorStoresAssumption DEF Places, Ops
<1>1. CASE \/ CreateBegin(w, n) \/ DeleteBegin(w, n) \/ LoadBegin(w, n) \/ ReleaseBegin(w, n)
           \/ FlushBegin(w, n) \/ CloseCollection(w, n)
  <2>1. \E op \in AdminOps, at \in {"undo bucket", "bucket", "flags", "fill", "meta"} :
             work' = [work EXCEPT ![w] = Call(op, at, n)]
    BY <1>1 DEF CreateBegin, DeleteBegin, LoadBegin, ReleaseBegin, FlushBegin, CloseCollection,
                BeginAdmin, AdminOps
  <2>2. {"undo bucket", "bucket", "flags", "fill", "meta"} \subseteq Places
    BY DEF Places
  <2> QED BY <2>1, <2>2, DoingAdmin
<1>2. ASSUME NEW op \in {"change", "remove", "search"}, NEW v \in {NoVertex} \cup [id : 0 .. MaxIds, tag : Tags],
             BeginChange(w, op, "enter", n, v)
      PROVE  WorkIs'
  <2>1. work' = [work EXCEPT ![w] = [Call(op, "enter", n) EXCEPT !.vertex = v]]
    BY <1>2 DEF BeginChange
  <2> QED BY <1>0, <2>1, DoingCall
<1>3. ASSUME NEW t \in Tags, EdgeRemoveBegin(w, n, t) PROVE WorkIs'
  <2>1. BeginChange(w, "remove", "enter", n, [id |-> 0, tag |-> t])
    BY <1>3 DEF EdgeRemoveBegin, RemoveBegin
  <2>2. [id |-> 0, tag |-> t] \in [id : 0 .. MaxIds, tag : Tags]
    BY <1>0
  <2> QED BY <1>2, <2>1, <2>2
<1>4. ASSUME NEW f \in {NoVertex} \cup [id : {0}, tag : Tags \ Odd], SearchBegin(w, n, f) PROVE WorkIs'
  <2>1. BeginChange(w, "search", "enter", n, f)
    BY <1>4 DEF SearchBegin
  <2>2. 0 \in 0 .. MaxIds
    BY <1>0
  <2>3. f \in {NoVertex} \cup [id : 0 .. MaxIds, tag : Tags]
    BY <2>2
  <2> QED BY <1>2, <2>1, <2>3
<1>5. ASSUME NEW id \in 1 .. MaxIds, MultiRemoveBegin(w, n, id) PROVE WorkIs'
  <2>1. PICK t : t = CHOOSE a \in Tags : TRUE
    OBVIOUS
  <2>2. t \in Tags /\ id \in 0 .. MaxIds
    BY <1>0, <2>1
  <2>3. BeginChange(w, "remove", "enter", n, [id |-> id, tag |-> t])
    BY <1>5, <2>1 DEF MultiRemoveBegin, RemoveBegin
  <2>4. [id |-> id, tag |-> t] \in [id : 0 .. MaxIds, tag : Tags]
    BY <2>2
  <2> QED BY <1>2, <2>3, <2>4
<1>6. ASSUME NEW id \in 1 .. MaxIds, NEW t \in Tags, ChangeBegin(w, n, id, t) PROVE WorkIs'
  <2>1. BeginChange(w, "change", "enter", n, [id |-> id, tag |-> t]) /\ id \in 0 .. MaxIds
    BY <1>0, <1>6 DEF ChangeBegin
  <2>2. [id |-> id, tag |-> t] \in [id : 0 .. MaxIds, tag : Tags]
    BY <2>1
  <2> QED BY <1>2, <2>1, <2>2
<1> QED BY <1>1, <1>3, <1>4, <1>5, <1>6 DEF Begin

\* Together.
LEMMA DoingStep ==
  ASSUME IsFiniteSet(Tags), Tags # {}, TypeInv, WorkIs, [Next]_vars
  PROVE  WorkIs'
<1>1. ASSUME work' = work PROVE WorkIs'
  BY <1>1 DEF WorkIs
<1>2. CASE Die
  BY <1>2 DEF Die, Forget, WorkIs
<1>3. CASE CloseBegin \/ Start \/ UNCHANGED vars
  BY <1>1, <1>3 DEF CloseBegin, Start, vars
<1>4. CASE CloseEnd \/ Crash
  BY <1>2, <1>4 DEF CloseEnd, Crash, Forget, WorkIs
<1> QED BY <1>2, <1>3, <1>4, AdminDoing, ChangeDoing, SearchDoing, BeginDoing DEF Next

\* The locks that are lost are those of maps and of shards.
LeakedIs == \A i \in 1 .. Len(spaces) : spaces[i].leaked \subseteq 0 .. MapShards + Len(shards)

\* No shard goes away.
More == Len(shards) \in Nat /\ Len(shards') \in Nat /\ Len(shards) <= Len(shards')

\* A step that keeps the types of memory keeps that too.
LEMMA MemoryMore ==
  ASSUME TypeInv, MemoryFine \/ shards' = shards
  PROVE  More
<1>1. Len(shards) \in Nat
  BY MemoryTyped
<1>2. CASE MemoryFine
  BY <1>1, <1>2 DEF MemoryFine, ShardsTyped, More
<1>3. CASE shards' = shards
  BY <1>1, <1>3 DEF More
<1> QED BY <1>2, <1>3

\* A lock that was one stays one.
LEMMA LockStays ==
  ASSUME More, MapShards \in Nat
  PROVE  0 .. MapShards + Len(shards) \subseteq 0 .. MapShards + Len(shards')
BY DEF More

\* A step that changes other fields of a space keeps them, ...
LEMMA LeakedSame ==
  ASSUME TypeInv, LeakedIs, More, NEW s, NEW fields, SpaceBut(s, fields), "leaked" \notin fields
  PROVE  LeakedIs'
<1>1. Len(spaces') = Len(spaces) /\ \A i \in 1 .. Len(spaces) : spaces'[i].leaked = spaces[i].leaked
  BY DEF SpaceBut
<1>2. 0 .. MapShards + Len(shards) \subseteq 0 .. MapShards + Len(shards')
  BY LockStays, MemoryTyped
<1> QED BY <1>1, <1>2 DEF LeakedIs

\* ... one that changes no space too, ...
LEMMA LeakedStays ==
  ASSUME TypeInv, LeakedIs, More, spaces' = spaces
  PROVE  LeakedIs'
<1>1. SpaceBut(0, {})
  BY DEF SpaceBut, TypeInv, SpacesTyped
<1> QED BY <1>1, LeakedSame

\* ... and one that loses a lock more.
LEMMA LeakedLock ==
  ASSUME TypeInv, LeakedIs, shards' = shards, NEW s, NEW i \in 0 .. MapShards + Len(shards),
         spaces' = [spaces EXCEPT ![s].leaked = spaces[s].leaked \cup {i}]
  PROVE  LeakedIs'
<1>1. Len(spaces') = Len(spaces) /\ \A j \in 1 .. Len(spaces) :
        spaces'[j] = IF j = s THEN [spaces[s] EXCEPT !.leaked = spaces[s].leaked \cup {i}] ELSE spaces[j]
  BY DEF TypeInv, SpacesTyped
<1>2. \A j \in 1 .. Len(spaces) : spaces[j] \in SpaceType
  BY MemoryTyped
<1>3. \A j \in 1 .. Len(spaces) : spaces'[j].leaked \in {spaces[j].leaked, spaces[j].leaked \cup {i}}
  BY <1>1, <1>2 DEF SpaceType
<1> QED BY <1>1, <1>3 DEF LeakedIs

\* A space that is added has lost none.
LEMMA LeakedNew ==
  ASSUME TypeInv, LeakedIs, More, NEW n \in Names, NEW s \in SpaceType, s.leaked = {}, NewSpace(n, s)
  PROVE  LeakedIs'
<1>1. /\ Len(spaces') = Len(spaces) + 1 /\ spaces'[Len(spaces) + 1] = s
      /\ \A i \in 1 .. Len(spaces) : spaces'[i] = spaces[i]
  BY AppendSpace DEF TypeInv
<1>2. Len(spaces) \in Nat
  BY MemoryTyped
<1>3. \A i \in 1 .. Len(spaces') : i \in 1 .. Len(spaces) \/ i = Len(spaces) + 1
  BY <1>1, <1>2
<1>4. 0 .. MapShards + Len(shards) \subseteq 0 .. MapShards + Len(shards')
  BY LockStays, MemoryTyped
<1> QED BY <1>1, <1>3, <1>4 DEF LeakedIs

\* So after every step.
LEMMA LeakedStep ==
  ASSUME TypeInv, LeakedIs, [Next]_vars
  PROVE  LeakedIs'
<1> USE DEF At
<1>1. More /\ spaces' = spaces => LeakedIs'
  BY LeakedStays
<1>2. ASSUME NEW w \in Workers, AdminStep(w) PROVE LeakedIs'
  <2>0. work[w].name \in Names /\ Busy(w) /\ More
    BY <1>2, AdminPledges, AdminMemory, MemoryMore
  <2>1. CASE CreateSpace(w) \/ LoadFill(w)
    <3>1. Fresh \in SpaceType /\ Fresh.leaked = {} /\ Hollow \in SpaceType /\ Hollow.leaked = {}
      BY DEF Fresh, Hollow, SpaceType
    <3>2. [Hollow EXCEPT !.described = TRUE] \in SpaceType /\ [Hollow EXCEPT !.described = TRUE].leaked = {}
      BY DEF Hollow, SpaceType
    <3>3. spaces' = spaces \/ \E s \in {Fresh, Hollow, [Hollow EXCEPT !.described = TRUE]} : NewSpace(work[w].name, s)
      BY <2>1 DEF CreateSpace, LoadFill
    <3> QED BY <1>1, <2>0, <3>1, <3>2, <3>3, LeakedNew
  <2>2. CASE LoadInverted(w)
    <3>1. CASE spaces' = spaces
      BY <1>1, <2>0, <3>1
    <3>2. CASE /\ Space(w) # 0
               /\ spaces' = [spaces EXCEPT ![Space(w)].indexed = TRUE, ![Space(w)].column = Len(shards) + 1]
      <4>1. PICK s, c : s = Space(w) /\ c = Len(shards) + 1
        OBVIOUS
      <4>2. s \in 1 .. Len(spaces) /\ c \in Nat
        BY <2>0, <3>2, <4>1, MemoryTyped DEF Space
      <4>3. SpaceBut(s, {"indexed", "column"})
        BY <3>2, <4>1, <4>2, IndexPut DEF TypeInv
      <4> QED BY <2>0, <4>3, LeakedSame
    <3> QED BY <2>2, <3>1, <3>2 DEF LoadInverted
  <2>3. CASE LoadVertex(w)
    <3>1. CASE spaces' = spaces
      BY <1>1, <2>0, <3>1
    <3>2. CASE /\ Readable(work[w].name, "vertex") /\ Space(w) # 0
               /\ spaces' = [spaces EXCEPT ![Space(w)].ready = TRUE,
                                           ![Space(w)].vertices = bucket[work[w].name].vertex]
      <4>1. PICK s, S : s = Space(w) /\ S = bucket[work[w].name].vertex
        OBVIOUS
      <4>2. s \in 1 .. Len(spaces)
        BY <2>0, <3>2, <4>1, MemoryTyped DEF Space
      <4>3. bucket[work[w].name] \in Bucket
        BY <2>0, <3>2 DEF Readable, TypeInv, BucketTyped
      <4>4. S \subseteq Vertex
        BY <3>2, <4>1, <4>3 DEF Readable, Object, Bucket
      <4>5. SpaceBut(s, {"ready", "vertices"})
        BY <3>2, <4>1, <4>2, <4>4, LoadPut DEF TypeInv
      <4> QED BY <2>0, <4>5, LeakedSame
    <3> QED BY <2>3, <3>1, <3>2 DEF LoadVertex
  <2>4. CASE SaveVertexFails(w)
    <3>1. PICK s, i : s = work[w].to /\ i = work[w].map
      OBVIOUS
    <3>2. i \in 0 .. MapShards - 1
      <4>1. Typed(work[w]) /\ MapShards \in Nat
        BY <2>0, CallTyped, MemoryTyped DEF TypeInv
      <4>2. work[w].map < MapShards
        BY <2>4 DEF SaveVertexFails
      <4> QED BY <3>1, <4>1, <4>2 DEF Typed
    <3>3. spaces' = spaces \/ spaces' = [spaces EXCEPT ![s].leaked = spaces[s].leaked \cup {i}]
      BY <2>4, <3>1 DEF SaveVertexFails, KeepLock
    <3>4. i \in 0 .. MapShards + Len(shards) /\ shards' = shards
      <4>1. MapShards \in Nat /\ Len(shards) \in Nat
        BY MemoryTyped
      <4>2. shards' = shards
        BY <2>4 DEF SaveVertexFails
      <4>3. i \in 0 .. MapShards + Len(shards)
        BY <3>2, <4>1
      <4> QED BY <4>2, <4>3
    <3> QED BY <1>1, <2>0, <3>3, <3>4, LeakedLock
  <2>5. ASSUME ~ CreateSpace(w), ~ LoadFill(w), ~ LoadInverted(w), ~ LoadVertex(w), ~ SaveVertexFails(w)
        PROVE  spaces' = spaces
    BY <1>2, <2>5 DEF AdminStep, CreateBucket, CreateUndoBucket, CreateUndoFlags, SetFlags, DeleteFlags,
                DeleteBucket, DestroySpace, ReleaseUnflag, SaveMeta, SaveVertexMap, SaveVertexPut, SaveInverted,
                SaveInvertedPut, memory
  <2> QED BY <1>1, <2>0, <2>1, <2>2, <2>3, <2>4, <2>5
<1>3. ASSUME NEW w \in Workers, Busy(w), NEW at, GetShard(w, at), work[w].to # 0, UNCHANGED space, More
      PROVE  LeakedIs'
  <2>1. PICK s : s = work[w].to
    OBVIOUS
  <2>2. SpaceBut(s, {"column"})
    BY <1>3, <2>1, GetShardDoes
  <2> QED BY <1>3, <2>2, LeakedSame
<1>4. ASSUME More, NEW s, NEW V, spaces' = [spaces EXCEPT ![s].vertices = V], s \in 1 .. Len(spaces) => V \subseteq Vertex
      PROVE  LeakedIs'
  <2>1. SpaceBut(s, {"vertices"})
    BY <1>4, VerticesPut DEF TypeInv
  <2> QED BY <1>4, <2>1, LeakedSame
<1>5. ASSUME NEW w \in Workers, ChangeStep(w) PROVE LeakedIs'
  <2>0. Busy(w) /\ work[w].op \in VertexOps /\ work[w].name \in Names /\ Typed(work[w]) /\ More
    BY <1>5, VertexPledges, CallTyped, ChangeTyped, MemoryMore DEF TypeInv
  <2>1. CASE ChangeColumn(w) \/ RemoveColumn(w) \/ RemoveFindColumn(w)
    <3>1. spaces' = spaces \/ \E at : GetShard(w, at)
      BY <2>1 DEF ChangeColumn, RemoveColumn, RemoveFindColumn
    <3>2. UNCHANGED space /\ work[w].at # "enter"
      BY <2>1 DEF ChangeColumn, RemoveColumn, RemoveFindColumn, UnchangedByIndex
    <3>3. work[w].to # 0
      BY <2>0, <3>2, HasEntered
    <3> QED BY <1>1, <1>3, <2>0, <3>1, <3>2, <3>3
  <2>2. CASE ChangeStore(w) \/ RemoveErase(w) \/ MultiRemove(w)
    <3>1. PICK s, x : s = work[w].to /\ x = work[w].vertex
      OBVIOUS
    <3>2. \/ spaces' = spaces
          \/ ChangeStore(w) /\ spaces' = [spaces EXCEPT ![s].vertices = {y \in spaces[s].vertices : y.id # x.id} \cup {x}]
          \/ spaces' = [spaces EXCEPT ![s].vertices = {y \in spaces[s].vertices : y.id # x.id}]
      BY <2>2, <3>1 DEF ChangeStore, RemoveErase, MultiRemove, Erase, Except, TypeInv, SpacesTyped
    <3>3. s \in 1 .. Len(spaces) => spaces[s].vertices \subseteq Vertex
      BY MemoryTyped DEF SpaceType
    <3>4. ChangeStore(w) => x \in Vertex
      BY <2>0, <3>1 DEF ChangeStore, Typed
    <3>5. CASE ChangeStore(w) /\ spaces' = [spaces EXCEPT ![s].vertices = {y \in spaces[s].vertices : y.id # x.id} \cup {x}]
      <4>1. PICK V : V = {y \in spaces[s].vertices : y.id # x.id} \cup {x}
        OBVIOUS
      <4>2. s \in 1 .. Len(spaces) => V \subseteq Vertex
        BY <3>3, <3>4, <3>5, <4>1
      <4> QED BY <1>4, <2>0, <3>5, <4>1, <4>2
    <3>6. CASE spaces' = [spaces EXCEPT ![s].vertices = {y \in spaces[s].vertices : y.id # x.id}]
      <4>1. PICK V : V = {y \in spaces[s].vertices : y.id # x.id}
        OBVIOUS
      <4>2. s \in 1 .. Len(spaces) => V \subseteq Vertex
        BY <3>3, <4>1
      <4> QED BY <1>4, <2>0, <3>6, <4>1, <4>2
    <3> QED BY <1>1, <2>0, <3>2, <3>5, <3>6
  <2>3. CASE RemoveColumnShard(w)
    <3>1. PICK s, c : s = work[w].to /\ c = 0
      OBVIOUS
    <3>2. spaces' = [spaces EXCEPT ![s].column = c] /\ c \in Nat
      BY <2>3, <3>1 DEF RemoveColumnShard
    <3>3. SpaceBut(s, {"column"})
      BY <3>2, ColumnPut DEF TypeInv
    <3> QED BY <2>0, <3>3, LeakedSame
  <2>4. CASE Enter(w) \/ ChangePost(w) \/ RemoveSearch(w) \/ RemoveNext(w) \/ RemoveLock(w) \/ RemovePosting(w)
    <3>1. spaces' = spaces
      BY <2>4 DEF Enter, ChangePost, RemoveSearch, RemoveNext, RemoveLock, RemovePosting, memory
    <3> QED BY <1>1, <2>0, <3>1
  <2>5. CASE ChangePanics(w)
    <3>1. PICK s, i : s = work[w].to /\ i = ShardLock(work[w].shard)
      OBVIOUS
    <3>2. i \in 0 .. MapShards + Len(shards) /\ Locks(w, i)
      BY <2>5, <3>1, PanicLocks
    <3> QED BY <3>1, <3>2, LeakedLock DEF Locks
  <2> QED BY <1>5, <2>1, <2>2, <2>3, <2>4, <2>5 DEF ChangeStep
<1>6. CASE Die \/ CloseEnd \/ Crash
  BY <1>6 DEF Die, CloseEnd, Crash, Forget, LeakedIs
<1>7. ASSUME NEW w \in Workers, SearchStep(w) PROVE LeakedIs'
  <2>1. \/ Die
        \/ UNCHANGED <<spaces, shards>>
        \/ UNCHANGED space /\ work[w].at # "enter" /\ GetShard(w, "read")
        \/ \E i \in 0 .. MapShards - 1 : Locks(w, i)
    BY <1>7, SearchMoves
  <2>2. Busy(w) /\ work[w].op \in VertexOps
    BY <1>7, SearchMoves DEF VertexOps
  <2>3. CASE UNCHANGED <<spaces, shards>>
    BY <1>1, <2>3, MemoryMore
  <2>4. CASE UNCHANGED space /\ work[w].at # "enter" /\ GetShard(w, "read")
    <3>1. work[w].to # 0
      BY <2>2, <2>4, HasEntered
    <3>2. More
      BY <2>2, <2>4, <3>1, GetShardTyped, MemoryMore
    <3> QED BY <1>3, <2>2, <2>4, <3>1, <3>2
  <2>5. ASSUME NEW i \in 0 .. MapShards - 1, Locks(w, i) PROVE LeakedIs'
    <3>1. PICK s : s = work[w].to
      OBVIOUS
    <3>2. MapShards \in Nat /\ Len(shards) \in Nat
      BY MemoryTyped
    <3>3. i \in 0 .. MapShards + Len(shards)
      BY <3>2
    <3> QED BY <2>5, <3>1, <3>3, LeakedLock DEF Locks
  <2> QED BY <1>6, <2>1, <2>3, <2>4, <2>5
<1>8. CASE CloseBegin \/ Start \/ UNCHANGED vars
  BY <1>1, <1>8, MemoryMore DEF CloseBegin, Start, vars, memory
<1>9. ASSUME NEW w \in Workers, NEW n \in Names, Begin(w, n) PROVE LeakedIs'
  BY <1>1, <1>9, BeginStarts, MemoryMore
<1> QED BY <1>2, <1>5, <1>6, <1>7, <1>8, <1>9 DEF Next

\* What a collection promises.
PromiseType == [calls : SUBSET Workers, acked : SUBSET Vertex, saving : SUBSET Vertex, kept : SUBSET Vertex,
                sought : [Workers -> SUBSET Vertex]]
PromiseIs   == promise \in [Names -> PromiseType]

\* It changes for one collection, ...
LEMMA PromisePut ==
  ASSUME PromiseIs, NEW n \in Names, NEW p \in PromiseType, promise' = [promise EXCEPT ![n] = p]
  PROVE  PromiseIs'
BY DEF PromiseIs

\* ... by one of its parts, by what it had, ...
LEMMA PromiseParts ==
  ASSUME PromiseIs, NEW n \in Names, NEW S \in SUBSET Vertex, NEW w \in Workers,
         \/ promise' = [promise EXCEPT ![n].acked = S]
         \/ promise' = [promise EXCEPT ![n].kept = S]
         \/ promise' = [promise EXCEPT ![n].saving = S]
         \/ promise' = [promise EXCEPT ![n].calls = {}]
         \/ promise' = [promise EXCEPT ![n] = [@ EXCEPT !.calls = {}, !.saving = S]]
         \/ promise' = [promise EXCEPT ![n].acked = @ \cup S, ![n].calls = @ \ {w}]
         \/ promise' = [promise EXCEPT ![n].calls = @ \ {w}]
         \/ promise' = [promise EXCEPT ![n].sought[w] = S]
         \/ promise' = [promise EXCEPT ![n] = NoPromise]
  PROVE  PromiseIs'
<1>1. promise[n] \in PromiseType
  BY DEF PromiseIs
<1>2. /\ [promise[n] EXCEPT !.acked = S] \in PromiseType
      /\ [promise[n] EXCEPT !.kept = S] \in PromiseType
      /\ [promise[n] EXCEPT !.saving = S] \in PromiseType
      /\ [promise[n] EXCEPT !.calls = {}] \in PromiseType
      /\ [promise[n] EXCEPT !.calls = @ \ {w}] \in PromiseType
  BY <1>1 DEF PromiseType
<1>3. /\ [promise[n] EXCEPT !.calls = {}, !.saving = S] \in PromiseType
      /\ [promise[n] EXCEPT !.acked = @ \cup S, !.calls = @ \ {w}] \in PromiseType
  BY <1>1 DEF PromiseType
<1>4. [promise[n] EXCEPT !.sought[w] = S] \in PromiseType
  <2>1. [promise[n].sought EXCEPT ![w] = S] \in [Workers -> SUBSET Vertex]
    BY <1>1 DEF PromiseType
  <2> QED BY <1>1, <2>1 DEF PromiseType
<1>5. NoPromise \in PromiseType
  BY DEF NoPromise, PromiseType
<1>6. CASE promise' = [promise EXCEPT ![n].acked = S]
  BY <1>2, <1>6, PromisePut DEF PromiseIs
<1>7. CASE promise' = [promise EXCEPT ![n].kept = S]
  BY <1>2, <1>7, PromisePut DEF PromiseIs
<1>8. CASE promise' = [promise EXCEPT ![n].saving = S]
  BY <1>2, <1>8, PromisePut DEF PromiseIs
<1>9. CASE promise' = [promise EXCEPT ![n].calls = {}]
  BY <1>2, <1>9, PromisePut DEF PromiseIs
<1>10. CASE promise' = [promise EXCEPT ![n] = [@ EXCEPT !.calls = {}, !.saving = S]]
  BY <1>3, <1>10, PromisePut DEF PromiseIs
<1>11. CASE promise' = [promise EXCEPT ![n].acked = @ \cup S, ![n].calls = @ \ {w}]
  BY <1>3, <1>11, PromisePut DEF PromiseIs
<1>12. CASE promise' = [promise EXCEPT ![n].sought[w] = S]
  BY <1>4, <1>12, PromisePut DEF PromiseIs
<1>13. CASE promise' = [promise EXCEPT ![n] = NoPromise]
  BY <1>5, <1>13, PromisePut
<1>14. CASE promise' = [promise EXCEPT ![n].calls = @ \ {w}]
  BY <1>2, <1>14, PromisePut DEF PromiseIs
<1> QED BY <1>6, <1>7, <1>8, <1>9, <1>10, <1>11, <1>12, <1>13, <1>14

\* ... or without what a change or a removal withdraws.
LEMMA WithdrawsIs ==
  ASSUME PromiseIs, NEW n \in Names, NEW i
  PROVE  Withdraws(n, LAMBDA y : y.id = i) \in PromiseType /\ Withdraws(n, LAMBDA y : y.tag = i) \in PromiseType
<1>1. promise[n] \in PromiseType
  BY DEF PromiseIs
<1> DEFINE byId  == [v \in Workers |-> {y \in promise[n].sought[v] : ~ (y.id = i)}]
           byTag == [v \in Workers |-> {y \in promise[n].sought[v] : ~ (y.tag = i)}]
<1>2. byId \in [Workers -> SUBSET Vertex] /\ byTag \in [Workers -> SUBSET Vertex]
  BY <1>1 DEF PromiseType
<1>3. [promise[n] EXCEPT !.acked = {y \in @ : ~ (y.id = i)}, !.saving = {y \in @ : ~ (y.id = i)},
                         !.kept = {y \in @ : ~ (y.id = i)}, !.calls = {v \in @ : ~ (work[v].vertex.id = i)},
                         !.sought = byId] \in PromiseType
  <2> HIDE DEF byId, byTag
  <2> QED BY <1>1, <1>2 DEF PromiseType
<1>4. [promise[n] EXCEPT !.acked = {y \in @ : ~ (y.tag = i)}, !.saving = {y \in @ : ~ (y.tag = i)},
                         !.kept = {y \in @ : ~ (y.tag = i)}, !.calls = {v \in @ : ~ (work[v].vertex.tag = i)},
                         !.sought = byTag] \in PromiseType
  <2> HIDE DEF byId, byTag
  <2> QED BY <1>1, <1>2 DEF PromiseType
<1> QED BY <1>1, <1>3, <1>4 DEF Withdraws, Except, PromiseType

\* So it is after every step.
LEMMA PromiseStep ==
  ASSUME TypeInv, PromiseIs, [Next]_vars
  PROVE  PromiseIs'
<1> USE DEF At
<1>0. \A n \in Names : promise[n] \in PromiseType
  BY DEF PromiseIs
<1>1. promise' = promise => PromiseIs'
  BY DEF PromiseIs
<1>2. ASSUME NEW w \in Workers, AdminStep(w) PROVE PromiseIs'
  <2>1. PICK n : n = work[w].name
    OBVIOUS
  <2>2. n \in Names
    BY <1>2, <2>1, AdminPledges
  <2>3. PICK saving, kept : saving = promise[n].saving /\ kept = promise[n].kept
    OBVIOUS
  <2>4. saving \in SUBSET Vertex /\ kept \in SUBSET Vertex /\ {} \in SUBSET Vertex
    BY <1>0, <2>2, <2>3 DEF PromiseType
  <2>5. \/ promise' = promise \/ promise' = [promise EXCEPT ![n].acked = kept]
        \/ promise' = [promise EXCEPT ![n].kept = saving] \/ promise' = [promise EXCEPT ![n].kept = {}]
    <3>1. CASE SetFlags(w)
      BY <2>1, <2>3, <3>1 DEF SetFlags
    <3>2. CASE SaveVertexPut(w) \/ SaveInvertedPut(w)
      <4>1. Saved(w) \/ promise' = promise
        BY <3>2 DEF SaveVertexPut, SaveInvertedPut
      <4>2. work[w].op \in Savers
        BY <3>2 DEF SaveVertexPut, SaveInvertedPut
      <4> QED BY <2>1, <2>3, <4>1, <4>2 DEF Saved, Savers
    <3>3. CASE SaveVertexFails(w) \/ SaveInverted(w)
      BY <2>1, <3>3 DEF SaveVertexFails, SaveInverted
    <3>4. ASSUME ~ SetFlags(w), ~ SaveVertexPut(w), ~ SaveInvertedPut(w), ~ SaveVertexFails(w), ~ SaveInverted(w)
          PROVE  promise' = promise
      BY <1>2, <3>4 DEF AdminStep, CreateBucket, CreateSpace, CreateUndoBucket, CreateUndoFlags, DestroySpace,
             DeleteFlags, DeleteBucket, LoadFill, LoadInverted, LoadVertex, ReleaseUnflag, SaveMeta, SaveVertexMap
    <3> QED BY <3>1, <3>2, <3>3, <3>4
  <2> QED BY <1>1, <1>2, <2>2, <2>4, <2>5, PromiseParts
<1>3. ASSUME NEW w \in Workers, SearchStep(w) /\ ~ Die PROVE PromiseIs'
  <2>1. PICK n : n = work[w].name
    OBVIOUS
  <2>2. n \in Names /\ {} \in SUBSET Vertex
    BY <1>3, <2>1, VertexPledges
  <2>3. promise' = promise \/ promise' = [promise EXCEPT ![n].sought[w] = {}]
    BY <1>3, <2>1 DEF SearchStep, SearchEnter, SearchColumn, SearchFilter, SearchMap, SearchAnswer, SearchEnd,
                SearchFails, SearchKeepsLock, SearchPanics, SearchReturn
  <2> QED BY <1>1, <2>2, <2>3, PromiseParts
<1>4. ASSUME NEW w \in Workers, ChangeStep(w) PROVE PromiseIs'
  <2>1. PICK n, x, S : n = work[w].name /\ x = work[w].vertex /\ S = {x}
    OBVIOUS
  <2>2. n \in Names /\ Busy(w)
    BY <1>4, <2>1, VertexPledges
  <2>3. \/ promise' = promise \/ promise' = [promise EXCEPT ![n].calls = @ \ {w}]
        \/ ChangeStore(w) /\ promise' = [promise EXCEPT ![n].acked = @ \cup S, ![n].calls = @ \ {w}]
    <3>1. CASE ChangeStore(w)
      BY <2>1, <3>1 DEF ChangeStore
    <3>2. CASE ~ ChangeStore(w) /\ ~ ChangePanics(w)
      BY <1>4, <3>2 DEF ChangeStep, Enter, ChangeColumn, ChangePost, RemoveColumn, RemoveSearch,
         RemoveNext, RemoveLock, RemoveFindColumn, RemovePosting, RemoveColumnShard, RemoveErase, MultiRemove
    <3>3. CASE ChangePanics(w)
      BY <2>1, <3>3 DEF ChangePanics
    <3> QED BY <3>1, <3>2, <3>3
  <2>4. ChangeStore(w) => S \in SUBSET Vertex
    BY <2>1, <2>2, CallTyped DEF ChangeStore, TypeInv, Typed
  <2>5. ASSUME ChangeStore(w), promise' = [promise EXCEPT ![n].acked = @ \cup S, ![n].calls = @ \ {w}] PROVE PromiseIs'
    BY <2>2, <2>4, <2>5, PromiseParts
  <2>6. ASSUME promise' = [promise EXCEPT ![n].calls = @ \ {w}] PROVE PromiseIs'
    <3>1. {} \in SUBSET Vertex
      OBVIOUS
    <3> QED BY <2>2, <2>6, <3>1, PromiseParts
  <2> QED BY <1>1, <2>3, <2>5, <2>6
<1>5. ASSUME NEW w \in Workers, NEW n \in Names, Begin(w, n) PROVE PromiseIs'
  <2>1. PICK acked : acked = promise[n].acked
    OBVIOUS
  <2>2. acked \in SUBSET Vertex
    BY <1>0, <2>1 DEF PromiseType
  <2>3. CASE \/ CreateBegin(w, n) \/ DeleteBegin(w, n) \/ LoadBegin(w, n) \/ ReleaseBegin(w, n)
             \/ FlushBegin(w, n) \/ CloseCollection(w, n)
    <3>1. \/ promise' = promise \/ promise' = [promise EXCEPT ![n] = NoPromise]
          \/ promise' = [promise EXCEPT ![n].calls = {}] \/ promise' = [promise EXCEPT ![n].saving = acked]
          \/ promise' = [promise EXCEPT ![n] = [@ EXCEPT !.calls = {}, !.saving = acked]]
      BY <2>1, <2>3 DEF CreateBegin, DeleteBegin, LoadBegin, ReleaseBegin, FlushBegin, CloseCollection
    <3> QED BY <1>1, <2>2, <3>1, PromiseParts
  <2>4. ASSUME NEW f, SearchBegin(w, n, f) PROVE PromiseIs'
    BY <2>1, <2>2, <2>4, PromiseParts DEF SearchBegin
  <2>5. ASSUME NEW t \in Tags, EdgeRemoveBegin(w, n, t) PROVE PromiseIs'
    <3>1. promise' = [promise EXCEPT ![n] = Withdraws(n, LAMBDA y : y.tag = t)]
      BY <2>5 DEF EdgeRemoveBegin, RemoveBegin
    <3>2. Withdraws(n, LAMBDA y : y.tag = t) \in PromiseType
      BY WithdrawsIs DEF Withdraws, Except
    <3> QED BY <3>1, <3>2, PromisePut
  <2>6. ASSUME NEW id, MultiRemoveBegin(w, n, id) PROVE PromiseIs'
    <3>1. promise' = [promise EXCEPT ![n] = Withdraws(n, LAMBDA y : y.id = id)]
      BY <2>6 DEF MultiRemoveBegin, RemoveBegin
    <3>2. Withdraws(n, LAMBDA y : y.id = id) \in PromiseType
      BY WithdrawsIs DEF Withdraws, Except
    <3> QED BY <3>1, <3>2, PromisePut
  <2>7. ASSUME NEW id, NEW t, ChangeBegin(w, n, id, t) PROVE PromiseIs'
    <3> DEFINE q == Withdraws(n, LAMBDA y : y.id = id)
               stop == \/ \E v \in OthersOn(w, n) : Collides(v, [id |-> id, tag |-> t])
                       \/ AdminOn(n)
               p == [q EXCEPT !.calls = IF stop THEN @ ELSE @ \cup {w}]
    <3>1. q \in PromiseType
      BY WithdrawsIs DEF Withdraws, Except
    <3>2. promise' = [promise EXCEPT ![n] = p]
      BY <2>7 DEF ChangeBegin
    <3> HIDE DEF q, stop
    <3>3. p \in PromiseType
      BY <3>1 DEF PromiseType
    <3> HIDE DEF p
    <3> QED BY <3>2, <3>3, PromisePut
  <2> QED BY <1>5, <2>3, <2>4, <2>5, <2>6, <2>7 DEF Begin
<1>6. CASE Die
  <2>1. ASSUME NEW n \in Names PROVE [NoPromise EXCEPT !.kept = promise[n].kept] \in PromiseType
    <3>1. promise[n].kept \in SUBSET Vertex
      BY <1>0 DEF PromiseType
    <3> QED BY <3>1 DEF NoPromise, PromiseType
  <2> QED BY <1>6, <2>1 DEF Die, PromiseIs
<1>7. CASE CloseBegin \/ CloseEnd \/ Start \/ UNCHANGED vars
  BY <1>1, <1>7 DEF CloseBegin, CloseEnd, Start, vars
<1> QED BY <1>2, <1>3, <1>4, <1>5, <1>6, <1>7 DEF Next, Crash

-----------------------------------------------------------------------------
(* What is left: the bucket, the flags and the bounds *)

BucketIs == bucket \in [Names -> {NoBucket} \cup Bucket]

\* The bucket stays what it is.
LEMMA BucketStep ==
  ASSUME BucketIs, BucketTyped', [Next]_vars
  PROVE  BucketIs'
<1> USE DEF At
<1>1. ASSUME bucket' = [n \in Names |-> bucket'[n]] PROVE BucketIs'
  <2>1. \A n \in Names : bucket'[n] \in {NoBucket} \cup Bucket
    BY DEF BucketTyped
  <2> QED BY <1>1, <2>1 DEF BucketIs
<1>2. ASSUME bucket' = bucket PROVE BucketIs'
  BY <1>2 DEF BucketIs
<1>3. ASSUME NEW n, NEW b, bucket' = [bucket EXCEPT ![n] = b] PROVE BucketIs'
  <2>1. bucket' = [m \in Names |-> bucket'[m]]
    BY <1>3 DEF BucketIs
  <2> QED BY <1>1, <2>1
<1>4. ASSUME NEW n, NEW o, NEW d, bucket' = [bucket EXCEPT ![n][o] = d] PROVE BucketIs'
  BY <1>3, <1>4
<1>5. ASSUME NEW w \in Workers, AdminStep(w) PROVE BucketIs'
  <2>1. PICK n : n = work[w].name
    OBVIOUS
  <2>2. CASE SaveMeta(w) \/ SaveVertexPut(w) \/ SaveInvertedPut(w)
    <3>1. bucket' = bucket \/ \E o, d : bucket' = [bucket EXCEPT ![n][o] = d]
      BY <2>1, <2>2 DEF SaveMeta, SaveVertexPut, SaveInvertedPut, PutObject
    <3> QED BY <1>2, <1>4, <3>1
  <2>3. CASE CreateUndoBucket(w) \/ DeleteBucket(w) \/ CreateBucket(w)
    <3>1. bucket' = bucket \/ \E b : bucket' = [bucket EXCEPT ![n] = b]
      BY <2>1, <2>3 DEF CreateUndoBucket, DeleteBucket, CreateBucket, RemoveBucket
    <3> QED BY <1>2, <1>3, <3>1
  <2>4. ASSUME ~ SaveMeta(w), ~ SaveVertexPut(w), ~ SaveInvertedPut(w), ~ CreateUndoBucket(w),
               ~ DeleteBucket(w), ~ CreateBucket(w)
        PROVE  bucket' = bucket
    BY <1>5, <2>4 DEF AdminStep, CreateSpace, CreateUndoFlags, DestroySpace, SetFlags, DeleteFlags,
                LoadFill, LoadInverted, LoadVertex, ReleaseUnflag, SaveVertexMap, SaveVertexFails, SaveInverted
  <2> QED BY <1>2, <2>2, <2>3, <2>4
<1>6. ASSUME NEW w \in Workers, ChangeStep(w) PROVE bucket' = bucket
  BY <1>6 DEF ChangeStep, Enter, ChangeColumn, ChangePost, ChangePanics, ChangeStore, RemoveColumn, RemoveSearch,
         RemoveNext, RemoveLock, RemoveFindColumn, RemovePosting, RemoveColumnShard, RemoveErase,
         MultiRemove, UnchangedByIndex
<1>7. ASSUME NEW w \in Workers, SearchStep(w) PROVE bucket' = bucket
  BY <1>7 DEF SearchStep, SearchEnter, SearchColumn, SearchFilter, SearchMap, SearchAnswer, SearchEnd,
              SearchFails, SearchKeepsLock, SearchPanics, SearchReturn, Die, UnchangedByIndex
<1>8. ASSUME NEW w \in Workers, NEW n \in Names, Begin(w, n) PROVE bucket' = bucket
  BY <1>8 DEF Begin, CreateBegin, DeleteBegin, LoadBegin, ReleaseBegin, FlushBegin, CloseCollection,
              EdgeRemoveBegin, MultiRemoveBegin, RemoveBegin, SearchBegin, ChangeBegin
<1>9. CASE CloseBegin \/ CloseEnd \/ Crash \/ Start \/ UNCHANGED vars
  BY <1>2, <1>9 DEF CloseBegin, CloseEnd, Crash, Die, Start, vars
<1> QED BY <1>2, <1>5, <1>6, <1>7, <1>8, <1>9 DEF Next

FlagsAre == /\ process \in {"up", "closing", "down"} /\ exists \subseteq Names /\ loaded \subseteq Names
            /\ torn \subseteq Names
            /\ count \in [admin : 0 .. MaxAdmin, changes : 0 .. MaxChanges, starts : 1 .. MaxStarts]

\* And so do the flags and the bounds.
LEMMA FlagsStep ==
  ASSUME TypeInv, FlagsAre, [Next]_vars
  PROVE  FlagsAre'
<1> USE DEF At, flags
<1>0. {MaxAdmin, MaxChanges, MaxStarts} \subseteq Nat
  BY VectorStoresAssumption
<1>1. ASSUME NEW w \in Workers, AdminStep(w) PROVE FlagsAre'
  <2>1. work[w].name \in Names
    BY <1>1, AdminPledges
  <2>2. process' = process /\ torn' = torn /\ count' = count
    BY <1>1 DEF AdminStep, CreateBucket, CreateSpace, CreateUndoBucket, CreateUndoFlags, DestroySpace, SetFlags,
                DeleteFlags, DeleteBucket, LoadFill, LoadInverted, LoadVertex, ReleaseUnflag, SaveMeta,
                SaveVertexMap, SaveVertexFails, SaveVertexPut, SaveInverted, SaveInvertedPut
  <2>3. exists' \subseteq exists \cup {work[w].name} /\ loaded' \subseteq loaded \cup {work[w].name}
    <3>1. CASE SaveVertexPut(w) \/ SaveInvertedPut(w)
      <4>1. (Saved(w) \/ UNCHANGED loaded) /\ exists' = exists /\ work[w].op \in Savers
        BY <3>1 DEF SaveVertexPut, SaveInvertedPut
      <4> QED BY <4>1 DEF Saved, Savers
    <3>2. CASE SetFlags(w) \/ CreateUndoFlags(w) \/ DeleteFlags(w) \/ ReleaseUnflag(w)
      BY <3>2 DEF SetFlags, CreateUndoFlags, DeleteFlags, DestroyFlags, ReleaseUnflag
    <3>3. ASSUME ~ SaveVertexPut(w), ~ SaveInvertedPut(w), ~ SetFlags(w), ~ CreateUndoFlags(w), ~ DeleteFlags(w),
                 ~ ReleaseUnflag(w)
          PROVE  UNCHANGED <<exists, loaded>>
      BY <1>1, <3>3 DEF AdminStep, CreateBucket, CreateSpace, CreateUndoBucket, DestroySpace,
                DeleteBucket, LoadFill, LoadInverted, LoadVertex, SaveMeta,
                SaveVertexMap, SaveVertexFails, SaveInverted
    <3> QED BY <3>1, <3>2, <3>3
  <2> QED BY <2>1, <2>2, <2>3 DEF FlagsAre
<1>2. ASSUME NEW w \in Workers, ChangeStep(w) PROVE FlagsAre'
  <2>1. work[w].name \in Names
    BY <1>2, VertexPledges
  <2>2. UNCHANGED <<process, exists, loaded, count>> /\ torn' \subseteq torn \cup {work[w].name}
    BY <1>2 DEF ChangeStep, Enter, ChangeColumn, ChangePost, ChangePanics, ChangeStore, RemoveColumn, RemoveSearch,
         RemoveNext, RemoveLock, RemoveFindColumn, RemovePosting, RemoveColumnShard, RemoveErase,
         MultiRemove, UnchangedByIndex
  <2> QED BY <2>1, <2>2 DEF FlagsAre
<1>3. ASSUME NEW w \in Workers, SearchStep(w) PROVE FlagsAre'
  <2>1. \/ UNCHANGED <<process, exists, loaded, count, torn>>
        \/ process' = "down" /\ exists' = {} /\ loaded' = {} /\ UNCHANGED <<count, torn>>
    BY <1>3 DEF SearchStep, SearchEnter, SearchColumn, SearchFilter, SearchMap, SearchAnswer, SearchEnd,
              SearchFails, SearchKeepsLock, SearchPanics, SearchReturn, Die, Forget, UnchangedByIndex
  <2> QED BY <2>1 DEF FlagsAre
<1>4. ASSUME NEW w \in Workers, NEW n \in Names, Begin(w, n) PROVE FlagsAre'
  <2>1. UNCHANGED <<process, exists, torn>> /\ loaded' \subseteq loaded
    BY <1>4 DEF Begin, CreateBegin, DeleteBegin, LoadBegin, ReleaseBegin, FlushBegin, CloseCollection,
              EdgeRemoveBegin, MultiRemoveBegin, RemoveBegin, SearchBegin, ChangeBegin
  <2>2. \/ count' = count
        \/ count.admin < MaxAdmin /\ count' = [count EXCEPT !.admin = @ + 1]
        \/ count.changes < MaxChanges /\ count' = [count EXCEPT !.changes = @ + 1]
    BY <1>4 DEF Begin, CreateBegin, DeleteBegin, LoadBegin, ReleaseBegin, FlushBegin, CloseCollection,
              EdgeRemoveBegin, MultiRemoveBegin, RemoveBegin, SearchBegin, ChangeBegin, BeginAdmin, BeginChange
  <2> QED BY <1>0, <2>1, <2>2 DEF FlagsAre
<1>5. CASE CloseBegin \/ CloseEnd \/ Crash \/ UNCHANGED vars
  BY <1>5 DEF CloseBegin, CloseEnd, Crash, Die, Forget, vars, FlagsAre
<1>6. CASE Start
  <2>1. /\ process' = "up" /\ exists' \subseteq Names /\ UNCHANGED <<loaded, torn>>
        /\ count.starts < MaxStarts /\ count' = [count EXCEPT !.starts = @ + 1]
    BY <1>6 DEF Start
  <2> QED BY <1>0, <2>1 DEF FlagsAre
<1> QED BY <1>1, <1>2, <1>3, <1>4, <1>5, <1>6 DEF Next

-----------------------------------------------------------------------------
(* The theorem *)

\* Types in full.
FullInv == TypeInv /\ WorkIs /\ LeakedIs /\ PromiseIs /\ BucketIs /\ FlagsAre /\ mode \in Modes

\* They say what TypeOK does.
LEMMA FullTypes ==
  ASSUME FullInv
  PROVE  TypeOK
<1> USE DEF FullInv
<1>1. spaces \in Seq([described : BOOLEAN, ready : BOOLEAN, indexed : BOOLEAN, column : 0 .. Len(shards),
                      vertices : SUBSET Vertex, leaked : SUBSET (0 .. MapShards + Len(shards))])
  <2> DEFINE T == [described : BOOLEAN, ready : BOOLEAN, indexed : BOOLEAN, column : 0 .. Len(shards),
                   vertices : SUBSET Vertex, leaked : SUBSET (0 .. MapShards + Len(shards))]
  <2>1. ASSUME NEW i \in 1 .. Len(spaces) PROVE spaces[i] \in T
    <3>1. spaces[i] \in SpaceType /\ Len(shards) \in Nat
      BY MemoryTyped
    <3>2. spaces[i].column <= Len(shards) /\ spaces[i].leaked \subseteq 0 .. MapShards + Len(shards)
      BY DEF TypeInv, Bounds, Column, LeakedIs
    <3> QED BY <3>1, <3>2 DEF SpaceType
  <2>2. spaces \in Seq(SpaceType)
    BY DEF TypeInv, SpacesTyped
  <2> HIDE DEF T
  <2>3. spaces \in Seq(T)
    BY <2>1, <2>2
  <2> QED BY <2>3 DEF T
<1>2. space \in [Names -> 0 .. Len(spaces)] /\ shards \in Seq(SUBSET Vertex) /\ lastId \in 0 .. MaxIds
  BY DEF TypeInv, SpacesTyped, ShardsTyped
<1>3. work \in [Workers -> {Idle} \cup Activity]
  BY DEF WorkIs, Doing
<1> QED BY <1>1, <1>2, <1>3 DEF TypeOK, PromiseIs, PromiseType, BucketIs, Bucket, FlagsAre

\* They hold at the start, ...
LEMMA FullInit ==
  ASSUME Init
  PROVE  FullInv
<1>1. TypeInv
  BY TypeInit
<1>2. WorkIs /\ LeakedIs /\ BucketIs
  BY DEF Init, WorkIs, LeakedIs, BucketIs
<1>3. PromiseIs
  BY DEF Init, PromiseIs, PromiseType, NoPromise
<1>4. FlagsAre /\ mode \in Modes
  BY VectorStoresAssumption DEF Init, FlagsAre
<1> QED BY <1>1, <1>2, <1>3, <1>4 DEF FullInv

\* ... and in every step.
LEMMA FullStep ==
  ASSUME NoRecord, IsFiniteSet(Tags), Tags # {}, FullInv, [Next]_vars
  PROVE  FullInv'
<1>1. TypeInv' /\ mode' = mode
  BY TypeStep DEF FullInv
<1>2. WorkIs' /\ LeakedIs' /\ PromiseIs' /\ FlagsAre'
  BY DoingStep, LeakedStep, PromiseStep, FlagsStep DEF FullInv
<1>3. BucketIs'
  BY <1>1, BucketStep DEF FullInv, TypeInv
<1> QED BY <1>1, <1>2, <1>3 DEF FullInv

\* Every variable of edge and of experimental has the type its code gives it: no
\* step leaves the types, a search of any number of maps and of any vertices too.
THEOREM StoresTypes == NoRecord /\ IsFiniteSet(Tags) /\ Tags # {} /\ Spec => []TypeOK
<1> SUFFICES ASSUME NoRecord, IsFiniteSet(Tags), Tags # {} PROVE Spec => []TypeOK
  OBVIOUS
<1>1. Init => FullInv
  BY FullInit
<1>2. FullInv /\ [Next]_vars => FullInv'
  BY FullStep
<1>3. FullInv => TypeOK
  BY FullTypes
<1> QED BY <1>1, <1>2, <1>3, PTL DEF Spec

=============================================================================
