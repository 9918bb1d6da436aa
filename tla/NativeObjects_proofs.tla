------------------------- MODULE NativeObjects_proofs -------------------------
(***************************************************************************)
(* Proofs about the ownership of native objects, for any number of places, *)
(* any bound on the objects of an area and any choice of areas: however    *)
(* the calls of an area and the drops of handles follow each other, what a *)
(* drop releases is there, has not been released or moved, and is held by  *)
(* nobody.                                                                 *)
(***************************************************************************)
EXTENDS NativeObjects, FiniteSetTheorems, SequenceTheorems, WellFoundedInduction, TLAPS

(***************************************************************************)
(* The inductive invariant                                                 *)
(***************************************************************************)
\* The wrapper types and the native objects without one, by the area that has them first.
Kinds ==
    {"free", "env", "threading", "manager", "logger", "envoptions", "memory", "kvps",
     "allocator", "arena", "call", "allocation", "stats", "epdevice", "hwdevice", "details",
     "syncstream", "importer", "extmem", "semaphore", "value", "prepacked", "lora",
     "initializerinfo", "spool", "initializer", "options", "provideroptions", "slot", "handle",
     "session", "metadata", "subgraph", "runbuilder", "runoptions", "run", "copy", "data",
     "storage", "tensorbuffer", "tensor", "outputvalue", "sparse", "stringtensor",
     "allocatedtensor", "runtimetype", "devicevalue", "binding", "names", "cudastream",
     "cudaconfig", "streamconfig", "entries", "stranded", "shapeinfo", "typeview", "typeinfo",
     "valueinfo", "attr", "node", "graph", "model", "compileoptions", "output", "domain",
     "kernel", "status", "kernelinfo", "op", "temporary", "defbuilder", "kerneldef", "schema",
     "event", "constraint", "factory", "hardware", "authoreddevice", "ep", "buffers", "lane",
     "staticlane", "allocatedlane", "collecting", "servinglane", "wholelane", "runtime",
     "static", "deviceio", "dynamic"}

Records ==
    [kind : Kinds, handles : Nat, guards : Seq(Ids), uses : SUBSET Ids, borrows : SUBSET Ids,
     calls : SUBSET Ids, native : {"live", "none"}]
Tasks == [do : {"release", "unref"}, of : Ids]

\* The kinds a call frees, freezes or renames where they are: nothing guards them.
InPlace ==
    {"free", "runbuilder", "envoptions", "allocation", "cudaconfig", "streamconfig", "valueinfo",
     "node", "tensor", "graph", "shapeinfo", "attr", "tensorbuffer"}

\* A free place is empty, a guard keeps an object, and the wrappers whose guards are read
\* by their position have them: a device its environment, a dynamic runtime its session.
WellFormed(h, o) ==
    /\ o \in Records
    /\ o.kind = "free" => o = Free
    /\ \A k \in DOMAIN o.guards : h[o.guards[k]].kind \notin InPlace
    /\ o.kind = "epdevice" => o.guards # <<>>
    /\ o.kind = "dynamic" => o.guards # <<>> /\ h[o.guards[Len(o.guards)]].kind = "session"

HeapOK(h) == h \in [Ids -> Records] /\ \A i \in Ids : WellFormed(h, h[i])

\* No object guards i.
Unguarded(h, i) == \A j \in Ids : \A k \in DOMAIN h[j].guards : h[j].guards[k] # i

\* What a drop still has to do concerns objects; one that is to be released has no handle
\* and no guard, and occurs once.
TasksOK(h, tasks) ==
    /\ tasks \in Seq(Tasks)
    /\ \A k \in DOMAIN tasks : h[tasks[k].of].kind # "free"
    /\ \A k \in DOMAIN tasks : tasks[k].do = "release" =>
           /\ h[tasks[k].of].handles = 0 /\ Unguarded(h, tasks[k].of)
           /\ \A n \in DOMAIN tasks : tasks[n].of = tasks[k].of => n = k

IInv == area \in Areas /\ HeapOK(heap) /\ TasksOK(heap, dropping)

(***************************************************************************)
(* Places for new objects                                                  *)
(***************************************************************************)
LEMMA ObjectsFinite == IsFiniteSet(Objects) /\ Cardinality(Objects) \in Nat
<1>1. Objects \subseteq Ids
  BY DEF Objects
<1> QED
  BY <1>1, IdsAssumption, FS_Subset, FS_CardinalityType

\* Where there is room for n objects, fewer than n places taken leave one that is free.
LEMMA FreePlace ==
  ASSUME area \in Areas, NEW n \in Nat \ {0}, Room(n),
         NEW T, IsFiniteSet(T), Cardinality(T) < n
  PROVE  \E i \in Ids : i \notin Objects \cup T
<1>1. Cardinality(Objects) \in Nat /\ Cardinality(T) \in Nat /\ Cardinality(Ids) \in Nat
  BY ObjectsFinite, IdsAssumption, FS_CardinalityType
<1>2. Cardinality(Objects) + n <= Cardinality(Ids)
  <2>1. MaxObjects[area] \in 1..Cardinality(Ids)
    BY MaxObjectsAssumption
  <2> QED
    BY <1>1, <2>1 DEF Room
<1>3. /\ IsFiniteSet(Objects \cup T)
      /\ Cardinality(Objects \cup T) = Cardinality(Objects) + Cardinality(T) - Cardinality(Objects \cap T)
  BY ObjectsFinite, FS_Union
<1>4. Cardinality(Objects \cap T) \in Nat
  BY ObjectsFinite, FS_Intersection, FS_CardinalityType
<1>5. Cardinality(Objects \cup T) < Cardinality(Ids)
  BY <1>1, <1>2, <1>3, <1>4
<1>6. SUFFICES ASSUME Ids \subseteq Objects \cup T PROVE FALSE
  OBVIOUS
<1>7. Cardinality(Ids) <= Cardinality(Objects \cup T)
  BY <1>3, <1>6, FS_Subset
<1> QED
  BY <1>1, <1>3, <1>5, <1>7, FS_CardinalityType

LEMMA RoomForLess == ASSUME NEW n \in Nat, NEW m \in 0..n, area \in Areas, Room(n) PROVE Room(m)
<1>1. MaxObjects[area] \in Int /\ Cardinality(Objects) \in Nat
  BY ObjectsFinite, MaxObjectsAssumption, IdsAssumption, FS_CardinalityType
<1> QED
  BY <1>1 DEF Room

LEMMA NewIsFree ==
  ASSUME area \in Areas, Room(1)
  PROVE  New \in Ids /\ heap[New].kind = "free"
<1>1. IsFiniteSet({}) /\ Cardinality({}) = 0
  BY FS_EmptySet
<1>2. \E i \in Ids : i \notin Objects \cup {}
  BY <1>1, FreePlace, 1 \in Nat \ {0}
<1>3. New \in Ids /\ New \notin Objects
  BY <1>2 DEF New
<1> QED
  BY <1>3 DEF Objects

LEMMA New2IsFree ==
  ASSUME area \in Areas, Room(2)
  PROVE  /\ New \in Ids /\ heap[New].kind = "free"
         /\ New2 \in Ids /\ heap[New2].kind = "free" /\ New2 # New
<1>1. Room(1)
  BY RoomForLess, 1 \in 0..2, 2 \in Nat
<1>2. IsFiniteSet({New}) /\ Cardinality({New}) = 1
  BY FS_Singleton
<1>3. \E i \in Ids : i \notin Objects \cup {New}
  BY <1>2, FreePlace, 2 \in Nat \ {0}
<1>4. New2 \in Ids /\ New2 \notin Objects /\ New2 # New
  BY <1>3 DEF New2
<1> QED
  BY <1>1, <1>4, NewIsFree DEF Objects

LEMMA New3IsFree ==
  ASSUME area \in Areas, Room(3)
  PROVE  /\ New \in Ids /\ heap[New].kind = "free"
         /\ New2 \in Ids /\ heap[New2].kind = "free" /\ New2 # New
         /\ New3 \in Ids /\ heap[New3].kind = "free" /\ New3 # New /\ New3 # New2
<1>1. Room(2)
  BY RoomForLess, 2 \in 0..3, 3 \in Nat
<1>2. IsFiniteSet({New, New2}) /\ Cardinality({New, New2}) = 2
  <2>1. IsFiniteSet({New}) /\ Cardinality({New}) = 1 /\ New2 \notin {New}
    BY <1>1, New2IsFree, FS_Singleton
  <2>2. {New, New2} = {New} \cup {New2}
    OBVIOUS
  <2> QED
    BY <2>1, <2>2, FS_AddElement
<1>3. \E i \in Ids : i \notin Objects \cup {New, New2}
  BY <1>2, FreePlace, 3 \in Nat \ {0}
<1>4. New3 \in Ids /\ New3 \notin Objects /\ New3 # New /\ New3 # New2
  BY <1>3 DEF New3
<1> QED
  BY <1>1, <1>4, New2IsFree DEF Objects

(***************************************************************************)
(* Counting references                                                     *)
(***************************************************************************)
LEMMA OccurrencesOnce ==
  ASSUME NEW S, NEW s \in Seq(S), NEW i
  PROVE  /\ Occurrences(i, s) \in Nat
         /\ Occurrences(i, s) = 0 <=> \A k \in DOMAIN s : s[k] # i
         /\ (\A k, n \in DOMAIN s : s[k] = s[n] => k = n) => Occurrences(i, s) \in {0, 1}
<1> DEFINE K == {k \in DOMAIN s : s[k] = i}
<1>1. IsFiniteSet(K)
  <2>1. Len(s) \in Nat /\ 1 \in Int /\ DOMAIN s = 1..Len(s)
    OBVIOUS
  <2>2. IsFiniteSet(1..Len(s))
    BY <2>1, FS_Interval
  <2> QED
    BY <2>1, <2>2, FS_Subset
<1>2. Cardinality(K) \in Nat /\ (Cardinality(K) = 0 <=> K = {})
  BY <1>1, FS_CardinalityType, FS_EmptySet
<1>3. ASSUME \A k, n \in DOMAIN s : s[k] = s[n] => k = n PROVE Cardinality(K) \in {0, 1}
  <2>1. CASE K = {}
    BY <2>1, <1>2
  <2>2. CASE K # {}
    <3>1. PICK k : k \in K
      BY <2>2
    <3>2. K = {k}
      BY <3>1, <1>3
    <3> QED
      BY <3>2, FS_Singleton
  <2> QED
    BY <2>1, <2>2
<1> QED
  BY <1>2, <1>3 DEF Occurrences

LEMMA KeepersFinite ==
  ASSUME NEW h, HeapOK(h), NEW i
  PROVE  /\ Cardinality(Keepers(h, i)) \in Nat
         /\ Cardinality(Keepers(h, i)) = 0 <=> Unguarded(h, i)
<1> DEFINE P(j) == {j} \X DOMAIN h[j].guards
           U == UNION {P(j) : j \in Ids}
<1>1. \A j \in Ids : h[j].guards \in Seq(Ids)
  BY DEF HeapOK, Records
<1>2. \A j \in Ids : IsFiniteSet(P(j))
  <2> TAKE j \in Ids
  <2>1. Len(h[j].guards) \in Nat /\ 1 \in Int /\ DOMAIN h[j].guards = 1..Len(h[j].guards)
    BY <1>1
  <2>2. IsFiniteSet(1..Len(h[j].guards))
    BY <2>1, FS_Interval
  <2>3. IsFiniteSet({j})
    BY FS_Singleton
  <2> QED
    BY <2>1, <2>2, <2>3, FS_Product
<1>3. IsFiniteSet({P(j) : j \in Ids})
  <2> DEFINE f == [j \in Ids |-> P(j)]
  <2>1. f \in Surjection(Ids, {P(j) : j \in Ids})
    BY DEF Surjection
  <2> QED
    BY <2>1, IdsAssumption, FS_Surjection
<1>4. IsFiniteSet(U)
  BY <1>2, <1>3, FS_UNION
<1>5. Keepers(h, i) \subseteq U
  BY DEF Keepers
<1>6. IsFiniteSet(Keepers(h, i))
  BY <1>4, <1>5, FS_Subset
<1>7. Keepers(h, i) = {} <=> Unguarded(h, i)
  <2>1. ASSUME Keepers(h, i) = {}, NEW j \in Ids, NEW k \in DOMAIN h[j].guards, h[j].guards[k] = i
        PROVE  FALSE
    <3>1. <<j, k>> \in P(j) /\ P(j) \in {P(m) : m \in Ids}
      OBVIOUS
    <3>2. <<j, k>> \in U
      BY <3>1
    <3>3. <<j, k>> \in Keepers(h, i)
      BY <3>2, <2>1 DEF Keepers
    <3> QED
      BY <3>3, <2>1
  <2>2. ASSUME Unguarded(h, i), NEW p \in Keepers(h, i) PROVE FALSE
    <3>1. p \in U /\ h[p[1]].guards[p[2]] = i
      BY <2>2 DEF Keepers
    <3>2. PICK j \in Ids : p \in P(j)
      BY <3>1
    <3>3. p[1] = j /\ p[2] \in DOMAIN h[j].guards
      BY <3>2
    <3> QED
      BY <3>1, <3>3, <2>2 DEF Unguarded
  <2> QED
    BY <2>1, <2>2 DEF Unguarded
<1> QED
  BY <1>6, <1>7, FS_CardinalityType, FS_EmptySet

\* An object is unreferenced exactly when it has no handle, guard or pending reference.
LEMMA StrongZero ==
  ASSUME NEW h, HeapOK(h), NEW tasks \in Seq(Tasks), NEW i \in Ids
  PROVE  /\ Strong(h, tasks, i) = 0 <=>
                h[i].handles = 0 /\ Unguarded(h, i) /\ \A k \in DOMAIN tasks : tasks[k] # Unref(i)
         /\ Strong(h, tasks, i) = 1 /\ h[i].handles > 0 =>
                h[i].handles = 1 /\ Unguarded(h, i) /\ \A k \in DOMAIN tasks : tasks[k] # Unref(i)
<1>1. h[i].handles \in Nat
  BY DEF HeapOK, Records
<1>2. /\ Occurrences(Unref(i), tasks) \in Nat
      /\ Occurrences(Unref(i), tasks) = 0 <=> \A k \in DOMAIN tasks : tasks[k] # Unref(i)
  BY OccurrencesOnce
<1> QED
  BY <1>1, <1>2, KeepersFinite DEF Strong

(***************************************************************************)
(* What a call may do to the heap                                          *)
(***************************************************************************)
\* The object at a place is the one before, but for its handles and what it points to.
Same(o, p) == p.kind = o.kind /\ p.guards = o.guards /\ (o = Free => p = Free)

\* Outside C the objects are the same, and what guards may keep stays what it is.
Changed(h, h2, C) ==
    /\ h2 \in [Ids -> Records]
    /\ \A i \in Ids : i \notin C => Same(h[i], h2[i])
    /\ \A i \in C : i \in Ids => h[i].kind \in InPlace \/ h2[i].kind = h[i].kind

\* The objects of C are in order, or do not guard i.
Renewed(h2, C) == \A i \in C : i \in Ids => WellFormed(h2, h2[i])
NotGuardedBy(h2, C, i) == \A j \in C : j \in Ids => \A k \in DOMAIN h2[j].guards : h2[j].guards[k] # i

LEMMA KindsKept ==
  ASSUME NEW h, NEW h2, NEW C, Changed(h, h2, C), NEW i \in Ids, h[i].kind \notin InPlace
  PROVE  h2[i].kind = h[i].kind
BY DEF Changed, Same

LEMMA WellFormedKept ==
  ASSUME NEW h, NEW h2, NEW C, Changed(h, h2, C), NEW o, WellFormed(h, o)
  PROVE  WellFormed(h2, o)
<1>1. o \in Records /\ o.guards \in Seq(Ids)
  BY DEF WellFormed, Records
<1>2. \A k \in DOMAIN o.guards : o.guards[k] \in Ids /\ h2[o.guards[k]].kind = h[o.guards[k]].kind
  <2> TAKE k \in DOMAIN o.guards
  <2>1. o.guards[k] \in Ids /\ h[o.guards[k]].kind \notin InPlace
    BY <1>1 DEF WellFormed
  <2> QED
    BY <2>1, KindsKept
<1>3. o.guards # <<>> => Len(o.guards) \in DOMAIN o.guards
  BY <1>1
<1> QED
  BY <1>2, <1>3 DEF WellFormed

LEMMA ChangedOK ==
  ASSUME NEW h, NEW h2, NEW C, HeapOK(h), Changed(h, h2, C), Renewed(h2, C)
  PROVE  HeapOK(h2)
<1>1. h2 \in [Ids -> Records]
  BY DEF Changed
<1>2. ASSUME NEW i \in Ids, i \notin C PROVE WellFormed(h2, h2[i])
  <2>1. WellFormed(h2, h[i])
    BY WellFormedKept DEF HeapOK
  <2>2. Same(h[i], h2[i]) /\ h2[i] \in Records
    BY <1>1, <1>2 DEF Changed
  <2> QED
    BY <2>1, <2>2 DEF WellFormed, Same
<1> QED
  BY <1>1, <1>2 DEF HeapOK, Renewed

\* Nothing guards a free place, or an object that a call may change where it is; and that
\* stays so while no object is given the guard.
LEMMA InPlaceUnguarded ==
  ASSUME NEW h, HeapOK(h), NEW i \in Ids, h[i].kind \in InPlace
  PROVE  Unguarded(h, i)
BY DEF HeapOK, WellFormed, Unguarded

LEMMA StaysUnguarded ==
  ASSUME NEW h, NEW h2, NEW C, Changed(h, h2, C), NEW i, Unguarded(h, i),
         NotGuardedBy(h2, C, i)
  PROVE  Unguarded(h2, i)
BY DEF NotGuardedBy, Changed, Same, Unguarded

(***************************************************************************)
(* Handles passed by value                                                 *)
(***************************************************************************)
Taken(s) ==
    /\ s \in Seq(Ids)
    /\ \A k \in DOMAIN s : heap[s[k]].handles > 0
    /\ \A k, n \in DOMAIN s : s[k] = s[n] => k = n

LEMMA TakenNone == Taken(<<>>)
BY DEF Taken

LEMMA TakenOne == ASSUME NEW i \in Ids, heap[i].handles > 0 PROVE Taken(<<i>>)
BY DEF Taken

LEMMA TakenTwo ==
  ASSUME NEW i \in Ids, heap[i].handles > 0, NEW j \in Ids, heap[j].handles > 0, i # j
  PROVE  Taken(<<i, j>>)
BY DEF Taken

LEMMA TakenObjects ==
  ASSUME HeapOK(heap), NEW s, Taken(s), NEW k \in DOMAIN s
  PROVE  s[k] \in Ids /\ heap[s[k]].kind # "free"
<1>1. s[k] \in Ids /\ heap[s[k]].handles > 0
  BY DEF Taken
<1>2. heap[s[k]].kind = "free" => heap[s[k]].handles = 0
  BY <1>1 DEF HeapOK, WellFormed, Free
<1> QED
  BY <1>1, <1>2

LEMMA WithoutOK ==
  ASSUME HeapOK(heap), NEW s, Taken(s)
  PROVE  /\ Without(s) \in [Ids -> Records]
         /\ \A i \in Ids : /\ Same(heap[i], Without(s)[i])
                           /\ Without(s)[i].uses = heap[i].uses
<1> SUFFICES ASSUME NEW i \in Ids
             PROVE  /\ Without(s)[i] \in Records /\ Same(heap[i], Without(s)[i])
                    /\ Without(s)[i].uses = heap[i].uses
  BY DEF Without
<1>1. heap[i] \in Records
  BY DEF HeapOK
<1>2. Without(s)[i] = [heap[i] EXCEPT !.handles = heap[i].handles - Occurrences(i, s)]
  BY DEF Without
<1>3. /\ Occurrences(i, s) \in {0, 1}
      /\ Occurrences(i, s) = 0 <=> \A k \in DOMAIN s : s[k] # i
  BY OccurrencesOnce DEF Taken
<1>4. Occurrences(i, s) = 1 => heap[i].handles > 0
  BY <1>3 DEF Taken
<1>5. heap[i].handles - Occurrences(i, s) \in Nat
  BY <1>1, <1>3, <1>4 DEF Records
<1>6. heap[i] = Free => Occurrences(i, s) = 0
  BY <1>3, <1>4 DEF Free
<1>7. heap[i] = Free => Without(s)[i] = Free
  BY <1>2, <1>6 DEF Free
<1> QED
  BY <1>1, <1>2, <1>5, <1>7 DEF Records, Same

\* The references a failed call drops.
LEMMA UnrefsOK ==
  ASSUME NEW s \in Seq(Ids)
  PROVE  /\ Unrefs(s) \in Seq(Tasks) /\ DOMAIN Unrefs(s) = DOMAIN s /\ Len(Unrefs(s)) = Len(s)
         /\ \A k \in DOMAIN s : Unrefs(s)[k].do = "unref" /\ Unrefs(s)[k].of = s[k]
<1>1. \A k \in DOMAIN s : Unref(s[k]) \in Tasks /\ Unref(s[k]).do = "unref" /\ Unref(s[k]).of = s[k]
  BY DEF Unref, Tasks
<1>2. Unrefs(s) = [k \in 1..Len(s) |-> Unref(s[k])]
  BY DEF Unrefs
<1>3. Unrefs(s) \in [1..Len(s) -> Tasks] /\ Len(s) \in Nat
  BY <1>1, <1>2
<1>4. Unrefs(s) \in Seq(Tasks) /\ Len(Unrefs(s)) = Len(s)
  BY <1>3
<1> QED
  BY <1>1, <1>2, <1>4

(***************************************************************************)
(* What a drop has to do                                                   *)
(***************************************************************************)
LEMMA NoTasks == ASSUME NEW h PROVE TasksOK(h, <<>>)
BY DEF TasksOK

LEMMA UnrefTasks ==
  ASSUME NEW h, NEW s \in Seq(Ids), \A k \in DOMAIN s : h[s[k]].kind # "free"
  PROVE  TasksOK(h, Unrefs(s))
BY UnrefsOK DEF TasksOK

\* One more object is released before the rest is done.
Releasable(h, i) == i \in Ids /\ h[i].kind # "free" /\ h[i].handles = 0 /\ Unguarded(h, i)

Absent(tasks, i) == \A k \in DOMAIN tasks : tasks[k].of # i

LEMMA ReleaseFirst ==
  ASSUME NEW h, NEW tasks, TasksOK(h, tasks), NEW i, Releasable(h, i),
         Absent(tasks, i)
  PROVE  TasksOK(h, <<Release(i)>> \o tasks)
<1> DEFINE all == <<Release(i)>> \o tasks
<1>1. Release(i) \in Tasks /\ Release(i).do = "release" /\ Release(i).of = i
  BY DEF Release, Tasks, Releasable
<1>2. tasks \in Seq(Tasks)
  BY DEF TasksOK
<1>3. /\ all \in Seq(Tasks) /\ Len(all) = Len(tasks) + 1 /\ all[1] = Release(i)
      /\ \A k \in 2..Len(all) : k - 1 \in DOMAIN tasks /\ all[k] = tasks[k - 1]
  <2> DEFINE one == <<Release(i)>>
  <2>1. one \in Seq(Tasks) /\ Len(one) = 1 /\ one[1] = Release(i)
    BY <1>1
  <2>2. Len(tasks) \in Nat /\ DOMAIN tasks = 1..Len(tasks)
    BY <1>2
  <2> HIDE DEF one
  <2>3. /\ one \o tasks \in Seq(Tasks) /\ Len(one \o tasks) = Len(one) + Len(tasks)
        /\ \A k \in 1..(Len(one) + Len(tasks)) :
               (one \o tasks)[k] = IF k <= Len(one) THEN one[k] ELSE tasks[k - Len(one)]
    BY <1>2, <2>1, ConcatProperties
  <2> DEFINE both == one \o tasks
  <2>4. /\ both \in Seq(Tasks) /\ Len(both) = Len(one) + Len(tasks)
        /\ \A k \in 1..(Len(one) + Len(tasks)) :
               both[k] = IF k <= Len(one) THEN one[k] ELSE tasks[k - Len(one)]
    BY <2>3
  <2> HIDE DEF both
  <2>5. Len(both) = Len(tasks) + 1 /\ Len(one) + Len(tasks) = Len(both)
    BY <2>1, <2>2, <2>4
  <2>6. both[1] = Release(i)
    <3>1. 1 \in 1..(Len(one) + Len(tasks)) /\ 1 <= Len(one)
      BY <2>1, <2>2
    <3> QED
      BY <2>1, <2>4, <3>1
  <2>7. \A k \in 2..Len(both) : k - 1 \in DOMAIN tasks /\ both[k] = tasks[k - 1]
    <3> TAKE k \in 2..Len(both)
    <3>1. k \in 1..(Len(one) + Len(tasks)) /\ ~(k <= Len(one)) /\ k - 1 \in 1..Len(tasks)
      BY <2>1, <2>2, <2>5
    <3>2. both[k] = tasks[k - Len(one)]
      BY <2>4, <3>1
    <3>3. k - Len(one) = k - 1
      BY <2>1
    <3> QED
      BY <2>2, <3>1, <3>2, <3>3
  <2> QED
    BY <2>4, <2>5, <2>6, <2>7 DEF both, one
<1>4. DOMAIN all = 1..Len(all) /\ Len(all) \in Nat
  BY <1>3
<1>5. \A k \in DOMAIN all : k = 1 \/ k \in 2..Len(all)
  BY <1>4
<1> HIDE DEF all
<1>6. \A k \in DOMAIN all : h[all[k].of].kind # "free"
  <2> TAKE k \in DOMAIN all
  <2>1. CASE k = 1
    BY <1>1, <1>3, <2>1 DEF Releasable
  <2>2. CASE k \in 2..Len(all)
    <3>1. k - 1 \in DOMAIN tasks /\ all[k] = tasks[k - 1]
      BY <1>3, <2>2
    <3>2. h[tasks[k - 1].of].kind # "free"
      BY <3>1 DEF TasksOK
    <3> QED
      BY <3>1, <3>2
  <2> QED
    BY <1>5, <2>1, <2>2
<1>7. ASSUME NEW k \in DOMAIN all, all[k].do = "release"
      PROVE  /\ h[all[k].of].handles = 0 /\ Unguarded(h, all[k].of)
             /\ \A n \in DOMAIN all : all[n].of = all[k].of => n = k
  <2>1. CASE k = 1
    BY <1>1, <1>3, <1>5, <2>1 DEF Releasable, Absent
  <2>2. CASE k \in 2..Len(all)
    <3>1. k - 1 \in DOMAIN tasks /\ all[k] = tasks[k - 1]
      BY <1>3, <2>2
    <3>2. /\ h[all[k].of].handles = 0 /\ Unguarded(h, all[k].of) /\ all[k].of # i
          /\ \A n \in DOMAIN tasks : tasks[n].of = all[k].of => n = k - 1
      BY <3>1, <1>7 DEF TasksOK, Absent
    <3>3. ASSUME NEW n \in DOMAIN all, all[n].of = all[k].of PROVE n = k
      <4>1. n # 1
        BY <3>2, <3>3, <1>1, <1>3
      <4>2. n \in 2..Len(all) /\ n - 1 \in DOMAIN tasks /\ all[n] = tasks[n - 1]
        BY <4>1, <1>3, <1>5
      <4>3. n - 1 = k - 1
        BY <3>2, <3>3, <4>2
      <4> QED
        BY <4>2, <4>3, <2>2, <1>4
    <3> QED
      BY <3>2, <3>3
  <2> QED
    BY <2>1, <2>2, <1>5
<1> QED
  BY <1>3, <1>6, <1>7 DEF TasksOK, all

LEMMA ReleaseOnly == ASSUME NEW h, NEW i, Releasable(h, i) PROVE TasksOK(h, <<Release(i)>>)
<1>0. Absent(<<>>, i)
  BY DEF Absent
<1>1. TasksOK(h, <<Release(i)>> \o <<>>)
  BY <1>0, NoTasks, ReleaseFirst
<1>2. <<Release(i)>> \o <<>> = <<Release(i)>>
  OBVIOUS
<1> QED
  BY <1>1, <1>2

(***************************************************************************)
(* The forms of a call                                                     *)
(***************************************************************************)
Calling == IInv /\ dropping = <<>>

\* An object that a call may create.
Fresh(o) == WellFormed(heap, o) /\ o.kind # "free"

\* What guards may name.
Guardable(s) == s \in Seq(Ids) /\ \A k \in DOMAIN s : heap[s[k]].kind \notin InPlace

Plain(kind) == kind \in Kinds /\ kind \notin {"free", "epdevice", "dynamic"}

LEMMA GuardableNone == Guardable(<<>>)
BY DEF Guardable

LEMMA GuardableOne == ASSUME NEW i \in Ids, heap[i].kind \notin InPlace PROVE Guardable(<<i>>)
BY DEF Guardable

LEMMA GuardableOf == ASSUME HeapOK(heap), NEW i \in Ids PROVE Guardable(heap[i].guards)
BY DEF HeapOK, WellFormed, Records, Guardable

LEMMA GuardableBoth ==
  ASSUME NEW s, Guardable(s), NEW t, Guardable(t)
  PROVE  Guardable(s \o t)
<1>1. s \in Seq(Ids) /\ t \in Seq(Ids) /\ s \o t \in Seq(Ids) /\ Len(s \o t) = Len(s) + Len(t)
  BY DEF Guardable
<1>2. \A k \in DOMAIN (s \o t) :
         \/ k \in DOMAIN s /\ (s \o t)[k] = s[k]
         \/ k - Len(s) \in DOMAIN t /\ (s \o t)[k] = t[k - Len(s)]
  BY <1>1
<1> QED
  BY <1>1, <1>2 DEF Guardable

LEMMA ObjectFresh ==
  ASSUME NEW kind, Plain(kind), NEW guards, Guardable(guards), NEW uses \in SUBSET Ids
  PROVE  /\ Fresh(Object(kind, guards, uses)) /\ Fresh(Owned(Object(kind, guards, uses)))
         /\ Object(kind, guards, uses) \in Records
BY DEF Plain, Guardable, Fresh, WellFormed, Object, Owned, Records, InPlace

LEMMA WrapperFresh ==
  ASSUME NEW kind, Plain(kind), NEW guards, Guardable(guards)
  PROVE  Fresh(Wrapper(kind, guards)) /\ Wrapper(kind, guards) \in Records
BY DEF Plain, Guardable, Fresh, WellFormed, Object, Wrapper, Records, InPlace

LEMMA BorrowingFresh ==
  ASSUME NEW o, Fresh(o), NEW b \in SUBSET Ids
  PROVE  Fresh(Borrowing(o, b))
<1>1. Borrowing(o, b).guards = o.guards /\ Borrowing(o, b).kind = o.kind /\ Borrowing(o, b) \in Records
  BY DEF Fresh, WellFormed, Borrowing, Records
<1> QED
  BY <1>1 DEF Fresh, WellFormed

LEMMA OwnedFresh ==
  ASSUME NEW o, Fresh(o)
  PROVE  /\ Fresh(Owned(o)) /\ Owned(o).handles = 0
         /\ Owned(o).guards = o.guards /\ Owned(o).kind = o.kind
<1>1. /\ Owned(o).guards = o.guards /\ Owned(o).kind = o.kind /\ Owned(o) \in Records
      /\ Owned(o).handles = 0
  BY DEF Fresh, WellFormed, Owned, Records
<1> QED
  BY <1>1 DEF Fresh, WellFormed

\* A fresh object at a free place.
LEMMA InstallOK ==
  ASSUME area \in Areas, HeapOK(heap), NEW taken, Taken(taken), Room(1), NEW object, Fresh(object),
         NEW h2, h2 = [Without(taken) EXCEPT ![New] = object]
  PROVE  /\ HeapOK(h2) /\ h2[New] = object /\ Unguarded(h2, New) /\ New \in Ids
         /\ \A k \in DOMAIN taken : h2[taken[k]].kind # "free" /\ taken[k] # New
<1>1. New \in Ids /\ heap[New].kind = "free" /\ heap[New].kind \in InPlace
  BY NewIsFree DEF InPlace
<1>2. h2[New] = object /\ \A i \in Ids : i # New => h2[i] = Without(taken)[i]
  BY <1>1, WithoutOK
<1>3. object \in Records
  BY DEF Fresh, WellFormed
<1>4. Changed(heap, h2, {New})
  <2>1. h2 \in [Ids -> Records]
    BY <1>1, <1>3, WithoutOK
  <2> QED
    BY <1>1, <1>2, <2>1, WithoutOK DEF Changed
<1>5. WellFormed(h2, object)
  BY <1>4, WellFormedKept DEF Fresh
<1>6. HeapOK(h2)
  <2>1. Renewed(h2, {New})
    BY <1>2, <1>5 DEF Renewed
  <2> QED
    BY <1>4, <2>1, ChangedOK
<1>7. Unguarded(h2, New)
  <2>1. Unguarded(heap, New)
    BY <1>1, InPlaceUnguarded
  <2>2. \A k \in DOMAIN object.guards : object.guards[k] # New
    BY <1>1 DEF Fresh, WellFormed
  <2>3. NotGuardedBy(h2, {New}, New)
    BY <1>2, <2>2 DEF NotGuardedBy
  <2> QED
    BY <1>4, <2>1, <2>3, StaysUnguarded
<1>8. \A k \in DOMAIN taken : h2[taken[k]].kind # "free" /\ taken[k] # New
  <2> TAKE k \in DOMAIN taken
  <2>1. taken[k] \in Ids /\ heap[taken[k]].kind # "free"
    BY TakenObjects
  <2> QED
    BY <2>1, <1>1, <1>2, WithoutOK DEF Same
<1> QED
  BY <1>1, <1>2, <1>6, <1>7, <1>8

LEMMA CreatesOK ==
  ASSUME Calling, NEW taken, Taken(taken), NEW object, Fresh(object), Creates(taken, object)
  PROVE  IInv'
<1>1. HeapOK(heap')
  BY InstallOK DEF Calling, IInv, Creates
<1> QED
  BY <1>1, NoTasks DEF Calling, IInv, Creates

LEMMA RefusesOK ==
  ASSUME Calling, NEW taken, Taken(taken), Refuses(taken)
  PROVE  IInv'
<1>1. heap' = Without(taken) /\ dropping' = Unrefs(taken) /\ area' = area
  BY DEF Refuses
<1>2. Changed(heap, Without(taken), {})
  BY WithoutOK DEF Changed, Calling, IInv
<1>3. HeapOK(Without(taken))
  BY <1>2, ChangedOK DEF Calling, IInv, Renewed
<1>4. \A k \in DOMAIN taken : Without(taken)[taken[k]].kind # "free"
  BY TakenObjects, WithoutOK DEF Same, Calling, IInv
<1>5. TasksOK(Without(taken), Unrefs(taken))
  BY <1>4, UnrefTasks DEF Taken
<1> QED
  BY <1>1, <1>3, <1>5 DEF IInv, Calling

LEMMA UndoesOK ==
  ASSUME Calling, NEW taken, Taken(taken), NEW object, Fresh(object), Undoes(taken, object)
  PROVE  IInv'
<1>1. /\ heap' = [Without(taken) EXCEPT ![New] = Owned(object)] /\ dropping' = <<Release(New)>>
      /\ area' = area /\ Room(1)
  BY DEF Undoes
<1>2. Fresh(Owned(object)) /\ Owned(object).handles = 0
  BY OwnedFresh
<1>3. HeapOK(heap') /\ heap'[New] = Owned(object) /\ Unguarded(heap', New) /\ New \in Ids
  BY <1>1, <1>2, InstallOK DEF Calling, IInv
<1>4. Releasable(heap', New)
  BY <1>2, <1>3 DEF Releasable, Fresh
<1> QED
  BY <1>1, <1>3, <1>4, ReleaseOnly DEF IInv, Calling

LEMMA MakeOK ==
  ASSUME Calling, NEW object, Fresh(object), Make(object) \/ MakeOrUndo(object)
  PROVE  IInv'
BY CreatesOK, UndoesOK, TakenNone DEF Make, MakeOrUndo

LEMMA ConsumeOK ==
  ASSUME Calling, NEW taken, Taken(taken), NEW object, Fresh(object), Consume(taken, object)
  PROVE  IInv'
BY CreatesOK, RefusesOK DEF Consume

LEMMA LeaksOK == ASSUME Calling, NEW kind, Leaks(kind) PROVE IInv'
BY DEF Calling, IInv, Leaks

\* An object that changes where it is: nothing new is dropped.
LEMMA UpdateOK ==
  ASSUME Calling, NEW C, Changed(heap, heap', C), Renewed(heap', C), UNCHANGED <<area, dropping>>
  PROVE  IInv'
<1>1. HeapOK(heap')
  BY ChangedOK DEF Calling, IInv
<1> QED
  BY <1>1, NoTasks DEF Calling, IInv

\* Only handles, borrows and uses change.
LEMMA SameOK ==
  ASSUME Calling, heap' \in [Ids -> Records], \A i \in Ids : Same(heap[i], heap'[i]),
         UNCHANGED <<area, dropping>>
  PROVE  IInv'
<1>1. Changed(heap, heap', {}) /\ Renewed(heap', {})
  BY DEF Changed, Renewed
<1> QED
  BY <1>1, UpdateOK

LEMMA FreeFacts == Free \in Records /\ Free.guards = <<>> /\ Free.handles = 0 /\ Free.kind = "free"
<1>1. <<>> \in Seq(Ids) /\ {} \in SUBSET Ids /\ 0 \in Nat
  OBVIOUS
<1> QED
  BY <1>1 DEF Records, Free, Kinds

LEMMA HandlesChanged ==
  ASSUME NEW o \in Records, o # Free, NEW n \in Nat
  PROVE  /\ [o EXCEPT !.handles = n] \in Records /\ Same(o, [o EXCEPT !.handles = n])
         /\ [o EXCEPT !.handles = n].handles = n
BY DEF Records, Same

LEMMA CloneOK == ASSUME Calling, NEW i \in Ids, Clone(i) PROVE IInv'
<1>1. heap \in [Ids -> Records] /\ heap' = [heap EXCEPT ![i].handles = 2]
  BY DEF Calling, IInv, HeapOK, Clone
<1>2. heap[i] # Free
  BY DEF Clone, Free
<1> DEFINE o == [heap[i] EXCEPT !.handles = 2]
<1>4. o \in Records /\ Same(heap[i], o)
  BY <1>1, <1>2, HandlesChanged
<1>5. heap' = [heap EXCEPT ![i] = o]
  BY <1>1
<1> HIDE DEF o
<1>3. heap' \in [Ids -> Records] /\ \A j \in Ids : Same(heap[j], heap'[j])
  BY <1>1, <1>4, <1>5 DEF Same
<1> QED
  BY <1>3, SameOK DEF Clone

LEMMA MovesIntoOK ==
  ASSUME Calling, NEW i \in Ids, NEW j \in Ids, heap[i].kind \in InPlace, heap[j].kind # "free", i # j,
         MovesInto(i, j)
  PROVE  IInv'
<1>1. /\ heap \in [Ids -> Records] /\ heap[i] \in Records /\ heap[j] \in Records
      /\ heap' = [heap EXCEPT ![i] = Free, ![j].uses = @ \cup heap[i].uses,
                              ![j].borrows = @ \cup heap[i].borrows]
  BY DEF Calling, IInv, HeapOK, MovesInto
<1>2. Free \in Records /\ Free.guards = <<>>
  BY FreeFacts
<1>3. /\ heap' \in [Ids -> Records] /\ heap'[i] = Free
      /\ heap'[j].kind = heap[j].kind /\ heap'[j].guards = heap[j].guards
      /\ \A k \in Ids : k # i /\ k # j => heap'[k] = heap[k]
  BY <1>1, <1>2 DEF Records
<1>4. heap[j] # Free
  BY DEF Free
<1>5. Changed(heap, heap', {i})
  BY <1>3, <1>4 DEF Changed, Same
<1>6. Renewed(heap', {i})
  BY <1>2, <1>3 DEF Renewed, WellFormed, Free
<1> QED
  BY <1>5, <1>6, UpdateOK DEF MovesInto

LEMMA GivesOK ==
  ASSUME Calling, NEW i \in Ids, heap[i].handles > 0, NEW j \in Ids, heap[i].kind \in InPlace,
         heap[j].kind # "free", i # j, Gives(i, j)
  PROVE  IInv'
BY MovesIntoOK, RefusesOK, TakenOne DEF Gives

LEMMA AttachOK ==
  ASSUME Calling, NEW i \in Ids, heap[i].kind \notin {"free", "dynamic"},
         NEW guards, Guardable(guards), NEW uses \in SUBSET Ids, Attach(i, guards, uses)
  PROVE  IInv'
<1>1. /\ heap \in [Ids -> Records] /\ heap[i] \in Records /\ guards \in Seq(Ids)
      /\ heap' = [heap EXCEPT ![i].guards = @ \o guards, ![i].uses = @ \cup uses]
  BY DEF Calling, IInv, HeapOK, Attach, Guardable
<1>2. heap[i].guards \in Seq(Ids) /\ heap[i].guards \o guards \in Seq(Ids)
  BY <1>1 DEF Records
<1>3. /\ heap' \in [Ids -> Records] /\ heap'[i].guards = heap[i].guards \o guards
      /\ heap'[i].kind = heap[i].kind
      /\ \A k \in Ids : k # i => heap'[k] = heap[k]
  BY <1>1, <1>2 DEF Records
<1>4. Changed(heap, heap', {i})
  BY <1>3 DEF Changed, Same
<1>5. WellFormed(heap', heap'[i])
  <2>1. Guardable(heap[i].guards \o guards)
    BY GuardableOf, GuardableBoth DEF Calling, IInv
  <2>2. \A k \in DOMAIN heap'[i].guards : heap'[heap'[i].guards[k]].kind \notin InPlace
    <3> TAKE k \in DOMAIN heap'[i].guards
    <3>1. heap'[i].guards[k] \in Ids /\ heap[heap'[i].guards[k]].kind \notin InPlace
      BY <1>3, <2>1 DEF Guardable
    <3> QED
      BY <3>1, <1>4, KindsKept
  <2>3. heap[i].kind = "epdevice" => heap[i].guards # <<>>
    BY DEF Calling, IInv, HeapOK, WellFormed
  <2>4. heap[i].guards # <<>> => heap[i].guards \o guards # <<>>
    BY <1>1, <1>2
  <2> QED
    BY <1>3, <2>2, <2>3, <2>4 DEF WellFormed
<1>6. Renewed(heap', {i})
  BY <1>5 DEF Renewed
<1> QED
  BY <1>4, <1>6, UpdateOK DEF Attach

(***************************************************************************)
(* Drops                                                                   *)
(***************************************************************************)
LEMMA DropHandleOK == ASSUME Calling, NEW i \in Ids, DropHandle(i) PROVE IInv'
<1>1. /\ heap \in [Ids -> Records] /\ heap[i] \in Records /\ heap[i].handles > 0
      /\ heap' = [heap EXCEPT ![i].handles = @ - 1]
  BY DEF Calling, IInv, HeapOK, DropHandle
<1>2. heap[i] # Free
  BY <1>1 DEF Free
<1> DEFINE o == [heap[i] EXCEPT !.handles = @ - 1]
<1>10. heap[i].handles - 1 \in Nat
  BY <1>1 DEF Records
<1>9. o \in Records /\ Same(heap[i], o) /\ o.handles = heap[i].handles - 1
  BY <1>1, <1>2, <1>10, HandlesChanged
<1>8. heap' = [heap EXCEPT ![i] = o]
  BY <1>1
<1> HIDE DEF o
<1>3. /\ heap' \in [Ids -> Records] /\ heap'[i].handles = heap[i].handles - 1
      /\ \A j \in Ids : Same(heap[j], heap'[j])
  BY <1>1, <1>8, <1>9 DEF Same
<1>4. Changed(heap, heap', {}) /\ Renewed(heap', {})
  BY <1>3 DEF Changed, Renewed
<1>5. HeapOK(heap')
  BY <1>4, ChangedOK DEF Calling, IInv
<1>6. CASE Strong(heap, dropping, i) = 1
  <2>1. dropping = <<>> /\ dropping \in Seq(Tasks) /\ HeapOK(heap)
    BY DEF Calling, IInv
  <2>2. heap[i].handles = 1 /\ Unguarded(heap, i)
    BY <1>1, <1>6, <2>1, StrongZero
  <2>3. Unguarded(heap', i)
    BY <1>4, <2>2, StaysUnguarded DEF NotGuardedBy
  <2>4. heap[i].kind # "free"
    BY <1>2, <2>1 DEF HeapOK, WellFormed
  <2>5. Releasable(heap', i)
    BY <1>3, <2>2, <2>3, <2>4 DEF Releasable, Same
  <2>6. dropping' = <<Release(i)>>
    BY <1>6 DEF DropHandle
  <2> QED
    BY <1>5, <2>5, <2>6, ReleaseOnly DEF IInv, Calling, DropHandle
<1>7. CASE Strong(heap, dropping, i) # 1
  BY <1>5, <1>7, NoTasks DEF IInv, Calling, DropHandle
<1> QED
  BY <1>6, <1>7

\* References that are dropped before the rest is done, and none of which the rest releases.
LEMMA UnrefsFirst ==
  ASSUME NEW h, NEW tasks, TasksOK(h, tasks), NEW s \in Seq(Ids),
         \A k \in DOMAIN s : h[s[k]].kind # "free",
         \A k \in DOMAIN s : \A n \in DOMAIN tasks : tasks[n].do = "release" => tasks[n].of # s[k]
  PROVE  TasksOK(h, Unrefs(s) \o tasks)
<1> DEFINE all == Unrefs(s) \o tasks
<1>1. /\ tasks \in Seq(Tasks) /\ Unrefs(s) \in Seq(Tasks) /\ Len(Unrefs(s)) = Len(s)
      /\ Len(s) \in Nat /\ DOMAIN s = 1..Len(s)
      /\ \A k \in DOMAIN s : Unrefs(s)[k].do = "unref" /\ Unrefs(s)[k].of = s[k]
  BY UnrefsOK DEF TasksOK
<1>2. /\ all \in Seq(Tasks) /\ Len(tasks) \in Nat /\ Len(all) = Len(s) + Len(tasks)
      /\ DOMAIN all = 1..Len(all)
  <2>1. all \in Seq(Tasks) /\ Len(all) = Len(Unrefs(s)) + Len(tasks)
    BY <1>1, ConcatProperties
  <2>2. Len(tasks) \in Nat /\ DOMAIN all = 1..Len(all)
    BY <1>1, <2>1
  <2> QED
    BY <1>1, <2>1, <2>2
<1>3. \A k \in DOMAIN all :
         \/ k \in DOMAIN s /\ all[k] = Unrefs(s)[k]
         \/ k > Len(s) /\ k - Len(s) \in DOMAIN tasks /\ all[k] = tasks[k - Len(s)]
  BY <1>1
<1> HIDE DEF all
<1>4. \A k \in DOMAIN all : h[all[k].of].kind # "free"
  BY <1>1, <1>3 DEF TasksOK
<1>5. ASSUME NEW k \in DOMAIN all, all[k].do = "release"
      PROVE  /\ h[all[k].of].handles = 0 /\ Unguarded(h, all[k].of)
             /\ \A n \in DOMAIN all : all[n].of = all[k].of => n = k
  <2>1. k > Len(s) /\ k - Len(s) \in DOMAIN tasks /\ all[k] = tasks[k - Len(s)]
    BY <1>1, <1>3, <1>5
  <2>2. /\ h[all[k].of].handles = 0 /\ Unguarded(h, all[k].of)
        /\ \A n \in DOMAIN tasks : tasks[n].of = all[k].of => n = k - Len(s)
    BY <2>1, <1>5 DEF TasksOK
  <2>3. ASSUME NEW n \in DOMAIN all, all[n].of = all[k].of PROVE n = k
    <3>1. ~(n \in DOMAIN s /\ all[n] = Unrefs(s)[n])
      BY <1>1, <1>5, <2>1, <2>3
    <3>2. n - Len(s) \in DOMAIN tasks /\ all[n] = tasks[n - Len(s)]
      BY <3>1, <1>3
    <3>3. n - Len(s) = k - Len(s)
      BY <2>2, <2>3, <3>2
    <3> QED
      BY <3>3, <1>1, <1>2
  <2> QED
    BY <2>2, <2>3
<1> QED
  BY <1>2, <1>4, <1>5 DEF TasksOK, all

LEMMA TailTasks ==
  ASSUME NEW h, NEW tasks, TasksOK(h, tasks), tasks # <<>>
  PROVE  /\ TasksOK(h, Tail(tasks)) /\ Head(tasks) = tasks[1] /\ 1 \in DOMAIN tasks
         /\ Tail(tasks) \in Seq(Tasks)
         /\ \A k \in DOMAIN Tail(tasks) : k + 1 \in DOMAIN tasks /\ Tail(tasks)[k] = tasks[k + 1]
<1> DEFINE rest == Tail(tasks)
<1>1. tasks \in Seq(Tasks)
  BY DEF TasksOK
<1>2. /\ rest \in Seq(Tasks) /\ Head(tasks) = tasks[1] /\ 1 \in DOMAIN tasks
      /\ DOMAIN rest \subseteq Nat
      /\ \A k \in DOMAIN rest : k + 1 \in DOMAIN tasks /\ rest[k] = tasks[k + 1]
  BY <1>1
<1> HIDE DEF rest
<1>3. \A k \in DOMAIN rest : h[rest[k].of].kind # "free"
  BY <1>2 DEF TasksOK
<1>4. ASSUME NEW k \in DOMAIN rest, rest[k].do = "release"
      PROVE  /\ h[rest[k].of].handles = 0 /\ Unguarded(h, rest[k].of)
             /\ \A n \in DOMAIN rest : rest[n].of = rest[k].of => n = k
  <2>1. /\ h[rest[k].of].handles = 0 /\ Unguarded(h, rest[k].of)
        /\ \A n \in DOMAIN tasks : tasks[n].of = rest[k].of => n = k + 1
    BY <1>2, <1>4 DEF TasksOK
  <2>2. ASSUME NEW n \in DOMAIN rest, rest[n].of = rest[k].of PROVE n = k
    <3>1. n + 1 = k + 1
      BY <2>1, <2>2, <1>2
    <3> QED
      BY <3>1, <1>2
  <2> QED
    BY <2>1, <2>2
<1>5. TasksOK(h, rest)
  BY <1>2, <1>3, <1>4 DEF TasksOK
<1> QED
  BY <1>2, <1>5 DEF rest

\* The released object goes; nothing kept it, so nobody misses it.
LEMMA ReleaseOK ==
  ASSUME IInv, dropping # <<>>, Head(dropping).do = "release", ReleaseThenFields(Head(dropping).of),
         UNCHANGED <<area, leaked>>
  PROVE  IInv'
<1> DEFINE i == Head(dropping).of
           rest == Tail(dropping)
<1>1. HeapOK(heap) /\ TasksOK(heap, dropping)
  BY DEF IInv
<1>2. /\ TasksOK(heap, rest) /\ Head(dropping) = dropping[1] /\ 1 \in DOMAIN dropping
      /\ rest \in Seq(Tasks)
      /\ \A k \in DOMAIN rest : k + 1 \in DOMAIN dropping /\ rest[k] = dropping[k + 1]
  BY <1>1, TailTasks
<1>3. /\ i \in Ids /\ heap[i].handles = 0 /\ Unguarded(heap, i)
      /\ \A n \in DOMAIN dropping : dropping[n].of = i => n = 1
  <2>1. dropping \in Seq(Tasks)
    BY <1>1 DEF TasksOK
  <2>2. Head(dropping) \in Tasks
    BY <2>1
  <2>3. i \in Ids
    BY <2>2 DEF Tasks
  <2> QED
    BY <1>1, <1>2, <2>3 DEF TasksOK
<1>4. \A k \in DOMAIN rest : rest[k].of # i /\ rest[k].of \in Ids
  <2> TAKE k \in DOMAIN rest
  <2>1. k + 1 # 1 /\ rest[k] \in Tasks
    BY <1>2
  <2> QED
    BY <1>2, <1>3, <2>1 DEF Tasks
<1>5. heap' = [heap EXCEPT ![i] = Free] /\ dropping' = Unrefs(heap[i].guards) \o rest
  BY DEF ReleaseThenFields
<1> HIDE DEF i, rest
<1>6. /\ heap' \in [Ids -> Records] /\ heap'[i] = Free
      /\ \A j \in Ids : j # i => heap'[j] = heap[j]
  BY <1>1, <1>3, <1>5, FreeFacts DEF HeapOK
<1>7. HeapOK(heap')
  <2>1. ASSUME NEW j \in Ids, j # i PROVE WellFormed(heap', heap[j])
    <3>1. WellFormed(heap, heap[j]) /\ heap[j].guards \in Seq(Ids)
      BY <1>1 DEF HeapOK, Records
    <3>2. \A k \in DOMAIN heap[j].guards : heap'[heap[j].guards[k]] = heap[heap[j].guards[k]]
      BY <1>3, <1>6, <3>1 DEF Unguarded
    <3>3. heap[j].guards # <<>> => Len(heap[j].guards) \in DOMAIN heap[j].guards
      BY <3>1
    <3> QED
      BY <3>1, <3>2, <3>3 DEF WellFormed
  <2>2. WellFormed(heap', Free)
    BY FreeFacts DEF WellFormed
  <2> QED
    BY <1>6, <2>1, <2>2 DEF HeapOK
<1>8. \A j \in Ids : Unguarded(heap, j) => Unguarded(heap', j)
  BY <1>6, FreeFacts DEF Unguarded
<1>9. TasksOK(heap', rest)
  BY <1>2, <1>4, <1>6, <1>8 DEF TasksOK
<1>10. heap[i].guards \in Seq(Ids)
  BY <1>1, <1>3 DEF HeapOK, Records
<1>11. \A k \in DOMAIN heap[i].guards :
          /\ heap'[heap[i].guards[k]].kind # "free"
          /\ \A n \in DOMAIN rest : rest[n].do = "release" => rest[n].of # heap[i].guards[k]
  <2> TAKE k \in DOMAIN heap[i].guards
  <2>1. heap[i].guards[k] \in Ids /\ heap[i].guards[k] # i /\ heap[heap[i].guards[k]].kind # "free"
    BY <1>1, <1>3, <1>10 DEF HeapOK, WellFormed, Unguarded, InPlace
  <2>2. \A n \in DOMAIN rest : rest[n].do = "release" => Unguarded(heap, rest[n].of)
    BY <1>2 DEF TasksOK
  <2> QED
    BY <1>3, <1>6, <2>1, <2>2 DEF Unguarded
<1>12. TasksOK(heap', Unrefs(heap[i].guards) \o rest)
  BY <1>9, <1>10, <1>11, UnrefsFirst
<1> QED
  BY <1>5, <1>7, <1>12 DEF IInv

\* The last reference to an object makes the drop release it.
LEMMA DropReferenceOK ==
  ASSUME IInv, dropping # <<>>, Head(dropping).do = "unref", DropReference(Head(dropping).of),
         UNCHANGED <<area, leaked>>
  PROVE  IInv'
<1> DEFINE i == Head(dropping).of
           rest == Tail(dropping)
<1>1. HeapOK(heap) /\ TasksOK(heap, dropping)
  BY DEF IInv
<1>2. /\ TasksOK(heap, rest) /\ Head(dropping) = dropping[1] /\ 1 \in DOMAIN dropping
      /\ rest \in Seq(Tasks)
      /\ \A k \in DOMAIN rest : k + 1 \in DOMAIN dropping /\ rest[k] = dropping[k + 1]
  BY <1>1, TailTasks
<1>3. i \in Ids /\ heap[i].kind # "free"
  <2>1. dropping \in Seq(Tasks)
    BY <1>1 DEF TasksOK
  <2>2. Head(dropping) \in Tasks
    BY <2>1
  <2>3. i \in Ids
    BY <2>2 DEF Tasks
  <2> QED
    BY <1>1, <1>2, <2>3 DEF TasksOK
<1>4. /\ heap' = heap
      /\ dropping' = (IF Strong(heap, rest, i) = 0 THEN <<Release(i)>> ELSE <<>>) \o rest
  BY DEF DropReference
<1>5. \A k \in DOMAIN rest : rest[k] \in Tasks /\ (rest[k].do = "release" => rest[k].of # i)
  <2> TAKE k \in DOMAIN rest
  <2>1. k + 1 # 1 /\ rest[k] \in Tasks /\ k + 1 \in DOMAIN dropping /\ rest[k] = dropping[k + 1]
    BY <1>2
  <2>2. rest[k].do = "release" =>
           \A n \in DOMAIN dropping : dropping[n].of = rest[k].of => n = k + 1
    BY <1>1, <2>1 DEF TasksOK
  <2> QED
    BY <1>2, <2>1, <2>2
<1> HIDE DEF i, rest
<1>6. CASE Strong(heap, rest, i) = 0
  <2>1. heap[i].handles = 0 /\ Unguarded(heap, i) /\ \A k \in DOMAIN rest : rest[k] # Unref(i)
    BY <1>1, <1>2, <1>3, <1>6, StrongZero
  <2>2. Absent(rest, i)
    <3> SUFFICES ASSUME NEW k \in DOMAIN rest, rest[k].of = i PROVE FALSE
      BY DEF Absent
    <3>1. rest[k] \in Tasks /\ rest[k].do = "unref"
      BY <1>5 DEF Tasks
    <3>2. rest[k] = Unref(i)
      BY <3>1 DEF Tasks, Unref
    <3> QED
      BY <2>1, <3>2
  <2>3. Releasable(heap, i)
    BY <1>3, <2>1 DEF Releasable
  <2>4. TasksOK(heap, <<Release(i)>> \o rest)
    BY <1>2, <2>2, <2>3, ReleaseFirst
  <2> QED
    BY <1>1, <1>4, <1>6, <2>4 DEF IInv
<1>7. CASE Strong(heap, rest, i) # 0
  <2>1. <<>> \o rest = rest
    BY <1>2
  <2> QED
    BY <1>1, <1>2, <1>4, <1>7, <2>1 DEF IInv
<1> QED
  BY <1>6, <1>7

LEMMA DropStepOK == IInv /\ DropStep => IInv'
BY ReleaseOK, DropReferenceOK DEF DropStep

(***************************************************************************)
(* The elements of a sequence that are in a set: the loop is a recursive   *)
(* function, which Recursion shows to exist and Induction to have a type.  *)
(***************************************************************************)
LEMMA Least ==
  ASSUME NEW S, S \subseteq Nat, S # {}
  PROVE  \E m \in S : \A k \in S : m <= k
<1>1. PICK m \in S : \A y \in S : ~(<<y, m>> \in OpToRel(<, Nat))
  BY WFMin, NatLessThanWellFounded
<1>2. \A y \in S : ~(y < m)
  BY <1>1 DEF OpToRel
<1> QED
  BY <1>2

\* Induction up to n, for a set instead of a predicate.
LEMMA Induction ==
  ASSUME NEW n \in Nat, NEW S, 0 \in S, \A k \in 1..n : k - 1 \in S => k \in S
  PROVE  0..n \subseteq S
<1> DEFINE T == (0..n) \ S
<1>1. ASSUME T # {} PROVE FALSE
  <2>1. T \subseteq Nat
    OBVIOUS
  <2>2. PICK m \in T : \A k \in T : m <= k
    <3> HIDE DEF T
    <3> QED
      BY <1>1, <2>1, Least
  <2>3. m \in 1..n /\ m - 1 \in 0..n
    BY <2>2
  <2>4. m - 1 \notin T
    BY <2>2, <2>3
  <2> QED
    BY <2>2, <2>3, <2>4
<1> QED
  BY <1>1

\* A function that gives each value from the one before.
Recursive(f, n, V, base, step) ==
    f \in [0..n -> V] /\ f[0] = base /\ \A k \in 1..n : f[k] = step[k][f[k - 1]]

LEMMA Recursion ==
  ASSUME NEW n \in Nat, NEW V, NEW base \in V, NEW step \in [1..n -> [V -> V]]
  PROVE  \E f : Recursive(f, n, V, base, step)
<1> DEFINE Upto(m, f) ==
        f \in [0..m -> V] /\ f[0] = base /\ \A k \in 1..m : f[k] = step[k][f[k - 1]]
    S == {m \in 0..n : \E f : Upto(m, f)}
<1>1. 0 \in S
  <2> DEFINE f == [k \in 0..0 |-> base]
  <2>1. f \in [0..0 -> V] /\ f[0] = base /\ 1..0 = {}
    OBVIOUS
  <2>2. Upto(0, f)
    BY <2>1
  <2> HIDE DEF f
  <2> QED
    BY <2>2
<1>2. ASSUME NEW m \in 1..n, m - 1 \in S PROVE m \in S
  <2>1. PICK f : Upto(m - 1, f)
    BY <1>2
  <2> DEFINE g == [k \in 0..m |-> IF k = m THEN step[m][f[m - 1]] ELSE f[k]]
  <2>2. f[m - 1] \in V /\ step[m] \in [V -> V] /\ step[m][f[m - 1]] \in V
    <3>1. m - 1 \in 0..(m - 1) /\ m \in 1..n
      OBVIOUS
    <3>2. f[m - 1] \in V
      BY <2>1, <3>1
    <3>3. step[m] \in [V -> V]
      BY <3>1
    <3> QED
      BY <3>2, <3>3
  <2>3. g \in [0..m -> V]
    BY <2>1, <2>2
  <2>4. g[0] = base /\ \A k \in 1..m : g[k] = step[k][g[k - 1]]
    BY <2>1
  <2>5. Upto(m, g)
    BY <2>3, <2>4
  <2>6. m \in 0..n
    OBVIOUS
  <2> HIDE DEF g, Upto
  <2> QED
    BY <2>5, <2>6
<1> HIDE DEF S
<1>3. 0..n \subseteq S
  BY <1>1, <1>2, Induction
<1> QED
  BY <1>3 DEF S, Recursive

\* Such a function has its values in V.
LEMMA RecursiveType ==
  ASSUME NEW n \in Nat, NEW V, NEW f, f[0] \in V, \A k \in 1..n : f[k - 1] \in V => f[k] \in V
  PROVE  \A k \in 0..n : f[k] \in V
<1> DEFINE S == {k \in 0..n : f[k] \in V}
<1>1. 0 \in S
  OBVIOUS
<1>2. \A k \in 1..n : k - 1 \in S => k \in S
  OBVIOUS
<1> HIDE DEF S
<1>3. 0..n \subseteq S
  BY <1>1, <1>2, Induction
<1> QED
  BY <1>3 DEF S

LEMMA AmongIs ==
  ASSUME NEW s \in Seq(Ids), NEW set
  PROVE  Among(s, set) \in Seq({s[k] : k \in DOMAIN s} \cap set)
<1> DEFINE T == {s[k] : k \in DOMAIN s} \cap set
    V == Seq(T)
    next(k, x) == IF s[k] \in set THEN Append(x, s[k]) ELSE x
    P(f) == f = [n \in 0..Len(s) |->
                    IF n = 0 THEN <<>>
                    ELSE IF s[n] \in set THEN Append(f[n - 1], s[n]) ELSE f[n - 1]]
    g == CHOOSE f : P(f)
    step == [k \in 1..Len(s) |-> [x \in V |-> next(k, x)]]
<1>1. Len(s) \in Nat /\ DOMAIN s = 1..Len(s)
  OBVIOUS
<1>2. \A k \in 1..Len(s), x \in V : next(k, x) \in V
  <2> TAKE k \in 1..Len(s), x \in V
  <2>1. CASE s[k] \in set
    <3>1. s[k] \in T
      BY <2>1, <1>1
    <3> HIDE DEF T
    <3> QED
      BY <2>1, <3>1
  <2>2. CASE s[k] \notin set
    BY <2>2
  <2> QED
    BY <2>1, <2>2
<1>3. <<>> \in V
  <2> HIDE DEF T
  <2> QED
    OBVIOUS
<1> HIDE DEF V, next
<1>4. step \in [1..Len(s) -> [V -> V]]
  BY <1>2
<1>5. PICK f : Recursive(f, Len(s), V, <<>>, step)
  <2> HIDE DEF step
  <2> QED
    BY <1>1, <1>3, <1>4, Recursion
<1>6. \A k \in 0..Len(s) : f[k] = IF k = 0 THEN <<>> ELSE next(k, f[k - 1])
  <2> TAKE k \in 0..Len(s)
  <2>1. CASE k = 0
    BY <2>1, <1>5 DEF Recursive
  <2>2. CASE k # 0
    <3>1. k \in 1..Len(s) /\ k - 1 \in 0..Len(s)
      BY <2>2, <1>1
    <3>2. f[k - 1] \in V
      BY <3>1, <1>5 DEF Recursive
    <3>3. f[k] = step[k][f[k - 1]]
      BY <3>1, <1>5 DEF Recursive
    <3> QED
      BY <3>1, <3>2, <3>3, <2>2
  <2> QED
    BY <2>1, <2>2
<1>7. P(f)
  <2>1. f \in [0..Len(s) -> V]
    BY <1>5 DEF Recursive
  <2> QED
    BY <1>6, <2>1 DEF next
<1>8. P(g)
  <2> HIDE DEF P
  <2> QED
    BY <1>7
<1>9. Among(s, set) = g[Len(s)]
  BY DEF Among
<1> HIDE DEF g
<1>10. g[0] = <<>> /\ \A k \in 1..Len(s) : g[k] = next(k, g[k - 1])
  <2>1. \A k \in 0..Len(s) : g[k] = IF k = 0 THEN <<>> ELSE next(k, g[k - 1])
    BY <1>8 DEF next
  <2>2. 0 \in 0..Len(s) /\ \A k \in 1..Len(s) : k \in 0..Len(s) /\ k # 0
    BY <1>1
  <2> QED
    BY <2>1, <2>2
<1>11. \A k \in 0..Len(s) : g[k] \in V
  <2>1. g[0] \in V
    BY <1>3, <1>10
  <2>2. ASSUME NEW k \in 1..Len(s), g[k - 1] \in V PROVE g[k] \in V
    BY <1>2, <1>10, <2>2
  <2> QED
    BY <1>1, <2>1, <2>2, RecursiveType
<1>12. Len(s) \in 0..Len(s)
  BY <1>1
<1>13. g[Len(s)] \in V
  BY <1>11, <1>12
<1> QED
  BY <1>9, <1>13 DEF V

\* Fields of a wrapper, by kind.
LEMMA AmongGuardable ==
  ASSUME NEW s, Guardable(s), NEW set
  PROVE  Guardable(Among(s, set)) /\ \A k \in DOMAIN Among(s, set) : Among(s, set)[k] \in set
<1> DEFINE T == {s[k] : k \in DOMAIN s} \cap set
    a == Among(s, set)
<1>1. s \in Seq(Ids)
  BY DEF Guardable
<1>2. a \in Seq(T)
  BY <1>1, AmongIs
<1>3. \A x \in T : x \in Ids /\ heap[x].kind \notin InPlace /\ x \in set
  BY <1>1 DEF Guardable
<1> HIDE DEF T, a
<1>4. \A k \in DOMAIN a : a[k] \in T
  BY <1>2
<1>5. a \in Seq(Ids)
  BY <1>2, <1>3, <1>4
<1> QED
  BY <1>3, <1>4, <1>5 DEF Guardable, a

(***************************************************************************)
(* Calls that create several objects                                       *)
(***************************************************************************)
LEMMA OwnedIs ==
  ASSUME NEW o \in Records
  PROVE  /\ Owned(o) \in Records /\ Owned(o).kind = o.kind /\ Owned(o).guards = o.guards
         /\ Owned(o).handles = 0
BY DEF Owned, Records

LEMMA ObjectIs ==
  ASSUME NEW kind \in Kinds, NEW guards \in Seq(Ids), NEW uses \in SUBSET Ids
  PROVE  /\ Object(kind, guards, uses) \in Records /\ Object(kind, guards, uses).kind = kind
         /\ Object(kind, guards, uses).guards = guards
         /\ Owned(Object(kind, guards, uses)) \in Records
         /\ Owned(Object(kind, guards, uses)).kind = kind
         /\ Owned(Object(kind, guards, uses)).guards = guards
         /\ Owned(Object(kind, guards, uses)).handles = 0
         /\ Wrapper(kind, guards) \in Records /\ Wrapper(kind, guards).kind = kind
         /\ Wrapper(kind, guards).guards = guards
         /\ Owned(Wrapper(kind, guards)) \in Records /\ Owned(Wrapper(kind, guards)).kind = kind
         /\ Owned(Wrapper(kind, guards)).guards = guards
         /\ Owned(Wrapper(kind, guards)).handles = 0
BY DEF Object, Owned, Wrapper, Records

\* The kinds that are created, and those that guards name.
LEMMA PlainKinds ==
    /\ Plain("env") /\ Plain("threading") /\ Plain("manager") /\ Plain("logger")
    /\ Plain("envoptions") /\ Plain("memory") /\ Plain("kvps") /\ Plain("allocator")
    /\ Plain("arena") /\ Plain("call") /\ Plain("allocation") /\ Plain("stats")
    /\ Plain("hwdevice") /\ Plain("details") /\ Plain("syncstream") /\ Plain("importer")
    /\ Plain("extmem") /\ Plain("semaphore") /\ Plain("value") /\ Plain("prepacked")
    /\ Plain("lora") /\ Plain("initializerinfo") /\ Plain("spool") /\ Plain("initializer")
    /\ Plain("options") /\ Plain("provideroptions") /\ Plain("slot") /\ Plain("handle")
    /\ Plain("session") /\ Plain("metadata") /\ Plain("subgraph") /\ Plain("runbuilder")
    /\ Plain("runoptions") /\ Plain("run") /\ Plain("copy") /\ Plain("data")
    /\ Plain("storage") /\ Plain("tensorbuffer") /\ Plain("tensor") /\ Plain("outputvalue")
    /\ Plain("sparse") /\ Plain("stringtensor") /\ Plain("allocatedtensor")
    /\ Plain("runtimetype") /\ Plain("devicevalue") /\ Plain("binding") /\ Plain("names")
    /\ Plain("cudastream") /\ Plain("cudaconfig") /\ Plain("streamconfig")
    /\ Plain("entries") /\ Plain("stranded") /\ Plain("shapeinfo") /\ Plain("typeview")
    /\ Plain("typeinfo") /\ Plain("valueinfo") /\ Plain("attr") /\ Plain("node")
    /\ Plain("graph") /\ Plain("model") /\ Plain("compileoptions") /\ Plain("output")
    /\ Plain("domain") /\ Plain("kernel") /\ Plain("status") /\ Plain("kernelinfo")
    /\ Plain("op") /\ Plain("temporary") /\ Plain("defbuilder") /\ Plain("kerneldef")
    /\ Plain("schema") /\ Plain("event") /\ Plain("constraint") /\ Plain("factory")
    /\ Plain("hardware") /\ Plain("authoreddevice") /\ Plain("ep") /\ Plain("buffers")
    /\ Plain("lane") /\ Plain("staticlane") /\ Plain("allocatedlane") /\ Plain("collecting")
    /\ Plain("servinglane") /\ Plain("wholelane") /\ Plain("runtime") /\ Plain("static")
    /\ Plain("deviceio")
BY DEF Plain, Kinds

LEMMA FirmKinds ==
    /\ "env" \notin InPlace /\ "threading" \notin InPlace /\ "manager" \notin InPlace
    /\ "logger" \notin InPlace /\ "kvps" \notin InPlace /\ "allocator" \notin InPlace
    /\ "epdevice" \notin InPlace /\ "slot" \notin InPlace /\ "session" \notin InPlace
    /\ "storage" \notin InPlace /\ "value" \notin InPlace /\ "prepacked" \notin InPlace
    /\ "cudastream" \notin InPlace /\ "spool" \notin InPlace /\ "initializer" \notin InPlace
    /\ "syncstream" \notin InPlace /\ "lora" \notin InPlace /\ "kernel" \notin InPlace
    /\ "ep" \notin InPlace /\ "buffers" \notin InPlace /\ "binding" \notin InPlace
    /\ "lane" \notin InPlace /\ "wholelane" \notin InPlace /\ "options" \notin InPlace
    /\ "stranded" \notin InPlace /\ "collecting" \notin InPlace /\ "dynamic" \notin InPlace
BY DEF InPlace

LEMMA SimpleIs ==
  ASSUME NEW kind, Plain(kind)
  PROVE  /\ Fresh(Object(kind, <<>>, {})) /\ Object(kind, <<>>, {}).kind = kind
         /\ Object(kind, <<>>, {}) \in Records /\ Object(kind, <<>>, {}).guards = <<>>
         /\ Fresh(Owned(Object(kind, <<>>, {}))) /\ Owned(Object(kind, <<>>, {})).kind = kind
         /\ Owned(Object(kind, <<>>, {})) \in Records /\ Owned(Object(kind, <<>>, {})).guards = <<>>
         /\ Owned(Object(kind, <<>>, {})).handles = 0
<1>1. Fresh(Object(kind, <<>>, {})) /\ Fresh(Owned(Object(kind, <<>>, {})))
  BY GuardableNone, ObjectFresh
<1>2. kind \in Kinds
  BY DEF Plain
<1>3. <<>> \in Seq(Ids) /\ {} \in SUBSET Ids
  OBVIOUS
<1>4. /\ Object(kind, <<>>, {}).kind = kind /\ Object(kind, <<>>, {}) \in Records
      /\ Object(kind, <<>>, {}).guards = <<>>
  BY <1>2, <1>3, ObjectIs
<1>5. /\ Owned(Object(kind, <<>>, {})).kind = kind /\ Owned(Object(kind, <<>>, {})) \in Records
      /\ Owned(Object(kind, <<>>, {})).guards = <<>> /\ Owned(Object(kind, <<>>, {})).handles = 0
  BY <1>4, OwnedIs
<1> QED
  BY <1>1, <1>4, <1>5

LEMMA BorrowingIs ==
  ASSUME NEW o \in Records, NEW b \in SUBSET Ids
  PROVE  /\ Borrowing(o, b) \in Records /\ Borrowing(o, b).kind = o.kind
         /\ Borrowing(o, b).guards = o.guards
BY DEF Borrowing, Records

LEMMA WithoutNone == ASSUME HeapOK(heap) PROVE Without(<<>>) = heap
<1>1. Occurrences(1, <<>>) = 0 /\ \A i \in Ids : Occurrences(i, <<>>) = 0
  <2>1. <<>> \in Seq(Ids) /\ DOMAIN <<>> = {}
    OBVIOUS
  <2> QED
    BY <2>1, OccurrencesOnce
<1>2. \A i \in Ids : Without(<<>>)[i] = heap[i]
  <2> TAKE i \in Ids
  <2>1. heap[i] \in Records /\ Without(<<>>)[i] = [heap[i] EXCEPT !.handles = heap[i].handles - 0]
    BY <1>1 DEF Without, HeapOK
  <2>2. heap[i].handles - 0 = heap[i].handles
    BY <2>1 DEF Records
  <2> QED
    BY <2>1, <2>2 DEF Records
<1> QED
  BY <1>2 DEF Without, HeapOK

\* A new object guards older objects, or ones created with it.
Linked(h2, C, o) ==
    /\ o.kind \notin {"free", "epdevice"}
    /\ \A k \in DOMAIN o.guards :
          \/ heap[o.guards[k]].kind \notin InPlace
          \/ o.guards[k] \in C /\ h2[o.guards[k]].kind \notin InPlace
    /\ o.kind = "dynamic" => o.guards # <<>> /\ h2[o.guards[Len(o.guards)]].kind = "session"

Extended(h2, taken, C) ==
    /\ C \subseteq Ids /\ \A i \in C : heap[i].kind = "free"
    /\ h2 \in [Ids -> Records]
    /\ \A i \in Ids : i \notin C => h2[i] = Without(taken)[i]
    /\ \A i \in C : Linked(h2, C, h2[i])

LEMMA ExtendOK ==
  ASSUME HeapOK(heap), NEW taken, Taken(taken), NEW h2, NEW C, Extended(h2, taken, C)
  PROVE  /\ HeapOK(h2) /\ Changed(heap, h2, C)
         /\ \A n \in C : NotGuardedBy(h2, C, n) => Unguarded(h2, n)
         /\ \A k \in DOMAIN taken : h2[taken[k]].kind # "free" /\ taken[k] \notin C
<1>1. Changed(heap, h2, C)
  BY WithoutOK DEF Changed, Extended, InPlace
<1>2. ASSUME NEW i \in C PROVE WellFormed(h2, h2[i])
  <2>1. i \in Ids /\ h2[i] \in Records /\ h2[i].guards \in Seq(Ids) /\ Linked(h2, C, h2[i])
    BY DEF Extended, Records
  <2>2. \A k \in DOMAIN h2[i].guards : h2[h2[i].guards[k]].kind \notin InPlace
    <3> TAKE k \in DOMAIN h2[i].guards
    <3>1. h2[i].guards[k] \in Ids
      BY <2>1
    <3>2. CASE heap[h2[i].guards[k]].kind \notin InPlace
      BY <3>1, <3>2, <1>1, KindsKept
    <3> QED
      BY <2>1, <3>2 DEF Linked
  <2> QED
    BY <2>1, <2>2 DEF Linked, WellFormed
<1>3. HeapOK(h2)
  <2>1. Renewed(h2, C)
    BY <1>2 DEF Renewed
  <2> QED
    BY <1>1, <2>1, ChangedOK
<1>4. \A n \in C : NotGuardedBy(h2, C, n) => Unguarded(h2, n)
  <2> TAKE n \in C
  <2>1. n \in Ids /\ heap[n].kind \in InPlace
    BY DEF Extended, InPlace
  <2>2. Unguarded(heap, n)
    BY <2>1, InPlaceUnguarded
  <2> QED
    BY <1>1, <2>2, StaysUnguarded
<1>5. \A k \in DOMAIN taken : h2[taken[k]].kind # "free" /\ taken[k] \notin C
  <2> TAKE k \in DOMAIN taken
  <2>1. taken[k] \in Ids /\ heap[taken[k]].kind # "free"
    BY TakenObjects
  <2>2. taken[k] \notin C /\ h2[taken[k]] = Without(taken)[taken[k]]
    BY <2>1 DEF Extended
  <2> QED
    BY <2>1, <2>2, WithoutOK DEF Same
<1> QED
  BY <1>1, <1>3, <1>4, <1>5

\* Two or three objects at the next places, where each may guard the others.
NewTwo(taken, a, b) == [Without(taken) EXCEPT ![New] = a, ![New2] = b]
NewThree(taken, a, b, c) == [Without(taken) EXCEPT ![New] = a, ![New2] = b, ![New3] = c]

Pairs(o, a, b) ==
    /\ o \in Records /\ o.kind \notin {"free", "epdevice"}
    /\ \A k \in DOMAIN o.guards :
          \/ heap[o.guards[k]].kind \notin InPlace
          \/ o.guards[k] = New /\ a.kind \notin InPlace
          \/ o.guards[k] = New2 /\ b.kind \notin InPlace
    /\ o.kind = "dynamic" => o.guards # <<>> /\ o.guards[Len(o.guards)] = New /\ a.kind = "session"

Triples(o, a, b, c) ==
    /\ o \in Records /\ o.kind \notin {"free", "epdevice", "dynamic"}
    /\ \A k \in DOMAIN o.guards :
          \/ heap[o.guards[k]].kind \notin InPlace
          \/ o.guards[k] = New /\ a.kind \notin InPlace
          \/ o.guards[k] = New2 /\ b.kind \notin InPlace
          \/ o.guards[k] = New3 /\ c.kind \notin InPlace

NotAmong(n, o) == \A k \in DOMAIN o.guards : o.guards[k] # n

LEMMA TwoOK ==
  ASSUME Calling, NEW taken, Taken(taken), Room(2), NEW a, NEW b, Pairs(a, a, b),
         Pairs(b, a, b)
  PROVE  /\ HeapOK(NewTwo(taken, a, b))
         /\ NewTwo(taken, a, b)[New] = a /\ NewTwo(taken, a, b)[New2] = b
         /\ New \in Ids /\ New2 \in Ids /\ New # New2
         /\ NotAmong(New, a) /\ NotAmong(New, b) => Unguarded(NewTwo(taken, a, b), New)
         /\ NotAmong(New2, a) /\ NotAmong(New2, b) => Unguarded(NewTwo(taken, a, b), New2)
         /\ \A k \in DOMAIN taken :
               NewTwo(taken, a, b)[taken[k]].kind # "free" /\ taken[k] \notin {New, New2}
<1> DEFINE h2 == NewTwo(taken, a, b)
<1>1. HeapOK(heap) /\ area \in Areas
  BY DEF Calling, IInv
<1>2. /\ New \in Ids /\ heap[New].kind = "free"
      /\ New2 \in Ids /\ heap[New2].kind = "free" /\ New2 # New
  BY <1>1, New2IsFree
<1>3. Without(taken) \in [Ids -> Records]
  BY <1>1, WithoutOK
<1>4. a \in Records /\ b \in Records
  BY DEF Pairs
<1>5. /\ h2 \in [Ids -> Records] /\ h2[New] = a /\ h2[New2] = b
      /\ \A i \in Ids : i \notin {New, New2} => h2[i] = Without(taken)[i]
  BY <1>2, <1>3, <1>4 DEF NewTwo
<1> HIDE DEF h2
<1>6. Linked(h2, {New, New2}, a) /\ Linked(h2, {New, New2}, b)
  BY <1>5 DEF Pairs, Linked
<1>7. Extended(h2, taken, {New, New2})
  BY <1>2, <1>5, <1>6 DEF Extended
<1>8. /\ HeapOK(h2)
      /\ \A n \in {New, New2} : NotGuardedBy(h2, {New, New2}, n) => Unguarded(h2, n)
      /\ \A k \in DOMAIN taken : h2[taken[k]].kind # "free" /\ taken[k] \notin {New, New2}
  BY <1>1, <1>7, ExtendOK
<1>9. /\ NotAmong(New, a) /\ NotAmong(New, b) => Unguarded(h2, New)
      /\ NotAmong(New2, a) /\ NotAmong(New2, b) => Unguarded(h2, New2)
  BY <1>5, <1>8 DEF NotAmong, NotGuardedBy
<1> QED
  BY <1>2, <1>5, <1>8, <1>9 DEF h2

LEMMA ThreeOK ==
  ASSUME Calling, NEW taken, Taken(taken), Room(3), NEW a, NEW b, NEW c,
         Triples(a, a, b, c), Triples(b, a, b, c), Triples(c, a, b, c)
  PROVE  /\ HeapOK(NewThree(taken, a, b, c)) /\ NewThree(taken, a, b, c)[New3] = c /\ New3 \in Ids
         /\ NotAmong(New3, a) /\ NotAmong(New3, b) /\ NotAmong(New3, c)
                => Unguarded(NewThree(taken, a, b, c), New3)
         /\ \A k \in DOMAIN taken : NewThree(taken, a, b, c)[taken[k]].kind # "free"
<1> DEFINE h2 == NewThree(taken, a, b, c)
<1>1. HeapOK(heap) /\ area \in Areas
  BY DEF Calling, IInv
<1>2. /\ New \in Ids /\ heap[New].kind = "free"
      /\ New2 \in Ids /\ heap[New2].kind = "free" /\ New2 # New
      /\ New3 \in Ids /\ heap[New3].kind = "free" /\ New3 # New /\ New3 # New2
  BY <1>1, New3IsFree
<1>3. Without(taken) \in [Ids -> Records]
  BY <1>1, WithoutOK
<1>4. a \in Records /\ b \in Records /\ c \in Records
  BY DEF Triples
<1>5. /\ h2 \in [Ids -> Records] /\ h2[New] = a /\ h2[New2] = b /\ h2[New3] = c
      /\ \A i \in Ids : i \notin {New, New2, New3} => h2[i] = Without(taken)[i]
  BY <1>2, <1>3, <1>4 DEF NewThree
<1> HIDE DEF h2
<1> DEFINE C == {New, New2, New3}
<1>6. Linked(h2, C, a) /\ Linked(h2, C, b) /\ Linked(h2, C, c)
  BY <1>5 DEF Triples, Linked
<1>7. Extended(h2, taken, C)
  BY <1>2, <1>5, <1>6 DEF Extended
<1>8. /\ HeapOK(h2) /\ \A n \in C : NotGuardedBy(h2, C, n) => Unguarded(h2, n)
      /\ \A k \in DOMAIN taken : h2[taken[k]].kind # "free"
  BY <1>1, <1>7, ExtendOK
<1>9. NotAmong(New3, a) /\ NotAmong(New3, b) /\ NotAmong(New3, c) => Unguarded(h2, New3)
  BY <1>5, <1>8 DEF NotAmong, NotGuardedBy
<1> QED
  BY <1>2, <1>5, <1>8, <1>9 DEF h2

\* What the program holds.
LEMMA HeldFacts ==
  ASSUME Calling, NEW kind, NEW i \in Held(kind)
  PROVE  /\ i \in Ids /\ heap[i].kind = kind /\ heap[i].kind # "free" /\ heap[i].handles > 0
         /\ heap[i] \in Records /\ heap[i].uses \in SUBSET Ids /\ heap[i].guards \in Seq(Ids)
BY DEF Held, Objects, Calling, IInv, HeapOK, Records

LEMMA MovableFacts ==
  ASSUME Calling, NEW kind, NEW i \in Movable(kind)
  PROVE  /\ i \in Ids /\ heap[i].kind = kind /\ heap[i].kind # "free" /\ heap[i].handles > 0
         /\ heap[i] \in Records /\ heap[i].uses \in SUBSET Ids /\ heap[i].guards \in Seq(Ids)
         /\ i \in Held(kind) /\ Taken(<<i>>)
BY HeldFacts, TakenOne DEF Movable

\* A call that creates one object with such guards and uses, and perhaps releases it again.
LEMMA ObjectOK ==
  ASSUME Calling, NEW kind, Plain(kind), NEW guards, Guardable(guards), NEW uses \in SUBSET Ids,
         \/ Make(Object(kind, guards, uses))
         \/ MakeOrUndo(Object(kind, guards, uses))
         \/ Undoes(<<>>, Object(kind, guards, uses))
  PROVE  IInv'
<1>1. Fresh(Object(kind, guards, uses))
  BY ObjectFresh
<1> QED
  BY <1>1, MakeOK, UndoesOK, TakenNone

LEMMA SimpleOK ==
  ASSUME Calling, NEW kind, Plain(kind), NEW uses \in SUBSET Ids,
         \/ Make(Object(kind, <<>>, uses))
         \/ MakeOrUndo(Object(kind, <<>>, uses))
         \/ Undoes(<<>>, Object(kind, <<>>, uses))
  PROVE  IInv'
BY GuardableNone, ObjectOK

LEMMA BorrowingOK ==
  ASSUME Calling, NEW kind, Plain(kind), NEW guards, Guardable(guards), NEW uses \in SUBSET Ids,
         NEW b \in SUBSET Ids,
         \/ Make(Borrowing(Object(kind, guards, uses), b))
         \/ MakeOrUndo(Borrowing(Object(kind, guards, uses), b))
  PROVE  IInv'
<1>1. Fresh(Borrowing(Object(kind, guards, uses), b))
  BY ObjectFresh, BorrowingFresh
<1> QED
  BY <1>1, MakeOK

LEMMA LentOK ==
  ASSUME Calling, NEW kind, Plain(kind), NEW uses \in SUBSET Ids, NEW b \in SUBSET Ids,
         \/ Make(Borrowing(Object(kind, <<>>, uses), b))
         \/ MakeOrUndo(Borrowing(Object(kind, <<>>, uses), b))
  PROVE  IInv'
BY GuardableNone, BorrowingOK

\* An object gives way to a new one.
LEMMA ExchangeOK ==
  ASSUME Calling, Room(1), NEW i \in Ids, heap[i].kind \in InPlace, heap[i].kind # "free",
         NEW object, Fresh(object), NEW h2, h2 = [heap EXCEPT ![i] = Free, ![New] = object]
  PROVE  HeapOK(h2) /\ Changed(heap, h2, {i, New})
<1>1. HeapOK(heap) /\ area \in Areas /\ heap \in [Ids -> Records]
  BY DEF Calling, IInv, HeapOK
<1>2. New \in Ids /\ heap[New].kind = "free" /\ New # i
  BY <1>1, NewIsFree
<1>3. object \in Records
  BY DEF Fresh, WellFormed
<1>4. /\ h2 \in [Ids -> Records] /\ h2[New] = object /\ h2[i] = Free
      /\ \A j \in Ids : j \notin {i, New} => h2[j] = heap[j]
  BY <1>1, <1>2, <1>3, FreeFacts
<1>5. Changed(heap, h2, {i, New})
  BY <1>2, <1>4 DEF Changed, Same, InPlace
<1>6. WellFormed(h2, object)
  BY <1>5, WellFormedKept DEF Fresh
<1>7. WellFormed(h2, Free)
  BY FreeFacts DEF WellFormed
<1>8. Renewed(h2, {i, New})
  BY <1>4, <1>6, <1>7 DEF Renewed
<1> QED
  BY <1>1, <1>5, <1>8, ChangedOK

\* A wrapper gets a new object to guard, or another one it names.
Adopts(o) ==
    /\ o.kind # "epdevice"
    /\ \A k \in DOMAIN o.guards : o.guards[k] = New \/ heap[o.guards[k]].kind \notin InPlace
    /\ o.kind = "dynamic" =>
          /\ o.guards # <<>> /\ o.guards[Len(o.guards)] # New
          /\ heap[o.guards[Len(o.guards)]].kind = "session"

LEMMA AdoptHeap ==
  ASSUME Calling, Room(1), NEW i \in Ids, heap[i].kind # "free",
         NEW o \in Records, o.kind = heap[i].kind, Adopts(o),
         NEW object, Fresh(object), object.kind \notin InPlace,
         NEW h2, h2 = [heap EXCEPT ![i] = o, ![New] = object]
  PROVE  HeapOK(h2)
<1>1. HeapOK(heap) /\ area \in Areas /\ heap \in [Ids -> Records]
  BY DEF Calling, IInv, HeapOK
<1>2. New \in Ids /\ heap[New].kind = "free" /\ New # i
  BY <1>1, NewIsFree
<1>3. object \in Records
  BY DEF Fresh, WellFormed
<1>4. /\ h2 \in [Ids -> Records] /\ h2[New] = object /\ h2[i] = o
      /\ \A j \in Ids : j \notin {i, New} => h2[j] = heap[j]
  BY <1>1, <1>2, <1>3
<1>5. Changed(heap, h2, {i, New})
  BY <1>2, <1>4 DEF Changed, Same, InPlace
<1>6. WellFormed(h2, object)
  BY <1>5, WellFormedKept DEF Fresh
<1>7. o.guards \in Seq(Ids)
  BY DEF Records
<1>8. \A k \in DOMAIN o.guards : h2[o.guards[k]].kind \notin InPlace
  <2> TAKE k \in DOMAIN o.guards
  <2>1. o.guards[k] \in Ids /\ (o.guards[k] = New \/ heap[o.guards[k]].kind \notin InPlace)
    BY <1>7 DEF Adopts
  <2> QED
    BY <2>1, <1>4, <1>5, KindsKept
<1>9. ASSUME o.kind = "dynamic"
      PROVE  o.guards # <<>> /\ h2[o.guards[Len(o.guards)]].kind = "session"
  <2>1. o.guards # <<>> /\ heap[o.guards[Len(o.guards)]].kind = "session"
    BY <1>9 DEF Adopts
  <2>4. o.guards[Len(o.guards)] \in Ids
    BY <1>7, <2>1
  <2>2. o.guards[Len(o.guards)] \in Ids /\ heap[o.guards[Len(o.guards)]].kind \notin InPlace
    BY <2>1, <2>4, FirmKinds
  <2>3. h2[o.guards[Len(o.guards)]].kind = heap[o.guards[Len(o.guards)]].kind
    BY <2>2, <1>5 DEF Changed, Same
  <2> QED
    BY <2>1, <2>3
<1>10. WellFormed(h2, o)
  BY <1>8, <1>9 DEF WellFormed, Adopts
<1>11. Renewed(h2, {i, New})
  BY <1>4, <1>6, <1>10 DEF Renewed
<1> QED
  BY <1>1, <1>5, <1>11, ChangedOK

LEMMA AdoptOK ==
  ASSUME Calling, Room(1), NEW i \in Ids, heap[i].kind # "free",
         NEW o \in Records, o.kind = heap[i].kind, Adopts(o),
         NEW object, Fresh(object), object.kind \notin InPlace,
         heap' = [heap EXCEPT ![i] = o, ![New] = object], UNCHANGED <<area, dropping>>
  PROVE  IInv'
<1>1. HeapOK(heap')
  BY AdoptHeap
<1> QED
  BY <1>1, NoTasks DEF Calling, IInv

LEMMA WithUsesType == ASSUME HeapOK(heap), NEW s \in Seq(Ids) PROVE WithUses(s) \in SUBSET Ids
<1>1. \A k \in DOMAIN s : s[k] \in Ids
  OBVIOUS
<1>2. \A i \in Ids : heap[i].uses \subseteq Ids
  BY DEF HeapOK, Records
<1> QED
  BY <1>1, <1>2 DEF WithUses, ToSet

LEMMA TakenBoth ==
  ASSUME NEW s, Taken(s), NEW t, Taken(t), \A k \in DOMAIN s, n \in DOMAIN t : s[k] # t[n]
  PROVE  Taken(s \o t)
<1>1. s \in Seq(Ids) /\ t \in Seq(Ids) /\ s \o t \in Seq(Ids) /\ Len(s) \in Nat
  BY DEF Taken
<1>2. \A k \in DOMAIN (s \o t) :
         \/ k \in DOMAIN s /\ (s \o t)[k] = s[k]
         \/ k \in Nat /\ k - Len(s) \in DOMAIN t /\ (s \o t)[k] = t[k - Len(s)]
  BY <1>1
<1>3. \A k \in DOMAIN (s \o t) : heap[(s \o t)[k]].handles > 0
  BY <1>2 DEF Taken
<1>4. ASSUME NEW k \in DOMAIN (s \o t), NEW n \in DOMAIN (s \o t), (s \o t)[k] = (s \o t)[n]
      PROVE  k = n
  <2>1. CASE k \in DOMAIN s /\ (s \o t)[k] = s[k]
    BY <1>2, <1>4, <2>1 DEF Taken
  <2>2. CASE k \in Nat /\ k - Len(s) \in DOMAIN t /\ (s \o t)[k] = t[k - Len(s)]
    <3>1. ~(n \in DOMAIN s /\ (s \o t)[n] = s[n])
      BY <1>4, <2>2
    <3>2. n \in Nat /\ n - Len(s) \in DOMAIN t /\ (s \o t)[n] = t[n - Len(s)]
      BY <1>2, <3>1
    <3>3. k - Len(s) = n - Len(s)
      BY <1>4, <2>2, <3>2 DEF Taken
    <3> QED
      BY <1>1, <2>2, <3>2, <3>3
  <2> QED
    BY <1>2, <2>1, <2>2
<1> QED
  BY <1>1, <1>3, <1>4 DEF Taken

\* An optional argument.
LEMMA OptionalOK ==
  ASSUME Calling, NEW kind, NEW s \in AtMostOne(Movable(kind))
  PROVE  /\ Taken(s) /\ s \in Seq(Ids) /\ \A k \in DOMAIN s : heap[s[k]].kind = kind
         /\ kind \notin InPlace => Guardable(s)
<1>1. CASE s = <<>>
  BY <1>1, TakenNone, GuardableNone
<1>2. CASE \E i \in Movable(kind) : s = <<i>>
  <2>1. PICK i \in Movable(kind) : s = <<i>>
    BY <1>2
  <2>2. i \in Ids /\ heap[i].kind = kind /\ Taken(<<i>>)
    BY MovableFacts
  <2> QED
    BY <2>1, <2>2, GuardableOne
<1> QED
  BY <1>1, <1>2 DEF AtMostOne

(***************************************************************************)
(* Environments and devices                                                *)
(***************************************************************************)
LEMMA ThreadManagerOK == ASSUME Calling, with_thread_manager PROVE IInv'
<1>1. PICK t \in Movable("threading") :
          \/ /\ Room(1)
             /\ heap' = [heap EXCEPT ![t].guards = <<New>>, ![t].uses = {New},
                                     ![New] = Owned(Object("manager", <<>>, {}))]
             /\ UNCHANGED <<area, dropping, leaked>>
          \/ Refuses(<<t>>)
  BY DEF with_thread_manager
<1>2. t \in Ids /\ heap[t].kind = "threading" /\ heap[t] \in Records /\ Taken(<<t>>)
  BY MovableFacts
<1>3. ASSUME Room(1),
             heap' = [heap EXCEPT ![t].guards = <<New>>, ![t].uses = {New},
                                  ![New] = Owned(Object("manager", <<>>, {}))],
             UNCHANGED <<area, dropping>>
      PROVE  IInv'
  <2> DEFINE o == [heap[t] EXCEPT !.guards = <<New>>, !.uses = {New}]
             m == Owned(Object("manager", <<>>, {}))
  <2>1. New \in Ids /\ heap[New].kind = "free" /\ New # t
    BY <1>2, <1>3, NewIsFree DEF Calling, IInv
  <2>2. o \in Records /\ o.kind = heap[t].kind /\ o.guards = <<New>>
    <3>1. <<New>> \in Seq(Ids) /\ {New} \in SUBSET Ids
      BY <2>1
    <3> QED
      BY <1>2, <3>1 DEF Records
  <2>3. Fresh(m) /\ m.kind \notin InPlace
    BY PlainKinds, FirmKinds, SimpleIs
  <2>4. heap' = [heap EXCEPT ![t] = o, ![New] = m]
    BY <1>3, <2>1, <1>2
  <2>5. Adopts(o)
    BY <1>2, <2>2 DEF Adopts
  <2> QED
    BY <1>2, <1>3, <2>2, <2>3, <2>4, <2>5, AdoptOK DEF InPlace
<1> QED
  BY <1>1, <1>2, <1>3, RefusesOK

\* An environment is an object like others, whichever logger is in force.
LEMMA InForceType ==
  ASSUME HeapOK(heap), NEW own \in SUBSET Ids
  PROVE  InForce(own) \in SUBSET Ids
<1>1. \A e \in OfKind({"env"}) : heap[e].calls \in SUBSET Ids
  BY DEF HeapOK, OfKind, Records
<1>2. UNION {heap[e].calls : e \in OfKind({"env"})} \in SUBSET Ids
  BY <1>1
<1> QED
  BY <1>2 DEF InForce

LEMMA EnvInnerIs ==
  ASSUME HeapOK(heap), NEW guards \in Seq(Ids), NEW uses \in SUBSET Ids, NEW logger \in SUBSET Ids
  PROVE  /\ EnvInner(guards, uses, logger) \in Records /\ EnvInner(guards, uses, logger).kind = "env"
         /\ EnvInner(guards, uses, logger).guards = guards
<1> DEFINE o == Object("env", guards, uses)
           l == InForce(logger)
<1>1. o \in Records /\ o.kind = "env" /\ o.guards = guards
  BY ObjectIs DEF Kinds
<1>2. l \in SUBSET Ids
  BY InForceType
<1> HIDE DEF o, l
<1>3. /\ Logging(o, l) \in Records /\ Logging(o, l).kind = "env" /\ Logging(o, l).guards = guards
  BY <1>1, <1>2 DEF Logging, Records
<1> QED
  BY <1>3 DEF EnvInner, o, l

LEMMA EnvInnerFresh ==
  ASSUME HeapOK(heap), NEW guards, Guardable(guards), NEW uses \in SUBSET Ids,
         NEW logger \in SUBSET Ids
  PROVE  Fresh(EnvInner(guards, uses, logger))
<1> DEFINE o == EnvInner(guards, uses, logger)
<1>1. guards \in Seq(Ids)
  BY DEF Guardable
<1>2. o \in Records /\ o.kind = "env" /\ o.guards = guards
  BY <1>1, EnvInnerIs
<1> HIDE DEF o
<1>3. Fresh(o)
  BY <1>2 DEF Fresh, WellFormed, Guardable
<1> QED
  BY <1>3 DEF o

LEMMA NewEnvironmentOK == ASSUME Calling, NewEnvironment PROVE IInv'
<1>1. {} \in SUBSET Ids /\ HeapOK(heap)
  BY DEF Calling, IInv
<1>2. Fresh(EnvInner(<<>>, {}, {}))
  BY <1>1, GuardableNone, EnvInnerFresh
<1> QED
  BY <1>2, MakeOK DEF NewEnvironment

LEMMA GlobalPoolsOK == ASSUME Calling, new_with_global_thread_pools PROVE IInv'
<1>1. PICK t \in Movable("threading") : Consume(<<t>>, WithPools(t))
  BY DEF new_with_global_thread_pools
<1>2. t \in Ids /\ heap[t].kind = "threading" /\ Taken(<<t>>) /\ Guardable(<<t>>)
  BY MovableFacts, GuardableOne, FirmKinds
<1>3. WithUses(<<t>>) \in SUBSET Ids
  <2>1. <<t>> \in Seq(Ids)
    BY <1>2
  <2> QED
    BY <2>1, WithUsesType DEF Calling, IInv
<1>4. Fresh(WithPools(t))
  <2>1. HeapOK(heap) /\ {} \in SUBSET Ids
    BY DEF Calling, IInv
  <2> QED
    BY <1>2, <1>3, <2>1, EnvInnerFresh DEF WithPools
<1> QED
  BY <1>1, <1>2, <1>4, ConsumeOK

\* The boxed closure of a logger, and the wrapper that guards it.
LEMMA WithLoggerOK ==
  ASSUME Calling, NEW taken, Taken(taken), Room(2), NEW o \in Records,
         o.kind \in {"env", "envoptions"},
         \A k \in DOMAIN o.guards : o.guards[k] = New \/ heap[o.guards[k]].kind \notin InPlace
  PROVE  HeapOK(NewTwo(taken, UserLogger, o))
<1>1. UserLogger \in Records /\ UserLogger.kind = "logger" /\ UserLogger.guards = <<>>
  BY PlainKinds, SimpleIs DEF UserLogger
<1>2. Pairs(UserLogger, UserLogger, o)
  BY <1>1 DEF Pairs
<1>3. Pairs(o, UserLogger, o)
  BY <1>1, FirmKinds DEF Pairs
<1> QED
  BY <1>2, <1>3, TwoOK

LEMMA LoggerOK == ASSUME Calling, new_with_logger PROVE IInv'
<1> DEFINE env(ts) == EnvInner(Append(ts, New), {New} \cup WithUses(ts), {New})
<1>1. PICK ts \in AtMostOne(Movable("threading")) :
        \/ Room(2) /\ heap' = NewTwo(ts, UserLogger, env(ts)) /\ UNCHANGED <<area, dropping>>
        \/ Refuses(ts)
  BY DEF new_with_logger, NewTwo
<1>2. Taken(ts) /\ ts \in Seq(Ids) /\ Guardable(ts)
  BY OptionalOK, FirmKinds
<1>3. CASE Refuses(ts)
  BY <1>2, <1>3, RefusesOK
<1>4. CASE Room(2) /\ heap' = NewTwo(ts, UserLogger, env(ts)) /\ UNCHANGED <<area, dropping>>
  <2> DEFINE gs == Append(ts, New)
             o == env(ts)
  <2>1. New \in Ids
    BY <1>4, New2IsFree DEF Calling, IInv
  <2>2. gs \in Seq(Ids) /\ \A k \in DOMAIN gs : gs[k] = New \/ heap[gs[k]].kind \notin InPlace
    BY <1>2, <2>1 DEF Guardable
  <2>3. {New} \cup WithUses(ts) \in SUBSET Ids /\ {New} \in SUBSET Ids /\ HeapOK(heap)
    BY <1>2, <2>1, WithUsesType DEF Calling, IInv
  <2>4. o \in Records /\ o.kind = "env" /\ o.guards = gs
    <3> DEFINE us == {New} \cup WithUses(ts)
               own == {New}
    <3>1. gs \in Seq(Ids) /\ us \in SUBSET Ids /\ own \in SUBSET Ids
      BY <2>2, <2>3
    <3>2. o = EnvInner(gs, us, own)
      OBVIOUS
    <3> HIDE DEF gs, us, own, o
    <3> QED
      BY <2>3, <3>1, <3>2, EnvInnerIs
  <2> HIDE DEF gs, o, env
  <2>5. HeapOK(NewTwo(ts, UserLogger, o))
    BY <1>2, <1>4, <2>2, <2>4, WithLoggerOK
  <2>6. heap' = NewTwo(ts, UserLogger, o)
    BY <1>4 DEF o
  <2> QED
    BY <1>4, <2>5, <2>6, NoTasks DEF Calling, IInv
<1> QED
  BY <1>1, <1>3, <1>4

LEMMA CreationOptionsOK == ASSUME Calling, EnvCreationOptions PROVE IInv'
<1>1. PICK ts \in AtMostOne(Movable("threading")), ks \in AtMostOne(Movable("kvps")) :
        /\ Room(2)
        /\ heap' = NewTwo(ts \o ks, UserLogger, Wrapper("envoptions", <<New>> \o ts \o ks))
        /\ UNCHANGED <<area, dropping, leaked>>
  BY DEF EnvCreationOptions, NewTwo
<1> DEFINE both == ts \o ks
           gs == <<New>> \o ts \o ks
           o == Wrapper("envoptions", gs)
<1>2. /\ Taken(ts) /\ ts \in Seq(Ids) /\ Guardable(ts) /\ Taken(ks) /\ ks \in Seq(Ids) /\ Guardable(ks)
      /\ \A k \in DOMAIN ts : heap[ts[k]].kind = "threading"
      /\ \A k \in DOMAIN ks : heap[ks[k]].kind = "kvps"
  BY OptionalOK, FirmKinds
<1>3. Taken(both) /\ Guardable(both)
  BY <1>2, TakenBoth, GuardableBoth
<1>4. New \in Ids
  BY <1>1, New2IsFree DEF Calling, IInv
<1>5. gs = <<New>> \o both /\ both \in Seq(Ids)
  BY <1>2, <1>4
<1>6. heap' = NewTwo(both, UserLogger, o)
  BY <1>1
<1> HIDE DEF both, gs
<1>7. gs \in Seq(Ids) /\ \A k \in DOMAIN gs : gs[k] = New \/ heap[gs[k]].kind \notin InPlace
  <2>1. gs \in Seq(Ids) /\ \A k \in DOMAIN gs : gs[k] = New \/ \E n \in DOMAIN both : gs[k] = both[n]
    BY <1>4, <1>5
  <2> QED
    BY <2>1, <1>3 DEF Guardable
<1>8. o \in Records /\ o.kind = "envoptions" /\ o.guards = gs
  <2>1. "envoptions" \in Kinds /\ {} \in SUBSET Ids
    BY DEF Kinds
  <2> QED
    BY <1>7, <2>1, ObjectIs
<1> HIDE DEF o
<1>9. HeapOK(NewTwo(both, UserLogger, o))
  BY <1>1, <1>3, <1>7, <1>8, WithLoggerOK
<1> QED
  BY <1>1, <1>6, <1>9, NoTasks DEF Calling, IInv

LEMMA CreateEnvOK == ASSUME Calling, create_env PROVE IInv'
<1> DEFINE Fields(o, k) == Among(heap[o].guards, OfKind({k}))
           Keeps(o) == Fields(o, "threading") \o Fields(o, "logger")
           env(o) == EnvInner(Keeps(o), WithUses(Keeps(o)), ToSet(Fields(o, "logger")))
<1>1. PICK o \in Movable("envoptions") :
        \/ /\ Room(1)
           /\ heap' = [heap EXCEPT ![o] = Free, ![New] = env(o)]
           /\ dropping' = Unrefs(Fields(o, "kvps"))
           /\ UNCHANGED <<area, leaked>>
        \/ Refuses(<<o>>)
  BY DEF create_env
<1>2. o \in Ids /\ heap[o].kind = "envoptions" /\ Taken(<<o>>) /\ HeapOK(heap)
  BY MovableFacts DEF Calling, IInv
<1> DEFINE kept == Keeps(o)
           kvps == Fields(o, "kvps")
           logger == Fields(o, "logger")
           e == EnvInner(kept, WithUses(kept), ToSet(logger))
           h2 == [heap EXCEPT ![o] = Free, ![New] = e]
<1>3. Guardable(kept) /\ Guardable(kvps) /\ Guardable(logger)
  BY <1>2, GuardableOf, AmongGuardable, GuardableBoth
<1>4. ASSUME Room(1), heap' = h2, dropping' = Unrefs(kvps), area' = area PROVE IInv'
  <2> HIDE DEF kept, kvps, logger
  <2>1. kept \in Seq(Ids) /\ kvps \in Seq(Ids) /\ WithUses(kept) \in SUBSET Ids
    BY <1>2, <1>3, WithUsesType DEF Guardable
  <2>2. Fresh(e)
    <3>1. ToSet(logger) \in SUBSET Ids
      BY <1>3 DEF Guardable, ToSet
    <3> QED
      BY <1>2, <1>3, <2>1, <3>1, EnvInnerFresh
  <2> HIDE DEF e
  <2>3. heap[o].kind \in InPlace /\ heap[o].kind # "free"
    BY <1>2 DEF InPlace
  <2>4. HeapOK(h2) /\ Changed(heap, h2, {o, New})
    BY <1>2, <1>4, <2>2, <2>3, ExchangeOK
  <2> HIDE DEF h2
  <2>5. \A k \in DOMAIN kvps : h2[kvps[k]].kind # "free"
    <3> TAKE k \in DOMAIN kvps
    <3>1. kvps[k] \in Ids /\ heap[kvps[k]].kind \notin InPlace
      BY <1>3, <2>1 DEF Guardable
    <3>2. h2[kvps[k]].kind = heap[kvps[k]].kind
      BY <2>4, <3>1 DEF Changed, Same
    <3> QED
      BY <3>1, <3>2 DEF InPlace
  <2>6. TasksOK(h2, Unrefs(kvps))
    BY <2>1, <2>5, UnrefTasks
  <2> QED
    BY <1>4, <2>4, <2>6 DEF Calling, IInv
<1> QED
  BY <1>1, <1>2, <1>4, RefusesOK

LEMMA CloneHeldOK == ASSUME Calling, NEW kind, NEW i \in Held(kind), Clone(i) PROVE IInv'
BY HeldFacts, CloneOK

LEMMA EnvironmentOK == ASSUME Calling, EnvironmentNext PROVE IInv'
<1>0. {} \in SUBSET Ids
  OBVIOUS
<1>1. ASSUME ThreadingOptions \/ MemoryInfo \/ try_clone_descriptor \/ KeyValuePairs
      PROVE  IInv'
  BY <1>0, <1>1, SimpleOK, PlainKinds
     DEF ThreadingOptions, MemoryInfo, try_clone_descriptor, KeyValuePairs
<1>2. ASSUME CloneEnvironment PROVE IInv'
  BY <1>2, CloneHeldOK DEF CloneEnvironment
<1> QED
  BY <1>1, <1>2, NewEnvironmentOK, ThreadManagerOK, GlobalPoolsOK, LoggerOK, CreationOptionsOK, CreateEnvOK
     DEF EnvironmentNext

(***************************************************************************)
(* Devices and imported resources                                          *)
(***************************************************************************)
LEMMA EpDeviceOK == ASSUME Calling, get_ep_devices PROVE IInv'
<1>1. PICK e \in Held("env") : Make(Object("epdevice", <<e>>, {e}))
  BY DEF get_ep_devices
<1>2. e \in Ids /\ heap[e].kind \notin InPlace
  BY HeldFacts, FirmKinds
<1> DEFINE o == Object("epdevice", <<e>>, {e})
<1>3. o \in Records /\ o.kind = "epdevice" /\ o.guards = <<e>>
  <2>1. "epdevice" \in Kinds /\ <<e>> \in Seq(Ids) /\ {e} \in SUBSET Ids
    BY <1>2 DEF Kinds
  <2> QED
    BY <2>1, ObjectIs, ZenonT(40)
<1> HIDE DEF o
<1>4. Fresh(o)
  BY <1>2, <1>3 DEF Fresh, WellFormed
<1> QED
  BY <1>1, <1>4, MakeOK DEF o

LEMMA DeviceOK == ASSUME Calling, DeviceNext PROVE IInv'
<1>0. {} \in SUBSET Ids /\ HeapOK(heap)
  BY DEF Calling, IInv
<1>1. ASSUME NewEnvironment \/ MemoryInfo \/ ArenaCfg PROVE IInv'
  BY <1>0, <1>1, SimpleOK, NewEnvironmentOK, PlainKinds DEF MemoryInfo, ArenaCfg
<1>2. ASSUME CloneEnvironment PROVE IInv'
  BY <1>2, CloneHeldOK DEF CloneEnvironment
<1>3. ASSUME register_allocator PROVE IInv'
  <2>1. PICK e \in Held("env"), m \in Held("memory"), a \in Held("arena") :
          Undoes(<<>>, Object("call", <<>>, {e, m, a}))
    BY <1>3 DEF register_allocator
  <2>2. {e, m, a} \in SUBSET Ids
    BY HeldFacts
  <2> QED
    BY <2>1, <2>2, SimpleOK, PlainKinds
<1>4. ASSUME create_shared_allocator \/ get_shared_allocator \/ hardware_devices PROVE IInv'
  <2>1. PICK e \in Held("env") : \/ Make(Object("allocator", <<e>>, {e}))
                                 \/ Make(Object("hwdevice", <<e>>, {e}))
    BY <1>4 DEF create_shared_allocator, get_shared_allocator, SharedAllocator, hardware_devices
  <2>2. {e} \in SUBSET Ids /\ Guardable(<<e>>)
    BY HeldFacts, FirmKinds, GuardableOne
  <2> QED
    BY <2>1, <2>2, ObjectOK, PlainKinds
<1>5. ASSUME allocate \/ for_device PROVE IInv'
  <2>1. PICK a \in HeldOf({"allocator", "epdevice"}) :
          \/ Make(Borrowing(Object("allocation", <<>>, {a}), {a}))
          \/ Make(Borrowing(Object("importer", <<>>, {a}), {a}))
    BY <1>5 DEF allocate, for_device, HeldOf
  <2>2. {a} \in SUBSET Ids
    BY HeldFacts DEF HeldOf
  <2> QED
    BY <1>0, <2>1, <2>2, LentOK, PlainKinds
<1>6. ASSUME stats PROVE IInv'
  BY <1>0, <1>6, SimpleOK, LeaksOK, PlainKinds DEF stats
<1>7. ASSUME hardware_device_ep_incompatibility_details PROVE IInv'
  BY <1>0, <1>7, SimpleOK, PlainKinds DEF hardware_device_ep_incompatibility_details
<1>8. ASSUME EpDeviceHardware \/ SyncStream PROVE IInv'
  <2>1. PICK d \in Held("epdevice") : \/ Make(Object("hwdevice", heap[d].guards, heap[d].uses))
                                      \/ Make(Object("syncstream", heap[d].guards, heap[d].uses))
    BY <1>8 DEF EpDeviceHardware, SyncStream
  <2>2. Guardable(heap[d].guards) /\ heap[d].uses \in SUBSET Ids
    BY <1>0, HeldFacts, GuardableOf
  <2> QED
    BY <2>1, <2>2, ObjectOK, PlainKinds
<1>9. ASSUME import_memory \/ import_semaphore PROVE IInv'
  BY <1>0, <1>9, SimpleOK, PlainKinds DEF import_memory, import_semaphore
<1>10. ASSUME create_tensor_from_memory PROVE IInv'
  <2>1. PICK m \in Held("extmem") : MakeOrUndo(Borrowing(Object("value", <<>>, {m}), {m}))
    BY <1>10 DEF create_tensor_from_memory
  <2>2. {m} \in SUBSET Ids
    BY HeldFacts
  <2> QED
    BY <2>1, <2>2, LentOK, PlainKinds
<1> QED
  BY <1>1, <1>2, <1>3, <1>4, <1>5, <1>6, <1>7, <1>8, <1>9, <1>10, EpDeviceOK DEF DeviceNext

(***************************************************************************)
(* Sessions and runs                                                       *)
(***************************************************************************)
LEMMA ToSetType == ASSUME NEW s \in Seq(Ids) PROVE ToSet(s) \in SUBSET Ids
BY DEF ToSet

\* An object takes the place of another one.
Replaced(i, o) == [heap EXCEPT ![i] = o]

LEMMA ReplaceHeap ==
  ASSUME Calling, NEW i \in Ids, heap[i].kind # "free", NEW o, Fresh(o),
         heap[i].kind \in InPlace \/ o.kind = heap[i].kind
  PROVE  /\ HeapOK(Replaced(i, o)) /\ Replaced(i, o)[i] = o
         /\ Changed(heap, Replaced(i, o), {i})
<1> DEFINE h2 == Replaced(i, o)
<1>1. HeapOK(heap) /\ o \in Records
  BY DEF Calling, IInv, Fresh, WellFormed
<1>2. h2 \in [Ids -> Records] /\ h2[i] = o /\ \A j \in Ids : j # i => h2[j] = heap[j]
  BY <1>1 DEF HeapOK, Replaced
<1> HIDE DEF h2
<1>3. Changed(heap, h2, {i})
  <2>1. \A j \in Ids : Same(heap[j], heap[j])
    BY DEF Same
  <2> QED
    BY <1>2, <2>1 DEF Changed, Same
<1>4. WellFormed(h2, o)
  BY <1>3, WellFormedKept DEF Fresh
<1>5. HeapOK(h2)
  <2>1. Renewed(h2, {i})
    BY <1>2, <1>4 DEF Renewed
  <2> QED
    BY <1>1, <1>3, <2>1, ChangedOK
<1> QED
  BY <1>2, <1>3, <1>5 DEF h2

LEMMA ReplaceOK ==
  ASSUME Calling, NEW i \in Ids, heap[i].kind # "free", NEW o, Fresh(o),
         heap[i].kind \in InPlace \/ o.kind = heap[i].kind,
         heap' = Replaced(i, o), UNCHANGED <<area, dropping>>
  PROVE  IInv'
<1>1. HeapOK(Replaced(i, o))
  BY ReplaceHeap
<1> QED
  BY <1>1, NoTasks DEF Calling, IInv

LEMMA InitializerOK == ASSUME Calling, OwnedInitializer PROVE IInv'
<1>1. PICK t \in Movable("tensorbuffer") :
        \/ heap' = [heap EXCEPT ![t].kind = "initializer"] /\ UNCHANGED <<area, dropping>>
        \/ Refuses(<<t>>)
  BY DEF OwnedInitializer
<1>2. t \in Ids /\ heap[t].kind = "tensorbuffer" /\ heap[t] \in Records /\ Taken(<<t>>)
  BY MovableFacts
<1> DEFINE o == [heap[t] EXCEPT !.kind = "initializer"]
<1>3. Fresh(o)
  <2>1. WellFormed(heap, heap[t])
    BY <1>2 DEF Calling, IInv, HeapOK
  <2>2. o \in Records /\ o.kind = "initializer" /\ o.guards = heap[t].guards
    <3>1. "initializer" \in Kinds
      BY DEF Kinds
    <3> QED
      BY <1>2, <3>1 DEF Records
  <2> QED
    BY <2>1, <2>2 DEF Fresh, WellFormed
<1>4. ASSUME heap' = [heap EXCEPT ![t].kind = "initializer"], UNCHANGED <<area, dropping>>
      PROVE  IInv'
  <2>1. heap' = Replaced(t, o)
    BY <1>2, <1>4 DEF Replaced, Calling, IInv, HeapOK
  <2>2. heap[t].kind \in InPlace /\ heap[t].kind # "free"
    BY <1>2 DEF InPlace
  <2> HIDE DEF o
  <2> QED
    BY <1>2, <1>3, <1>4, <2>1, <2>2, ReplaceOK
<1> QED
  BY <1>1, <1>2, <1>4, RefusesOK

LEMMA SlotOK == ASSUME Calling, with_user_logging_function PROVE IInv'
<1>1. PICK t \in Movable("options") :
        /\ Room(1)
        /\ heap' = [heap EXCEPT ![t].guards = Append(@, New), ![New] = Owned(Object("slot", <<>>, {}))]
        /\ UNCHANGED <<area, dropping>>
  BY DEF with_user_logging_function
<1>2. t \in Ids /\ heap[t].kind = "options" /\ heap[t] \in Records /\ heap[t].guards \in Seq(Ids)
  BY MovableFacts
<1>3. New \in Ids /\ heap[New].kind = "free"
  BY <1>1, NewIsFree DEF Calling, IInv
<1> DEFINE o == [heap[t] EXCEPT !.guards = Append(@, New)]
           slot == Owned(Object("slot", <<>>, {}))
<1>4. o \in Records /\ o.kind = heap[t].kind /\ o.guards = Append(heap[t].guards, New)
  <2>1. Append(heap[t].guards, New) \in Seq(Ids)
    BY <1>2, <1>3
  <2> QED
    BY <1>2, <2>1 DEF Records
<1>5. heap' = [heap EXCEPT ![t] = o, ![New] = slot]
  BY <1>1, <1>2, <1>3 DEF Calling, IInv, HeapOK
<1> HIDE DEF o
<1>6. Adopts(o)
  <2>1. Guardable(heap[t].guards)
    BY <1>2, GuardableOf DEF Calling, IInv
  <2>2. \A k \in DOMAIN o.guards : o.guards[k] = New \/ heap[o.guards[k]].kind \notin InPlace
    BY <1>2, <1>3, <1>4, <2>1 DEF Guardable
  <2> QED
    BY <1>2, <1>4, <2>2 DEF Adopts
<1>7. Fresh(slot) /\ slot.kind \notin InPlace
  BY PlainKinds, FirmKinds, SimpleIs
<1> HIDE DEF slot
<1> QED
  BY <1>1, <1>2, <1>4, <1>5, <1>6, <1>7, AdoptOK

\* A fresh object at the next place, over a heap that has the same objects.
SameObjects(base) == base \in [Ids -> Records] /\ \A i \in Ids : Same(heap[i], base[i])
Over(base, object) == [base EXCEPT ![New] = object]

LEMMA FreshOver ==
  ASSUME Calling, Room(1), NEW base, SameObjects(base), NEW object, Fresh(object)
  PROVE  /\ HeapOK(Over(base, object)) /\ Over(base, object)[New] = object
         /\ New \in Ids /\ Unguarded(Over(base, object), New)
         /\ \A i \in Ids : heap[i].kind # "free" => i # New /\ Over(base, object)[i].kind # "free"
<1> DEFINE h2 == Over(base, object)
<1>1. HeapOK(heap) /\ New \in Ids /\ heap[New].kind = "free" /\ heap[New].kind \in InPlace
  BY NewIsFree DEF Calling, IInv, InPlace
<1>2. object \in Records /\ object.kind # "free" /\ WellFormed(heap, object)
  BY DEF Fresh, WellFormed
<1>3. h2 \in [Ids -> Records] /\ h2[New] = object /\ \A i \in Ids : i # New => h2[i] = base[i]
  BY <1>1, <1>2 DEF Over, SameObjects
<1> HIDE DEF h2
<1>4. Changed(heap, h2, {New})
  BY <1>1, <1>3 DEF Changed, SameObjects
<1>5. HeapOK(h2)
  <2>1. WellFormed(h2, object)
    BY <1>2, <1>4, WellFormedKept
  <2>2. Renewed(h2, {New})
    BY <1>3, <2>1 DEF Renewed
  <2> QED
    BY <1>1, <1>4, <2>2, ChangedOK
<1>6. Unguarded(h2, New)
  <2>1. Unguarded(heap, New)
    BY <1>1, InPlaceUnguarded
  <2>2. NotGuardedBy(h2, {New}, New)
    BY <1>1, <1>2, <1>3 DEF NotGuardedBy, WellFormed
  <2> QED
    BY <1>4, <2>1, <2>2, StaysUnguarded
<1>7. \A i \in Ids : heap[i].kind # "free" => i # New /\ h2[i].kind # "free"
  BY <1>1, <1>3 DEF SameObjects, Same
<1> QED
  BY <1>1, <1>3, <1>5, <1>6, <1>7 DEF h2

\* The reference of the slot that a native session never gives back.
LEMMA LeaksSlotIs ==
  ASSUME Calling, NEW taken, Taken(taken), NEW o \in Ids
  PROVE  SameObjects(LeaksSlot(Without(taken), o))
<1> DEFINE slots == FieldsOf(o, {"slot"})
           base == LeaksSlot(Without(taken), o)
<1>1. HeapOK(heap) /\ SameObjects(Without(taken))
  BY WithoutOK DEF Calling, IInv, SameObjects
<1>2. Guardable(slots)
  BY <1>1, GuardableOf, AmongGuardable DEF FieldsOf
<1> HIDE DEF slots
<1>3. ASSUME NEW i \in Ids PROVE base[i] \in Records /\ Same(heap[i], base[i])
  <2> DEFINE w == Without(taken)[i]
  <2>1. w \in Records /\ Same(heap[i], w)
    BY <1>1 DEF SameObjects
  <2>2. base[i] = [w EXCEPT !.handles = @ + Occurrences(i, slots)]
    BY DEF LeaksSlot, slots
  <2>3. /\ Occurrences(i, slots) \in Nat
        /\ Occurrences(i, slots) = 0 <=> \A k \in DOMAIN slots : slots[k] # i
    BY <1>2, OccurrencesOnce DEF Guardable
  <2> HIDE DEF w
  <2>4. /\ base[i] \in Records /\ base[i].kind = w.kind /\ base[i].guards = w.guards
        /\ Occurrences(i, slots) = 0 => base[i] = w
    BY <2>1, <2>2, <2>3 DEF Records
  <2>5. w = Free => Occurrences(i, slots) = 0
    <3>1. heap[i].kind = "free" => \A k \in DOMAIN slots : slots[k] # i
      BY <1>2 DEF Guardable, InPlace
    <3> QED
      BY <2>1, <2>3, <3>1, FreeFacts DEF Same
  <2> QED
    BY <2>1, <2>4, <2>5 DEF Same
<1>4. base \in [Ids -> Records]
  BY <1>3 DEF LeaksSlot
<1> QED
  BY <1>3, <1>4 DEF SameObjects

LEMMA JoinPair == ASSUME NEW S, NEW a \in S, NEW b \in S PROVE <<a>> \o <<b>> = <<a, b>>
<1> DEFINE s == <<a>>
           t == <<b>>
           u == <<a, b>>
<1>1. /\ s \in Seq(S) /\ t \in Seq(S) /\ Len(s) = 1 /\ Len(t) = 1 /\ s[1] = a /\ t[1] = b
      /\ u \in Seq(S) /\ Len(u) = 2 /\ u[1] = a /\ u[2] = b
  OBVIOUS
<1> HIDE DEF s, t, u
<1>2. s \o t \in Seq(S) /\ Len(s \o t) = 2 /\ (s \o t)[1] = a /\ (s \o t)[2] = b
  BY <1>1, ConcatProperties
<1>3. s \o t = u
  <2> DEFINE v == s \o t
  <2> HIDE DEF v
  <2>1. v \in Seq(S) /\ Len(v) = Len(u) /\ \A i \in 1..Len(v) : v[i] = u[i]
    BY <1>1, <1>2 DEF v
  <2>2. v = u
    BY <1>1, <2>1, SeqEqual
  <2> QED
    BY <2>2 DEF v
<1> QED
  BY <1>3 DEF s, t, u

\* What a session is given are values that guards may keep.
LEMMA SessionFieldsOK ==
  ASSUME Calling, NEW o \in Ids, NEW given, Guardable(given), NEW e \in Held("env")
  PROVE  Guardable(SessionFields(o, given, e))
<1> DEFINE Given(k) == Among(given, OfKind({k}))
<1>1. Guardable(Given("initializer")) /\ Guardable(Given("prepacked")) /\ Guardable(Given("spool"))
  BY AmongGuardable
<1>2. Guardable(FieldsOf(o, {"cudastream"}))
  BY GuardableOf, AmongGuardable DEF Calling, IInv, FieldsOf
<1>3. Guardable(<<e>>)
  BY HeldFacts, GuardableOne, FirmKinds
<1>4. SessionFields(o, given, e) =
        Given("initializer") \o Given("prepacked") \o FieldsOf(o, {"cudastream"}) \o Given("spool") \o <<e>>
  BY DEF SessionFields
<1> HIDE DEF Given
<1> QED
  BY <1>1, <1>2, <1>3, <1>4, GuardableBoth

LEMMA SessionObjectsOK ==
  ASSUME Calling, NEW o \in Ids, NEW given, Guardable(given), NEW e \in Held("env")
  PROVE  /\ Fresh(SessionOf(o, given, e)) /\ Fresh(Owned(SessionOf(o, given, e)))
         /\ Owned(SessionOf(o, given, e)).handles = 0
         /\ Fresh(Owned(add_owned_initializers(OptionsHandle(o), given)))
         /\ Owned(add_owned_initializers(OptionsHandle(o), given)).handles = 0
<1>1. /\ heap[o] \in Records /\ heap[o].uses \in SUBSET Ids /\ heap[o].guards \in Seq(Ids)
      /\ given \in Seq(Ids) /\ e \in Ids
  BY HeldFacts DEF Calling, IInv, HeapOK, Records, Guardable
<1>2. ToSet(given) \in SUBSET Ids /\ ToSet(heap[o].guards) \in SUBSET Ids
  BY <1>1, ToSetType
<1>3. Fresh(SessionOf(o, given, e))
  <2> DEFINE us == {e} \cup ToSet(given) \cup ToSet(heap[o].guards) \cup heap[o].uses
  <2>1. us \in SUBSET Ids
    BY <1>1, <1>2
  <2> HIDE DEF us
  <2> QED
    BY <2>1, SessionFieldsOK, PlainKinds, ObjectFresh DEF SessionOf, us
<1>4. Fresh(add_owned_initializers(OptionsHandle(o), given))
  <2> DEFINE streams == FieldsOf(o, {"cudastream"})
             h == OptionsHandle(o)
  <2>1. Guardable(streams)
    BY GuardableOf, AmongGuardable DEF Calling, IInv, FieldsOf
  <2>2. heap[o].uses \cup ToSet(streams) \in SUBSET Ids
    BY <1>1, <2>1, ToSetType DEF Guardable
  <2>3. Fresh(h) /\ h \in Records
    BY <2>2, PlainKinds, ObjectFresh, GuardableNone DEF OptionsHandle
  <2> HIDE DEF h
  <2>4. [h EXCEPT !.uses = @ \cup ToSet(given)] \in Records
    BY <1>2, <2>3 DEF Records
  <2> QED
    BY <2>3, <2>4 DEF add_owned_initializers, Fresh, WellFormed, h
<1> QED
  BY <1>3, <1>4, OwnedFresh

LEMMA NewSessionOK ==
  ASSUME Calling, NEW taken, Taken(taken), NEW given, Guardable(given),
         \A k \in DOMAIN taken : heap[taken[k]].kind \notin {"options", "stranded"},
         NewSession(taken, given)
  PROVE  IInv'
<1> DEFINE all(o) == <<o>> \o taken
           after(o) == LeaksSlot(Without(all(o)), o)
           refused(o) == Owned(add_owned_initializers(OptionsHandle(o), given))
<1>1. PICK o \in Movable("options") \cup Movable("stranded"), e \in Held("env") :
        \/ Refuses(all(o))
        \/ /\ Room(1) /\ UNCHANGED area
           /\ \/ /\ heap' = Over(after(o), refused(o))
                 /\ dropping' = <<Release(New)>> \o Unrefs(all(o))
              \/ /\ heap' = Over(after(o), SessionOf(o, given, e))
                 /\ dropping' = <<Unref(o)>>
              \/ /\ heap' = Over(after(o), Owned(SessionOf(o, given, e)))
                 /\ dropping' = <<Release(New), Unref(o)>>
  BY DEF NewSession, build_session_options_for_env, Over
<1>2. o \in Ids /\ heap[o].kind \in {"options", "stranded"} /\ Taken(<<o>>) /\ heap[o].kind # "free"
  BY MovableFacts
<1> DEFINE s == all(o)
<1>3. Taken(s) /\ s \in Seq(Ids)
  <2>1. \A k \in DOMAIN <<o>>, n \in DOMAIN taken : <<o>>[k] # taken[n]
    BY <1>2
  <2> QED
    BY <1>2, <2>1, TakenBoth DEF Taken
<1> HIDE DEF all
<1> DEFINE base == after(o)
<1>4. SameObjects(base)
  BY <1>2, <1>3, LeaksSlotIs
<1> HIDE DEF base, refused
<1>5. \A k \in DOMAIN s : s[k] \in Ids /\ heap[s[k]].kind # "free"
  BY <1>3, TakenObjects DEF Calling, IInv
<1> HIDE DEF s
<1>6. CASE Refuses(all(o))
  BY <1>3, <1>6, RefusesOK DEF s
<1>7. ASSUME NEW object, Fresh(object), Room(1), NEW t \in Seq(Ids),
             \A k \in DOMAIN t : t[k] \in Ids /\ heap[t[k]].kind # "free"
      PROVE  /\ HeapOK(Over(base, object)) /\ TasksOK(Over(base, object), Unrefs(t))
             /\ object.handles = 0 => TasksOK(Over(base, object), <<Release(New)>> \o Unrefs(t))
  <2> DEFINE h2 == Over(base, object)
  <2>1. /\ HeapOK(h2) /\ h2[New] = object /\ New \in Ids /\ Unguarded(h2, New)
        /\ \A i \in Ids : heap[i].kind # "free" => i # New /\ h2[i].kind # "free"
    BY <1>4, <1>7, FreshOver
  <2>2. object.kind # "free"
    BY <1>7 DEF Fresh
  <2> HIDE DEF h2
  <2>3. \A k \in DOMAIN t : h2[t[k]].kind # "free" /\ t[k] # New
    BY <1>7, <2>1
  <2>4. TasksOK(h2, Unrefs(t))
    BY <2>3, UnrefTasks
  <2>5. ASSUME object.handles = 0 PROVE TasksOK(h2, <<Release(New)>> \o Unrefs(t))
    <3>1. Absent(Unrefs(t), New)
      BY <2>3, UnrefsOK DEF Absent
    <3>2. Releasable(h2, New)
      BY <2>1, <2>2, <2>5 DEF Releasable
    <3> QED
      BY <2>4, <3>1, <3>2, ReleaseFirst
  <2> QED
    BY <2>1, <2>4, <2>5 DEF h2
<1>8. /\ Fresh(SessionOf(o, given, e)) /\ Fresh(Owned(SessionOf(o, given, e)))
      /\ Owned(SessionOf(o, given, e)).handles = 0
      /\ Fresh(refused(o)) /\ refused(o).handles = 0
  BY <1>2, SessionObjectsOK DEF refused
<1>9. CASE Room(1) /\ UNCHANGED area /\ heap' = Over(base, refused(o))
             /\ dropping' = <<Release(New)>> \o Unrefs(s)
  <2>1. HeapOK(Over(base, refused(o))) /\ TasksOK(Over(base, refused(o)), <<Release(New)>> \o Unrefs(s))
    BY <1>3, <1>5, <1>7, <1>8, <1>9 DEF s
  <2> QED
    BY <1>9, <2>1 DEF Calling, IInv
<1>10. <<o>> \in Seq(Ids) /\ \A k \in DOMAIN <<o>> : <<o>>[k] \in Ids /\ heap[<<o>>[k]].kind # "free"
  BY <1>2
<1>11. Unrefs(<<o>>) = <<Unref(o)>>
  BY DEF Unrefs
<1>12. CASE Room(1) /\ UNCHANGED area /\ heap' = Over(base, SessionOf(o, given, e))
              /\ dropping' = <<Unref(o)>>
  <2>1. HeapOK(Over(base, SessionOf(o, given, e)))
        /\ TasksOK(Over(base, SessionOf(o, given, e)), Unrefs(<<o>>))
    BY <1>7, <1>8, <1>10, <1>12
  <2> QED
    BY <1>11, <1>12, <2>1 DEF Calling, IInv
<1>13. CASE Room(1) /\ UNCHANGED area /\ heap' = Over(base, Owned(SessionOf(o, given, e)))
              /\ dropping' = <<Release(New), Unref(o)>>
  <2> DEFINE r == Owned(SessionOf(o, given, e))
  <2>1. HeapOK(Over(base, r)) /\ TasksOK(Over(base, r), <<Release(New)>> \o Unrefs(<<o>>))
    BY <1>7, <1>8, <1>10, <1>13
  <2>2. <<Release(New)>> \o Unrefs(<<o>>) = <<Release(New), Unref(o)>>
    <3>1. Release(New) \in {Release(New), Unref(o)} /\ Unref(o) \in {Release(New), Unref(o)}
      OBVIOUS
    <3> QED
      BY <1>11, <3>1, JoinPair
  <2> QED
    BY <1>13, <2>1, <2>2 DEF Calling, IInv
<1> QED
  BY <1>1, <1>6, <1>9, <1>12, <1>13 DEF base, s

\* An optional value, and one more that is given.
LEMMA PrepackedSessionOK ==
  ASSUME Calling, NEW p \in Held("prepacked"), NEW is \in AtMostOne(Movable("initializer")),
         NewSession(is, is \o <<p>>)
  PROVE  IInv'
<1>1. /\ Taken(is) /\ is \in Seq(Ids) /\ Guardable(is)
      /\ \A k \in DOMAIN is : heap[is[k]].kind = "initializer"
  BY OptionalOK, FirmKinds
<1>2. Guardable(<<p>>)
  BY HeldFacts, GuardableOne, FirmKinds
<1>3. Guardable(is \o <<p>>)
  BY <1>1, <1>2, GuardableBoth
<1> QED
  BY <1>1, <1>3, NewSessionOK

LEMMA GivenSessionOK ==
  ASSUME Calling, NEW kind \in {"initializer", "spool"}, NEW i \in Movable(kind), NewSession(<<i>>, <<i>>)
  PROVE  IInv'
<1>1. Taken(<<i>>) /\ i \in Ids /\ heap[i].kind = kind
  BY MovableFacts
<1>2. Guardable(<<i>>)
  BY <1>1, FirmKinds, GuardableOne
<1>3. \A k \in DOMAIN <<i>> : heap[<<i>>[k]].kind \notin {"options", "stranded"}
  BY <1>1
<1> QED
  BY <1>1, <1>2, <1>3, NewSessionOK

LEMMA PlainSessionOK == ASSUME Calling, NewSession(<<>>, <<>>) PROVE IInv'
<1>1. Taken(<<>>) /\ Guardable(<<>>) /\ \A k \in DOMAIN <<>> : heap[<<>>[k]].kind \notin {"options", "stranded"}
  BY TakenNone, GuardableNone
<1> QED
  BY <1>1, NewSessionOK

LEMMA SessionNextOK == ASSUME Calling, SessionNext PROVE IInv'
<1>0. {} \in SUBSET Ids
  OBVIOUS
<1>1. ASSUME PrepackedWeightsContainer \/ spool_model_bytes PROVE IInv'
  BY <1>0, <1>1, SimpleOK, PlainKinds DEF PrepackedWeightsContainer, spool_model_bytes
<1>2. ASSUME SessionOptions PROVE IInv'
  BY <1>2, WrapperFresh, GuardableNone, PlainKinds, MakeOK DEF SessionOptions
<1>3. ASSUME SessionNew \/ from_bytes \/ from_bytes_for_editing \/ new_with_external_initializer_files
      PROVE  IInv'
  BY <1>3, PlainSessionOK
     DEF SessionNew, from_bytes, from_bytes_for_editing, new_with_external_initializer_files
<1>4. ASSUME \/ new_with_owned_initializers \/ new_with_external_initializers
             \/ from_bytes_with_owned_initializers \/ from_bytes_with_external_data
      PROVE  IInv'
  BY <1>4, GivenSessionOK DEF new_with_owned_initializers, new_with_external_initializers,
       from_bytes_with_owned_initializers, from_bytes_with_external_data
<1>5. ASSUME new_with_prepacked_weights \/ from_bytes_with_prepacked_weights PROVE IInv'
  BY <1>5, PrepackedSessionOK DEF new_with_prepacked_weights, from_bytes_with_prepacked_weights
<1>6. ASSUME CloneSession PROVE IInv'
  BY <1>6, CloneHeldOK DEF CloneSession
<1> QED
  BY <1>1, <1>2, <1>3, <1>4, <1>5, <1>6, InitializerOK, SlotOK DEF SessionNext

\* A device has the guard of its environment.
LEMMA AppendDeviceOK == ASSUME Calling, append_execution_provider_device PROVE IInv'
<1>1. PICK o \in Movable("options"), d \in Held("epdevice") :
        Attach(o, <<heap[d].guards[1]>>, {}) \/ Refuses(<<o>>)
  BY DEF append_execution_provider_device, Builds
<1>2. o \in Ids /\ heap[o].kind = "options" /\ Taken(<<o>>)
  BY MovableFacts
<1> DEFINE e == heap[d].guards[1]
<1>3. d \in Ids /\ heap[d].kind = "epdevice" /\ heap[d].guards \in Seq(Ids)
  BY HeldFacts
<1>4. heap[d].guards # <<>> /\ Guardable(heap[d].guards)
  BY <1>3, GuardableOf DEF Calling, IInv, HeapOK, WellFormed
<1>5. e \in Ids /\ heap[e].kind \notin InPlace
  BY <1>3, <1>4 DEF Guardable
<1>6. Guardable(<<e>>) /\ {} \in SUBSET Ids
  BY <1>5, GuardableOne
<1> HIDE DEF e
<1> QED
  BY <1>1, <1>2, <1>6, AttachOK, RefusesOK DEF e

\* The options of a run are frozen where they are, or released.
LEMMA FreezeOK == ASSUME Calling, freeze PROVE IInv'
<1>1. PICK o \in Movable("runbuilder") :
        \/ heap' = Replaced(o, MaterializedRunOptions(o)) /\ UNCHANGED <<area, dropping>>
        \/ /\ heap' = Replaced(o, Owned(MaterializedRunOptions(o)))
           /\ dropping' = <<Release(o)>> /\ UNCHANGED area
  BY DEF freeze, Replaced
<1>2. o \in Ids /\ heap[o].kind = "runbuilder" /\ heap[o].guards \in Seq(Ids) /\ HeapOK(heap)
  BY MovableFacts DEF Calling, IInv
<1>3. heap[o].kind # "free" /\ heap[o].kind \in InPlace
  BY <1>2 DEF InPlace
<1> DEFINE m == MaterializedRunOptions(o)
<1>4. Fresh(m) /\ m.guards = heap[o].guards
  <2>1. Guardable(heap[o].guards) /\ ToSet(heap[o].guards) \in SUBSET Ids
    BY <1>2, GuardableOf, ToSetType
  <2> QED
    BY <2>1, PlainKinds, ObjectFresh DEF MaterializedRunOptions, Object
<1>5. /\ Fresh(Owned(m)) /\ Owned(m).handles = 0 /\ Owned(m).guards = heap[o].guards
  BY <1>4, OwnedFresh
<1> HIDE DEF m
<1>6. CASE heap' = Replaced(o, m) /\ UNCHANGED <<area, dropping>>
  BY <1>2, <1>3, <1>4, <1>6, ReplaceOK
<1>7. CASE heap' = Replaced(o, Owned(m)) /\ dropping' = <<Release(o)>> /\ UNCHANGED area
  <2> DEFINE h2 == Replaced(o, Owned(m))
  <2>1. HeapOK(h2) /\ h2[o] = Owned(m) /\ Changed(heap, h2, {o})
    BY <1>2, <1>3, <1>5, ReplaceHeap
  <2> HIDE DEF h2
  <2>2. Unguarded(h2, o)
    <3>1. Unguarded(heap, o)
      BY <1>2, <1>3, InPlaceUnguarded
    <3>2. NotGuardedBy(h2, {o}, o)
      BY <1>2, <1>5, <2>1, <3>1 DEF NotGuardedBy, Unguarded
    <3> QED
      BY <2>1, <3>1, <3>2, StaysUnguarded
  <2>3. TasksOK(h2, <<Release(o)>>)
    <3>1. Releasable(h2, o)
      BY <1>2, <1>5, <2>1, <2>2 DEF Releasable, Fresh
    <3> QED
      BY <3>1, ReleaseOnly
  <2> QED
    BY <1>7, <2>1, <2>3 DEF h2, Calling, IInv
<1> QED
  BY <1>1, <1>6, <1>7 DEF m

\* The outputs of a run: all are the caller's, or the one that cannot be described is released.
LEMMA StampOutputsOK == ASSUME Calling, stamp_outputs PROVE IInv'
<1> DEFINE v == Object("value", <<>>, {})
<1>1. /\ Room(2)
      /\ \/ heap' = NewTwo(<<>>, v, v) /\ dropping' = dropping
         \/ heap' = NewTwo(<<>>, v, Owned(v)) /\ dropping' = <<Release(New2)>>
      /\ area' = area
  BY WithoutNone DEF stamp_outputs, NewTwo, Calling, IInv
<1>2. v \in Records /\ v.kind = "value" /\ v.guards = <<>>
      /\ Owned(v) \in Records /\ Owned(v).kind = "value" /\ Owned(v).guards = <<>> /\ Owned(v).handles = 0
  BY PlainKinds, SimpleIs
<1> HIDE DEF v
<1>3. /\ Pairs(v, v, v) /\ Pairs(v, v, Owned(v)) /\ Pairs(Owned(v), v, Owned(v))
      /\ NotAmong(New2, v) /\ NotAmong(New2, Owned(v))
  BY <1>2 DEF Pairs, NotAmong
<1>4. CASE heap' = NewTwo(<<>>, v, v) /\ dropping' = dropping
  <2>1. HeapOK(NewTwo(<<>>, v, v))
    BY <1>1, <1>3, TakenNone, TwoOK
  <2> QED
    BY <1>1, <1>4, <2>1, NoTasks DEF Calling, IInv
<1>5. CASE heap' = NewTwo(<<>>, v, Owned(v)) /\ dropping' = <<Release(New2)>>
  <2> DEFINE h2 == NewTwo(<<>>, v, Owned(v))
  <2>1. HeapOK(h2) /\ h2[New2] = Owned(v) /\ New2 \in Ids /\ Unguarded(h2, New2)
    BY <1>1, <1>3, TakenNone, TwoOK
  <2> HIDE DEF h2
  <2>2. TasksOK(h2, <<Release(New2)>>)
    BY <1>2, <2>1, ReleaseOnly DEF Releasable
  <2> QED
    BY <1>1, <1>5, <2>1, <2>2 DEF h2, Calling, IInv
<1> QED
  BY <1>1, <1>4, <1>5

LEMMA OptionsHandleOK ==
  ASSUME Calling, NEW o \in Held("options"), Undoes(<<>>, OptionsHandle(o))
  PROVE  IInv'
<1>1. o \in Ids /\ heap[o].uses \in SUBSET Ids
  BY HeldFacts
<1>2. Guardable(FieldsOf(o, {"cudastream"}))
  BY <1>1, GuardableOf, AmongGuardable DEF Calling, IInv, FieldsOf
<1>3. heap[o].uses \cup ToSet(FieldsOf(o, {"cudastream"})) \in SUBSET Ids
  BY <1>1, <1>2, ToSetType DEF Guardable
<1> QED
  BY <1>3, PlainKinds, SimpleOK DEF OptionsHandle

LEMMA RunNextOK == ASSUME Calling, RunNext PROVE IInv'
<1>0. {} \in SUBSET Ids /\ HeapOK(heap)
  BY DEF Calling, IInv
<1>1. ASSUME SyncStream PROVE IInv'
  BY <1>1, DeviceOK DEF DeviceNext
<1>2. ASSUME SessionOptions \/ SessionNew PROVE IInv'
  BY <1>2, SessionNextOK DEF SessionNext
<1>3. ASSUME build_handle \/ config_entry PROVE IInv'
  BY <1>3, OptionsHandleOK, LeaksOK DEF build_handle, config_entry
<1>4. ASSUME LoraAdapter \/ ExternalInitializerInfo \/ Metadata PROVE IInv'
  BY <1>0, <1>4, SimpleOK, PlainKinds DEF LoraAdapter, ExternalInitializerInfo, Metadata
<1>5. ASSUME RunOptions PROVE IInv'
  BY <1>5, WrapperFresh, GuardableNone, PlainKinds, MakeOK DEF RunOptions
<1>6. ASSUME with_sync_stream \/ with_lora_adapter PROVE IInv'
  <2>1. PICK o \in Movable("runbuilder"), s \in HeldOf({"syncstream", "lora"}) : Attach(o, <<s>>, {})
    BY <1>6 DEF with_sync_stream, with_lora_adapter, HeldOf
  <2>2. o \in Ids /\ heap[o].kind = "runbuilder"
    BY MovableFacts
  <2>3. Guardable(<<s>>)
    BY HeldFacts, GuardableOne, FirmKinds DEF HeldOf
  <2> QED
    BY <1>0, <2>1, <2>2, <2>3, AttachOK
<1>7. ASSUME run_with \/ copy_tensor_handles_on_stream PROVE IInv'
  <2>1. PICK s \in Held("session"), o \in HeldOf({"runoptions", "syncstream"}) :
          Undoes(<<>>, Object("run", <<>>, {s, o})) \/ Undoes(<<>>, Object("copy", <<>>, {s, o}))
    BY <1>7 DEF run_with, copy_tensor_handles_on_stream, HeldOf
  <2>2. {s, o} \in SUBSET Ids
    BY HeldFacts DEF HeldOf
  <2> QED
    BY <2>1, <2>2, SimpleOK, PlainKinds
<1>8. ASSUME ep_graph_assignment_info PROVE IInv'
  <2>1. PICK s \in Held("session") : Make(Borrowing(Object("subgraph", <<>>, {s}), {s}))
    BY <1>8 DEF ep_graph_assignment_info
  <2>2. {s} \in SUBSET Ids
    BY HeldFacts
  <2> QED
    BY <2>1, <2>2, LentOK, PlainKinds
<1> QED
  BY <1>1, <1>2, <1>3, <1>4, <1>5, <1>6, <1>7, <1>8, EpDeviceOK, AppendDeviceOK, FreezeOK,
     StampOutputsOK DEF RunNext

(***************************************************************************)
(* Provider options and CUDA streams                                       *)
(***************************************************************************)
\* What an object points to, and what it borrows, may change where it is.
Pointing(o, uses, borrows) == [o EXCEPT !.uses = uses, !.borrows = borrows]

LEMMA PointingIs ==
  ASSUME NEW o \in Records, NEW uses \in SUBSET Ids, NEW borrows \in SUBSET Ids
  PROVE  /\ Pointing(o, uses, borrows) \in Records /\ Pointing(o, uses, borrows).kind = o.kind
         /\ Pointing(o, uses, borrows).guards = o.guards
BY DEF Pointing, Records

LEMMA PointsOK ==
  ASSUME Calling, NEW i \in Ids, heap[i].kind # "free", NEW uses \in SUBSET Ids, NEW borrows \in SUBSET Ids,
         heap' = [heap EXCEPT ![i] = Pointing(heap[i], uses, borrows)], UNCHANGED <<area, dropping>>
  PROVE  IInv'
<1> DEFINE o == Pointing(heap[i], uses, borrows)
<1>1. HeapOK(heap) /\ heap[i] \in Records /\ WellFormed(heap, heap[i])
  BY DEF Calling, IInv, HeapOK
<1>2. o \in Records /\ o.kind = heap[i].kind /\ o.guards = heap[i].guards
  BY <1>1, PointingIs
<1> HIDE DEF o
<1>3. Fresh(o)
  BY <1>1, <1>2 DEF Fresh, WellFormed
<1>4. heap' = Replaced(i, o)
  BY DEF o, Replaced
<1> QED
  BY <1>2, <1>3, <1>4, ReplaceOK

LEMMA UsingFresh ==
  ASSUME NEW o, Fresh(o), NEW uses \in SUBSET Ids
  PROVE  Fresh([o EXCEPT !.uses = uses])
<1> DEFINE p == [o EXCEPT !.uses = uses]
<1>1. WellFormed(heap, o) /\ o.kind # "free" /\ o \in Records
  BY DEF Fresh, WellFormed
<1>2. p \in Records /\ p.kind = o.kind /\ p.guards = o.guards
  BY <1>1 DEF Records
<1> HIDE DEF p
<1>3. Fresh(p)
  BY <1>1, <1>2 DEF Fresh, WellFormed
<1> QED
  BY <1>3 DEF p

LEMMA EntryOK ==
  ASSUME Calling, NEW i \in Ids, heap[i].kind # "free", NEW c \in Ids, NEW k,
         upsert_string_entry(i, k, c)
  PROVE  IInv'
<1> DEFINE uses == IF k = "pointer" THEN heap[i].uses \cup {c} ELSE heap[i].uses
<1>1. heap[i] \in Records /\ heap \in [Ids -> Records]
  BY DEF Calling, IInv, HeapOK
<1>2. uses \in SUBSET Ids /\ heap[i].borrows \in SUBSET Ids
  BY <1>1 DEF Records
<1>3. heap' = [heap EXCEPT ![i] = Pointing(heap[i], uses, heap[i].borrows)] /\ UNCHANGED <<area, dropping>>
  <2>1. heap' = [heap EXCEPT ![i] = [heap[i] EXCEPT !.uses = uses]] /\ UNCHANGED <<area, dropping>>
    BY <1>1 DEF upsert_string_entry
  <2>2. [heap[i] EXCEPT !.uses = uses] = Pointing(heap[i], uses, heap[i].borrows)
    BY <1>1 DEF Pointing, Records
  <2> HIDE DEF uses
  <2> QED
    BY <2>1, <2>2
<1> HIDE DEF uses
<1> QED
  BY <1>2, <1>3, PointsOK

LEMMA ConfigFacts ==
  ASSUME Calling, NEW g \in Configs
  PROVE  /\ g \in Ids /\ heap[g].kind \in {"cudaconfig", "streamconfig"} /\ heap[g].kind # "free"
         /\ heap[g] \in Records /\ heap[g].uses \in SUBSET Ids /\ heap[g].guards \in Seq(Ids)
         /\ heap[g].handles > 0 /\ Taken(<<g>>)
BY MovableFacts DEF Configs

LEMMA UpdateValueOK == ASSUME Calling, update_with_value PROVE IInv'
<1>1. PICK p \in Held("provideroptions"), c \in Held("cudastream") :
        heap' = [heap EXCEPT ![p].uses = {c}, ![p].borrows = {c}] /\ UNCHANGED <<area, dropping>>
  BY DEF update_with_value
<1>2. p \in Ids /\ heap[p].kind # "free" /\ {c} \in SUBSET Ids /\ heap[p] \in Records
  BY HeldFacts
<1>3. heap' = [heap EXCEPT ![p] = Pointing(heap[p], {c}, {c})]
  <2>1. heap' = [heap EXCEPT ![p] = [heap[p] EXCEPT !.uses = {c}, !.borrows = {c}]]
    BY <1>1, <1>2 DEF Calling, IInv, HeapOK
  <2> QED
    BY <2>1 DEF Pointing
<1> QED
  BY <1>1, <1>2, <1>3, PointsOK

LEMMA HeldOptional ==
  ASSUME Calling, NEW kind, NEW cs \in AtMostOne(Held(kind))
  PROVE  cs \in Seq(Ids)
<1>1. CASE cs = <<>>
  BY <1>1
<1>2. ASSUME NEW i \in Held(kind), cs = <<i>> PROVE cs \in Seq(Ids)
  <2>1. i \in Ids
    BY HeldFacts
  <2> QED
    BY <1>2, <2>1
<1> QED
  BY <1>1, <1>2 DEF AtMostOne

LEMMA EntriesNextOK == ASSUME Calling, EntriesNext PROVE IInv'
<1>0. {} \in SUBSET Ids
  OBVIOUS
<1>1. ASSUME CudaStream \/ ProviderOptions PROVE IInv'
  BY <1>0, <1>1, SimpleOK, PlainKinds DEF CudaStream, ProviderOptions
<1>2. ASSUME performance PROVE IInv'
  BY <1>2, WrapperFresh, GuardableNone, PlainKinds, MakeOK DEF performance
<1>3. ASSUME graph_replay PROVE IInv'
  BY <1>3, HeldFacts, FirmKinds, GuardableOne, WrapperFresh, PlainKinds, MakeOK DEF graph_replay
<1>4. ASSUME config_with_raw PROVE IInv'
  BY <1>4, ConfigFacts, HeldFacts, RefusesOK, EntryOK DEF config_with_raw
<1>5. ASSUME DeserializeConfig PROVE IInv'
  <2>1. PICK g \in Configs, cs \in AtMostOne(Held("cudastream")) :
          Make([Wrapper(heap[g].kind, <<>>) EXCEPT !.uses = heap[g].uses \cup ToSet(cs)])
    BY <1>5 DEF DeserializeConfig
  <2>2. cs \in Seq(Ids)
    BY HeldOptional
  <2>3. heap[g].uses \cup ToSet(cs) \in SUBSET Ids /\ Plain(heap[g].kind)
    BY <2>2, ConfigFacts, ToSetType, PlainKinds
  <2> QED
    BY <2>1, <2>3, WrapperFresh, GuardableNone, UsingFresh, MakeOK
<1>6. ASSUME provider_options PROVE IInv'
  <2>1. PICK g \in Configs : Make([Wrapper("entries", <<>>) EXCEPT !.uses = heap[g].uses])
    BY <1>6 DEF provider_options
  <2> QED
    BY <2>1, ConfigFacts, WrapperFresh, GuardableNone, PlainKinds, UsingFresh, MakeOK
<1>7. ASSUME entries_with_raw PROVE IInv'
  BY <1>7, MovableFacts, HeldFacts, RefusesOK, EntryOK DEF entries_with_raw
<1>8. ASSUME from_config PROVE IInv'
  BY <1>8, HeldFacts, SimpleOK, PlainKinds DEF from_config
<1> QED
  BY <1>1, <1>2, <1>3, <1>4, <1>5, <1>6, <1>7, <1>8, UpdateValueOK DEF EntriesNext

\* Another stream takes the place of the one a configuration has, which is dropped.
LEMMA ReplaceStreamOK ==
  ASSUME Calling, NEW g \in Configs, NEW kind \in {"cudaconfig", "streamconfig"},
         NEW stream, Guardable(stream), ReplaceStream(g, kind, stream)
  PROVE  IInv'
<1> DEFINE o == [heap[g] EXCEPT !.kind = kind, !.guards = stream]
           gs == heap[g].guards
<1>1. /\ g \in Ids /\ heap[g].kind \in InPlace /\ heap[g].kind # "free" /\ heap[g] \in Records
      /\ gs \in Seq(Ids) /\ HeapOK(heap)
  BY ConfigFacts DEF InPlace, Calling, IInv
<1>2. o \in Records /\ o.kind = kind /\ o.guards = stream
  <2>1. kind \in Kinds /\ stream \in Seq(Ids)
    BY DEF Kinds, Guardable
  <2> QED
    BY <1>1, <2>1 DEF Records
<1>3. heap' = Replaced(g, o) /\ dropping' = Unrefs(gs) /\ area' = area
  BY <1>1 DEF ReplaceStream, Replaced, HeapOK
<1> HIDE DEF o
<1>4. Fresh(o)
  BY <1>2 DEF Guardable, Fresh, WellFormed
<1> DEFINE h2 == Replaced(g, o)
<1>5. HeapOK(h2) /\ Changed(heap, h2, {g})
  BY <1>1, <1>4, ReplaceHeap
<1> HIDE DEF h2
<1>6. Guardable(gs)
  BY <1>1, GuardableOf
<1> HIDE DEF gs
<1>7. \A k \in DOMAIN gs : h2[gs[k]].kind # "free"
  <2> TAKE k \in DOMAIN gs
  <2>1. gs[k] \in Ids /\ heap[gs[k]].kind \notin InPlace
    BY <1>1, <1>6 DEF Guardable
  <2> QED
    BY <1>5, <2>1, KindsKept DEF InPlace
<1>8. TasksOK(h2, Unrefs(gs))
  BY <1>1, <1>7, UnrefTasks
<1> QED
  BY <1>3, <1>5, <1>8 DEF h2, Calling, IInv

\* A configuration moves into the options.
LEMMA WithCudaOK == ASSUME Calling, with_cuda PROVE IInv'
<1> DEFINE gs(o, g) == heap[o].guards \o heap[g].guards
           us(o, g) == heap[o].uses \cup heap[g].uses
<1>1. PICK o \in Movable("options"), g \in Configs :
        \/ /\ heap' = [heap EXCEPT ![g] = Free, ![o].guards = @ \o heap[g].guards,
                                   ![o].uses = @ \cup heap[g].uses]
           /\ UNCHANGED <<area, dropping>>
        \/ Refuses(<<o, g>>)
  BY DEF with_cuda
<1>2. /\ o \in Ids /\ heap[o].kind = "options" /\ heap[o] \in Records /\ heap[o].handles > 0
      /\ g \in Ids /\ heap[g].kind \in InPlace /\ heap[g].kind # "free" /\ heap[g] \in Records
      /\ heap[g].handles > 0 /\ o # g /\ heap[o].uses \in SUBSET Ids /\ heap[g].uses \in SUBSET Ids
      /\ heap[g].kind # "options"
  BY MovableFacts, ConfigFacts DEF InPlace
<1>3. CASE Refuses(<<o, g>>)
  BY <1>2, <1>3, TakenTwo, RefusesOK
<1>4. CASE heap' = [heap EXCEPT ![g] = Free, ![o].guards = @ \o heap[g].guards,
                                ![o].uses = @ \cup heap[g].uses]
           /\ UNCHANGED <<area, dropping>>
  <2>1. HeapOK(heap) /\ Guardable(gs(o, g)) /\ us(o, g) \in SUBSET Ids
    BY <1>2, GuardableOf, GuardableBoth DEF Calling, IInv
  <2> DEFINE all == gs(o, g)
             uses == us(o, g)
             r == [heap[o] EXCEPT !.guards = all, !.uses = uses]
             h2 == [heap EXCEPT ![g] = Free, ![o] = r]
  <2>2. heap' = h2
    BY <1>2, <1>4, <2>1 DEF HeapOK
  <2> HIDE DEF gs, us, all, uses
  <2>3. r \in Records /\ r.kind = "options" /\ r.guards = all
    <3>1. all \in Seq(Ids) /\ uses \in SUBSET Ids
      BY <2>1 DEF all, uses, Guardable
    <3> QED
      BY <1>2, <3>1 DEF Records
  <2> HIDE DEF r
  <2>4. WellFormed(heap, r)
    BY <2>1, <2>3 DEF all, Guardable, WellFormed
  <2>5. /\ h2 \in [Ids -> Records] /\ h2[g] = Free /\ h2[o] = r
        /\ \A i \in Ids : i \notin {g, o} => h2[i] = heap[i]
    BY <1>2, <2>1, <2>3, FreeFacts DEF HeapOK
  <2> HIDE DEF h2
  <2>6. Changed(heap, h2, {g, o})
    BY <1>2, <2>3, <2>5 DEF Changed, Same
  <2>7. Renewed(h2, {g, o})
    <3>1. WellFormed(h2, r)
      BY <2>4, <2>6, WellFormedKept
    <3>2. WellFormed(h2, Free)
      BY FreeFacts DEF WellFormed
    <3> QED
      BY <2>5, <3>1, <3>2 DEF Renewed
  <2>8. HeapOK(h2)
    BY <2>1, <2>6, <2>7, ChangedOK
  <2> QED
    BY <1>4, <2>2, <2>8, NoTasks DEF Calling, IInv
<1> QED
  BY <1>1, <1>3, <1>4

LEMMA DeserializeOptionsOK == ASSUME Calling, DeserializeOptions PROVE IInv'
<1> DEFINE kind(o) == IF FieldsOf(o, {"cudastream"}) # <<>> THEN "stranded" ELSE heap[o].kind
<1>1. PICK o \in HeldOf({"options", "stranded"}), cs \in AtMostOne(Held("cudastream")) :
        Make([Wrapper(kind(o), <<>>) EXCEPT !.uses = heap[o].uses \cup ToSet(cs)])
  BY DEF DeserializeOptions
<1>2. cs \in Seq(Ids)
  BY HeldOptional
<1>3. heap[o].uses \cup ToSet(cs) \in SUBSET Ids /\ heap[o].kind \in {"options", "stranded"}
  BY <1>2, HeldFacts, ToSetType DEF HeldOf
<1>4. Plain(kind(o))
  BY <1>3, PlainKinds
<1> HIDE DEF kind
<1> QED
  BY <1>1, <1>3, <1>4, WrapperFresh, GuardableNone, UsingFresh, MakeOK

\* The streams of new options join those of the session.
LEMMA FinalizeOK == ASSUME Calling, finalize PROVE IInv'
<1> DEFINE streams(s, o) == Among(FieldsOf(o, {"cudastream"}), Ids \ ToSet(heap[s].guards))
<1>1. PICK s \in Movable("session"), o \in Held("options") :
        Attach(s, streams(s, o), ToSet(streams(s, o)))
  BY DEF finalize
<1>2. o \in Ids /\ s \in Ids /\ heap[s].kind = "session"
  BY MovableFacts, HeldFacts
<1>3. Guardable(streams(s, o))
  <2>1. Guardable(FieldsOf(o, {"cudastream"}))
    BY <1>2, GuardableOf, AmongGuardable DEF Calling, IInv, FieldsOf
  <2> QED
    BY <2>1, AmongGuardable
<1> HIDE DEF streams
<1>4. ToSet(streams(s, o)) \in SUBSET Ids
  BY <1>3, ToSetType DEF Guardable
<1> QED
  BY <1>1, <1>2, <1>3, <1>4, AttachOK

LEMMA CudaNextOK == ASSUME Calling, CudaNext PROVE IInv'
<1>1. ASSUME performance \/ graph_replay \/ DeserializeConfig PROVE IInv'
  BY <1>1, EntriesNextOK DEF EntriesNext
<1>2. ASSUME SessionOptions \/ SessionNew \/ from_bytes_for_editing PROVE IInv'
  BY <1>2, SessionNextOK DEF SessionNext
<1>3. ASSUME with_device_input_policy PROVE IInv'
  BY <1>3, GuardableNone, ReplaceStreamOK, ConfigFacts, RefusesOK DEF with_device_input_policy
<1>4. ASSUME with_user_stream PROVE IInv'
  <2>1. PICK g \in Configs, c \in Held("cudastream") :
          ReplaceStream(g, "streamconfig", <<c>>) \/ Refuses(<<g>>)
    BY <1>4 DEF with_user_stream
  <2>2. Guardable(<<c>>)
    BY HeldFacts, FirmKinds, GuardableOne
  <2> QED
    BY <2>1, <2>2, ReplaceStreamOK, ConfigFacts, RefusesOK
<1>5. ASSUME with_execution_provider PROVE IInv'
  BY <1>5, MovableFacts, HeldFacts, RefusesOK, EntryOK DEF with_execution_provider
<1>6. ASSUME apply PROVE IInv'
  <2>1. PICK o \in Held("options") :
          Undoes(<<>>, Object("provideroptions", <<>>, ToSet(FieldsOf(o, {"cudastream"}))))
    BY <1>6 DEF apply
  <2>2. Guardable(FieldsOf(o, {"cudastream"}))
    BY HeldFacts, GuardableOf, AmongGuardable DEF Calling, IInv, FieldsOf
  <2>3. ToSet(FieldsOf(o, {"cudastream"})) \in SUBSET Ids
    BY <2>2, ToSetType DEF Guardable
  <2> QED
    BY <2>1, <2>3, PlainKinds, SimpleOK
<1> QED
  BY <1>1, <1>2, <1>3, <1>4, <1>5, <1>6, WithCudaOK, DeserializeOptionsOK, FinalizeOK DEF CudaNext

(***************************************************************************)
(* Tensors and bindings                                                    *)
(***************************************************************************)
\* Two objects that nothing keeps are released one after the other.
LEMMA ReleaseBoth ==
  ASSUME NEW h, NEW tasks, TasksOK(h, tasks), NEW i, Releasable(h, i), NEW j, Releasable(h, j), i # j,
         Absent(tasks, i), Absent(tasks, j)
  PROVE  TasksOK(h, <<Release(i), Release(j)>> \o tasks)
<1> DEFINE rest == <<Release(j)>> \o tasks
<1>1. /\ Release(i) \in Tasks /\ Release(i).of = i /\ Release(j) \in Tasks /\ Release(j).of = j
      /\ tasks \in Seq(Tasks)
  BY DEF Release, Tasks, Releasable, TasksOK
<1>2. TasksOK(h, rest)
  BY ReleaseFirst
<1>3. Absent(rest, i)
  <2> DEFINE one == <<Release(j)>>
  <2>1. one \in Seq(Tasks) /\ Len(one) = 1 /\ one[1] = Release(j)
    BY <1>1
  <2> HIDE DEF one
  <2>2. rest = one \o tasks /\ rest \in Seq(Tasks)
    BY <1>1, <2>1 DEF one
  <2>3. \A k \in DOMAIN rest : rest[k] = Release(j) \/ \E n \in DOMAIN tasks : rest[k] = tasks[n]
    <3> TAKE k \in DOMAIN rest
    <3>1. k = 1 => rest[k] = one[1]
      BY <1>1, <2>1, <2>2
    <3>2. k # 1 => k - 1 \in DOMAIN tasks /\ rest[k] = tasks[k - 1]
      BY <1>1, <2>1, <2>2
    <3> QED
      BY <2>1, <3>1, <3>2
  <2> QED
    BY <1>1, <2>3 DEF Absent
<1> HIDE DEF rest
<1>4. TasksOK(h, <<Release(i)>> \o rest)
  BY <1>2, <1>3, ReleaseFirst
<1>5. <<Release(i)>> \o rest = <<Release(i), Release(j)>> \o tasks
  <2> DEFINE s == <<Release(i)>>
             t == <<Release(j)>>
             p == <<Release(i), Release(j)>>
  <2>1. s \in Seq(Tasks) /\ t \in Seq(Tasks)
    BY <1>1
  <2>2. s \o t = p
    BY <1>1, JoinPair
  <2> HIDE DEF s, t, p
  <2>3. (s \o t) \o tasks = s \o (t \o tasks)
    BY <1>1, <2>1, ConcatAssociative
  <2> QED
    BY <2>2, <2>3 DEF s, t, p, rest
<1> QED
  BY <1>4, <1>5

LEMMA ReleaseTwo ==
  ASSUME NEW h, NEW i, Releasable(h, i), NEW j, Releasable(h, j), i # j
  PROVE  TasksOK(h, <<Release(i), Release(j)>>)
<1> DEFINE p == <<Release(i), Release(j)>>
<1>1. Absent(<<>>, i) /\ Absent(<<>>, j)
  BY DEF Absent
<1>2. TasksOK(h, p \o <<>>)
  BY <1>1, NoTasks, ReleaseBoth
<1>3. p \in Seq(Tasks)
  BY DEF Release, Tasks, Releasable
<1> HIDE DEF p
<1>4. p \o <<>> = p
  BY <1>3, ConcatEmptySeq
<1> QED
  BY <1>2, <1>4 DEF p

LEMMA ConsumedOK ==
  ASSUME Calling, NEW kind, Plain(kind), NEW source, source \notin InPlace, NEW i \in Movable(source),
         \/ Consume(<<i>>, Object(kind, <<i>>, {i}))
         \/ Consume(<<i>>, Wrapper(kind, <<i>>))
  PROVE  IInv'
<1>1. i \in Ids /\ Taken(<<i>>) /\ heap[i].kind = source
  BY MovableFacts
<1>2. Guardable(<<i>>) /\ {i} \in SUBSET Ids
  BY <1>1, GuardableOne
<1>3. Fresh(Object(kind, <<i>>, {i})) /\ Fresh(Wrapper(kind, <<i>>))
  BY <1>2, ObjectFresh, WrapperFresh
<1> QED
  BY <1>1, <1>3, ConsumeOK

LEMMA TensorNextOK == ASSUME Calling, TensorNext PROVE IInv'
<1>0. {} \in SUBSET Ids
  OBVIOUS
<1>1. ASSUME CallerData \/ AlignedBuffer \/ map_file \/ PinnedBuffer \/ SparseCopy PROVE IInv'
  BY <1>0, <1>1, SimpleOK, PlainKinds DEF CallerData, AlignedBuffer, map_file, PinnedBuffer, SparseCopy
<1>2. ASSUME from_introspect \/ get_value \/ new_composite \/ type_info PROVE IInv'
  BY <1>0, <1>2, SimpleOK, PlainKinds DEF from_introspect, get_value, new_composite, type_info
<1>3. ASSUME copy_from_slice \/ StringTensor PROVE IInv'
  BY <1>0, <1>3, SimpleOK, LeaksOK, PlainKinds DEF copy_from_slice, StringTensor
<1>4. ASSUME from_buffer \/ OutputValue \/ SparseBorrow PROVE IInv'
  <2>1. PICK d \in Held("data") : \/ Make(Borrowing(Object("tensor", <<>>, {d}), {d}))
                                  \/ Make(Borrowing(Object("outputvalue", <<>>, {d}), {d}))
                                  \/ MakeOrUndo(Borrowing(Object("sparse", <<>>, {d}), {d}))
    BY <1>4 DEF from_buffer, OutputValue, SparseBorrow
  <2>2. {d} \in SUBSET Ids
    BY HeldFacts
  <2> QED
    BY <2>1, <2>2, LentOK, PlainKinds
<1>5. ASSUME from_storage \/ from_owned PROVE IInv'
  BY <1>5, PlainKinds, FirmKinds, ConsumedOK DEF from_storage, from_owned
<1> QED
  BY <1>1, <1>2, <1>3, <1>4, <1>5 DEF TensorNext

\* The tensor takes the allocator and its session guard; one without data is released.
LEMMA AllocatedTensorOK == ASSUME Calling, AllocatedTensor PROVE IInv'
<1> DEFINE gs(a) == <<a>> \o heap[a].guards
           tensor(a) == Object("allocatedtensor", gs(a), {a} \cup heap[a].uses)
           failed(a) == [Owned(tensor(a)) EXCEPT !.guards = <<a>>]
<1>1. PICK a \in Movable("allocator") :
        /\ Room(1) /\ area' = area
        /\ \/ /\ heap' = [Without(<<a>>) EXCEPT ![a].guards = <<>>, ![New] = tensor(a)]
              /\ dropping' = dropping
           \/ heap' = Over(Without(<<a>>), failed(a)) /\ dropping' = <<Release(New)>>
  BY DEF AllocatedTensor, AllocatedFields, Kept, Over
<1>2. /\ a \in Ids /\ heap[a].kind = "allocator" /\ Taken(<<a>>) /\ heap[a].uses \in SUBSET Ids
      /\ HeapOK(heap)
  BY MovableFacts DEF Calling, IInv
<1>3. Guardable(<<a>>) /\ Guardable(gs(a)) /\ {a} \cup heap[a].uses \in SUBSET Ids
  BY <1>2, FirmKinds, GuardableOne, GuardableOf, GuardableBoth
<1> HIDE DEF gs
<1> DEFINE t == tensor(a)
           f == failed(a)
<1>4. Fresh(t) /\ Fresh(Owned(t)) /\ Owned(t).handles = 0
  BY <1>3, PlainKinds, ObjectFresh, OwnedFresh
<1> HIDE DEF tensor
<1>5. Fresh(f) /\ f.handles = 0
  <2> DEFINE o == Owned(t)
  <2>1. o \in Records /\ o.kind # "free" /\ o.handles = 0 /\ WellFormed(heap, o) /\ o.kind \notin {"dynamic"}
    <3>1. o.kind = "allocatedtensor"
      BY DEF Owned, Object, tensor
    <3> QED
      BY <1>4, <3>1 DEF Fresh, WellFormed
  <2> HIDE DEF o
  <2> DEFINE p == [o EXCEPT !.guards = <<a>>]
  <2>2. p \in Records /\ p.kind = o.kind /\ p.guards = <<a>> /\ p.handles = 0
    <3>1. <<a>> \in Seq(Ids)
      BY <1>2
    <3> QED
      BY <2>1, <3>1 DEF Records
  <2> HIDE DEF p
  <2>3. Fresh(p)
    BY <1>3, <2>1, <2>2 DEF Fresh, WellFormed, Guardable
  <2> QED
    BY <2>2, <2>3 DEF p, o
<1> HIDE DEF t, f, failed
<1>6. New \in Ids /\ heap[New].kind = "free" /\ New # a
  BY <1>1, <1>2, NewIsFree DEF Calling, IInv
<1>7. SameObjects(Without(<<a>>))
  BY <1>2, WithoutOK DEF SameObjects
<1>8. CASE heap' = [Without(<<a>>) EXCEPT ![a].guards = <<>>, ![New] = t] /\ dropping' = dropping
  <2> DEFINE w == Without(<<a>>)
             r == [w[a] EXCEPT !.guards = <<>>]
             h2 == [w EXCEPT ![a] = r, ![New] = t]
  <2>1. w \in [Ids -> Records] /\ w[a] \in Records /\ w[a].kind = "allocator"
    BY <1>2, <1>7 DEF SameObjects, Same
  <2>2. heap' = h2
    BY <1>2, <1>6, <1>8, <2>1
  <2> HIDE DEF w
  <2>3. r \in Records /\ r.kind = "allocator" /\ r.guards = <<>>
    <3>1. <<>> \in Seq(Ids)
      OBVIOUS
    <3> QED
      BY <2>1, <3>1 DEF Records
  <2> HIDE DEF r
  <2>4. t \in Records /\ WellFormed(heap, t)
    BY <1>4 DEF Fresh, WellFormed
  <2>5. /\ h2 \in [Ids -> Records] /\ h2[a] = r /\ h2[New] = t
        /\ \A i \in Ids : i \notin {a, New} => h2[i] = w[i]
    BY <1>2, <1>6, <2>1, <2>3, <2>4
  <2> HIDE DEF h2
  <2>6. Changed(heap, h2, {a, New})
    <3>1. \A i \in Ids : i \notin {a, New} => Same(heap[i], h2[i])
      BY <1>7, <2>5 DEF w, SameObjects
    <3> QED
      BY <1>2, <1>6, <2>3, <2>5, <3>1 DEF Changed, InPlace
  <2>7. Renewed(h2, {a, New})
    <3>1. WellFormed(h2, t)
      BY <2>4, <2>6, WellFormedKept
    <3>2. WellFormed(h2, r)
      BY <2>3 DEF WellFormed
    <3> QED
      BY <2>5, <3>1, <3>2 DEF Renewed
  <2>8. HeapOK(h2)
    BY <1>2, <2>6, <2>7, ChangedOK
  <2> QED
    BY <1>1, <1>8, <2>2, <2>8, NoTasks DEF Calling, IInv
<1>9. CASE heap' = Over(Without(<<a>>), f) /\ dropping' = <<Release(New)>>
  <2> DEFINE h2 == Over(Without(<<a>>), f)
  <2>1. HeapOK(h2) /\ h2[New] = f /\ Unguarded(h2, New)
    BY <1>1, <1>5, <1>7, FreshOver
  <2> HIDE DEF h2
  <2>2. TasksOK(h2, <<Release(New)>>)
    BY <1>5, <1>6, <2>1, ReleaseOnly DEF Releasable, Fresh
  <2> QED
    BY <1>1, <1>9, <2>1, <2>2 DEF h2, Calling, IInv
<1> QED
  BY <1>1, <1>8, <1>9 DEF t, f

LEMMA FromAllocatedOK == ASSUME Calling, from_allocated PROVE IInv'
<1> DEFINE value(a) == Borrowing(Object("value", <<>>, heap[a].uses), heap[a].borrows)
<1>1. PICK a \in Movable("allocation") :
        \/ /\ Room(1)
           /\ heap' = [heap EXCEPT ![a] = Free, ![New] = value(a)]
           /\ UNCHANGED <<area, dropping>>
        \/ Refuses(<<a>>)
  BY DEF from_allocated, into_raw_parts
<1>2. a \in Ids /\ heap[a].kind = "allocation" /\ heap[a] \in Records /\ Taken(<<a>>)
  BY MovableFacts
<1>3. heap[a].uses \in SUBSET Ids /\ heap[a].borrows \in SUBSET Ids
      /\ heap[a].kind \in InPlace /\ heap[a].kind # "free"
  BY <1>2 DEF Records, InPlace
<1>4. Fresh(value(a))
  BY <1>3, PlainKinds, GuardableNone, ObjectFresh, BorrowingFresh
<1> HIDE DEF value
<1>5. ASSUME Room(1), heap' = [heap EXCEPT ![a] = Free, ![New] = value(a)], UNCHANGED <<area, dropping>>
      PROVE  IInv'
  <2> DEFINE h2 == [heap EXCEPT ![a] = Free, ![New] = value(a)]
  <2>1. HeapOK(h2)
    BY <1>2, <1>3, <1>4, <1>5, ExchangeOK
  <2> HIDE DEF h2
  <2>2. heap' = h2
    BY <1>5 DEF h2
  <2> QED
    BY <1>5, <2>1, <2>2, NoTasks DEF Calling, IInv
<1> QED
  BY <1>1, <1>2, <1>5, RefusesOK

LEMMA BindOK == ASSUME Calling, Bind \/ clear PROVE IInv'
<1>1. PICK b \in Held("binding"), uses \in SUBSET Ids, borrows \in SUBSET Ids :
        heap' = [heap EXCEPT ![b].uses = uses, ![b].borrows = borrows] /\ UNCHANGED <<area, dropping>>
  <2>1. CASE Bind
    <3>1. PICK b \in Held("binding"),
               v \in HeldOf({"tensor", "tensorbuffer", "outputvalue", "allocatedtensor"}) :
            /\ heap' = [heap EXCEPT ![b].uses = @ \cup heap[v].uses, ![b].borrows = @ \cup {v}]
            /\ UNCHANGED <<area, dropping>>
      BY <2>1 DEF Bind
    <3>2. /\ b \in Ids /\ v \in Ids /\ heap[b] \in Records /\ heap[v] \in Records
          /\ heap \in [Ids -> Records]
      BY HeldFacts DEF HeldOf, Calling, IInv, HeapOK
    <3>3. heap[b].uses \cup heap[v].uses \in SUBSET Ids /\ heap[b].borrows \cup {v} \in SUBSET Ids
      BY <3>2 DEF Records
    <3>4. heap' = [heap EXCEPT ![b].uses = heap[b].uses \cup heap[v].uses,
                               ![b].borrows = heap[b].borrows \cup {v}]
      BY <3>1, <3>2
    <3> QED
      BY <3>1, <3>3, <3>4
  <2>2. CASE clear
    <3>1. PICK b \in Held("binding") :
            /\ heap' = [heap EXCEPT ![b].uses = ToSet(heap[b].guards), ![b].borrows = {}]
            /\ UNCHANGED <<area, dropping>>
      BY <2>2 DEF clear, Kept
    <3>2. ToSet(heap[b].guards) \in SUBSET Ids
      BY HeldFacts, ToSetType
    <3>3. {} \in SUBSET Ids
      OBVIOUS
    <3> DEFINE S == ToSet(heap[b].guards)
    <3>4. heap' = [heap EXCEPT ![b].uses = S, ![b].borrows = {}] /\ UNCHANGED <<area, dropping>>
      BY <3>1
    <3> HIDE DEF S
    <3> QED
      BY <3>2, <3>3, <3>4 DEF S
  <2> QED
    BY <2>1, <2>2
<1>2. b \in Ids /\ heap[b].kind # "free" /\ heap[b] \in Records
  BY HeldFacts
<1>3. heap' = [heap EXCEPT ![b] = Pointing(heap[b], uses, borrows)]
  BY <1>1, <1>2 DEF Pointing, Calling, IInv, HeapOK
<1> QED
  BY <1>1, <1>2, <1>3, PointsOK

\* The values of a run: all are wrapped, or all are released.
LEMMA CollectOK == ASSUME Calling, collect_from_raw PROVE IInv'
<1> DEFINE v == Object("value", <<>>, {})
           w == Owned(v)
<1>1. /\ Room(2) /\ area' = area
      /\ \/ heap' = NewTwo(<<>>, v, v) /\ dropping' = dropping
         \/ heap' = NewTwo(<<>>, w, w) /\ dropping' = <<Release(New), Release(New2)>>
  BY WithoutNone DEF collect_from_raw, ReleaseRemaining, NewTwo, Calling, IInv
<1>2. v \in Records /\ v.kind = "value" /\ v.guards = <<>>
      /\ w \in Records /\ w.kind = "value" /\ w.guards = <<>> /\ w.handles = 0
  BY PlainKinds, SimpleIs
<1> HIDE DEF v, w
<1>3. Pairs(v, v, v) /\ Pairs(w, w, w) /\ NotAmong(New, w) /\ NotAmong(New2, w)
  BY <1>2 DEF Pairs, NotAmong
<1>4. CASE heap' = NewTwo(<<>>, v, v) /\ dropping' = dropping
  <2>1. HeapOK(NewTwo(<<>>, v, v))
    BY <1>1, <1>3, TakenNone, TwoOK
  <2> QED
    BY <1>1, <1>4, <2>1, NoTasks DEF Calling, IInv
<1>5. CASE heap' = NewTwo(<<>>, w, w) /\ dropping' = <<Release(New), Release(New2)>>
  <2> DEFINE h2 == NewTwo(<<>>, w, w)
  <2>1. /\ HeapOK(h2) /\ h2[New] = w /\ h2[New2] = w /\ New \in Ids /\ New2 \in Ids /\ New # New2
        /\ Unguarded(h2, New) /\ Unguarded(h2, New2)
    BY <1>1, <1>3, TakenNone, TwoOK
  <2> HIDE DEF h2
  <2>2. TasksOK(h2, <<Release(New), Release(New2)>>)
    BY <1>2, <2>1, ReleaseTwo DEF Releasable
  <2> QED
    BY <1>1, <1>5, <2>1, <2>2 DEF h2, Calling, IInv
<1> QED
  BY <1>1, <1>4, <1>5

LEMMA BindingNextOK == ASSUME Calling, BindingNext PROVE IInv'
<1>0. {} \in SUBSET Ids
  OBVIOUS
<1>1. ASSUME AllocatorCreate \/ IoBinding PROVE IInv'
  <2>1. PICK s \in Held("session") : \/ Make(Object("allocator", <<s>>, {s}))
                                     \/ Make(Object("binding", <<s>>, {s}))
    BY <1>1 DEF AllocatorCreate, IoBinding, BindingOf
  <2>2. Guardable(<<s>>) /\ {s} \in SUBSET Ids
    BY HeldFacts, FirmKinds, GuardableOne
  <2> QED
    BY <2>1, <2>2, PlainKinds, ObjectOK
<1>2. ASSUME Allocation PROVE IInv'
  <2>1. PICK a \in Held("allocator") : Make(Borrowing(Object("allocation", <<>>, {a}), {a}))
    BY <1>2 DEF Allocation
  <2>2. {a} \in SUBSET Ids
    BY HeldFacts
  <2> QED
    BY <2>1, <2>2, LentOK, PlainKinds
<1>3. ASSUME CallerData \/ from_buffer \/ PinnedBuffer \/ from_storage PROVE IInv'
  BY <1>3, TensorNextOK DEF TensorNext
<1>4. ASSUME output_names PROVE IInv'
  BY <1>0, <1>4, SimpleOK, PlainKinds DEF output_names
<1>5. ASSUME output_values PROVE IInv'
  BY <1>5, CollectOK DEF output_values
<1> QED
  BY <1>1, <1>2, <1>3, <1>4, <1>5, AllocatedTensorOK, FromAllocatedOK, BindOK DEF BindingNext

(***************************************************************************)
(* Models, operators and providers                                         *)
(***************************************************************************)
LEMMA AttributesOK == ASSUME Calling, with_attributes PROVE IInv'
<1> DEFINE node == Object("node", <<>>, {})
           h2(as) == [i \in Ids |-> IF i = New THEN node ELSE IF i \in ToSet(as) THEN Free ELSE heap[i]]
<1>1. PICK as \in AtMostOne(Movable("attr")) :
        \/ Room(1) /\ heap' = h2(as) /\ UNCHANGED <<area, dropping, leaked>>
        \/ Refuses(as)
  BY DEF with_attributes, NodeFails
<1>2. Fresh(node)
  BY PlainKinds, SimpleIs
<1>3. CASE Refuses(as)
  BY <1>3, OptionalOK, RefusesOK
<1>4. CASE Room(1) /\ heap' = h2(as) /\ UNCHANGED <<area, dropping, leaked>>
  <2>1. New \in Ids /\ heap[New].kind = "free" /\ heap \in [Ids -> Records] /\ HeapOK(heap)
    BY <1>4, NewIsFree DEF Calling, IInv, HeapOK
  <2>2. node \in Records
    BY <1>2 DEF Fresh, WellFormed
  <2> HIDE DEF node
  <2>3. CASE as = <<>>
    <3>1. ToSet(as) = {}
      BY <2>3 DEF ToSet
    <3>2. heap' = [heap EXCEPT ![New] = node]
      BY <1>4, <2>1, <3>1
    <3>3. Make(node)
      BY <1>4, <2>1, <3>2, WithoutNone DEF Make, Creates
    <3> QED
      BY <1>2, <3>3, MakeOK
  <2>4. ASSUME NEW a \in Movable("attr"), as = <<a>> PROVE IInv'
    <3>1. a \in Ids /\ heap[a].kind = "attr" /\ heap[a].kind \in InPlace /\ heap[a].kind # "free"
      BY MovableFacts DEF InPlace
    <3>2. ToSet(as) = {a}
      BY <2>4 DEF ToSet
    <3> DEFINE k2 == [heap EXCEPT ![a] = Free, ![New] = node]
    <3>3. heap' = k2
      BY <1>4, <2>1, <3>1, <3>2
    <3>4. HeapOK(k2)
      BY <1>2, <1>4, <3>1, ExchangeOK
    <3> HIDE DEF k2
    <3> QED
      BY <1>4, <3>3, <3>4, NoTasks DEF Calling, IInv
  <2> QED
    BY <2>3, <2>4 DEF AtMostOne
<1> QED
  BY <1>1, <1>3, <1>4

LEMMA InputModelOK == ASSUME Calling, set_input_model PROVE IInv'
<1>1. PICK c \in Held("compileoptions"), m \in Held("model") :
        heap' = [heap EXCEPT ![c].uses = {m}, ![c].borrows = {m}] /\ UNCHANGED <<area, dropping>>
  BY DEF set_input_model
<1>2. c \in Ids /\ heap[c].kind # "free" /\ {m} \in SUBSET Ids /\ heap[c] \in Records
  BY HeldFacts
<1>3. heap' = [heap EXCEPT ![c] = Pointing(heap[c], {m}, {m})]
  BY <1>1, <1>2 DEF Pointing, Calling, IInv, HeapOK
<1> QED
  BY <1>1, <1>2, <1>3, PointsOK

LEMMA InputSpoolOK == ASSUME Calling, set_input_model_from_buffer_with_external_data PROVE IInv'
<1> DEFINE spool == Object("spool", <<>>, {})
<1>1. PICK c \in Held("compileoptions") :
        /\ Room(1) /\ UNCHANGED <<area, leaked>>
        /\ \/ /\ heap' = [heap EXCEPT ![New] = spool, ![c].uses = {New}, ![c].borrows = {New}]
              /\ UNCHANGED dropping
           \/ heap' = [heap EXCEPT ![New] = Owned(spool)] /\ dropping' = <<Release(New)>>
  BY DEF set_input_model_from_buffer_with_external_data
<1>2. /\ c \in Ids /\ heap[c].kind = "compileoptions" /\ heap[c].kind # "free" /\ heap[c] \in Records
      /\ New \in Ids /\ heap[New].kind = "free" /\ heap \in [Ids -> Records] /\ HeapOK(heap)
  BY <1>1, HeldFacts, NewIsFree DEF Calling, IInv, HeapOK
<1>3. CASE heap' = [heap EXCEPT ![New] = Owned(spool)] /\ dropping' = <<Release(New)>>
  <2>1. Undoes(<<>>, spool)
    BY <1>1, <1>2, <1>3, WithoutNone DEF Undoes
  <2>2. {} \in SUBSET Ids
    OBVIOUS
  <2> QED
    BY <2>1, <2>2, PlainKinds, SimpleOK
<1>4. CASE /\ heap' = [heap EXCEPT ![New] = spool, ![c].uses = {New}, ![c].borrows = {New}]
           /\ UNCHANGED dropping
  <2> DEFINE o == Pointing(heap[c], {New}, {New})
  <2>1. Fresh(spool) /\ spool.kind \notin InPlace
    BY PlainKinds, FirmKinds, SimpleIs
  <2> HIDE DEF spool
  <2>2. heap' = [heap EXCEPT ![c] = o, ![New] = spool]
    BY <1>2, <1>4 DEF Pointing
  <2>3. o \in Records /\ o.kind = heap[c].kind /\ o.guards = heap[c].guards
    <3>1. {New} \in SUBSET Ids
      BY <1>2
    <3> QED
      BY <1>2, <3>1, PointingIs
  <2> HIDE DEF o
  <2>4. Adopts(o)
    BY <1>2, <2>3, GuardableOf DEF Adopts, Guardable
  <2>5. Room(1) /\ UNCHANGED <<area, dropping>>
    BY <1>1, <1>4
  <2> QED
    BY <1>2, <2>1, <2>2, <2>3, <2>4, <2>5, AdoptOK
<1> QED
  BY <1>1, <1>3, <1>4

LEMMA OwnedEmptyIs ==
  ASSUME NEW kind \in Kinds, NEW uses \in SUBSET Ids
  PROVE  /\ Owned(Object(kind, <<>>, uses)) \in Records
         /\ Owned(Object(kind, <<>>, uses)).kind = kind
         /\ Owned(Object(kind, <<>>, uses)).guards = <<>>
         /\ Owned(Object(kind, <<>>, uses)).handles = 0
<1> DEFINE none == <<>>
<1>1. none \in Seq(Ids)
  OBVIOUS
<1> HIDE DEF none
<1>2. /\ Owned(Object(kind, none, uses)) \in Records
      /\ Owned(Object(kind, none, uses)).kind = kind
      /\ Owned(Object(kind, none, uses)).guards = none
      /\ Owned(Object(kind, none, uses)).handles = 0
  BY <1>1, ObjectIs
<1> QED
  BY <1>2 DEF none

\* The options and the output buffer live for the call.
LEMMA ToBytesOK == ASSUME Calling, to_bytes PROVE IInv'
<1> DEFINE a(m) == Owned(Object("compileoptions", <<>>, {m}))
           b == Owned(Object("output", <<>>, {}))
<1>1. PICK m \in Held("model") :
        /\ Room(2) /\ area' = area
        /\ heap' = NewTwo(<<>>, a(m), b)
        /\ dropping' = <<Release(New2), Release(New)>>
  BY WithoutNone DEF to_bytes, NewTwo, Calling, IInv
<1>2. {m} \in SUBSET Ids
  BY HeldFacts
<1> DEFINE c == a(m)
<1>3. c \in Records /\ c.kind = "compileoptions" /\ c.guards = <<>> /\ c.handles = 0
  <2>1. "compileoptions" \in Kinds
    BY DEF Kinds
  <2> QED
    BY <1>2, <2>1, OwnedEmptyIs
<1>4. b \in Records /\ b.kind = "output" /\ b.guards = <<>> /\ b.handles = 0
  BY PlainKinds, SimpleIs
<1> HIDE DEF a, b, c
<1> DEFINE h2 == NewTwo(<<>>, c, b)
<1>5. /\ HeapOK(h2) /\ h2[New] = c /\ h2[New2] = b /\ New \in Ids /\ New2 \in Ids /\ New # New2
      /\ Unguarded(h2, New) /\ Unguarded(h2, New2)
  <2>1. Pairs(c, c, b) /\ Pairs(b, c, b)
    BY <1>3, <1>4 DEF Pairs
  <2>2. NotAmong(New, c) /\ NotAmong(New, b) /\ NotAmong(New2, c) /\ NotAmong(New2, b)
    BY <1>3, <1>4 DEF NotAmong
  <2> QED
    BY <1>1, <2>1, <2>2, TakenNone, TwoOK
<1> HIDE DEF h2
<1>6. Releasable(h2, New) /\ Releasable(h2, New2)
  BY <1>3, <1>4, <1>5 DEF Releasable
<1>7. TasksOK(h2, <<Release(New2), Release(New)>>)
  BY <1>5, <1>6, ReleaseTwo
<1> QED
  BY <1>1, <1>5, <1>7 DEF h2, c, Calling, IInv

\* A session with an object of its own; or the object alone, when the session fails.
LEMMA OnlySecondOK ==
  ASSUME Calling, Room(2), NEW o \in Records, o.kind \notin {"free", "epdevice", "dynamic"},
         o.guards = <<>>, o.handles = 0,
         heap' = [heap EXCEPT ![New2] = o], dropping' = <<Release(New2)>>, area' = area
  PROVE  IInv'
<1> DEFINE h2 == [heap EXCEPT ![New2] = o]
<1>1. HeapOK(heap) /\ heap \in [Ids -> Records] /\ New2 \in Ids /\ heap[New2].kind = "free"
  BY New2IsFree DEF Calling, IInv, HeapOK
<1>2. h2 \in [Ids -> Records] /\ h2[New2] = o /\ \A i \in Ids : i # New2 => h2[i] = heap[i]
  BY <1>1
<1> HIDE DEF h2
<1>3. Extended(h2, <<>>, {New2})
  <2>1. Linked(h2, {New2}, o)
    BY DEF Linked
  <2> QED
    BY <1>1, <1>2, <2>1, WithoutNone DEF Extended
<1>4. NotGuardedBy(h2, {New2}, New2)
  BY <1>2 DEF NotGuardedBy
<1>5. HeapOK(h2) /\ Unguarded(h2, New2)
  BY <1>1, <1>3, <1>4, TakenNone, ExtendOK
<1>6. TasksOK(h2, <<Release(New2)>>)
  BY <1>1, <1>2, <1>5, ReleaseOnly DEF Releasable
<1> QED
  BY <1>5, <1>6 DEF h2, Calling, IInv

LEMMA SessionWithOK ==
  ASSUME Calling, Room(2), area' = area, NEW kind \in {"kernel", "ep"}, NEW uses \in SUBSET Ids,
         NEW us \in SUBSET Ids, NEW b \in SUBSET Ids,
         \/ /\ heap' = NewTwo(<<>>, Borrowing(Object("session", <<New2>>, us), b),
                              Owned(Object(kind, <<>>, uses)))
            /\ dropping' = dropping
         \/ /\ heap' = [heap EXCEPT ![New2] = Owned(Object(kind, <<>>, uses))]
            /\ dropping' = <<Release(New2)>>
  PROVE  IInv'
<1> DEFINE k == Owned(Object(kind, <<>>, uses))
           p == Object("session", <<New2>>, us)
           s == Borrowing(p, b)
<1>1. k \in Records /\ k.kind = kind /\ k.guards = <<>> /\ k.handles = 0 /\ kind \notin InPlace
  <2>1. kind \in Kinds
    BY DEF Kinds
  <2> QED
    BY <2>1, FirmKinds, OwnedEmptyIs
<1> HIDE DEF k
<1>2. CASE heap' = [heap EXCEPT ![New2] = k] /\ dropping' = <<Release(New2)>>
  BY <1>1, <1>2, OnlySecondOK
<1>3. CASE heap' = NewTwo(<<>>, s, k) /\ dropping' = dropping
  <2>1. New2 \in Ids
    BY New2IsFree DEF Calling, IInv
  <2> DEFINE gs == <<New2>>
  <2>2. Object("session", gs, us) \in Records /\ Object("session", gs, us).kind = "session"
        /\ Object("session", gs, us).guards = gs
    <3>1. "session" \in Kinds
      BY DEF Kinds
    <3>2. gs \in Seq(Ids)
      BY <2>1
    <3> HIDE DEF gs
    <3> QED
      BY <3>1, <3>2, ObjectIs
  <2>3. s \in Records /\ s.kind = "session" /\ s.guards = <<New2>>
    <3>1. p \in Records /\ p.kind = "session" /\ p.guards = <<New2>>
      BY <2>2
    <3> HIDE DEF p
    <3> QED
      BY <3>1, BorrowingIs
  <2> HIDE DEF s
  <2>4. Pairs(s, s, k) /\ Pairs(k, s, k)
    BY <1>1, <2>3 DEF Pairs
  <2>5. HeapOK(NewTwo(<<>>, s, k))
    BY <2>4, TakenNone, TwoOK
  <2> QED
    BY <1>3, <2>5, NoTasks DEF Calling, IInv
<1> QED
  BY <1>2, <1>3 DEF k

LEMMA OpDomainOK == ASSUME Calling, with_custom_op_domain PROVE IInv'
<1>1. PICK d \in Held("domain") :
        /\ Room(2) /\ area' = area
        /\ \/ /\ heap' = NewTwo(<<>>, Borrowing(Object("session", <<New2>>, {d}), {d}),
                                Owned(Object("kernel", <<>>, {d})))
              /\ dropping' = dropping
           \/ /\ heap' = [heap EXCEPT ![New2] = Owned(Object("kernel", <<>>, {d}))]
              /\ dropping' = <<Release(New2)>>
  BY WithoutNone DEF with_custom_op_domain, create_kernel, NewTwo, Calling, IInv
<1>2. {d} \in SUBSET Ids
  BY HeldFacts
<1> QED
  BY <1>1, <1>2, SessionWithOK

LEMMA AppendEpOK == ASSUME Calling, append_ep_device PROVE IInv'
<1> DEFINE us(d) == {d} \cup heap[d].uses
<1>1. PICK d \in Held("authoreddevice") :
        /\ Room(2) /\ area' = area
        /\ \/ /\ heap' = NewTwo(<<>>, Borrowing(Object("session", <<New2>>, us(d)), us(d)),
                                Owned(Object("ep", <<>>, heap[d].uses)))
              /\ dropping' = dropping
           \/ /\ heap' = [heap EXCEPT ![New2] = Owned(Object("ep", <<>>, heap[d].uses))]
              /\ dropping' = <<Release(New2)>>
  <2>1. PICK d \in Held("authoreddevice") :
          /\ Room(2) /\ area' = area
          /\ \/ /\ heap' = [heap EXCEPT ![New2] = create_ep(d),
                     ![New] = Borrowing(Object("session", <<New2>>, us(d)), us(d))]
                /\ dropping' = dropping
             \/ /\ heap' = [heap EXCEPT ![New2] = create_ep(d)]
                /\ dropping' = <<Release(New2)>>
    BY DEF append_ep_device
  <2>2. New # New2 /\ Without(<<>>) = heap /\ New \in Ids /\ New2 \in Ids /\ heap \in [Ids -> Records]
    BY <2>1, New2IsFree, WithoutNone DEF Calling, IInv, HeapOK
  <2> DEFINE s == Borrowing(Object("session", <<New2>>, us(d)), us(d))
             k == Owned(Object("ep", <<>>, heap[d].uses))
  <2>3. k = create_ep(d)
    BY DEF create_ep
  <2> HIDE DEF s, k
  <2>4. [heap EXCEPT ![New2] = k, ![New] = s] = NewTwo(<<>>, s, k)
    BY <2>2 DEF NewTwo
  <2> QED
    BY <2>1, <2>3, <2>4 DEF s, k
<1>2. us(d) \in SUBSET Ids /\ heap[d].uses \in SUBSET Ids
  BY HeldFacts
<1> HIDE DEF us
<1> QED
  BY <1>1, <1>2, SessionWithOK

LEMMA GiveOK ==
  ASSUME Calling, NEW kind \in InPlace, NEW i \in Movable(kind),
         NEW other, other # kind, NEW j \in Held(other), Gives(i, j)
  PROVE  IInv'
<1>1. i \in Ids /\ heap[i].kind = kind /\ heap[i].handles > 0
  BY MovableFacts
<1>2. j \in Ids /\ heap[j].kind = other /\ heap[j].kind # "free"
  BY HeldFacts
<1> QED
  BY <1>1, <1>2, GivesOK

LEMMA ModelNextOK == ASSUME Calling, ModelNext PROVE IInv'
<1>0. {} \in SUBSET Ids
  OBVIOUS
<1>1. ASSUME NodeAttr \/ Graph \/ CallerBytes \/ Model \/ ModelCompilationOptions PROVE IInv'
  BY <1>0, <1>1, SimpleOK, PlainKinds DEF NodeAttr, Graph, CallerBytes, Model, ModelCompilationOptions
<1>2. ASSUME TensorTypeAndShapeInfo \/ TypeInfo \/ ValueInfo \/ from_model PROVE IInv'
  BY <1>0, <1>2, SimpleOK, PlainKinds DEF TensorTypeAndShapeInfo, TypeInfo, ValueInfo, from_model
<1>3. ASSUME add_node \/ add_initializer \/ add_graph \/ set_inputs PROVE IInv'
  <2>1. /\ "node" \in InPlace /\ "tensor" \in InPlace /\ "graph" \in InPlace
        /\ "valueinfo" \in InPlace
    BY DEF InPlace
  <2> QED
    BY <1>3, <2>1, GiveOK DEF add_node, add_initializer, add_graph, set_inputs
<1>4. ASSUME CallerTensor PROVE IInv'
  <2>1. \/ Make(Object("tensor", <<>>, {}))
        \/ \E d \in Held("data") : Make(Borrowing(Object("tensor", <<>>, {d}), {d}))
    BY <1>4 DEF CallerTensor
  <2>2. \A d \in Held("data") : {d} \in SUBSET Ids
    BY HeldFacts
  <2> QED
    BY <1>0, <2>1, <2>2, SimpleOK, LentOK, PlainKinds
<1>5. ASSUME apply_model PROVE IInv'
  <2>1. PICK s \in Held("session"), m \in Held("model") : Undoes(<<>>, Object("call", <<>>, {s, m}))
    BY <1>5 DEF apply_model
  <2>2. {s, m} \in SUBSET Ids
    BY HeldFacts
  <2> QED
    BY <2>1, <2>2, SimpleOK, PlainKinds
<1> QED
  BY <1>1, <1>2, <1>3, <1>4, <1>5, AttributesOK, InputModelOK, InputSpoolOK, ToBytesOK DEF ModelNext

LEMMA CallOK ==
  ASSUME Calling, NEW s \in Held("session"), Undoes(<<>>, Object("call", <<>>, GuardsOf(s))) \/ error_to_status
  PROVE  IInv'
<1>1. GuardsOf(s) \in SUBSET Ids /\ {} \in SUBSET Ids
  BY HeldFacts, ToSetType DEF GuardsOf
<1> QED
  BY <1>1, SimpleOK, PlainKinds DEF error_to_status

LEMMA OperatorNextOK == ASSUME Calling, OperatorNext PROVE IInv'
<1>0. {} \in SUBSET Ids
  OBVIOUS
<1>1. ASSUME CustomOpDomain \/ OwnedKernelInfo \/ OpAttr \/ OpCreate \/ KernelTemporaries PROVE IInv'
  BY <1>0, <1>1, SimpleOK, PlainKinds DEF CustomOpDomain, OwnedKernelInfo, OpAttr, OpCreate, KernelTemporaries
<1>2. ASSUME input_type_shape \/ KernelDefBuilder \/ KernelDef \/ OpSchema \/ ProfilingEvent PROVE IInv'
  BY <1>0, <1>2, SimpleOK, PlainKinds
     DEF input_type_shape, KernelDefBuilder, KernelDef, OpSchema, ProfilingEvent
<1>3. ASSUME RuntimeTypeInfo PROVE IInv'
  BY <1>0, <1>3, SimpleOK, PlainKinds DEF RuntimeTypeInfo
<1>4. ASSUME compute PROVE IInv'
  BY <1>4, CallOK DEF compute
<1>5. ASSUME set_output_type_shape PROVE IInv'
  <2>1. "shapeinfo" \in InPlace
    BY DEF InPlace
  <2> QED
    BY <1>5, <2>1, GiveOK DEF set_output_type_shape
<1>6. ASSUME type_constraint \/ TypeView PROVE IInv'
  <2>1. PICK s \in HeldOf({"schema", "runtimetype"}) :
          \/ Make(Borrowing(Object("constraint", <<>>, {s}), {s}))
          \/ Make(Borrowing(Object("typeview", <<>>, {s}), {s}))
    BY <1>6 DEF type_constraint, TypeView, HeldOf
  <2>2. {s} \in SUBSET Ids
    BY HeldFacts DEF HeldOf
  <2> QED
    BY <2>1, <2>2, LentOK, PlainKinds
<1> QED
  BY <1>1, <1>2, <1>3, <1>4, <1>5, <1>6, OpDomainOK DEF OperatorNext

LEMMA ProviderNextOK == ASSUME Calling, ProviderNext PROVE IInv'
<1>0. {} \in SUBSET Ids
  OBVIOUS
<1>1. ASSUME CreateEpFactories \/ OwnedHardwareDevice PROVE IInv'
  BY <1>0, <1>1, SimpleOK, PlainKinds DEF CreateEpFactories, OwnedHardwareDevice
<1>2. ASSUME OwnedEpDevice PROVE IInv'
  <2>1. PICK f \in Held("factory"), h \in Held("hardware") :
          Make(Borrowing(Object("authoreddevice", <<>>, {f, h}), {f, h}))
    BY <1>2 DEF OwnedEpDevice
  <2>2. {f, h} \in SUBSET Ids
    BY HeldFacts
  <2> QED
    BY <2>1, <2>2, LentOK, PlainKinds
<1>3. ASSUME get_capability PROVE IInv'
  BY <1>3, CallOK DEF get_capability
<1> QED
  BY <1>1, <1>2, <1>3, AppendEpOK DEF ProviderNext

(***************************************************************************)
(* Lanes                                                                   *)
(***************************************************************************)
\* The parts of a lane under construction guard its session only; the lane guards its parts
\* and its session.
IsPart(s, o) ==
    /\ o \in Records /\ o.kind \in {"buffers", "binding"} /\ o.handles = 0
    /\ \A k \in DOMAIN o.guards : o.guards[k] = s

IsLane(s, o) ==
    /\ o \in Records /\ o.kind \notin {"free", "epdevice", "dynamic"}
    /\ \A k \in DOMAIN o.guards : o.guards[k] \in {New, New2, s}

LEMMA LaneFieldsIs ==
  ASSUME NEW x \in Ids, NEW y \in Ids, NEW rest \in Seq(Ids)
  PROVE  /\ LaneFields(x, y, rest) \in Seq(Ids)
         /\ \A k \in DOMAIN LaneFields(x, y, rest) :
               LaneFields(x, y, rest)[k] \in {x, y} \cup {rest[n] : n \in DOMAIN rest}
<1> DEFINE p == <<x, y>>
           all == p \o rest
<1>1. p \in Seq(Ids) /\ Len(p) = 2 /\ p[1] = x /\ p[2] = y
  OBVIOUS
<1> HIDE DEF p
<1>2. /\ all \in Seq(Ids) /\ Len(all) = 2 + Len(rest)
      /\ \A k \in 1..2 + Len(rest) : all[k] = IF k <= 2 THEN p[k] ELSE rest[k - 2]
  <2>1. /\ p \o rest \in Seq(Ids) /\ Len(p \o rest) = Len(p) + Len(rest)
        /\ \A k \in 1..Len(p) + Len(rest) : (p \o rest)[k] = IF k <= Len(p) THEN p[k] ELSE rest[k - Len(p)]
    BY <1>1, ConcatProperties
  <2> HIDE DEF all
  <2>2. p \o rest = all
    BY DEF all
  <2> QED
    BY <1>1, <2>1, <2>2
<1> DEFINE members == {x, y} \cup {rest[n] : n \in DOMAIN rest}
<1>3. \A k \in DOMAIN all : all[k] \in members
  <2> HIDE DEF all
  <2> SUFFICES ASSUME NEW k \in DOMAIN all PROVE all[k] \in members
    OBVIOUS
  <2>1. k \in 1..2 + Len(rest) /\ Len(rest) \in Nat
    BY <1>2
  <2>2. CASE k <= 2
    <3>1. all[k] = p[k] /\ k \in {1, 2}
      BY <1>2, <2>1, <2>2
    <3> QED
      BY <1>1, <3>1
  <2>3. CASE ~(k <= 2)
    <3>1. all[k] = rest[k - 2] /\ k - 2 \in 1..Len(rest)
      BY <1>2, <2>1, <2>3
    <3> QED
      BY <3>1
  <2> QED
    BY <2>2, <2>3
<1>4. LaneFields(x, y, rest) = all
  BY DEF LaneFields, p
<1> HIDE DEF all
<1> QED
  BY <1>2, <1>3, <1>4

LEMMA BuffersParts ==
  ASSUME Calling, NEW s \in Held("session")
  PROVE  /\ IsPart(s, Owned(HostBuffers)) /\ Owned(HostBuffers).kind = "buffers"
         /\ IsPart(s, Owned(DeviceBuffers(s))) /\ Owned(DeviceBuffers(s)).kind = "buffers"
<1>1. Owned(HostBuffers) \in Records /\ Owned(HostBuffers).kind = "buffers"
      /\ Owned(HostBuffers).handles = 0 /\ Owned(HostBuffers).guards = <<>>
  BY PlainKinds, SimpleIs DEF HostBuffers
<1> DEFINE gs == <<s>>
           us == {s}
<1>2. gs \in Seq(Ids) /\ us \in SUBSET Ids /\ \A k \in DOMAIN gs : gs[k] = s
  BY HeldFacts
<1>3. "buffers" \in Kinds
  BY DEF Kinds
<1> HIDE DEF gs, us
<1>4. Owned(Object("buffers", gs, us)) \in Records /\ Owned(Object("buffers", gs, us)).kind = "buffers"
      /\ Owned(Object("buffers", gs, us)).handles = 0 /\ Owned(Object("buffers", gs, us)).guards = gs
  BY <1>2, <1>3, ObjectIs
<1>5. DeviceBuffers(s) = Object("buffers", gs, us)
  BY DEF DeviceBuffers, gs, us
<1> QED
  BY <1>1, <1>2, <1>4, <1>5 DEF IsPart

LEMMA BindingPart ==
  ASSUME Calling, NEW s \in Held("session"), NEW i \in Ids
  PROVE  IsPart(s, LaneBinding(s, i)) /\ IsPart(s, [LaneBinding(s, i) EXCEPT !.uses = {s}])
<1> DEFINE gs == <<s>>
           us == {s, i}
           o == Owned(Object("binding", gs, us))
<1>1. gs \in Seq(Ids) /\ us \in SUBSET Ids /\ {s} \in SUBSET Ids /\ \A k \in DOMAIN gs : gs[k] = s
  BY HeldFacts
<1>2. "binding" \in Kinds
  BY DEF Kinds
<1> HIDE DEF gs, us
<1>3. o \in Records /\ o.kind = "binding" /\ o.handles = 0 /\ o.guards = gs
  BY <1>1, <1>2, ObjectIs
<1>4. LaneBinding(s, i) = o
  BY DEF LaneBinding, gs, us
<1> HIDE DEF o
<1>5. [o EXCEPT !.uses = {s}] \in Records /\ [o EXCEPT !.uses = {s}].kind = o.kind
      /\ [o EXCEPT !.uses = {s}].handles = o.handles /\ [o EXCEPT !.uses = {s}].guards = o.guards
  BY <1>1, <1>3 DEF Records
<1> QED
  BY <1>1, <1>3, <1>4, <1>5 DEF IsPart

\* The lane is built.
LEMMA PartsBuilt ==
  ASSUME Calling, Room(3), NEW s \in Held("session"), NEW taken, Taken(taken),
         NEW a, IsPart(s, a), NEW b, IsPart(s, b), NEW lane, IsLane(s, lane)
  PROVE  /\ HeapOK(NewThree(taken, a, b, lane)) /\ NewThree(taken, a, b, lane)[New3] = lane
         /\ New3 \in Ids /\ Unguarded(NewThree(taken, a, b, lane), New3)
<1>1. s \in Ids /\ heap[s].kind = "session" /\ heap[s].kind \notin InPlace
  BY HeldFacts, FirmKinds
<1>2. /\ New3 \notin {New, New2, s}
  BY <1>1, New3IsFree DEF Calling, IInv
<1>3. a.kind \notin InPlace /\ b.kind \notin InPlace
  BY FirmKinds DEF IsPart
<1>4. Triples(a, a, b, lane) /\ Triples(b, a, b, lane)
  BY <1>1 DEF IsPart, Triples
<1>5. Triples(lane, a, b, lane)
  BY <1>1, <1>3 DEF IsLane, Triples
<1>6. NotAmong(New3, a) /\ NotAmong(New3, b) /\ NotAmong(New3, lane)
  BY <1>2 DEF NotAmong, IsPart, IsLane
<1> QED
  BY <1>4, <1>5, <1>6, ThreeOK

\* The lane fails: its parts are released, in some order, and what it took is dropped.
LEMMA PartsDropped ==
  ASSUME Calling, Room(2), NEW s \in Held("session"), NEW taken, Taken(taken),
         NEW a, IsPart(s, a), NEW b, IsPart(s, b)
  PROVE  /\ HeapOK(NewTwo(taken, a, b))
         /\ TasksOK(NewTwo(taken, a, b), <<Release(New), Release(New2)>> \o Unrefs(taken))
         /\ TasksOK(NewTwo(taken, a, b), <<Release(New2), Release(New)>> \o Unrefs(taken))
<1> DEFINE h2 == NewTwo(taken, a, b)
<1>1. s \in Ids /\ heap[s].kind = "session" /\ heap[s].kind \notin InPlace
  BY HeldFacts, FirmKinds
<1>2. s \notin {New, New2}
  BY <1>1, New2IsFree DEF Calling, IInv
<1>3. Pairs(a, a, b) /\ Pairs(b, a, b)
  BY <1>1 DEF IsPart, Pairs
<1>4. NotAmong(New, a) /\ NotAmong(New, b) /\ NotAmong(New2, a) /\ NotAmong(New2, b)
  BY <1>2 DEF NotAmong, IsPart
<1>5. /\ HeapOK(h2) /\ h2[New] = a /\ h2[New2] = b /\ New \in Ids /\ New2 \in Ids /\ New # New2
      /\ Unguarded(h2, New) /\ Unguarded(h2, New2)
      /\ \A k \in DOMAIN taken : h2[taken[k]].kind # "free" /\ taken[k] \notin {New, New2}
  BY <1>3, <1>4, TwoOK
<1> HIDE DEF h2
<1>6. Releasable(h2, New) /\ Releasable(h2, New2)
  BY <1>5 DEF Releasable, IsPart
<1>7. taken \in Seq(Ids)
  BY DEF Taken
<1>8. TasksOK(h2, Unrefs(taken))
  BY <1>5, <1>7, UnrefTasks
<1>9. Absent(Unrefs(taken), New) /\ Absent(Unrefs(taken), New2)
  BY <1>5, <1>7, UnrefsOK DEF Absent
<1> QED
  BY <1>5, <1>6, <1>8, <1>9, ReleaseBoth DEF h2

LEMMA BuildLaneOK ==
  ASSUME Calling, NEW s \in Held("session"), NEW taken, Taken(taken),
         NEW buffers, IsPart(s, Owned(buffers)), NEW lane, Room(3) => IsLane(s, lane),
         BuildLane(taken, s, buffers, lane)
  PROVE  IInv'
<1> DEFINE a == Owned(buffers)
           b == LaneBinding(s, New)
<1>1. \/ Refuses(taken)
      \/ /\ Room(3) /\ area' = area
         /\ \/ heap' = NewThree(taken, a, b, lane) /\ dropping' = dropping
            \/ heap' = NewTwo(taken, a, b) /\ dropping' = <<Release(New2), Release(New)>> \o Unrefs(taken)
  BY DEF BuildLane, WithParts, NewTwo, NewThree
<1> HIDE DEF a, b
<1>2. CASE Refuses(taken)
  BY <1>2, RefusesOK
<1>3. ASSUME Room(3) PROVE IsPart(s, a) /\ IsPart(s, b) /\ Room(2)
  <2>1. New \in Ids
    BY <1>3, New3IsFree DEF Calling, IInv
  <2>2. Room(2)
    BY <1>3, RoomForLess, 2 \in 0..3, 3 \in Nat DEF Calling, IInv
  <2> QED
    BY <2>1, <2>2, BindingPart DEF a, b
<1>4. CASE Room(3) /\ area' = area /\ heap' = NewThree(taken, a, b, lane) /\ dropping' = dropping
  <2>1. HeapOK(NewThree(taken, a, b, lane))
    BY <1>3, <1>4, PartsBuilt
  <2> QED
    BY <1>4, <2>1, NoTasks DEF Calling, IInv
<1>5. CASE /\ Room(3) /\ area' = area /\ heap' = NewTwo(taken, a, b)
           /\ dropping' = <<Release(New2), Release(New)>> \o Unrefs(taken)
  <2>1. /\ HeapOK(NewTwo(taken, a, b))
        /\ TasksOK(NewTwo(taken, a, b), <<Release(New2), Release(New)>> \o Unrefs(taken))
    BY <1>3, <1>5, PartsDropped
  <2> QED
    BY <1>5, <2>1 DEF Calling, IInv
<1> QED
  BY <1>1, <1>2, <1>4, <1>5

\* A lane that borrows its session.
LEMMA BorrowedLane ==
  ASSUME Calling, Room(3), NEW s \in Held("session"), NEW name, Plain(name)
  PROVE  /\ IsLane(s, Borrowing(Wrapper(name, LaneFields(New2, New, <<>>)), {s}))
         /\ IsLane(s, Owned(Wrapper(name, LaneFields(New2, New, <<>>))))
         /\ Owned(Wrapper(name, LaneFields(New2, New, <<>>))).handles = 0
<1> DEFINE none == <<>>
           gs == LaneFields(New2, New, none)
           w == Wrapper(name, gs)
<1>1. New \in Ids /\ New2 \in Ids /\ {s} \in SUBSET Ids /\ name \in Kinds
      /\ name \notin {"free", "epdevice", "dynamic"}
  BY HeldFacts, New3IsFree DEF Calling, IInv, Plain
<1>2. none \in Seq(Ids) /\ DOMAIN none = {}
  OBVIOUS
<1> HIDE DEF none
<1>3. gs \in Seq(Ids) /\ \A k \in DOMAIN gs : gs[k] \in {New, New2, s}
  <2> DEFINE members == {New2, New} \cup {none[n] : n \in DOMAIN none}
  <2>1. gs \in Seq(Ids) /\ \A k \in DOMAIN gs : gs[k] \in members
    BY <1>1, <1>2, LaneFieldsIs
  <2>2. members \subseteq {New, New2, s}
    BY <1>2
  <2> HIDE DEF gs, members
  <2> QED
    BY <2>1, <2>2
<1> HIDE DEF gs
<1>4. {} \in SUBSET Ids
  OBVIOUS
<1>5. w \in Records /\ w.kind = name /\ w.guards = gs
      /\ Owned(w) \in Records /\ Owned(w).kind = name /\ Owned(w).guards = gs /\ Owned(w).handles = 0
  BY <1>1, <1>3, <1>4, ObjectIs, ZenonT(40)
<1> HIDE DEF w
<1>6. Borrowing(w, {s}) \in Records /\ Borrowing(w, {s}).kind = name /\ Borrowing(w, {s}).guards = gs
  BY <1>1, <1>5, BorrowingIs
<1> QED
  BY <1>1, <1>3, <1>5, <1>6 DEF IsLane, none, gs, w

LEMMA BorrowingLaneOK ==
  ASSUME Calling, NEW s \in Held("session"), NEW name, Plain(name),
         BorrowingLane(s, HostBuffers, name) \/ BorrowingLane(s, DeviceBuffers(s), name)
  PROVE  IInv'
<1> DEFINE lane == Borrowing(Wrapper(name, LaneFields(New2, New, <<>>)), {s})
<1>1. Room(3) => IsLane(s, lane)
  BY BorrowedLane
<1>2. BuildLane(<<>>, s, HostBuffers, lane) \/ BuildLane(<<>>, s, DeviceBuffers(s), lane)
  BY DEF BorrowingLane
<1> HIDE DEF lane
<1> QED
  BY <1>1, <1>2, TakenNone, BuffersParts, BuildLaneOK

\* A lane that keeps its session.
LEMMA OwnLane ==
  ASSUME Calling, Room(3), NEW s \in Held("session")
  PROVE  /\ IsLane(s, Wrapper("lane", LaneFields(New2, New, <<s>>)))
         /\ \A cs \in SUBSET Ids : IsLane(s, ServingLaneOf(s, cs))
<1> DEFINE one == <<s>>
           gs == LaneFields(New2, New, one)
<1>1. New \in Ids /\ New2 \in Ids /\ s \in Ids
  BY HeldFacts, New3IsFree DEF Calling, IInv
<1>2. one \in Seq(Ids) /\ \A n \in DOMAIN one : one[n] = s
  BY <1>1
<1> HIDE DEF one
<1>3. gs \in Seq(Ids) /\ \A k \in DOMAIN gs : gs[k] \in {New, New2, s}
  <2> DEFINE members == {New2, New} \cup {one[n] : n \in DOMAIN one}
  <2>1. gs \in Seq(Ids) /\ \A k \in DOMAIN gs : gs[k] \in members
    BY <1>1, <1>2, LaneFieldsIs
  <2>2. members \subseteq {New, New2, s}
    BY <1>2
  <2> HIDE DEF gs, members
  <2> QED
    BY <2>1, <2>2
<1> HIDE DEF gs
<1>4. "lane" \in Kinds /\ "servinglane" \in Kinds
  BY DEF Kinds
<1>5. IsLane(s, Wrapper("lane", gs))
  <2>1. {} \in SUBSET Ids
    OBVIOUS
  <2> QED
    BY <1>3, <1>4, <2>1, ObjectIs DEF IsLane
<1>6. ASSUME NEW cs \in SUBSET Ids PROVE IsLane(s, ServingLaneOf(s, cs))
  <2> DEFINE o == Object("servinglane", gs, cs)
  <2>1. o \in Records /\ o.kind = "servinglane" /\ o.guards = gs
    BY <1>3, <1>4, ObjectIs
  <2>2. ServingLaneOf(s, cs) = IF cs = {} THEN [o EXCEPT !.native = "none"] ELSE o
    BY DEF ServingLaneOf, gs, one
  <2> HIDE DEF o
  <2>3. /\ [o EXCEPT !.native = "none"] \in Records /\ [o EXCEPT !.native = "none"].kind = o.kind
        /\ [o EXCEPT !.native = "none"].guards = o.guards
    BY <2>1 DEF Records
  <2> QED
    BY <1>3, <2>1, <2>2, <2>3 DEF IsLane
<1> QED
  BY <1>5, <1>6 DEF gs, one

LEMMA LaneNewOK == ASSUME Calling, LaneNew PROVE IInv'
<1>1. PICK s \in Movable("session") :
        BuildLane(<<s>>, s, HostBuffers, Wrapper("lane", LaneFields(New2, New, <<s>>)))
  BY DEF LaneNew
<1> DEFINE taken == <<s>>
           lane == Wrapper("lane", LaneFields(New2, New, <<s>>))
<1>2. s \in Held("session") /\ Taken(taken)
  BY MovableFacts
<1>3. Room(3) => IsLane(s, lane)
  BY <1>2, OwnLane
<1>4. IsPart(s, Owned(HostBuffers))
  BY <1>2, BuffersParts
<1>5. BuildLane(taken, s, HostBuffers, lane)
  BY <1>1
<1> HIDE DEF taken, lane
<1> QED
  BY <1>2, <1>3, <1>4, <1>5, BuildLaneOK

LEMMA JoinThird ==
  ASSUME NEW S, NEW a \in S, NEW b \in S, NEW c \in S
  PROVE  <<a, b>> \o <<c>> = <<a, b, c>>
<1> DEFINE s == <<a, b>>
           t == <<c>>
           u == <<a, b, c>>
<1>1. /\ s \in Seq(S) /\ t \in Seq(S) /\ Len(s) = 2 /\ Len(t) = 1 /\ s[1] = a /\ s[2] = b /\ t[1] = c
      /\ u \in Seq(S) /\ Len(u) = 3 /\ u[1] = a /\ u[2] = b /\ u[3] = c
  OBVIOUS
<1> HIDE DEF s, t, u
<1>2. s \o t \in Seq(S) /\ Len(s \o t) = 3 /\ (s \o t)[1] = a /\ (s \o t)[2] = b /\ (s \o t)[3] = c
  <2>1. /\ s \o t \in Seq(S) /\ Len(s \o t) = 3
        /\ \A k \in 1..3 : (s \o t)[k] = IF k <= 2 THEN s[k] ELSE t[k - 2]
    <3>1. /\ s \o t \in Seq(S) /\ Len(s \o t) = Len(s) + Len(t)
          /\ \A k \in 1..(Len(s) + Len(t)) : (s \o t)[k] = IF k <= Len(s) THEN s[k] ELSE t[k - Len(s)]
      BY <1>1, ConcatProperties
    <3> DEFINE v == s \o t
    <3>2. /\ v \in Seq(S) /\ Len(v) = Len(s) + Len(t)
          /\ \A k \in 1..(Len(s) + Len(t)) : v[k] = IF k <= Len(s) THEN s[k] ELSE t[k - Len(s)]
      BY <3>1
    <3> HIDE DEF v
    <3>3. v \in Seq(S) /\ Len(v) = 3 /\ \A k \in 1..3 : v[k] = IF k <= 2 THEN s[k] ELSE t[k - 2]
      BY <1>1, <3>2
    <3> QED
      BY <3>3 DEF v
  <2> DEFINE v == s \o t
  <2> HIDE DEF v
  <2>2. v[1] = s[1] /\ v[2] = s[2] /\ v[3] = t[1]
    BY <2>1 DEF v
  <2> QED
    BY <1>1, <2>1, <2>2 DEF v
<1>3. s \o t = u
  <2> DEFINE v == s \o t
  <2> HIDE DEF v
  <2>1. v \in Seq(S) /\ Len(v) = Len(u) /\ \A i \in 1..Len(v) : v[i] = u[i]
    BY <1>1, <1>2 DEF v
  <2>2. v = u
    BY <1>1, <2>1, SeqEqual
  <2> QED
    BY <2>2 DEF v
<1> QED
  BY <1>3 DEF s, t, u

LEMMA ServingLaneBuildOK ==
  ASSUME Calling, NEW s \in Movable("session"), NEW buffers, IsPart(s, Owned(buffers)),
         NEW cs \in SUBSET Ids, ServingLaneBuild(s, buffers, cs)
  PROVE  IInv'
<1> DEFINE taken == <<s>>
           a == Owned(buffers)
           b == LaneBinding(s, New)
           c == [LaneBinding(s, New) EXCEPT !.uses = {s}]
           lane == ServingLaneOf(s, cs)
<1>1. s \in Held("session") /\ Taken(taken) /\ s \in Ids
  BY MovableFacts
<1>2. \/ Refuses(taken)
      \/ /\ Room(3) /\ area' = area
         /\ \/ heap' = [WithParts(Without(taken), s, buffers) EXCEPT ![New3] = lane] /\ dropping' = dropping
            \/ /\ heap' = [WithParts(Without(taken), s, buffers) EXCEPT ![New2].uses = {s}]
               /\ dropping' = <<Release(New), Release(New2), Unref(s)>>
  BY DEF ServingLaneBuild
<1>3. [WithParts(Without(taken), s, buffers) EXCEPT ![New3] = lane] = NewThree(taken, a, b, lane)
  BY DEF WithParts, NewThree
<1>4. ASSUME Room(3)
      PROVE  [WithParts(Without(taken), s, buffers) EXCEPT ![New2].uses = {s}] = NewTwo(taken, a, c)
  <2>1. New2 \in Ids /\ New2 # New
    BY <1>4, New3IsFree DEF Calling, IInv
  <2> HIDE DEF taken
  <2>2. DOMAIN Without(taken) = Ids
    BY DEF Without
  <2> QED
    BY <2>1, <2>2 DEF WithParts, NewTwo
<1>5. <<Release(New), Release(New2), Unref(s)>> = <<Release(New), Release(New2)>> \o Unrefs(taken)
  <2> DEFINE S == {Release(New), Release(New2), Unref(s)}
  <2>1. Release(New) \in S /\ Release(New2) \in S /\ Unref(s) \in S
    OBVIOUS
  <2>2. Unrefs(taken) = <<Unref(s)>>
    BY DEF Unrefs
  <2> HIDE DEF S, taken
  <2> QED
    BY <2>1, <2>2, JoinThird
<1> HIDE DEF taken, a, b, c, lane
<1>6. CASE Refuses(taken)
  BY <1>1, <1>6, RefusesOK
<1>7. ASSUME Room(3) PROVE IsPart(s, a) /\ IsPart(s, b) /\ IsPart(s, c) /\ IsLane(s, lane) /\ Room(2)
  <2>1. New \in Ids
    BY <1>7, New3IsFree DEF Calling, IInv
  <2>2. Room(2)
    BY <1>7, RoomForLess, 2 \in 0..3, 3 \in Nat DEF Calling, IInv
  <2> QED
    BY <1>1, <1>7, <2>1, <2>2, BindingPart, OwnLane DEF a, b, c, lane
<1>8. CASE Room(3) /\ area' = area /\ heap' = NewThree(taken, a, b, lane) /\ dropping' = dropping
  <2>1. HeapOK(NewThree(taken, a, b, lane))
    BY <1>1, <1>7, <1>8, PartsBuilt
  <2> QED
    BY <1>8, <2>1, NoTasks DEF Calling, IInv
<1>9. CASE /\ Room(3) /\ area' = area /\ heap' = NewTwo(taken, a, c)
           /\ dropping' = <<Release(New), Release(New2)>> \o Unrefs(taken)
  <2>1. /\ HeapOK(NewTwo(taken, a, c))
        /\ TasksOK(NewTwo(taken, a, c), <<Release(New), Release(New2)>> \o Unrefs(taken))
    BY <1>1, <1>7, <1>9, PartsDropped
  <2> QED
    BY <1>9, <2>1 DEF Calling, IInv
<1> QED
  BY <1>2, <1>3, <1>4, <1>5, <1>6, <1>8, <1>9

LEMMA PrepareLanesOK == ASSUME Calling, prepare_tensor_io_lanes PROVE IInv'
<1> DEFINE none == <<>>
           lane == Owned(Wrapper("lane", LaneFields(New2, New, <<>>)))
           a == Owned(HostBuffers)
           b(s) == LaneBinding(s, New)
           h(s) == NewThree(none, a, b(s), lane)
<1>1. PICK s \in Held("session") :
        /\ Room(3)
        /\ heap' = [WithParts(heap, s, HostBuffers) EXCEPT ![New3] = lane]
        /\ dropping' = <<Release(New3)>>
        /\ area' = area
  BY DEF prepare_tensor_io_lanes
<1>2. Taken(none) /\ Without(none) = heap
  BY TakenNone, WithoutNone DEF Calling, IInv
<1> HIDE DEF none
<1>3. heap' = h(s)
  BY <1>1, <1>2 DEF NewThree, WithParts
<1>4. New \in Ids
  BY <1>1, New3IsFree DEF Calling, IInv
<1>5. IsLane(s, lane) /\ lane.handles = 0
  BY <1>1, BorrowedLane, PlainKinds
<1>6. IsPart(s, a) /\ IsPart(s, b(s))
  BY <1>4, BuffersParts, BindingPart
<1> HIDE DEF lane, a, b
<1>7. HeapOK(h(s)) /\ h(s)[New3] = lane /\ New3 \in Ids /\ Unguarded(h(s), New3)
  BY <1>1, <1>2, <1>5, <1>6, PartsBuilt
<1> HIDE DEF h
<1>8. Releasable(h(s), New3)
  BY <1>5, <1>7 DEF Releasable, IsLane
<1>9. TasksOK(h(s), <<Release(New3)>>)
  BY <1>8, ReleaseOnly
<1> QED
  BY <1>1, <1>3, <1>7, <1>9 DEF Calling, IInv

\* A lane's outputs are released, or new ones take their place.
LEMMA RefreshOutputsOK == ASSUME Calling, RefreshOutputs PROVE IInv'
<1> DEFINE Olds(l) == Among(heap[l].guards, OfKind({"value"}))
           Remaining(l) == Among(heap[l].guards, Ids \ OfKind({"value"}))
<1>1. PICK l \in Held("collecting") :
        /\ \/ /\ heap' = [heap EXCEPT ![l].guards = Remaining(l)]
              /\ dropping' = Unrefs(Olds(l))
           \/ /\ Room(1)
              /\ heap' = [heap EXCEPT ![l].guards = Append(Remaining(l), New),
                                      ![New] = Owned(Object("value", <<>>, {}))]
              /\ dropping' = dropping
        /\ area' = area
  BY DEF RefreshOutputs
<1> DEFINE olds == Olds(l)
           kept == Remaining(l)
           o == [heap[l] EXCEPT !.guards = kept]
           n == [heap[l] EXCEPT !.guards = Append(kept, New)]
           value == Owned(Object("value", <<>>, {}))
<1>2. l \in Ids /\ heap[l].kind = "collecting" /\ heap[l] \in Records /\ HeapOK(heap)
  BY HeldFacts DEF Calling, IInv
<1>3. Guardable(olds) /\ Guardable(kept)
  BY <1>2, GuardableOf, AmongGuardable
<1> HIDE DEF Olds, Remaining
<1>4. CASE /\ heap' = [heap EXCEPT ![l].guards = kept] /\ dropping' = Unrefs(olds) /\ area' = area
  <2>1. heap' = Replaced(l, o)
    BY <1>2, <1>4 DEF Replaced, HeapOK
  <2> HIDE DEF olds, kept
  <2>2. o \in Records /\ o.kind = "collecting" /\ o.guards = kept
    BY <1>2, <1>3 DEF Records, Guardable
  <2> HIDE DEF o
  <2>3. Fresh(o)
    BY <1>3, <2>2 DEF Guardable, Fresh, WellFormed
  <2> DEFINE h2 == Replaced(l, o)
  <2>4. HeapOK(h2) /\ Changed(heap, h2, {l})
    BY <1>2, <2>2, <2>3, ReplaceHeap
  <2> HIDE DEF h2
  <2>5. \A k \in DOMAIN olds : h2[olds[k]].kind # "free"
    <3> TAKE k \in DOMAIN olds
    <3>1. olds[k] \in Ids /\ heap[olds[k]].kind \notin InPlace
      BY <1>3 DEF Guardable
    <3> QED
      BY <2>4, <3>1, KindsKept DEF InPlace
  <2>6. TasksOK(h2, Unrefs(olds))
    BY <1>3, <2>5, UnrefTasks DEF Guardable
  <2> QED
    BY <1>4, <2>1, <2>4, <2>6 DEF h2, Calling, IInv
<1>5. CASE /\ Room(1) /\ heap' = [heap EXCEPT ![l].guards = Append(kept, New), ![New] = value]
           /\ dropping' = dropping /\ area' = area
  <2>1. New \in Ids /\ heap[New].kind = "free"
    BY <1>5, NewIsFree DEF Calling, IInv
  <2>2. heap' = [heap EXCEPT ![l] = n, ![New] = value]
    BY <1>2, <1>5 DEF HeapOK
  <2> HIDE DEF kept
  <2>3. /\ Append(kept, New) \in Seq(Ids)
        /\ \A k \in DOMAIN Append(kept, New) :
              Append(kept, New)[k] = New \/ heap[Append(kept, New)[k]].kind \notin InPlace
    <3>1. kept \in Seq(Ids) /\ \A k \in DOMAIN kept : heap[kept[k]].kind \notin InPlace
      BY <1>3 DEF Guardable
    <3>2. /\ Append(kept, New) \in Seq(Ids) /\ Len(Append(kept, New)) = Len(kept) + 1
          /\ \A k \in 1..Len(kept) + 1 :
                Append(kept, New)[k] = IF k <= Len(kept) THEN kept[k] ELSE New
      BY <2>1, <3>1
    <3> DEFINE all == Append(kept, New)
    <3> HIDE DEF all
    <3>3. /\ all \in Seq(Ids) /\ Len(all) = Len(kept) + 1
          /\ \A k \in 1..Len(kept) + 1 : all[k] = IF k <= Len(kept) THEN kept[k] ELSE New
      BY <3>2 DEF all
    <3>4. ASSUME NEW k \in DOMAIN all PROVE all[k] = New \/ heap[all[k]].kind \notin InPlace
      <4>1. k \in 1..Len(kept) + 1 /\ Len(kept) \in Nat
        BY <3>1, <3>3
      <4>2. CASE k <= Len(kept)
        BY <3>1, <3>3, <4>1, <4>2
      <4>3. CASE ~(k <= Len(kept))
        BY <3>3, <4>1, <4>3
      <4> QED
        BY <4>2, <4>3
    <3> QED
      BY <3>3, <3>4 DEF all
  <2> DEFINE all == Append(kept, New)
  <2>4. n \in Records /\ n.kind = "collecting" /\ n.guards = all
    <3> HIDE DEF all
    <3>1. all \in Seq(Ids)
      BY <2>3 DEF all
    <3>2. n = [heap[l] EXCEPT !.guards = all]
      BY DEF n, all
    <3> HIDE DEF n
    <3> QED
      BY <1>2, <3>1, <3>2 DEF Records
  <2> HIDE DEF n
  <2>5. Adopts(n)
    BY <2>3, <2>4 DEF Adopts
  <2>6. Fresh(value) /\ value.kind \notin InPlace
    BY SimpleIs, PlainKinds, FirmKinds
  <2> HIDE DEF value, all
  <2> QED
    BY <1>2, <1>5, <2>2, <2>4, <2>5, <2>6, AdoptOK DEF Calling, IInv
<1> QED
  BY <1>1, <1>4, <1>5

LEMMA LaneNextOK == ASSUME Calling, LaneNext PROVE IInv'
<1>0. {} \in SUBSET Ids
  OBVIOUS
<1>1. ASSUME \/ prepare_tensor_io_lane \/ prepare_static_tensor_io_lane
             \/ prepare_allocated_output_tensor_io_lane \/ prepare_allocated_tensor_io_lane
             \/ prepare_device_output_tensor_io_lane
      PROVE  IInv'
  BY <1>1, BorrowingLaneOK, PlainKinds
     DEF prepare_tensor_io_lane, prepare_static_tensor_io_lane, prepare_allocated_output_tensor_io_lane,
         prepare_allocated_tensor_io_lane, prepare_device_output_tensor_io_lane
<1>2. ASSUME CallerBuffers PROVE IInv'
  BY <1>0, <1>2, SimpleOK, PlainKinds DEF CallerBuffers, HostBuffers
<1>3. ASSUME prepare_run PROVE IInv'
  <2>1. PICK s \in Held("session"), v \in Held("buffers") :
          Make(Borrowing(Wrapper("collecting", <<>>), {s, v}))
    BY <1>3 DEF prepare_run
  <2>2. {s, v} \in SUBSET Ids
    BY HeldFacts
  <2> QED
    BY <2>1, <2>2, WrapperFresh, GuardableNone, PlainKinds, BorrowingFresh, MakeOK
<1>4. ASSUME prepare_io_binding PROVE IInv'
  <2>1. PICK s \in Held("session"), v \in Held("buffers") :
          MakeOrUndo(Borrowing(Object("binding", <<s>>, {s, v}), {s, v}))
    BY <1>4 DEF prepare_io_binding
  <2>2. {s, v} \in SUBSET Ids /\ Guardable(<<s>>)
    BY HeldFacts, GuardableOne, FirmKinds
  <2> QED
    BY <2>1, <2>2, BorrowingOK, PlainKinds
<1>5. ASSUME run_binding PROVE IInv'
  <2>1. PICK s \in Held("session"), b \in Held("binding") :
          Undoes(<<>>, Object("run", <<>>, {s, b} \cup heap[b].uses))
    BY <1>5 DEF run_binding
  <2>2. {s, b} \cup heap[b].uses \in SUBSET Ids
    BY HeldFacts
  <2> QED
    BY <2>1, <2>2, SimpleOK, PlainKinds
<1>6. ASSUME ServingLaneNew PROVE IInv'
  <2>1. PICK s \in Movable("session") : ServingLaneBuild(s, HostBuffers, {})
    BY <1>6 DEF ServingLaneNew
  <2>2. IsPart(s, Owned(HostBuffers))
    BY MovableFacts, BuffersParts
  <2> QED
    BY <1>0, <2>1, <2>2, ServingLaneBuildOK
<1>7. ASSUME with_device_inputs PROVE IInv'
  <2>1. PICK s \in Movable("session") : \E c \in StreamsFor(s) : ServingLaneBuild(s, DeviceBuffers(s), {c})
    BY <1>7 DEF with_device_inputs
  <2>2. PICK c \in Held("cudastream") : ServingLaneBuild(s, DeviceBuffers(s), {c})
    BY <2>1 DEF StreamsFor
  <2>3. IsPart(s, Owned(DeviceBuffers(s)))
    BY MovableFacts, BuffersParts
  <2>4. {c} \in SUBSET Ids
    BY HeldFacts
  <2> QED
    BY <2>2, <2>3, <2>4, ServingLaneBuildOK
<1>8. ASSUME CloneSession PROVE IInv'
  BY <1>8, CloneHeldOK DEF CloneSession
<1> QED
  BY <1>1, <1>2, <1>3, <1>4, <1>5, <1>6, <1>7, <1>8, LaneNewOK, PrepareLanesOK, RefreshOutputsOK
     DEF LaneNext

(***************************************************************************)
(* Sets of lanes                                                           *)
(***************************************************************************)
\* Each lane of a set has a session and may fence on streams.
Sessions(ss) == ss \in Seq(Ids) /\ \A k \in DOMAIN ss : heap[ss[k]].kind = "session"
Fences(ss, streams) == \A k \in DOMAIN ss : streams[k] \in SUBSET Ids

LEMMA WholeLaneIs ==
  ASSUME NEW s \in Ids, NEW cs \in SUBSET Ids
  PROVE  /\ WholeLane(s, cs) \in Records /\ WholeLane(s, cs).kind = "wholelane"
         /\ WholeLane(s, cs).handles = 0 /\ DOMAIN WholeLane(s, cs).guards = {1}
         /\ WholeLane(s, cs).guards[1] = s
<1> DEFINE gs == <<s>>
           us == {s} \cup cs
           o == Object("wholelane", gs, us)
<1>1. gs \in Seq(Ids) /\ us \in SUBSET Ids /\ DOMAIN gs = {1} /\ gs[1] = s
  OBVIOUS
<1>2. "wholelane" \in Kinds
  BY DEF Kinds
<1> HIDE DEF gs, us
<1>3. Owned(o) \in Records /\ Owned(o).kind = "wholelane" /\ Owned(o).guards = gs /\ Owned(o).handles = 0
  BY <1>1, <1>2, ObjectIs
<1>4. WholeLane(s, cs) = Owned(o)
  BY DEF WholeLane, gs, us
<1> HIDE DEF o
<1> QED
  BY <1>1, <1>3, <1>4

\* The wrapper of a set guards its lanes.
LEMMA LaneSetIs ==
  ASSUME NEW name, Plain(name), NEW lanes \in Seq(Ids)
  PROVE  /\ Wrapper(name, lanes) \in Records /\ Wrapper(name, lanes).guards = lanes
         /\ Wrapper(name, lanes).kind \notin {"free", "epdevice", "dynamic"}
<1>1. name \in Kinds /\ name \notin {"free", "epdevice", "dynamic"}
  BY DEF Plain
<1>2. {} \in SUBSET Ids
  OBVIOUS
<1> QED
  BY <1>1, <1>2, ObjectIs

LEMMA OneLaneOK ==
  ASSUME Calling, Room(2), NEW taken, Taken(taken), NEW s \in Ids, heap[s].kind = "session",
         NEW cs \in SUBSET Ids, NEW name, Plain(name)
  PROVE  /\ HeapOK(NewTwo(taken, WholeLane(s, cs), Wrapper(name, <<New>>)))
         /\ TasksOK(NewTwo(taken, WholeLane(s, cs), Wrapper(name, <<New>>)), Unrefs(taken))
<1> DEFINE gs == <<New>>
           a == WholeLane(s, cs)
           b == Wrapper(name, gs)
           h2 == NewTwo(taken, a, b)
<1>1. New \in Ids
  BY New2IsFree DEF Calling, IInv
<1>2. gs \in Seq(Ids) /\ \A k \in DOMAIN gs : gs[k] = New
  BY <1>1
<1> HIDE DEF gs
<1>3. /\ a \in Records /\ a.kind = "wholelane" /\ \A k \in DOMAIN a.guards : a.guards[k] = s
      /\ b \in Records /\ b.kind \notin {"free", "epdevice", "dynamic"} /\ b.guards = gs
  BY <1>2, WholeLaneIs, LaneSetIs
<1>4. heap[s].kind \notin InPlace /\ a.kind \notin InPlace
  BY <1>3, FirmKinds
<1> HIDE DEF a, b
<1>5. Pairs(a, a, b) /\ Pairs(b, a, b)
  BY <1>2, <1>3, <1>4 DEF Pairs
<1>6. HeapOK(h2) /\ \A k \in DOMAIN taken : h2[taken[k]].kind # "free"
  BY <1>5, TwoOK
<1> HIDE DEF h2
<1>7. TasksOK(h2, Unrefs(taken))
  BY <1>6, UnrefTasks DEF Taken
<1> QED
  BY <1>6, <1>7 DEF h2, a, b, gs

LEMMA TwoLanesOK ==
  ASSUME Calling, Room(3), NEW taken, Taken(taken),
         NEW s \in Ids, heap[s].kind = "session", NEW cs \in SUBSET Ids,
         NEW t \in Ids, heap[t].kind = "session", NEW ds \in SUBSET Ids, NEW name, Plain(name)
  PROVE  /\ HeapOK(NewThree(taken, WholeLane(s, cs), WholeLane(t, ds), Wrapper(name, <<New, New2>>)))
         /\ TasksOK(NewThree(taken, WholeLane(s, cs), WholeLane(t, ds), Wrapper(name, <<New, New2>>)),
                    Unrefs(taken))
<1> DEFINE gs == <<New, New2>>
           a == WholeLane(s, cs)
           b == WholeLane(t, ds)
           c == Wrapper(name, gs)
           h2 == NewThree(taken, a, b, c)
<1>1. New \in Ids /\ New2 \in Ids
  BY New3IsFree DEF Calling, IInv
<1>2. gs \in Seq(Ids) /\ \A k \in DOMAIN gs : gs[k] = New \/ gs[k] = New2
  BY <1>1
<1> HIDE DEF gs
<1>3. /\ a \in Records /\ a.kind = "wholelane" /\ \A k \in DOMAIN a.guards : a.guards[k] = s
      /\ b \in Records /\ b.kind = "wholelane" /\ \A k \in DOMAIN b.guards : b.guards[k] = t
      /\ c \in Records /\ c.kind \notin {"free", "epdevice", "dynamic"} /\ c.guards = gs
  BY <1>2, WholeLaneIs, LaneSetIs
<1>4. heap[s].kind \notin InPlace /\ heap[t].kind \notin InPlace /\ a.kind \notin InPlace /\ b.kind \notin InPlace
  BY <1>3, FirmKinds
<1> HIDE DEF a, b, c
<1>5. Triples(a, a, b, c) /\ Triples(b, a, b, c) /\ Triples(c, a, b, c)
  BY <1>2, <1>3, <1>4 DEF Triples
<1>6. HeapOK(h2) /\ \A k \in DOMAIN taken : h2[taken[k]].kind # "free"
  BY <1>5, ThreeOK
<1> HIDE DEF h2
<1>7. TasksOK(h2, Unrefs(taken))
  BY <1>6, UnrefTasks DEF Taken
<1> QED
  BY <1>6, <1>7 DEF h2, a, b, c, gs

\* A lane that is dropped with what the call consumed.
LEMMA LaneDroppedOK ==
  ASSUME Calling, Room(1), NEW taken, Taken(taken), NEW s \in Ids, heap[s].kind = "session",
         NEW cs \in SUBSET Ids
  PROVE  /\ HeapOK(Over(Without(taken), WholeLane(s, cs)))
         /\ TasksOK(Over(Without(taken), WholeLane(s, cs)), <<Release(New)>> \o Unrefs(taken))
<1> DEFINE a == WholeLane(s, cs)
           base == Without(taken)
           h2 == Over(base, a)
<1>1. SameObjects(base)
  BY WithoutOK DEF SameObjects, Calling, IInv
<1>2. /\ a \in Records /\ a.kind = "wholelane" /\ a.handles = 0 /\ a.guards \in Seq(Ids)
      /\ \A k \in DOMAIN a.guards : a.guards[k] = s
  BY WholeLaneIs DEF Records
<1>3. Fresh(a)
  BY <1>2, FirmKinds DEF Fresh, WellFormed
<1> HIDE DEF a, base
<1>4. /\ HeapOK(h2) /\ h2[New] = a /\ New \in Ids /\ Unguarded(h2, New)
      /\ \A i \in Ids : heap[i].kind # "free" => i # New /\ h2[i].kind # "free"
  BY <1>1, <1>3, FreshOver
<1> HIDE DEF h2
<1>5. taken \in Seq(Ids) /\ \A k \in DOMAIN taken : h2[taken[k]].kind # "free" /\ taken[k] # New
  BY <1>4, TakenObjects DEF Taken, Calling, IInv
<1>6. TasksOK(h2, Unrefs(taken)) /\ Absent(Unrefs(taken), New)
  BY <1>5, UnrefTasks, UnrefsOK DEF Absent
<1>7. Releasable(h2, New)
  BY <1>2, <1>4 DEF Releasable
<1>8. TasksOK(h2, <<Release(New)>> \o Unrefs(taken))
  BY <1>6, <1>7, ReleaseFirst
<1> QED
  BY <1>4, <1>8 DEF h2, a, base

LEMMA BuildLanesOK ==
  ASSUME Calling, NEW taken, Taken(taken), NEW ss, Sessions(ss), NEW streams, Fences(ss, streams),
         NEW name, Plain(name), BuildLanes(taken, ss, streams, name)
  PROVE  IInv'
<1> DEFINE one == NewTwo(taken, WholeLane(ss[1], streams[1]), Wrapper(name, <<New>>))
           two == NewThree(taken, WholeLane(ss[1], streams[1]), WholeLane(ss[2], streams[2]),
                           Wrapper(name, <<New, New2>>))
           first == Over(Without(taken), WholeLane(ss[1], streams[1]))
<1>1. \/ Len(ss) = 1 /\ Room(2) /\ heap' = one /\ dropping' = Unrefs(taken) /\ area' = area
      \/ Len(ss) = 2 /\ Room(3) /\ heap' = two /\ dropping' = Unrefs(taken) /\ area' = area
      \/ /\ Len(ss) = 2 /\ Room(1) /\ heap' = first
         /\ dropping' = <<Release(New)>> \o Unrefs(taken) /\ area' = area
      \/ Refuses(taken)
  BY DEF BuildLanes, NewTwo, NewThree, Over
<1>2. \A k \in DOMAIN ss : ss[k] \in Ids /\ heap[ss[k]].kind = "session" /\ streams[k] \in SUBSET Ids
  BY DEF Sessions, Fences
<1>3. ss \in Seq(Ids)
  BY DEF Sessions
<1>4. ASSUME Len(ss) = 1 \/ Len(ss) = 2
      PROVE  /\ ss[1] \in Ids /\ heap[ss[1]].kind = "session" /\ streams[1] \in SUBSET Ids
             /\ Len(ss) = 2 => ss[2] \in Ids /\ heap[ss[2]].kind = "session" /\ streams[2] \in SUBSET Ids
  <2>1. 1 \in DOMAIN ss /\ (Len(ss) = 2 => 2 \in DOMAIN ss)
    BY <1>3, <1>4
  <2> QED
    BY <1>2, <2>1
<1>5. CASE Len(ss) = 1 /\ Room(2) /\ heap' = one /\ dropping' = Unrefs(taken) /\ area' = area
  <2>1. HeapOK(one) /\ TasksOK(one, Unrefs(taken))
    BY <1>4, <1>5, OneLaneOK
  <2> HIDE DEF one
  <2> QED
    BY <1>5, <2>1 DEF Calling, IInv
<1>6. CASE Len(ss) = 2 /\ Room(3) /\ heap' = two /\ dropping' = Unrefs(taken) /\ area' = area
  <2>1. HeapOK(two) /\ TasksOK(two, Unrefs(taken))
    BY <1>4, <1>6, TwoLanesOK
  <2> HIDE DEF two
  <2> QED
    BY <1>6, <2>1 DEF Calling, IInv
<1>7. CASE /\ Len(ss) = 2 /\ Room(1) /\ heap' = first
           /\ dropping' = <<Release(New)>> \o Unrefs(taken) /\ area' = area
  <2>1. HeapOK(first) /\ TasksOK(first, <<Release(New)>> \o Unrefs(taken))
    BY <1>4, <1>7, LaneDroppedOK
  <2> HIDE DEF first
  <2> QED
    BY <1>7, <2>1 DEF Calling, IInv
<1>8. CASE Refuses(taken)
  BY <1>8, RefusesOK
<1> QED
  BY <1>1, <1>5, <1>6, <1>7, <1>8

LEMMA SliceIs ==
  ASSUME NEW set, NEW ss \in Slices(set)
  PROVE  ss \in Seq(set) /\ (Len(ss) = 1 \/ Len(ss) = 2)
<1>1. CASE \E s \in set : ss = <<s>>
  BY <1>1
<1>2. CASE \E s \in set, t \in set : ss = <<s, t>>
  BY <1>2
<1> QED
  BY <1>1, <1>2 DEF Slices

LEMMA SliceSessions ==
  ASSUME Calling, NEW ss
  PROVE  /\ ss \in Slices(Held("session")) => Sessions(ss)
         /\ \A s \in Movable("session") : ss \in Shared(s) => Sessions(ss)
         /\ ss \in Distinct(Movable("session")) => Sessions(ss) /\ Taken(ss)
<1>1. ASSUME NEW set, ss \in Seq(set), \A s \in set : s \in Held("session") PROVE Sessions(ss)
  <2>1. \A s \in set : s \in Ids /\ heap[s].kind = "session"
    BY <1>1, HeldFacts
  <2> QED
    BY <1>1, <2>1 DEF Sessions
<1>2. ss \in Slices(Held("session")) => Sessions(ss)
  BY <1>1, SliceIs
<1>3. ASSUME NEW s \in Movable("session"), ss \in Shared(s) PROVE Sessions(ss)
  <2> DEFINE set == {s}
  <2>0. s \in set /\ (ss = <<s>> \/ ss = <<s, s>>)
    BY <1>3 DEF Shared
  <2>2. \A t \in set : t \in Held("session")
    BY MovableFacts
  <2> HIDE DEF set
  <2>3. <<s>> \in Seq(set)
    BY <2>0
  <2>4. <<s, s>> \in Seq(set)
    BY <2>0
  <2>1. ss \in Seq(set)
    BY <2>0, <2>3, <2>4
  <2> QED
    BY <1>1, <2>1, <2>2
<1>4. ASSUME ss \in Distinct(Movable("session")) PROVE Sessions(ss) /\ Taken(ss)
  <2> DEFINE set == Movable("session")
  <2>1. ss \in Seq(set) /\ (Len(ss) = 1 \/ Len(ss) = 2) /\ (Len(ss) = 2 => ss[1] # ss[2])
    BY <1>4, SliceIs DEF Distinct
  <2>2. \A s \in set : s \in Ids /\ s \in Held("session") /\ heap[s].handles > 0
    BY MovableFacts
  <2> HIDE DEF set
  <2>3. \A k \in DOMAIN ss : ss[k] \in set /\ (k = 1 \/ (k = 2 /\ Len(ss) = 2))
    BY <2>1
  <2>4. ss \in Seq(Ids)
    BY <2>1, <2>2
  <2>5. Taken(ss)
    BY <2>1, <2>2, <2>3, <2>4 DEF Taken
  <2> QED
    BY <1>1, <2>1, <2>2, <2>5
<1> QED
  BY <1>2, <1>3, <1>4

LEMMA StreamFences ==
  ASSUME Calling, NEW ss \in Seq(Ids)
  PROVE  /\ Fences(ss, HostOnly(ss))
         /\ \A c \in Held("cudastream") : Fences(ss, OnStream(ss, c))
         /\ \A cs \in Slices(Held("cudastream")) :
               Len(ss) = Len(cs) => Fences(ss, [k \in DOMAIN ss |-> {cs[k]}])
<1>1. Fences(ss, HostOnly(ss))
  BY DEF Fences, HostOnly
<1>2. ASSUME NEW c \in Held("cudastream") PROVE Fences(ss, OnStream(ss, c))
  <2>1. c \in Ids
    BY HeldFacts
  <2> QED
    BY <2>1 DEF Fences, OnStream
<1>3. ASSUME NEW cs \in Slices(Held("cudastream")), Len(ss) = Len(cs)
      PROVE  Fences(ss, [k \in DOMAIN ss |-> {cs[k]}])
  <2> DEFINE set == Held("cudastream")
  <2>1. cs \in Seq(set)
    BY SliceIs
  <2>2. \A c \in set : c \in Ids
    BY HeldFacts
  <2> HIDE DEF set
  <2>3. \A k \in DOMAIN ss : cs[k] \in Ids
    BY <1>3, <2>1, <2>2
  <2> QED
    BY <2>3 DEF Fences
<1> QED
  BY <1>1, <1>2, <1>3

\* The constructors that consume one session, or as many as there are lanes.
LEMMA TakingSetsOK ==
  ASSUME Calling, \/ build_shared_lanes \/ static_shared_session \/ shared_session_with_device_inputs
                  \/ from_sessions \/ static_from_sessions
  PROVE  IInv'
<1>1. ASSUME build_shared_lanes \/ static_shared_session \/ shared_session_with_device_inputs PROVE IInv'
  <2>1. PICK s \in Movable("session") : \E ss \in Shared(s) :
          \/ BuildLanes(<<s>>, ss, HostOnly(ss), "runtime")
          \/ BuildLanes(<<s>>, ss, HostOnly(ss), "static")
          \/ \E c \in Held("cudastream") : BuildLanes(<<s>>, ss, OnStream(ss, c), "static")
    BY <1>1 DEF build_shared_lanes, static_shared_session, shared_session_with_device_inputs
  <2> DEFINE taken == <<s>>
  <2>3. PICK ss \in Shared(s) :
          \/ BuildLanes(taken, ss, HostOnly(ss), "runtime")
          \/ BuildLanes(taken, ss, HostOnly(ss), "static")
          \/ \E c \in Held("cudastream") : BuildLanes(taken, ss, OnStream(ss, c), "static")
    BY <2>1
  <2>2. Taken(taken) /\ Sessions(ss)
    BY MovableFacts, SliceSessions
  <2> HIDE DEF taken
  <2>4. Fences(ss, HostOnly(ss)) /\ \A c \in Held("cudastream") : Fences(ss, OnStream(ss, c))
    BY <2>2, StreamFences DEF Sessions
  <2> QED
    BY <2>2, <2>3, <2>4, BuildLanesOK, PlainKinds
<1>2. ASSUME from_sessions \/ static_from_sessions PROVE IInv'
  <2>1. PICK ss \in Distinct(Movable("session")) :
          BuildLanes(ss, ss, HostOnly(ss), "runtime") \/ BuildLanes(ss, ss, HostOnly(ss), "static")
    BY <1>2 DEF from_sessions, static_from_sessions
  <2>2. Taken(ss) /\ Sessions(ss)
    BY SliceSessions
  <2>3. Fences(ss, HostOnly(ss))
    BY <2>2, StreamFences DEF Sessions
  <2> QED
    BY <2>1, <2>2, <2>3, BuildLanesOK, PlainKinds
<1> QED
  BY <1>1, <1>2

\* The constructors that clone the sessions they are shown.
LEMMA SharingSetsOK ==
  ASSUME Calling, \/ from_session_refs \/ from_session_refs_with_device_inputs
                  \/ from_session_refs_with_device_input_streams
                  \/ from_session_refs_with_device_io \/ from_session_refs_with_device_io_streams
  PROVE  IInv'
<1> DEFINE none == <<>>
<1>1. PICK ss \in Slices(Held("session")), name \in {"static", "deviceio"} :
        \/ BuildLanes(none, ss, HostOnly(ss), name)
        \/ \E c \in Held("cudastream") : BuildLanes(none, ss, OnStream(ss, c), name)
        \/ \E cs \in Slices(Held("cudastream")) :
              Len(ss) = Len(cs) /\ BuildLanes(none, ss, [k \in DOMAIN ss |-> {cs[k]}], name)
  BY DEF from_session_refs, from_session_refs_with_device_inputs, from_session_refs_with_device_io,
         from_session_refs_with_device_input_streams, from_session_refs_with_device_io_streams
<1>2. Taken(none) /\ Sessions(ss) /\ Plain(name)
  BY TakenNone, SliceSessions, PlainKinds
<1> HIDE DEF none
<1>3. ss \in Seq(Ids)
  BY <1>2 DEF Sessions
<1>4. CASE BuildLanes(none, ss, HostOnly(ss), name)
  BY <1>2, <1>3, <1>4, StreamFences, BuildLanesOK
<1>5. CASE \E c \in Held("cudastream") : BuildLanes(none, ss, OnStream(ss, c), name)
  BY <1>2, <1>3, <1>5, StreamFences, BuildLanesOK
<1>6. CASE \E cs \in Slices(Held("cudastream")) :
             Len(ss) = Len(cs) /\ BuildLanes(none, ss, [k \in DOMAIN ss |-> {cs[k]}], name)
  <2>1. PICK cs \in Slices(Held("cudastream")) :
          Len(ss) = Len(cs) /\ BuildLanes(none, ss, [k \in DOMAIN ss |-> {cs[k]}], name)
    BY <1>6
  <2> DEFINE streams == [k \in DOMAIN ss |-> {cs[k]}]
  <2>2. Fences(ss, streams) /\ BuildLanes(none, ss, streams, name)
    BY <1>3, <2>1, StreamFences
  <2> HIDE DEF streams
  <2> QED
    BY <1>2, <2>2, BuildLanesOK
<1> QED
  BY <1>1, <1>4, <1>5, <1>6

LEMMA FactoryLanesOK ==
  ASSUME Calling, NEW name, Plain(name), FactoryLanes(name)
  PROVE  IInv'
<1> DEFINE none == <<>>
           gs == <<New2>>
           session == Owned(Object("session", <<>>, {}))
           lane == WholeLane(New, {})
           set == Wrapper(name, gs)
           h2 == NewThree(none, session, lane, set)
<1>1. Taken(none) /\ Without(none) = heap
  BY TakenNone, WithoutNone DEF Calling, IInv
<1> HIDE DEF none
<1>2. \/ Room(3) /\ heap' = h2 /\ area' = area /\ dropping' = dropping
      \/ Undoes(<<>>, Object("session", <<>>, {}))
  BY <1>1 DEF FactoryLanes, NewThree
<1>3. CASE Undoes(<<>>, Object("session", <<>>, {}))
  <2>1. {} \in SUBSET Ids
    OBVIOUS
  <2> QED
    BY <1>3, <2>1, SimpleOK, PlainKinds
<1>4. CASE Room(3) /\ heap' = h2 /\ area' = area /\ dropping' = dropping
  <2>1. New \in Ids /\ New2 \in Ids /\ {} \in SUBSET Ids
    BY <1>4, New3IsFree DEF Calling, IInv
  <2>2. gs \in Seq(Ids) /\ \A k \in DOMAIN gs : gs[k] = New2
    BY <2>1
  <2> HIDE DEF gs
  <2>3. /\ session \in Records /\ session.kind = "session" /\ session.guards = <<>>
        /\ lane \in Records /\ lane.kind = "wholelane" /\ \A k \in DOMAIN lane.guards : lane.guards[k] = New
        /\ set \in Records /\ set.kind \notin {"free", "epdevice", "dynamic"} /\ set.guards = gs
    BY <2>1, <2>2, SimpleIs, PlainKinds, WholeLaneIs, LaneSetIs
  <2>4. session.kind \notin InPlace /\ lane.kind \notin InPlace
    BY <2>3, FirmKinds
  <2> HIDE DEF session, lane, set
  <2>5. /\ Triples(session, session, lane, set) /\ Triples(lane, session, lane, set)
        /\ Triples(set, session, lane, set)
    BY <2>2, <2>3, <2>4 DEF Triples
  <2>6. HeapOK(h2)
    BY <1>1, <1>4, <2>5, ThreeOK
  <2> HIDE DEF h2
  <2> QED
    BY <1>4, <2>6, NoTasks DEF Calling, IInv
<1> QED
  BY <1>2, <1>3, <1>4

(***************************************************************************)
(* Dynamic runtimes                                                        *)
(***************************************************************************)
LEMMA WholeLaneFresh ==
  ASSUME NEW s \in Ids, heap[s].kind = "session", NEW cs \in SUBSET Ids
  PROVE  Fresh(WholeLane(s, cs)) /\ WholeLane(s, cs).kind \notin InPlace
<1> DEFINE o == WholeLane(s, cs)
<1>1. o \in Records /\ o.kind = "wholelane" /\ \A k \in DOMAIN o.guards : o.guards[k] = s
  BY WholeLaneIs
<1> HIDE DEF o
<1>2. Fresh(o) /\ o.kind \notin InPlace
  BY <1>1, FirmKinds DEF Fresh, WellFormed
<1> QED
  BY <1>2 DEF o

LEMMA PrefixIs ==
  ASSUME NEW gs \in Seq(Ids), gs # <<>>, NEW i \in Ids
  PROVE  /\ <<i>> \o gs \in Seq(Ids) /\ <<i>> \o gs # <<>>
         /\ \A k \in DOMAIN (<<i>> \o gs) :
               (<<i>> \o gs)[k] = i \/ \E n \in DOMAIN gs : (<<i>> \o gs)[k] = gs[n]
         /\ (<<i>> \o gs)[Len(<<i>> \o gs)] = gs[Len(gs)]
<1> DEFINE p == <<i>>
           all == p \o gs
<1>1. p \in Seq(Ids) /\ Len(p) = 1 /\ p[1] = i /\ Len(gs) \in Nat /\ Len(gs) >= 1
  OBVIOUS
<1> HIDE DEF p
<1>2. /\ all \in Seq(Ids) /\ Len(all) = 1 + Len(gs)
      /\ \A k \in 1..1 + Len(gs) : all[k] = IF k <= 1 THEN p[k] ELSE gs[k - 1]
  BY <1>1, ConcatProperties
<1> HIDE DEF all
<1>3. ASSUME NEW k \in DOMAIN all PROVE all[k] = i \/ \E n \in DOMAIN gs : all[k] = gs[n]
  <2>1. k \in 1..1 + Len(gs)
    BY <1>2
  <2>2. CASE k <= 1
    BY <1>1, <1>2, <2>1, <2>2
  <2>3. CASE ~(k <= 1)
    <3>1. k - 1 \in DOMAIN gs /\ all[k] = gs[k - 1]
      BY <1>1, <1>2, <2>1, <2>3
    <3> QED
      BY <3>1
  <2> QED
    BY <2>2, <2>3
<1>4. all[Len(all)] = gs[Len(gs)] /\ all # <<>>
  <2>1. Len(all) \in 1..1 + Len(gs) /\ ~(Len(all) <= 1) /\ Len(all) - 1 = Len(gs)
    BY <1>1, <1>2
  <2>2. all[Len(all)] = gs[Len(all) - 1]
    BY <1>2, <2>1
  <2>3. all # <<>>
    BY <1>1, <1>2
  <2> QED
    BY <2>1, <2>2, <2>3
<1> QED
  BY <1>2, <1>3, <1>4 DEF all, p

LEMMA DynamicFacts ==
  ASSUME Calling, NEW d \in Held("dynamic")
  PROVE  /\ d \in Ids /\ heap[d] \in Records /\ heap[d].kind = "dynamic"
         /\ heap[d].guards \in Seq(Ids) /\ heap[d].guards # <<>>
         /\ heap[heap[d].guards[Len(heap[d].guards)]].kind = "session"
         /\ Len(heap[d].guards) \in DOMAIN heap[d].guards
         /\ \A k \in DOMAIN heap[d].guards :
               heap[d].guards[k] \in Ids /\ heap[heap[d].guards[k]].kind \notin InPlace
<1>1. d \in Ids /\ heap[d] \in Records /\ heap[d].kind = "dynamic" /\ heap[d].guards \in Seq(Ids)
  BY HeldFacts
<1>2. WellFormed(heap, heap[d])
  BY <1>1 DEF Calling, IInv, HeapOK
<1>3. /\ heap[d].guards # <<>> /\ heap[heap[d].guards[Len(heap[d].guards)]].kind = "session"
      /\ \A k \in DOMAIN heap[d].guards : heap[heap[d].guards[k]].kind \notin InPlace
  BY <1>1, <1>2 DEF WellFormed
<1>4. Len(heap[d].guards) \in DOMAIN heap[d].guards
  BY <1>1, <1>3
<1> QED
  BY <1>1, <1>3, <1>4

\* A runtime that has a lane keeps it before its session.
LEMMA BucketFacts ==
  ASSUME Calling, NEW d \in Held("dynamic"), FieldsOf(d, {"wholelane"}) # <<>>,
         NEW o, o = [heap[d] EXCEPT !.guards = Tail(heap[d].guards)]
  PROVE  /\ o \in Records /\ o.kind = "dynamic" /\ o.guards = Tail(heap[d].guards)
         /\ WellFormed(heap, o) /\ 1 \in DOMAIN heap[d].guards
<1> DEFINE gs == heap[d].guards
           lanes == FieldsOf(d, {"wholelane"})
           n == Len(gs)
           rest == Tail(gs)
<1>1. /\ d \in Ids /\ heap[d] \in Records /\ heap[d].kind = "dynamic" /\ gs \in Seq(Ids) /\ gs # <<>>
      /\ heap[gs[n]].kind = "session" /\ \A k \in DOMAIN gs : heap[gs[k]].kind \notin InPlace
  BY DynamicFacts
<1>2. lanes \in Seq({gs[k] : k \in DOMAIN gs} \cap OfKind({"wholelane"}))
  BY <1>1, AmongIs DEF FieldsOf
<1>3. PICK m \in DOMAIN gs : heap[gs[m]].kind = "wholelane"
  <2> DEFINE set == {gs[k] : k \in DOMAIN gs} \cap OfKind({"wholelane"})
  <2>1. lanes \in Seq(set) /\ lanes # <<>>
    BY <1>2
  <2> HIDE DEF set, lanes
  <2>2. lanes[1] \in set
    BY <2>1
  <2> QED
    BY <2>2 DEF set, OfKind
<1> HIDE DEF gs, lanes
<1>4. m # n /\ n \in Nat /\ m \in 1..n
  BY <1>1, <1>3
<1> HIDE DEF n
<1>5. n >= 2 /\ 1 \in DOMAIN gs
  BY <1>1, <1>4 DEF n
<1>6. /\ rest \in Seq(Ids) /\ Len(rest) = n - 1 /\ \A k \in 1..n - 1 : rest[k] = gs[k + 1]
  BY <1>1, <1>5 DEF n
<1> HIDE DEF rest
<1>7. rest # <<>> /\ rest[Len(rest)] = gs[n]
  BY <1>4, <1>5, <1>6
<1>8. \A k \in DOMAIN rest : k + 1 \in DOMAIN gs /\ rest[k] = gs[k + 1]
  BY <1>1, <1>4, <1>6 DEF n
<1>9. o \in Records /\ o.kind = "dynamic" /\ o.guards = rest
  BY <1>1, <1>6 DEF Records, rest, gs
<1>10. WellFormed(heap, o)
  BY <1>1, <1>7, <1>8, <1>9 DEF WellFormed
<1> QED
  BY <1>5, <1>9, <1>10 DEF rest, gs

LEMMA NewDynamicOK == ASSUME Calling, NewDynamicRuntime PROVE IInv'
<1>1. PICK s \in Movable("session") : Consume(<<s>>, Wrapper("dynamic", <<s>>))
  BY DEF NewDynamicRuntime
<1> DEFINE gs == <<s>>
           o == Wrapper("dynamic", gs)
<1>2. s \in Ids /\ heap[s].kind = "session" /\ Taken(gs)
  BY MovableFacts
<1>3. gs \in Seq(Ids) /\ gs # <<>> /\ gs[Len(gs)] = s /\ \A k \in DOMAIN gs : gs[k] = s
  BY <1>2
<1>4. Consume(gs, o)
  BY <1>1
<1> HIDE DEF gs
<1>5. "dynamic" \in Kinds /\ {} \in SUBSET Ids
  BY DEF Kinds
<1>6. o \in Records /\ o.kind = "dynamic" /\ o.guards = gs
  BY <1>3, <1>5, ObjectIs
<1> HIDE DEF o
<1>7. Fresh(o)
  BY <1>2, <1>3, <1>6, FirmKinds DEF Fresh, WellFormed
<1> QED
  BY <1>2, <1>4, <1>7, ConsumeOK

LEMMA DynamicFactoryOK == ASSUME Calling, DynamicFromSessionFactory PROVE IInv'
<1> DEFINE none == <<>>
           gs == <<New>>
           session == Owned(Object("session", <<>>, {}))
           o == Wrapper("dynamic", gs)
           h2 == NewTwo(none, session, o)
<1>1. Taken(none) /\ Without(none) = heap
  BY TakenNone, WithoutNone DEF Calling, IInv
<1> HIDE DEF none
<1>2. \/ Room(2) /\ heap' = h2 /\ area' = area /\ dropping' = dropping
      \/ Undoes(<<>>, Object("session", <<>>, {}))
  BY <1>1 DEF DynamicFromSessionFactory, NewTwo
<1>3. CASE Undoes(<<>>, Object("session", <<>>, {}))
  <2>1. {} \in SUBSET Ids
    OBVIOUS
  <2> QED
    BY <1>3, <2>1, SimpleOK, PlainKinds
<1>4. CASE Room(2) /\ heap' = h2 /\ area' = area /\ dropping' = dropping
  <2>1. New \in Ids
    BY <1>4, New2IsFree DEF Calling, IInv
  <2>2. gs \in Seq(Ids) /\ gs # <<>> /\ gs[Len(gs)] = New /\ \A k \in DOMAIN gs : gs[k] = New
    BY <2>1
  <2> HIDE DEF gs
  <2>3. "dynamic" \in Kinds /\ {} \in SUBSET Ids
    BY DEF Kinds
  <2>4. o \in Records /\ o.kind = "dynamic" /\ o.guards = gs
    BY <2>2, <2>3, ObjectIs
  <2>5. session \in Records /\ session.kind = "session" /\ session.guards = <<>>
    BY SimpleIs, PlainKinds
  <2> HIDE DEF session, o
  <2>6. Pairs(session, session, o) /\ Pairs(o, session, o)
    BY <2>2, <2>4, <2>5, FirmKinds DEF Pairs
  <2>7. HeapOK(h2)
    BY <1>1, <1>4, <2>6, TwoOK
  <2> HIDE DEF h2
  <2> QED
    BY <1>4, <2>7, NoTasks DEF Calling, IInv
<1> QED
  BY <1>2, <1>3, <1>4

\* A runtime keeps its session after the object it is given.
Extends(o, i) ==
    /\ o \in Records /\ o.kind = "dynamic" /\ o.guards # <<>>
    /\ heap[o.guards[Len(o.guards)]].kind = "session"
    /\ \A k \in DOMAIN o.guards : o.guards[k] = i \/ heap[o.guards[k]].kind \notin InPlace

LEMMA ExtendedDynamic ==
  ASSUME Calling, NEW d \in Held("dynamic"), NEW i \in Ids
  PROVE  Extends([heap[d] EXCEPT !.guards = <<i>> \o heap[d].guards], i)
<1> DEFINE gs == heap[d].guards
           all == <<i>> \o gs
           o == [heap[d] EXCEPT !.guards = <<i>> \o heap[d].guards]
<1>1. /\ heap[d] \in Records /\ heap[d].kind = "dynamic" /\ gs \in Seq(Ids) /\ gs # <<>>
      /\ heap[gs[Len(gs)]].kind = "session"
      /\ \A k \in DOMAIN gs : heap[gs[k]].kind \notin InPlace
  BY DynamicFacts
<1> HIDE DEF gs
<1>2. /\ all \in Seq(Ids) /\ all # <<>> /\ all[Len(all)] = gs[Len(gs)]
      /\ \A k \in DOMAIN all : all[k] = i \/ \E n \in DOMAIN gs : all[k] = gs[n]
  BY <1>1, PrefixIs
<1> HIDE DEF all
<1>3. o = [heap[d] EXCEPT !.guards = all]
  BY DEF all, gs
<1> HIDE DEF o
<1>4. o \in Records /\ o.kind = "dynamic" /\ o.guards = all
  BY <1>1, <1>2, <1>3 DEF Records
<1>5. Extends(o, i)
  BY <1>1, <1>2, <1>4 DEF Extends
<1> QED
  BY <1>5 DEF o

LEMMA BuildLaneSetOK == ASSUME Calling, build_lane_set PROVE IInv'
<1>1. PICK d \in Held("dynamic") :
        LET s == Last(heap[d].guards)
        IN /\ Room(1)
           /\ \E cs \in {{}} \cup {{c} : c \in StreamsFor(s)} :
                  heap' = [heap EXCEPT ![New] = WholeLane(s, cs), ![d].guards = <<New>> \o @]
           /\ UNCHANGED <<area, dropping, leaked>>
  BY DEF build_lane_set
<1> DEFINE s == heap[d].guards[Len(heap[d].guards)]
           o == [heap[d] EXCEPT !.guards = <<New>> \o heap[d].guards]
<1>2. PICK cs \in {{}} \cup {{c} : c \in StreamsFor(s)} :
        heap' = [heap EXCEPT ![New] = WholeLane(s, cs), ![d].guards = <<New>> \o @]
  BY <1>1 DEF Last
<1>3. Room(1) /\ UNCHANGED <<area, dropping>> /\ New \in Ids /\ heap[New].kind = "free"
  BY <1>1, NewIsFree DEF Calling, IInv
<1>4. cs \in SUBSET Ids
  <2>1. \A c \in StreamsFor(s) : c \in Ids
    BY HeldFacts DEF StreamsFor
  <2> QED
    BY <2>1
<1>5. /\ d \in Ids /\ heap[d].kind = "dynamic" /\ s \in Ids /\ heap[s].kind = "session"
      /\ d # New /\ heap \in [Ids -> Records]
  BY <1>3, DynamicFacts DEF Calling, IInv, HeapOK
<1> HIDE DEF s
<1> DEFINE lane == WholeLane(s, cs)
<1>6. Fresh(lane) /\ lane.kind \notin InPlace
  BY <1>4, <1>5, WholeLaneFresh
<1> HIDE DEF lane
<1>7. heap' = [heap EXCEPT ![d] = o, ![New] = lane]
  BY <1>2, <1>3, <1>5 DEF lane
<1>8. Extends(o, New)
  BY <1>3, ExtendedDynamic
<1> HIDE DEF o
<1>9. Adopts(o) /\ o \in Records /\ o.kind = "dynamic"
  BY <1>3, <1>8 DEF Adopts, Extends
<1> QED
  BY <1>3, <1>5, <1>6, <1>7, <1>9, AdoptOK

LEMMA EvictBucketOK == ASSUME Calling, EvictBucket PROVE IInv'
<1>1. PICK d \in Held("dynamic") :
        /\ FieldsOf(d, {"wholelane"}) # <<>>
        /\ heap' = [heap EXCEPT ![d].guards = Tail(@)]
        /\ dropping' = <<Unref(heap[d].guards[1])>>
        /\ UNCHANGED <<area, leaked>>
  BY DEF EvictBucket
<1> DEFINE o == [heap[d] EXCEPT !.guards = Tail(heap[d].guards)]
           l == heap[d].guards[1]
           one == <<l>>
           h2 == Replaced(d, o)
<1>2. /\ o \in Records /\ o.kind = "dynamic" /\ WellFormed(heap, o) /\ 1 \in DOMAIN heap[d].guards
  BY <1>1, BucketFacts
<1>3. /\ d \in Ids /\ heap[d].kind = "dynamic" /\ l \in Ids /\ heap[l].kind \notin InPlace
      /\ heap \in [Ids -> Records]
  BY <1>2, DynamicFacts DEF Calling, IInv, HeapOK
<1>4. heap' = h2 /\ dropping' = <<Unref(l)>> /\ area' = area
  BY <1>1, <1>3 DEF Replaced
<1> HIDE DEF o, l
<1>5. Fresh(o)
  BY <1>2 DEF Fresh
<1>6. HeapOK(h2) /\ Changed(heap, h2, {d})
  BY <1>2, <1>3, <1>5, ReplaceHeap
<1> HIDE DEF h2
<1>7. h2[l].kind # "free"
  BY <1>3, <1>6, KindsKept DEF InPlace
<1>8. one \in Seq(Ids) /\ \A k \in DOMAIN one : h2[one[k]].kind # "free"
  BY <1>3, <1>7
<1>9. Unrefs(one) = <<Unref(l)>>
  BY DEF Unrefs
<1> HIDE DEF one
<1>10. TasksOK(h2, Unrefs(one))
  BY <1>8, UnrefTasks
<1> QED
  BY <1>4, <1>6, <1>9, <1>10 DEF Calling, IInv

\* The handles of one object and the guards of a dynamic runtime change.
LEMMA TakeLaneOK ==
  ASSUME Calling, NEW d \in Ids, heap[d].kind = "dynamic", NEW o, WellFormed(heap, o), o.kind = "dynamic",
         NEW l \in Ids, heap[l].kind \notin InPlace, NEW n \in Nat,
         heap' = [heap EXCEPT ![d] = o, ![l].handles = n], UNCHANGED <<area, dropping>>
  PROVE  IInv'
<1> DEFINE p == [heap[l] EXCEPT !.handles = n]
           q == [o EXCEPT !.handles = n]
<1>1. heap \in [Ids -> Records] /\ WellFormed(heap, heap[l]) /\ o \in Records
  BY DEF Calling, IInv, HeapOK, WellFormed
<1>2. /\ p \in Records /\ p.kind = heap[l].kind /\ p.guards = heap[l].guards
      /\ q \in Records /\ q.kind = o.kind /\ q.guards = o.guards
  BY <1>1 DEF Records
<1>3. /\ heap' \in [Ids -> Records] /\ \A i \in Ids : i \notin {d, l} => heap'[i] = heap[i]
      /\ heap'[d] = (IF l = d THEN q ELSE o)
      /\ l # d => heap'[l] = p
  BY <1>1, <1>2
<1> HIDE DEF p, q
<1>4. Changed(heap, heap', {d, l})
  BY <1>2, <1>3 DEF Changed, Same
<1>5. WellFormed(heap, p) /\ WellFormed(heap, q)
  BY <1>1, <1>2 DEF WellFormed, InPlace
<1>6. WellFormed(heap', o) /\ WellFormed(heap', p) /\ WellFormed(heap', q)
  BY <1>4, <1>5, WellFormedKept
<1>7. Renewed(heap', {d, l})
  BY <1>3, <1>6 DEF Renewed
<1> QED
  BY <1>4, <1>7, UpdateOK

LEMMA EnqueuePreparedOK == ASSUME Calling, enqueue_prepared PROVE IInv'
<1>1. PICK d \in Held("dynamic") :
        /\ FieldsOf(d, {"wholelane"}) # <<>>
        /\ heap' = [heap EXCEPT ![d].guards = Tail(@), ![heap[d].guards[1]].handles = 1]
        /\ UNCHANGED <<area, dropping, leaked>>
  BY DEF enqueue_prepared
<1> DEFINE o == [heap[d] EXCEPT !.guards = Tail(heap[d].guards)]
           l == heap[d].guards[1]
<1>2. /\ o \in Records /\ o.kind = "dynamic" /\ WellFormed(heap, o) /\ 1 \in DOMAIN heap[d].guards
  BY <1>1, BucketFacts
<1>3. /\ d \in Ids /\ heap[d].kind = "dynamic" /\ l \in Ids /\ heap[l].kind \notin InPlace
      /\ heap \in [Ids -> Records]
  BY <1>2, DynamicFacts DEF Calling, IInv, HeapOK
<1>4. heap' = [heap EXCEPT ![d] = o, ![l].handles = 1] /\ UNCHANGED <<area, dropping>>
  BY <1>1, <1>3
<1> HIDE DEF o, l
<1> QED
  BY <1>2, <1>3, <1>4, TakeLaneOK, 1 \in Nat

LEMMA CompleteOwnedOK == ASSUME Calling, complete_owned PROVE IInv'
<1>1. PICK d \in Held("dynamic"), l \in Movable("wholelane") :
        /\ heap' = [heap EXCEPT ![d].guards = <<l>> \o @, ![l].handles = 0]
        /\ UNCHANGED <<area, dropping, leaked>>
  BY DEF complete_owned
<1> DEFINE o == [heap[d] EXCEPT !.guards = <<l>> \o heap[d].guards]
<1>2. l \in Ids /\ heap[l].kind \notin InPlace
  <2>1. l \in Ids /\ heap[l].kind = "wholelane"
    BY MovableFacts
  <2> QED
    BY <2>1, FirmKinds
<1>3. d \in Ids /\ heap[d].kind = "dynamic" /\ heap \in [Ids -> Records]
  <2>1. d \in Ids /\ heap[d].kind = "dynamic"
    BY DynamicFacts
  <2> QED
    BY <2>1 DEF Calling, IInv, HeapOK
<1>4. Extends(o, l)
  BY <1>2, ExtendedDynamic
<1>5. heap' = [heap EXCEPT ![d] = o, ![l].handles = 0] /\ UNCHANGED <<area, dropping>>
  BY <1>1, <1>2, <1>3
<1> HIDE DEF o
<1>6. WellFormed(heap, o) /\ o.kind = "dynamic"
  BY <1>2, <1>4 DEF WellFormed, Extends
<1> QED
  BY <1>2, <1>3, <1>5, <1>6, TakeLaneOK, 0 \in Nat

LEMMA LaneSetNextOK == ASSUME Calling, LaneSetNext PROVE IInv'
<1>1. ASSUME from_session_factory \/ static_from_session_factory PROVE IInv'
  BY <1>1, FactoryLanesOK, PlainKinds DEF from_session_factory, static_from_session_factory
<1>2. ASSUME CloneSession PROVE IInv'
  BY <1>2, CloneHeldOK DEF CloneSession
<1> QED
  BY <1>1, <1>2, TakingSetsOK, SharingSetsOK, NewDynamicOK, DynamicFactoryOK, BuildLaneSetOK,
     EvictBucketOK, EnqueuePreparedOK, CompleteOwnedOK DEF LaneSetNext

(***************************************************************************)
(* The specification                                                       *)
(***************************************************************************)
LEMMA FirstPlace == ASSUME area \in Areas PROVE Place(1) \in Ids
<1> DEFINE n == Cardinality(Ids)
<1>1. n \in Nat /\ ExistsBijection(1..n, Ids)
  BY IdsAssumption, FS_CardinalityType
<1>2. PICK f : f \in [1..n -> Ids] /\ IsInjective(f)
  BY <1>1 DEF ExistsBijection, Bijection, Injection
<1>3. Places \in [1..n -> Ids]
  BY <1>2 DEF Places, SetToSeq
<1>4. 1 \in 1..n
  BY <1>1, MaxObjectsAssumption
<1> QED
  BY <1>3, <1>4 DEF Place

\* The objects a behaviour starts from: values whose guards, if any, are the first of them.
Starts(objects) ==
    \A k \in DOMAIN objects :
       /\ objects[k] \in Records /\ objects[k].kind \notin {"free", "epdevice", "dynamic"}
       /\ \A n \in DOMAIN objects[k].guards :
             /\ objects[k].guards[n] = Place(1) /\ 1 \in DOMAIN objects
             /\ \A m \in DOMAIN objects : objects[m].kind \notin InPlace

LEMMA HeapIs ==
  ASSUME area \in Areas, NEW objects, Starts(objects)
  PROVE  HeapOK(Heap(objects))
<1> DEFINE h == Heap(objects)
           at(i) == CHOOSE k \in DOMAIN objects : Place(k) = i
<1>1. ASSUME NEW i \in Ids
      PROVE  /\ (\E k \in DOMAIN objects : Place(k) = i) => at(i) \in DOMAIN objects /\ h[i] = objects[at(i)]
             /\ ~(\E k \in DOMAIN objects : Place(k) = i) => h[i] = Free
  BY DEF Heap
<1>2. h \in [Ids -> Records]
  <2>1. ASSUME NEW i \in Ids PROVE h[i] \in Records
    BY <1>1, FreeFacts DEF Starts
  <2>2. h = [i \in Ids |-> h[i]]
    BY DEF Heap
  <2> HIDE DEF h
  <2> QED
    BY <2>1, <2>2
<1>3. Place(1) \in Ids
  BY FirstPlace
<1> HIDE DEF h, at
<1>4. ASSUME NEW i \in Ids PROVE WellFormed(h, h[i])
  <2>1. CASE ~(\E k \in DOMAIN objects : Place(k) = i)
    BY <1>1, <2>1, FreeFacts DEF WellFormed
  <2>2. CASE \E k \in DOMAIN objects : Place(k) = i
    <3> DEFINE o == objects[at(i)]
    <3>1. /\ h[i] = o /\ o \in Records /\ o.kind \notin {"free", "epdevice", "dynamic"}
          /\ \A n \in DOMAIN o.guards :
                /\ o.guards[n] = Place(1) /\ 1 \in DOMAIN objects
                /\ \A m \in DOMAIN objects : objects[m].kind \notin InPlace
      BY <1>1, <2>2 DEF Starts
    <3> HIDE DEF o
    <3>2. ASSUME NEW n \in DOMAIN o.guards PROVE h[o.guards[n]].kind \notin InPlace
      <4>1. o.guards[n] = Place(1) /\ \E k \in DOMAIN objects : Place(k) = Place(1)
        BY <3>1, <3>2
      <4>2. at(Place(1)) \in DOMAIN objects /\ h[Place(1)] = objects[at(Place(1))]
        BY <1>1, <1>3, <4>1
      <4> QED
        BY <3>1, <3>2, <4>1, <4>2
    <3> QED
      BY <3>1, <3>2 DEF WellFormed
  <2> QED
    BY <2>1, <2>2
<1> QED
  BY <1>2, <1>4 DEF HeapOK, h

LEMMA InitOK == Init => IInv
<1> SUFFICES ASSUME Init PROVE IInv
  OBVIOUS
<1> DEFINE one == <<Place(1)>>
           us == {Place(1)}
           session == Object("session", one, us)
           buffer0 == Object("tensorbuffer", <<>>, {})
<1>1. area \in Areas /\ dropping = <<>>
  BY DEF Init
<1>2. one \in Seq(Ids) /\ us \in SUBSET Ids /\ \A n \in DOMAIN one : one[n] = Place(1)
  BY <1>1, FirstPlace
<1>3. "session" \in Kinds
  BY DEF Kinds
<1>4. \/ heap = Heap(<<>>)
      \/ heap = Heap(<<EnvObject, session>>)
      \/ heap = Heap(<<EnvObject, buffer0>>)
      \/ heap = Heap(<<EnvObject, StreamObject>>)
      \/ heap = Heap(<<EnvObject, EnvObject>>)
      \/ heap = Heap(<<StreamObject, session>>)
      \/ heap = Heap(<<StreamObject, PlainSession>>)
      \/ heap = Heap(<<PlainSession, PlainSession>>)
  BY DEF Init, SessionObject
<1> HIDE DEF one, us
<1>5. session \in Records /\ session.kind = "session" /\ session.guards = one
  BY <1>2, <1>3, ObjectIs
<1>6. /\ EnvObject \in Records /\ EnvObject.kind = "env" /\ EnvObject.guards = <<>>
      /\ StreamObject \in Records /\ StreamObject.kind = "cudastream" /\ StreamObject.guards = <<>>
      /\ PlainSession \in Records /\ PlainSession.kind = "session" /\ PlainSession.guards = <<>>
      /\ buffer0 \in Records /\ buffer0.kind = "tensorbuffer" /\ buffer0.guards = <<>>
  BY SimpleIs, PlainKinds DEF EnvObject, StreamObject, PlainSession
<1> HIDE DEF session, buffer0
<1>7. ASSUME NEW a, a \in Records, a.kind \in {"env", "cudastream", "session"}, a.guards = <<>>,
             NEW b, b \in Records,
             \/ b.kind \in {"env", "cudastream", "session", "tensorbuffer"} /\ b.guards = <<>>
             \/ b.kind = "session" /\ b.guards = one
      PROVE  Starts(<<a, b>>)
  <2> DEFINE objects == <<a, b>>
  <2>1. DOMAIN objects = {1, 2} /\ objects[1] = a /\ objects[2] = b
    OBVIOUS
  <2> HIDE DEF objects
  <2>2. a.kind \notin InPlace
    BY <1>7, FirmKinds
  <2>3. b.kind = "session" => b.kind \notin InPlace
    BY FirmKinds
  <2>4. Starts(objects)
    BY <1>2, <1>7, <2>1, <2>2, <2>3 DEF Starts
  <2> QED
    BY <2>4 DEF objects
<1>8. Starts(<<>>)
  BY DEF Starts
<1>9. HeapOK(heap)
  BY <1>1, <1>4, <1>5, <1>6, <1>7, <1>8, HeapIs
<1> QED
  BY <1>1, <1>9, NoTasks DEF IInv

LEMMA NextOK == IInv /\ [Next]_<<vars, layoutVars>> => IInv'
<1> SUFFICES ASSUME IInv, [Next]_<<vars, layoutVars>> PROVE IInv'
  OBVIOUS
<1>1. ASSUME dropping = <<>>, Call PROVE IInv'
  <2>1. Calling
    BY <1>1 DEF Calling
  <2>2. CASE \E i \in Objects : DropHandle(i)
    BY <2>1, <2>2, DropHandleOK DEF Objects
  <2> QED
    BY <1>1, <2>1, <2>2, EnvironmentOK, DeviceOK, TensorNextOK, BindingNextOK, SessionNextOK,
       EntriesNextOK, CudaNextOK, RunNextOK, LaneNextOK, LaneSetNextOK, ModelNextOK, OperatorNextOK,
       ProviderNextOK DEF Call
<1>2. CASE DropStep
  BY <1>2, DropStepOK
<1>3. CASE UNCHANGED vars
  BY <1>3 DEF vars, IInv, HeapOK, TasksOK, Unguarded, WellFormed
<1> QED
  BY <1>1, <1>2, <1>3 DEF Next

\* What is to be released next is there, was not moved, and has no handle, guard or pending
\* reference: it occurs once in what the drop still has to do.
LEMMA Released == IInv => ReleasesAreSingle
<1> SUFFICES ASSUME IInv, dropping # <<>>, Head(dropping).do = "release"
             PROVE  LET i == Head(dropping).of
                    IN i \in Objects /\ heap[i].native # "moved" /\ Strong(heap, dropping, i) = 0
  BY DEF ReleasesAreSingle
<1> DEFINE i == Head(dropping).of
<1>1. dropping \in Seq(Tasks) /\ HeapOK(heap) /\ TasksOK(heap, dropping)
  BY DEF IInv, TasksOK
<1>2. 1 \in DOMAIN dropping /\ Head(dropping) = dropping[1]
  BY <1>1, TailTasks
<1>3. /\ i \in Ids /\ heap[i].kind # "free" /\ heap[i].handles = 0 /\ Unguarded(heap, i)
      /\ \A n \in DOMAIN dropping : dropping[n].of = i => n = 1
  <2>1. dropping[1] \in Tasks
    BY <1>1, <1>2
  <2> QED
    BY <1>1, <1>2, <2>1 DEF TasksOK, Tasks
<1>4. heap[i] \in Records
  BY <1>1, <1>3 DEF HeapOK
<1>5. ASSUME NEW k \in DOMAIN dropping, dropping[k] = Unref(i) PROVE FALSE
  BY <1>2, <1>3, <1>5 DEF Unref
<1>6. Strong(heap, dropping, i) = 0
  BY <1>1, <1>3, <1>5, StrongZero
<1> QED
  BY <1>3, <1>4, <1>6 DEF Objects, Records

\* A native object is released once: never after it was released or moved into another one,
\* and never while a handle, a guard or a pending reference keeps it, whatever the program
\* calls and in whatever order it drops what it holds.
THEOREM SingleReleases == Spec => []ReleasesAreSingle
<1>1. Spec => []IInv
  BY InitOK, NextOK, PTL DEF Spec
<1> QED
  BY <1>1, Released, PTL

(***************************************************************************)
(* Quotients and remainders                                                *)
(***************************************************************************)
LEMMA Remainder ==
  ASSUME NEW n \in Nat \ {0}, NEW q \in Nat, NEW r \in 0..(n - 1)
  PROVE  (q * n + r) % n = r
<1> DEFINE x == q * n + r
           d == x \div n
           m == x % n
<1>1. x \in Nat
  OBVIOUS
<1> HIDE DEF x
<1>2. x = n * d + m /\ d \in Int /\ m \in 0..(n - 1)
  BY <1>1
<1> HIDE DEF d, m
<1>3. q * n + r = n * d + m
  BY <1>2 DEF x
<1>4. CASE q = d
  BY <1>2, <1>3, <1>4 DEF m, x
<1>5. CASE q > d
  <2>1. PICK e \in Nat : q = d + 1 + e
    BY <1>2, <1>5
  <2>2. q * n = d * n + n + e * n
    BY <1>2, <2>1
  <2>3. e * n >= 0
    OBVIOUS
  <2> QED
    BY <1>2, <1>3, <2>2, <2>3
<1>6. CASE q < d
  <2>1. PICK e \in Nat : d = q + 1 + e
    BY <1>2, <1>6
  <2>2. n * d = q * n + n + e * n
    BY <1>2, <2>1
  <2>3. e * n >= 0
    OBVIOUS
  <2> QED
    BY <1>2, <1>3, <2>2, <2>3
<1> QED
  BY <1>2, <1>4, <1>5, <1>6

\* The quotient and the remainder of a natural number.
LEMMA Quotient ==
  ASSUME NEW n \in Nat \ {0}, NEW x \in Nat
  PROVE  /\ x \div n \in Nat /\ x % n \in 0..(n - 1)
         /\ x = (x \div n) * n + (x % n)
<1> DEFINE d == x \div n
           m == x % n
<1>1. x = n * d + m /\ d \in Int /\ m \in 0..(n - 1)
  OBVIOUS
<1> HIDE DEF d, m
<1>2. x = d * n + m
  BY <1>1
<1>3. ASSUME d < 0 PROVE FALSE
  <2>1. PICK e \in Nat : d = 0 - 1 - e
    BY <1>1, <1>3
  <2>2. d * n = 0 - n - e * n
    BY <1>1, <2>1
  <2>3. e * n >= 0
    OBVIOUS
  <2> QED
    BY <1>1, <1>2, <2>2, <2>3
<1>4. d \in Nat
  BY <1>1, <1>3
<1> QED
  BY <1>1, <1>2, <1>4 DEF d, m

(***************************************************************************)
(* The layout of buffers                                                   *)
(***************************************************************************)
\* A quotient is known by the multiple below.
LEMMA QuotientIs ==
  ASSUME NEW n \in Nat \ {0}, NEW q \in Nat, NEW x \in Nat, q * n <= x, x < q * n + n
  PROVE  x \div n = q
<1> DEFINE d == x \div n
<1>1. d \in Nat /\ x % n \in 0..(n - 1) /\ x = d * n + (x % n)
  BY Quotient
<1> HIDE DEF d
<1>2. ASSUME d < q PROVE FALSE
  <2>1. PICK e \in Nat : q = d + 1 + e
    BY <1>1, <1>2
  <2>2. q * n = d * n + n + e * n /\ e * n >= 0
    BY <1>1, <2>1
  <2> QED
    BY <1>1, <2>2
<1>3. ASSUME d > q PROVE FALSE
  <2>1. PICK e \in Nat : d = q + 1 + e
    BY <1>1, <1>3
  <2>2. d * n = q * n + n + e * n /\ e * n >= 0
    BY <1>1, <2>1
  <2> QED
    BY <1>1, <2>2
<1> QED
  BY <1>1, <1>2, <1>3 DEF d

\* The pages go up with the addresses; a page further is the next page.
LEMMA PagesInOrder ==
  ASSUME NEW x \in Nat, NEW y \in Nat, x <= y
  PROVE  /\ Page(x) \in Nat /\ Page(x) <= Page(y) /\ Page(x + PageSize) = Page(x) + 1
<1>1. PageSize \in Nat \ {0}
  BY PowersAssumption
<1> DEFINE p == Page(x)
           q == Page(y)
<1>2. /\ p \in Nat /\ x % PageSize \in 0..(PageSize - 1) /\ x = p * PageSize + (x % PageSize)
      /\ q \in Nat /\ y % PageSize \in 0..(PageSize - 1) /\ y = q * PageSize + (y % PageSize)
  BY <1>1, Quotient DEF Page
<1> HIDE DEF p, q
<1>3. ASSUME q < p PROVE FALSE
  <2>1. PICK e \in Nat : p = q + 1 + e
    BY <1>2, <1>3
  <2>2. p * PageSize = q * PageSize + PageSize + e * PageSize /\ e * PageSize >= 0
    BY <1>1, <1>2, <2>1
  <2> QED
    BY <1>1, <1>2, <2>2
<1>4. (x + PageSize) \div PageSize = p + 1
  <2>1. (p + 1) * PageSize = p * PageSize + PageSize
    BY <1>1, <1>2
  <2>2. (p + 1) * PageSize <= x + PageSize /\ x + PageSize < (p + 1) * PageSize + PageSize
    BY <1>1, <1>2, <2>1
  <2>3. p + 1 \in Nat /\ x + PageSize \in Nat
    BY <1>1, <1>2
  <2> QED
    BY <1>1, <2>2, <2>3, QuotientIs
<1> QED
  BY <1>2, <1>3, <1>4 DEF p, q, Page

\* An element that is aligned to its size, a divisor of the page, lies in one page.
LEMMA ElementInPage ==
  ASSUME NEW size \in Nat \ {0}, NEW stride \in Nat \ {0}, PageSize = stride * size,
         NEW x \in Nat, x % size = 0, NEW k \in 0..(size - 1)
  PROVE  Page(x + k) = Page(x)
<1>1. PageSize \in Nat \ {0}
  BY PowersAssumption
<1>2. PICK q \in Nat : x = q * size
  <2> DEFINE c == x \div size
  <2>1. c \in Nat /\ x = c * size + 0
    BY Quotient
  <2> HIDE DEF c
  <2>2. c * size \in Nat
    BY <2>1
  <2> QED
    BY <2>1, <2>2
<1>3. /\ q \div stride \in Nat /\ q % stride \in 0..(stride - 1)
      /\ q = (q \div stride) * stride + (q % stride)
  BY Quotient
<1> DEFINE d == q \div stride
           m == q % stride
<1>4. x = d * PageSize + m * size
  <2>1. d \in Nat /\ m \in Nat /\ q = d * stride + m
    BY <1>3
  <2> HIDE DEF d, m
  <2>2. q * size = d * (stride * size) + m * size
    BY <2>1
  <2> QED
    BY <1>2, <2>2
<1>5. d \in Nat /\ m \in 0..(stride - 1)
  BY <1>3
<1> HIDE DEF d, m
<1>6. m * size + size <= PageSize /\ m * size >= 0
  <2>1. PICK e \in Nat : stride = m + 1 + e
    BY <1>5
  <2>2. stride * size = m * size + size + e * size /\ e * size >= 0
    BY <1>5, <2>1
  <2>3. m * size >= 0
    BY <1>5
  <2>4. m * size \in Nat /\ e * size \in Nat /\ PageSize = m * size + size + e * size
    BY <1>5, <2>1, <2>2
  <2> QED
    BY <2>4
<1>7. d * PageSize \in Nat /\ m * size \in Nat
  BY <1>1, <1>5
<1>8. x \div PageSize = d
  <2>1. d * PageSize <= x /\ x < d * PageSize + PageSize
    BY <1>4, <1>6, <1>7
  <2> QED
    BY <1>1, <1>5, <2>1, QuotientIs
<1>9. (x + k) \div PageSize = d
  <2>1. d * PageSize <= x + k /\ x + k < d * PageSize + PageSize
    BY <1>4, <1>6, <1>7
  <2> QED
    BY <1>1, <1>5, <2>1, QuotientIs
<1> QED
  BY <1>8, <1>9 DEF Page

\* prefault_slice touches elements of the slice only, and one on each of its pages.
LEMMA PrefaultIs ==
  ASSUME NEW addr \in Nat, NEW len \in Nat, NEW size \in {1, 4, 8}, addr % size = 0
  PROVE  LET touched == prefault_slice(addr, len, size)
             all == {addr + i : i \in 0..(len * size - 1)}
         IN  touched \subseteq all /\ {Page(a) : a \in all} = {Page(a) : a \in touched}
<1> DEFINE touched == prefault_slice(addr, len, size)
           all == {addr + i : i \in 0..(len * size - 1)}
           stride == PageSize \div size
           steps == {i \in 0..(len - 1) : i % stride = 0 \/ i = len - 1}
           at(i) == addr + i * size
<1>1. size \in Nat \ {0} /\ PageSize \in Nat \ {0}
  BY PowersAssumption
<1>2. stride \in Nat \ {0} /\ PageSize = stride * size
  <2>1. PageSize >= size /\ size \in Powers /\ PageSize \in Powers
    <3>1. PageSize >= 8
      BY LayoutAssumption
    <3> QED
      BY <1>1, <3>1, PowersAssumption
  <2>2. PageSize % size = 0
    BY <2>1, PowersAssumption
  <2>3. stride \in Nat /\ PageSize = stride * size + 0
    BY <1>1, <2>2, Quotient
  <2> HIDE DEF stride
  <2>4. stride * size \in Nat
    BY <1>1, <2>3
  <2>5. stride # 0
    BY <1>1, <2>3
  <2> QED
    BY <2>3, <2>4, <2>5
<1>3. touched = {at(i) : i \in steps}
  BY <1>2 DEF prefault_slice
<1> HIDE DEF stride
<1>4. \A i \in 0..(len - 1) : at(i) \in all /\ at(i) \in Nat /\ at(i) % size = 0
  <2> TAKE i \in 0..(len - 1)
  <2>1. i * size \in Nat /\ i * size <= len * size - 1
    <3>1. PICK e \in Nat : len = i + 1 + e
      OBVIOUS
    <3>2. len * size = i * size + size + e * size /\ e * size >= 0 /\ i * size >= 0
      BY <1>1, <3>1
    <3> QED
      BY <1>1, <3>2
  <2>2. (addr + i * size) % size = 0
    BY <1>1
  <2>3. len * size \in Nat
    BY <1>1
  <2> QED
    BY <2>1, <2>2, <2>3
<1>5. touched \subseteq all
  BY <1>3, <1>4
<1>6. ASSUME NEW a \in all PROVE \E i \in steps : Page(a) = Page(at(i))
  <2>1. PICK x \in 0..(len * size - 1) : a = addr + x
    BY <1>6
  <2> DEFINE i == x \div size
  <2>2. i \in 0..(len - 1) /\ x = i * size + (x % size) /\ x % size \in 0..(size - 1)
    <3>1. x \in Nat /\ i \in Nat /\ x = i * size + (x % size) /\ x % size \in 0..(size - 1)
      BY <1>1, <2>1, Quotient
    <3>2. ASSUME i >= len PROVE FALSE
      <4>1. PICK e \in Nat : i = len + e
        BY <3>1, <3>2
      <4> HIDE DEF i
      <4>2. i * size = len * size + e * size /\ e * size >= 0 /\ len * size \in Nat
        BY <1>1, <4>1
      <4> QED
        BY <3>1, <4>2
    <3> QED
      BY <3>1, <3>2
  <2> HIDE DEF i
  <2>3. Page(a) = Page(at(i))
    <3> DEFINE r == x % size
    <3>1. r \in 0..(size - 1) /\ x = i * size + r
      BY <2>2
    <3> HIDE DEF r
    <3>2. i * size \in Nat
      BY <1>1, <2>2
    <3>3. a = at(i) + r
      BY <1>1, <2>1, <3>1, <3>2
    <3>4. at(i) \in Nat /\ at(i) % size = 0
      BY <1>4, <2>2
    <3> HIDE DEF at
    <3> QED
      BY <1>1, <1>2, <3>1, <3>3, <3>4, ElementInPage
  <2> DEFINE d == i \div stride
             first == d * stride
  <2>4. first \in Nat /\ first <= i /\ i < first + stride /\ first % stride = 0
            /\ (first + stride) % stride = 0
    <3>1. d \in Nat /\ i = d * stride + (i % stride) /\ i % stride \in 0..(stride - 1)
      <4>1. i \in Nat
        BY <2>2
      <4> QED
        BY <1>2, <4>1, Quotient
    <3>2. (d * stride + 0) % stride = 0
      BY <1>2, <3>1, Remainder
    <3>3. ((d + 1) * stride + 0) % stride = 0
      <4>1. d + 1 \in Nat
        BY <3>1
      <4> HIDE DEF d
      <4> QED
        BY <1>2, <4>1, Remainder
    <3> DEFINE r == i % stride
    <3>4. r \in 0..(stride - 1) /\ i = d * stride + r
      BY <3>1
    <3> HIDE DEF d, r
    <3>5. d * stride \in Nat /\ (d + 1) * stride = d * stride + stride
      BY <1>2, <3>1
    <3>6. d * stride + 0 = first /\ (d + 1) * stride + 0 = first + stride
      BY <1>2, <3>5
    <3>7. first % stride = 0 /\ (first + stride) % stride = 0
      BY <3>2, <3>3, <3>6
    <3>8. first \in Nat /\ i = first + r
      BY <3>4, <3>5
    <3> HIDE DEF first
    <3> QED
      BY <1>2, <3>4, <3>7, <3>8
  <2> HIDE DEF first
  <2>5. first \in steps
    BY <2>2, <2>4
  <2>6. at(first + stride) = at(first) + PageSize
    <3>1. (first + stride) * size = first * size + stride * size
      BY <1>1, <1>2, <2>4
    <3> QED
      BY <1>1, <1>2, <2>4, <3>1
  <2>7. \A j, k \in 0..(len + stride) : j <= k => at(j) \in Nat /\ at(k) \in Nat /\ at(j) <= at(k)
    <3> TAKE j, k \in 0..(len + stride)
    <3> HAVE j <= k
    <3>1. PICK e \in Nat : k = j + e
      OBVIOUS
    <3>2. k * size = j * size + e * size /\ e * size \in Nat /\ j * size \in Nat
      BY <1>1, <3>1
    <3> QED
      BY <3>2
  <2>8. Page(at(first)) \in Nat /\ Page(at(first + stride)) = Page(at(first)) + 1
    <3>1. at(first) \in Nat
      BY <2>5, <1>4
    <3> QED
      BY <2>6, <3>1, PagesInOrder
  <2> HIDE DEF at
  <2>9. \A j, k \in 0..(len + stride) :
          j <= k => Page(at(j)) \in Nat /\ Page(at(k)) \in Nat /\ Page(at(j)) <= Page(at(k))
    BY <2>7, PagesInOrder
  <2>10. CASE first + stride <= len - 1
    <3>2. first + stride \in steps
      BY <1>2, <2>4, <2>10
    <3>3. Page(at(first)) <= Page(at(i)) /\ Page(at(i)) <= Page(at(first + stride)) /\ Page(at(i)) \in Nat
      BY <1>2, <2>2, <2>4, <2>9, <2>10
    <3> QED
      BY <2>3, <2>5, <2>8, <3>2, <3>3
  <2>11. CASE first + stride > len - 1
    <3>1. len - 1 \in steps
      BY <2>2
    <3>2. /\ Page(at(first)) <= Page(at(i)) /\ Page(at(i)) <= Page(at(len - 1))
          /\ Page(at(len - 1)) <= Page(at(first + stride)) /\ Page(at(i)) \in Nat /\ Page(at(len - 1)) \in Nat
      <4>1. first \in 0..(len + stride) /\ i \in 0..(len + stride) /\ len - 1 \in 0..(len + stride)
            /\ first + stride \in 0..(len + stride)
        BY <1>2, <2>2, <2>4
      <4> QED
        BY <2>2, <2>4, <2>9, <2>11, <4>1
    <3> QED
      BY <2>3, <2>5, <2>8, <3>1, <3>2
  <2>12. first + stride <= len - 1 \/ first + stride > len - 1
    BY <1>2, <2>4
  <2> QED
    BY <2>10, <2>11, <2>12
<1>7. {Page(a) : a \in all} = {Page(a) : a \in touched}
  <2> HIDE DEF all, steps, at
  <2>1. \A a \in all : \E t \in touched : Page(a) = Page(t)
    <3> TAKE a \in all
    <3>1. PICK i \in steps : Page(a) = Page(at(i))
      BY <1>6
    <3>2. at(i) \in touched
      BY <1>3
    <3> QED
      BY <3>1, <3>2
  <2> HIDE DEF touched
  <2> QED
    BY <1>5, <2>1
<1> QED
  BY <1>5, <1>7

\* The product of a shape, and what is counted of it without overflow.
LEMMA RealCountIs ==
  ASSUME NEW s \in Seq(Int)
  PROVE  \E p : /\ p \in [0..Len(s) -> Int] /\ p[0] = 1
                /\ \A k \in 1..Len(s) : p[k] = p[k - 1] * s[k]
                /\ RealCount(s) = p[Len(s)]
<1> DEFINE P(f) == f = [k \in 0..Len(s) |-> IF k = 0 THEN 1 ELSE f[k - 1] * s[k]]
           g == CHOOSE f : P(f)
           step == [k \in 1..Len(s) |-> [x \in Int |-> x * s[k]]]
<1>1. Len(s) \in Nat /\ \A k \in 1..Len(s) : s[k] \in Int
  OBVIOUS
<1>2. step \in [1..Len(s) -> [Int -> Int]]
  BY <1>1
<1>3. PICK f : Recursive(f, Len(s), Int, 1, step)
  <2> HIDE DEF step
  <2> QED
    BY <1>1, <1>2, 1 \in Int, Recursion
<1>4. f \in [0..Len(s) -> Int] /\ f[0] = 1 /\ \A k \in 1..Len(s) : f[k] = step[k][f[k - 1]]
  BY <1>3 DEF Recursive
<1>5. \A k \in 1..Len(s) : f[k - 1] \in Int /\ f[k] = f[k - 1] * s[k]
  <2> TAKE k \in 1..Len(s)
  <2>1. k - 1 \in 0..Len(s)
    BY <1>1
  <2>2. f[k - 1] \in Int
    BY <1>4, <2>1
  <2>3. step[k][f[k - 1]] = f[k - 1] * s[k]
    BY <1>1, <2>2
  <2> QED
    BY <1>4, <2>2, <2>3
<1>6. P(f)
  <2>1. \A k \in 0..Len(s) : k = 0 \/ k \in 1..Len(s)
    BY <1>1
  <2> QED
    BY <1>4, <1>5, <2>1
<1>7. P(g)
  <2> HIDE DEF P
  <2> QED
    BY <1>6
<1>8. RealCount(s) = g[Len(s)]
  BY DEF RealCount
<1> HIDE DEF g
<1>9. g[0] = 1 /\ \A k \in 1..Len(s) : g[k] = g[k - 1] * s[k]
  <2>1. \A k \in 1..Len(s) : k # 0 /\ k \in 0..Len(s)
    BY <1>1
  <2>2. 0 \in 0..Len(s)
    BY <1>1
  <2> QED
    BY <1>7, <2>1, <2>2
<1>10. \A k \in 0..Len(s) : g[k] \in Int
  <2>1. ASSUME NEW k \in 1..Len(s), g[k - 1] \in Int PROVE g[k] \in Int
    BY <1>1, <1>9, <2>1
  <2>2. g[0] \in Int
    BY <1>9
  <2> QED
    BY <1>1, <2>1, <2>2, RecursiveType
<1>11. g \in [0..Len(s) -> Int]
  BY <1>7, <1>10
<1> QED
  BY <1>8, <1>9, <1>11

LEMMA CheckedIs ==
  ASSUME NEW a \in Int, a = Err \/ a \in Nat, NEW b \in Nat
  PROVE  /\ CheckedMul(a, b) = Err \/ (a \in Nat /\ CheckedMul(a, b) = a * b /\ a * b \in Nat)
         /\ CheckedAdd(a, b) = Err \/ (a \in Nat /\ CheckedAdd(a, b) = a + b /\ a + b \in Nat)
         /\ CheckedMul(a, b) \in Int /\ CheckedAdd(a, b) \in Int
BY DEF CheckedMul, CheckedAdd, Err

LEMMA CountIs ==
  ASSUME NEW s \in Seq(Int)
  PROVE  \/ checked_element_count(s) = Err
         \/ /\ checked_element_count(s) \in Nat /\ checked_element_count(s) = RealCount(s)
            /\ \A k \in DOMAIN s : s[k] >= 0
<1> DEFINE next(k, x) == IF s[k] < 0 THEN Err ELSE CheckedMul(x, s[k])
           P(f) == f = [k \in 0..Len(s) |-> IF k = 0 THEN 1 ELSE
                            IF s[k] < 0 THEN Err ELSE CheckedMul(f[k - 1], s[k])]
           g == CHOOSE f : P(f)
           V == Nat \cup {Err}
           step == [k \in 1..Len(s) |-> [x \in V |-> next(k, x)]]
<1>1. Len(s) \in Nat /\ DOMAIN s = 1..Len(s) /\ \A k \in 1..Len(s) : s[k] \in Int
  OBVIOUS
<1>2. \A k \in 1..Len(s), x \in V :
        next(k, x) = Err \/ (x \in Nat /\ s[k] \in Nat /\ next(k, x) = x * s[k] /\ next(k, x) \in Nat)
  <2> TAKE k \in 1..Len(s), x \in V
  <2>1. CASE s[k] < 0
    BY <2>1
  <2>2. CASE s[k] >= 0
    <3>1. s[k] \in Nat /\ x \in Int /\ (x = Err \/ x \in Nat)
      BY <1>1, <2>2 DEF Err
    <3> QED
      BY <1>1, <2>2, <3>1, CheckedIs
  <2> QED
    BY <1>1, <2>1, <2>2
<1> HIDE DEF next
<1>3. step \in [1..Len(s) -> [V -> V]]
  BY <1>2
<1>4. PICK f : Recursive(f, Len(s), V, 1, step)
  <2>1. 1 \in V
    OBVIOUS
  <2> HIDE DEF step, V
  <2> QED
    BY <1>1, <1>3, <2>1, Recursion
<1>5. f \in [0..Len(s) -> V] /\ f[0] = 1 /\ \A k \in 1..Len(s) : f[k] = step[k][f[k - 1]]
  BY <1>4 DEF Recursive
<1>6. \A k \in 1..Len(s) : f[k - 1] \in V /\ f[k] = next(k, f[k - 1])
  <2>1. \A k \in 1..Len(s) : k - 1 \in 0..Len(s)
    BY <1>1
  <2> HIDE DEF V
  <2> QED
    BY <1>5, <2>1
<1>7. P(f)
  <2>1. \A k \in 0..Len(s) : k = 0 \/ k \in 1..Len(s)
    BY <1>1
  <2> HIDE DEF V
  <2> QED
    BY <1>5, <1>6, <2>1 DEF next
<1>8. P(g)
  <2> HIDE DEF P
  <2> QED
    BY <1>7
<1>9. checked_element_count(s) = g[Len(s)]
  BY DEF checked_element_count
<1> HIDE DEF g
<1>10. g[0] = 1 /\ \A k \in 1..Len(s) : g[k] = next(k, g[k - 1])
  <2>1. \A k \in 1..Len(s) : k # 0 /\ k \in 0..Len(s)
    BY <1>1
  <2>2. 0 \in 0..Len(s)
    BY <1>1
  <2> QED
    BY <1>8, <2>1, <2>2 DEF next
<1>11. PICK p : /\ p \in [0..Len(s) -> Int] /\ p[0] = 1
                /\ \A k \in 1..Len(s) : p[k] = p[k - 1] * s[k]
                /\ RealCount(s) = p[Len(s)]
  BY RealCountIs
<1> DEFINE S == {k \in 0..Len(s) : g[k] = Err \/
                    (g[k] \in Nat /\ g[k] = p[k] /\ \A j \in 1..k : s[j] >= 0)}
<1>12. 0 \in S
  BY <1>1, <1>10, <1>11
<1>13. ASSUME NEW k \in 1..Len(s), k - 1 \in S PROVE k \in S
  <2>1. k \in 0..Len(s) /\ g[k - 1] \in V /\ k - 1 \in Nat
    BY <1>1, <1>13
  <2>2. CASE next(k, g[k - 1]) = Err
    BY <1>10, <2>1, <2>2
  <2>3. CASE next(k, g[k - 1]) # Err
    <3>1. g[k - 1] \in Nat /\ s[k] \in Nat /\ g[k] = g[k - 1] * s[k] /\ g[k] \in Nat
      BY <1>2, <1>10, <2>1, <2>3
    <3>2. g[k - 1] # Err
      BY <3>1 DEF Err
    <3>3. g[k - 1] = p[k - 1] /\ \A j \in 1..(k - 1) : s[j] >= 0
      BY <1>13, <3>2
    <3>4. g[k] = p[k]
      BY <1>11, <3>1, <3>3
    <3>5. \A j \in 1..k : j \in 1..(k - 1) \/ j = k
      OBVIOUS
    <3>6. \A j \in 1..k : s[j] >= 0
      BY <3>1, <3>3, <3>5
    <3> QED
      BY <2>1, <3>1, <3>4, <3>6
  <2> QED
    BY <2>2, <2>3
<1> HIDE DEF S
<1>14. 0..Len(s) \subseteq S
  BY <1>1, <1>12, <1>13, Induction
<1>15. Len(s) \in S
  BY <1>1, <1>14
<1> QED
  BY <1>1, <1>9, <1>11, <1>15 DEF S

\* The specs that builder calls compose: plain storage never has a modifier.
Specs ==
    [storage : {"Vec", "Aligned", "CudaPinned"}, alignment : Nat, prefault : BOOLEAN,
     hugepage : BOOLEAN, mlock : BOOLEAN, auto : BOOLEAN]

SpecOK(s) ==
    /\ s \in Specs
    /\ s.storage = "Vec" => s.alignment = 0 /\ ~s.hugepage /\ ~s.mlock

LEMMA StartingSpecs ==
  SpecOK(vec) /\ SpecOK(cuda_pinned) /\ SpecOK(auto) /\ \A a \in Nat : SpecOK(aligned(a))
BY DEF SpecOK, Specs, vec, cuda_pinned, auto, aligned

LEMMA ModifiedSpecs ==
  ASSUME NEW s, SpecOK(s)
  PROVE  /\ SpecOK(prefault(s)) /\ SpecOK(hugepage(s)) /\ SpecOK(mlock(s))
         /\ \A a \in Nat : SpecOK(alignment(s, a))
<1>1. s \in Specs
  BY DEF SpecOK
<1>2. SpecOK(prefault(s))
  BY <1>1 DEF SpecOK, Specs, prefault
<1>3. SpecOK(hugepage(s))
  BY <1>1 DEF SpecOK, Specs, hugepage, Promoted
<1>4. SpecOK(mlock(s))
  BY <1>1 DEF SpecOK, Specs, mlock, Promoted
<1>5. \A a \in Nat : SpecOK(alignment(s, a))
  BY <1>1 DEF SpecOK, Specs, alignment
<1> QED
  BY <1>2, <1>3, <1>4, <1>5

LEMMA ComposeOK == SpecOK(spec) /\ Compose => SpecOK(spec)' /\ buffer' = buffer /\ buffer.result = "none"
<1> SUFFICES ASSUME SpecOK(spec), Compose PROVE SpecOK(spec') /\ buffer' = buffer /\ buffer.result = "none"
  OBVIOUS
<1>1. Alignments \subseteq Nat
  BY LayoutAssumption
<1> QED
  BY <1>1, StartingSpecs, ModifiedSpecs DEF Compose

LEMMA ResolvedIs ==
  ASSUME NEW s, SpecOK(s), NEW bytes \in Nat
  PROVE  SpecOK(resolve(s, bytes)) /\ (resolve(s, bytes).storage = "CudaPinned" => s.storage = "CudaPinned")
<1>1. PageSize \in Nat /\ HugeAlignment \in Nat
  BY PowersAssumption, LayoutAssumption
<1>2. CASE ~s.auto
  BY <1>2 DEF resolve
<1>3. CASE s.auto
  <2>1. \A x \in {prefault(hugepage(aligned(HugeAlignment))), prefault(aligned(PageSize)), vec} :
           SpecOK(x) /\ x.storage # "CudaPinned"
    <3>1. SpecOK(prefault(hugepage(aligned(HugeAlignment)))) /\ SpecOK(prefault(aligned(PageSize))) /\ SpecOK(vec)
      BY <1>1, StartingSpecs, ModifiedSpecs
    <3>2. vec.storage = "Vec" /\ aligned(PageSize).storage = "Aligned" /\ aligned(HugeAlignment).storage = "Aligned"
      BY DEF vec, aligned
    <3>3. prefault(aligned(PageSize)).storage = "Aligned"
      BY <3>2 DEF prefault, aligned, vec
    <3>4. prefault(hugepage(aligned(HugeAlignment))).storage = "Aligned"
      BY <3>2 DEF prefault, hugepage, aligned, vec, Promoted
    <3> QED
      BY <3>1, <3>2, <3>3, <3>4
  <2>2. bytes >= HugepageThreshold \/ (bytes >= AlignedThreshold /\ bytes < HugepageThreshold) \/ bytes < AlignedThreshold
    BY LayoutAssumption
  <2>3. resolve(s, bytes) \in {prefault(hugepage(aligned(HugeAlignment))), prefault(aligned(PageSize)), vec}
    BY <1>3, <2>2 DEF resolve
  <2> QED
    BY <2>1, <2>3
<1> QED
  BY <1>2, <1>3

LEMMA StorageIs ==
  ASSUME NEW s, SpecOK(s), NEW size \in {1, 4, 8}, NEW bytes \in Nat
  PROVE  LET storage == StorageFor(s, size, bytes)
         IN  /\ storage.result \in {"alignment", "capacity", "built", "modifiers"}
             /\ storage.result = "modifiers" => s.storage = "CudaPinned"
             /\ storage.result = "built" =>
                   /\ storage.align \in Powers /\ size <= storage.align
                   /\ s.storage = "Aligned" => s.alignment <= storage.align
<1>1. /\ s \in Specs /\ s.alignment \in Nat /\ size \in Powers /\ WordMax \div 2 \in Int
      /\ s.storage \in {"Vec", "Aligned", "CudaPinned"}
  <2>1. WordMax \in Nat
    BY LayoutAssumption
  <2> QED
    BY <2>1, PowersAssumption DEF SpecOK, Specs
<1>2. CASE s.storage = "Aligned"
  <2> DEFINE align == IF s.alignment > size THEN s.alignment ELSE size
             rounded == ((bytes + align - 1) \div align) * align
             storage == StorageFor(s, size, bytes)
  <2>1. storage = zeroed(size, bytes, s.alignment)
    BY <1>2 DEF StorageFor
  <2>2. align \in Nat /\ size <= align /\ s.alignment <= align
    BY <1>1
  <2>3. CASE align \notin Powers
    <3>1. storage = [result |-> "alignment", align |-> align]
      BY <2>1, <2>3 DEF zeroed
    <3> HIDE DEF storage
    <3> QED
      BY <3>1 DEF storage
  <2>4. CASE align \in Powers
    <3>1. rounded \in Int
      <4>1. align \in Nat \ {0} /\ bytes + align - 1 \in Nat
        BY <2>2, <2>4, PowersAssumption
      <4> HIDE DEF align
      <4>2. (bytes + align - 1) \div align \in Nat
        BY <4>1, Quotient
      <4> QED
        BY <4>1, <4>2
    <3> HIDE DEF align
    <3>2. storage.result \in {"capacity", "built"} /\ storage.align = align
      <4> HIDE DEF rounded
      <4>1. rounded > WordMax \div 2 \/ rounded <= WordMax \div 2
        BY <1>1, <3>1
      <4>2. storage \in {[result |-> "capacity", align |-> align], [result |-> "built", align |-> align]}
        BY <2>1, <2>4, <4>1 DEF zeroed, align, rounded
      <4> HIDE DEF storage
      <4> QED
        BY <4>2
    <3> QED
      BY <2>2, <2>4, <3>2
  <2> QED
    BY <2>3, <2>4
<1>3. CASE s.storage # "Aligned" /\ (s.alignment # 0 \/ s.hugepage \/ s.mlock)
  <2>1. StorageFor(s, size, bytes) = [result |-> "modifiers", align |-> size]
    BY <1>3 DEF StorageFor
  <2>2. s.storage = "CudaPinned"
    BY <1>1, <1>3 DEF SpecOK
  <2> QED
    BY <2>1, <2>2
<1>4. CASE s.storage # "Aligned" /\ s.alignment = 0 /\ ~s.hugepage /\ ~s.mlock
  <2>1. StorageFor(s, size, bytes) =
           [result |-> IF bytes > WordMax \div 2 THEN "capacity" ELSE "built", align |-> size]
    BY <1>4 DEF StorageFor
  <2> QED
    BY <1>1, <1>4, <2>1
<1> QED
  BY <1>1, <1>2, <1>3, <1>4

\* A multiple of a power of two is one of each that is not larger.
LEMMA AlignedBelow ==
  ASSUME NEW a \in Powers, NEW b \in Powers, a <= b, NEW x \in Nat, x % b = 0
  PROVE  x % a = 0
<1>1. a \in Nat \ {0} /\ b \in Nat \ {0} /\ b % a = 0
  BY PowersAssumption
<1> DEFINE q == x \div b
           r == b \div a
<1>2. q \in Nat /\ x = q * b + 0 /\ r \in Nat /\ b = r * a + 0
  BY <1>1, Quotient
<1> HIDE DEF q, r
<1>3. r * a \in Nat /\ q * b \in Nat /\ q * r \in Nat
  BY <1>1, <1>2
<1>4. b = r * a /\ x = q * b
  BY <1>1, <1>2, <1>3
<1>5. x = (q * r) * a + 0
  BY <1>1, <1>2, <1>4
<1>6. ((q * r) * a + 0) % a = 0
  BY <1>1, <1>3, Remainder
<1> QED
  BY <1>5, <1>6

\* Of the properties, the ones that a refused construction has to meet.
LEMMA RefusedOK ==
  ASSUME NEW why, why \notin {"built", "sparse", "copied"}, why = "modifiers" => spec'.storage = "CudaPinned",
         buffer' = Refused(why)
  PROVE  LayoutIsExact'
<1>1. buffer'.result = why
  BY DEF Refused, NoBuffer
<1> QED
  BY <1>1 DEF LayoutIsExact

LEMMA MadeOK ==
  ASSUME NEW b, MakeValue(b), buffer' = b => LayoutIsExact'
  PROVE  LayoutIsExact'
BY RefusedOK DEF MakeValue

LEMMA Sizes ==
  /\ element_size("Uint8") = 1 /\ element_size("Float") = 4 /\ element_size("Double") = 8
  /\ \A type \in {"Uint8", "Float", "Double"} : packed_element_bits(type) = 0
  /\ packed_element_bits("Uint4") = 4 /\ packed_element_bits("Uint2") = 2
BY DEF element_size, packed_element_bits

\* The bytes of a dense tensor.
LEMMA DenseBytes ==
  ASSUME NEW shape \in Shapes, NEW type \in {"Uint8", "Float", "Double"},
         CheckedMul(checked_element_count(shape), element_size(type)) # Err
  PROVE  LET len == checked_element_count(shape)
             bytes == CheckedMul(len, element_size(type))
         IN  /\ element_size(type) \in {1, 4, 8}
             /\ len \in Nat /\ bytes \in Nat /\ bytes = len * element_size(type)
             /\ bytes = RealCount(shape) * element_size(type)
             /\ \A k \in DOMAIN shape : shape[k] >= 0
<1> DEFINE len == checked_element_count(shape)
<1>1. shape \in Seq(Int)
  BY LayoutAssumption
<1>2. element_size(type) \in {1, 4, 8}
  BY Sizes
<1>3. len = Err \/ (len \in Nat /\ len = RealCount(shape) /\ \A k \in DOMAIN shape : shape[k] >= 0)
  BY <1>1, CountIs
<1> HIDE DEF len
<1>4. len \in Int
  BY <1>3 DEF Err
<1> DEFINE size == element_size(type)
<1>5. size \in Nat
  BY <1>2
<1>6. CheckedMul(len, size) # Err
  BY DEF len
<1> HIDE DEF size
<1>7. len = Err \/ len \in Nat
  BY <1>3
<1>8. len \in Nat /\ CheckedMul(len, size) = len * size /\ len * size \in Nat
  BY <1>4, <1>5, <1>6, <1>7, CheckedIs
<1>9. len # Err
  BY <1>8 DEF Err
<1> QED
  BY <1>2, <1>3, <1>8, <1>9 DEF len, size

LEMMA ZerosOK ==
  ASSUME SpecOK(spec), NEW shape \in Shapes, NEW type \in {"Uint8", "Float", "Double"}, zeros_with(shape, type)
  PROVE  LayoutIsExact'
<1> DEFINE size == element_size(type)
           len == checked_element_count(shape)
           bytes == CheckedMul(len, size)
           resolved == resolve(spec, bytes)
           storage == StorageFor(resolved, size, bytes)
           b(addr) == [NoBuffer EXCEPT
                        !.result = "built", !.type = type, !.shape = shape, !.bytes = bytes, !.addr = addr,
                        !.alignment = IF resolved.storage = "Aligned" THEN resolved.alignment ELSE 0,
                        !.prefault = resolved.prefault,
                        !.touched = IF resolved.prefault THEN prefault_slice(addr, len, size) ELSE {}]
<1>1. /\ spec' = spec
      /\ IF bytes = Err THEN buffer' = Refused("shape")
         ELSE IF storage.result # "built" THEN buffer' = Refused(storage.result)
         ELSE \E addr \in {a \in Addresses : a % storage.align = 0} :
                MakeValue(b(addr)) \/ (resolved.mlock /\ bytes > 0 /\ buffer' = Refused("lock"))
  BY DEF zeros_with
<1>2. CASE bytes = Err
  BY <1>1, <1>2, RefusedOK
<1>3. CASE bytes # Err
  <2>1. /\ size \in {1, 4, 8} /\ len \in Nat /\ bytes \in Nat /\ bytes = len * size
        /\ bytes = RealCount(shape) * size /\ \A k \in DOMAIN shape : shape[k] >= 0
    BY <1>3, DenseBytes
  <2>2. SpecOK(resolved) /\ (resolved.storage = "CudaPinned" => spec.storage = "CudaPinned")
    BY <2>1, ResolvedIs
  <2>3. /\ storage.result \in {"alignment", "capacity", "built", "modifiers"}
        /\ storage.result = "modifiers" => spec.storage = "CudaPinned"
        /\ storage.result = "built" =>
              /\ storage.align \in Powers /\ size <= storage.align
              /\ resolved.storage = "Aligned" => resolved.alignment <= storage.align
    BY <2>1, <2>2, StorageIs
  <2> HIDE DEF size, len, bytes, resolved, storage
  <2>4. CASE storage.result # "built"
    BY <1>1, <1>3, <2>3, <2>4, RefusedOK
  <2>5. CASE storage.result = "built"
    <3>1. PICK addr \in {a \in Addresses : a % storage.align = 0} :
            MakeValue(b(addr)) \/ (resolved.mlock /\ bytes > 0 /\ buffer' = Refused("lock"))
      BY <1>1, <1>3, <2>5
    <3>2. addr \in Nat /\ addr % storage.align = 0
      BY LayoutAssumption
    <3>3. size \in Powers
      BY <2>1, PowersAssumption
    <3>4. addr % size = 0
      BY <2>3, <2>5, <3>2, <3>3, AlignedBelow
    <3>5. ASSUME resolved.storage = "Aligned", resolved.alignment \in Powers
          PROVE  addr % resolved.alignment = 0
      BY <2>3, <2>5, <3>2, <3>5, AlignedBelow
    <3>6. /\ prefault_slice(addr, len, size) \subseteq {addr + i : i \in 0..(bytes - 1)}
          /\ {Page(a) : a \in {addr + i : i \in 0..(bytes - 1)}} = {Page(a) : a \in prefault_slice(addr, len, size)}
      <4>1. /\ prefault_slice(addr, len, size) \subseteq {addr + i : i \in 0..(len * size - 1)}
            /\ {Page(a) : a \in {addr + i : i \in 0..(len * size - 1)}} =
                  {Page(a) : a \in prefault_slice(addr, len, size)}
        BY <2>1, <3>2, <3>4, PrefaultIs, ZenonT(40)
      <4>2. bytes = len * size
        BY <2>1
      <4> QED
        BY <4>1, <4>2
    <3>7. resolved.prefault \in BOOLEAN /\ 0 \notin Powers
      BY <2>2, PowersAssumption DEF SpecOK, Specs
    <3>8. ASSUME buffer' = b(addr) PROVE LayoutIsExact'
      <4>1. /\ buffer'.result = "built" /\ buffer'.type = type /\ buffer'.shape = shape
            /\ buffer'.bytes = bytes /\ buffer'.addr = addr /\ buffer'.file = Err
            /\ buffer'.alignment = (IF resolved.storage = "Aligned" THEN resolved.alignment ELSE 0)
            /\ buffer'.prefault = resolved.prefault
            /\ buffer'.touched = IF resolved.prefault THEN prefault_slice(addr, len, size) ELSE {}
        BY <3>8 DEF NoBuffer
      <4>2. packed_element_bits(type) = 0
        BY Sizes
      <4>3. SizeIsExact'
        BY <2>1, <4>1, <4>2 DEF SizeIsExact, size
      <4>4. Bytes' = {addr + i : i \in 0..(bytes - 1)}
        BY <4>1 DEF Bytes
      <4>5. buffer'.touched \subseteq Bytes'
        BY <3>6, <4>1, <4>4
      <4>6. buffer'.prefault => {Page(a) : a \in Bytes'} = {Page(a) : a \in buffer'.touched}
        BY <3>6, <3>7, <4>1, <4>4
      <4>7. buffer'.alignment \in Powers => buffer'.addr % buffer'.alignment = 0
        BY <3>5, <3>7, <4>1
      <4>8. buffer'.addr % element_size(buffer'.type) = 0
        BY <3>4, <4>1 DEF size
      <4> QED
        BY <4>1, <4>3, <4>5, <4>6, <4>7, <4>8 DEF LayoutIsExact, Page
    <3>9. CASE MakeValue(b(addr))
      <4> HIDE DEF b
      <4> QED
        BY <3>8, <3>9, MadeOK
    <3>10. CASE buffer' = Refused("lock")
      BY <3>10, RefusedOK
    <3> QED
      BY <3>1, <3>9, <3>10
  <2> QED
    BY <2>4, <2>5
<1> QED
  BY <1>2, <1>3

\* The part of the file that is shown starts where the caller asked for.
LEMMA MappedOK ==
  ASSUME NEW shape \in Shapes, NEW type \in {"Uint8", "Float"}, NEW offset \in Offsets,
         NEW file_len \in FileLengths, from_mmap_file(shape, type, offset, file_len)
  PROVE  LayoutIsExact'
<1> DEFINE size == element_size(type)
           len == checked_element_count(shape)
           bytes == CheckedMul(len, size)
           end == CheckedAdd(offset, bytes)
           range == map_file_range(offset, bytes)
           empty == [NoBuffer EXCEPT !.result = "built", !.type = type, !.shape = shape]
           b(map) == [NoBuffer EXCEPT
                         !.result = "built", !.type = type, !.shape = shape, !.bytes = bytes,
                         !.addr = map + range.data_offset,
                         !.file = range.offset - map, !.offset = offset]
<1>1. IF bytes = Err \/ end = Err THEN buffer' = Refused("shape")
      ELSE IF end > file_len THEN buffer' = Refused("range")
      ELSE IF bytes = 0 THEN MakeValue(empty)
      ELSE IF range.len = Err THEN buffer' = Refused("range")
      ELSE \E map \in {a \in Addresses : a % PageSize = 0} :
             IF (map + range.data_offset) % size # 0 THEN buffer' = Refused("alignment")
             ELSE MakeValue(b(map)) \/ buffer' \in {Refused("range"), Refused("lock")}
  BY DEF from_mmap_file
<1>2. CASE buffer' \in {Refused("shape"), Refused("range"), Refused("alignment"), Refused("lock")}
  BY <1>2, RefusedOK
<1>3. CASE bytes # Err
  <2>1. /\ size \in {1, 4, 8} /\ bytes \in Nat
        /\ bytes = RealCount(shape) * size /\ \A k \in DOMAIN shape : shape[k] >= 0
    BY <1>3, DenseBytes
  <2>2. packed_element_bits(type) = 0
    BY Sizes
  <2>3. CASE bytes = 0 /\ MakeValue(empty)
    <3>1. ASSUME buffer' = empty PROVE LayoutIsExact'
      <4>1. /\ buffer'.result = "built" /\ buffer'.type = type /\ buffer'.shape = shape
            /\ buffer'.bytes = 0 /\ buffer'.file = Err /\ buffer'.prefault = FALSE /\ buffer'.touched = {}
        BY <3>1 DEF NoBuffer
      <4>2. SizeIsExact'
        BY <2>1, <2>2, <2>3, <4>1 DEF SizeIsExact, size
      <4> QED
        BY <4>1, <4>2 DEF LayoutIsExact
    <3> HIDE DEF empty
    <3> QED
      BY <2>3, <3>1, MadeOK
  <2>4. ASSUME NEW map \in {a \in Addresses : a % PageSize = 0},
               (map + range.data_offset) % size = 0, MakeValue(b(map))
        PROVE  LayoutIsExact'
    <3>1. map \in Nat /\ offset \in Nat /\ PageSize \in Nat \ {0}
      BY LayoutAssumption, PowersAssumption
    <3> DEFINE start == (offset \div PageSize) * PageSize
    <3>2. start \in Nat /\ range.offset = start /\ range.data_offset = offset - start
      <4>1. offset \div PageSize \in Nat
        BY <3>1, Quotient
      <4> QED
        BY <3>1, <4>1 DEF map_file_range
    <3> HIDE DEF range, start
    <3>3. map + range.data_offset \in Int /\ map + range.data_offset + (range.offset - map) = offset
      BY <3>1, <3>2
    <3>4. ASSUME buffer' = b(map) PROVE LayoutIsExact'
      <4>1. /\ buffer'.result = "built" /\ buffer'.type = type /\ buffer'.shape = shape
            /\ buffer'.bytes = bytes /\ buffer'.prefault = FALSE /\ buffer'.touched = {}
            /\ buffer'.addr = map + range.data_offset /\ buffer'.alignment = 1
            /\ buffer'.file = range.offset - map /\ buffer'.offset = offset
        BY <3>4 DEF NoBuffer
      <4>2. SizeIsExact'
        BY <2>1, <2>2, <4>1 DEF SizeIsExact, size
      <4>3. buffer'.addr % buffer'.alignment = 0
        BY <3>3, <4>1
      <4>4. buffer'.addr % element_size(buffer'.type) = 0
        BY <2>4, <4>1 DEF size
      <4>5. buffer'.addr + buffer'.file = buffer'.offset
        BY <3>3, <4>1
      <4> HIDE DEF bytes, size
      <4> QED
        BY <4>1, <4>2, <4>3, <4>4, <4>5 DEF LayoutIsExact
    <3> HIDE DEF b
    <3> QED
      BY <2>4, <3>4, MadeOK
  <2> HIDE DEF bytes, size, end, range, b, empty
  <2> QED
    BY <1>1, <1>2, <1>3, <2>3, <2>4
<1> HIDE DEF bytes, size, end, range, b, empty
<1> QED
  BY <1>1, <1>2, <1>3

\* Elements of four and of two bits, rounded up to bytes.
LEMMA PackedOK ==
  ASSUME NEW shape \in Shapes, NEW type \in {"Uint4", "Uint2", "Uint8"}, NEW n \in 0..4,
         from_packed_bytes(shape, type, n)
  PROVE  LayoutIsExact'
<1> DEFINE w == packed_element_bits(type)
           len == checked_element_count(shape)
           expected == tensor_byte_len(type, len)
           b == [NoBuffer EXCEPT !.result = "built", !.type = type, !.shape = shape, !.bytes = n]
<1>1. IF w = 0 THEN buffer' = Refused("type")
      ELSE IF expected # n THEN buffer' = Refused("shape")
      ELSE MakeValue(b)
  BY DEF from_packed_bytes
<1>2. w \in {0, 2, 4}
  BY Sizes
<1>3. ASSUME w # 0, expected = n, buffer' = b PROVE LayoutIsExact'
  <2>1. shape \in Seq(Int) /\ n \in Nat /\ n # Err
    BY LayoutAssumption DEF Err
  <2>2. len = Err \/ (len \in Nat /\ len = RealCount(shape) /\ \A k \in DOMAIN shape : shape[k] >= 0)
    BY <2>1, CountIs
  <2> DEFINE bits == CheckedAdd(CheckedMul(len, w), 7)
  <2>3. expected = IF bits = Err THEN Err ELSE bits \div 8
    BY <1>3 DEF tensor_byte_len
  <2>4. bits # Err /\ n = bits \div 8
    BY <1>3, <2>1, <2>3
  <2> HIDE DEF len, w, expected
  <2>5. len \in Int /\ w \in Nat /\ (len = Err \/ len \in Nat)
    BY <1>2, <2>2 DEF Err
  <2> DEFINE product == CheckedMul(len, w)
  <2>6. product = Err \/ (len \in Nat /\ product = len * w /\ product \in Nat)
    BY <2>5, CheckedIs
  <2>7. product \in Int
    BY <2>6 DEF Err
  <2>8. product \in Nat /\ bits = product + 7
    <3> HIDE DEF product
    <3>1. bits = CheckedAdd(product, 7)
      BY DEF product
    <3> HIDE DEF bits
    <3> QED
      BY <2>4, <2>6, <2>7, <3>1, CheckedIs
  <2>9. product # Err
    BY <2>8 DEF Err
  <2>10. len \in Nat /\ product = RealCount(shape) * w /\ \A k \in DOMAIN shape : shape[k] >= 0
    <3>1. len \in Nat /\ product = len * w
      BY <2>6, <2>9
    <3>2. len # Err
      BY <3>1 DEF Err
    <3> QED
      BY <2>2, <3>1, <3>2
  <2> HIDE DEF product, bits
  <2>11. n * 8 >= product /\ (n - 1) * 8 < product
    BY <2>1, <2>4, <2>8
  <2>12. /\ buffer'.result = "built" /\ buffer'.type = type /\ buffer'.shape = shape
         /\ buffer'.bytes = n /\ buffer'.file = Err /\ buffer'.prefault = FALSE /\ buffer'.touched = {}
         /\ buffer'.alignment = 1 /\ buffer'.addr = 0
    BY <1>3 DEF NoBuffer
  <2>13. packed_element_bits(type) # 0
    BY <1>3 DEF w
  <2>14. SizeIsExact'
    BY <2>10, <2>11, <2>12, <2>13 DEF SizeIsExact, w
  <2> QED
    BY <2>12, <2>13, <2>14 DEF LayoutIsExact
<1> HIDE DEF w, expected, b
<1> QED
  BY <1>1, <1>3, RefusedOK, MadeOK

\* A sparse tensor, given what its format demands of the indices.
LEMMA SparseOK ==
  ASSUME NEW ok \in BOOLEAN, NEW format, NEW dense \in Shapes, NEW values \in Seq(Int), NEW nnz \in Nat,
         NEW indices, Sparse(ok, format, dense, values, nnz, indices),
         ok /\ format = "coo" => indices[1] \in {nnz, nnz * Len(dense)},
         ok /\ format = "csr" => indices = <<nnz, dense[1] + 1>>
  PROVE  LayoutIsExact'
<1> DEFINE b == [NoBuffer EXCEPT !.result = "sparse", !.shape = dense, !.values = values,
                          !.nnz = nnz, !.indices = indices, !.format = format]
           valid == validate_sparse_shapes(dense, values, nnz)
<1>1. IF valid /\ ok THEN MakeValue(b) ELSE buffer' = Refused("indices")
  BY DEF Sparse
<1>2. ASSUME valid, ok, buffer' = b PROVE LayoutIsExact'
  <2>1. dense \in Seq(Int) /\ nnz # Err
    BY LayoutAssumption DEF Err
  <2>2. checked_element_count(dense) # Err /\ checked_element_count(values) = nnz
    BY <1>2 DEF validate_sparse_shapes, validate_shape_len
  <2>3. \A k \in DOMAIN dense : dense[k] >= 0
    BY <2>1, <2>2, CountIs
  <2>4. RealCount(values) = nnz
    BY <2>1, <2>2, CountIs
  <2>5. /\ buffer'.result = "sparse" /\ buffer'.shape = dense /\ buffer'.values = values
        /\ buffer'.nnz = nnz /\ buffer'.indices = indices /\ buffer'.format = format
    BY <1>2 DEF NoBuffer
  <2>6. SparseIsExact'
    BY <1>2, <2>3, <2>4, <2>5 DEF SparseIsExact
  <2> QED
    BY <2>5, <2>6 DEF LayoutIsExact
<1> HIDE DEF b, valid
<1> QED
  BY <1>1, <1>2, RefusedOK, MadeOK

LEMMA SparseOfShapeOK ==
  ASSUME NEW dense \in Shapes, NEW k \in SparseCounts, NEW nnz \in SparseCounts, NEW n \in SparseCounts,
         \/ coo(dense, <<k>>, nnz, n)
         \/ \E outer \in {0, 1, 4, 12} : csr(dense, <<k>>, nnz, n, outer)
         \/ block_sparse(dense, <<k>>, nnz, <<n, 2>>, 2 * n)
  PROVE  LayoutIsExact'
<1>1. k \in Nat /\ nnz \in Nat /\ n \in Nat /\ <<k>> \in Seq(Int) /\ dense \in Seq(Int)
  BY LayoutAssumption DEF SparseCounts
<1>2. n # Err /\ Len(dense) \in Nat
  BY <1>1 DEF Err
<1>3. CASE coo(dense, <<k>>, nnz, n)
  <2> DEFINE ok == validate_coo_indices(nnz, Len(dense), n)
  <2>1. Sparse(ok, "coo", dense, <<k>>, nnz, <<n>>) /\ ok \in BOOLEAN
    BY <1>3 DEF coo, validate_coo_indices
  <2>2. ASSUME ok PROVE n \in {nnz, nnz * Len(dense)}
    <3>1. n = nnz \/ n = CheckedMul(nnz, Len(dense))
      BY <2>2 DEF validate_coo_indices
    <3> QED
      BY <1>1, <1>2, <3>1, CheckedIs
  <2>3. <<n>>[1] = n
    OBVIOUS
  <2> HIDE DEF ok
  <2> QED
    BY <1>1, <2>1, <2>2, <2>3, SparseOK
<1>4. ASSUME NEW outer \in {0, 1, 4, 12}, csr(dense, <<k>>, nnz, n, outer) PROVE LayoutIsExact'
  <2> DEFINE ok == validate_csr_indices(nnz, dense, n, outer)
  <2>1. Sparse(ok, "csr", dense, <<k>>, nnz, <<n, outer>>) /\ ok \in BOOLEAN
    BY <1>4 DEF csr, validate_csr_indices
  <2>2. ASSUME ok PROVE <<n, outer>> = <<nnz, dense[1] + 1>>
    <3>1. n = nnz /\ dense # <<>> /\ dense[1] >= 0 /\ outer = CheckedAdd(dense[1], 1)
      BY <2>2 DEF validate_csr_indices
    <3>2. dense[1] \in Nat
      BY <1>1, <3>1
    <3>3. outer # Err
      BY DEF Err
    <3>4. outer = dense[1] + 1
      BY <3>1, <3>3 DEF CheckedAdd
    <3> QED
      BY <3>1, <3>4
  <2> HIDE DEF ok
  <2> QED
    BY <1>1, <2>1, <2>2, SparseOK
<1>5. CASE block_sparse(dense, <<k>>, nnz, <<n, 2>>, 2 * n)
  <2> DEFINE ok == validate_shape_len(<<n, 2>>, 2 * n)
  <2>1. Sparse(ok, "block", dense, <<k>>, nnz, <<n, 2>>) /\ ok \in BOOLEAN
    BY <1>5 DEF block_sparse, validate_shape_len
  <2> HIDE DEF ok
  <2> QED
    BY <1>1, <2>1, SparseOK
<1> QED
  BY <1>3, <1>4, <1>5

\* The host writes the destination and nothing else, and never device memory.
LEMMA CopiedOK ==
  ASSUME NEW src \in Tensors, NEW dst \in Tensors, copy_tensor_handles(src, dst)
  PROVE  LayoutIsExact'
<1> DEFINE engine == [NoBuffer EXCEPT !.result = "copied", !.bytes = dst.bytes, !.addr = dst.addr]
           host == [engine EXCEPT !.touched = {dst.addr + i : i \in 0..(src.bytes - 1)}]
<1>1. \/ buffer' = engine \/ buffer' \in {Refused("engine"), Refused("size")}
      \/ buffer' = host /\ dst.host /\ src.bytes = dst.bytes
  BY DEF copy_tensor_handles, try_host_copy_tensor_handles, NoBuffer
<1>2. CASE buffer' \in {Refused("engine"), Refused("size")}
  BY <1>2, RefusedOK
<1>3. CASE buffer' = engine
  <2>1. buffer'.result = "copied" /\ buffer'.touched = {}
    BY <1>3 DEF NoBuffer
  <2> QED
    BY <2>1 DEF LayoutIsExact
<1>4. CASE buffer' = host /\ dst.host /\ src.bytes = dst.bytes
  <2>1. dst.addr \in Nat
    BY <1>4, LayoutAssumption DEF Tensors
  <2>2. dst.addr # Err
    BY <2>1 DEF Err
  <2>3. /\ buffer'.result = "copied" /\ buffer'.addr = dst.addr /\ buffer'.bytes = dst.bytes
        /\ buffer'.touched = {dst.addr + i : i \in 0..(src.bytes - 1)}
    BY <1>4 DEF NoBuffer
  <2> QED
    BY <1>4, <2>2, <2>3 DEF LayoutIsExact, Bytes
<1> QED
  BY <1>1, <1>2, <1>3, <1>4

LayoutInv == SpecOK(spec) /\ LayoutIsExact

LEMMA LayoutInitOK == LayoutInit => LayoutInv
<1> SUFFICES ASSUME LayoutInit PROVE LayoutInv
  OBVIOUS
<1>1. buffer.result = "none"
  BY DEF LayoutInit, NoBuffer
<1> QED
  BY <1>1, StartingSpecs DEF LayoutInit, LayoutInv, LayoutIsExact

LEMMA LayoutNextOK == LayoutInv /\ LayoutNext => LayoutInv'
<1> SUFFICES ASSUME LayoutInv, LayoutNext PROVE LayoutInv'
  OBVIOUS
<1>1. SpecOK(spec)
  BY DEF LayoutInv
<1>2. CASE Compose
  <2>1. SpecOK(spec') /\ buffer' = buffer /\ buffer.result = "none"
    BY <1>1, <1>2, ComposeOK
  <2> QED
    BY <2>1 DEF LayoutInv, LayoutIsExact
<1>3. ASSUME spec' = spec, LayoutIsExact' PROVE LayoutInv'
  BY <1>1, <1>3 DEF LayoutInv
<1>4. ASSUME NEW shape \in Shapes, NEW type \in {"Uint8", "Float", "Double"}, zeros_with(shape, type)
      PROVE  LayoutInv'
  BY <1>1, <1>3, <1>4, ZerosOK DEF zeros_with
<1>5. ASSUME NEW shape \in Shapes, NEW type \in {"Uint8", "Float"}, NEW o \in Offsets, NEW n \in FileLengths,
             from_mmap_file(shape, type, o, n)
      PROVE  LayoutInv'
  BY <1>3, <1>5, MappedOK DEF from_mmap_file
<1>6. ASSUME NEW shape \in Shapes, NEW type \in {"Uint4", "Uint2", "Uint8"}, NEW n \in 0..4,
             from_packed_bytes(shape, type, n)
      PROVE  LayoutInv'
  BY <1>3, <1>6, PackedOK DEF from_packed_bytes
<1>7. CASE SparseOrCopy
  <2>1. ASSUME NEW dense \in Shapes, NEW k \in SparseCounts, NEW nnz \in SparseCounts, NEW n \in SparseCounts,
               \/ coo(dense, <<k>>, nnz, n)
               \/ \E outer \in {0, 1, 4, 12} : csr(dense, <<k>>, nnz, n, outer)
               \/ block_sparse(dense, <<k>>, nnz, <<n, 2>>, 2 * n)
        PROVE  LayoutInv'
    <3>1. LayoutIsExact'
      BY <2>1, SparseOfShapeOK
    <3>2. spec' = spec
      BY <2>1 DEF coo, csr, block_sparse, Sparse
    <3> QED
      BY <1>3, <3>1, <3>2
  <2>2. ASSUME NEW src \in Tensors, NEW dst \in Tensors, copy_tensor_handles(src, dst) PROVE LayoutInv'
    BY <1>3, <2>2, CopiedOK DEF copy_tensor_handles
  <2> QED
    BY <1>7, <2>1, <2>2 DEF SparseOrCopy
<1> QED
  BY <1>2, <1>4, <1>5, <1>6, <1>7 DEF LayoutNext

LEMMA LayoutStepOK == LayoutInv /\ [Next]_<<vars, layoutVars>> => LayoutInv'
<1> SUFFICES ASSUME LayoutInv, [Next]_<<vars, layoutVars>> PROVE LayoutInv'
  OBVIOUS
<1>1. CASE LayoutNext
  BY <1>1, LayoutNextOK
<1>2. CASE UNCHANGED layoutVars
  BY <1>2 DEF layoutVars, LayoutInv, LayoutIsExact, SparseIsExact, SizeIsExact, Bytes, Page
<1> QED
  BY <1>1, <1>2 DEF Next

\* A buffer, a mapping, a sparse tensor or a copy that was made has the sizes, the addresses
\* and the pages that its shape and its spec need, for every width of a word, page size,
\* thresholds, shapes and addresses, and after every sequence of builder calls.
THEOREM ExactLayout == Spec => []LayoutIsExact
<1>1. Init => LayoutInv
  BY LayoutInitOK DEF Init
<1>2. LayoutInv => LayoutIsExact
  BY DEF LayoutInv
<1> QED
  BY <1>1, <1>2, LayoutStepOK, PTL DEF Spec
=============================================================================
