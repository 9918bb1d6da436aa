----------------------------- MODULE NativeHeap -----------------------------
(***************************************************************************)
(* The ownership discipline of the wrapper types.  A wrapper owns one      *)
(* native object (an OrtSession, an OrtValue, a CUDA stream, a mapping);   *)
(* its Drop releases that object first and then its fields are dropped in  *)
(* the order they are declared: shared guards (Arc) that keep alive what   *)
(* the native object points to, or values the wrapper owns.  The program   *)
(* holds wrappers through handles, which it creates, passes by value,      *)
(* clones and drops in any order.  A drop goes on one release at a time    *)
(* and a call waits for it: a call of another thread only names objects    *)
(* that have handles, which no drop in progress can free, so the two       *)
(* commute.                                                                *)
(*                                                                         *)
(* The modules that extend this one have one action per operation of the   *)
(* API that creates, moves or frees a native object.                       *)
(***************************************************************************)
EXTENDS Integers, Sequences, FiniteSets, SequencesExt

CONSTANTS Ids,          \* the places of the heap, interchangeable
          Areas,        \* the parts of the API, each explored on its own
          MaxObjects    \* objects that exist at a time, by area (model bound)
ASSUME IdsAssumption == IsFiniteSet(Ids)
ASSUME MaxObjectsAssumption == MaxObjects \in [Areas -> 1..Cardinality(Ids)]

VARIABLES area,         \* the part of the API this behaviour calls
          heap,         \* the objects; a freed place is used again
          dropping,     \* what the dropping thread still has to do
          leaked        \* the kind of native object the code has leaked, if any

vars == <<area, heap, dropping, leaked>>

\* calls: the logging function an environment makes the engine call.  native: live,
\* moved into another native object, or none for a wrapper that only has fields; a
\* free place holds no object.
Free == [kind |-> "free", handles |-> 0, guards |-> <<>>, uses |-> {}, borrows |-> {},
         calls |-> {}, native |-> "none"]
Objects == {i \in Ids : heap[i].kind # "free"}
Alive(i) == heap[i].native = "live"

(***************************************************************************)
(* Reference counts                                                        *)
(***************************************************************************)
Occurrences(i, s) == Cardinality({k \in DOMAIN s : s[k] = i})

\* The occurrences of i among all guards.
Keepers(h, i) == {p \in UNION {{j} \X DOMAIN h[j].guards : j \in Ids} : h[p[1]].guards[p[2]] = i}

Release(i) == [do |-> "release", of |-> i]
Unref(i) == [do |-> "unref", of |-> i]
Unrefs(s) == [k \in DOMAIN s |-> Unref(s[k])]

\* Arc::strong_count, or the one owner of a value.
Strong(h, tasks, i) == h[i].handles + Cardinality(Keepers(h, i)) + Occurrences(Unref(i), tasks)

\* A borrow of Rust: what it borrows can be neither dropped nor moved.
Borrowed(i) == \E j \in Objects : i \in heap[j].borrows /\ heap[j].handles > 0

\* The objects of some kinds, and the elements of s that are in a set, in their order.
OfKind(kinds) == {i \in Ids : heap[i].kind \in kinds}
Among(s, set) ==
    LET taken[n \in 0..Len(s)] ==
            IF n = 0 THEN <<>>
            ELSE IF s[n] \in set THEN Append(taken[n - 1], s[n]) ELSE taken[n - 1]
    IN taken[Len(s)]

\* What the program can name, by kind.
Held(kind) == {i \in Objects : heap[i].kind = kind /\ heap[i].handles > 0}
HeldOf(kinds) == UNION {Held(k) : k \in kinds}
Movable(kind) == {i \in Held(kind) : ~Borrowed(i)}

(***************************************************************************)
(* Creating                                                                *)
(***************************************************************************)
Object(kind, guards, uses) ==
    [kind |-> kind, handles |-> 1, guards |-> guards, uses |-> uses,
     borrows |-> {}, calls |-> {}, native |-> "live"]

Wrapper(kind, guards) == [Object(kind, guards, {}) EXCEPT !.native = "none"]
Borrowing(object, b) == [object EXCEPT !.borrows = b]
Logging(object, loggers) == [object EXCEPT !.calls = loggers]
Owned(object) == [object EXCEPT !.handles = 0]

\* The places of the next objects.
Room(n) == Cardinality(Objects) + n <= MaxObjects[area]
New == CHOOSE i \in Ids : i \notin Objects
New2 == CHOOSE i \in Ids : i \notin Objects \cup {New}

\* The heap after the handles in the sequence "taken" were passed by value.
Without(taken) == [i \in Ids |-> [heap[i] EXCEPT !.handles = @ - Occurrences(i, taken)]]

\* A call that consumes "taken" and returns a new object.
Creates(taken, object) ==
    /\ Room(1)
    /\ heap' = [Without(taken) EXCEPT ![New] = object]
    /\ UNCHANGED <<area, dropping, leaked>>

\* A call that fails before it created anything: what it consumed is dropped.
Refuses(taken) ==
    /\ taken # <<>>
    /\ heap' = Without(taken)
    /\ dropping' = Unrefs(taken)
    /\ UNCHANGED <<area, leaked>>

\* A call that fails after it created the native object: the half-built wrapper,
\* or the handle itself, is released before the error is returned.
Undoes(taken, object) ==
    /\ Room(1)
    /\ heap' = [Without(taken) EXCEPT ![New] = Owned(object)]
    /\ dropping' = <<Release(New)>>
    /\ UNCHANGED <<area, leaked>>

\* A call that fails and forgets the native object it created.
Leaks(kind) ==
    /\ leaked = "nothing"
    /\ leaked' = kind
    /\ UNCHANGED <<area, heap, dropping>>

Make(object) == Creates(<<>>, object)
MakeOrUndo(object) == Make(object) \/ Undoes(<<>>, object)
Consume(taken, object) == Creates(taken, object) \/ Refuses(taken)

\* Clone of a handle that shares one inner object.
Clone(i) ==
    /\ heap[i].handles = 1
    /\ heap' = [heap EXCEPT ![i].handles = 2]
    /\ UNCHANGED <<area, dropping, leaked>>

\* The native object of i becomes part of the one of j, which inherits what it
\* points to; the wrapper is forgotten.
MovesInto(i, j) ==
    /\ heap' = [heap EXCEPT ![i] = Free, ![j].uses = @ \cup heap[i].uses,
                            ![j].borrows = @ \cup heap[i].borrows]
    /\ UNCHANGED <<area, dropping, leaked>>

\* The native object of i is given others to point to, and its wrapper guards.
Attach(i, guards, uses) ==
    /\ heap' = [heap EXCEPT ![i].guards = @ \o guards, ![i].uses = @ \cup uses]
    /\ UNCHANGED <<area, dropping, leaked>>

(***************************************************************************)
(* Dropping                                                                *)
(***************************************************************************)
\* The program drops a handle; a leaked reference of a logger's slot is never dropped.
DropHandle(i) ==
    /\ heap[i].handles > 0 /\ heap[i].kind # "slot"
    /\ ~Borrowed(i)
    /\ heap' = [heap EXCEPT ![i].handles = @ - 1]
    /\ dropping' = IF Strong(heap, dropping, i) = 1 THEN <<Release(i)>> ELSE <<>>
    /\ UNCHANGED <<area, leaked>>

\* Drop of a wrapper: the native object is released, then the fields are dropped.
ReleaseThenFields(i) ==
    /\ heap' = [heap EXCEPT ![i] = Free]
    /\ dropping' = Unrefs(heap[i].guards) \o Tail(dropping)

\* Drop of an Arc: the last reference drops the object.
DropReference(i) ==
    /\ dropping' = (IF Strong(heap, Tail(dropping), i) = 0 THEN <<Release(i)>> ELSE <<>>)
                       \o Tail(dropping)
    /\ UNCHANGED heap

DropStep ==
    /\ dropping # <<>>
    /\ LET t == Head(dropping)
       IN \/ t.do = "release" /\ ReleaseThenFields(t.of)
          \/ t.do = "unref" /\ DropReference(t.of)
    /\ UNCHANGED <<area, leaked>>

(***************************************************************************)
(* Properties                                                              *)
(***************************************************************************)
\* The objects reached from a set along the references that "refs" gives.
Reach(from, refs(_)) ==
    LET R[n \in 0..Cardinality(Ids)] ==
            IF n = 0 THEN from ELSE R[n - 1] \cup UNION {refs(i) : i \in R[n - 1]}
    IN R[Cardinality(Ids)]

UsesOf(i) == heap[i].uses
GuardsOf(i) == ToSet(heap[i].guards)

\* The heap, its references and the drop in progress have their types.
TypeOK ==
    /\ \A i \in Ids :
           /\ heap[i].handles \in 0..2
           /\ heap[i].native \in {"live", "moved", "none"}
           /\ GuardsOf(i) \cup heap[i].uses \cup heap[i].borrows \cup heap[i].calls \subseteq Ids
    /\ \A k \in DOMAIN dropping : dropping[k].do \in {"release", "unref"} /\ dropping[k].of \in Ids

\* What a native object was given to point to outlives it: at every step of every
\* drop, in whatever order the program drops its handles, what a live native object
\* uses has not been released.  An environment uses the logger it was made with; the
\* one in force in the process may be another's, and is exempt: LoggerOutlivesCalls.
NoDanglingUse == \A i \in Ids : Alive(i) => \A u \in heap[i].uses : Alive(u)

\* The logger of UserLogger is freed only when the engine can no longer call it: as
\* long as an environment lives, so does the logger whose function is in force.
LoggerOutlivesCalls == \A i \in Ids : Alive(i) => \A l \in heap[i].calls : Alive(l)

\* A native object is released once: never after it was moved into another one or
\* released, and never while someone still holds it.
ReleasesAreSingle ==
    dropping # <<>> /\ Head(dropping).do = "release" =>
        LET i == Head(dropping).of
        IN i \in Objects /\ heap[i].native # "moved" /\ Strong(heap, dropping, i) = 0

\* No native object is orphaned: a handle, a guard chain from a handle or the
\* drop in progress still leads to it.  So no error path and no cycle of guards
\* loses one, but for the paths that the actions mark as leaks.
NoOrphan ==
    \A i \in Ids : Alive(i) =>
        i \in Reach({j \in Objects : heap[j].handles > 0}
                        \cup {dropping[k].of : k \in DOMAIN dropping}, GuardsOf)

\* Objects that point to each other, directly or not, belong to one environment.
OneEnvironment ==
    \A i \in Ids : Alive(i) =>
        Cardinality({e \in Reach({i}, UsesOf) : heap[e].kind = "env"}) <= 1
=============================================================================
