-------------------------- MODULE DynamicIoRuntime --------------------------
(***************************************************************************)
(* The shape-bucket cache of runtime.rs.  A bucket owns LaneCount lanes    *)
(* for one concrete shape; enqueue_prepared detaches a lane into an        *)
(* OwnedDynamicIoRun token, which another thread may complete or drop.  A  *)
(* dropped token leaves its lane in the recovery cell of that lane, and    *)
(* the runtime takes it back at the start of its next call.  Calls need    *)
(* &mut self, so one call is one action; a token dropped during a call is  *)
(* a token dropped after the reclaim that begins the call.  Lanes keep     *)
(* only whether provider work may be pending (module ServingLane), and the *)
(* order of the lanes in a bucket is left open.  hot_bucket is left out:   *)
(* it is compared with the key before it is used.                          *)
(***************************************************************************)
EXTENDS Naturals, Sequences, FiniteSets

CONSTANTS Keys,            \* concrete shapes
          None,            \* no graph, no index
          MaxBuckets,      \* options.max_buckets
          LaneCount,       \* lanes of a bucket
          MaxGeneration,   \* u32::MAX in the code
          MaxSlots,        \* slots a u32 can number
          MaxGraphs        \* gpu_graph_ids an i32 can number

ASSUME BoundsAssumption ==
    /\ MaxBuckets \in Nat \ {0} /\ LaneCount \in Nat \ {0}
    /\ MaxGeneration \in Nat \ {0} /\ MaxSlots \in Nat \ {0} /\ MaxGraphs \in Nat
\* Dimensions are machine integers.
ASSUME KeysAssumption == IsFiniteSet(Keys)
ASSUME NoneAssumption == None \notin Nat

VARIABLES cuda_graph,      \* options.cuda_graph
          shape_plan,      \* the set of planned shapes, as an option: {} or {plan}
          buckets,         \* Vec of buckets: key, id, graph, idle and busy lanes, detached
          lru,             \* keys by last_used, oldest first
          prepared_slots,  \* Vec of [generation, index]
          free_prepared_slots,
          next_graph,      \* graph ids allocated so far
          retired,         \* buckets waiting for the release of their graph
          released,        \* graphs the provider was asked to release
          tokens,          \* the OwnedDynamicIoRuns
          recovered,       \* filled recovery cells
          gone,            \* detached lanes that can never come back
          unfenced,        \* graphs with work that leaked without a fence
          issued,          \* history: every PreparedBucketId handed out
          alive            \* the runtime has not been dropped

slotVars == <<prepared_slots, free_prepared_slots>>
graphVars == <<next_graph, retired, released, unfenced>>
tokenVars == <<tokens, recovered, gone>>
vars == <<cuda_graph, shape_plan, buckets, lru, slotVars, graphVars, tokenVars, issued, alive>>

Ids == [slot : 1..MaxSlots, generation : 1..MaxGeneration]
Graphs == 1..MaxGraphs

\* A recovery slot per lane: slot * lane_count + lane_index; the runtime
\* preallocates max_buckets * lane_count of them.
CellsOf(slot) == {(slot - 1) * LaneCount + j : j \in 1..LaneCount}
RecoveryCells == 1..(MaxBuckets * LaneCount)

Init ==
    /\ cuda_graph \in BOOLEAN
    /\ shape_plan = {}
    /\ buckets = <<>> /\ lru = <<>>
    /\ prepared_slots = <<>> /\ free_prepared_slots = <<>>
    /\ next_graph = 0 /\ retired = {} /\ released = {} /\ unfenced = {}
    /\ tokens = {} /\ recovered = {} /\ gone = {}
    /\ issued = {}
    /\ alive = TRUE

(***************************************************************************)
(* The slot table behind PreparedBucketId                                  *)
(***************************************************************************)
\* The bucket an id resolves to, or None: the slot's generation must be the
\* id's, and the bucket at its index must carry the id.
prepared_bucket_index(id) ==
    IF /\ id.slot \in DOMAIN prepared_slots
       /\ prepared_slots[id.slot].generation = id.generation
       /\ prepared_slots[id.slot].index \in DOMAIN buckets
       /\ buckets[prepared_slots[id.slot].index].id = id
    THEN prepared_slots[id.slot].index
    ELSE None

\* checked_add: a slot whose generation is exhausted is never used again.
RetireSlot(slots, slot) ==
    [slots EXCEPT ![slot] = [generation |-> IF @.generation < MaxGeneration
                                            THEN @.generation + 1 ELSE @.generation,
                             index |-> None]]

\* Mutant: an exhausted slot is pushed as well.
AlwaysRecycled(slot) == TRUE
Recycled(slot) == prepared_slots[slot].generation < MaxGeneration

\* Mutant: the bucket that swap_remove moved keeps its old index.
RepairNothing(slots, bs, start) == slots

repair_prepared_bucket_indices_from(slots, bs, start) ==
    [s \in DOMAIN slots |->
        IF \E i \in start..Len(bs) : bs[i].id = [slot |-> s, generation |-> slots[s].generation]
        THEN [slots[s] EXCEPT !.index =
                CHOOSE i \in start..Len(bs) : bs[i].id = [slot |-> s, generation |-> slots[s].generation]]
        ELSE slots[s]]

\* Vec::swap_remove.
SwapRemove(s, i) ==
    [j \in 1..(Len(s) - 1) |-> IF j = i THEN s[Len(s)] ELSE s[j]]

(* A runtime's tables: what a call reads and writes of them. *)
Tables(bs) == [buckets |-> bs, lru |-> lru, slots |-> prepared_slots, free |-> free_prepared_slots]

SetTables(t) ==
    /\ buckets' = t.buckets
    /\ lru' = t.lru
    /\ prepared_slots' = t.slots
    /\ free_prepared_slots' = t.free

\* The keys without k, which is among them.
Without(keys, k) ==
    LET p == CHOOSE n \in DOMAIN keys : keys[n] = k
    IN  [n \in 1..(Len(keys) - 1) |-> IF n < p THEN keys[n] ELSE keys[n + 1]]

\* retire_prepared_bucket_id, swap_remove and the repair of the indices.
Retired(t, i) ==
    LET slot == t.buckets[i].id.slot
        bs == SwapRemove(t.buckets, i)
    IN  [buckets |-> bs,
         lru |-> Without(t.lru, t.buckets[i].key),
         slots |-> repair_prepared_bucket_indices_from(RetireSlot(t.slots, slot), bs, i),
         free |-> IF Recycled(slot) THEN Append(t.free, slot) ELSE t.free]

\* The free list once the slot of every bucket was retired, in the order of the buckets.
FreedSlots(bs) ==
    LET F[n \in 0..Len(bs)] ==
            IF n = 0 THEN free_prepared_slots
            ELSE IF Recycled(bs[n].id.slot) THEN Append(F[n - 1], bs[n].id.slot) ELSE F[n - 1]
    IN  F[Len(bs)]

\* allocate_prepared_bucket_id takes the newest free slot, or a new one.
CanAllocate(t) == t.free # <<>> \/ Len(t.slots) < MaxSlots

Allocated(t) ==
    IF t.free # <<>>
    THEN LET s == t.free[Len(t.free)]
         IN  [id |-> [slot |-> s, generation |-> t.slots[s].generation],
              slots |-> [t.slots EXCEPT ![s].index = Len(t.buckets) + 1],
              free |-> SubSeq(t.free, 1, Len(t.free) - 1)]
    ELSE [id |-> [slot |-> Len(t.slots) + 1, generation |-> 1],
          slots |-> Append(t.slots, [generation |-> 1, index |-> Len(t.buckets) + 1]),
          free |-> t.free]

(***************************************************************************)
(* Detached lanes                                                          *)
(***************************************************************************)
\* Mutant: the reclaimed lane stays counted as detached.
ReclaimKeepsCount ==
    [i \in DOMAIN buckets |->
        [buckets[i] EXCEPT !.idle = @ \cup {r.cell : r \in {x \in recovered : prepared_bucket_index(x.id) = i}}]]

(* reclaim_dropped_runs_inner: every recovered lane goes back to its bucket.  The
   lanes the code would leak here (bucket gone, or count already zero) do not
   exist: OwnedRunsKeepTheirBucket and LanesAreConserved. *)
Reclaimed ==
    [i \in DOMAIN buckets |->
        LET back == {r.cell : r \in {x \in recovered : prepared_bucket_index(x.id) = i}}
        IN  [buckets[i] EXCEPT !.idle = @ \cup back, !.detached = @ - Cardinality(back)]]

\* return_detached_lane of a settled lane.
Returned(bs, i, cell) ==
    [bs EXCEPT ![i].idle = @ \cup {cell}, ![i].detached = @ - 1]

\* Lanes that may still have provider work pending, as far as the buckets know.
AnyInFlight(bs) == \E i \in DOMAIN bs : bs[i].detached > 0 \/ bs[i].busy # {}

(***************************************************************************)
(* The cache                                                               *)
(***************************************************************************)
\* Mutant: a plan larger than the cache is installed.
InstallAnyPlan(p) ==
    /\ alive
    /\ buckets = <<>> /\ retired = {}
    /\ shape_plan' = {p}
    /\ UNCHANGED <<cuda_graph, buckets, lru, slotVars, graphVars, tokenVars, issued, alive>>

\* install_shape_plan.
install_shape_plan(p) ==
    /\ alive
    /\ buckets = <<>> /\ retired = {}
    /\ Cardinality(p) <= MaxBuckets
    /\ shape_plan' = {p}
    /\ UNCHANGED <<cuda_graph, buckets, lru, slotVars, graphVars, tokenVars, issued, alive>>

\* validate_planned_shape: a CUDA-graph runtime needs a plan, and the plan is binding.
Permitted(k) == IF shape_plan = {} THEN ~cuda_graph ELSE k \in UNION shape_plan

\* Mutant: a bucket with owned runs can be evicted.
EvictAny(bs) == DOMAIN bs
Evictable(bs) == {i \in DOMAIN bs : bs[i].detached = 0}
\* min_by_key(last_used) over the buckets without owned runs.
LastUsed(k) == CHOOSE n \in DOMAIN lru : lru[n] = k
Oldest(bs) == CHOOSE i \in Evictable(bs) : \A j \in Evictable(bs) : LastUsed(bs[i].key) <= LastUsed(bs[j].key)

(* evict_one_bucket_if_full.  A CUDA-graph runtime refuses instead.  The bucket's
   lanes are dropped, or leaked when one of them cannot be fenced. *)
CanMakeRoom(bs) == Len(bs) < MaxBuckets \/ (~cuda_graph /\ Evictable(bs) # {})
WithRoom(t) == IF Len(t.buckets) < MaxBuckets THEN t ELSE Retired(t, Oldest(t.buckets))

\* The new bucket, reachable only after every lane of a graph bucket has captured.
Created(t, k, g) ==
    LET a == Allocated(t)
    IN  [buckets |-> Append(t.buckets, [key |-> k, id |-> a.id, graph |-> g,
                                        idle |-> CellsOf(a.id.slot), busy |-> {}, detached |-> 0]),
         lru |-> Append(t.lru, k),
         slots |-> a.slots,
         free |-> a.free]

NewGraph == IF cuda_graph THEN next_graph + 1 ELSE None

CreateSucceeds(t, k) ==
    /\ CanAllocate(t)
    /\ cuda_graph => next_graph < MaxGraphs
    /\ SetTables(Created(t, k, NewGraph))
    /\ issued' = issued \cup {Allocated(t).id}
    /\ next_graph' = IF cuda_graph THEN next_graph + 1 ELSE next_graph
    /\ UNCHANGED unfenced

(* Building the lanes, the graph id, an eager capture or the slot allocation
   fails: the evicted bucket stays evicted, the graph id stays used, and a lane
   whose capture could not be fenced is leaked. *)
CreateFails(t) ==
    /\ SetTables(t)
    /\ \/ UNCHANGED <<next_graph, unfenced>>
       \/ /\ cuda_graph /\ next_graph < MaxGraphs
          /\ next_graph' = next_graph + 1
          /\ unfenced' \in {unfenced, unfenced \cup {next_graph + 1}}
    /\ UNCHANGED issued

Refused(bs, allow_create) ==
    \/ ~allow_create
    \/ cuda_graph /\ AnyInFlight(bs)
    \/ ~CanMakeRoom(bs)

(* get_or_create_bucket_inner, with allow_create from strict_shape_cache or from
   the prebuild and warm calls. *)
get_or_create_bucket(k, allow_create) ==
    /\ alive
    /\ recovered' = {}
    /\ LET bs == Reclaimed
           hit == \E i \in DOMAIN bs : bs[i].key = k
       IN  \/ /\ ~Permitted(k)
              /\ SetTables(Tables(bs))
              /\ UNCHANGED <<next_graph, retired, unfenced, issued>>
           \/ /\ Permitted(k)
              /\ retired' = {r \in retired : ~r.done}
              /\ \/ /\ hit
                    /\ SetTables([Tables(bs) EXCEPT !.lru = Append(Without(lru, k), k)])
                    /\ UNCHANGED <<next_graph, unfenced, issued>>
                 \/ /\ ~hit /\ Refused(bs, allow_create)
                    /\ SetTables(Tables(bs))
                    /\ UNCHANGED <<next_graph, unfenced, issued>>
                 \/ /\ ~hit /\ ~Refused(bs, allow_create)
                    /\ \/ CreateSucceeds(WithRoom(Tables(bs)), k)
                       \/ CreateFails(WithRoom(Tables(bs)))
    /\ UNCHANGED <<cuda_graph, shape_plan, released, tokens, gone, alive>>

(* bucket_mut and run_on on a cached bucket: the caller leaves a lane in flight
   (run_enqueued), or settles one. *)
run_on(k, cell) ==
    /\ alive
    /\ recovered' = {}
    /\ \E i \in DOMAIN buckets :
          /\ buckets[i].key = k
          /\ LET b == Reclaimed[i]
             IN  \/ /\ cell \in b.idle
                    /\ buckets' = [Reclaimed EXCEPT ![i].idle = @ \ {cell}, ![i].busy = @ \cup {cell}]
                 \/ /\ cell \in b.busy
                    /\ buckets' = [Reclaimed EXCEPT ![i].idle = @ \cup {cell}, ![i].busy = @ \ {cell}]
    /\ lru' = Append(Without(lru, k), k)
    /\ UNCHANGED <<cuda_graph, shape_plan, slotVars, graphVars, tokens, gone, issued, alive>>

(* retire_bucket_at under remove_bucket: every lane in flight is fenced.  If one
   cannot be, the bucket leaks and its graph is not released. *)
remove_bucket(k) ==
    /\ alive
    /\ recovered' = {}
    /\ \E i \in DOMAIN buckets :
          /\ buckets[i].key = k
          /\ LET b == Reclaimed[i]
             IN  \/ /\ b.detached # 0
                    /\ SetTables(Tables(Reclaimed))
                    /\ UNCHANGED <<retired, released, unfenced>>
                 \/ /\ b.detached = 0
                    /\ SetTables(Retired(Tables(Reclaimed), i))
                    /\ \/ /\ b.graph # None
                          /\ released' = released \cup {b.graph}
                          /\ retired' = retired \cup {[graph |-> b.graph, done |-> FALSE]}
                          /\ UNCHANGED unfenced
                       \/ b.graph = None /\ UNCHANGED <<retired, released, unfenced>>
                       \/ /\ b.graph # None /\ b.busy # {}
                          /\ unfenced' = unfenced \cup {b.graph}
                          /\ UNCHANGED <<retired, released>>
    /\ UNCHANGED <<cuda_graph, shape_plan, next_graph, tokens, gone, issued, alive>>

\* The release thread of a retired bucket finishes release_captured_graph.
ReleaseDone(r) ==
    /\ r \in retired /\ ~r.done
    /\ retired' = (retired \ {r}) \cup {[r EXCEPT !.done = TRUE]}
    /\ UNCHANGED <<cuda_graph, shape_plan, buckets, lru, slotVars, next_graph, released, unfenced,
                   tokenVars, issued, alive>>

(* drain_active_buckets_and_release_graphs: every bucket's id is retired; a bucket
   with a lane that cannot be fenced leaks; the graph of a bucket with owned runs
   is not released. *)
Drain(bs) ==
    /\ SetTables([buckets |-> <<>>,
                  lru |-> <<>>,
                  slots |-> [s \in DOMAIN prepared_slots |->
                                IF \E i \in DOMAIN bs : bs[i].id.slot = s
                                THEN RetireSlot(prepared_slots, s)[s] ELSE prepared_slots[s]],
                  free |-> FreedSlots(bs)])
    /\ \E leaked \in SUBSET {i \in DOMAIN bs : bs[i].busy # {}} :
          LET graphs(I) == {bs[i].graph : i \in I} \ {None}
          IN  /\ unfenced' = unfenced \cup graphs(leaked)
              /\ released' = released \cup graphs(Evictable(bs) \ leaked)

\* clear_buckets: refused while a lane is detached; waits for the release threads.
clear_buckets ==
    /\ alive
    /\ recovered' = {}
    /\ \/ /\ Evictable(Reclaimed) # DOMAIN buckets
          /\ SetTables(Tables(Reclaimed))
          /\ UNCHANGED <<retired, released, unfenced>>
       \/ /\ Evictable(Reclaimed) = DOMAIN buckets
          /\ \A r \in retired : r.done
          /\ retired' = {}
          /\ Drain(Reclaimed)
    /\ UNCHANGED <<cuda_graph, shape_plan, next_graph, tokens, gone, issued, alive>>

\* Drop for DynamicIoRuntime; tokens may outlive it.
drop ==
    /\ alive
    /\ alive' = FALSE
    /\ recovered' = {}
    /\ \A r \in retired : r.done
    /\ retired' = {}
    /\ Drain(Reclaimed)
    /\ UNCHANGED <<cuda_graph, shape_plan, next_graph, tokens, gone, issued>>

(***************************************************************************)
(* Owned runs                                                              *)
(***************************************************************************)
Leak(cell, id, graph, pending) ==
    /\ gone' = gone \cup {[cell |-> cell, id |-> id]}
    /\ unfenced' = IF pending /\ graph # None THEN unfenced \cup {graph} ELSE unfenced

(* enqueue_prepared with the lane `cell' popped from bucket i.  The closure
   prepare may settle the lane or leave it in flight, may fail and may
   panic; run_enqueued refuses a lane in flight and may fail. *)
Detach(i, cell) ==
    LET b == Reclaimed[i]
        popped == [Reclaimed EXCEPT ![i].idle = @ \ {cell}, ![i].busy = @ \ {cell}, ![i].detached = @ + 1]
        queued == [Reclaimed EXCEPT ![i].idle = @ \ {cell}, ![i].busy = @ \cup {cell}]
    IN  \* prepare failed: the lane goes back as the closure left it
        \/ buckets' \in {queued, Returned(popped, i, cell)} /\ UNCHANGED <<tokens, gone, unfenced>>
        \* the run is queued
        \/ /\ buckets' = popped
           /\ tokens' = tokens \cup {[cell |-> cell, id |-> b.id, graph |-> b.graph, busy |-> TRUE]}
           /\ UNCHANGED <<gone, unfenced>>
        \* the run failed, or the lane was still in flight, and a fence succeeded
        \/ buckets' = Returned(popped, i, cell) /\ UNCHANGED <<tokens, gone, unfenced>>
        \* no fence succeeded: the lane leaks and stays counted
        \/ buckets' = popped /\ Leak(cell, b.id, b.graph, TRUE) /\ UNCHANGED tokens
        \* prepare panicked: unwinding drops the lane, which stays counted
        \/ buckets' = popped /\ Leak(cell, b.id, b.graph, FALSE) /\ UNCHANGED tokens

\* enqueue_prepared, also at the end of enqueue_owned.
enqueue_prepared(id) ==
    /\ alive
    /\ recovered' = {}
    /\ LET i == prepared_bucket_index(id)
       IN  \/ /\ i = None \/ (i \in DOMAIN buckets /\ Reclaimed[i].idle \cup Reclaimed[i].busy = {})
              /\ buckets' = Reclaimed
              /\ UNCHANGED <<tokens, gone, unfenced>>
           \/ /\ i \in DOMAIN buckets
              /\ \E cell \in Reclaimed[i].idle \cup Reclaimed[i].busy : Detach(i, cell)
    /\ UNCHANGED <<cuda_graph, shape_plan, lru, slotVars, next_graph, retired, released, issued, alive>>

\* OwnedDynamicIoRun::try_complete (Ready), synchronize and poll_owned_runs.
token_settles(r) ==
    /\ r \in tokens /\ r.busy
    /\ tokens' = (tokens \ {r}) \cup {[r EXCEPT !.busy = FALSE]}
    /\ UNCHANGED <<cuda_graph, shape_plan, buckets, lru, slotVars, graphVars, recovered, gone,
                   issued, alive>>

(* Drop for OwnedDynamicIoRun, on any thread: a fenced lane is put into its
   recovery cell, or leaked when there is no such cell; an unfenced one leaks. *)
token_drop(r) ==
    /\ r \in tokens
    /\ tokens' = tokens \ {r}
    /\ \/ /\ r.cell \in RecoveryCells
          /\ recovered' = recovered \cup {[cell |-> r.cell, id |-> r.id]}
          /\ UNCHANGED <<gone, unfenced>>
       \/ /\ r.cell \notin RecoveryCells
          /\ Leak(r.cell, r.id, r.graph, FALSE)
          /\ UNCHANGED recovered
       \/ /\ r.busy
          /\ Leak(r.cell, r.id, r.graph, TRUE)
          /\ UNCHANGED recovered
    /\ UNCHANGED <<cuda_graph, shape_plan, buckets, lru, slotVars, next_graph, retired, released,
                   issued, alive>>

\* Mutant: the lane of a failed synchronization is handed back unfenced.
CompleteAlwaysReturns(r) ==
    /\ alive /\ r \in tokens
    /\ tokens' = tokens \ {r}
    /\ buckets' = Returned(buckets, prepared_bucket_index(r.id), r.cell)
    /\ unfenced' = IF r.busy /\ r.graph # None THEN unfenced \cup {r.graph} ELSE unfenced
    /\ UNCHANGED <<cuda_graph, shape_plan, lru, slotVars, next_graph, retired, released, recovered,
                   gone, issued, alive>>

(* complete_owned: the fenced lane returns to its bucket, an unfenced one leaks. *)
complete_owned(r) ==
    /\ alive /\ r \in tokens
    /\ tokens' = tokens \ {r}
    /\ \/ /\ buckets' = Returned(buckets, prepared_bucket_index(r.id), r.cell)
          /\ UNCHANGED <<gone, unfenced>>
       \/ /\ r.busy
          /\ Leak(r.cell, r.id, r.graph, TRUE)
          /\ UNCHANGED buckets
    /\ UNCHANGED <<cuda_graph, shape_plan, lru, slotVars, next_graph, retired, released, recovered,
                   issued, alive>>

Next ==
    \/ \E p \in SUBSET Keys \ {{}} : install_shape_plan(p)
    \/ \E k \in Keys, allow_create \in BOOLEAN : get_or_create_bucket(k, allow_create)
    \/ \E k \in Keys, cell \in 1..(MaxSlots * LaneCount) : run_on(k, cell)
    \/ \E k \in Keys : remove_bucket(k)
    \/ \E id \in issued : enqueue_prepared(id)
    \/ \E r \in retired : ReleaseDone(r)
    \/ \E r \in tokens : token_settles(r) \/ token_drop(r) \/ complete_owned(r)
    \/ clear_buckets
    \/ drop

Spec == Init /\ [][Next]_vars

(***************************************************************************)
(* Properties                                                              *)
(***************************************************************************)
CellsOutOf(id) ==
    {r.cell : r \in {x \in tokens : x.id = id}} \cup
    {r.cell : r \in {x \in recovered : x.id = id}} \cup
    {r.cell : r \in {x \in gone : x.id = id}}

\* The tables of the runtime have their types; counts never go below zero.
TypeOK ==
    /\ cuda_graph \in BOOLEAN
    /\ shape_plan \subseteq SUBSET Keys
    /\ buckets \in Seq([key : Keys, id : Ids, graph : Graphs \cup {None}, idle : SUBSET Nat,
                        busy : SUBSET Nat, detached : Nat])
    /\ Len(buckets) <= MaxBuckets
    /\ lru \in Seq(Keys)
    /\ prepared_slots \in Seq([generation : 1..MaxGeneration, index : Nat \cup {None}])
    /\ free_prepared_slots \in Seq(1..MaxSlots)
    /\ next_graph \in 0..MaxGraphs
    /\ retired \subseteq [graph : Graphs, done : BOOLEAN]
    /\ released \subseteq Graphs /\ unfenced \subseteq Graphs
    /\ tokens \subseteq [cell : Nat, id : Ids, graph : Graphs \cup {None}, busy : BOOLEAN]
    /\ recovered \subseteq [cell : Nat, id : Ids] /\ gone \subseteq [cell : Nat, id : Ids]
    /\ issued \subseteq Ids
    /\ alive \in BOOLEAN

\* After any sequence of creations, swap_removes and recycled slots, the slot
\* table finds every bucket by its id and only those, no shape is cached twice,
\* and the free list holds each reusable slot once.
SlotTableIsExact ==
    /\ \A i \in DOMAIN buckets : prepared_bucket_index(buckets[i].id) = i
    /\ \A i, j \in DOMAIN buckets : buckets[i].key = buckets[j].key => i = j
    /\ \A s \in DOMAIN prepared_slots :
          prepared_slots[s].index # None =>
              /\ prepared_slots[s].index \in DOMAIN buckets
              /\ buckets[prepared_slots[s].index].id.slot = s
    /\ \A n \in DOMAIN free_prepared_slots :
          /\ free_prepared_slots[n] \in DOMAIN prepared_slots
          /\ prepared_slots[free_prepared_slots[n]].index = None
    /\ \A m, n \in DOMAIN free_prepared_slots : free_prepared_slots[m] = free_prepared_slots[n] => m = n

\* Every lane of a bucket is in exactly one place (the bucket, a token, its
\* recovery cell, or leaked), and the detached count is exact.  So a lane is
\* never given out twice, and a recovery cell is never filled twice.
LanesAreConserved ==
    \A i \in DOMAIN buckets :
        LET b == buckets[i]
        IN  /\ b.idle \cup b.busy \cup CellsOutOf(b.id) = CellsOf(b.id.slot)
            /\ b.idle \cap b.busy = {}
            /\ (b.idle \cup b.busy) \cap CellsOutOf(b.id) = {}
            /\ b.detached = Cardinality(CellsOutOf(b.id))
            /\ b.detached = Cardinality({r \in tokens : r.id = b.id}) +
                            Cardinality({r \in recovered : r.id = b.id}) +
                            Cardinality({r \in gone : r.id = b.id})

\* While the runtime lives, no eviction, removal or clear takes the bucket away
\* from an owned run or from a lane waiting in its recovery cell.
OwnedRunsKeepTheirBucket ==
    alive => \A r \in tokens \cup recovered : prepared_bucket_index(r.id) # None

\* A graph is released only when nothing can be replaying it: no lane in flight
\* at home or in a token, and no leaked pending work.  So release_captured_graph
\* never waits for a guard, and wait_for_retired_buckets ends.
ReleasedGraphIsQuiet ==
    \A g \in released :
        /\ g \notin unfenced
        /\ \A r \in tokens : r.graph # g
        /\ \A i \in DOMAIN buckets : buckets[i].graph # g

\* A PreparedBucketId is issued once, also when generations run out: a stale
\* handle never names a later bucket.
IdsAreNeverReissued ==
    [][\A i \in DOMAIN buckets' :
          (\A j \in DOMAIN buckets : buckets[j].id # buckets'[i].id) => buckets'[i].id \notin issued]_vars

CachedShapes == {buckets[i].key : i \in DOMAIN buckets}

\* While a shape plan is installed, looking a shape up never evicts another: the plan
\* fits the cache, so a planned shape, once built, stays although later builds and
\* captures fail after the victim would have been chosen.
PlannedShapesAreNeverEvicted ==
    [][shape_plan # {} =>
          \/ CachedShapes \subseteq CachedShapes'
          \/ ~\E k \in Keys, create \in BOOLEAN : get_or_create_bucket(k, create)]_vars
=============================================================================
