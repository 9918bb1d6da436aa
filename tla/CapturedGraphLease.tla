------------------------- MODULE CapturedGraphLease -------------------------
(***************************************************************************)
(* The lease of one captured CUDA graph (session.rs): runs of the graph    *)
(* hold a CapturedGraphRunGuard, and Session::release_captured_graph must  *)
(* not call the provider while a guard is alive.  The lease is one atomic  *)
(* word (high bit: a release is in progress, low bits: number of guards),  *)
(* a mutex and a condition variable.  One action is one atomic access, one *)
(* lock acquisition or one critical-section exit.                          *)
(***************************************************************************)
EXTENDS Integers, FiniteSets

CONSTANTS Runners,                  \* threads that call begin_run
          Releasers,                \* threads that call release_captured_graph
          NoThread,                 \* nobody holds wait_lock
          GRAPH_LEASE_ACTIVE_MASK   \* 2^63 - 1 in a 64-bit build

ASSUME ThreadsAssumption ==
    /\ IsFiniteSet(Runners)
    /\ Runners \cap Releasers = {}
    /\ NoThread \notin Runners \cup Releasers

ASSUME MaskAssumption == GRAPH_LEASE_ACTIVE_MASK \in Nat \ {0}

Threads == Runners \cup Releasers

GRAPH_LEASE_RELEASING == GRAPH_LEASE_ACTIVE_MASK + 1

VARIABLES state,      \* the AtomicUsize
          wait_lock,  \* owner of the mutex, or NoThread
          wait_cv,    \* threads inside wait_cv.wait that nobody has notified
          leaked,     \* number of guards that will never be dropped
          pc,         \* where each thread stands
          seen        \* each thread's local copy of the word (current / previous)

vars == <<state, wait_lock, wait_cv, leaked, pc, seen>>

Word == 0 .. (2 * GRAPH_LEASE_ACTIVE_MASK + 1)

\* word & GRAPH_LEASE_RELEASING # 0
IsReleasing(w) == w >= GRAPH_LEASE_RELEASING

\* word & GRAPH_LEASE_ACTIVE_MASK
Active(w) == IF IsReleasing(w) THEN w - GRAPH_LEASE_RELEASING ELSE w

(***************************************************************************)
(* Program counters.  idle: outside the lease.  load / cas: the loop of    *)
(* begin_run and of begin_release.  lock_end, check_end, sleep_end,        *)
(* wait_end: blocked on a release in progress.  running: a guard is alive. *)
(* drop_cas, notify_lock, notify: Drop of the guard.                       *)
(* lock_drain, check_drain, sleep_drain, wait_drain: begin_release after   *)
(* its CAS.  native: the provider call, and waiting for the lock after it. *)
(* store, notify_end: end_release.                                         *)
(***************************************************************************)
EntryPC == {"idle", "load", "cas", "lock_end", "check_end", "sleep_end", "wait_end"}
RunnerPC == EntryPC \cup {"running", "drop_cas", "notify_lock", "notify"}
DrainPC == {"lock_drain", "check_drain", "sleep_drain", "wait_drain"}
NativePC == {"native", "store"}
ReleaserPC == EntryPC \cup DrainPC \cup NativePC \cup {"notify_end"}

\* The threads that will drop a live guard.
Holders == {t \in Runners : pc[t] \in {"running", "drop_cas"}}

\* The releasers between the CAS that sets the high bit and the store that clears it.
ReleaseOwners == {r \in Releasers : pc[r] \in DrainPC \cup NativePC}

Init ==
    /\ state = 0
    /\ wait_lock = NoThread
    /\ wait_cv = {}
    /\ leaked = 0
    /\ pc = [t \in Threads |-> "idle"]
    /\ seen = [t \in Threads |-> 0]

Goto(t, from, to) ==
    /\ pc[t] = from
    /\ pc' = [pc EXCEPT ![t] = to]

\* The thread's copy of the word goes out of scope.
Forget(t) == seen' = [seen EXCEPT ![t] = 0]

\* Block until wait_lock is free and take it.
Lock(t, from, to) ==
    /\ Goto(t, from, to)
    /\ wait_lock = NoThread
    /\ wait_lock' = t
    /\ UNCHANGED <<state, wait_cv, leaked, seen>>

\* wait_cv.wait returns: the thread was notified and takes the mutex again.
Reacquire(t, from, to) ==
    /\ t \notin wait_cv
    /\ Lock(t, from, to)

\* A step that only moves the thread on.
Keep(t, from, to) ==
    /\ Goto(t, from, to)
    /\ UNCHANGED <<state, wait_lock, wait_cv, leaked, seen>>

\* Sleep on wait_cv while holding the mutex, which the wait releases.
Sleep(t, from, to) ==
    /\ Goto(t, from, to)
    /\ wait_cv' = wait_cv \cup {t}
    /\ wait_lock' = NoThread
    /\ UNCHANGED <<state, leaked, seen>>

\* Leave the critical section.
Unlock(t, from, to) ==
    /\ Goto(t, from, to)
    /\ wait_lock' = NoThread
    /\ UNCHANGED <<state, wait_cv, leaked, seen>>

\* notify_all, then leave the critical section.
NotifyAll(t, from, to) ==
    /\ Goto(t, from, to)
    /\ wait_cv' = {}
    /\ wait_lock' = NoThread
    /\ UNCHANGED <<state, leaked, seen>>

(***************************************************************************)
(* The common part of begin_run and begin_release                          *)
(***************************************************************************)
\* A lane or the runtime enters begin_run or release_captured_graph.
Call(t) == Keep(t, "idle", "load")

LoadFree(t) ==
    /\ ~IsReleasing(state)
    /\ t \in Runners => state < GRAPH_LEASE_ACTIVE_MASK
    /\ Goto(t, "load", "cas")
    /\ seen' = [seen EXCEPT ![t] = state]
    /\ UNCHANGED <<state, wait_lock, wait_cv, leaked>>

LoadReleasing(t) ==
    /\ IsReleasing(state)
    /\ Keep(t, "load", "lock_end")

\* assert!(current < GRAPH_LEASE_ACTIVE_MASK) panics out of begin_run.
LoadPanics(t) ==
    /\ t \in Runners
    /\ ~IsReleasing(state)
    /\ state >= GRAPH_LEASE_ACTIVE_MASK
    /\ Keep(t, "load", "idle")

AwaitEndOfRelease(t) ==
    \/ Lock(t, "lock_end", "check_end")
    \/ Reacquire(t, "wait_end", "check_end")
    \/ IsReleasing(state) /\ Keep(t, "check_end", "sleep_end")
    \/ Sleep(t, "sleep_end", "wait_end")
    \/ ~IsReleasing(state) /\ Unlock(t, "check_end", "load")

\* compare_exchange_weak fails, spuriously or because the word has changed.
CasFails(t) ==
    /\ Goto(t, "cas", "load")
    /\ Forget(t)
    /\ UNCHANGED <<state, wait_lock, wait_cv, leaked>>

(***************************************************************************)
(* CapturedGraphLease::begin_run and Drop for CapturedGraphRunGuard        *)
(***************************************************************************)
\* Mutant: a fetch_add instead of the compare-exchange.
RunFetchAdd(t) ==
    /\ Goto(t, "cas", "running")
    /\ state' = state + 1
    /\ Forget(t)
    /\ UNCHANGED <<wait_lock, wait_cv, leaked>>

RunCas(t) ==
    /\ state = seen[t]
    /\ Goto(t, "cas", "running")
    /\ state' = seen[t] + 1
    /\ Forget(t)
    /\ UNCHANGED <<wait_lock, wait_cv, leaked>>

\* The lane that holds the guard is forgotten: the guard is never dropped.
Leak(t) ==
    /\ Goto(t, "running", "idle")
    /\ leaked' = leaked + 1
    /\ UNCHANGED <<state, wait_lock, wait_cv, seen>>

(* The run has completed and the guard is dropped, which starts by loading the
   word.  A guard that finds zero active runs reports it and leaves it alone. *)
DropLoad(t) ==
    /\ Goto(t, "running", IF Active(state) = 0 THEN "idle" ELSE "drop_cas")
    /\ seen' = [seen EXCEPT ![t] = state]
    /\ UNCHANGED <<state, wait_lock, wait_cv, leaked>>

DropCasFails(t) ==
    /\ Goto(t, "drop_cas", IF Active(state) = 0 THEN "idle" ELSE "drop_cas")
    /\ seen' = [seen EXCEPT ![t] = state]
    /\ UNCHANGED <<state, wait_lock, wait_cv, leaked>>

\* Mutant: a plain store of the decremented copy.
DropStore(t) ==
    /\ Goto(t, "drop_cas", IF IsReleasing(seen[t]) /\ Active(seen[t]) = 1
                           THEN "notify_lock" ELSE "idle")
    /\ state' = seen[t] - 1
    /\ Forget(t)
    /\ UNCHANGED <<wait_lock, wait_cv, leaked>>

\* The last guard under a release wakes the releaser.
DropCas(t) ==
    /\ state = seen[t]
    /\ Goto(t, "drop_cas", IF IsReleasing(seen[t]) /\ Active(seen[t]) = 1
                           THEN "notify_lock" ELSE "idle")
    /\ state' = seen[t] - 1
    /\ Forget(t)
    /\ UNCHANGED <<wait_lock, wait_cv, leaked>>

\* Mutant: the last guard notifies without taking wait_lock.
DropNotifyUnlocked(t) ==
    /\ Goto(t, "notify_lock", "idle")
    /\ wait_cv' = {}
    /\ UNCHANGED <<state, wait_lock, leaked, seen>>

DropNotify(t) ==
    \/ Lock(t, "notify_lock", "notify")
    \/ NotifyAll(t, "notify", "idle")

(***************************************************************************)
(* Session::release_captured_graph: begin_release, provider, end_release   *)
(***************************************************************************)
ReleaseCas(r) ==
    /\ state = seen[r]
    /\ Goto(r, "cas", "lock_drain")
    /\ state' = seen[r] + GRAPH_LEASE_RELEASING
    /\ Forget(r)
    /\ UNCHANGED <<wait_lock, wait_cv, leaked>>

\* Mutant: an if instead of a while around the wait.
AwaitDrainedOnce(r) ==
    \/ Lock(r, "lock_drain", "check_drain")
    \/ r \notin wait_cv /\ Keep(r, "wait_drain", "native")
    \/ Active(state) # 0 /\ Keep(r, "check_drain", "sleep_drain")
    \/ Sleep(r, "sleep_drain", "wait_drain")
    \/ Active(state) = 0 /\ Unlock(r, "check_drain", "native")

AwaitDrained(r) ==
    \/ Lock(r, "lock_drain", "check_drain")
    \/ Reacquire(r, "wait_drain", "check_drain")
    \/ Active(state) # 0 /\ Keep(r, "check_drain", "sleep_drain")
    \/ Sleep(r, "sleep_drain", "wait_drain")
    \/ Active(state) = 0 /\ Unlock(r, "check_drain", "native")

\* state.store(0), inside the critical section of end_release.
StoreZero(r) ==
    /\ Goto(r, "store", "notify_end")
    /\ state' = 0
    /\ UNCHANGED <<wait_lock, wait_cv, leaked, seen>>

\* Mutant: notify_one instead of notify_all.
EndReleaseNotifiesOne(r) ==
    \/ Lock(r, "native", "store")
    \/ StoreZero(r)
    \/ /\ Goto(r, "notify_end", "idle")
       /\ \E woken \in SUBSET wait_cv :
             /\ Cardinality(woken) = IF wait_cv = {} THEN 0 ELSE 1
             /\ wait_cv' = wait_cv \ woken
       /\ wait_lock' = NoThread
       /\ UNCHANGED <<state, leaked, seen>>

(* session_release_captured_graph returns, with success or an error, and
   end_release takes the lock, clears the word and wakes everybody. *)
EndRelease(r) ==
    \/ Lock(r, "native", "store")
    \/ StoreZero(r)
    \/ NotifyAll(r, "notify_end", "idle")

(***************************************************************************)
(* Specification                                                           *)
(***************************************************************************)
\* A condition variable may wake a waiter that nobody notified.
SpuriousWakeup(t) ==
    /\ t \in wait_cv
    /\ wait_cv' = wait_cv \ {t}
    /\ UNCHANGED <<state, wait_lock, leaked, pc, seen>>

RunnerStep(t) ==
    \/ LoadFree(t) \/ LoadReleasing(t) \/ LoadPanics(t)
    \/ AwaitEndOfRelease(t)
    \/ CasFails(t) \/ RunCas(t)
    \/ DropLoad(t) \/ DropCasFails(t) \/ DropCas(t) \/ DropNotify(t)

ReleaserStep(r) ==
    \/ LoadFree(r) \/ LoadReleasing(r)
    \/ AwaitEndOfRelease(r)
    \/ CasFails(r) \/ ReleaseCas(r)
    \/ AwaitDrained(r) \/ EndRelease(r)

Next ==
    \/ \E t \in Threads : Call(t) \/ SpuriousWakeup(t)
    \/ \E t \in Runners : RunnerStep(t) \/ Leak(t)
    \/ \E r \in Releasers : ReleaserStep(r)

Spec == Init /\ [][Next]_vars

Step(t) == IF t \in Runners THEN RunnerStep(t) ELSE ReleaserStep(t)

(***************************************************************************)
(* Threads are scheduled, and a run that does not leak its guard ends.  A  *)
(* contended mutex and a compare-exchange of a guard's Drop do not starve  *)
(* a thread for ever.  Nobody has to call the lease, to leak a guard, or   *)
(* to be woken without a notification; begin_run and begin_release may     *)
(* lose their compare-exchange for ever.                                   *)
(***************************************************************************)
Fairness ==
    /\ \A t \in Threads : WF_vars(Step(t)) /\ SF_vars(Step(t) /\ wait_lock' = t)
    /\ \A t \in Runners : SF_vars(DropCas(t))

FairSpec == Spec /\ Fairness

(***************************************************************************)
(* Properties                                                              *)
(***************************************************************************)
\* The word keeps its width, and every thread is at a line of its function.
TypeOK ==
    /\ state \in Word
    /\ wait_lock \in Threads \cup {NoThread}
    /\ wait_cv \subseteq Threads
    /\ leaked \in Nat
    /\ pc \in [Threads -> RunnerPC \cup ReleaserPC]
    /\ \A t \in Runners : pc[t] \in RunnerPC
    /\ \A r \in Releasers : pc[r] \in ReleaserPC
    /\ seen \in [Threads -> Word]

\* While the provider releases the graph no run guard is alive, leaked ones
\* included, and no other release is in progress (release_captured_graph).
NoRunDuringNativeRelease ==
    \A r \in Releasers :
        pc[r] \in NativePC => Holders = {} /\ leaked = 0 /\ ReleaseOwners = {r}

\* The packed word is exact at every interleaving of the compare-exchanges:
\* its low bits count the live guards and its high bit says that a release
\* is between its compare-exchange and its store.  So the "zero active-run
\* accounting" branch of Drop and the debug_assert of end_release never fire,
\* and a full counter never carries into the high bit.
WordIsExact ==
    /\ Active(state) = Cardinality(Holders) + leaked
    /\ IsReleasing(state) <=> ReleaseOwners # {}

\* No wakeup is lost: a thread that sleeps on the condition variable still
\* waits for something, or the thread that will notify it is on its way.
NoLostWakeup ==
    \A t \in wait_cv :
        /\ pc[t] = "wait_end" =>
              IsReleasing(state) \/ \E r \in Releasers : pc[r] = "notify_end"
        /\ pc[t] = "wait_drain" =>
              Active(state) # 0 \/ \E u \in Runners : pc[u] \in {"notify_lock", "notify"}

GuardsAlive == Cardinality(Holders) + leaked
ReleaseOwner == IF ReleaseOwners = {} THEN NoThread ELSE CHOOSE r \in ReleaseOwners : TRUE
ProviderCalled == \E r \in Releasers : pc[r] \in NativePC

Abstract == INSTANCE ReleaseExclusion WITH
    running <- GuardsAlive, owner <- ReleaseOwner, native <- ProviderCalled

\* The lease implements the promise of release_captured_graph: a release waits
\* for the tracked runs of its graph, and none starts until it returns.
ImplementsReleaseExclusion == Abstract!Spec

ReleaseDrains ==
    (\E r \in Releasers : pc[r] \in DrainPC)
        ~> (leaked > 0 \/ \E r \in Releasers : pc[r] = "native")
BlockedRunsWake ==
    \A t \in Runners : (pc[t] = "wait_end") ~> (leaked > 0 \/ pc[t] = "check_end")

\* A release that has claimed the graph gets to call the provider, and a run blocked
\* behind it in begin_run is woken to look again, unless a guard was leaked
\* (begin_release then blocks for ever, as documented).  By NoRunDuringNativeRelease
\* the two existentials of ReleaseDrains speak of one releaser.
WaitersMakeProgress == ReleaseDrains /\ BlockedRunsWake
=============================================================================
