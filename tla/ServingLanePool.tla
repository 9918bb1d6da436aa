-------------------------- MODULE ServingLanePool --------------------------
(***************************************************************************)
(* ServingLanePool and its guard (runtime.rs): prebuilt lanes handed out   *)
(* to threads over one mutex and one condition variable.  A lock           *)
(* acquisition and the rest of its critical section are separate steps.    *)
(* The holder uses the lane as module ServingLane describes; of the lane   *)
(* only in_flight matters here.  A thread stands for the user of one       *)
(* guard: somebody who holds several guards is several threads.            *)
(***************************************************************************)
EXTENDS Naturals, Sequences, FiniteSets

CONSTANTS Threads, Lanes,
          None       \* no thread, no lane

ASSUME PoolAssumption ==
    /\ IsFiniteSet(Threads) /\ IsFiniteSet(Lanes) /\ Lanes # {}
    /\ None \notin Threads \cup Lanes

VARIABLES idle,        \* Mutex<Vec<ServingLane>>: a stack
          lock,        \* owner of the mutex, or None
          cv,          \* threads inside cv.wait that nobody has notified
          pc,          \* where each thread stands
          guard,       \* lane of the thread's ServingLanePoolGuard, or None
          in_flight    \* lanes with provider work that was not fenced

poolVars == <<idle, lock, cv>>
vars == <<poolVars, pc, guard, in_flight>>

Init ==
    /\ idle \in [1..Cardinality(Lanes) -> Lanes]
    /\ \A i, j \in DOMAIN idle : idle[i] = idle[j] => i = j
    /\ \A l \in Lanes : \E i \in DOMAIN idle : idle[i] = l
    /\ lock = None /\ cv = {}
    /\ pc = [t \in Threads |-> "out"]
    /\ guard = [t \in Threads |-> None]
    /\ in_flight = {}

(***************************************************************************)
(* Checkout                                                                *)
(***************************************************************************)
\* Mutex::lock; a poisoned mutex is entered all the same.
Lock(t, from, to) ==
    /\ pc[t] = from
    /\ lock = None
    /\ lock' = t
    /\ pc' = [pc EXCEPT ![t] = to]
    /\ UNCHANGED <<idle, cv, guard, in_flight>>

Popped == SubSeq(idle, 1, Len(idle) - 1)

\* Mutant: the lane is handed out but stays in the list (last() for pop()).
PopKeepsLane(t) ==
    /\ pc[t] = "check" /\ idle # <<>>
    /\ guard' = [guard EXCEPT ![t] = idle[Len(idle)]]
    /\ lock' = None
    /\ pc' = [pc EXCEPT ![t] = "hold"]
    /\ UNCHANGED <<idle, cv, in_flight>>

Pop(t) ==
    /\ pc[t] = "check" /\ idle # <<>>
    /\ guard' = [guard EXCEPT ![t] = idle[Len(idle)]]
    /\ idle' = Popped
    /\ lock' = None
    /\ pc' = [pc EXCEPT ![t] = "hold"]
    /\ UNCHANGED <<cv, in_flight>>

\* cv.wait gives up the mutex and sleeps in one step.
Wait(t) ==
    /\ pc[t] = "check" /\ idle = <<>>
    /\ cv' = cv \cup {t}
    /\ lock' = None
    /\ pc' = [pc EXCEPT ![t] = "wait"]
    /\ UNCHANGED <<idle, guard, in_flight>>

Wake(t) == t \notin cv /\ Lock(t, "wait", "check")

SpuriousWakeup(t) ==
    /\ t \in cv
    /\ cv' = cv \ {t}
    /\ UNCHANGED <<idle, lock, pc, guard, in_flight>>

checkout(t) ==
    /\ pc[t] = "out"
    /\ pc' = [pc EXCEPT ![t] = "lock"]
    /\ UNCHANGED <<poolVars, guard, in_flight>>

\* try_checkout that finds a lane; one that finds none changes nothing.
try_checkout(t) ==
    /\ pc[t] = "out"
    /\ lock = None /\ idle # <<>>
    /\ guard' = [guard EXCEPT ![t] = idle[Len(idle)]]
    /\ idle' = Popped
    /\ pc' = [pc EXCEPT ![t] = "hold"]
    /\ UNCHANGED <<lock, cv, in_flight>>

(***************************************************************************)
(* The holder of a guard                                                   *)
(***************************************************************************)
\* run_enqueued, or a run that failed and could not be fenced.
run_enqueued(t) ==
    /\ pc[t] = "hold" /\ guard[t] \notin in_flight
    /\ in_flight' = in_flight \cup {guard[t]}
    /\ UNCHANGED <<poolVars, pc, guard>>

synchronize_outputs(t) ==
    /\ pc[t] = "hold" /\ guard[t] \in in_flight
    /\ in_flight' = in_flight \ {guard[t]}
    /\ UNCHANGED <<poolVars, pc, guard>>

(***************************************************************************)
(* Drop for ServingLanePoolGuard                                           *)
(***************************************************************************)
\* finish_in_flight_best_effort fences the lane, or leaves it in flight.
drop(t) ==
    /\ pc[t] = "hold"
    /\ in_flight' \in {in_flight, in_flight \ {guard[t]}}
    /\ pc' = [pc EXCEPT ![t] = "relock"]
    /\ UNCHANGED <<poolVars, guard>>

\* Condvar::notify_one.
NotifyOne == IF cv = {} THEN cv' = cv ELSE \E w \in cv : cv' = cv \ {w}

\* Mutant: the guard notifies only when the list was empty.
PushNotifiesOnce(t) ==
    /\ pc[t] = "push"
    /\ idle' = Append(idle, guard[t])
    /\ IF idle = <<>> THEN NotifyOne ELSE cv' = cv
    /\ guard' = [guard EXCEPT ![t] = None]
    /\ lock' = None
    /\ pc' = [pc EXCEPT ![t] = "out"]
    /\ UNCHANGED in_flight

\* idle.push, notify_one, and the end of the critical section.
Push(t) ==
    /\ pc[t] = "push"
    /\ idle' = Append(idle, guard[t])
    /\ NotifyOne
    /\ guard' = [guard EXCEPT ![t] = None]
    /\ lock' = None
    /\ pc' = [pc EXCEPT ![t] = "out"]
    /\ UNCHANGED in_flight

(***************************************************************************)
(* Specification                                                           *)
(***************************************************************************)
Acquire(t) == Lock(t, "lock", "check") \/ Wake(t) \/ Lock(t, "relock", "push")
CriticalSection(t) == Pop(t) \/ Wait(t) \/ Push(t)

Use(t) == run_enqueued(t) \/ synchronize_outputs(t) \/ drop(t)

Next ==
    \E t \in Threads :
        \/ checkout(t) \/ try_checkout(t) \/ Use(t)
        \/ Acquire(t) \/ CriticalSection(t) \/ SpuriousWakeup(t)

Spec == Init /\ [][Next]_vars

(***************************************************************************)
(* A thread leaves its critical section, and the mutex does not starve a   *)
(* thread for ever.  Nobody has to call the pool or to drop a guard.       *)
(***************************************************************************)
FairSpec == Spec /\ \A t \in Threads : WF_vars(CriticalSection(t)) /\ SF_vars(Acquire(t))

(***************************************************************************)
(* Properties                                                              *)
(***************************************************************************)
PCs == {"out", "lock", "check", "wait", "hold", "relock", "push"}

\* The pool, the guards and the lanes' flags have their types.
TypeOK ==
    /\ idle \in Seq(Lanes)
    /\ lock \in Threads \cup {None}
    /\ cv \subseteq Threads
    /\ pc \in [Threads -> PCs]
    /\ guard \in [Threads -> Lanes \cup {None}]
    /\ in_flight \subseteq Lanes

\* Every lane is in exactly one place: once in the idle list or with one guard.
\* So a lane is never handed to two threads and never lost, whatever the order
\* of checkouts, wakeups and returns.
LaneHasOneOwner ==
    /\ \A i, j \in DOMAIN idle : idle[i] = idle[j] => i = j
    /\ \A t, u \in Threads : guard[t] = guard[u] => t = u \/ guard[t] = None
    /\ \A t \in Threads, i \in DOMAIN idle : guard[t] # idle[i]
    /\ \A l \in Lanes :
          (\E i \in DOMAIN idle : idle[i] = l) \/ (\E t \in Threads : guard[t] = l)

\* Threads on their way to the idle list.
Awake == {t \in Threads : pc[t] = "check" \/ (pc[t] = "wait" /\ t \notin cv)}

\* One notify_one per returned lane is enough, although try_checkout can take
\* the lane a waiter was woken for: while somebody sleeps, every idle lane has
\* a thread of its own on the way to it.
NoSleeperBesideIdleLane == cv # {} => Len(idle) <= Cardinality(Awake)

\* An idle lane does not stay idle while checkout waits for one.
IdleLaneIsTaken ==
    (idle # <<>> /\ \E t \in Threads : pc[t] = "wait")
        ~> (idle = <<>> \/ \A t \in Threads : pc[t] # "wait")
=============================================================================
