--------------------------- MODULE Handover_proofs ---------------------------
(***************************************************************************)
(* Proofs about the two protocols by which threads hand lanes to each      *)
(* other.                                                                  *)
(*                                                                         *)
(* ServingLanePool, for any finite set of threads and any finite,          *)
(* non-empty set of lanes.                                                 *)
(*                                                                         *)
(* RecoverySlots, the recovery cells and the lock-free stack, for any      *)
(* finite set of cells.  The stack is described by the sequence of its     *)
(* cells, which a push extends and a pop shortens; that the function       *)
(* After, which follows the links, visits just this sequence is shown at   *)
(* the end by the least-number principle.                                  *)
(***************************************************************************)
EXTENDS ServingLanePool, RecoverySlots, FiniteSetTheorems, FunctionTheorems, SequenceTheorems,
        WellFoundedInduction, TLAPS

(***************************************************************************)
(* The lane pool                                                           *)
(***************************************************************************)
Holding == {"hold", "relock", "push"}

\* A thread has a lane exactly between its checkout and its return.
GuardInv == \A t \in Threads : guard[t] # None <=> pc[t] \in Holding

\* Only threads inside cv.wait are in the wait set.
WaitSetInv == \A t \in cv : pc[t] = "wait"

IInv == TypeOK /\ GuardInv /\ WaitSetInv /\ LaneHasOneOwner /\ NoSleeperBesideIdleLane

LEMMA AwakeFinite ==
  ASSUME NEW S \in SUBSET Threads
  PROVE  IsFiniteSet(S) /\ Cardinality(S) \in Nat
BY PoolAssumption, FS_Subset, FS_CardinalityType

\* The list without its last element.
LEMMA PoppedIdle ==
  ASSUME idle \in Seq(Lanes), idle # <<>>
  PROVE  /\ Popped \in Seq(Lanes)
         /\ Len(Popped) = Len(idle) - 1
         /\ DOMAIN Popped = 1..(Len(idle) - 1)
         /\ DOMAIN idle = 1..Len(idle)
         /\ Len(idle) \in DOMAIN idle
         /\ idle[Len(idle)] \in Lanes
         /\ \A i \in DOMAIN Popped : i \in DOMAIN idle /\ Popped[i] = idle[i]
<1>1. Len(idle) \in Nat /\ DOMAIN idle = 1..Len(idle)
  OBVIOUS
<1>2. Len(idle) # 0
  BY <1>1, EmptySeq
<1>3. Len(idle) \in DOMAIN idle /\ idle[Len(idle)] \in Lanes
  BY <1>1, <1>2, ElementOfSeq
<1>4. /\ Popped \in Seq(Lanes)
      /\ Len(Popped) = Len(idle) - 1
      /\ \A i \in 1..(Len(idle) - 1) : Popped[i] = idle[i]
  BY <1>1, <1>2 DEF Popped
<1> QED
  BY <1>1, <1>2, <1>3, <1>4

\* A lane in the list, with what follows when it leaves for thread t.
LEMMA PopKeepsOwners ==
  ASSUME IInv, NEW t \in Threads, guard[t] = None, idle # <<>>,
         guard' = [guard EXCEPT ![t] = idle[Len(idle)]], idle' = Popped
  PROVE  LaneHasOneOwner'
<1> DEFINE l == idle[Len(idle)]
<1> USE DEF IInv, TypeOK
<1>1. /\ Popped \in Seq(Lanes)
      /\ DOMAIN Popped = 1..(Len(idle) - 1)
      /\ DOMAIN idle = 1..Len(idle)
      /\ Len(idle) \in DOMAIN idle
      /\ l \in Lanes
      /\ \A i \in DOMAIN Popped : i \in DOMAIN idle /\ Popped[i] = idle[i]
      /\ Len(idle) \in Nat
  BY PoppedIdle
<1>2. guard'[t] = l /\ \A u \in Threads : u # t => guard'[u] = guard[u]
  OBVIOUS
<1>3. l # None
  BY <1>1, PoolAssumption
<1>4. \A i, j \in DOMAIN idle' : idle'[i] = idle'[j] => i = j
  BY <1>1 DEF LaneHasOneOwner
<1>5. \A u \in Threads : guard[u] # l
  BY <1>1 DEF LaneHasOneOwner
<1>6. \A u, v \in Threads : guard'[u] = guard'[v] => u = v \/ guard'[u] = None
  BY <1>2, <1>5 DEF LaneHasOneOwner
<1>7. \A i \in DOMAIN Popped : idle[i] # l
  <2> SUFFICES ASSUME NEW i \in DOMAIN Popped, idle[i] = l PROVE FALSE
    OBVIOUS
  <2>1. i \in DOMAIN idle /\ i # Len(idle)
    BY <1>1
  <2> QED
    BY <2>1, <1>1 DEF LaneHasOneOwner
<1>8. \A u \in Threads, i \in DOMAIN idle' : guard'[u] # idle'[i]
  BY <1>1, <1>2, <1>7 DEF LaneHasOneOwner
<1>9. \A k \in Lanes : (\E i \in DOMAIN idle' : idle'[i] = k) \/ (\E u \in Threads : guard'[u] = k)
  <2> SUFFICES ASSUME NEW k \in Lanes, k # l
               PROVE  (\E i \in DOMAIN idle' : idle'[i] = k) \/ (\E u \in Threads : guard'[u] = k)
    BY <1>2
  <2>1. CASE \E i \in DOMAIN idle : idle[i] = k
    <3>1. PICK i \in DOMAIN idle : idle[i] = k
      BY <2>1
    <3>2. i \in 1..(Len(idle) - 1)
      BY <1>1, <3>1
    <3> QED
      BY <1>1, <3>1, <3>2
  <2>2. CASE \E u \in Threads : guard[u] = k
    BY <2>2, <1>2, PoolAssumption
  <2> QED
    BY <2>1, <2>2 DEF LaneHasOneOwner
<1> QED
  BY <1>4, <1>6, <1>8, <1>9 DEF LaneHasOneOwner

\* One thread more or less among those awake.
LEMMA AwakeMinus ==
  ASSUME NEW t \in Awake, Awake' = Awake \ {t}
  PROVE  Cardinality(Awake') = Cardinality(Awake) - 1
<1>1. IsFiniteSet(Awake)
  BY AwakeFinite DEF Awake
<1> QED
  BY <1>1, FS_RemoveElement

LEMMA AwakePlus ==
  ASSUME NEW t, t \notin Awake, Awake' = Awake \cup {t}
  PROVE  Cardinality(Awake') = Cardinality(Awake) + 1
<1>1. IsFiniteSet(Awake)
  BY AwakeFinite DEF Awake
<1> QED
  BY <1>1, FS_AddElement

LEMMA InitIInv == Init => IInv
<1> SUFFICES ASSUME Init PROVE IInv
  OBVIOUS
<1> USE PoolAssumption DEF Init
<1>1. Cardinality(Lanes) \in Nat
  BY FS_CardinalityType
<1>2. TypeOK
  BY <1>1 DEF TypeOK, PCs
<1>3. GuardInv /\ WaitSetInv
  BY DEF GuardInv, WaitSetInv, Holding
<1>4. LaneHasOneOwner
  BY <1>1 DEF LaneHasOneOwner
<1>5. NoSleeperBesideIdleLane
  BY DEF NoSleeperBesideIdleLane
<1> QED
  BY <1>2, <1>3, <1>4, <1>5 DEF IInv

\* Steps that leave the list and the guards alone keep the owners.
LEMMA SameOwners ==
  ASSUME LaneHasOneOwner, UNCHANGED <<idle, guard>>
  PROVE  LaneHasOneOwner'
BY DEF LaneHasOneOwner

\* Steps that leave the list alone, put nobody to sleep and tire nobody.
LEMMA SameSleepers ==
  ASSUME IInv, UNCHANGED idle, cv' \subseteq cv, Awake \subseteq Awake', Awake' \subseteq Threads
  PROVE  NoSleeperBesideIdleLane'
<1>1. IsFiniteSet(Awake') /\ Cardinality(Awake') \in Nat
  BY AwakeFinite
<1>2. Cardinality(Awake) \in Nat
  BY AwakeFinite DEF Awake
<1>3. Cardinality(Awake) <= Cardinality(Awake')
  BY <1>1, FS_Subset
<1>4. Len(idle) \in Nat
  BY DEF IInv, TypeOK
<1> QED
  BY <1>2, <1>3, <1>1, <1>4 DEF IInv, NoSleeperBesideIdleLane

LEMMA LockStep ==
  ASSUME IInv, NEW t \in Threads, NEW from, NEW to, Lock(t, from, to),
         \/ from = "lock" /\ to = "check"
         \/ from = "wait" /\ to = "check" /\ t \notin cv
         \/ from = "relock" /\ to = "push"
  PROVE  IInv'
<1> USE DEF IInv, TypeOK, Lock
<1>1. TypeOK'
  BY DEF PCs
<1>2. GuardInv'
  BY DEF GuardInv, Holding
<1>3. WaitSetInv'
  BY DEF WaitSetInv
<1>4. LaneHasOneOwner'
  BY SameOwners
<1>5. Awake \subseteq Awake' /\ Awake' \subseteq Threads
  BY DEF Awake
<1>6. NoSleeperBesideIdleLane'
  BY <1>5, SameSleepers
<1> QED
  BY <1>1, <1>2, <1>3, <1>4, <1>6

LEMMA PopStep ==
  ASSUME IInv, NEW t \in Threads, Pop(t)
  PROVE  IInv'
<1> USE DEF IInv, TypeOK, Pop
<1>1. Popped \in Seq(Lanes) /\ Len(Popped) = Len(idle) - 1 /\ idle[Len(idle)] \in Lanes
  BY PoppedIdle
<1>2. TypeOK'
  BY <1>1 DEF PCs
<1>3. GuardInv'
  BY <1>1, PoolAssumption DEF GuardInv, Holding
<1>4. WaitSetInv'
  BY DEF WaitSetInv
<1>5. LaneHasOneOwner'
  BY PopKeepsOwners DEF GuardInv, Holding
<1>6. t \in Awake /\ Awake' = Awake \ {t}
  BY DEF Awake
<1>7. Cardinality(Awake') = Cardinality(Awake) - 1 /\ Cardinality(Awake) \in Nat
  BY <1>6, AwakeMinus, AwakeFinite DEF Awake
<1>8. NoSleeperBesideIdleLane'
  BY <1>1, <1>7 DEF NoSleeperBesideIdleLane
<1> QED
  BY <1>2, <1>3, <1>4, <1>5, <1>8

LEMMA WaitStep ==
  ASSUME IInv, NEW t \in Threads, Wait(t)
  PROVE  IInv'
<1> USE DEF IInv, TypeOK, Wait
<1>1. TypeOK'
  BY DEF PCs
<1>2. GuardInv' /\ WaitSetInv'
  BY DEF GuardInv, WaitSetInv, Holding
<1>3. LaneHasOneOwner'
  BY SameOwners
<1>4. Cardinality(Awake') \in Nat
  BY <1>1, AwakeFinite DEF Awake
<1>5. NoSleeperBesideIdleLane'
  BY <1>4 DEF NoSleeperBesideIdleLane
<1> QED
  BY <1>1, <1>2, <1>3, <1>5

LEMMA TryCheckoutStep ==
  ASSUME IInv, NEW t \in Threads, try_checkout(t)
  PROVE  IInv'
<1> USE DEF IInv, TypeOK, try_checkout
<1>1. Popped \in Seq(Lanes) /\ Len(Popped) = Len(idle) - 1 /\ idle[Len(idle)] \in Lanes
  BY PoppedIdle
<1>2. TypeOK'
  BY <1>1 DEF PCs
<1>3. GuardInv'
  BY <1>1, PoolAssumption DEF GuardInv, Holding
<1>4. WaitSetInv'
  BY DEF WaitSetInv
<1>5. LaneHasOneOwner'
  BY PopKeepsOwners DEF GuardInv, Holding
<1>6. Awake' = Awake
  BY DEF Awake
<1>7. Cardinality(Awake) \in Nat /\ Len(idle) \in Nat
  BY AwakeFinite DEF Awake
<1>8. NoSleeperBesideIdleLane'
  BY <1>1, <1>6, <1>7 DEF NoSleeperBesideIdleLane
<1> QED
  BY <1>2, <1>3, <1>4, <1>5, <1>8

LEMMA PushStep ==
  ASSUME IInv, NEW t \in Threads, Push(t)
  PROVE  IInv'
<1> USE DEF IInv, TypeOK, Push
<1>1. guard[t] \in Lanes /\ guard[t] # None
  BY DEF GuardInv, Holding
<1>2. /\ idle' \in Seq(Lanes) /\ Len(idle') = Len(idle) + 1 /\ Len(idle) \in Nat
      /\ DOMAIN idle = 1..Len(idle) /\ DOMAIN idle' = 1..(Len(idle) + 1)
      /\ idle'[Len(idle) + 1] = guard[t]
      /\ \A i \in DOMAIN idle : idle'[i] = idle[i]
  BY <1>1
<1>3. cv' \subseteq cv
  BY DEF NotifyOne
<1>4. TypeOK'
  BY <1>2, <1>3 DEF PCs
<1>5. GuardInv'
  BY DEF GuardInv, Holding
<1>6. WaitSetInv'
  BY <1>3 DEF WaitSetInv
<1>7. LaneHasOneOwner'
  <2>1. guard'[t] = None /\ \A u \in Threads : u # t => guard'[u] = guard[u]
    OBVIOUS
  <2>2. \A i, j \in DOMAIN idle' : idle'[i] = idle'[j] => i = j
    <3> SUFFICES ASSUME NEW i \in DOMAIN idle', NEW j \in DOMAIN idle', idle'[i] = idle'[j]
                 PROVE  i = j
      OBVIOUS
    <3>1. CASE i \in DOMAIN idle /\ j \in DOMAIN idle
      BY <3>1, <1>2 DEF LaneHasOneOwner
    <3>2. CASE i \notin DOMAIN idle /\ j \in DOMAIN idle
      <4>1. i = Len(idle) + 1
        BY <3>2, <1>2
      <4> QED
        BY <4>1, <3>2, <1>2 DEF LaneHasOneOwner
    <3>3. CASE i \in DOMAIN idle /\ j \notin DOMAIN idle
      <4>1. j = Len(idle) + 1
        BY <3>3, <1>2
      <4> QED
        BY <4>1, <3>3, <1>2 DEF LaneHasOneOwner
    <3>4. CASE i \notin DOMAIN idle /\ j \notin DOMAIN idle
      BY <3>4, <1>2
    <3> QED
      BY <3>1, <3>2, <3>3, <3>4
  <2>3. \A u, v \in Threads : guard'[u] = guard'[v] => u = v \/ guard'[u] = None
    BY <2>1 DEF LaneHasOneOwner
  <2>4. \A u \in Threads, i \in DOMAIN idle' : guard'[u] # idle'[i]
    <3> SUFFICES ASSUME NEW u \in Threads, NEW i \in DOMAIN idle' PROVE guard'[u] # idle'[i]
      OBVIOUS
    <3>1. idle'[i] \in Lanes
      BY <1>2
    <3>2. CASE u = t
      BY <3>1, <3>2, <2>1, PoolAssumption
    <3>3. CASE u # t /\ i \in DOMAIN idle
      BY <3>3, <2>1, <1>2 DEF LaneHasOneOwner
    <3>4. CASE u # t /\ i \notin DOMAIN idle
      <4>1. i = Len(idle) + 1
        BY <3>4, <1>2
      <4> QED
        BY <4>1, <3>4, <2>1, <1>1, <1>2 DEF LaneHasOneOwner
    <3> QED
      BY <3>2, <3>3, <3>4
  <2>5. \A l \in Lanes : (\E i \in DOMAIN idle' : idle'[i] = l) \/ (\E u \in Threads : guard'[u] = l)
    <3> SUFFICES ASSUME NEW l \in Lanes
                 PROVE  (\E i \in DOMAIN idle' : idle'[i] = l) \/ (\E u \in Threads : guard'[u] = l)
      OBVIOUS
    <3>1. CASE \E i \in DOMAIN idle : idle[i] = l
      BY <3>1, <1>2
    <3>2. CASE guard[t] = l
      BY <3>2, <1>2
    <3>3. CASE \E u \in Threads : u # t /\ guard[u] = l
      BY <3>3, <2>1
    <3> QED
      BY <3>1, <3>2, <3>3 DEF LaneHasOneOwner
  <2> QED
    BY <2>2, <2>3, <2>4, <2>5 DEF LaneHasOneOwner
<1>8. NoSleeperBesideIdleLane'
  <2>1. CASE cv = {}
    BY <2>1, <1>3 DEF NoSleeperBesideIdleLane
  <2>2. CASE cv # {}
    <3>1. PICK w \in cv : cv' = cv \ {w}
      BY <2>2 DEF NotifyOne
    <3>2. pc[w] = "wait" /\ w \in Threads /\ w # t
      BY <3>1 DEF WaitSetInv
    <3>3. w \notin Awake /\ Awake' = Awake \cup {w}
      BY <3>1, <3>2 DEF Awake
    <3>4. Cardinality(Awake') = Cardinality(Awake) + 1 /\ Cardinality(Awake) \in Nat
      BY <3>3, AwakePlus, AwakeFinite DEF Awake
    <3> QED
      BY <2>2, <3>4, <1>2 DEF NoSleeperBesideIdleLane
  <2> QED
    BY <2>1, <2>2
<1> QED
  BY <1>4, <1>5, <1>6, <1>7, <1>8

\* Steps of a holder, a call of checkout and a spurious wakeup.
LEMMA OtherStep ==
  ASSUME IInv, NEW t \in Threads, checkout(t) \/ Use(t) \/ SpuriousWakeup(t)
  PROVE  IInv'
<1> USE DEF IInv, TypeOK
<1>1. /\ UNCHANGED <<idle, guard>>
      /\ cv' \subseteq cv
      /\ pc' \in [Threads -> PCs]
      /\ in_flight' \subseteq Lanes
      /\ lock' = lock
  <2>1. CASE checkout(t)
    BY <2>1 DEF checkout, poolVars, PCs
  <2>2. CASE run_enqueued(t)
    BY <2>2 DEF run_enqueued, poolVars, GuardInv, Holding
  <2>3. CASE synchronize_outputs(t) \/ drop(t)
    BY <2>3 DEF synchronize_outputs, drop, poolVars, PCs
  <2>4. CASE SpuriousWakeup(t)
    BY <2>4 DEF SpuriousWakeup
  <2> QED
    BY <2>1, <2>2, <2>3, <2>4 DEF Use
<1>2. \A u \in Threads : \/ pc'[u] = pc[u]
                         \/ pc[u] = "out" /\ pc'[u] = "lock"
                         \/ pc[u] = "hold" /\ pc'[u] = "relock"
  <2>1. CASE checkout(t)
    BY <2>1 DEF checkout
  <2>2. CASE run_enqueued(t) \/ synchronize_outputs(t) \/ SpuriousWakeup(t)
    BY <2>2 DEF run_enqueued, synchronize_outputs, SpuriousWakeup
  <2>3. CASE drop(t)
    BY <2>3 DEF drop
  <2> QED
    BY <2>1, <2>2, <2>3 DEF Use
<1>3. TypeOK'
  BY <1>1
<1>4. GuardInv'
  BY <1>1, <1>2 DEF GuardInv, Holding
<1>5. WaitSetInv'
  <2> SUFFICES ASSUME NEW u \in cv' PROVE pc'[u] = "wait"
    BY DEF WaitSetInv
  <2>1. u \in Threads /\ pc[u] = "wait"
    BY <1>1 DEF WaitSetInv
  <2> QED
    BY <2>1, <1>2
<1>6. LaneHasOneOwner'
  BY <1>1, SameOwners
<1>7. Awake \subseteq Awake' /\ Awake' \subseteq Threads
  <2> SUFFICES ASSUME NEW u \in Awake PROVE u \in Awake'
    BY DEF Awake
  <2>1. u \in Threads /\ pc'[u] = pc[u]
    BY <1>2 DEF Awake
  <2> QED
    BY <2>1, <1>1 DEF Awake
<1>8. NoSleeperBesideIdleLane'
  BY <1>1, <1>7, SameSleepers
<1> QED
  BY <1>3, <1>4, <1>5, <1>6, <1>8

LEMMA StepIInv == IInv /\ [Next]_vars => IInv'
<1> SUFFICES ASSUME IInv, [Next]_vars PROVE IInv'
  OBVIOUS
<1>1. ASSUME NEW t \in Threads, checkout(t) \/ Use(t) \/ SpuriousWakeup(t) PROVE IInv'
  BY <1>1, OtherStep
<1>2. ASSUME NEW t \in Threads, try_checkout(t) PROVE IInv'
  BY <1>2, TryCheckoutStep
<1>3. ASSUME NEW t \in Threads, Acquire(t) PROVE IInv'
  BY <1>3, LockStep DEF Acquire, Wake
<1>4. ASSUME NEW t \in Threads, CriticalSection(t) PROVE IInv'
  BY <1>4, PopStep, WaitStep, PushStep DEF CriticalSection
<1>5. CASE UNCHANGED vars
  BY <1>5 DEF vars, poolVars, IInv, TypeOK, GuardInv, WaitSetInv, LaneHasOneOwner,
              NoSleeperBesideIdleLane, Awake
<1> QED
  BY <1>1, <1>2, <1>3, <1>4, <1>5 DEF Next

LEMMA PoolInvariant == Spec => []IInv
BY InitIInv, StepIInv, PTL DEF Spec

\* The pool's list, guards and flags keep their types.
THEOREM PoolTypeOK == Spec => []TypeOK
<1>1. IInv => TypeOK
  BY DEF IInv
<1> QED
  BY <1>1, PoolInvariant, PTL

\* checkout, try_checkout and the guard's Drop never duplicate or lose a lane.
THEOREM PoolLaneHasOneOwner == Spec => []LaneHasOneOwner
<1>1. IInv => LaneHasOneOwner
  BY DEF IInv
<1> QED
  BY <1>1, PoolInvariant, PTL

\* notify_one in the guard's Drop loses no wakeup, for any number of threads.
THEOREM PoolNoSleeperBesideIdleLane == Spec => []NoSleeperBesideIdleLane
<1>1. IInv => NoSleeperBesideIdleLane
  BY DEF IInv
<1> QED
  BY <1>1, PoolInvariant, PTL

(***************************************************************************)
(* The recovery cells and their stack                                      *)
(***************************************************************************)
\* Where a lane is decides what its cell and its dropping thread are doing.
CellInv ==
    \A c \in Cells :
        /\ lane[c] # "leaked"
        /\ p_pc[c] # "done" => lane[c] = "recovering"
        /\ occupied[c] <=> lane[c] = "recovering" /\ p_pc[c] # "reserve"
        /\ value[c] <=> \/ p_pc[c] \in {"load", "link", "push"}
                        \/ Pushed(c) /\ ~(c_pc = "vacate" /\ c_head = c)

\* A thread about to push has linked its cell to the head it expects.
PushInv == \A c \in Cells : p_pc[c] = "push" => ready_next[c] = p_head[c]

\* The runtime is the only one that pops: the head it looks at stays on the stack,
\* with its link, until the exchange, and the cell it popped waits for it.
PopInv ==
    /\ c_pc \in {"next", "pop", "take", "vacate"} => c_head \in Cells /\ Pushed(c_head)
    /\ c_pc = "pop" => c_next = ready_next[c_head]

\* f lists n cells from the top of the stack to its end.
Lists(n, f) ==
    /\ f \in [1..n -> Cells]
    /\ \A i, j \in 1..n : f[i] = f[j] => i = j
    /\ ready_head = IF n = 0 THEN Nil ELSE f[1]
    /\ \A i \in 1..n : ready_next[f[i]] = IF i = n THEN Nil ELSE f[i + 1]
    /\ \A c \in Cells : c \in OnStack <=> \E i \in 1..n : f[i] = c

StackInv == \E n \in Nat : \E f : Lists(n, f)

SlotsIInv == SlotsTypeOK /\ CellInv /\ PushInv /\ PopInv /\ StackInv

LEMMA SlotsInitIInv == SlotsInit => SlotsIInv
<1> SUFFICES ASSUME SlotsInit PROVE SlotsIInv
  OBVIOUS
<1>1. SlotsTypeOK /\ CellInv /\ PushInv /\ PopInv
  BY DEF SlotsInit, SlotsTypeOK, CellInv, PushInv, PopInv, Pushed
<1>2. Lists(0, [i \in 1..0 |-> Nil])
  BY DEF SlotsInit, Lists, OnStack, Pushed
<1> QED
  BY <1>1, <1>2 DEF SlotsIInv, StackInv

\* A step that leaves the stack and the links of its cells alone leaves the list as it is.
LEMMA SameList ==
  ASSUME StackInv, OnStack' = OnStack, ready_head' = ready_head,
         \A c \in OnStack : ready_next'[c] = ready_next[c]
  PROVE  StackInv'
<1>1. PICK n \in Nat : \E f : Lists(n, f)
  BY DEF StackInv
<1>2. PICK f : Lists(n, f)
  BY <1>1
<1>3. \A i \in 1..n : f[i] \in OnStack
  BY <1>2 DEF Lists
<1>4. Lists(n, f)'
  BY <1>2, <1>3 DEF Lists
<1> QED
  BY <1>4 DEF StackInv

\* The steps before the push, and the failed exchange, touch only a cell that is not on
\* the stack.
LEMMA ProducerIInv ==
  ASSUME SlotsIInv, NEW c \in Cells,
         \/ Detach(c) \/ DropToken(c) \/ Reserve(c) \/ WriteCell(c) \/ LoadHead(c)
         \/ Link(c) \/ PushFails(c)
  PROVE  SlotsIInv'
<1> USE NilAssumption DEF SlotsIInv, SlotsTypeOK, CellInv, PushInv, PopInv, Pushed, OnStack,
                          stack, cell, producer, consumer
<1>1. (SlotsTypeOK /\ CellInv /\ PushInv /\ PopInv)'
  <2>1. CASE Detach(c)
    BY <2>1 DEF Detach
  <2>2. CASE DropToken(c)
    BY <2>2 DEF DropToken
  <2>3. CASE Reserve(c)
    <3>1. p_pc[c] = "reserve" /\ ~occupied[c]
      BY <2>3 DEF Reserve
    <3>2. occupied' = [occupied EXCEPT ![c] = TRUE] /\ p_pc' = [p_pc EXCEPT ![c] = "write"]
      BY <2>3, <3>1 DEF Reserve
    <3>3. UNCHANGED <<lane, stack, value, p_head, consumer>>
      BY <2>3, <3>1 DEF Reserve
    <3>4. SlotsTypeOK' /\ PushInv' /\ PopInv'
      BY <3>1, <3>2, <3>3
    <3>5. ASSUME NEW d \in Cells
          PROVE  occupied'[d] <=> lane'[d] = "recovering" /\ p_pc'[d] # "reserve"
      <4>1. CASE d = c
        BY <3>1, <3>2, <3>3, <4>1
      <4>2. CASE d # c
        BY <3>1, <3>2, <3>3, <4>2
      <4> QED
        BY <4>1, <4>2
    <3>6. CellInv'
      BY <3>1, <3>2, <3>3, <3>5
    <3> QED
      BY <3>4, <3>6
  <2>4. CASE WriteCell(c)
    <3>1. value' = [value EXCEPT ![c] = TRUE] /\ p_pc' = [p_pc EXCEPT ![c] = "load"]
      BY <2>4 DEF WriteCell
    <3>2. p_pc[c] = "write" /\ UNCHANGED <<stack, occupied, lane, p_head, consumer>>
      BY <2>4 DEF WriteCell
    <3>3. SlotsTypeOK' /\ PushInv' /\ PopInv'
      BY <3>1, <3>2
    <3>4. ASSUME NEW d \in Cells
          PROVE  value'[d] <=> \/ p_pc'[d] \in {"load", "link", "push"}
                               \/ Pushed(d)' /\ ~(c_pc' = "vacate" /\ c_head' = d)
      <4>1. CASE d = c
        BY <3>1, <3>2, <4>1
      <4>2. CASE d # c
        BY <3>1, <3>2, <4>2
      <4> QED
        BY <4>1, <4>2
    <3>5. CellInv'
      BY <3>1, <3>2, <3>4
    <3> QED
      BY <3>3, <3>5
  <2>5. CASE LoadHead(c)
    BY <2>5 DEF LoadHead
  <2>6. CASE Link(c)
    BY <2>6 DEF Link
  <2>7. CASE PushFails(c)
    BY <2>7 DEF PushFails
  <2> QED
    BY <2>1, <2>2, <2>3, <2>4, <2>5, <2>6, <2>7
<1>2. OnStack' = OnStack /\ ready_head' = ready_head
  BY DEF Detach, DropToken, Reserve, WriteCell, LoadHead, Link, PushFails
<1>3. \A d \in OnStack : ready_next'[d] = ready_next[d]
  BY DEF Detach, DropToken, Reserve, WriteCell, LoadHead, Link, PushFails
<1>4. StackInv'
  BY <1>2, <1>3, SameList
<1> QED
  BY <1>1, <1>4

\* The exchange puts the cell in front of the list.
LEMMA PushIInv ==
  ASSUME SlotsIInv, NEW c \in Cells, PushCas(c)
  PROVE  SlotsIInv'
<1> USE NilAssumption DEF PushCas, cell, producer, consumer
<1>1. (SlotsTypeOK /\ CellInv /\ PushInv /\ PopInv)'
  BY DEF SlotsIInv, SlotsTypeOK, CellInv, PushInv, PopInv, Pushed
<1>2. \A d \in Cells : d \in OnStack' <=> d = c \/ d \in OnStack
  BY DEF SlotsIInv, SlotsTypeOK, CellInv, PopInv, OnStack, Pushed
<1>3. c \notin OnStack
  BY DEF OnStack, Pushed
<1>4. PICK n \in Nat : \E f : Lists(n, f)
  BY DEF SlotsIInv, StackInv
<1>5. PICK f : Lists(n, f)
  BY <1>4
<1> DEFINE g == [i \in 1..(n + 1) |-> IF i = 1 THEN c ELSE f[i - 1]]
<1>6. ready_head' = c /\ ready_next' = ready_next /\ ready_next[c] = ready_head
  BY DEF SlotsIInv, PushInv
<1>7. Lists(n + 1, g)'
  <2>1. g \in [1..(n + 1) -> Cells]
    BY <1>5 DEF Lists
  <2>2. \A i \in 1..n : f[i] # c
    BY <1>3, <1>5 DEF Lists
  <2>3. ASSUME NEW i \in 1..(n + 1), NEW j \in 1..(n + 1), g[i] = g[j] PROVE i = j
    BY <1>5, <2>2, <2>3 DEF Lists
  <2>4. ready_head' = IF n + 1 = 0 THEN Nil ELSE g[1]
    BY <1>6
  <2>5. ASSUME NEW i \in 1..(n + 1)
        PROVE  ready_next'[g[i]] = IF i = n + 1 THEN Nil ELSE g[i + 1]
    <3>1. CASE i = 1
      BY <1>5, <1>6, <3>1 DEF Lists
    <3>2. CASE i # 1
      <4>1. i - 1 \in 1..n /\ g[i] = f[i - 1]
        BY <3>2
      <4>2. ready_next[f[i - 1]] = IF i - 1 = n THEN Nil ELSE f[i]
        BY <1>5, <4>1 DEF Lists
      <4>3. i # n + 1 => g[i + 1] = f[i]
        BY <3>2
      <4> QED
        BY <1>6, <4>1, <4>2, <4>3
    <3> QED
      BY <3>1, <3>2
  <2>6. ASSUME NEW d \in Cells
        PROVE  d \in OnStack' <=> \E i \in 1..(n + 1) : g[i] = d
    <3>1. (\E i \in 1..(n + 1) : g[i] = d) <=> d = c \/ \E i \in 1..n : f[i] = d
      <4>1. g[1] = c /\ \A i \in 1..n : i + 1 \in 1..(n + 1) /\ g[i + 1] = f[i]
        OBVIOUS
      <4>2. \A i \in 1..(n + 1) : g[i] = c \/ (i - 1 \in 1..n /\ g[i] = f[i - 1])
        OBVIOUS
      <4> HIDE DEF g
      <4> QED
        BY <4>1, <4>2
    <3> QED
      BY <1>2, <1>5, <3>1 DEF Lists
  <2> QED
    BY <2>1, <2>3, <2>4, <2>5, <2>6 DEF Lists
<1>8. StackInv'
  BY <1>7 DEF StackInv
<1> QED
  BY <1>1, <1>8 DEF SlotsIInv

\* The exchange takes the first cell off the list.
LEMMA PopIInv ==
  ASSUME SlotsIInv, PopCas
  PROVE  SlotsIInv'
<1> USE NilAssumption DEF PopCas, cell, producer
<1>1. (SlotsTypeOK /\ CellInv /\ PushInv /\ PopInv)'
  BY DEF SlotsIInv, SlotsTypeOK, CellInv, PushInv, PopInv, Pushed
<1>2. \A d \in Cells : d \in OnStack' <=> d # c_head /\ d \in OnStack
  BY DEF SlotsIInv, OnStack, Pushed
<1>3. PICK n \in Nat : \E f : Lists(n, f)
  BY DEF SlotsIInv, StackInv
<1>4. PICK f : Lists(n, f)
  BY <1>3
<1>5. n # 0 /\ f[1] = c_head /\ ready_next' = ready_next
  BY <1>4 DEF SlotsIInv, PopInv, Lists
<1>6. ready_head' = IF n = 1 THEN Nil ELSE f[2]
  <2>1. ready_head' = ready_next[f[1]]
    BY <1>5 DEF SlotsIInv, PopInv
  <2>2. 1 \in 1..n
    BY <1>5
  <2>3. ready_next[f[1]] = IF 1 = n THEN Nil ELSE f[1 + 1]
    BY <1>4, <2>2 DEF Lists
  <2> QED
    BY <2>1, <2>3
<1> DEFINE g == [i \in 1..(n - 1) |-> f[i + 1]]
<1>7. Lists(n - 1, g)'
  <2>1. g \in [1..(n - 1) -> Cells]
    BY <1>4, <1>5 DEF Lists
  <2>2. ASSUME NEW i \in 1..(n - 1), NEW j \in 1..(n - 1), g[i] = g[j] PROVE i = j
    BY <1>4, <2>2 DEF Lists
  <2>3. ready_head' = IF n - 1 = 0 THEN Nil ELSE g[1]
    BY <1>5, <1>6
  <2>4. ASSUME NEW i \in 1..(n - 1)
        PROVE  ready_next'[g[i]] = IF i = n - 1 THEN Nil ELSE g[i + 1]
    BY <1>4, <1>5, <2>4 DEF Lists
  <2>5. ASSUME NEW d \in Cells
        PROVE  d \in OnStack' <=> \E i \in 1..(n - 1) : g[i] = d
    <3>1. ASSUME d \in OnStack' PROVE \E i \in 1..(n - 1) : g[i] = d
      <4>1. PICK i \in 1..n : f[i] = d
        BY <1>2, <1>4, <3>1 DEF Lists
      <4>2. i # 1
        BY <1>2, <1>5, <3>1, <4>1
      <4>3. i - 1 \in 1..(n - 1) /\ g[i - 1] = d
        BY <4>1, <4>2
      <4> QED
        BY <4>3
    <3>2. ASSUME NEW i \in 1..(n - 1), g[i] = d PROVE d \in OnStack'
      <4>1. i + 1 \in 1..n /\ f[i + 1] = d /\ 1 \in 1..n /\ i + 1 # 1
        BY <1>5, <3>2
      <4>2. d # c_head
        BY <1>4, <1>5, <4>1 DEF Lists
      <4> QED
        BY <1>2, <1>4, <4>1, <4>2 DEF Lists
    <3> QED
      BY <3>1, <3>2
  <2> QED
    BY <2>1, <2>2, <2>3, <2>4, <2>5 DEF Lists
<1>8. n - 1 \in Nat
  BY <1>5
<1> QED
  BY <1>1, <1>7, <1>8 DEF SlotsIInv, StackInv

\* The other steps of the runtime read the stack, or empty a cell that is no longer on it.
LEMMA ConsumerIInv ==
  ASSUME SlotsIInv, Reclaim \/ PopLoads \/ PopLoadsNext \/ PopFails \/ Take \/ Vacate
  PROVE  SlotsIInv'
<1> USE NilAssumption DEF SlotsIInv, SlotsTypeOK, CellInv, PushInv, PopInv, Pushed, OnStack,
                          stack, cell, producer, consumer
<1>1. OnStack' = OnStack /\ ready_head' = ready_head /\ ready_next' = ready_next
  BY DEF Reclaim, PopLoads, PopLoadsNext, PopFails, Take, Vacate, Observe
<1>2. StackInv'
  BY <1>1, SameList
<1>3. ready_head # Nil => ready_head \in Cells /\ Pushed(ready_head)
  BY DEF StackInv, Lists
<1>4. (SlotsTypeOK /\ CellInv /\ PushInv /\ PopInv)'
  <2>1. CASE Reclaim
    BY <2>1 DEF Reclaim
  <2>2. CASE PopLoads
    BY <2>2, <1>3 DEF PopLoads, Observe
  <2>3. CASE PopLoadsNext
    BY <2>3 DEF PopLoadsNext
  <2>4. CASE PopFails
    BY <2>4, <1>3 DEF PopFails, Observe
  <2>5. CASE Take
    BY <2>5 DEF Take
  <2>6. CASE Vacate
    BY <2>6 DEF Vacate
  <2> QED
    BY <2>1, <2>2, <2>3, <2>4, <2>5, <2>6
<1> QED
  BY <1>2, <1>4

LEMMA SlotsNextIInv == SlotsIInv /\ [SlotsNext]_slotsVars => SlotsIInv'
<1> SUFFICES ASSUME SlotsIInv, [SlotsNext]_slotsVars PROVE SlotsIInv'
  OBVIOUS
<1>1. ASSUME NEW c \in Cells, PushCas(c) PROVE SlotsIInv'
  BY <1>1, PushIInv
<1>2. ASSUME NEW c \in Cells,
             \/ Detach(c) \/ DropToken(c) \/ Reserve(c) \/ WriteCell(c) \/ LoadHead(c)
             \/ Link(c) \/ PushFails(c)
      PROVE  SlotsIInv'
  BY <1>2, ProducerIInv
<1>3. CASE PopCas
  BY <1>3, PopIInv
<1>4. CASE Reclaim \/ PopLoads \/ PopLoadsNext \/ PopFails \/ Take \/ Vacate
  BY <1>4, ConsumerIInv
<1>5. CASE UNCHANGED slotsVars
  <2>1. OnStack' = OnStack /\ ready_head' = ready_head /\ ready_next' = ready_next
    BY <1>5 DEF slotsVars, stack, cell, producer, consumer, OnStack, Pushed
  <2>2. StackInv'
    BY <2>1, SameList DEF SlotsIInv
  <2>3. (SlotsTypeOK /\ CellInv /\ PushInv /\ PopInv)'
    BY <1>5 DEF slotsVars, stack, cell, producer, consumer, SlotsIInv, SlotsTypeOK, CellInv, PushInv, PopInv,
                Pushed
  <2> QED
    BY <2>2, <2>3 DEF SlotsIInv
<1> QED
  BY <1>1, <1>2, <1>3, <1>4, <1>5 DEF SlotsNext, ConsumerStep

LEMMA RecoveryIInv == SlotsSpec => []SlotsIInv
  BY SlotsInitIInv, SlotsNextIInv, PTL DEF SlotsSpec

(***************************************************************************)
(* The results                                                             *)
(***************************************************************************)
\* Each atomic, each cell and each local of the two sides keeps its type.
THEOREM RecoveryTypeOK == SlotsSpec => []SlotsTypeOK
<1>1. SlotsIInv => SlotsTypeOK
  BY DEF SlotsIInv
<1> QED
  BY <1>1, RecoveryIInv, PTL

\* However many threads drop tokens at once, take and publish never touch the contents of a
\* cell at the same time, the cell that pop_ready returns is full, and no lane is leaked
\* because its cell was still occupied.
THEOREM RecoveryCellAccessIsExclusive == SlotsSpec => []CellAccessIsExclusive
<1>1. SlotsIInv => CellAccessIsExclusive
  <2> SUFFICES ASSUME SlotsIInv PROVE CellAccessIsExclusive
    OBVIOUS
  <2>1. ASSUME c_pc = "take" PROVE p_pc[c_head] = "done" /\ value[c_head]
    BY <2>1 DEF SlotsIInv, PopInv, CellInv, Pushed
  <2> QED
    BY <2>1 DEF SlotsIInv, CellInv, CellAccessIsExclusive
<1> QED
  BY <1>1, RecoveryIInv, PTL

\* reclaim_dropped_runs returns only when it has seen the stack empty: at that step every
\* lane that any thread had pushed is back in its bucket.
THEOREM RecoveryReclaimIsComplete == SlotsSpec => ReclaimIsComplete
<1>1. ASSUME SlotsIInv, [SlotsNext]_slotsVars
      PROVE  [c_pc # "idle" /\ c_pc' = "idle" => \A c \in Cells : ~Pushed(c)]_slotsVars
  <2> SUFFICES ASSUME c_pc # "idle", c_pc' = "idle" PROVE \A c \in Cells : ~Pushed(c)
    OBVIOUS
  <2>1. ready_head = Nil /\ c_pc \in {"load", "pop"}
    BY <1>1 DEF SlotsNext, ConsumerStep, Detach, DropToken, Reserve, WriteCell, LoadHead, Link,
                PushCas, PushFails, Reclaim, PopLoads, PopLoadsNext, PopCas, PopFails, Take,
                Vacate, Observe, consumer, slotsVars
  <2>2. OnStack = {}
    BY <1>1, <2>1, NilAssumption DEF SlotsIInv, StackInv, Lists, OnStack
  <2> QED
    BY <2>1, <2>2 DEF OnStack
<1> QED
  BY <1>1, RecoveryIInv, PTL DEF SlotsSpec, ReclaimIsComplete

(***************************************************************************)
(* Following the links                                                     *)
(***************************************************************************)
\* The least-number principle, in the form that lets a set take the place of a predicate.
LEMMA Least ==
  ASSUME NEW S, S \subseteq Nat, S # {}
  PROVE  \E m \in S : \A k \in S : m <= k
<1>1. PICK m \in S : \A y \in S : ~(<<y, m>> \in OpToRel(<, Nat))
  BY WFMin, NatLessThanWellFounded
<1>2. \A y \in S : ~(y < m)
  BY <1>1 DEF OpToRel
<1> QED
  BY <1>2

\* The list is no longer than the number of cells.
LEMMA ListIsShort ==
  ASSUME NEW n \in Nat, NEW f, Lists(n, f)
  PROVE  n <= Cardinality(Cells) /\ Cardinality(Cells) \in Nat
<1>1. f \in Injection(1..n, Cells)
  BY Fun_IsInj DEF Lists
<1>2. Cardinality(1..n) <= Cardinality(Cells)
  BY <1>1, FS_Injection, CellsAssumption
<1>3. Cardinality(1..n) = n
  BY FS_Interval
<1> QED
  BY <1>2, <1>3, FS_CardinalityType, CellsAssumption

\* After visits the cells of the list in their order, and then stays at the end.
LEMMA AfterFollowsList ==
  ASSUME SlotsTypeOK, NEW n \in Nat, NEW f, Lists(n, f)
  PROVE  After = [k \in 0..Cardinality(Cells) |-> IF k < n THEN f[k + 1] ELSE Nil]
<1> DEFINE N == Cardinality(Cells)
           W == [k \in 0..N |-> IF k < n THEN f[k + 1] ELSE Nil]
           Step(F) == [k \in 0..N |-> IF k = 0 THEN ready_head
                                      ELSE IF F[k - 1] = Nil THEN Nil ELSE ready_next[F[k - 1]]]
<1>1. n <= N /\ N \in Nat
  BY ListIsShort
<1> HIDE DEF N
<1>2. ASSUME NEW k \in 0..N
      PROVE  W[k] = IF k = 0 THEN ready_head
                    ELSE IF W[k - 1] = Nil THEN Nil ELSE ready_next[W[k - 1]]
  <2>1. CASE k = 0
    BY <1>1, <2>1 DEF Lists
  <2>2. CASE k # 0 /\ k <= n
    <3>1. k \in 1..n /\ k - 1 \in 0..N /\ W[k - 1] = f[k]
      BY <1>1, <2>2
    <3>2. f[k] \in Cells /\ ready_next[f[k]] = IF k = n THEN Nil ELSE f[k + 1]
      BY <3>1 DEF Lists
    <3>3. W[k] = IF k = n THEN Nil ELSE f[k + 1]
      BY <1>1, <2>2
    <3> QED
      BY <2>2, <3>1, <3>2, <3>3, NilAssumption
  <2>3. CASE k # 0 /\ k > n
    BY <1>1, <2>3
  <2> QED
    BY <1>1, <2>1, <2>2, <2>3
<1>3. W = Step(W)
  BY <1>2
<1>4. After = Step(After)
  <2>1. \E F : F = Step(F)
    BY <1>3
  <2> QED
    BY <2>1 DEF After, N
<1> HIDE DEF W
<1>5. ASSUME NEW k \in 0..N, After[k] # W[k] PROVE FALSE
  <2> DEFINE S == {i \in 0..N : After[i] # W[i]}
  <2>1. PICK m \in S : \A i \in S : m <= i
    <3>1. S \subseteq Nat /\ S # {}
      BY <1>5
    <3> HIDE DEF S
    <3> QED
      BY <3>1, Least
  <2>2. m # 0
    BY <1>2, <1>4, <2>1
  <2>3. m - 1 \in 0..N /\ ~(m <= m - 1)
    BY <1>1, <2>1, <2>2
  <2>4. After[m - 1] = W[m - 1]
    BY <2>1, <2>3
  <2> QED
    BY <1>2, <1>4, <2>1, <2>2, <2>3, <2>4
<1>6. After = [k \in 0..N |-> After[k]]
  BY <1>4
<1>7. W = [k \in 0..N |-> W[k]]
  BY DEF W
<1>8. After = W
  BY <1>5, <1>6, <1>7
<1> QED
  BY <1>8 DEF W, N

\* Whatever the number of threads that drop tokens and however their exchanges race each
\* other and the runtime's, the links from ready_head visit exactly the cells that were
\* pushed and not popped, and end.
THEOREM RecoveryStackIsExact == SlotsSpec => []StackIsExact
<1>1. ASSUME SlotsIInv PROVE StackIsExact
  <2> DEFINE N == Cardinality(Cells)
  <2>1. PICK n \in Nat : \E f : Lists(n, f)
    BY <1>1 DEF SlotsIInv, StackInv
  <2>2. PICK f : Lists(n, f)
    BY <2>1
  <2>3. After = [k \in 0..N |-> IF k < n THEN f[k + 1] ELSE Nil]
    BY <1>1, <2>2, AfterFollowsList DEF SlotsIInv
  <2>4. n <= N /\ N \in Nat
    BY <2>2, ListIsShort
  <2> HIDE DEF N
  <2>5. ASSUME NEW k \in 0..N, After[k] # Nil PROVE After[k] \in OnStack
    <3>1. k + 1 \in 1..n /\ After[k] = f[k + 1]
      BY <2>3, <2>5
    <3> QED
      BY <2>2, <3>1 DEF Lists
  <2>6. ASSUME NEW c \in OnStack PROVE c # Nil /\ \E k \in 0..N : After[k] = c
    <3>1. c \in Cells
      BY DEF OnStack
    <3>2. PICK i \in 1..n : f[i] = c
      BY <2>2, <3>1 DEF Lists
    <3>3. i - 1 \in 0..N /\ After[i - 1] = f[i]
      BY <2>3, <2>4
    <3> QED
      BY <3>1, <3>2, <3>3, NilAssumption
  <2>7. {After[k] : k \in 0..N} \ {Nil} = OnStack
    BY <2>5, <2>6
  <2>8. After[N] = Nil
    BY <2>3, <2>4
  <2> QED
    BY <2>7, <2>8 DEF StackIsExact, N
<1> QED
  BY <1>1, RecoveryIInv, PTL
=============================================================================
