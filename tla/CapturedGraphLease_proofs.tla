---------------------- MODULE CapturedGraphLease_proofs ----------------------
(***************************************************************************)
(* Proofs about the captured-graph lease, for any finite set of runners,   *)
(* any set of releasers and any width of the word.                         *)
(***************************************************************************)
EXTENDS CapturedGraphLease, FiniteSetTheorems, TLAPS

CriticalPC == {"check_end", "sleep_end", "notify", "check_drain", "sleep_drain",
               "store", "notify_end"}

\* wait_lock is held exactly inside the critical sections.
LockInv == \A t \in Threads : wait_lock = t <=> pc[t] \in CriticalPC

\* Only threads inside wait_cv.wait are in the wait set.
WaitSetInv == \A t \in wait_cv : pc[t] \in {"wait_end", "wait_drain"}

\* What a thread knows of the copy it is about to compare-exchange.
SeenInv ==
    /\ \A t \in Threads : pc[t] = "cas" => ~IsReleasing(seen[t])
    /\ \A t \in Runners : pc[t] = "cas" => seen[t] < GRAPH_LEASE_ACTIVE_MASK
    /\ \A t \in Runners : pc[t] = "drop_cas" => Active(seen[t]) > 0

CountInv == Active(state) = Cardinality(Holders) + leaked

OwnerInv ==
    /\ IsReleasing(state) <=> \E r \in Releasers : pc[r] \in DrainPC \cup NativePC
    /\ \A r, s \in Releasers :
          pc[r] \in DrainPC \cup NativePC /\ pc[s] \in DrainPC \cup NativePC => r = s
    /\ \A r \in Releasers : pc[r] \in NativePC => Active(state) = 0

\* A thread that has decided to sleep, but does not sleep yet, decided rightly.
SleepInv ==
    \A t \in Threads :
        /\ pc[t] = "sleep_end" => IsReleasing(state)
        /\ pc[t] = "sleep_drain" =>
              Active(state) # 0 \/ \E u \in Runners : pc[u] = "notify_lock"

WakeInv == SleepInv /\ NoLostWakeup

IInv == TypeOK /\ LockInv /\ WaitSetInv /\ SeenInv /\ CountInv /\ OwnerInv /\ WakeInv

\* The guards alive are finitely many.
LEMMA HoldersFinite == IsFiniteSet(Holders) /\ Cardinality(Holders) \in Nat
<1>1. Holders \in SUBSET Runners
  BY DEF Holders
<1>2. IsFiniteSet(Holders)
  BY <1>1, ThreadsAssumption, FS_Subset
<1> QED
  BY <1>2, FS_CardinalityType

LEMMA InitIInv == Init => IInv
<1> SUFFICES ASSUME Init PROVE IInv
  OBVIOUS
<1> USE ThreadsAssumption, MaskAssumption DEF Init
<1>1. TypeOK
  BY DEF TypeOK, Word, Threads, RunnerPC, ReleaserPC, EntryPC, DrainPC, NativePC
<1>2. LockInv /\ WaitSetInv /\ SeenInv
  BY DEF LockInv, WaitSetInv, SeenInv, CriticalPC, Threads
<1>3. CountInv
  <2>1. Holders = {}
    BY DEF Holders, Threads
  <2> QED
    BY <2>1, FS_EmptySet DEF CountInv, Active, IsReleasing, GRAPH_LEASE_RELEASING
<1>4. OwnerInv
  BY DEF OwnerInv, DrainPC, NativePC, Threads, IsReleasing, GRAPH_LEASE_RELEASING
<1>5. WakeInv
  BY DEF WakeInv, SleepInv, NoLostWakeup, Threads
<1> QED
  BY <1>1, <1>2, <1>3, <1>4, <1>5 DEF IInv

\* A step that leaves the word alone and moves one thread, without touching
\* the guards, keeps the count.
LEMMA CountKept ==
  ASSUME CountInv, state' = state, leaked' = leaked, Holders' = Holders
  PROVE  CountInv'
BY DEF CountInv, Active

\* Every step keeps the types: the word keeps its width.
LEMMA TypeStep == TypeOK /\ SeenInv /\ [Next]_vars => TypeOK'
<1> SUFFICES ASSUME TypeOK, SeenInv, [Next]_vars PROVE TypeOK'
  OBVIOUS
<1> USE ThreadsAssumption, MaskAssumption
        DEF TypeOK, SeenInv, Threads, Goto, RunnerPC, ReleaserPC, EntryPC, DrainPC, NativePC,
            Word, Active, IsReleasing, GRAPH_LEASE_RELEASING
<1>1. ASSUME NEW t \in Threads, Call(t) \/ SpuriousWakeup(t) PROVE TypeOK'
  BY <1>1 DEF Call, Keep, SpuriousWakeup
<1>2. ASSUME NEW t \in Threads, LoadFree(t) \/ LoadReleasing(t) \/ CasFails(t) PROVE TypeOK'
  BY <1>2 DEF LoadFree, LoadReleasing, CasFails, Keep, Forget
<1>3. ASSUME NEW t \in Threads, AwaitEndOfRelease(t) PROVE TypeOK'
  BY <1>3 DEF AwaitEndOfRelease, Lock, Reacquire, Keep, Sleep, Unlock
<1>4. ASSUME NEW t \in Runners, LoadPanics(t) \/ Leak(t) PROVE TypeOK'
  BY <1>4 DEF LoadPanics, Leak, Keep
<1>5. ASSUME NEW t \in Runners, DropLoad(t) \/ DropCasFails(t) PROVE TypeOK'
  BY <1>5 DEF DropLoad, DropCasFails
<1>6. ASSUME NEW t \in Runners, RunCas(t) PROVE TypeOK'
  BY <1>6 DEF RunCas, Forget
<1>7. ASSUME NEW t \in Runners, DropCas(t) PROVE TypeOK'
  BY <1>7 DEF DropCas, Forget
<1>8. ASSUME NEW t \in Runners, DropNotify(t) PROVE TypeOK'
  BY <1>8 DEF DropNotify, Lock, NotifyAll
<1>9. ASSUME NEW r \in Releasers, ReleaseCas(r) PROVE TypeOK'
  BY <1>9 DEF ReleaseCas, Forget
<1>10. ASSUME NEW r \in Releasers, AwaitDrained(r) PROVE TypeOK'
  BY <1>10 DEF AwaitDrained, Lock, Reacquire, Keep, Sleep, Unlock
<1>11. ASSUME NEW r \in Releasers, EndRelease(r) PROVE TypeOK'
  BY <1>11 DEF EndRelease, StoreZero, Lock, NotifyAll
<1>12. CASE UNCHANGED vars
  BY <1>12 DEF vars
<1> QED
  BY <1>1, <1>2, <1>3, <1>4, <1>5, <1>6, <1>7, <1>8, <1>9, <1>10, <1>11, <1>12
     DEF Next, RunnerStep, ReleaserStep

\* Every step keeps the mutex and the wait set in line with the program counters.
LEMMA LockStep == TypeOK /\ LockInv /\ WaitSetInv /\ [Next]_vars => (LockInv /\ WaitSetInv)'
<1> SUFFICES ASSUME TypeOK, LockInv, WaitSetInv, [Next]_vars PROVE (LockInv /\ WaitSetInv)'
  OBVIOUS
<1> USE ThreadsAssumption, MaskAssumption
        DEF TypeOK, LockInv, WaitSetInv, CriticalPC, Threads, Goto, RunnerPC, ReleaserPC, EntryPC, DrainPC, NativePC
<1>1. ASSUME NEW t \in Threads, Call(t) \/ SpuriousWakeup(t) PROVE (LockInv /\ WaitSetInv)'
  BY <1>1 DEF Call, Keep, SpuriousWakeup
<1>2. ASSUME NEW t \in Threads, LoadFree(t) \/ LoadReleasing(t) \/ CasFails(t) PROVE (LockInv /\ WaitSetInv)'
  BY <1>2 DEF LoadFree, LoadReleasing, CasFails, Keep, Forget
<1>3. ASSUME NEW t \in Threads, AwaitEndOfRelease(t) PROVE (LockInv /\ WaitSetInv)'
  BY <1>3 DEF AwaitEndOfRelease, Lock, Reacquire, Keep, Sleep, Unlock
<1>4. ASSUME NEW t \in Runners, LoadPanics(t) \/ Leak(t) PROVE (LockInv /\ WaitSetInv)'
  BY <1>4 DEF LoadPanics, Leak, Keep
<1>5. ASSUME NEW t \in Runners, DropLoad(t) \/ DropCasFails(t) PROVE (LockInv /\ WaitSetInv)'
  BY <1>5 DEF DropLoad, DropCasFails
<1>6. ASSUME NEW t \in Runners, RunCas(t) PROVE (LockInv /\ WaitSetInv)'
  BY <1>6 DEF RunCas, Forget
<1>7. ASSUME NEW t \in Runners, DropCas(t) PROVE (LockInv /\ WaitSetInv)'
  BY <1>7 DEF DropCas, Forget
<1>8. ASSUME NEW t \in Runners, DropNotify(t) PROVE (LockInv /\ WaitSetInv)'
  BY <1>8 DEF DropNotify, Lock, NotifyAll
<1>9. ASSUME NEW r \in Releasers, ReleaseCas(r) PROVE (LockInv /\ WaitSetInv)'
  BY <1>9 DEF ReleaseCas, Forget
<1>10. ASSUME NEW r \in Releasers, AwaitDrained(r) PROVE (LockInv /\ WaitSetInv)'
  BY <1>10 DEF AwaitDrained, Lock, Reacquire, Keep, Sleep, Unlock
<1>11. ASSUME NEW r \in Releasers, EndRelease(r) PROVE (LockInv /\ WaitSetInv)'
  BY <1>11 DEF EndRelease, StoreZero, Lock, NotifyAll
<1>12. CASE UNCHANGED vars
  BY <1>12 DEF vars
<1> QED
  BY <1>1, <1>2, <1>3, <1>4, <1>5, <1>6, <1>7, <1>8, <1>9, <1>10, <1>11, <1>12
     DEF Next, RunnerStep, ReleaserStep

\* Every step keeps what the threads know of their copies.
LEMMA SeenStep == TypeOK /\ SeenInv /\ [Next]_vars => SeenInv'
<1> SUFFICES ASSUME TypeOK, SeenInv, [Next]_vars PROVE SeenInv'
  OBVIOUS
<1> USE ThreadsAssumption, MaskAssumption
        DEF TypeOK, SeenInv, Threads, Goto, RunnerPC, ReleaserPC, EntryPC, DrainPC, NativePC,
            Word, Active, IsReleasing, GRAPH_LEASE_RELEASING
<1>1. ASSUME NEW t \in Threads, Call(t) \/ SpuriousWakeup(t) PROVE SeenInv'
  BY <1>1 DEF Call, Keep, SpuriousWakeup
<1>2. ASSUME NEW t \in Threads, LoadFree(t) \/ LoadReleasing(t) \/ CasFails(t) PROVE SeenInv'
  BY <1>2 DEF LoadFree, LoadReleasing, CasFails, Keep, Forget
<1>3. ASSUME NEW t \in Threads, AwaitEndOfRelease(t) PROVE SeenInv'
  BY <1>3 DEF AwaitEndOfRelease, Lock, Reacquire, Keep, Sleep, Unlock
<1>4. ASSUME NEW t \in Runners, LoadPanics(t) \/ Leak(t) PROVE SeenInv'
  BY <1>4 DEF LoadPanics, Leak, Keep
<1>5. ASSUME NEW t \in Runners, DropLoad(t) \/ DropCasFails(t) PROVE SeenInv'
  BY <1>5 DEF DropLoad, DropCasFails
<1>6. ASSUME NEW t \in Runners, RunCas(t) PROVE SeenInv'
  BY <1>6 DEF RunCas, Forget
<1>7. ASSUME NEW t \in Runners, DropCas(t) PROVE SeenInv'
  BY <1>7 DEF DropCas, Forget
<1>8. ASSUME NEW t \in Runners, DropNotify(t) PROVE SeenInv'
  BY <1>8 DEF DropNotify, Lock, NotifyAll
<1>9. ASSUME NEW r \in Releasers, ReleaseCas(r) PROVE SeenInv'
  BY <1>9 DEF ReleaseCas, Forget
<1>10. ASSUME NEW r \in Releasers, AwaitDrained(r) PROVE SeenInv'
  BY <1>10 DEF AwaitDrained, Lock, Reacquire, Keep, Sleep, Unlock
<1>11. ASSUME NEW r \in Releasers, EndRelease(r) PROVE SeenInv'
  BY <1>11 DEF EndRelease, StoreZero, Lock, NotifyAll
<1>12. CASE UNCHANGED vars
  BY <1>12 DEF vars
<1> QED
  BY <1>1, <1>2, <1>3, <1>4, <1>5, <1>6, <1>7, <1>8, <1>9, <1>10, <1>11, <1>12
     DEF Next, RunnerStep, ReleaserStep

\* Every step keeps the release exclusive, and drained once the provider is called.
LEMMA OwnerStep == TypeOK /\ SeenInv /\ OwnerInv /\ [Next]_vars => OwnerInv'
<1> SUFFICES ASSUME TypeOK, SeenInv, OwnerInv, [Next]_vars PROVE OwnerInv'
  OBVIOUS
<1> USE ThreadsAssumption, MaskAssumption
        DEF TypeOK, SeenInv, OwnerInv, Threads, Goto, RunnerPC, ReleaserPC, EntryPC, DrainPC, NativePC,
            Word, Active, IsReleasing, GRAPH_LEASE_RELEASING
<1>1. ASSUME NEW t \in Threads, Call(t) \/ SpuriousWakeup(t) PROVE OwnerInv'
  BY <1>1 DEF Call, Keep, SpuriousWakeup
<1>2. ASSUME NEW t \in Threads, LoadFree(t) \/ LoadReleasing(t) \/ CasFails(t) PROVE OwnerInv'
  BY <1>2 DEF LoadFree, LoadReleasing, CasFails, Keep, Forget
<1>3. ASSUME NEW t \in Threads, AwaitEndOfRelease(t) PROVE OwnerInv'
  BY <1>3 DEF AwaitEndOfRelease, Lock, Reacquire, Keep, Sleep, Unlock
<1>4. ASSUME NEW t \in Runners, LoadPanics(t) \/ Leak(t) PROVE OwnerInv'
  BY <1>4 DEF LoadPanics, Leak, Keep
<1>5. ASSUME NEW t \in Runners, DropLoad(t) \/ DropCasFails(t) PROVE OwnerInv'
  BY <1>5 DEF DropLoad, DropCasFails
<1>6. ASSUME NEW t \in Runners, RunCas(t) PROVE OwnerInv'
  BY <1>6 DEF RunCas, Forget
<1>7. ASSUME NEW t \in Runners, DropCas(t) PROVE OwnerInv'
  BY <1>7 DEF DropCas, Forget
<1>8. ASSUME NEW t \in Runners, DropNotify(t) PROVE OwnerInv'
  BY <1>8 DEF DropNotify, Lock, NotifyAll
<1>9. ASSUME NEW r \in Releasers, ReleaseCas(r) PROVE OwnerInv'
  BY <1>9 DEF ReleaseCas, Forget
<1>10. ASSUME NEW r \in Releasers, AwaitDrained(r) PROVE OwnerInv'
  BY <1>10 DEF AwaitDrained, Lock, Reacquire, Keep, Sleep, Unlock
<1>11. ASSUME NEW r \in Releasers, EndRelease(r) PROVE OwnerInv'
  BY <1>11 DEF EndRelease, StoreZero, Lock, NotifyAll
<1>12. CASE UNCHANGED vars
  BY <1>12 DEF vars
<1> QED
  BY <1>1, <1>2, <1>3, <1>4, <1>5, <1>6, <1>7, <1>8, <1>9, <1>10, <1>11, <1>12
     DEF Next, RunnerStep, ReleaserStep

\* No step loses a wakeup.
LEMMA WakeStep == TypeOK /\ LockInv /\ WaitSetInv /\ SeenInv /\ OwnerInv /\ WakeInv /\ [Next]_vars => WakeInv'
<1> SUFFICES ASSUME TypeOK, LockInv, WaitSetInv, SeenInv, OwnerInv, WakeInv, [Next]_vars PROVE WakeInv'
  OBVIOUS
<1> USE ThreadsAssumption, MaskAssumption
        DEF TypeOK, LockInv, WaitSetInv, SeenInv, OwnerInv, WakeInv, SleepInv,
            NoLostWakeup, CriticalPC, Threads, Goto, RunnerPC, ReleaserPC, EntryPC, DrainPC, NativePC,
            Word, Active, IsReleasing, GRAPH_LEASE_RELEASING
<1>1. ASSUME NEW t \in Threads, Call(t) \/ SpuriousWakeup(t) PROVE WakeInv'
  BY <1>1 DEF Call, Keep, SpuriousWakeup
<1>2. ASSUME NEW t \in Threads, LoadFree(t) \/ LoadReleasing(t) \/ CasFails(t) PROVE WakeInv'
  BY <1>2 DEF LoadFree, LoadReleasing, CasFails, Keep, Forget
<1>3. ASSUME NEW t \in Threads, AwaitEndOfRelease(t) PROVE WakeInv'
  BY <1>3 DEF AwaitEndOfRelease, Lock, Reacquire, Keep, Sleep, Unlock
<1>4. ASSUME NEW t \in Runners, LoadPanics(t) \/ Leak(t) PROVE WakeInv'
  BY <1>4 DEF LoadPanics, Leak, Keep
<1>5. ASSUME NEW t \in Runners, DropLoad(t) \/ DropCasFails(t) PROVE WakeInv'
  BY <1>5 DEF DropLoad, DropCasFails
<1>6. ASSUME NEW t \in Runners, RunCas(t) PROVE WakeInv'
  BY <1>6 DEF RunCas, Forget
<1>7. ASSUME NEW t \in Runners, DropCas(t) PROVE WakeInv'
  BY <1>7 DEF DropCas, Forget
<1>8. ASSUME NEW t \in Runners, DropNotify(t) PROVE WakeInv'
  BY <1>8 DEF DropNotify, Lock, NotifyAll
<1>9. ASSUME NEW r \in Releasers, ReleaseCas(r) PROVE WakeInv'
  BY <1>9 DEF ReleaseCas, Forget
<1>10. ASSUME NEW r \in Releasers, AwaitDrained(r) PROVE WakeInv'
  BY <1>10 DEF AwaitDrained, Lock, Reacquire, Keep, Sleep, Unlock
<1>11. ASSUME NEW r \in Releasers, EndRelease(r) PROVE WakeInv'
  BY <1>11 DEF EndRelease, StoreZero, Lock, NotifyAll
<1>12. CASE UNCHANGED vars
  BY <1>12 DEF vars
<1> QED
  BY <1>1, <1>2, <1>3, <1>4, <1>5, <1>6, <1>7, <1>8, <1>9, <1>10, <1>11, <1>12
     DEF Next, RunnerStep, ReleaserStep
\* Every step keeps the low bits of the word equal to the number of live guards.
LEMMA CountStep == TypeOK /\ SeenInv /\ OwnerInv /\ CountInv /\ [Next]_vars => CountInv'
<1> SUFFICES ASSUME TypeOK, SeenInv, OwnerInv, CountInv, [Next]_vars PROVE CountInv'
  OBVIOUS
<1> USE ThreadsAssumption, MaskAssumption, HoldersFinite
<1>1. ASSUME NEW t \in Runners, RunCas(t) PROVE CountInv'
  <2>1. Holders' = Holders \cup {t} /\ t \notin Holders
    BY <1>1 DEF RunCas, Goto, TypeOK, Holders, Threads
  <2>2. Cardinality(Holders') = Cardinality(Holders) + 1
    BY <2>1, FS_AddElement
  <2>3. Active(state') = Active(state) + 1
    BY <1>1 DEF RunCas, SeenInv, TypeOK, Threads, Word, Active, IsReleasing,
                GRAPH_LEASE_RELEASING, Goto
  <2> QED
    BY <1>1, <2>2, <2>3 DEF CountInv, RunCas, TypeOK, Active
<1>2. ASSUME NEW t \in Runners, DropCas(t) PROVE CountInv'
  <2>1. Holders' = Holders \ {t} /\ t \in Holders
    BY <1>2 DEF DropCas, Goto, TypeOK, Holders, Threads
  <2>2. Cardinality(Holders') = Cardinality(Holders) - 1
    BY <2>1, FS_RemoveElement
  <2>3. Active(state') = Active(state) - 1
    BY <1>2 DEF DropCas, SeenInv, TypeOK, Threads, Word, Active, IsReleasing,
                GRAPH_LEASE_RELEASING, Goto
  <2> QED
    BY <1>2, <2>2, <2>3 DEF CountInv, DropCas, TypeOK, Active
<1>3. ASSUME NEW t \in Runners, Leak(t) PROVE CountInv'
  <2>1. Holders' = Holders \ {t} /\ t \in Holders
    BY <1>3 DEF Leak, Goto, TypeOK, Holders, Threads
  <2>2. Cardinality(Holders') = Cardinality(Holders) - 1
    BY <2>1, FS_RemoveElement
  <2> QED
    BY <1>3, <2>2 DEF CountInv, Leak, TypeOK, Active
<1>4. ASSUME NEW t \in Runners, DropLoad(t) \/ DropCasFails(t) PROVE CountInv'
  <2>1. t \in Holders
    BY <1>4 DEF DropLoad, DropCasFails, Goto, Holders
  <2>2. Cardinality(Holders) # 0
    BY <2>1, FS_EmptySet
  <2>3. Active(state) # 0
    BY <2>2 DEF CountInv, TypeOK
  <2>4. pc' = [pc EXCEPT ![t] = "drop_cas"]
    BY <1>4, <2>3 DEF DropLoad, DropCasFails, Goto
  <2>5. Holders' = Holders
    BY <2>1, <2>4 DEF TypeOK, Holders, Threads
  <2> QED
    BY <1>4, <2>5, CountKept DEF DropLoad, DropCasFails
<1>5. ASSUME NEW t \in Threads, UNCHANGED <<state, leaked>>, t \notin Holders,
             NEW from, NEW to, Goto(t, from, to), to \notin {"running", "drop_cas"}
      PROVE  CountInv'
  <2>1. Holders' = Holders
    BY <1>5 DEF Goto, TypeOK, Holders, Threads
  <2> QED
    BY <1>5, <2>1, CountKept
<1>6. ASSUME NEW t \in Threads, Call(t) PROVE CountInv'
  BY <1>5, <1>6 DEF Call, Keep, Holders, Goto
<1>7. ASSUME NEW t \in Threads, LoadFree(t) PROVE CountInv'
  <2>1. t \notin Holders /\ Goto(t, "load", "cas") /\ UNCHANGED <<state, leaked>>
    BY <1>7 DEF LoadFree, Holders, Goto
  <2> QED
    BY <1>5, <2>1
<1>8. ASSUME NEW t \in Threads, LoadReleasing(t) \/ LoadPanics(t) \/ CasFails(t)
      PROVE  CountInv'
  <2>1. t \notin Holders /\ UNCHANGED <<state, leaked>>
    BY <1>8 DEF LoadReleasing, LoadPanics, CasFails, Keep, Holders, Goto
  <2>2. Goto(t, "load", "lock_end") \/ Goto(t, "load", "idle") \/ Goto(t, "cas", "load")
    BY <1>8 DEF LoadReleasing, LoadPanics, CasFails, Keep
  <2> QED
    BY <1>5, <2>1, <2>2
<1>9. ASSUME NEW t \in Threads, AwaitEndOfRelease(t) PROVE CountInv'
  <2>1. t \notin Holders /\ UNCHANGED <<state, leaked>>
    BY <1>9 DEF AwaitEndOfRelease, Lock, Reacquire, Keep, Sleep, Unlock, Holders, Goto
  <2>2. \/ Goto(t, "lock_end", "check_end") \/ Goto(t, "wait_end", "check_end")
        \/ Goto(t, "check_end", "sleep_end") \/ Goto(t, "sleep_end", "wait_end")
        \/ Goto(t, "check_end", "load")
    BY <1>9 DEF AwaitEndOfRelease, Lock, Reacquire, Keep, Sleep, Unlock
  <2> QED
    BY <1>5, <2>1, <2>2
<1>10. ASSUME NEW t \in Runners, DropNotify(t) PROVE CountInv'
  <2>1. t \notin Holders /\ UNCHANGED <<state, leaked>>
    BY <1>10 DEF DropNotify, Lock, NotifyAll, Holders, Goto
  <2>2. Goto(t, "notify_lock", "notify") \/ Goto(t, "notify", "idle")
    BY <1>10 DEF DropNotify, Lock, NotifyAll
  <2> QED
    BY <1>5, <2>1, <2>2 DEF Threads
<1>11. ASSUME NEW r \in Releasers, ReleaseCas(r) PROVE CountInv'
  <2>1. Holders' = Holders
    BY <1>11 DEF ReleaseCas, Goto, TypeOK, Holders, Threads
  <2>2. Active(state') = Active(state)
    BY <1>11 DEF ReleaseCas, SeenInv, TypeOK, Threads, Word, Active, IsReleasing,
                 GRAPH_LEASE_RELEASING, Goto
  <2> QED
    BY <1>11, <2>1, <2>2 DEF CountInv, ReleaseCas, TypeOK, Active
<1>12. ASSUME NEW r \in Releasers, AwaitDrained(r) PROVE CountInv'
  <2>1. r \notin Holders /\ UNCHANGED <<state, leaked>>
    BY <1>12 DEF AwaitDrained, Lock, Reacquire, Keep, Sleep, Unlock, Holders
  <2>2. \/ Goto(r, "lock_drain", "check_drain") \/ Goto(r, "wait_drain", "check_drain")
        \/ Goto(r, "check_drain", "sleep_drain") \/ Goto(r, "sleep_drain", "wait_drain")
        \/ Goto(r, "check_drain", "native")
    BY <1>12 DEF AwaitDrained, Lock, Reacquire, Keep, Sleep, Unlock
  <2> QED
    BY <1>5, <2>1, <2>2 DEF Threads
<1>13. ASSUME NEW r \in Releasers, StoreZero(r) PROVE CountInv'
  <2>1. Holders' = Holders
    BY <1>13 DEF StoreZero, Goto, TypeOK, Holders, Threads
  <2>2. Active(state) = 0
    BY <1>13 DEF StoreZero, Goto, OwnerInv, NativePC
  <2>3. Active(state') = 0
    BY <1>13 DEF StoreZero, Active, IsReleasing, GRAPH_LEASE_RELEASING
  <2> QED
    BY <1>13, <2>1, <2>2, <2>3 DEF CountInv, StoreZero, TypeOK, Active
<1>14. ASSUME NEW r \in Releasers, EndRelease(r), ~StoreZero(r) PROVE CountInv'
  <2>1. r \notin Holders /\ UNCHANGED <<state, leaked>>
    BY <1>14 DEF EndRelease, Lock, NotifyAll, Holders
  <2>2. Goto(r, "native", "store") \/ Goto(r, "notify_end", "idle")
    BY <1>14 DEF EndRelease, Lock, NotifyAll
  <2> QED
    BY <1>5, <2>1, <2>2 DEF Threads
<1>15. ASSUME NEW t \in Threads, SpuriousWakeup(t) PROVE CountInv'
  BY <1>15, CountKept DEF SpuriousWakeup, Holders
<1>16. CASE UNCHANGED vars
  BY <1>16, CountKept DEF vars, Holders
<1> QED
  BY <1>1, <1>2, <1>3, <1>4, <1>6, <1>7, <1>8, <1>9, <1>10, <1>11, <1>12, <1>13, <1>14,
     <1>15, <1>16 DEF Next, RunnerStep, ReleaserStep, Threads

----------------------------------------------------------------------------

\* The strengthened invariant of the lease holds in every reachable state.
THEOREM LeaseInvariant == Spec => []IInv
<1>1. IInv /\ [Next]_vars => IInv'
  BY TypeStep, LockStep, SeenStep, CountStep, OwnerStep, WakeStep DEF IInv
<1> QED
  BY InitIInv, <1>1, PTL DEF Spec

\* The packed word keeps its width: an overflowing run count panics in begin_run
\* before it can reach the releasing bit.
THEOREM LeaseTypeOK == Spec => []TypeOK
<1>1. IInv => TypeOK
  BY DEF IInv
<1> QED
  BY LeaseInvariant, <1>1, PTL

\* The word counts the live guards and flags the release exactly.
THEOREM LeaseWordIsExact == Spec => []WordIsExact
<1>1. IInv => WordIsExact
  BY DEF IInv, CountInv, OwnerInv, WordIsExact, ReleaseOwners
<1> QED
  BY LeaseInvariant, <1>1, PTL

\* release_captured_graph never calls the provider under a live guard, nor
\* concurrently with another release of the same graph.
THEOREM LeaseExclusion == Spec => []NoRunDuringNativeRelease
<1>1. IInv => NoRunDuringNativeRelease
  <2> SUFFICES ASSUME IInv, NEW r \in Releasers, pc[r] \in NativePC
               PROVE  Holders = {} /\ leaked = 0 /\ ReleaseOwners = {r}
    BY DEF NoRunDuringNativeRelease
  <2>1. Cardinality(Holders) + leaked = 0
    BY DEF IInv, CountInv, OwnerInv
  <2>2. Cardinality(Holders) = 0 /\ leaked = 0
    BY <2>1, HoldersFinite DEF IInv, TypeOK
  <2>3. Holders = {}
    BY <2>2, HoldersFinite, FS_EmptySet
  <2>4. ReleaseOwners = {r}
    BY DEF IInv, OwnerInv, ReleaseOwners
  <2> QED
    BY <2>2, <2>3, <2>4
<1> QED
  BY LeaseInvariant, <1>1, PTL

\* The mutex around the notifications is enough: no sleeping thread is forgotten.
THEOREM LeaseNoLostWakeup == Spec => []NoLostWakeup
<1>1. IInv => NoLostWakeup
  BY DEF IInv, WakeInv
<1> QED
  BY LeaseInvariant, <1>1, PTL
----------------------------------------------------------------------------
(***************************************************************************)
(* Refinement.  Under IInv the abstract variables are functions of the     *)
(* word and of the release owners, so a step maps by what it does to them. *)
(***************************************************************************)

\* Under the invariant the abstract variables are read off the word and the
\* program counters: the mapping's CHOOSE finds the one release owner.
LEMMA Mapping ==
  IInv => /\ GuardsAlive = Active(state)
          /\ \A r \in Releasers : pc[r] \in DrainPC \cup NativePC => ReleaseOwner = r
          /\ ~IsReleasing(state) => ReleaseOwner = NoThread
          /\ IsReleasing(state) => ReleaseOwner \in Releasers
          /\ ProviderCalled \in BOOLEAN
<1> SUFFICES ASSUME IInv
             PROVE  /\ GuardsAlive = Active(state)
                    /\ \A r \in Releasers : pc[r] \in DrainPC \cup NativePC => ReleaseOwner = r
                    /\ ~IsReleasing(state) => ReleaseOwner = NoThread
                    /\ IsReleasing(state) => ReleaseOwner \in Releasers
                    /\ ProviderCalled \in BOOLEAN
  OBVIOUS
<1>1. GuardsAlive = Active(state)
  BY DEF IInv, CountInv, GuardsAlive
<1>2. ASSUME NEW r \in Releasers, pc[r] \in DrainPC \cup NativePC PROVE ReleaseOwner = r
  <2>1. ReleaseOwners = {r}
    BY <1>2 DEF IInv, OwnerInv, ReleaseOwners
  <2> QED
    BY <2>1 DEF ReleaseOwner
<1>3. ~IsReleasing(state) => ReleaseOwner = NoThread
  BY DEF IInv, OwnerInv, ReleaseOwner, ReleaseOwners
<1>4. IsReleasing(state) => ReleaseOwner \in Releasers
  BY <1>2 DEF IInv, OwnerInv
<1>5. ProviderCalled \in BOOLEAN
  BY DEF ProviderCalled
<1> QED
  BY <1>1, <1>2, <1>3, <1>4, <1>5

\* A step that keeps the word's count and every releaser's phase is invisible.
LEMMA Invisible ==
  ASSUME IInv, IInv', Active(state') = Active(state),
         \A r \in Releasers : /\ pc'[r] \in DrainPC <=> pc[r] \in DrainPC
                              /\ pc'[r] \in NativePC <=> pc[r] \in NativePC
  PROVE  UNCHANGED Abstract!vars
<1>2. GuardsAlive' = GuardsAlive
  BY Mapping DEF IInv, CountInv, GuardsAlive, Active
<1>3. ReleaseOwners' = ReleaseOwners
  BY DEF ReleaseOwners
<1>4. ReleaseOwner' = ReleaseOwner
  BY <1>3 DEF ReleaseOwner
<1>5. ProviderCalled' = ProviderCalled
  BY DEF ProviderCalled
<1> QED
  BY <1>2, <1>4, <1>5 DEF Abstract!vars

\* Every step of the lease is a step of ReleaseExclusion or invisible to it.
LEMMA StepSimulation == IInv /\ IInv' /\ [Next]_vars => [Abstract!Next]_(Abstract!vars)
<1> SUFFICES ASSUME IInv, IInv', [Next]_vars
             PROVE  Abstract!Next \/ UNCHANGED Abstract!vars
  OBVIOUS
<1> USE ThreadsAssumption, MaskAssumption
<1>0. /\ TypeOK /\ SeenInv /\ OwnerInv
      /\ GuardsAlive = Active(state) /\ GuardsAlive' = Active(state')
  BY Mapping DEF IInv, CountInv, GuardsAlive, Active
<1>1. ASSUME NEW t \in Runners, RunCas(t) PROVE Abstract!Start
  <2>1. ~IsReleasing(state) /\ Active(state') = Active(state) + 1
    BY <1>0, <1>1 DEF RunCas, SeenInv, TypeOK, Threads, Word, Active, IsReleasing,
                      GRAPH_LEASE_RELEASING, Goto
  <2>2. \A r \in Releasers : pc'[r] = pc[r]
    BY <1>0, <1>1 DEF RunCas, Goto, TypeOK, Threads
  <2>3. ReleaseOwner' = ReleaseOwner /\ ProviderCalled' = ProviderCalled
    <3>1. ReleaseOwners' = ReleaseOwners
      BY <2>2 DEF ReleaseOwners
    <3>2. ProviderCalled' = ProviderCalled
      BY <2>2 DEF ProviderCalled
    <3> QED
      BY <3>1, <3>2 DEF ReleaseOwner
  <2>4. ReleaseOwner = NoThread
    BY <2>1, Mapping
  <2> QED
    BY <1>0, <2>1, <2>3, <2>4 DEF Abstract!Start
<1>2. ASSUME NEW t \in Runners, DropCas(t) PROVE Abstract!Finish
  <2>1. Active(state) > 0 /\ Active(state') = Active(state) - 1
    BY <1>0, <1>2 DEF DropCas, SeenInv, TypeOK, Threads, Word, Active, IsReleasing,
                      GRAPH_LEASE_RELEASING, Goto
  <2>2. \A r \in Releasers : pc'[r] = pc[r]
    BY <1>0, <1>2 DEF DropCas, Goto, TypeOK, Threads
  <2>3. ReleaseOwner' = ReleaseOwner /\ ProviderCalled' = ProviderCalled
    <3>1. ReleaseOwners' = ReleaseOwners
      BY <2>2 DEF ReleaseOwners
    <3>2. ProviderCalled' = ProviderCalled
      BY <2>2 DEF ProviderCalled
    <3> QED
      BY <3>1, <3>2 DEF ReleaseOwner
  <2> QED
    BY <1>0, <2>1, <2>3 DEF Abstract!Finish
<1>3. ASSUME NEW r \in Releasers, ReleaseCas(r) PROVE Abstract!Claim(r)
  <2>1. ~IsReleasing(state) /\ Active(state') = Active(state)
    BY <1>0, <1>3 DEF ReleaseCas, SeenInv, TypeOK, Threads, Word, Active, IsReleasing,
                      GRAPH_LEASE_RELEASING, Goto
  <2>2. pc'[r] = "lock_drain" /\ \A s \in Releasers \ {r} : pc'[s] = pc[s]
    BY <1>0, <1>3 DEF ReleaseCas, Goto, TypeOK, Threads
  <2>3. ReleaseOwners' = {r}
    BY <1>0, <2>1, <2>2 DEF OwnerInv, ReleaseOwners, DrainPC
  <2>4. ReleaseOwner' = r
    BY <2>3 DEF ReleaseOwner
  <2>5. ProviderCalled' = ProviderCalled
    BY <1>0, <2>1, <2>2 DEF OwnerInv, ProviderCalled, NativePC
  <2> QED
    BY <1>0, <2>1, <2>4, <2>5, Mapping DEF Abstract!Claim
<1>4. ASSUME NEW r \in Releasers, Active(state) = 0, Unlock(r, "check_drain", "native")
      PROVE  Abstract!CallNative
  <2>1. pc'[r] = "native" /\ pc[r] = "check_drain" /\ state' = state
        /\ \A s \in Releasers \ {r} : pc'[s] = pc[s]
    BY <1>0, <1>4 DEF Unlock, Goto, TypeOK, Threads
  <2>2. ReleaseOwners' = ReleaseOwners
    BY <2>1 DEF ReleaseOwners, DrainPC, NativePC
  <2>3. ReleaseOwner = r
    BY <2>1, Mapping DEF DrainPC
  <2>4. ReleaseOwner' = ReleaseOwner
    BY <2>2 DEF ReleaseOwner
  <2>5. ~ProviderCalled
    BY <1>0, <2>1 DEF OwnerInv, ProviderCalled, DrainPC, NativePC
  <2>6. ProviderCalled'
    BY <2>1 DEF ProviderCalled, NativePC
  <2>7. GuardsAlive = 0 /\ GuardsAlive' = GuardsAlive
    BY <1>0, <1>4, <2>1
  <2>8. r # NoThread
    OBVIOUS
  <2> QED
    BY <2>3, <2>4, <2>5, <2>6, <2>7, <2>8 DEF Abstract!CallNative
<1>5. ASSUME NEW r \in Releasers, StoreZero(r) PROVE Abstract!ReturnNative
  <2>1. pc[r] = "store" /\ state' = 0 /\ pc'[r] = "notify_end"
        /\ \A s \in Releasers \ {r} : pc'[s] = pc[s]
    BY <1>0, <1>5 DEF StoreZero, Goto, TypeOK, Threads
  <2>2. ProviderCalled /\ Active(state) = 0
    BY <1>0, <2>1 DEF OwnerInv, ProviderCalled, NativePC
  <2>3. \A s \in Releasers : pc'[s] \notin DrainPC \cup NativePC
    BY <1>0, <2>1 DEF OwnerInv, DrainPC, NativePC
  <2>4. ReleaseOwner' = NoThread
    BY <2>3 DEF ReleaseOwner, ReleaseOwners
  <2>5. ~ProviderCalled'
    BY <2>3 DEF ProviderCalled
  <2>6. GuardsAlive' = GuardsAlive
    BY <1>0, <2>1, <2>2 DEF Active, IsReleasing, GRAPH_LEASE_RELEASING
  <2> QED
    BY <2>2, <2>4, <2>5, <2>6 DEF Abstract!ReturnNative
<1>6. ASSUME state' = state,
             \A r \in Releasers : /\ pc'[r] \in DrainPC <=> pc[r] \in DrainPC
                                  /\ pc'[r] \in NativePC <=> pc[r] \in NativePC
      PROVE  UNCHANGED Abstract!vars
  BY <1>6, Invisible
<1> USE <1>0 DEF TypeOK, Threads, Goto, DrainPC, NativePC
<1>7. ASSUME NEW t \in Threads, Call(t) \/ SpuriousWakeup(t) PROVE UNCHANGED Abstract!vars
  BY <1>6, <1>7 DEF Call, Keep, SpuriousWakeup
<1>8. ASSUME NEW t \in Threads, LoadFree(t) \/ LoadReleasing(t) \/ CasFails(t)
      PROVE  UNCHANGED Abstract!vars
  BY <1>6, <1>8 DEF LoadFree, LoadReleasing, CasFails, Keep
<1>9. ASSUME NEW t \in Threads, AwaitEndOfRelease(t) PROVE UNCHANGED Abstract!vars
  BY <1>6, <1>9 DEF AwaitEndOfRelease, Lock, Reacquire, Keep, Sleep, Unlock
<1>10. ASSUME NEW t \in Runners, LoadPanics(t) \/ Leak(t) PROVE UNCHANGED Abstract!vars
  BY <1>6, <1>10 DEF LoadPanics, Leak, Keep
<1>11. ASSUME NEW t \in Runners, DropLoad(t) \/ DropCasFails(t) \/ DropNotify(t)
       PROVE  UNCHANGED Abstract!vars
  BY <1>6, <1>11 DEF DropLoad, DropCasFails, DropNotify, Lock, NotifyAll
<1>12. ASSUME NEW r \in Releasers, AwaitDrained(r),
              ~(Active(state) = 0 /\ Unlock(r, "check_drain", "native"))
       PROVE  UNCHANGED Abstract!vars
  BY <1>6, <1>12 DEF AwaitDrained, Lock, Reacquire, Keep, Sleep
<1>13. ASSUME NEW r \in Releasers, EndRelease(r), ~StoreZero(r)
       PROVE  UNCHANGED Abstract!vars
  BY <1>6, <1>13 DEF EndRelease, Lock, NotifyAll
<1>14. CASE UNCHANGED vars
  BY <1>6, <1>14 DEF vars
<1>15. CASE \E t \in Threads : Call(t) \/ SpuriousWakeup(t)
  BY <1>7, <1>15
<1>16. CASE \E t \in Runners : RunnerStep(t) \/ Leak(t)
  BY <1>1, <1>2, <1>8, <1>9, <1>10, <1>11, <1>16 DEF RunnerStep, Abstract!Next
<1>17. CASE \E r \in Releasers : ReleaserStep(r)
  BY <1>3, <1>4, <1>5, <1>8, <1>9, <1>12, <1>13, <1>17 DEF ReleaserStep, Abstract!Next
<1> QED
  BY <1>14, <1>15, <1>16, <1>17 DEF Next

\* The lease implements what release_captured_graph promises, for any number of
\* runners and releasers.
THEOREM LeaseRefinement == Spec => ImplementsReleaseExclusion
<1>1. Init => Abstract!Init
  <2> SUFFICES ASSUME Init PROVE Abstract!Init
    OBVIOUS
  <2>1. Holders = {} /\ ReleaseOwners = {} /\ ~ProviderCalled
    BY DEF Init, Holders, ReleaseOwners, ProviderCalled, Threads, DrainPC, NativePC
  <2>2. GuardsAlive = 0
    BY <2>1, FS_EmptySet DEF GuardsAlive, Init
  <2> QED
    BY <2>1, <2>2 DEF Abstract!Init, ReleaseOwner
<1> QED
  BY <1>1, StepSimulation, LeaseInvariant, PTL DEF Spec, Abstract!Spec, ImplementsReleaseExclusion
=============================================================================
