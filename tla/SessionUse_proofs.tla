-------------------------- MODULE SessionUse_proofs --------------------------
(***************************************************************************)
(* Proofs about the two users of a session that other code waits on:       *)
(* asynchronous runs, for any set of runs of one session, and the lanes of *)
(* dynamic runtimes, for any sessions, runtimes, shapes and plans.         *)
(*                                                                         *)
(* A plan is classified by loops, which the model has as recursive         *)
(* functions.  Recursion shows that such a function exists, Induction what *)
(* holds of all its values; both quantify over sets, so that no operator   *)
(* is passed to a lemma.                                                   *)
(***************************************************************************)
EXTENDS RunAsync, ServingTopology, WellFoundedInduction, FunctionTheorems, SequenceTheorems, TLAPS

(***************************************************************************)
(* Asynchronous runs                                                       *)
(***************************************************************************)
\* A worker exists exactly for a run that ONNX Runtime accepted.
WorkerInv ==
    \A r \in Runs : w_pc[r] = "none" <=> c_pc[r] \in {"none", "failed", "not_started"}

\* done is published by the worker, and the result is there from its write to its take.
ResultInv ==
    \A r \in Runs :
        /\ done[r] <=> w_pc[r] \in {"wake", "drop_ref", "finished"}
        /\ w_pc[r] = "store" => result[r] # "none"
        /\ resolved[r] => done[r]
        /\ c_pc[r] = "take" => done[r]
        /\ done[r] => resolved[r] \/ result[r] # "none"

\* Between its registration and its second look a poll is either still registered
\* or will see done.
RegisterInv == \A r \in Runs : c_pc[r] = "reload" => waker[r] \/ done[r]

\* AtomicWaker and the second look at done: a future that answered Pending was woken
\* since, or its waker is registered with a worker that has yet to wake it.
NoMissedWake ==
    \A r \in Runs :
        c_pc[r] = "pending" =>
            notified[r] \/ (waker[r] /\ w_pc[r] \in {"running", "write", "store", "wake"})

\* The documented rule for borrowed inputs is enough: the session of such a run is
\* there while the native run goes on.
BorrowedRunKeepsSession == \A r \in Runs : ~owned[r] /\ w_pc[r] = "running" => session

IInv ==
    /\ TypeOK /\ StateIsFreedOnce /\ TakeFollowsWrite
    /\ WorkerInv /\ ResultInv /\ RegisterInv /\ NoMissedWake /\ BorrowedRunKeepsSession

LEMMA InitIInv == Init => IInv
BY DEF Init, IInv, TypeOK, StateIsFreedOnce, TakeFollowsWrite, WorkerInv, ResultInv,
       RegisterInv, NoMissedWake, BorrowedRunKeepsSession, NoFuture

\* Every action of a run changes that run only, and leaves each part of the invariant true
\* of it.
LEMMA NextIInv == IInv /\ [Next]_vars => IInv'
<1> SUFFICES ASSUME IInv, [Next]_vars PROVE IInv'
  OBVIOUS
<1> USE DEF IInv, TypeOK, StateIsFreedOnce, TakeFollowsWrite, WorkerInv, ResultInv,
            RegisterInv, NoMissedWake, BorrowedRunKeepsSession, NoFuture, Set,
            caller, state, memory
<1>1. ASSUME NEW r \in Runs, RejectInputs(r) PROVE IInv'
  BY <1>1 DEF RejectInputs
<1>2. ASSUME NEW r \in Runs, run_async_owned(r) PROVE IInv'
  BY <1>2 DEF run_async_owned
<1>3. ASSUME NEW r \in Runs, Started(r) PROVE IInv'
  BY <1>3 DEF Started
<1>4. ASSUME NEW r \in Runs, NotStarted(r) PROVE IInv'
  BY <1>4 DEF NotStarted
<1>5. ASSUME NEW r \in Runs, Poll(r) PROVE IInv'
  BY <1>5 DEF Poll
<1>6. ASSUME NEW r \in Runs, Polling(r) PROVE IInv'
  <2>1. CASE FirstLoad(r)
    BY <2>1 DEF FirstLoad
  <2>2. CASE Register(r)
    BY <2>2 DEF Register
  <2>3. CASE SecondLoad(r)
    BY <2>3 DEF SecondLoad
  <2>4. CASE take_result(r)
    BY <2>4 DEF take_result
  <2> QED
    BY <1>6, <2>1, <2>2, <2>3, <2>4 DEF Polling
<1>7. ASSUME NEW r \in Runs, drop_future(r) PROVE IInv'
  BY <1>7 DEF drop_future
<1>8. ASSUME NEW r \in Runs, Worker(r) PROVE IInv'
  <2>1. CASE NativeRunEnds(r)
    BY <2>1 DEF NativeRunEnds
  <2>2. CASE Publish(r)
    <3>1. CASE w_pc[r] = "write"
      BY <2>2, <3>1 DEF Publish
    <3>2. CASE w_pc[r] = "store"
      <4>1. /\ done' = [done EXCEPT ![r] = TRUE] /\ w_pc' = [w_pc EXCEPT ![r] = "wake"]
            /\ UNCHANGED <<caller, refs, result, waker, memory>>
        BY <2>2, <3>2 DEF Publish
      <4>2. TypeOK'
        BY <4>1
      <4>3. ResultInv'
        BY <3>2, <4>1
      <4>4. StateIsFreedOnce' /\ TakeFollowsWrite' /\ WorkerInv'
        BY <3>2, <4>1
      <4>5. RegisterInv' /\ NoMissedWake' /\ BorrowedRunKeepsSession'
        BY <3>2, <4>1
      <4> QED
        BY <4>2, <4>3, <4>4, <4>5
    <3> QED
      BY <2>2, <3>1, <3>2 DEF Publish
  <2>3. CASE Wake(r)
    BY <2>3 DEF Wake
  <2>4. CASE CallbackReturns(r)
    BY <2>4 DEF CallbackReturns
  <2> QED
    BY <1>8, <2>1, <2>2, <2>3, <2>4 DEF Worker
<1>9. CASE DropSession
  BY <1>9 DEF DropSession, MayForget
<1>10. CASE UNCHANGED vars
  BY <1>10 DEF vars
<1> QED
  BY <1>1, <1>2, <1>3, <1>4, <1>5, <1>6, <1>7, <1>8, <1>9, <1>10 DEF Next

LEMMA AsyncIInv == Spec => []IInv
BY InitIInv, NextIInv, PTL DEF Spec

\* Callers, workers and shared states keep their types.
THEOREM AsyncTypeOK == Spec => []TypeOK
<1>1. IInv => TypeOK
  BY DEF IInv
<1> QED
  BY <1>1, AsyncIInv, PTL

\* The shared state is freed exactly when both sides are through with it: no use after
\* free and no leak in run_async_owned, RunFuture's drop and run_async_callback.
THEOREM AsyncStateIsFreedOnce == Spec => []StateIsFreedOnce
<1>1. IInv => StateIsFreedOnce
  BY DEF IInv
<1> QED
  BY <1>1, AsyncIInv, PTL

\* poll takes the result after the callback has written it, and never beside it.
THEOREM AsyncTakeFollowsWrite == Spec => []TakeFollowsWrite
<1>1. IInv => TakeFollowsWrite
  BY DEF IInv
<1> QED
  BY <1>1, AsyncIInv, PTL

\* A future that answered Pending is always woken: the safety half of RunResolves.
THEOREM AsyncNoMissedWake == Spec => []NoMissedWake
<1>1. IInv => NoMissedWake
  BY DEF IInv
<1> QED
  BY <1>1, AsyncIInv, PTL

\* A caller of run_async who keeps session and inputs until the future resolves keeps
\* them until the native run is over.
THEOREM AsyncBorrowedRunKeepsSession == Spec => []BorrowedRunKeepsSession
<1>1. IInv => BorrowedRunKeepsSession
  BY DEF IInv
<1> QED
  BY <1>1, AsyncIInv, PTL

(***************************************************************************)
(* Recursive functions                                                     *)
(***************************************************************************)
LEMMA Least ==
  ASSUME NEW S, S \subseteq Nat, S # {}
  PROVE  \E m \in S : \A k \in S : m <= k
<1>1. PICK m \in S : \A y \in S : ~(<<y, m>> \in OpToRel(<, Nat))
  BY WFMin, NatLessThanWellFounded
<1>2. \A y \in S : ~(y < m)
  BY <1>1 DEF OpToRel
<1> QED
  BY <1>2

\* Induction up to n, for a set instead of a predicate.
LEMMA Induction ==
  ASSUME NEW n \in Nat, NEW S, 0 \in S, \A k \in 1..n : k - 1 \in S => k \in S
  PROVE  0..n \subseteq S
<1> DEFINE T == (0..n) \ S
<1>1. ASSUME T # {} PROVE FALSE
  <2>1. T \subseteq Nat
    OBVIOUS
  <2>2. PICK m \in T : \A k \in T : m <= k
    <3> HIDE DEF T
    <3> QED
      BY <1>1, <2>1, Least
  <2>3. m \in 1..n /\ m - 1 \in 0..n
    BY <2>2
  <2>4. m - 1 \notin T
    BY <2>2, <2>3
  <2> QED
    BY <2>2, <2>3, <2>4
<1> QED
  BY <1>1

\* A function that gives each value from the one before.
Recursive(f, n, V, base, step) ==
    f \in [0..n -> V] /\ f[0] = base /\ \A k \in 1..n : f[k] = step[k][f[k - 1]]

LEMMA Recursion ==
  ASSUME NEW n \in Nat, NEW V, NEW base \in V, NEW step \in [1..n -> [V -> V]]
  PROVE  \E f : Recursive(f, n, V, base, step)
<1> DEFINE Upto(m, f) ==
        f \in [0..m -> V] /\ f[0] = base /\ \A k \in 1..m : f[k] = step[k][f[k - 1]]
    S == {m \in 0..n : \E f : Upto(m, f)}
<1>1. 0 \in S
  <2> DEFINE f == [k \in 0..0 |-> base]
  <2>1. f \in [0..0 -> V] /\ f[0] = base /\ 1..0 = {}
    OBVIOUS
  <2>2. Upto(0, f)
    BY <2>1
  <2> HIDE DEF f
  <2> QED
    BY <2>2
<1>2. ASSUME NEW m \in 1..n, m - 1 \in S PROVE m \in S
  <2>1. PICK f : Upto(m - 1, f)
    BY <1>2
  <2> DEFINE g == [k \in 0..m |-> IF k = m THEN step[m][f[m - 1]] ELSE f[k]]
  <2>2. f[m - 1] \in V /\ step[m] \in [V -> V] /\ step[m][f[m - 1]] \in V
    <3>1. m - 1 \in 0..(m - 1) /\ m \in 1..n
      OBVIOUS
    <3>2. f[m - 1] \in V
      BY <2>1, <3>1
    <3>3. step[m] \in [V -> V]
      BY <3>1
    <3> QED
      BY <3>2, <3>3
  <2>3. g \in [0..m -> V]
    BY <2>1, <2>2
  <2>4. g[0] = base /\ \A k \in 1..m : g[k] = step[k][g[k - 1]]
    BY <2>1
  <2>5. Upto(m, g)
    BY <2>3, <2>4
  <2>6. m \in 0..n
    OBVIOUS
  <2> HIDE DEF g, Upto
  <2> QED
    BY <2>5, <2>6
<1> HIDE DEF S
<1>3. 0..n \subseteq S
  BY <1>1, <1>2, Induction
<1> QED
  BY <1>3 DEF S, Recursive

\* Such a function has its values in V.
LEMMA RecursiveType ==
  ASSUME NEW n \in Nat, NEW V, NEW f, f[0] \in V, \A k \in 1..n : f[k - 1] \in V => f[k] \in V
  PROVE  \A k \in 0..n : f[k] \in V
<1> DEFINE S == {k \in 0..n : f[k] \in V}
<1>1. 0 \in S
  OBVIOUS
<1>2. \A k \in 1..n : k - 1 \in S => k \in S
  OBVIOUS
<1> HIDE DEF S
<1>3. 0..n \subseteq S
  BY <1>1, <1>2, Induction
<1> QED
  BY <1>3 DEF S

(***************************************************************************)
(* Element counts                                                          *)
(***************************************************************************)
Positive(shape) == shape \in Seq(Int) /\ \A j \in DOMAIN shape : shape[j] > 0
Dimensions(shapes) == shapes \in Seq(Seq(Int)) /\ \A i \in DOMAIN shapes : Positive(shapes[i])

LEMMA Times ==
  ASSUME NEW a \in Int, NEW b \in Int, a >= 1, b >= 1
  PROVE  a * b \in Int /\ a * b >= a
OBVIOUS

LEMMA TimesMonotone ==
  ASSUME NEW a \in Int, NEW b \in Int, NEW c \in Int, NEW d \in Int,
         a >= 0, a <= c, b >= 0, b <= d
  PROVE  a * b <= c * d
OBVIOUS

Product(shape, f) ==
    /\ f[0] = 1
    /\ \A k \in 1..Len(shape) : f[k] = f[k - 1] * shape[k]
    /\ \A k \in 0..Len(shape) : f[k] \in Int /\ f[k] >= 1

\* The product of the dimensions, one after the other.
LEMMA ElementsOfIs ==
  ASSUME NEW shape, Positive(shape)
  PROVE  \E f : Product(shape, f) /\ ElementsOf(shape) = f[Len(shape)]
<1> DEFINE P(f) == f = [k \in 0..Len(shape) |-> IF k = 0 THEN 1 ELSE f[k - 1] * shape[k]]
    g == CHOOSE f : P(f)
    step == [k \in 1..Len(shape) |-> [x \in Int |-> x * shape[k]]]
<1>1. Len(shape) \in Nat /\ \A k \in 1..Len(shape) : shape[k] \in Int /\ shape[k] >= 1
  BY DEF Positive
<1>2. step \in [1..Len(shape) -> [Int -> Int]]
  BY <1>1
<1>3. \E f : Recursive(f, Len(shape), Int, 1, step)
  <2>1. Len(shape) \in Nat /\ 1 \in Int
    BY <1>1
  <2> HIDE DEF step
  <2> QED
    BY <1>2, <2>1, Recursion
<1>4. PICK f : f \in [0..Len(shape) -> Int] /\ f[0] = 1 /\ \A k \in 1..Len(shape) : f[k] = step[k][f[k - 1]]
  <2> HIDE DEF step
  <2> QED
    BY <1>3 DEF Recursive
<1>5. \A k \in 0..Len(shape) : f[k] = IF k = 0 THEN 1 ELSE f[k - 1] * shape[k]
  <2> TAKE k \in 0..Len(shape)
  <2>1. CASE k = 0
    BY <2>1, <1>4
  <2>2. CASE k # 0
    <3>1. k \in 1..Len(shape) /\ k - 1 \in 0..Len(shape)
      BY <2>2, <1>1
    <3>2. f[k - 1] \in Int
      BY <3>1, <1>4
    <3> QED
      BY <3>1, <3>2, <2>2, <1>4
  <2> QED
    BY <2>1, <2>2
<1>6. P(f)
  BY <1>4, <1>5
<1>7. P(g)
  <2> HIDE DEF P
  <2> QED
    BY <1>6
<1>8. ElementsOf(shape) = g[Len(shape)]
  BY DEF ElementsOf
<1> HIDE DEF g
<1>9. g[0] = 1 /\ \A k \in 1..Len(shape) : g[k] = g[k - 1] * shape[k]
  BY <1>1, <1>7
<1>10. \A k \in 0..Len(shape) : g[k] \in Nat \ {0}
  <2>1. g[0] \in Nat \ {0}
    BY <1>9
  <2>2. ASSUME NEW k \in 1..Len(shape), g[k - 1] \in Nat \ {0} PROVE g[k] \in Nat \ {0}
    BY <1>1, <1>9, <2>2, Times
  <2> QED
    BY <1>1, <2>1, <2>2, RecursiveType
<1> QED
  BY <1>8, <1>9, <1>10 DEF Product

Sum(shapes, f) ==
    /\ f[0] = 0
    /\ \A k \in 1..Len(shapes) : f[k] = f[k - 1] + ElementsOf(shapes[k])
    /\ \A k \in 0..Len(shapes) : f[k] \in Nat

LEMMA ElementsOfType ==
  ASSUME NEW shape, Positive(shape)
  PROVE  ElementsOf(shape) \in Nat \ {0}
<1>1. PICK f : Product(shape, f) /\ ElementsOf(shape) = f[Len(shape)]
  BY ElementsOfIs
<1>2. Len(shape) \in 0..Len(shape)
  BY DEF Positive
<1> QED
  BY <1>1, <1>2 DEF Product

\* The sum of the products, one after the other.
LEMMA ElementsIs ==
  ASSUME NEW shapes, Dimensions(shapes)
  PROVE  \E f : Sum(shapes, f) /\ Elements(shapes) = f[Len(shapes)]
<1> DEFINE P(f) == f = [k \in 0..Len(shapes) |-> IF k = 0 THEN 0 ELSE f[k - 1] + ElementsOf(shapes[k])]
    g == CHOOSE f : P(f)
    step == [k \in 1..Len(shapes) |-> [x \in Nat |-> x + ElementsOf(shapes[k])]]
<1>1. Len(shapes) \in Nat /\ \A k \in 1..Len(shapes) : ElementsOf(shapes[k]) \in Nat \ {0}
  BY ElementsOfType DEF Dimensions
<1>2. step \in [1..Len(shapes) -> [Nat -> Nat]]
  BY <1>1
<1>3. \E f : Recursive(f, Len(shapes), Nat, 0, step)
  <2>1. Len(shapes) \in Nat /\ 0 \in Nat
    BY <1>1
  <2> HIDE DEF step
  <2> QED
    BY <1>2, <2>1, Recursion
<1>4. PICK f : f \in [0..Len(shapes) -> Nat] /\ f[0] = 0 /\ \A k \in 1..Len(shapes) : f[k] = step[k][f[k - 1]]
  <2> HIDE DEF step
  <2> QED
    BY <1>3 DEF Recursive
<1>5. \A k \in 0..Len(shapes) : f[k] = IF k = 0 THEN 0 ELSE f[k - 1] + ElementsOf(shapes[k])
  <2> TAKE k \in 0..Len(shapes)
  <2>1. CASE k = 0
    BY <2>1, <1>4
  <2>2. CASE k # 0
    <3>1. k \in 1..Len(shapes) /\ k - 1 \in 0..Len(shapes)
      BY <2>2, <1>1
    <3>2. f[k - 1] \in Nat
      BY <3>1, <1>4
    <3> QED
      BY <3>1, <3>2, <2>2, <1>4
  <2> QED
    BY <2>1, <2>2
<1>6. P(f)
  BY <1>4, <1>5
<1>7. P(g)
  <2> HIDE DEF P
  <2> QED
    BY <1>6
<1>8. Elements(shapes) = g[Len(shapes)]
  BY DEF Elements
<1> HIDE DEF g
<1>9. g[0] = 0 /\ \A k \in 1..Len(shapes) : g[k] = g[k - 1] + ElementsOf(shapes[k])
  BY <1>1, <1>7
<1>10. \A k \in 0..Len(shapes) : g[k] \in Nat
  <2>1. g[0] \in Nat
    BY <1>9
  <2>2. ASSUME NEW k \in 1..Len(shapes), g[k - 1] \in Nat PROVE g[k] \in Nat
    BY <1>1, <1>9, <2>2
  <2> QED
    BY <1>1, <2>1, <2>2, RecursiveType
<1> QED
  BY <1>8, <1>9, <1>10 DEF Sum

LEMMA ElementsType ==
  ASSUME NEW shapes, Dimensions(shapes)
  PROVE  Elements(shapes) \in Nat /\ (shapes # <<>> => Elements(shapes) >= 1)
<1>1. PICK f : Sum(shapes, f) /\ Elements(shapes) = f[Len(shapes)]
  BY ElementsIs
<1>2. Len(shapes) \in Nat /\ (shapes # <<>> => Len(shapes) \in 1..Len(shapes))
  BY DEF Dimensions
<1>3. ASSUME shapes # <<>> PROVE f[Len(shapes)] >= 1
  <2>1. f[Len(shapes)] = f[Len(shapes) - 1] + ElementsOf(shapes[Len(shapes)])
    BY <1>1, <1>2, <1>3 DEF Sum
  <2>2. f[Len(shapes) - 1] \in Nat
    BY <1>1, <1>2, <1>3 DEF Sum
  <2>3. ElementsOf(shapes[Len(shapes)]) \in Nat \ {0}
    BY <1>2, <1>3, ElementsOfType DEF Dimensions
  <2> QED
    BY <2>1, <2>2, <2>3
<1> QED
  BY <1>1, <1>2, <1>3 DEF Sum

(***************************************************************************)
(* The checked counts                                                      *)
(***************************************************************************)
LEMMA CheckedType ==
  /\ \A n \in Int, d \in Int : CheckedMul(n, d) \in Int
  /\ \A n \in Int, c \in Int : CheckedAdd(n, c) \in Int
BY DEF CheckedMul, CheckedAdd, Checked, Overflow

LEMMA CheckedProductIs ==
  ASSUME NEW shape, Positive(shape)
  PROVE  \E f : /\ f[0] = 1 /\ \A k \in 1..Len(shape) : f[k] = CheckedMul(f[k - 1], shape[k])
                /\ CheckedProduct(shape) = f[Len(shape)]
<1> DEFINE P(f) == f = [k \in 0..Len(shape) |-> IF k = 0 THEN 1 ELSE CheckedMul(f[k - 1], shape[k])]
    g == CHOOSE f : P(f)
    step == [k \in 1..Len(shape) |-> [x \in Int |-> CheckedMul(x, shape[k])]]
<1>1. Len(shape) \in Nat /\ \A k \in 1..Len(shape) : shape[k] \in Int
  BY DEF Positive
<1>2. step \in [1..Len(shape) -> [Int -> Int]]
  BY <1>1, CheckedType
<1>3. \E f : Recursive(f, Len(shape), Int, 1, step)
  <2>1. Len(shape) \in Nat /\ 1 \in Int
    BY <1>1
  <2> HIDE DEF step
  <2> QED
    BY <1>2, <2>1, Recursion
<1>4. PICK f : f \in [0..Len(shape) -> Int] /\ f[0] = 1 /\ \A k \in 1..Len(shape) : f[k] = step[k][f[k - 1]]
  <2> HIDE DEF step
  <2> QED
    BY <1>3 DEF Recursive
<1>5. \A k \in 0..Len(shape) : f[k] = IF k = 0 THEN 1 ELSE CheckedMul(f[k - 1], shape[k])
  <2> TAKE k \in 0..Len(shape)
  <2>1. CASE k = 0
    BY <2>1, <1>4
  <2>2. CASE k # 0
    <3>1. k \in 1..Len(shape) /\ k - 1 \in 0..Len(shape)
      BY <2>2, <1>1
    <3>2. f[k - 1] \in Int
      BY <3>1, <1>4
    <3> QED
      BY <3>1, <3>2, <2>2, <1>4
  <2> QED
    BY <2>1, <2>2
<1>6. P(f)
  BY <1>4, <1>5
<1>7. P(g)
  <2> HIDE DEF P
  <2> QED
    BY <1>6
<1>8. CheckedProduct(shape) = g[Len(shape)]
  BY DEF CheckedProduct
<1> HIDE DEF g
<1>9. g[0] = 1 /\ \A k \in 1..Len(shape) : g[k] = CheckedMul(g[k - 1], shape[k])
  BY <1>1, <1>7
<1> QED
  BY <1>8, <1>9

\* The checked product overflows exactly if the product is above the limit.
LEMMA CheckedProductValue ==
  ASSUME NEW shape, Positive(shape)
  PROVE  CheckedProduct(shape) =
            IF shape # <<>> /\ ElementsOf(shape) > ElementLimit THEN Overflow ELSE ElementsOf(shape)
<1>1. PICK p : Product(shape, p) /\ ElementsOf(shape) = p[Len(shape)]
  BY ElementsOfIs
<1>2. PICK f : /\ f[0] = 1 /\ \A k \in 1..Len(shape) : f[k] = CheckedMul(f[k - 1], shape[k])
               /\ CheckedProduct(shape) = f[Len(shape)]
  BY CheckedProductIs
<1> DEFINE Right(k) == f[k] = IF k > 0 /\ p[k] > ElementLimit THEN Overflow ELSE p[k]
    S == {k \in 0..Len(shape) : Right(k)}
<1>3. Len(shape) \in Nat /\ \A k \in 1..Len(shape) : shape[k] \in Int /\ shape[k] >= 1
  BY DEF Positive
<1>4. 0 \in S
  BY <1>1, <1>2, <1>3 DEF Product
<1>5. ASSUME NEW k \in 1..Len(shape), k - 1 \in S PROVE k \in S
  <2>1. p[k - 1] \in Int /\ p[k - 1] >= 1 /\ p[k] \in Int /\ p[k] = p[k - 1] * shape[k]
    BY <1>1, <1>3 DEF Product
  <2>2. p[k] >= p[k - 1]
    BY <1>3, <2>1, Times
  <2>3. f[k] = CheckedMul(f[k - 1], shape[k])
    BY <1>2
  <2>4. CASE f[k - 1] = p[k - 1]
    <3>1. f[k] = Checked(p[k])
      BY <2>1, <2>3, <2>4 DEF CheckedMul, Overflow
    <3> QED
      BY <3>1, <2>1 DEF Checked
  <2>5. CASE f[k - 1] = Overflow /\ p[k - 1] > ElementLimit
    <3>1. f[k] = Overflow
      BY <2>3, <2>5 DEF CheckedMul
    <3> QED
      BY <3>1, <2>1, <2>2, <2>5, PlanAssumption
  <2> QED
    BY <1>5, <2>4, <2>5
<1> HIDE DEF S
<1>6. 0..Len(shape) \subseteq S
  BY <1>3, <1>4, <1>5, Induction
<1>7. Right(Len(shape)) /\ (Len(shape) > 0 <=> shape # <<>>)
  BY <1>3, <1>6 DEF S, Positive
<1> QED
  BY <1>1, <1>2, <1>7

LEMMA CheckedProductType ==
  ASSUME NEW shape, Positive(shape)
  PROVE  CheckedProduct(shape) \in Int
BY CheckedProductValue, ElementsOfType DEF Overflow

LEMMA ElementCountIs ==
  ASSUME NEW shapes, Dimensions(shapes)
  PROVE  \E f : /\ f[0] = 0
                /\ \A k \in 1..Len(shapes) : f[k] = CheckedAdd(f[k - 1], CheckedProduct(shapes[k]))
                /\ ElementCount(shapes) = f[Len(shapes)]
<1> DEFINE P(f) == f = [k \in 0..Len(shapes) |->
                           IF k = 0 THEN 0 ELSE CheckedAdd(f[k - 1], CheckedProduct(shapes[k]))]
    g == CHOOSE f : P(f)
    step == [k \in 1..Len(shapes) |-> [x \in Int |-> CheckedAdd(x, CheckedProduct(shapes[k]))]]
<1>1. Len(shapes) \in Nat /\ \A k \in 1..Len(shapes) : CheckedProduct(shapes[k]) \in Int
  BY CheckedProductType DEF Dimensions
<1>2. step \in [1..Len(shapes) -> [Int -> Int]]
  BY <1>1, CheckedType
<1>3. \E f : Recursive(f, Len(shapes), Int, 0, step)
  <2>1. Len(shapes) \in Nat /\ 0 \in Int
    BY <1>1
  <2> HIDE DEF step
  <2> QED
    BY <1>2, <2>1, Recursion
<1>4. PICK f : f \in [0..Len(shapes) -> Int] /\ f[0] = 0 /\ \A k \in 1..Len(shapes) : f[k] = step[k][f[k - 1]]
  <2> HIDE DEF step
  <2> QED
    BY <1>3 DEF Recursive
<1>5. \A k \in 0..Len(shapes) : f[k] = IF k = 0 THEN 0 ELSE CheckedAdd(f[k - 1], CheckedProduct(shapes[k]))
  <2> TAKE k \in 0..Len(shapes)
  <2>1. CASE k = 0
    BY <2>1, <1>4
  <2>2. CASE k # 0
    <3>1. k \in 1..Len(shapes) /\ k - 1 \in 0..Len(shapes)
      BY <2>2, <1>1
    <3>2. f[k - 1] \in Int
      BY <3>1, <1>4
    <3> QED
      BY <3>1, <3>2, <2>2, <1>4
  <2> QED
    BY <2>1, <2>2
<1>6. P(f)
  BY <1>4, <1>5
<1>7. P(g)
  <2> HIDE DEF P
  <2> QED
    BY <1>6
<1>8. ElementCount(shapes) = g[Len(shapes)]
  BY DEF ElementCount
<1> HIDE DEF g
<1>9. g[0] = 0 /\ \A k \in 1..Len(shapes) : g[k] = CheckedAdd(g[k - 1], CheckedProduct(shapes[k]))
  BY <1>1, <1>7
<1> QED
  BY <1>8, <1>9

\* requested_element_count and fitting_element_counts, which share the checked
\* arithmetic: they overflow exactly if the number of elements is above the limit.
LEMMA CountLemma ==
  ASSUME NEW shapes, Dimensions(shapes)
  PROVE  ElementCount(shapes) = IF Elements(shapes) > ElementLimit THEN Overflow ELSE Elements(shapes)
<1>1. PICK s : Sum(shapes, s) /\ Elements(shapes) = s[Len(shapes)]
  BY ElementsIs
<1>2. PICK f : /\ f[0] = 0
               /\ \A k \in 1..Len(shapes) : f[k] = CheckedAdd(f[k - 1], CheckedProduct(shapes[k]))
               /\ ElementCount(shapes) = f[Len(shapes)]
  BY ElementCountIs
<1> DEFINE Right(k) == f[k] = IF s[k] > ElementLimit THEN Overflow ELSE s[k]
    S == {k \in 0..Len(shapes) : Right(k)}
<1>3. Len(shapes) \in Nat /\ \A k \in 1..Len(shapes) : Positive(shapes[k])
  BY DEF Dimensions
<1>4. 0 \in S
  BY <1>1, <1>2, <1>3, PlanAssumption DEF Sum
<1>5. ASSUME NEW k \in 1..Len(shapes), k - 1 \in S PROVE k \in S
  <2> DEFINE e == ElementsOf(shapes[k])
      c == CheckedProduct(shapes[k])
  <2>1. s[k - 1] \in Nat /\ s[k] \in Nat /\ s[k] = s[k - 1] + e
    BY <1>1, <1>3 DEF Sum
  <2>2. e \in Nat \ {0} /\ (c = e \/ (c = Overflow /\ e > ElementLimit))
    BY <1>3, ElementsOfType, CheckedProductValue
  <2>3. f[k] = CheckedAdd(f[k - 1], c)
    BY <1>2
  <2> HIDE DEF e, c
  <2>4. CASE f[k - 1] = Overflow /\ s[k - 1] > ElementLimit
    <3>1. f[k] = Overflow
      BY <2>3, <2>4 DEF CheckedAdd
    <3> QED
      BY <3>1, <2>1, <2>2, <2>4, PlanAssumption
  <2>5. CASE f[k - 1] = s[k - 1] /\ c = Overflow /\ e > ElementLimit
    <3>1. f[k] = Overflow
      BY <2>3, <2>5 DEF CheckedAdd
    <3> QED
      BY <3>1, <2>1, <2>2, <2>5, PlanAssumption
  <2>6. CASE f[k - 1] = s[k - 1] /\ c = e
    <3>1. f[k] = Checked(s[k])
      BY <2>1, <2>2, <2>3, <2>6 DEF CheckedAdd, Overflow
    <3> QED
      BY <3>1, <2>1 DEF Checked
  <2> QED
    BY <1>5, <2>2, <2>4, <2>5, <2>6
<1> HIDE DEF S
<1>6. 0..Len(shapes) \subseteq S
  BY <1>3, <1>4, <1>5, Induction
<1>7. Right(Len(shapes))
  BY <1>3, <1>6 DEF S
<1> QED
  BY <1>1, <1>2, <1>7

(***************************************************************************)
(* Fitting                                                                 *)
(***************************************************************************)
LEMMA ProductMonotone ==
  ASSUME NEW r, Positive(r), NEW c, Positive(c), Len(r) = Len(c), \A j \in DOMAIN r : r[j] <= c[j]
  PROVE  ElementsOf(r) <= ElementsOf(c)
<1>1. PICK p : Product(r, p) /\ ElementsOf(r) = p[Len(r)]
  BY ElementsOfIs
<1>2. PICK q : Product(c, q) /\ ElementsOf(c) = q[Len(c)]
  BY ElementsOfIs
<1> DEFINE S == {k \in 0..Len(r) : p[k] <= q[k]}
<1>3. Len(r) \in Nat /\ \A k \in 1..Len(r) : r[k] \in Int /\ c[k] \in Int /\ r[k] >= 1 /\ r[k] <= c[k]
  BY DEF Positive
<1>4. 0 \in S
  BY <1>1, <1>2, <1>3 DEF Product
<1>5. ASSUME NEW k \in 1..Len(r), k - 1 \in S PROVE k \in S
  <2>1. /\ p[k - 1] \in Int /\ p[k - 1] >= 1 /\ p[k] = p[k - 1] * r[k]
        /\ q[k - 1] \in Int /\ q[k] = q[k - 1] * c[k]
    BY <1>1, <1>2, <1>3 DEF Product
  <2>2. p[k - 1] * r[k] <= q[k - 1] * c[k]
    <3>1. p[k - 1] >= 0 /\ p[k - 1] <= q[k - 1] /\ r[k] >= 0
      BY <1>3, <1>5, <2>1
    <3> QED
      BY <1>3, <2>1, <3>1, TimesMonotone
  <2> QED
    BY <2>1, <2>2
<1> HIDE DEF S
<1>6. 0..Len(r) \subseteq S
  BY <1>3, <1>4, <1>5, Induction
<1>7. p[Len(r)] <= q[Len(r)]
  BY <1>3, <1>6 DEF S
<1> QED
  BY <1>1, <1>2, <1>7

\* The dimensions of r are at most those of c.
Within(r, c) ==
    /\ Len(r) = Len(c)
    /\ \A i \in DOMAIN r : Len(r[i]) = Len(c[i]) /\ \A j \in DOMAIN r[i] : r[i][j] <= c[i][j]

LEMMA SumMonotone ==
  ASSUME NEW r, Dimensions(r), NEW c, Dimensions(c), Within(r, c)
  PROVE  Elements(r) <= Elements(c)
<1>1. PICK p : Sum(r, p) /\ Elements(r) = p[Len(r)]
  BY ElementsIs
<1>2. PICK q : Sum(c, q) /\ Elements(c) = q[Len(c)]
  BY ElementsIs
<1> DEFINE S == {k \in 0..Len(r) : p[k] <= q[k]}
<1>3. Len(r) \in Nat /\ Len(c) = Len(r)
  BY DEF Dimensions, Within
<1>4. 0 \in S
  BY <1>1, <1>2, <1>3 DEF Sum
<1>5. ASSUME NEW k \in 1..Len(r), k - 1 \in S PROVE k \in S
  <2>1. /\ p[k - 1] \in Nat /\ p[k] = p[k - 1] + ElementsOf(r[k])
        /\ q[k - 1] \in Nat /\ q[k] = q[k - 1] + ElementsOf(c[k])
    BY <1>1, <1>2, <1>3 DEF Sum
  <2>2. Positive(r[k]) /\ Positive(c[k]) /\ k \in DOMAIN r
    <3>1. DOMAIN r = 1..Len(r) /\ DOMAIN c = 1..Len(r)
      BY <1>3 DEF Dimensions
    <3> QED
      BY <3>1 DEF Dimensions
  <2>3. ElementsOf(r[k]) <= ElementsOf(c[k])
    BY <2>2, ProductMonotone DEF Within
  <2>4. ElementsOf(r[k]) \in Nat /\ ElementsOf(c[k]) \in Nat
    BY <2>2, ElementsOfType
  <2> QED
    BY <1>5, <2>1, <2>3, <2>4
<1> HIDE DEF S
<1>6. 0..Len(r) \subseteq S
  BY <1>3, <1>4, <1>5, Induction
<1>7. p[Len(r)] <= q[Len(r)]
  BY <1>3, <1>6 DEF S
<1> QED
  BY <1>1, <1>2, <1>3, <1>7

\* The condition under which a bucket can take a request.
Fits(r, c) ==
    /\ Len(r) = Len(c)
    /\ \A i \in DOMAIN r :
          /\ Len(r[i]) = Len(c[i])
          /\ \A j \in DOMAIN r[i] : r[i][j] > 0 /\ c[i][j] >= r[i][j]

LEMMA FitsTypes ==
  ASSUME NEW r \in Seq(Seq(Int)), NEW c, Dimensions(c), Fits(r, c)
  PROVE  /\ Dimensions(r) /\ Within(r, c)
         /\ \A i \in DOMAIN r : r[i] \in Seq(Int) /\ c[i] \in Seq(Int)
<1>1. Len(r) = Len(c) /\ DOMAIN r = 1..Len(r) /\ DOMAIN c = 1..Len(r) /\ c \in Seq(Seq(Int))
  BY DEF Dimensions, Fits
<1>2. \A i \in DOMAIN r : /\ r[i] \in Seq(Int) /\ c[i] \in Seq(Int)
                          /\ DOMAIN r[i] = 1..Len(r[i]) /\ DOMAIN c[i] = 1..Len(r[i])
  BY <1>1 DEF Dimensions, Fits
<1>3. \A i \in DOMAIN r : Positive(r[i])
  BY <1>1, <1>2 DEF Fits, Positive
<1>4. Within(r, c)
  <2>1. \A i \in DOMAIN r : \A j \in DOMAIN r[i] : r[i][j] \in Int /\ c[i][j] \in Int
    BY <1>2
  <2> QED
    BY <1>1, <2>1 DEF Fits, Within
<1> QED
  BY <1>2, <1>3, <1>4 DEF Dimensions

LEMMA FittingIs ==
  ASSUME NEW r \in Seq(Seq(Int)), NEW c, Dimensions(c)
  PROVE  fitting_element_counts(r, c) =
            IF Fits(r, c) /\ Elements(c) <= ElementLimit
            THEN {[requested |-> Elements(r), canonical |-> Elements(c)]} ELSE {}
<1>1. CASE ~Fits(r, c)
  BY <1>1 DEF Fits, fitting_element_counts
<1>2. CASE Fits(r, c)
  <2>1. Dimensions(r) /\ Within(r, c)
    BY <1>2, FitsTypes
  <2>2. Elements(r) \in Nat /\ Elements(c) \in Nat /\ Elements(r) <= Elements(c)
    BY <2>1, ElementsType, SumMonotone
  <2>3. /\ ElementCount(r) = IF Elements(r) > ElementLimit THEN Overflow ELSE Elements(r)
        /\ ElementCount(c) = IF Elements(c) > ElementLimit THEN Overflow ELSE Elements(c)
    BY <2>1, CountLemma
  <2>4. fitting_element_counts(r, c) =
           IF Overflow \notin {ElementCount(r), ElementCount(c)}
           THEN {[requested |-> ElementCount(r), canonical |-> ElementCount(c)]} ELSE {}
    BY <1>2 DEF Fits, fitting_element_counts
  <2>5. CASE Elements(c) <= ElementLimit
    <3>1. ElementCount(r) = Elements(r) /\ ElementCount(c) = Elements(c)
      BY <2>2, <2>3, <2>5, PlanAssumption
    <3>2. Overflow \notin {ElementCount(r), ElementCount(c)}
      BY <3>1, <2>2 DEF Overflow
    <3> QED
      BY <1>2, <2>4, <2>5, <3>1, <3>2
  <2>6. CASE ~(Elements(c) <= ElementLimit)
    <3>1. ElementCount(c) = Overflow
      BY <2>2, <2>3, <2>6, PlanAssumption
    <3> QED
      BY <2>4, <2>6, <3>1
  <2> QED
    BY <2>5, <2>6
<1> QED
  BY <1>1, <1>2

LEMMA SameRange ==
  ASSUME NEW n \in Nat, NEW m \in Nat, 1..n = 1..m
  PROVE  n = m
<1>1. (n = 0 \/ n \in 1..n) /\ (m = 0 \/ m \in 1..m)
  OBVIOUS
<1>2. (n = 0 \/ n \in 1..m) /\ (m = 0 \/ m \in 1..n)
  BY <1>1
<1> QED
  BY <1>2

\* The buckets that Nearest considers are those that fit.
LEMMA HoldingIs ==
  ASSUME NEW p, NEW r \in Seq(Seq(Int)), \A i \in DOMAIN p.buckets : Dimensions(p.buckets[i].inputs)
  PROVE  Holding(p, r) = {i \in DOMAIN p.buckets : /\ Fits(r, p.buckets[i].inputs)
                                                   /\ Elements(p.buckets[i].inputs) <= ElementLimit}
<1>1. ASSUME NEW c, Dimensions(c)
      PROVE  (/\ [k \in DOMAIN c |-> Len(c[k])] = [k \in DOMAIN r |-> Len(r[k])]
              /\ \A k \in DOMAIN r : \A d \in DOMAIN r[k] : r[k][d] \in 1..c[k][d]) <=> Fits(r, c)
  <2>1. /\ DOMAIN r = 1..Len(r) /\ DOMAIN c = 1..Len(c) /\ Len(r) \in Nat /\ Len(c) \in Nat
        /\ c \in Seq(Seq(Int))
    BY <1>1 DEF Dimensions
  <2>2. [k \in DOMAIN c |-> Len(c[k])] = [k \in DOMAIN r |-> Len(r[k])]
           <=> Len(r) = Len(c) /\ \A k \in DOMAIN r : Len(r[k]) = Len(c[k])
    <3>1. ASSUME [k \in DOMAIN c |-> Len(c[k])] = [k \in DOMAIN r |-> Len(r[k])]
          PROVE  Len(r) = Len(c) /\ \A k \in DOMAIN r : Len(r[k]) = Len(c[k])
      <4> DEFINE f == [k \in DOMAIN c |-> Len(c[k])]
          g == [k \in DOMAIN r |-> Len(r[k])]
      <4>1. DOMAIN f = DOMAIN g
        BY <3>1
      <4>2. DOMAIN c = DOMAIN r
        BY <4>1
      <4>3. Len(r) = Len(c)
        <5>1. 1..Len(r) = 1..Len(c)
          BY <2>1, <4>2
        <5> QED
          BY <2>1, <5>1, SameRange
      <4>4. \A k \in DOMAIN r : f[k] = g[k]
        BY <3>1
      <4> QED
        BY <4>2, <4>3, <4>4
    <3>2. ASSUME Len(r) = Len(c), \A k \in DOMAIN r : Len(r[k]) = Len(c[k])
          PROVE  [k \in DOMAIN c |-> Len(c[k])] = [k \in DOMAIN r |-> Len(r[k])]
      BY <2>1, <3>2
    <3> QED
      BY <3>1, <3>2
  <2>3. ASSUME Len(r) = Len(c), \A k \in DOMAIN r : Len(r[k]) = Len(c[k])
        PROVE  \A k \in DOMAIN r : \A d \in DOMAIN r[k] :
                  r[k][d] \in 1..c[k][d] <=> r[k][d] > 0 /\ c[k][d] >= r[k][d]
    <3>1. \A k \in DOMAIN r : r[k] \in Seq(Int) /\ c[k] \in Seq(Int)
      BY <2>1, <2>3
    <3>2. \A k \in DOMAIN r : \A d \in DOMAIN r[k] : r[k][d] \in Int /\ c[k][d] \in Int
      BY <2>3, <3>1
    <3> QED
      BY <3>2
  <2> QED
    BY <2>2, <2>3 DEF Fits
<1> QED
  BY <1>1 DEF Holding

(***************************************************************************)
(* The best bucket                                                         *)
(***************************************************************************)
Typed(b) == b.shapes \in Seq(PlanEntries)

LEMMA BuildsTypes ==
  ASSUME NEW b, Typed(b), Builds(b)
  PROVE  /\ Len(b.shapes) \in Nat /\ DOMAIN b.shapes = 1..Len(b.shapes)
         /\ \A i \in DOMAIN b.shapes : Dimensions(b.shapes[i].inputs) /\ b.shapes[i].inputs # <<>>
         /\ PlanOf(b) # NoPlan
<1>1. /\ Len(b.shapes) \in Nat /\ DOMAIN b.shapes = 1..Len(b.shapes)
      /\ \A i \in DOMAIN b.shapes : b.shapes[i] \in PlanEntries
  BY DEF Typed
<1>2. ASSUME NEW i \in DOMAIN b.shapes PROVE Dimensions(b.shapes[i].inputs) /\ b.shapes[i].inputs # <<>>
  <2> DEFINE c == b.shapes[i].inputs
  <2>1. c \in Seq(Seq(Int))
    BY <1>1 DEF PlanEntries
  <2>2. c # <<>> /\ \A k \in DOMAIN c : \A j \in DOMAIN c[k] : c[k][j] > 0
    BY DEF Builds, validate_shapes
  <2> HIDE DEF c
  <2>3. \A k \in DOMAIN c : c[k] \in Seq(Int)
    BY <2>1
  <2>4. Dimensions(c)
    BY <2>1, <2>2, <2>3 DEF Dimensions, Positive
  <2> QED
    BY <2>2, <2>4 DEF c
<1>3. PlanOf(b).buckets # <<>> /\ NoPlan.buckets = <<>>
  BY DEF PlanOf, NoPlan, Builds
<1> QED
  BY <1>1, <1>2, <1>3

\* The waste and the size of a bucket, as classify_padded compares them.
Weight(p, r, i) ==
    [waste |-> Elements(p.buckets[i].inputs) - Elements(r), total |-> Elements(p.buckets[i].inputs), id |-> i]
Size(p, i) == Elements(p.buckets[i].inputs)
Beats(p, i, j) == Size(p, i) < Size(p, j) \/ (Size(p, i) = Size(p, j) /\ i <= j)

LEMMA CandidateIs ==
  ASSUME NEW b, Typed(b), Builds(b), NEW r \in Seq(Seq(Int)), NEW i \in DOMAIN b.shapes
  PROVE  Candidate(PlanOf(b), r, i) = IF i \in Holding(PlanOf(b), r) THEN {Weight(PlanOf(b), r, i)} ELSE {}
<1> DEFINE p == PlanOf(b)
<1>1. p.buckets = b.shapes
  BY DEF PlanOf
<1>2. \A k \in DOMAIN p.buckets : Dimensions(p.buckets[k].inputs)
  BY <1>1, BuildsTypes
<1> HIDE DEF p
<1>3. i \in Holding(p, r) <=> Fits(r, p.buckets[i].inputs) /\ Elements(p.buckets[i].inputs) <= ElementLimit
  BY <1>1, <1>2, HoldingIs
<1>4. fitting_element_counts(r, p.buckets[i].inputs) =
         IF i \in Holding(p, r)
         THEN {[requested |-> Elements(r), canonical |-> Elements(p.buckets[i].inputs)]} ELSE {}
  BY <1>1, <1>2, <1>3, FittingIs
<1>5. Candidate(p, r, i) = IF i \in Holding(p, r) THEN {Weight(p, r, i)} ELSE {}
  <2> DEFINE W(c) == [waste |-> c.canonical - c.requested, total |-> c.canonical, id |-> i]
  <2>1. Candidate(p, r, i) = {W(c) : c \in fitting_element_counts(r, p.buckets[i].inputs)}
    BY DEF Candidate
  <2>2. CASE i \in Holding(p, r)
    <3> DEFINE c == [requested |-> Elements(r), canonical |-> Elements(p.buckets[i].inputs)]
    <3>1. fitting_element_counts(r, p.buckets[i].inputs) = {c}
      BY <1>4, <2>2
    <3>2. W(c) = Weight(p, r, i)
      BY DEF Weight
    <3> HIDE DEF c, W
    <3>3. {W(x) : x \in {c}} = {W(c)}
      OBVIOUS
    <3> QED
      BY <2>1, <2>2, <3>1, <3>2, <3>3
  <2>3. CASE i \notin Holding(p, r)
    <3>1. fitting_element_counts(r, p.buckets[i].inputs) = {}
      BY <1>4, <2>3
    <3> HIDE DEF W
    <3>2. Candidate(p, r, i) = {}
      BY <2>1, <3>1
    <3> QED
      BY <2>3, <3>2
  <2> QED
    BY <2>2, <2>3
<1> QED
  BY <1>5 DEF p

LEMMA BestOfIs ==
  ASSUME NEW p, Len(p.buckets) \in Nat, NEW r
  PROVE  \E f : /\ f[0] = {}
                /\ \A k \in 1..Len(p.buckets) :
                      f[k] = IF \E b \in Candidate(p, r, k) : IsBetter(f[k - 1], b)
                             THEN Candidate(p, r, k) ELSE f[k - 1]
                /\ BestOf(p, r) = f[Len(p.buckets)]
<1> DEFINE n == Len(p.buckets)
    V == SUBSET UNION {Candidate(p, r, k) : k \in 1..n}
    Pick(k, x) == IF \E b \in Candidate(p, r, k) : IsBetter(x, b) THEN Candidate(p, r, k) ELSE x
    P(f) == f = [k \in 0..Len(p.buckets) |->
                    IF k = 0 THEN {}
                    ELSE IF \E b \in Candidate(p, r, k) : IsBetter(f[k - 1], b)
                         THEN Candidate(p, r, k) ELSE f[k - 1]]
    g == CHOOSE f : P(f)
    step == [k \in 1..n |-> [x \in V |-> Pick(k, x)]]
<1>1. {} \in V /\ \A k \in 1..n : Candidate(p, r, k) \in V
  OBVIOUS
<1>2. step \in [1..n -> [V -> V]]
  <2> HIDE DEF V
  <2> QED
    BY <1>1
<1>3. \E f : Recursive(f, n, V, {}, step)
  <2> HIDE DEF step, V
  <2> QED
    BY <1>1, <1>2, Recursion
<1>4. PICK f : f \in [0..n -> V] /\ f[0] = {} /\ \A k \in 1..n : f[k] = step[k][f[k - 1]]
  <2> HIDE DEF step, V
  <2> QED
    BY <1>3 DEF Recursive
<1>5. \A k \in 0..n : f[k] = IF k = 0 THEN {} ELSE Pick(k, f[k - 1])
  <2> TAKE k \in 0..n
  <2> HIDE DEF V, Pick
  <2>1. CASE k = 0
    BY <2>1, <1>4
  <2>2. CASE k # 0
    <3>1. k \in 1..n /\ k - 1 \in 0..n
      BY <2>2
    <3>2. f[k - 1] \in V
      BY <3>1, <1>4
    <3> QED
      BY <3>1, <3>2, <2>2, <1>4
  <2> QED
    BY <2>1, <2>2
<1>6. P(f)
  BY <1>4, <1>5
<1>7. P(g)
  <2> HIDE DEF P
  <2> QED
    BY <1>6
<1>8. BestOf(p, r) = g[n]
  BY DEF BestOf
<1> HIDE DEF g
<1>9. g[0] = {} /\ \A k \in 1..n : g[k] = Pick(k, g[k - 1])
  <2>1. \A k \in 0..n : g[k] = IF k = 0 THEN {} ELSE Pick(k, g[k - 1])
    BY <1>7, Zenon
  <2> HIDE DEF Pick
  <2>2. 0 \in 0..n /\ \A k \in 1..n : k \in 0..n /\ k # 0
    OBVIOUS
  <2> QED
    BY <2>1, <2>2
<1> QED
  BY <1>8, <1>9

\* The loop of classify_padded keeps the smallest of the buckets that hold the
\* request, the first of several.
LEMMA BestLemma ==
  ASSUME NEW b, Typed(b), Builds(b), NEW r \in Seq(Seq(Int))
  PROVE  LET p == PlanOf(b)
         IN  \/ BestOf(p, r) = {} /\ Holding(p, r) = {}
             \/ \E i \in Holding(p, r) : /\ BestOf(p, r) = {Weight(p, r, i)}
                                         /\ \A j \in Holding(p, r) : Beats(p, i, j)
<1> DEFINE p == PlanOf(b)
    H == Holding(p, r)
    n == Len(p.buckets)
<1>1. p.buckets = b.shapes
  BY DEF PlanOf
<1>2. n \in Nat /\ DOMAIN p.buckets = 1..n /\ \A i \in 1..n : Dimensions(p.buckets[i].inputs)
  BY <1>1, BuildsTypes
<1>3. H \subseteq 1..n
  <2> HIDE DEF p, n
  <2> QED
    BY <1>2 DEF Holding
<1>4. \A i \in 1..n : Candidate(p, r, i) = IF i \in H THEN {Weight(p, r, i)} ELSE {}
  BY <1>1, <1>2, CandidateIs
<1>5. \A i \in H : /\ Size(p, i) \in Nat
                   /\ Weight(p, r, i).waste = Size(p, i) - Elements(r)
                   /\ Weight(p, r, i).total = Size(p, i) /\ Elements(r) \in Nat
  <2> TAKE i \in H
  <2>1. Dimensions(p.buckets[i].inputs)
    BY <1>2, <1>3
  <2>2. Fits(r, p.buckets[i].inputs)
    <3> HIDE DEF p
    <3> QED
      BY <1>2, HoldingIs
  <2>3. Dimensions(r)
    BY <2>1, <2>2, FitsTypes
  <2> HIDE DEF p
  <2> QED
    BY <2>1, <2>3, ElementsType DEF Size, Weight
<1> HIDE DEF p, H
<1>6. PICK f : /\ f[0] = {}
               /\ \A k \in 1..n :
                     f[k] = IF \E x \in Candidate(p, r, k) : IsBetter(f[k - 1], x)
                            THEN Candidate(p, r, k) ELSE f[k - 1]
               /\ BestOf(p, r) = f[n]
  BY <1>2, BestOfIs
<1> DEFINE BestUpto(k, i) == /\ i \in H /\ i <= k /\ f[k] = {Weight(p, r, i)}
                         /\ \A j \in H : j <= k => Beats(p, i, j)
    Right(k) == (f[k] = {} /\ \A j \in H : j > k) \/ \E i : BestUpto(k, i)
    S == {k \in 0..n : Right(k)}
<1>7. 0 \in S
  BY <1>2, <1>3, <1>6
<1>8. ASSUME NEW k \in 1..n, k - 1 \in S PROVE k \in S
  <2>1. f[k] = IF \E x \in Candidate(p, r, k) : IsBetter(f[k - 1], x) THEN Candidate(p, r, k) ELSE f[k - 1]
    BY <1>6
  <2>2. n \in Nat /\ k \in Nat /\ k - 1 \in Nat /\ H \subseteq Nat
    BY <1>2, <1>3
  <2>3. CASE k \notin H
    <3>1. f[k] = f[k - 1]
      BY <1>4, <2>1, <2>3
    <3>2. \A j \in H : (j <= k <=> j <= k - 1) /\ (j > k <=> j > k - 1)
      BY <2>2, <2>3
    <3>3. CASE f[k - 1] = {} /\ \A j \in H : j > k - 1
      BY <3>1, <3>2, <3>3
    <3>4. CASE \E i : BestUpto(k - 1, i)
      <4>1. PICK i : BestUpto(k - 1, i)
        BY <3>4
      <4>2. BestUpto(k, i)
        BY <3>1, <3>2, <4>1
      <4> HIDE DEF BestUpto
      <4> QED
        BY <4>2
    <3> QED
      BY <1>8, <3>3, <3>4
  <2>4. CASE k \in H
    <3>1. Candidate(p, r, k) = {Weight(p, r, k)}
      BY <1>4, <2>4
    <3>2. \A j \in H : j <= k <=> j <= k - 1 \/ j = k
      BY <2>2
    <3>3. Beats(p, k, k)
      BY <1>5, <2>2, <2>4 DEF Beats
    <3>4. CASE f[k - 1] = {} /\ \A j \in H : j > k - 1
      <4>1. f[k] = {Weight(p, r, k)}
        BY <2>1, <3>1, <3>4 DEF IsBetter
      <4>2. BestUpto(k, k)
        BY <2>2, <2>4, <3>2, <3>3, <3>4, <4>1
      <4> HIDE DEF BestUpto
      <4> QED
        BY <4>2
    <3>5. CASE \E i : BestUpto(k - 1, i)
      <4>1. PICK i : BestUpto(k - 1, i)
        BY <3>5
      <4>2. IsBetter(f[k - 1], Weight(p, r, k)) <=>
               LET x == Weight(p, r, i)
                   y == Weight(p, r, k)
               IN  y.waste < x.waste \/ (y.waste = x.waste /\ y.total < x.total)
        <5>1. f[k - 1] = {Weight(p, r, i)}
          BY <4>1
        <5> QED
          BY <5>1 DEF IsBetter
      <4>3. IsBetter(f[k - 1], Weight(p, r, k)) <=> Size(p, k) < Size(p, i)
        BY <1>5, <2>4, <4>1, <4>2
      <4>4. CASE Size(p, k) < Size(p, i)
        <5>1. f[k] = {Weight(p, r, k)}
          BY <2>1, <3>1, <4>3, <4>4
        <5>2. \A j \in H : j <= k - 1 => Beats(p, k, j)
          <6>1. ASSUME NEW j \in H, j <= k - 1 PROVE Size(p, k) < Size(p, j)
            <7>1. Beats(p, i, j)
              BY <4>1, <6>1
            <7>2. Size(p, i) \in Nat /\ Size(p, j) \in Nat /\ Size(p, k) \in Nat
              BY <1>5, <2>4, <4>1
            <7> QED
              BY <4>4, <7>1, <7>2 DEF Beats
          <6> QED
            BY <6>1 DEF Beats
        <5>3. BestUpto(k, k)
          BY <2>2, <2>4, <3>2, <3>3, <5>1, <5>2
        <5> HIDE DEF BestUpto
        <5> QED
          BY <5>3
      <4>5. CASE ~(Size(p, k) < Size(p, i))
        <5>1. f[k] = {Weight(p, r, i)}
          BY <2>1, <3>1, <4>1, <4>3, <4>5
        <5>2. Beats(p, i, k)
          BY <1>5, <2>2, <2>4, <4>1, <4>5 DEF Beats
        <5>3. BestUpto(k, i)
          BY <2>2, <3>2, <4>1, <5>1, <5>2
        <5> HIDE DEF BestUpto
        <5> QED
          BY <5>3
      <4> QED
        BY <4>4, <4>5
    <3> QED
      BY <1>8, <3>4, <3>5
  <2> QED
    BY <2>3, <2>4
<1>9. 0..n \subseteq S
  <2> HIDE DEF S, n
  <2> QED
    BY <1>2, <1>7, <1>8, Induction
<1>10. Right(n)
  <2>1. n \in 0..n
    BY <1>2
  <2> HIDE DEF Right, n
  <2> QED
    BY <1>9, <2>1
<1>11. \A j \in H : j <= n /\ ~(j > n)
  BY <1>2, <1>3
<1>12. \/ BestOf(p, r) = {} /\ H = {}
       \/ \E i \in H : BestOf(p, r) = {Weight(p, r, i)} /\ \A j \in H : Beats(p, i, j)
  BY <1>6, <1>10, <1>11
<1> QED
  BY <1>12 DEF p, H

(***************************************************************************)
(* Classification                                                          *)
(***************************************************************************)
LEMMA EqualIs ==
  ASSUME NEW b, Typed(b), Builds(b), NEW r \in Seq(Seq(Int))
  PROVE  LET p == PlanOf(b)
         IN  {id \in candidates(p, from_slices(r)) : shapes_equal(p.buckets[id].inputs, r)} =
                {i \in DOMAIN p.buckets : p.buckets[i].inputs = r}
<1> DEFINE p == PlanOf(b)
<1>1. p.buckets = b.shapes /\ p.index = IndexOf(b.shapes)
  BY DEF PlanOf
<1>2. DOMAIN p.index = DOMAIN p.buckets /\ \A i \in DOMAIN p.buckets : p.index[i] = from_slices(p.buckets[i].inputs)
  BY <1>1 DEF IndexOf
<1>3. \A i \in DOMAIN p.buckets : p.buckets[i].inputs \in Seq(Seq(Int))
  BY <1>1, BuildsTypes DEF Dimensions
<1> HIDE DEF p
<1>4. ASSUME NEW c \in Seq(Seq(Int)) PROVE shapes_equal(c, r) <=> c = r
  BY <1>4 DEF shapes_equal
<1>5. candidates(p, from_slices(r)) = {i \in DOMAIN p.buckets : from_slices(p.buckets[i].inputs) = from_slices(r)}
  BY <1>2 DEF candidates
<1> QED
  BY <1>3, <1>4, <1>5 DEF p

\* classify gives the bucket of exactly the shape of a request, else, if the policy
\* pads, the smallest that holds it within the ratio: for every plan that builds.
LEMMA ClassifyLemma ==
  ASSUME NEW b, Typed(b), Builds(b), NEW r \in Seq(Seq(Int))
  PROVE  classify(PlanOf(b), r) = Nearest(PlanOf(b), r)
<1> DEFINE p == PlanOf(b)
    same == {i \in DOMAIN p.buckets : p.buckets[i].inputs = r}
    H == Holding(p, r)
    n == CHOOSE x \in requested_element_count(r) : TRUE
    Minimal == {i \in H : \A j \in H : Beats(p, i, j)}
<1>1. p.buckets = b.shapes /\ DOMAIN p.buckets \subseteq Nat
  BY BuildsTypes DEF PlanOf
<1>2. classify(p, r) = IF same # {} THEN Found(First(same))
                       ELSE IF p.fallback.kind = "pad" THEN classify_padded(p, r) ELSE Fails("NotInPlan")
  <2> DEFINE equal == {id \in candidates(p, from_slices(r)) : shapes_equal(p.buckets[id].inputs, r)}
  <2>1. equal = same
    BY EqualIs
  <2>2. classify(p, r) = IF equal # {} THEN Found(First(equal))
                         ELSE IF p.fallback.kind = "pad" THEN classify_padded(p, r) ELSE Fails("NotInPlan")
    BY Zenon DEF classify
  <2> QED
    BY <2>1, <2>2, Zenon
<1>3. Nearest(p, r) =
         IF same # {} THEN Found(CHOOSE i \in same : TRUE)
         ELSE IF p.fallback.kind # "pad" THEN Fails("NotInPlan")
         ELSE IF Minimal = {} THEN Fails("NoFittingShape")
         ELSE LET i == CHOOSE x \in Minimal : TRUE
              IN  IF (Size(p, i) - Elements(r)) * p.fallback.den > p.fallback.num * Elements(r)
                  THEN Fails("PaddingWasteExceeded") ELSE Found(i)
  BY DEF Nearest, Size, Beats
<1>4. ASSUME same # {} PROVE First(same) = CHOOSE i \in same : TRUE
  <2>1. PICK i \in same : TRUE
    BY <1>4
  <2>2. \A j \in same : j = i
    BY <1>1, <2>1 DEF Builds
  <2>3. i \in Nat /\ same = {i}
    BY <1>1, <2>1, <2>2
  <2> HIDE DEF same
  <2>4. First(same) = i
    BY <2>3 DEF First
  <2> QED
    BY <2>3, <2>4
<1>5. ASSUME NEW i \in H
      PROVE  requested_element_count(r) = {Elements(r)} /\ n = Elements(r)
  <2> DEFINE c == p.buckets[i].inputs
  <2>1. \A k \in DOMAIN p.buckets : Dimensions(p.buckets[k].inputs) /\ p.buckets[k].inputs # <<>>
    BY <1>1, BuildsTypes
  <2> HIDE DEF p
  <2>2. i \in DOMAIN p.buckets /\ Fits(r, c) /\ Elements(c) <= ElementLimit
    BY <2>1, HoldingIs
  <2>3. Dimensions(c) /\ c # <<>>
    BY <2>1, <2>2
  <2> HIDE DEF c
  <2>4. Dimensions(r) /\ Within(r, c)
    BY <2>2, <2>3, FitsTypes
  <2>5. r # <<>>
    BY <2>2, <2>3 DEF Fits, Dimensions
  <2>6. Elements(r) \in Nat /\ Elements(r) >= 1 /\ Elements(r) <= ElementLimit
    BY <2>2, <2>3, <2>4, <2>5, ElementsType, SumMonotone, PlanAssumption
  <2>7. ElementCount(r) = Elements(r)
    BY <2>4, <2>6, CountLemma, PlanAssumption
  <2>8. ~\E k \in DOMAIN r : \E j \in DOMAIN r[k] : r[k][j] <= 0
    <3>1. \A k \in DOMAIN r : r[k] \in Seq(Int) /\ \A j \in DOMAIN r[k] : r[k][j] > 0
      BY <2>4 DEF Dimensions, Positive
    <3>2. \A k \in DOMAIN r : \A j \in DOMAIN r[k] : r[k][j] \in Int
      BY <3>1
    <3> QED
      BY <3>1, <3>2
  <2>9. requested_element_count(r) = {Elements(r)}
    BY <2>6, <2>7, <2>8 DEF requested_element_count, Overflow
  <2> QED
    BY <2>9
<1>6. ASSUME p.fallback.kind = "pad", same = {} PROVE classify_padded(p, r) = Nearest(p, r)
  <2>1. \/ BestOf(p, r) = {} /\ H = {}
        \/ \E i \in H : BestOf(p, r) = {Weight(p, r, i)} /\ \A j \in H : Beats(p, i, j)
    BY BestLemma
  <2>2. CASE BestOf(p, r) = {} /\ H = {}
    <3>1. Minimal = {}
      BY <2>2
    <3> QED
      BY <1>3, <1>6, <2>2, <3>1 DEF classify_padded
  <2>3. CASE \E i \in H : BestOf(p, r) = {Weight(p, r, i)} /\ \A j \in H : Beats(p, i, j)
    <3>1. PICK i \in H : BestOf(p, r) = {Weight(p, r, i)} /\ \A j \in H : Beats(p, i, j)
      BY <2>3
    <3>2. \A j \in Minimal : j = i
      <4> TAKE j \in Minimal
      <4>1. Beats(p, i, j) /\ Beats(p, j, i)
        BY <3>1
      <4>2. \A k \in H : Size(p, k) \in Nat /\ k \in Nat
        <5>1. \A k \in DOMAIN p.buckets : Dimensions(p.buckets[k].inputs)
          BY <1>1, BuildsTypes
        <5> HIDE DEF p
        <5> QED
          BY <1>1, <5>1, ElementsType DEF Holding, Size
      <4> QED
        BY <4>1, <4>2 DEF Beats
    <3>3. Minimal = {i}
      BY <3>1, <3>2
    <3> HIDE DEF Minimal, same, H, p
    <3>4. (CHOOSE x \in Minimal : TRUE) = i /\ Minimal # {}
      BY <3>3
    <3>5. Nearest(p, r) = IF (Size(p, i) - Elements(r)) * p.fallback.den > p.fallback.num * Elements(r)
                          THEN Fails("PaddingWasteExceeded") ELSE Found(i)
      BY <1>3, <1>6, <3>4
    <3> DEFINE w == Weight(p, r, i)
    <3>6. (CHOOSE x \in BestOf(p, r) : TRUE) = w /\ BestOf(p, r) # {}
      <4> HIDE DEF w
      <4>1. BestOf(p, r) = {w}
        BY <3>1 DEF w
      <4> QED
        BY <4>1
    <3>7. w.waste = Size(p, i) - Elements(r) /\ w.id = i
      BY DEF Weight, Size
    <3>8. /\ requested_element_count(r) # {}
          /\ (CHOOSE x \in requested_element_count(r) : TRUE) = Elements(r)
      BY <1>5
    <3> HIDE DEF w
    <3>9. classify_padded(p, r) = IF w.waste * p.fallback.den > p.fallback.num * Elements(r)
                                  THEN Fails("PaddingWasteExceeded") ELSE Found(w.id)
      <4> DEFINE B == CHOOSE x \in BestOf(p, r) : TRUE
          N == CHOOSE x \in requested_element_count(r) : TRUE
      <4>1. classify_padded(p, r) = IF B.waste * p.fallback.den > p.fallback.num * N
                                    THEN Fails("PaddingWasteExceeded") ELSE Found(B.id)
        BY <3>6, <3>8, Zenon DEF classify_padded
      <4>2. B = w /\ N = Elements(r)
        BY <3>6, <3>8
      <4> HIDE DEF B, N
      <4> QED
        BY <4>1, <4>2
    <3> QED
      BY <3>5, <3>7, <3>9
  <2> QED
    BY <2>1, <2>2, <2>3
<1>7. CASE same # {}
  BY <1>2, <1>3, <1>4, <1>7
<1>8. CASE same = {} /\ p.fallback.kind = "pad"
  BY <1>2, <1>6, <1>8
<1>9. CASE same = {} /\ p.fallback.kind # "pad"
  <2>1. classify(p, r) = Nearest(p, r)
    <3> HIDE DEF same, Minimal, p
    <3> QED
      BY <1>2, <1>3, <1>9
  <2> QED
    BY <2>1
<1> QED
  BY <1>7, <1>8, <1>9

(***************************************************************************)
(* The plan is one that built                                              *)
(***************************************************************************)
Builders == [shapes : Seq(PlanEntries), fallback : Fallbacks \cup {Strict}]

PlanInv ==
    /\ serving \in BOOLEAN
    /\ ~serving => builder \in Builders
    /\ serving => plan # NoPlan
    /\ plan # NoPlan => \E b : Typed(b) /\ Builds(b) /\ plan = PlanOf(b)

LEMMA NewBuilderType == NewBuilder \in Builders
<1>1. <<>> \in Seq(PlanEntries)
  OBVIOUS
<1> QED
  BY <1>1 DEF NewBuilder, Builders

LEMMA PlanInvInit == ServingInit => PlanInv
<1> SUFFICES ASSUME ServingInit PROVE PlanInv
  OBVIOUS
<1>1. CASE PlanInit
  BY <1>1, NewBuilderType DEF PlanInit, PlanInv
<1>2. CASE serving = TRUE /\ plan \in {PlanOf(b) : b \in {x \in ServedBuilders : Builds(x)}}
  <2>1. PICK b \in ServedBuilders : Builds(b) /\ plan = PlanOf(b)
    BY <1>2
  <2>2. Typed(b)
    BY TopologyAssumption DEF Typed
  <2> QED
    BY <1>2, <2>1, <2>2, BuildsTypes DEF PlanInv
<1> QED
  BY <1>1, <1>2 DEF ServingInit

LEMMA PlanInvNext == PlanInv /\ [ServingNext]_servingVars => PlanInv'
<1> SUFFICES ASSUME PlanInv, [ServingNext]_servingVars PROVE PlanInv'
  OBVIOUS
<1>1. CASE UNCHANGED planVars
  BY <1>1 DEF PlanInv, planVars, Typed, Builds, PlanOf, NoPlan
<1>2. CASE PlanNext
  <2>1. ~serving /\ plan = NoPlan /\ builder \in Builders
    BY <1>2 DEF PlanNext, PlanInv
  <2>2. ASSUME NEW f \in Fallbacks, fallback_policy(f) PROVE PlanInv'
    BY <2>1, <2>2 DEF fallback_policy, PlanInv, Builders
  <2>3. ASSUME NEW e \in Entries, add_shape(e) PROVE PlanInv'
    <3>1. e \in PlanEntries
      BY ShapesAssumption
    <3>2. Append(builder.shapes, e) \in Seq(PlanEntries)
      BY <2>1, <3>1 DEF Builders
    <3>3. builder' \in Builders
      BY <2>1, <2>3, <3>2 DEF add_shape, Builders
    <3> QED
      BY <2>1, <2>3, <3>3 DEF add_shape, PlanInv
  <2>4. ASSUME build PROVE PlanInv'
    <3>1. builder' \in Builders /\ ~serving'
      BY <2>1, <2>4, NewBuilderType DEF build
    <3>2. CASE Builds(builder)
      <4>1. Typed(builder) /\ plan' = PlanOf(builder)
        BY <2>1, <2>4, <3>2 DEF build, Builders, Typed
      <4>2. \E b : Typed(b) /\ Builds(b) /\ plan' = PlanOf(b)
        BY <3>2, <4>1
      <4>3. serving' = FALSE
        BY <2>1, <2>4 DEF build, PlanInv
      <4>4. (\E b : Typed(b) /\ Builds(b) /\ plan = PlanOf(b))'
        BY <4>2 DEF Typed, Builds
      <4> QED
        BY <3>1, <4>3, <4>4 DEF PlanInv
    <3>3. CASE ~Builds(builder)
      BY <2>1, <2>4, <3>1, <3>3 DEF build, PlanInv
    <3> QED
      BY <3>2, <3>3
  <2> QED
    BY <1>2, <2>2, <2>3, <2>4 DEF PlanNext
<1>3. CASE ServeNext
  <2>1. ASSUME NEW o, SetOptions(o) PROVE UNCHANGED planVars
    BY <2>1 DEF SetOptions
  <2>2. ASSUME NEW mode, NEW q, NEW n, NewRuntime(mode, q, n) PROVE UNCHANGED planVars
    BY <2>2 DEF NewRuntime
  <2>3. ASSUME NEW r, install_shape_plan(r) PROVE UNCHANGED planVars
    BY <2>3 DEF install_shape_plan
  <2>4. ASSUME NEW r, NEW inputs, NEW outputs, get_or_create_bucket(r, inputs, outputs)
        PROVE  UNCHANGED planVars
    BY <2>4 DEF get_or_create_bucket
  <2>5. ASSUME NEW r, NEW b, remove_bucket(r, b) PROVE UNCHANGED planVars
    BY <2>5 DEF remove_bucket
  <2>6. UNCHANGED planVars
    BY <1>3, <2>1, <2>2, <2>3, <2>4, <2>5
       DEF ServeNext, with_rebind_inputs_each_run, with_cuda_graph, with_device_outputs,
           with_device_inputs, with_device_input_streams, shared_session_with_options,
           from_sessions_with_options
  <2> QED
    BY <1>1, <2>6
<1> QED
  BY <1>1, <1>2, <1>3 DEF ServingNext, servingVars

\* Of a plan that was built, classify answers for every request what Nearest defines:
\* the bucket of exactly these shapes; else NotInPlan, if the policy does not pad;
\* else the first of the smallest buckets that hold the request, PaddingWasteExceeded
\* if its ratio is above the limit, NoFittingShape if there is none.
THEOREM ClassifiesBest == ServingSpec => []ClassifyIsBest
<1>1. PlanInv => ClassifyIsBest
  <2> SUFFICES ASSUME PlanInv, plan # NoPlan, NEW r \in Requests
               PROVE  classify(plan, r) = Nearest(plan, r)
    BY DEF ClassifyIsBest
  <2>1. PICK b : Typed(b) /\ Builds(b) /\ plan = PlanOf(b)
    BY DEF PlanInv
  <2>2. r \in Seq(Seq(Int))
    BY ShapesAssumption
  <2> QED
    BY <2>1, <2>2, ClassifyLemma
<1> QED
  BY <1>1, PlanInvInit, PlanInvNext, PTL DEF ServingSpec

(***************************************************************************)
(* Runtimes, sessions and captured graphs                                  *)
(***************************************************************************)
AllOptions == [rebind_inputs_each_run : BOOLEAN, cuda_graph : BOOLEAN, device_outputs : BOOLEAN,
               device : BOOLEAN, stream : Streams \cup {None}, lane_streams : StreamLists \cup {<<>>}]
Keys == {e.inputs : e \in ServedEntries} \X {e.outputs : e \in ServedEntries}
LaneBuffers == [runtime : Nat, key : Keys, lane : Nat, built : Nat]
Graphs == [id : Nat, buffers : LaneBuffers]
Buckets == [key : Keys, graph : Nat \cup {None}, lanes : Seq(LaneBuffers)]
Runtimes == [sessions : Seq(Sessions), options : AllOptions, plan : {NoPlan, plan}, buckets : SUBSET Buckets]

Planned(runtime, key) ==
    \E i \in DOMAIN runtime.plan.buckets :
        key = <<runtime.plan.buckets[i].inputs, runtime.plan.buckets[i].outputs>>

ServingTypes ==
    /\ options \in AllOptions
    /\ runtimes \in Seq(Runtimes)
    /\ next_graph_id \in Nat \ {0}
    /\ captured \in [Sessions -> SUBSET Graphs]
    /\ ~serving => runtimes = <<>>

\* The lanes of a graph runtime are on distinct sessions.
DistinctLanes ==
    \A r \in DOMAIN runtimes : runtimes[r].options.cuda_graph => IsInjective(runtimes[r].sessions)

\* The id of a graph is below the counter, also that of a bucket that was not created.
IdsBelow ==
    /\ \A r \in DOMAIN runtimes : \A b \in runtimes[r].buckets : b.graph # None => b.graph < next_graph_id
    /\ \A s \in Sessions : \A g \in captured[s] : g.id < next_graph_id

LanesMatch ==
    \A r \in DOMAIN runtimes : \A b \in runtimes[r].buckets : DOMAIN b.lanes = DOMAIN runtimes[r].sessions

\* A graph uses the buffers of a runtime that exists, in a bucket its plan names.
GraphsPlanned ==
    \A s \in Sessions : \A g \in captured[s] :
        /\ g.buffers.runtime \in DOMAIN runtimes
        /\ LET rt == runtimes[g.buffers.runtime]
           IN  rt.options.cuda_graph => Planned(rt, g.buffers.key)

ServingIInv ==
    /\ PlanInv /\ ServingTypes
    /\ DistinctLanes /\ IdsBelow /\ LanesMatch /\ GraphsPlanned
    /\ NoAliasedReplay

LEMMA DefaultOptionsType == DefaultOptions \in AllOptions
BY DEF DefaultOptions, AllOptions

LEMMA ServingInitIInv == ServingInit => ServingIInv
<1> SUFFICES ASSUME ServingInit PROVE ServingIInv
  OBVIOUS
<1>1. PlanInv
  BY PlanInvInit
<1>2. runtimes = <<>> /\ next_graph_id = 1 /\ captured = [s \in Sessions |-> {}] /\ options = DefaultOptions
  BY DEF ServingInit
<1>3. ServingTypes
  BY <1>2, DefaultOptionsType DEF ServingTypes
<1> QED
  BY <1>1, <1>2, <1>3 DEF ServingIInv, DistinctLanes, IdsBelow, LanesMatch, GraphsPlanned, NoAliasedReplay

LEMMA OnlyPlanned == ServingIInv => OnlyPlannedShapesCapture
BY DEF ServingIInv, GraphsPlanned, OnlyPlannedShapesCapture, Planned

\* What a step that leaves the plan alone may do to the other variables.
LEMMA SameTopology ==
  ASSUME ServingIInv, PlanInv', UNCHANGED <<runtimes, next_graph_id, captured>>, options' \in AllOptions,
         UNCHANGED planVars \/ (~serving /\ ~serving')
  PROVE  ServingIInv'
<1>1. runtimes' \in Seq(Runtimes')
  <2>1. CASE UNCHANGED planVars
    <3>1. Runtimes' = Runtimes
      BY <2>1 DEF planVars, Runtimes, NoPlan, AllOptions, Buckets, LaneBuffers, Keys, ServedEntries, Strict
    <3> QED
      BY <3>1 DEF ServingIInv, ServingTypes
  <2>2. CASE ~serving
    BY <2>2 DEF ServingIInv, ServingTypes
  <2> QED
    BY <2>1, <2>2
<1>2. ~serving' => runtimes' = <<>>
  BY DEF ServingIInv, ServingTypes, planVars
<1>3. ServingTypes'
  BY <1>1, <1>2 DEF ServingIInv, ServingTypes, Graphs, LaneBuffers, Keys, ServedEntries, AllOptions
<1> QED
  BY <1>3 DEF ServingIInv, DistinctLanes, IdsBelow, LanesMatch, GraphsPlanned, NoAliasedReplay, Planned

LEMMA NewRuntimeStep ==
  ASSUME ServingIInv, NEW mode, NEW sessions \in Seq(Sessions), NEW lanes,
         NewRuntime(mode, sessions, lanes), serving, PlanInv',
         options.cuda_graph => IsInjective(sessions)
  PROVE  ServingIInv'
<1> DEFINE rt == [sessions |-> sessions, options |-> options, plan |-> NoPlan, buckets |-> {}]
    n == Len(runtimes)
<1>1. /\ runtimes' = Append(runtimes, rt) /\ options' = DefaultOptions
      /\ UNCHANGED <<planVars, stream_of, next_graph_id, captured>>
  BY DEF NewRuntime
<1>2. rt \in Runtimes /\ runtimes \in Seq(Runtimes)
  BY DEF ServingIInv, ServingTypes, Runtimes
<1>3. Runtimes' = Runtimes
  BY <1>1 DEF planVars, Runtimes, NoPlan, AllOptions, Buckets, LaneBuffers, Keys, ServedEntries, Strict
<1>4. rt.sessions = sessions /\ rt.options = options /\ rt.buckets = {}
  OBVIOUS
<1> HIDE DEF rt
<1>5. /\ runtimes' \in Seq(Runtimes') /\ n \in Nat
      /\ DOMAIN runtimes = 1..n /\ DOMAIN runtimes' = 1..(n + 1)
      /\ \A r \in 1..n : runtimes'[r] = runtimes[r]
      /\ runtimes'[n + 1] = rt
  BY <1>1, <1>2, <1>3
<1>6. ServingTypes'
  BY <1>1, <1>5, DefaultOptionsType
     DEF ServingIInv, ServingTypes, planVars, AllOptions, Graphs, LaneBuffers, Keys, ServedEntries
<1>7. \A r \in DOMAIN runtimes' : r \in DOMAIN runtimes \/ (r = n + 1 /\ runtimes'[r] = rt)
  BY <1>5
<1>8. DistinctLanes' /\ LanesMatch'
  BY <1>4, <1>5, <1>7 DEF ServingIInv, DistinctLanes, LanesMatch
<1>9. IdsBelow' /\ NoAliasedReplay'
  BY <1>1, <1>4, <1>5, <1>7 DEF ServingIInv, IdsBelow, NoAliasedReplay
<1>10. GraphsPlanned'
  <2>1. ASSUME NEW s \in Sessions, NEW g \in captured[s]
        PROVE  LET k == g.buffers.runtime
               IN  /\ k \in DOMAIN runtimes' /\ runtimes'[k] = runtimes[k]
                   /\ runtimes[k].options.cuda_graph => Planned(runtimes[k], g.buffers.key)
    BY <1>5 DEF ServingIInv, GraphsPlanned
  <2> SUFFICES ASSUME NEW s \in Sessions, NEW g \in captured[s]
               PROVE  /\ g.buffers.runtime \in DOMAIN runtimes'
                      /\ LET q == runtimes'[g.buffers.runtime]
                         IN  q.options.cuda_graph => Planned(q, g.buffers.key)
    BY <1>1 DEF GraphsPlanned, Planned
  <2> QED
    BY <2>1
<1> QED
  BY <1>6, <1>8, <1>9, <1>10 DEF ServingIInv

\* install_shape_plan gives its plan to a runtime that has captured nothing before.
LEMMA InstallStep ==
  ASSUME ServingIInv, NEW r \in DOMAIN runtimes, install_shape_plan(r), serving, PlanInv'
  PROVE  ServingIInv'
<1>1. /\ runtimes' = [runtimes EXCEPT ![r].plan = plan] /\ runtimes[r].buckets = {}
      /\ UNCHANGED <<planVars, stream_of, options, next_graph_id, captured>>
  BY DEF install_shape_plan
<1>2. runtimes \in Seq(Runtimes) /\ DOMAIN runtimes = 1..Len(runtimes) /\ runtimes[r] \in Runtimes
  BY DEF ServingIInv, ServingTypes
<1>3. Runtimes' = Runtimes
  BY <1>1 DEF planVars, Runtimes, NoPlan, AllOptions, Buckets, LaneBuffers, Keys, ServedEntries, Strict
<1> DEFINE rt == [runtimes[r] EXCEPT !.plan = plan]
<1>4. /\ rt \in Runtimes /\ rt.sessions = runtimes[r].sessions /\ rt.options = runtimes[r].options
      /\ rt.buckets = {} /\ rt.plan = plan
  BY <1>1, <1>2 DEF Runtimes
<1>5. runtimes' = [runtimes EXCEPT ![r] = rt]
  BY <1>1
<1> HIDE DEF rt
<1>6. /\ runtimes' \in Seq(Runtimes') /\ DOMAIN runtimes' = DOMAIN runtimes
      /\ \A k \in DOMAIN runtimes : runtimes'[k] = IF k = r THEN rt ELSE runtimes[k]
  BY <1>2, <1>3, <1>4, <1>5
<1>7. ServingTypes'
  BY <1>1, <1>6 DEF ServingIInv, ServingTypes, planVars, AllOptions, Graphs, LaneBuffers, Keys, ServedEntries
<1>8. DistinctLanes' /\ LanesMatch'
  BY <1>4, <1>6 DEF ServingIInv, DistinctLanes, LanesMatch
<1>9. IdsBelow' /\ NoAliasedReplay'
  BY <1>1, <1>4, <1>6 DEF ServingIInv, IdsBelow, NoAliasedReplay
<1>10. GraphsPlanned'
  <2> SUFFICES ASSUME NEW s \in Sessions, NEW g \in captured[s]
               PROVE  /\ g.buffers.runtime \in DOMAIN runtimes'
                      /\ LET q == runtimes'[g.buffers.runtime]
                         IN  q.options.cuda_graph => Planned(q, g.buffers.key)
    BY <1>1 DEF GraphsPlanned, Planned
  <2> DEFINE k == g.buffers.runtime
  <2>1. k \in DOMAIN runtimes /\ (runtimes[k].options.cuda_graph => Planned(runtimes[k], g.buffers.key))
    BY DEF ServingIInv, GraphsPlanned
  <2>2. CASE k # r
    BY <1>6, <2>1, <2>2
  <2>3. CASE k = r
    <3>1. runtimes[r].plan = plan \/ runtimes[r].plan = NoPlan
      BY <1>2 DEF Runtimes
    <3>2. ~Planned(runtimes[r], g.buffers.key) \/ runtimes[r].plan = plan
      <4>1. DOMAIN NoPlan.buckets = {}
        BY DEF NoPlan
      <4> QED
        BY <3>1, <4>1 DEF Planned
    <3>3. runtimes'[r] = rt /\ rt.plan = plan /\ rt.options = runtimes[r].options
      BY <1>4, <1>6
    <3> QED
      BY <1>6, <2>1, <2>3, <3>2, <3>3 DEF Planned
  <2> QED
    BY <2>2, <2>3
<1> QED
  BY <1>7, <1>8, <1>9, <1>10 DEF ServingIInv

(***************************************************************************)
(* Capturing                                                               *)
(***************************************************************************)
Captures == [Sessions -> SUBSET Graphs]

\* The graphs of c are those of captured and, under id, ones of the first n lanes on
\* their own buffers.
Grown(c, sessions, r, key, id, n) ==
    /\ c \in Captures
    /\ \A s \in Sessions : \A g \in c[s] :
          \/ g \in captured[s]
          \/ g.id = id /\ \E i \in 1..n : sessions[i] = s /\ g.buffers = Buffers(r, key, i)

LEMMA CaptureType ==
  ASSUME NEW c \in Captures, NEW s \in Sessions, NEW id \in Nat, NEW buffers \in LaneBuffers
  PROVE  Capture(c, s, id, buffers) \in Captures
<1>1. [id |-> id, buffers |-> buffers] \in Graphs
  BY DEF Graphs
<1> DEFINE g == [id |-> id, buffers |-> buffers]
<1>2. Capture(c, s, id, buffers) = c \/ Capture(c, s, id, buffers) = [c EXCEPT ![s] = c[s] \cup {g}]
  BY DEF Capture
<1>3. c[s] \cup {g} \in SUBSET Graphs
  BY <1>1 DEF Captures
<1> HIDE DEF g
<1> QED
  BY <1>2, <1>3 DEF Captures

LEMMA BuffersType ==
  ASSUME NEW r \in Nat, NEW key \in Keys, NEW i \in Nat, next_graph_id \in Nat
  PROVE  Buffers(r, key, i) \in LaneBuffers
BY DEF Buffers, LaneBuffers

LEMMA CaptureLanesIs ==
  ASSUME captured \in Captures, NEW sessions \in Seq(Sessions), NEW r \in Nat, NEW key \in Keys,
         NEW id \in Nat, next_graph_id \in Nat, NEW n \in 0..Len(sessions)
  PROVE  \E f : /\ f[0] = captured
                /\ \A i \in 1..n : f[i] = Capture(f[i - 1], sessions[i], id, Buffers(r, key, i))
                /\ CaptureLanes(sessions, r, key, id, n) = f[n]
<1> DEFINE Take(i, x) == Capture(x, sessions[i], id, Buffers(r, key, i))
    P(f) == f = [i \in 0..n |-> IF i = 0 THEN captured
                                ELSE Capture(f[i - 1], sessions[i], id, Buffers(r, key, i))]
    g == CHOOSE f : P(f)
    step == [k \in 1..n |-> [x \in Captures |-> Take(k, x)]]
<1>1. n \in Nat /\ \A i \in 1..n : sessions[i] \in Sessions /\ Buffers(r, key, i) \in LaneBuffers
  BY BuffersType
<1>2. step \in [1..n -> [Captures -> Captures]]
  <2>1. \A k \in 1..n : \A x \in Captures : Take(k, x) \in Captures
    BY <1>1, CaptureType
  <2> HIDE DEF Take
  <2> QED
    BY <2>1
<1>3. \E f : Recursive(f, n, Captures, captured, step)
  <2> HIDE DEF step
  <2> QED
    BY <1>1, <1>2, Recursion
<1>4. PICK f : f \in [0..n -> Captures] /\ f[0] = captured /\ \A k \in 1..n : f[k] = step[k][f[k - 1]]
  <2> HIDE DEF step
  <2> QED
    BY <1>3 DEF Recursive
<1>5. \A k \in 0..n : f[k] = IF k = 0 THEN captured ELSE Take(k, f[k - 1])
  <2> TAKE k \in 0..n
  <2> HIDE DEF Take
  <2>1. CASE k = 0
    BY <2>1, <1>4
  <2>2. CASE k # 0
    <3>1. k \in 1..n /\ k - 1 \in 0..n
      BY <2>2
    <3>2. f[k - 1] \in Captures
      BY <3>1, <1>4
    <3> QED
      BY <3>1, <3>2, <2>2, <1>4
  <2> QED
    BY <2>1, <2>2
<1>6. P(f)
  BY <1>4, <1>5
<1>7. P(g)
  <2> HIDE DEF P
  <2> QED
    BY <1>6
<1>8. CaptureLanes(sessions, r, key, id, n) = g[n]
  BY DEF CaptureLanes
<1> HIDE DEF g
<1>9. g[0] = captured /\ \A k \in 1..n : g[k] = Take(k, g[k - 1])
  <2>1. \A k \in 0..n : g[k] = IF k = 0 THEN captured ELSE Take(k, g[k - 1])
    BY <1>7, Zenon
  <2> HIDE DEF Take
  <2>2. 0 \in 0..n /\ \A k \in 1..n : k \in 0..n /\ k # 0
    OBVIOUS
  <2> QED
    BY <2>1, <2>2
<1> QED
  BY <1>8, <1>9

\* The eager capture: a lane that finds a graph under its id leaves it.
LEMMA CaptureLanesGrow ==
  ASSUME captured \in Captures, NEW sessions \in Seq(Sessions), NEW r \in Nat, NEW key \in Keys,
         NEW id \in Nat, next_graph_id \in Nat, NEW n \in 0..Len(sessions)
  PROVE  Grown(CaptureLanes(sessions, r, key, id, n), sessions, r, key, id, n)
<1>1. PICK f : /\ f[0] = captured
               /\ \A i \in 1..n : f[i] = Capture(f[i - 1], sessions[i], id, Buffers(r, key, i))
               /\ CaptureLanes(sessions, r, key, id, n) = f[n]
  BY CaptureLanesIs
<1> DEFINE S == {i \in 0..n : Grown(f[i], sessions, r, key, id, i)}
<1>2. 0 \in S
  BY <1>1 DEF Grown
<1>3. ASSUME NEW k \in 1..n, k - 1 \in S PROVE k \in S
  <2> DEFINE s == sessions[k]
      buffers == Buffers(r, key, k)
      new == [id |-> id, buffers |-> buffers]
      c == f[k - 1]
  <2>1. s \in Sessions /\ buffers \in LaneBuffers /\ c \in Captures
    BY <1>3, BuffersType DEF Grown
  <2>2. f[k] = Capture(c, s, id, buffers)
    BY <1>1
  <2>3. f[k] \in Captures
    BY <2>1, <2>2, CaptureType
  <2>4. new.id = id /\ new.buffers = buffers
    OBVIOUS
  <2>5. f[k] = c \/ f[k] = [c EXCEPT ![s] = c[s] \cup {new}]
    BY <2>2 DEF Capture
  <2> HIDE DEF c, new
  <2>6. ASSUME NEW q \in Sessions, NEW g \in f[k][q]
        PROVE  \/ g \in captured[q]
               \/ g.id = id /\ \E i \in 1..k : sessions[i] = q /\ g.buffers = Buffers(r, key, i)
    <3>1. CASE g \in c[q]
      BY <1>3, <3>1 DEF Grown, c
    <3>2. CASE g \notin c[q]
      <4>1. f[k] # c /\ f[k] = [c EXCEPT ![s] = c[s] \cup {new}]
        BY <2>5, <2>6, <3>2
      <4>2. DOMAIN c = Sessions
        BY <2>1 DEF Captures
      <4>3. q = s /\ g = new
        BY <2>6, <3>2, <4>1, <4>2
      <4> QED
        BY <2>4, <4>3
    <3> QED
      BY <3>1, <3>2
  <2> QED
    BY <2>3, <2>6 DEF Grown
<1> HIDE DEF S
<1>4. 0..n \subseteq S
  BY <1>2, <1>3, Induction
<1> QED
  BY <1>1, <1>4 DEF S

\* A new bucket: on its own graph id if its runtime uses graphs.
NewBucket(b, r, key) ==
    /\ DOMAIN b.lanes = DOMAIN runtimes[r].sessions
    /\ \/ b.graph = None
       \/ /\ b.graph = next_graph_id /\ next_graph_id' = next_graph_id + 1
          /\ runtimes[r].options.cuda_graph
          /\ \A i \in DOMAIN b.lanes : b.lanes[i] = Buffers(r, key, i)

\* The buckets of a runtime change, and graphs of its lanes are captured.
LEMMA BucketStep ==
  ASSUME ServingIInv, PlanInv', serving, NEW r \in DOMAIN runtimes, NEW key, NEW B \in SUBSET Buckets,
         runtimes' = [runtimes EXCEPT ![r].buckets = B], UNCHANGED <<planVars, options>>,
         next_graph_id' \in {next_graph_id, next_graph_id + 1},
         NEW n \in 0..Len(runtimes[r].sessions),
         Grown(captured', runtimes[r].sessions, r, key, next_graph_id, n),
         \/ captured' = captured
         \/ /\ next_graph_id' = next_graph_id + 1
            /\ runtimes[r].options.cuda_graph /\ Planned(runtimes[r], key),
         \A b \in B : b \in runtimes[r].buckets \/ NewBucket(b, r, key)
  PROVE  ServingIInv'
<1>1. runtimes \in Seq(Runtimes) /\ DOMAIN runtimes = 1..Len(runtimes) /\ runtimes[r] \in Runtimes
  BY DEF ServingIInv, ServingTypes
<1>2. Runtimes' = Runtimes
  BY DEF planVars, Runtimes, NoPlan, AllOptions, Buckets, LaneBuffers, Keys, ServedEntries, Strict
<1> DEFINE rt == [runtimes[r] EXCEPT !.buckets = B]
<1>3. /\ rt \in Runtimes /\ rt.sessions = runtimes[r].sessions /\ rt.options = runtimes[r].options
      /\ rt.buckets = B /\ rt.plan = runtimes[r].plan
  BY <1>1 DEF Runtimes
<1>4. runtimes' = [runtimes EXCEPT ![r] = rt]
  OBVIOUS
<1> HIDE DEF rt
<1>5. /\ runtimes' \in Seq(Runtimes') /\ DOMAIN runtimes' = DOMAIN runtimes
      /\ \A k \in DOMAIN runtimes : runtimes'[k] = IF k = r THEN rt ELSE runtimes[k]
  BY <1>1, <1>2, <1>3, <1>4
<1>6. /\ next_graph_id \in Nat \ {0} /\ next_graph_id' \in Nat \ {0} /\ next_graph_id <= next_graph_id'
      /\ captured' \in Captures
  BY DEF ServingIInv, ServingTypes, Grown
<1>7. ServingTypes'
  BY <1>5, <1>6 DEF ServingIInv, ServingTypes, Captures, planVars, AllOptions, Graphs, LaneBuffers,
                    Keys, ServedEntries
<1>8. DistinctLanes'
  BY <1>3, <1>5 DEF ServingIInv, DistinctLanes
<1>9. LanesMatch'
  BY <1>3, <1>5 DEF ServingIInv, LanesMatch, NewBucket
<1>10. \A q \in DOMAIN runtimes : \A b \in runtimes[q].buckets :
          b.graph # None => b.graph \in Nat /\ b.graph < next_graph_id
  <2> TAKE q \in DOMAIN runtimes
  <2> TAKE b \in runtimes[q].buckets
  <2>1. b \in Buckets
    <3>1. runtimes[q] \in Runtimes
      BY <1>1
    <3>2. runtimes[q].buckets \in SUBSET Buckets
      BY <3>1 DEF Runtimes
    <3> QED
      BY <3>2
  <2> QED
    BY <2>1 DEF Buckets, ServingIInv, IdsBelow
<1>11. \A s \in Sessions : \A g \in captured[s] : g.id \in Nat /\ g.id < next_graph_id
  BY DEF ServingIInv, IdsBelow, ServingTypes, Graphs
<1>12. \A s \in Sessions : \A g \in captured'[s] :
          \/ g \in captured[s]
          \/ /\ g.id = next_graph_id /\ next_graph_id' = next_graph_id + 1
             /\ runtimes[r].options.cuda_graph /\ Planned(runtimes[r], key)
             /\ \E i \in 1..n : runtimes[r].sessions[i] = s /\ g.buffers = Buffers(r, key, i)
  BY DEF Grown
<1>13. \A q \in DOMAIN runtimes : \A b \in runtimes'[q].buckets :
          b \in runtimes[q].buckets \/ (q = r /\ NewBucket(b, r, key))
  BY <1>3, <1>5
<1>14. IdsBelow'
  <2>1. ASSUME NEW q \in DOMAIN runtimes, NEW b \in runtimes'[q].buckets, b.graph # None
        PROVE  b.graph < next_graph_id'
    BY <1>6, <1>10, <1>13, <2>1 DEF NewBucket
  <2>2. ASSUME NEW s \in Sessions, NEW g \in captured'[s] PROVE g.id < next_graph_id'
    BY <1>6, <1>11, <1>12
  <2> QED
    BY <1>5, <2>1, <2>2 DEF IdsBelow
<1>15. GraphsPlanned'
  <2> SUFFICES ASSUME NEW s \in Sessions, NEW g \in captured'[s]
               PROVE  /\ g.buffers.runtime \in DOMAIN runtimes'
                      /\ LET q == runtimes'[g.buffers.runtime]
                         IN  q.options.cuda_graph => Planned(q, g.buffers.key)
    BY DEF GraphsPlanned, Planned
  <2>1. \A q \in DOMAIN runtimes :
           /\ runtimes'[q].options = runtimes[q].options
           /\ \A x : Planned(runtimes[q], x) => Planned(runtimes'[q], x)
    BY <1>3, <1>5 DEF Planned
  <2>2. CASE g \in captured[s]
    BY <1>5, <2>1, <2>2 DEF ServingIInv, GraphsPlanned
  <2>3. CASE g \notin captured[s]
    <3>1. Planned(runtimes[r], key) /\ \E i \in 1..n : g.buffers = Buffers(r, key, i)
      BY <1>12, <2>3
    <3>2. g.buffers.runtime = r /\ g.buffers.key = key
      BY <3>1 DEF Buffers
    <3> QED
      BY <1>5, <2>1, <3>1, <3>2
  <2> QED
    BY <2>2, <2>3
<1>16. NoAliasedReplay'
  <2> SUFFICES ASSUME NEW q \in DOMAIN runtimes, NEW b \in runtimes'[q].buckets, b.graph # None,
                      NEW i \in DOMAIN b.lanes, NEW g \in captured'[runtimes'[q].sessions[i]], g.id = b.graph
               PROVE  g.buffers = b.lanes[i]
    BY <1>5 DEF NoAliasedReplay
  <2> DEFINE s == runtimes[q].sessions[i]
  <2>1. runtimes'[q].sessions = runtimes[q].sessions /\ DOMAIN b.lanes = DOMAIN runtimes[q].sessions
    BY <1>3, <1>5, <1>9 DEF LanesMatch
  <2>2. s \in Sessions /\ g \in captured'[s] /\ i \in 1..Len(runtimes[q].sessions)
    <3>1. runtimes[q].sessions \in Seq(Sessions)
      <4>1. runtimes[q] \in Runtimes
        BY <1>1
      <4> QED
        BY <4>1 DEF Runtimes
    <3> QED
      BY <2>1, <3>1
  <2>3. CASE g \in captured[s] /\ b \in runtimes[q].buckets
    BY <2>3 DEF ServingIInv, NoAliasedReplay
  <2>4. CASE g \in captured[s] /\ b \notin runtimes[q].buckets
    <3>1. b.graph = next_graph_id
      BY <1>13, <2>4 DEF NewBucket
    <3> QED
      BY <1>6, <1>11, <2>2, <2>4, <3>1
  <2>5. CASE g \notin captured[s] /\ b \in runtimes[q].buckets
    <3>1. g.id = next_graph_id
      BY <1>12, <2>2, <2>5
    <3>2. b.graph \in Nat /\ b.graph < next_graph_id
      BY <1>10, <2>5
    <3>3. b.graph = next_graph_id
      BY <3>1
    <3> QED
      BY <1>6, <3>2, <3>3
  <2>6. CASE g \notin captured[s] /\ b \notin runtimes[q].buckets
    <3>1. q = r /\ runtimes[r].options.cuda_graph /\ b.lanes[i] = Buffers(r, key, i)
      BY <1>13, <2>6 DEF NewBucket
    <3>2. PICK j \in 1..n : runtimes[r].sessions[j] = s /\ g.buffers = Buffers(r, key, j)
      BY <1>12, <2>2, <2>6
    <3>3. IsInjective(runtimes[r].sessions)
      BY <3>1 DEF ServingIInv, DistinctLanes
    <3>4. DOMAIN runtimes[r].sessions = 1..Len(runtimes[r].sessions)
      BY <1>1 DEF Runtimes
    <3>5. j = i
      BY <2>1, <3>1, <3>2, <3>3, <3>4 DEF IsInjective
    <3> QED
      BY <3>1, <3>2, <3>5
  <2> QED
    BY <2>3, <2>4, <2>5, <2>6
<1> QED
  BY <1>7, <1>8, <1>9, <1>14, <1>15, <1>16 DEF ServingIInv

LEMMA NearestId ==
  ASSUME NEW p, NEW r, "id" \in DOMAIN Nearest(p, r)
  PROVE  Nearest(p, r).id \in DOMAIN p.buckets
<1>1. \A e : "id" \notin DOMAIN Fails(e)
  BY DEF Fails
<1>2. \E i \in DOMAIN p.buckets : Nearest(p, r) = Found(i)
  <2> DEFINE same == {i \in DOMAIN p.buckets : p.buckets[i].inputs = r}
      Minimal == {i \in Holding(p, r) : \A j \in Holding(p, r) : Beats(p, i, j)}
      m == CHOOSE x \in Minimal : TRUE
      over == (Size(p, m) - Elements(r)) * p.fallback.den > p.fallback.num * Elements(r)
  <2>1. Nearest(p, r) =
           IF same # {} THEN Found(CHOOSE i \in same : TRUE)
           ELSE IF p.fallback.kind # "pad" THEN Fails("NotInPlan")
           ELSE IF Minimal = {} THEN Fails("NoFittingShape")
           ELSE IF over THEN Fails("PaddingWasteExceeded") ELSE Found(m)
    BY DEF Nearest, Size, Beats
  <2>2. Minimal \subseteq DOMAIN p.buckets /\ same \subseteq DOMAIN p.buckets
    BY DEF Holding
  <2>3. (same # {} => (CHOOSE i \in same : TRUE) \in same) /\ (Minimal # {} => m \in Minimal)
    <3> HIDE DEF same, Minimal
    <3> QED
      OBVIOUS
  <2> HIDE DEF same, Minimal, m, over
  <2> QED
    BY <1>1, <2>1, <2>2, <2>3
<1> QED
  BY <1>2 DEF Found

\* A shape that a graph runtime lets through is one of its plan.
LEMMA ValidatedIsPlanned ==
  ASSUME ServingIInv, NEW r \in DOMAIN runtimes, NEW inputs \in Seq(Seq(Int)), NEW outputs,
         validate_planned_shape(runtimes[r], inputs, outputs), runtimes[r].options.cuda_graph
  PROVE  Planned(runtimes[r], <<inputs, outputs>>)
<1>1. runtimes[r] \in Runtimes
  BY DEF ServingIInv, ServingTypes
<1>2. runtimes[r].plan = plan /\ plan # NoPlan
  BY <1>1 DEF validate_planned_shape, Runtimes
<1>3. PICK b : Typed(b) /\ Builds(b) /\ plan = PlanOf(b)
  BY <1>2 DEF ServingIInv, PlanInv
<1> DEFINE c == classify(plan, inputs)
<1>4. "id" \in DOMAIN c /\ plan.buckets[c.id].inputs = inputs /\ plan.buckets[c.id].outputs = outputs
  BY <1>2 DEF validate_planned_shape
<1>5. c.id \in DOMAIN plan.buckets
  BY <1>3, <1>4, ClassifyLemma, NearestId
<1> QED
  BY <1>2, <1>4, <1>5 DEF Planned

LEMMA ServedTypes ==
  ASSUME NEW inputs \in {e.inputs : e \in ServedEntries} PROVE inputs \in Seq(Seq(Int))
<1>1. \A e \in ServedEntries : e \in PlanEntries
  BY TopologyAssumption DEF ServedEntries, ToSet
<1> QED
  BY <1>1 DEF PlanEntries

LEMMA GetOrCreateStep ==
  ASSUME ServingIInv, PlanInv', serving, NEW r \in DOMAIN runtimes,
         NEW inputs \in {e.inputs : e \in ServedEntries}, NEW outputs \in {e.outputs : e \in ServedEntries},
         get_or_create_bucket(r, inputs, outputs)
  PROVE  ServingIInv'
<1> DEFINE rt == runtimes[r]
    key == <<inputs, outputs>>
    id == next_graph_id
    lanes == [i \in DOMAIN rt.sessions |-> Buffers(r, key, i)]
    bucket == [key |-> key, graph |-> id, lanes |-> lanes]
    plain == [bucket EXCEPT !.graph = None]
<1>1. /\ rt.sessions \in Seq(Sessions) /\ rt.buckets \in SUBSET Buckets /\ r \in Nat
      /\ id \in Nat /\ captured \in Captures
  <2>1. rt \in Runtimes /\ r \in Nat
    BY DEF ServingIInv, ServingTypes
  <2>2. id \in Nat /\ captured \in Captures
    BY DEF ServingIInv, ServingTypes, Captures
  <2> QED
    BY <2>1, <2>2 DEF Runtimes
<1>2. key \in Keys
  BY DEF Keys
<1>3. lanes \in Seq(LaneBuffers) /\ DOMAIN lanes = DOMAIN rt.sessions
  <2>1. DOMAIN rt.sessions = 1..Len(rt.sessions) /\ Len(rt.sessions) \in Nat
    BY <1>1
  <2>2. \A i \in 1..Len(rt.sessions) : Buffers(r, key, i) \in LaneBuffers
    BY <1>1, <1>2, BuffersType
  <2> HIDE DEF rt, key
  <2> QED
    BY <2>1, <2>2
<1>4. \A i \in DOMAIN lanes : lanes[i] = Buffers(r, key, i)
  OBVIOUS
<1> HIDE DEF lanes
<1>5. /\ bucket \in Buckets /\ bucket.graph = id /\ bucket.lanes = lanes
      /\ plain \in Buckets /\ plain.graph = None /\ plain.lanes = lanes
  BY <1>1, <1>2, <1>3 DEF Buckets
<1>6. rt.options.cuda_graph => Planned(rt, key)
  BY ServedTypes, ValidatedIsPlanned DEF get_or_create_bucket
<1>7. UNCHANGED <<planVars, options>>
  BY DEF get_or_create_bucket
<1>8. \E rest \in SUBSET rt.buckets :
        \/ /\ rt.options.cuda_graph /\ next_graph_id' = next_graph_id + 1
           /\ \/ /\ captured' = CaptureLanes(rt.sessions, r, key, id, Len(rt.sessions))
                 /\ runtimes' = [runtimes EXCEPT ![r].buckets = rest \cup {bucket}]
              \/ \E n \in 0..(Len(rt.sessions) - 1) :
                    /\ captured' = CaptureLanes(rt.sessions, r, key, id, n)
                    /\ runtimes' = [runtimes EXCEPT ![r].buckets = rest]
        \/ /\ runtimes' = [runtimes EXCEPT ![r].buckets = rest \cup {plain}]
           /\ UNCHANGED <<next_graph_id, captured>>
  BY Zenon DEF get_or_create_bucket, allocate_captured_graph_id, lanes
<1> HIDE DEF bucket, plain
<1>9. PICK rest \in SUBSET rt.buckets :
        \/ /\ rt.options.cuda_graph /\ next_graph_id' = next_graph_id + 1
           /\ \/ /\ captured' = CaptureLanes(rt.sessions, r, key, id, Len(rt.sessions))
                 /\ runtimes' = [runtimes EXCEPT ![r].buckets = rest \cup {bucket}]
              \/ \E n \in 0..(Len(rt.sessions) - 1) :
                    /\ captured' = CaptureLanes(rt.sessions, r, key, id, n)
                    /\ runtimes' = [runtimes EXCEPT ![r].buckets = rest]
        \/ /\ runtimes' = [runtimes EXCEPT ![r].buckets = rest \cup {plain}]
           /\ UNCHANGED <<next_graph_id, captured>>
  BY <1>8
<1>10. Len(rt.sessions) \in 0..Len(rt.sessions) /\ 0 \in 0..Len(rt.sessions) /\ rest \subseteq Buckets
  BY <1>1
<1>11. ASSUME rt.options.cuda_graph, next_graph_id' = next_graph_id + 1,
              captured' = CaptureLanes(rt.sessions, r, key, id, Len(rt.sessions)),
              runtimes' = [runtimes EXCEPT ![r].buckets = rest \cup {bucket}]
       PROVE  ServingIInv'
  <2>1. Grown(captured', rt.sessions, r, key, next_graph_id, Len(rt.sessions))
    BY <1>1, <1>2, <1>10, <1>11, CaptureLanesGrow
  <2>2. rest \cup {bucket} \in SUBSET Buckets
    BY <1>5, <1>10
  <2>3. \A b \in rest \cup {bucket} : b \in runtimes[r].buckets \/ NewBucket(b, r, key)
    BY <1>3, <1>4, <1>5, <1>9, <1>11 DEF NewBucket
  <2> HIDE DEF key
  <2> QED
    BY <1>6, <1>7, <1>10, <1>11, <2>1, <2>2, <2>3, BucketStep
<1>12. ASSUME NEW n \in 0..(Len(rt.sessions) - 1),
              rt.options.cuda_graph, next_graph_id' = next_graph_id + 1,
              captured' = CaptureLanes(rt.sessions, r, key, id, n),
              runtimes' = [runtimes EXCEPT ![r].buckets = rest]
       PROVE  ServingIInv'
  <2>1. n \in 0..Len(rt.sessions)
    BY <1>1
  <2>2. Grown(captured', rt.sessions, r, key, next_graph_id, n)
    BY <1>1, <1>2, <1>12, <2>1, CaptureLanesGrow
  <2>3. rest \in SUBSET Buckets /\ \A b \in rest : b \in runtimes[r].buckets
    BY <1>9, <1>10
  <2> HIDE DEF key
  <2> QED
    BY <1>6, <1>7, <1>12, <2>1, <2>2, <2>3, BucketStep
<1>13. ASSUME runtimes' = [runtimes EXCEPT ![r].buckets = rest \cup {plain}],
              UNCHANGED <<next_graph_id, captured>>
       PROVE  ServingIInv'
  <2>1. Grown(captured', rt.sessions, r, key, next_graph_id, 0)
    BY <1>1, <1>13 DEF Grown
  <2>2. rest \cup {plain} \in SUBSET Buckets
    BY <1>5, <1>10
  <2>3. \A b \in rest \cup {plain} : b \in runtimes[r].buckets \/ NewBucket(b, r, key)
    BY <1>3, <1>5, <1>9 DEF NewBucket
  <2> HIDE DEF key
  <2> QED
    BY <1>7, <1>10, <1>13, <2>1, <2>2, <2>3, BucketStep
<1> QED
  BY <1>9, <1>11, <1>12, <1>13

LEMMA RemoveStep ==
  ASSUME ServingIInv, PlanInv', serving, NEW r \in DOMAIN runtimes, NEW b \in runtimes[r].buckets,
         remove_bucket(r, b)
  PROVE  ServingIInv'
<1> DEFINE B == runtimes[r].buckets \ {b}
<1>1. /\ runtimes' = [runtimes EXCEPT ![r].buckets = B]
      /\ UNCHANGED <<planVars, options, next_graph_id, captured>>
  BY DEF remove_bucket
<1>2. runtimes[r] \in Runtimes /\ captured \in Captures
  BY DEF ServingIInv, ServingTypes, Captures
<1>3. /\ B \in SUBSET Buckets /\ \A x \in B : x \in runtimes[r].buckets
      /\ 0 \in 0..Len(runtimes[r].sessions)
  BY <1>2 DEF Runtimes
<1>4. Grown(captured', runtimes[r].sessions, r, b, next_graph_id, 0)
  BY <1>1, <1>2 DEF Grown
<1> HIDE DEF B
<1> QED
  BY <1>1, <1>3, <1>4, BucketStep

LEMMA ServingNextIInv == ServingIInv /\ [ServingNext]_servingVars => ServingIInv'
<1> SUFFICES ASSUME ServingIInv, [ServingNext]_servingVars PROVE ServingIInv'
  OBVIOUS
<1>1. PlanInv'
  BY PlanInvNext DEF ServingIInv
<1>2. options \in AllOptions
  BY DEF ServingIInv, ServingTypes
<1>3. CASE UNCHANGED servingVars
  BY <1>1, <1>2, <1>3, SameTopology DEF servingVars, topologyVars
<1>4. CASE PlanNext /\ UNCHANGED topologyVars
  <2>1. ~serving /\ ~serving'
    BY <1>4 DEF PlanNext, fallback_policy, add_shape, build
  <2> QED
    BY <1>1, <1>2, <1>4, <2>1, SameTopology DEF topologyVars
<1>5. ASSUME serving, NEW o \in AllOptions, SetOptions(o) PROVE ServingIInv'
  BY <1>1, <1>5, SameTopology DEF SetOptions
<1>6. CASE serving /\ ServeNext
  <2>1. ASSUME NEW b \in BOOLEAN,
               with_rebind_inputs_each_run(b) \/ with_cuda_graph(b) \/ with_device_outputs(b)
        PROVE  ServingIInv'
    <3>1. /\ [options EXCEPT !.rebind_inputs_each_run = b] \in AllOptions
          /\ [options EXCEPT !.cuda_graph = b] \in AllOptions
          /\ [options EXCEPT !.device_outputs = b] \in AllOptions
      BY <1>2 DEF AllOptions
    <3> QED
      BY <1>5, <1>6, <2>1, <3>1 DEF with_rebind_inputs_each_run, with_cuda_graph, with_device_outputs
  <2>2. ASSUME NEW s \in Streams, with_device_inputs(s) PROVE ServingIInv'
    <3>1. [options EXCEPT !.device = TRUE, !.stream = s, !.lane_streams = <<>>] \in AllOptions
      BY <1>2 DEF AllOptions
    <3> QED
      BY <1>5, <1>6, <2>2, <3>1 DEF with_device_inputs
  <2>3. ASSUME NEW q \in StreamLists, with_device_input_streams(q) PROVE ServingIInv'
    <3>1. [options EXCEPT !.device = TRUE, !.stream = None, !.lane_streams = q] \in AllOptions
      BY <1>2 DEF AllOptions
    <3> QED
      BY <1>5, <1>6, <2>3, <3>1 DEF with_device_input_streams
  <2>4. ASSUME NEW s \in Sessions, NEW n \in LaneCounts, shared_session_with_options(s, n) PROVE ServingIInv'
    <3> DEFINE q == [i \in 1..n |-> s]
    <3>1. n \in Nat /\ NewRuntime("shared", q, n)
      BY <2>4, TopologyAssumption DEF shared_session_with_options
    <3>2. q \in Seq(Sessions)
      BY <3>1
    <3>3. options.cuda_graph => n <= 1
      BY <3>1 DEF NewRuntime, validate_runtime_mode
    <3>4. n <= 1 => IsInjective(q)
      BY <3>1 DEF IsInjective
    <3> HIDE DEF q
    <3> QED
      BY <1>1, <1>6, <3>1, <3>2, <3>3, <3>4, NewRuntimeStep
  <2>5. ASSUME NEW q \in DistinctSessions, from_sessions_with_options(q) PROVE ServingIInv'
    <3>1. PICK n \in 1..Cardinality(Sessions) : q \in [1..n -> Sessions] /\ IsInjective(q)
      BY DEF DistinctSessions
    <3>2. q \in Seq(Sessions)
      <4>1. n \in Nat
        <5> HIDE DEF Cardinality
        <5> QED
          OBVIOUS
      <4> QED
        BY <3>1, <4>1
    <3> QED
      BY <1>1, <1>6, <2>5, <3>1, <3>2, NewRuntimeStep DEF from_sessions_with_options
  <2>6. ASSUME NEW r \in DOMAIN runtimes, install_shape_plan(r) PROVE ServingIInv'
    BY <1>1, <1>6, <2>6, InstallStep
  <2>7. ASSUME NEW r \in DOMAIN runtimes, NEW inputs \in {e.inputs : e \in ServedEntries},
               NEW outputs \in {e.outputs : e \in ServedEntries}, get_or_create_bucket(r, inputs, outputs)
        PROVE  ServingIInv'
    BY <1>1, <1>6, <2>7, GetOrCreateStep
  <2>8. ASSUME NEW r \in DOMAIN runtimes, NEW b \in runtimes[r].buckets, remove_bucket(r, b) PROVE ServingIInv'
    BY <1>1, <1>6, <2>8, RemoveStep
  <2> QED
    BY <1>6, <2>1, <2>2, <2>3, <2>4, <2>5, <2>6, <2>7, <2>8 DEF ServeNext
<1> QED
  BY <1>3, <1>4, <1>6 DEF ServingNext

\* A lane replays a graph captured on its own buffers, for every number of runtimes,
\* sessions and buckets: the counter is one for the process and never goes back, also
\* when a bucket is not created, and the lanes of a graph runtime share no session.
THEOREM ReplaysOwnBuffers == ServingSpec => []NoAliasedReplay
<1>1. ServingIInv => NoAliasedReplay
  BY DEF ServingIInv
<1> QED
  BY <1>1, ServingInitIInv, ServingNextIInv, PTL DEF ServingSpec

\* A graph is captured for the canonical shapes of the runtime's plan alone: a runtime
\* that uses graphs refuses a live shape until a plan is installed, and from then on
\* every shape that is not one of the plan's, also one that the plan would pad.
THEOREM CapturesPlannedShapes == ServingSpec => []OnlyPlannedShapesCapture
BY OnlyPlanned, ServingInitIInv, ServingNextIInv, PTL DEF ServingSpec
=============================================================================
