------------------------------ MODULE RunAsync ------------------------------
(***************************************************************************)
(* Asynchronous runs of one session (session.rs): run_async_owned hands an *)
(* Arc<AsyncState> to ONNX Runtime, whose worker thread calls back; the    *)
(* RunFuture polls the same state.  A run goes through its caller's steps  *)
(* (c_pc) and its worker's steps (w_pc); every access to done, to the      *)
(* waker and to the result is a step.  AtomicWaker is used by its promise: *)
(* register stores the waker, wake notifies the stored one.  Callers keep  *)
(* to the documented rule for borrowed inputs (session and inputs live     *)
(* until the future resolves) and to what the borrow checker enforces.     *)
(***************************************************************************)
EXTENDS Integers

CONSTANT Runs      \* calls of run_async or run_async_owned_inputs

VARIABLES c_pc,        \* caller of the run and its RunFuture
          w_pc,        \* ORT worker of the run
          owned,       \* the inputs were moved into the state (_owned_inputs)
          refs,        \* strong count of the Arc<AsyncState>
          result,      \* UnsafeCell<Option<Result>>: none, ok, err
          done,        \* AtomicBool
          waker,       \* a waker is registered
          notified,    \* the task was woken since its last poll began
          resolved,    \* poll has returned Ready
          session      \* the session exists

caller == <<c_pc, notified, resolved>>
state == <<refs, result, done, waker>>
memory == <<owned, session>>
vars == <<caller, w_pc, state, memory>>

Init ==
    /\ c_pc = [r \in Runs |-> "none"]
    /\ w_pc = [r \in Runs |-> "none"]
    /\ owned \in [Runs -> BOOLEAN]
    /\ refs = [r \in Runs |-> 0]
    /\ result = [r \in Runs |-> "none"]
    /\ done = [r \in Runs |-> FALSE]
    /\ waker = [r \in Runs |-> FALSE]
    /\ notified = [r \in Runs |-> FALSE]
    /\ resolved = [r \in Runs |-> FALSE]
    /\ session = TRUE

Set(f, r, v) == f' = [f EXCEPT ![r] = v]

(***************************************************************************)
(* Starting a run                                                          *)
(***************************************************************************)
\* check_input_count fails before anything is allocated.
RejectInputs(r) ==
    /\ session /\ c_pc[r] = "none"
    /\ Set(c_pc, r, "failed")
    /\ UNCHANGED <<w_pc, notified, resolved, state, memory>>

\* The state is shared (the future's reference and the callback's), and ORT's
\* RunAsync is called: the worker may run, and even finish, before it returns.
run_async_owned(r) ==
    /\ session /\ c_pc[r] = "none"
    /\ Set(refs, r, 2)
    /\ \/ Set(c_pc, r, "started") /\ Set(w_pc, r, "running")
       \/ Set(c_pc, r, "not_started") /\ UNCHANGED w_pc
    /\ UNCHANGED <<notified, resolved, result, done, waker, memory>>

Started(r) ==
    /\ c_pc[r] = "started"
    /\ Set(c_pc, r, "future")
    /\ UNCHANGED <<w_pc, notified, resolved, state, memory>>

\* Mutant: the reference handed to the callback is not taken back.
NotStartedKeepsRef(r) ==
    /\ c_pc[r] = "not_started"
    /\ Set(refs, r, refs[r] - 1)
    /\ Set(c_pc, r, "failed")
    /\ UNCHANGED <<w_pc, notified, resolved, result, done, waker, memory>>

\* RunAsync returned an error: from_raw takes back the callback's reference.
NotStarted(r) ==
    /\ c_pc[r] = "not_started"
    /\ Set(refs, r, refs[r] - 2)
    /\ Set(c_pc, r, "failed")
    /\ UNCHANGED <<w_pc, notified, resolved, result, done, waker, memory>>

(***************************************************************************)
(* RunFuture::poll, by an executor that may also poll without being woken  *)
(***************************************************************************)
Poll(r) ==
    /\ c_pc[r] \in {"future", "pending"}
    /\ Set(c_pc, r, "load")
    /\ Set(notified, r, FALSE)
    /\ UNCHANGED <<w_pc, resolved, state, memory>>

FirstLoad(r) ==
    /\ c_pc[r] = "load"
    /\ Set(c_pc, r, IF done[r] THEN "take" ELSE "register")
    /\ UNCHANGED <<w_pc, notified, resolved, state, memory>>

Register(r) ==
    /\ c_pc[r] = "register"
    /\ Set(waker, r, TRUE)
    /\ Set(c_pc, r, "reload")
    /\ UNCHANGED <<w_pc, notified, resolved, refs, result, done, memory>>

\* Mutant: poll does not look again after it has registered.
NoSecondLoad(r) ==
    /\ c_pc[r] = "reload"
    /\ Set(c_pc, r, "pending")
    /\ UNCHANGED <<w_pc, notified, resolved, state, memory>>

SecondLoad(r) ==
    /\ c_pc[r] = "reload"
    /\ Set(c_pc, r, IF done[r] THEN "take" ELSE "pending")
    /\ UNCHANGED <<w_pc, notified, resolved, state, memory>>

take_result(r) ==
    /\ c_pc[r] = "take"
    /\ Set(result, r, "none")
    /\ Set(resolved, r, TRUE)
    /\ Set(c_pc, r, "future")
    /\ UNCHANGED <<w_pc, notified, refs, done, waker, memory>>

\* The future is dropped between two polls, resolved or not.
drop_future(r) ==
    /\ c_pc[r] \in {"future", "pending"}
    /\ Set(refs, r, refs[r] - 1)
    /\ Set(c_pc, r, "gone")
    /\ UNCHANGED <<w_pc, notified, resolved, result, done, waker, memory>>

(***************************************************************************)
(* The worker: the native run, then run_async_callback                     *)
(***************************************************************************)
\* The status is an error, or collecting the outputs fails or panics, or not.
NativeRunEnds(r) ==
    /\ w_pc[r] = "running"
    /\ Set(w_pc, r, "write")
    /\ UNCHANGED <<caller, state, memory>>

\* Mutant: done is published before the result is written.
StoreBeforeWrite(r) ==
    \/ /\ w_pc[r] = "write"
       /\ Set(done, r, TRUE)
       /\ Set(w_pc, r, "store")
       /\ UNCHANGED <<caller, refs, result, waker, memory>>
    \/ /\ w_pc[r] = "store"
       /\ \E v \in {"ok", "err"} : Set(result, r, v)
       /\ Set(w_pc, r, "wake")
       /\ UNCHANGED <<caller, refs, done, waker, memory>>

\* AsyncState::complete writes the result, then publishes done, then wakes.
Publish(r) ==
    \/ /\ w_pc[r] = "write"
       /\ \E v \in {"ok", "err"} : Set(result, r, v)
       /\ Set(w_pc, r, "store")
       /\ UNCHANGED <<caller, refs, done, waker, memory>>
    \/ /\ w_pc[r] = "store"
       /\ Set(done, r, TRUE)
       /\ Set(w_pc, r, "wake")
       /\ UNCHANGED <<caller, refs, result, waker, memory>>

\* AtomicWaker::wake takes the registered waker.
Wake(r) ==
    /\ w_pc[r] = "wake"
    /\ Set(notified, r, notified[r] \/ waker[r])
    /\ Set(waker, r, FALSE)
    /\ Set(w_pc, r, "drop_ref")
    /\ UNCHANGED <<c_pc, resolved, refs, result, done, memory>>

CallbackReturns(r) ==
    /\ w_pc[r] = "drop_ref"
    /\ Set(refs, r, refs[r] - 1)
    /\ Set(w_pc, r, "finished")
    /\ UNCHANGED <<caller, result, done, waker, memory>>

(***************************************************************************)
(* What callers may do once no future borrows them any more                *)
(***************************************************************************)
NoFuture(r) == c_pc[r] \in {"none", "failed", "gone"}

\* The documented rule for borrowed inputs: keep them, and the session, until the
\* future resolves.
MayForget(r) == NoFuture(r) /\ (c_pc[r] = "gone" => resolved[r])

\* The last Session clone is dropped.  An owned-inputs run asks its caller only
\* for the borrow of the session, which ends with the future.
DropSession ==
    /\ session
    /\ \A r \in Runs : IF owned[r] THEN NoFuture(r) ELSE MayForget(r)
    /\ session' = FALSE
    /\ UNCHANGED <<caller, w_pc, state, owned>>

(***************************************************************************)
(* Specification                                                           *)
(***************************************************************************)
Polling(r) == FirstLoad(r) \/ Register(r) \/ SecondLoad(r) \/ take_result(r)
Worker(r) == NativeRunEnds(r) \/ Publish(r) \/ Wake(r) \/ CallbackReturns(r)

Next ==
    \/ \E r \in Runs :
          \/ RejectInputs(r) \/ run_async_owned(r) \/ Started(r) \/ NotStarted(r)
          \/ Poll(r) \/ Polling(r) \/ drop_future(r)
          \/ Worker(r)
    \/ DropSession

Spec == Init /\ [][Next]_vars

(***************************************************************************)
(* The worker runs, a poll that has begun ends, and the executor polls a   *)
(* task again after it was woken, and only then for certain.               *)
(***************************************************************************)
Fairness ==
    \A r \in Runs :
        /\ WF_vars(Worker(r))
        /\ WF_vars(Polling(r))
        /\ WF_vars(Poll(r) /\ (notified[r] \/ c_pc[r] = "future"))

FairSpec == Spec /\ Fairness

(***************************************************************************)
(* Properties                                                              *)
(***************************************************************************)
\* Callers, workers and the shared states have their types.
TypeOK ==
    /\ c_pc \in [Runs -> {"none", "failed", "started", "not_started", "future", "pending",
                          "load", "register", "reload", "take", "gone"}]
    /\ w_pc \in [Runs -> {"none", "running", "write", "store", "wake", "drop_ref", "finished"}]
    /\ owned \in [Runs -> BOOLEAN]
    /\ refs \in [Runs -> 0..2]
    /\ result \in [Runs -> {"none", "ok", "err"}]
    /\ done \in [Runs -> BOOLEAN] /\ waker \in [Runs -> BOOLEAN]
    /\ notified \in [Runs -> BOOLEAN] /\ resolved \in [Runs -> BOOLEAN]
    /\ session \in BOOLEAN

\* The state is alive while the caller or the worker can touch it, and it is
\* freed when both are through, also when RunAsync fails to start and when the
\* future goes first: nothing is used after it was freed, nothing leaks.  The
\* state holds the inputs of run_async_owned_inputs, so they outlive the run.
StateIsFreedOnce ==
    \A r \in Runs :
        refs[r] = (IF NoFuture(r) THEN 0 ELSE 1) +
                  (IF w_pc[r] \in {"none", "finished"} /\ c_pc[r] # "not_started" THEN 0 ELSE 1)

\* SAFETY comment of AsyncState: poll takes the result only after the callback
\* has written it and will not write again, so an unresolved future that sees
\* done finds a result.  A resolved run is no longer native either: a caller who
\* keeps borrowed inputs until the future resolves keeps them long enough.
TakeFollowsWrite ==
    \A r \in Runs :
        c_pc[r] = "take" =>
            /\ w_pc[r] \in {"wake", "drop_ref", "finished"}
            /\ resolved[r] \/ result[r] # "none"

\* Awaiting the future of a started run ends.
RunResolves == \A r \in Runs : (c_pc[r] = "pending") ~> (resolved[r] \/ c_pc[r] = "gone")

\* Doc of run_async_owned_inputs: "there is no caller hazard".  The session a
\* worker uses exists until the worker is through.
SessionOutlivesRun == \A r \in Runs : w_pc[r] = "running" => session
=============================================================================
