---------------------------- MODULE ServingLane ----------------------------
(***************************************************************************)
(* One ServingLane (runtime.rs): host staging buffers, an IoBinding and,   *)
(* for CUDA, device inputs, a completion event and the lease of a captured *)
(* graph.  A lane is used through &mut self, so one public call is one     *)
(* action; it runs concurrently with the device, which works off what was  *)
(* queued, and with threads that release captured graphs.  Every native    *)
(* call may fail.  A failed run may have queued part of its work, and a    *)
(* fence (bound-output sync, event sync or device sync) that succeeds      *)
(* empties the queue.  The lease is used through its promise: begin_run    *)
(* waits while a release of the graph is in progress, and a release waits  *)
(* while a guard is alive (module ReleaseExclusion).                       *)
(***************************************************************************)
EXTENDS Integers, Sequences

CONSTANTS GraphIds,     \* values of gpu_graph_id
          None,         \* no graph id, no guard
          INPUTS,       \* number of model inputs (const generic)
          QueueBound    \* bound on the device queue (model bound)

ASSUME GraphIdsAssumption == None \notin GraphIds
ASSUME InputsAssumption == INPUTS \in Nat \ {0}
ASSUME QueueBoundAssumption == QueueBound \in Nat

VARIABLES device_inputs,     \* the lane was built with device inputs
          graph_id,          \* assigned gpu_graph_id, or None
          graph_captured,    \* a run with graph_id has succeeded
          in_flight,         \* provider work may be pending
          in_flight_graph_guard,      \* graph whose guard the lane retains, or None
          completion_event_recorded,  \* the event follows the pending run
          place,             \* who owns the lane: see Places
          queue,             \* external: provider work that has not completed
          releasing          \* external: release_captured_graph per graph

vars == <<device_inputs, graph_id, graph_captured, in_flight, in_flight_graph_guard,
          completion_event_recorded, place, queue, releasing>>

flags == <<in_flight, in_flight_graph_guard, completion_event_recorded>>

\* owned: by the caller; token: inside an InFlightRun; freed; leaked: mem::forget.
Places == {"owned", "token", "freed", "leaked"}

\* A host-to-device copy that reads the staging buffers, the run of the model
\* (with its graph, or None) and the completion event.
Copy == [kind |-> "copy", graph |-> None]
RunOf(g) == [kind |-> "run", graph |-> g]
Event == [kind |-> "event", graph |-> None]
Work == [kind : {"copy", "run", "event"}, graph : GraphIds \cup {None}]

Queued(w) == \E i \in DOMAIN queue : queue[i] = w

Init ==
    /\ device_inputs \in BOOLEAN
    /\ graph_id = None
    /\ graph_captured = FALSE
    /\ in_flight = FALSE
    /\ in_flight_graph_guard = None
    /\ completion_event_recorded = FALSE
    /\ place = "owned"
    /\ queue = <<>>
    /\ releasing = [g \in GraphIds |-> "no"]

(***************************************************************************)
(* Helpers shared by the entry points                                      *)
(***************************************************************************)
\* Mutant: the event flag survives.
ClearInFlightKeepsEvent ==
    /\ in_flight' = FALSE
    /\ in_flight_graph_guard' = None
    /\ UNCHANGED completion_event_recorded

clear_in_flight ==
    /\ in_flight' = FALSE
    /\ in_flight_graph_guard' = None
    /\ completion_event_recorded' = FALSE

(* rebind_host_inputs_if_needed, then refresh_device_inputs: a host lane may fail
   to rebind, a device lane queues one copy per input and may fail at any of them. *)
Prepared ==
    IF device_inputs
    THEN {[ok |-> k = INPUTS, queue |-> queue \o [i \in 1..k |-> Copy]] : k \in 0..INPUTS}
    ELSE {[ok |-> b, queue |-> queue] : b \in BOOLEAN}

\* begin_run does not return while a release of the graph is in progress.
LeaseFree == graph_id # None => releasing[graph_id] = "no"

\* What a failed run leaves in the queue: part of its work, or nothing.
AfterFailedRun(q) == {q, Append(q, RunOf(graph_id))}

\* Mutant: the guard is dropped although nothing was fenced.
FenceOrForgetGuard(q) ==
    \/ /\ queue' = <<>>
       /\ clear_in_flight
    \/ /\ queue' = q
       /\ UNCHANGED flags

(* A fence empties the queue and releases the guard.  Without one the guard of a
   graph lane is retained and poisons the lane; a lane without a graph has no
   guard and stays as it is. *)
fence_or_retain_graph_guard(q) ==
    \/ /\ queue' = <<>>
       /\ clear_in_flight
    \/ /\ graph_id # None
       /\ queue' = q
       /\ in_flight' = TRUE
       /\ in_flight_graph_guard' = graph_id
       /\ UNCHANGED completion_event_recorded
    \/ /\ graph_id = None
       /\ queue' = q
       /\ UNCHANGED flags

\* A run with EP synchronization disabled succeeded: the guard is retained.
RetainOnSuccess(q, recorded) ==
    /\ queue' = IF recorded THEN q \o <<RunOf(graph_id), Event>> ELSE Append(q, RunOf(graph_id))
    /\ in_flight' = TRUE
    /\ in_flight_graph_guard' = graph_id
    /\ completion_event_recorded' = (completion_event_recorded \/ recorded)

\* The run that follows is fenced before the call returns.
SucceedFenced ==
    /\ queue' = <<>>
    /\ clear_in_flight

RecordsEvent == device_inputs /\ graph_id # None

CallRun ==
    /\ place = "owned"
    /\ ~in_flight
    /\ Len(queue) + INPUTS + 2 <= QueueBound

FailToPrepare(p) ==
    /\ ~p.ok
    /\ queue' = p.queue
    /\ UNCHANGED <<flags, graph_captured, place>>

FailToRun(p) ==
    /\ p.ok /\ LeaseFree
    /\ \E q \in AfterFailedRun(p.queue) : fence_or_retain_graph_guard(q)
    /\ UNCHANGED <<graph_captured, place>>

(***************************************************************************)
(* Runs                                                                    *)
(***************************************************************************)
\* run_enqueued: prepare, run without EP synchronization, stay in flight.
run_enqueued ==
    /\ CallRun
    /\ \E p \in Prepared :
          \/ FailToPrepare(p)
          \/ FailToRun(p)
          \/ /\ p.ok /\ LeaseFree
             /\ RetainOnSuccess(p.queue, RecordsEvent)
             /\ graph_captured' = (graph_captured \/ graph_id # None)
             /\ UNCHANGED place
    /\ UNCHANGED <<device_inputs, graph_id, releasing>>

\* enqueue: run_enqueued, and on success the lane moves into an InFlightRun.
enqueue ==
    /\ CallRun
    /\ \E p \in Prepared :
          \/ FailToPrepare(p)
          \/ FailToRun(p)
          \/ /\ p.ok /\ LeaseFree
             /\ RetainOnSuccess(p.queue, RecordsEvent)
             /\ graph_captured' = (graph_captured \/ graph_id # None)
             /\ place' = "token"
    /\ UNCHANGED <<device_inputs, graph_id, releasing>>

(* run (and run_event_profiled).  A device lane with a graph enqueues and then
   synchronizes on its event; any other lane runs with EP synchronization. *)
run ==
    /\ CallRun
    /\ \E p \in Prepared :
          \/ FailToPrepare(p)
          \/ FailToRun(p)
          \/ /\ p.ok /\ LeaseFree
             /\ SucceedFenced
             /\ graph_captured' = (graph_captured \/ graph_id # None)
             /\ UNCHANGED place
          \/ /\ p.ok /\ LeaseFree /\ RecordsEvent
             /\ RetainOnSuccess(p.queue, TRUE)
             /\ graph_captured' = TRUE
             /\ UNCHANGED place
    /\ UNCHANGED <<device_inputs, graph_id, releasing>>

(* run_profiled: synchronize_inputs may fail after the copies were queued; a run
   that succeeded is retained first, and released when the outputs or the
   device could be fenced. *)
run_profiled ==
    /\ CallRun
    /\ \E p \in Prepared :
          \/ FailToPrepare(p)
          \/ p.ok /\ queue' = p.queue /\ UNCHANGED <<flags, graph_captured, place>>
          \/ FailToRun(p)
          \/ /\ p.ok /\ LeaseFree
             /\ SucceedFenced \/ RetainOnSuccess(p.queue, FALSE)
             /\ graph_captured' = (graph_captured \/ graph_id # None)
             /\ UNCHANGED place
    /\ UNCHANGED <<device_inputs, graph_id, releasing>>

(***************************************************************************)
(* Completion                                                              *)
(***************************************************************************)
\* Mutant: any recorded event counts as complete.
TryCompleteEarly ==
    /\ place \in {"owned", "token"}
    /\ in_flight /\ completion_event_recorded
    /\ clear_in_flight
    /\ UNCHANGED <<device_inputs, graph_id, graph_captured, place, queue, releasing>>

\* try_complete answers Ready: the recorded event has completed.  Pending, an
\* error and a lane without an event change nothing.
try_complete ==
    /\ place \in {"owned", "token"}
    /\ in_flight /\ completion_event_recorded
    /\ ~Queued(Event)
    /\ clear_in_flight
    /\ UNCHANGED <<device_inputs, graph_id, graph_captured, place, queue, releasing>>

\* synchronize_outputs that proves a fence; one that does not changes nothing.
synchronize_outputs ==
    /\ place = "owned"
    /\ in_flight
    /\ queue' = <<>>
    /\ clear_in_flight
    /\ UNCHANGED <<device_inputs, graph_id, graph_captured, place, releasing>>

(* InFlightRun::synchronize: the lane comes back, or the call fails and the lane
   is dropped if the device fence succeeded and forgotten if nothing did. *)
synchronize ==
    /\ place = "token"
    /\ \/ /\ in_flight
          /\ place' \in {"owned", "freed"}
          /\ queue' = <<>>
          /\ clear_in_flight
       \/ /\ ~in_flight
          /\ place' = "owned"
          /\ UNCHANGED <<queue, flags>>
       \/ /\ in_flight
          /\ place' = "leaked"
          /\ UNCHANGED <<queue, flags>>
    /\ UNCHANGED <<device_inputs, graph_id, graph_captured, releasing>>

\* Drop for ServingLane and for InFlightRun: finish_in_flight_best_effort, then
\* destroy the lane, or forget it when it is still in flight.
drop ==
    /\ place \in {"owned", "token"}
    /\ \/ /\ ~in_flight
          /\ place' = "freed"
          /\ UNCHANGED <<queue, flags>>
       \/ /\ in_flight
          /\ place' = "freed"
          /\ queue' = <<>>
          /\ clear_in_flight
       \/ /\ in_flight
          /\ place' = "leaked"
          /\ UNCHANGED <<queue, flags>>
    /\ UNCHANGED <<device_inputs, graph_id, graph_captured, releasing>>

\* set_gpu_graph_id: only an idle device-input lane takes an id.
set_gpu_graph_id(g) ==
    /\ place = "owned"
    /\ ~in_flight
    /\ device_inputs
    /\ graph_id' = g
    /\ graph_captured' = FALSE
    /\ UNCHANGED <<flags, device_inputs, place, queue, releasing>>

(***************************************************************************)
(* The environment: the device, and release_captured_graph                 *)
(***************************************************************************)
DeviceCompletes ==
    /\ queue # <<>>
    /\ queue' = Tail(queue)
    /\ UNCHANGED <<flags, device_inputs, graph_id, graph_captured, place, releasing>>

ReleaseStep(g) ==
    /\ \/ releasing[g] = "no" /\ releasing' = [releasing EXCEPT ![g] = "draining"]
       \/ /\ releasing[g] = "draining"
          /\ in_flight_graph_guard # g
          /\ releasing' = [releasing EXCEPT ![g] = "native"]
       \/ releasing[g] = "native" /\ releasing' = [releasing EXCEPT ![g] = "no"]
    /\ UNCHANGED <<flags, device_inputs, graph_id, graph_captured, place, queue>>

Next ==
    \/ run_enqueued \/ enqueue \/ run \/ run_profiled
    \/ try_complete \/ synchronize_outputs \/ synchronize \/ drop
    \/ \E g \in GraphIds : set_gpu_graph_id(g) \/ ReleaseStep(g)
    \/ DeviceCompletes

Spec == Init /\ [][Next]_vars

(***************************************************************************)
(* Properties                                                              *)
(***************************************************************************)
\* The lane's flags, its owner and the device queue have their types; only a
\* device-input lane has a graph.
TypeOK ==
    /\ device_inputs \in BOOLEAN
    /\ graph_id \in GraphIds \cup {None}
    /\ graph_captured \in BOOLEAN
    /\ in_flight \in BOOLEAN
    /\ in_flight_graph_guard \in GraphIds \cup {None}
    /\ completion_event_recorded \in BOOLEAN
    /\ place \in Places
    /\ queue \in Seq(Work)
    /\ releasing \in [GraphIds -> {"no", "draining", "native"}]
    /\ graph_id # None => device_inputs

\* Every pending replay of a captured graph keeps its lane in flight, its guard
\* retained and its buffers alive, on every error path of every entry point.
ReplayIsGuarded ==
    \A i \in DOMAIN queue :
        queue[i].graph # None =>
            /\ in_flight
            /\ in_flight_graph_guard = queue[i].graph
            /\ graph_id = queue[i].graph
            /\ place # "freed"

\* The provider never releases a captured graph under a pending replay of it.
NoReleaseUnderReplay ==
    \A g \in GraphIds : releasing[g] = "native" => ~Queued(RunOf(g))

\* A lane in flight becomes reusable only when the device has nothing of it
\* left: a stale event is never taken for the completion of a later run.
ReusableOnlyWhenSettled == [][in_flight /\ ~in_flight' => queue' = <<>>]_vars
=============================================================================
