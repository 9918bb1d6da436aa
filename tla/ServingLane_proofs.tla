------------------------- MODULE ServingLane_proofs -------------------------
(***************************************************************************)
(* Proofs about one serving lane, alone and under the chains that hold it, *)
(* for any number of inputs, any set of graph ids and any bound on the     *)
(* device queue.                                                           *)
(***************************************************************************)
EXTENDS GpuChain, SequenceTheorems, TLAPS

\* A retained guard means a lane in flight, a live lane and no native release.
GuardInv ==
    in_flight_graph_guard # None =>
        /\ in_flight
        /\ place # "freed"
        /\ graph_id = in_flight_graph_guard
        /\ releasing[in_flight_graph_guard] # "native"

\* A recorded event is the last thing the lane has queued.
EventInv ==
    completion_event_recorded =>
        /\ in_flight
        /\ queue # <<>> => queue[Len(queue)] = Event

IInv == TypeOK /\ ReplayIsGuarded /\ GuardInv /\ EventInv

\* The elements of an extended queue.
LEMMA Appended ==
  ASSUME NEW q \in Seq(Work), NEW w \in Work
  PROVE  /\ Append(q, w) \in Seq(Work)
         /\ Append(q, w) # <<>>
         /\ Append(q, w)[Len(Append(q, w))] = w
         /\ \A i \in DOMAIN Append(q, w) :
               Append(q, w)[i] = w \/ \E j \in DOMAIN q : Append(q, w)[i] = q[j]
OBVIOUS

\* What preparation leaves in the queue: the old work and copies.
LEMMA PreparedQueue ==
  ASSUME TypeOK, NEW p \in Prepared
  PROVE  /\ p.queue \in Seq(Work)
         /\ \A i \in DOMAIN p.queue :
               p.queue[i].graph = None \/ \E j \in DOMAIN queue : p.queue[i] = queue[j]
<1>1. CASE device_inputs
  <2>1. PICK k \in 0..INPUTS : p = [ok |-> k = INPUTS, queue |-> queue \o [i \in 1..k |-> Copy]]
    BY <1>1 DEF Prepared
  <2>2. [i \in 1..k |-> Copy] \in Seq(Work) /\ Len([i \in 1..k |-> Copy]) = k
    BY InputsAssumption DEF Copy, Work
  <2>3. p.queue = queue \o [i \in 1..k |-> Copy]
    BY <2>1
  <2>4. p.queue \in Seq(Work)
    BY <2>2, <2>3, ConcatProperties DEF TypeOK
  <2>5. ASSUME NEW i \in DOMAIN p.queue
        PROVE  p.queue[i].graph = None \/ \E j \in DOMAIN queue : p.queue[i] = queue[j]
    <3>1. Len(p.queue) = Len(queue) + k /\ i \in 1..(Len(queue) + k)
      BY <2>2, <2>3, <2>4, <2>5, ConcatProperties DEF TypeOK
    <3>2. CASE i \in 1..Len(queue)
      BY <2>2, <2>3, <3>1, <3>2, ConcatProperties DEF TypeOK
    <3>3. CASE i \in (Len(queue) + 1)..(Len(queue) + k)
      <4>1. p.queue[i] = [n \in 1..k |-> Copy][i - Len(queue)]
        BY <2>2, <2>3, <3>1, <3>3, ConcatProperties DEF TypeOK
      <4>2. p.queue[i] = Copy
        BY <4>1, <3>3 DEF TypeOK
      <4> QED
        BY <4>2 DEF Copy
    <3> QED
      BY <3>1, <3>2, <3>3 DEF TypeOK
  <2> QED
    BY <2>4, <2>5
<1>2. CASE ~device_inputs
  BY <1>2 DEF Prepared, TypeOK
<1> QED
  BY <1>1, <1>2 DEF TypeOK

LEMMA InitIInv == Init => IInv
<1> SUFFICES ASSUME Init PROVE IInv
  OBVIOUS
<1>1. TypeOK
  <2>1. queue \in Seq(Work)
    BY DEF Init
  <2>2. releasing \in [GraphIds -> {"no", "draining", "native"}]
    BY DEF Init
  <2> QED
    BY <2>1, <2>2, Zenon DEF Init, TypeOK, Places
<1>2. ReplayIsGuarded
  BY DEF Init, ReplayIsGuarded
<1>3. GuardInv
  BY DEF Init, GuardInv
<1>4. EventInv
  BY DEF Init, EventInv
<1> QED
  BY <1>1, <1>2, <1>3, <1>4 DEF IInv
\* The queue a call leaves, when it starts on an idle lane: nothing that belongs
\* to a graph, except possibly a run of the lane's own graph.
OfGraph(q, g) == q \in Seq(Work) /\ \A i \in DOMAIN q : q[i].graph \in {None, g}

\* Preparing an idle lane queues no replay.
LEMMA PrepareIdle ==
  ASSUME IInv, ~in_flight, NEW p \in Prepared
  PROVE  OfGraph(p.queue, None)
<1>1. \A j \in DOMAIN queue : queue[j].graph = None
  BY DEF IInv, ReplayIsGuarded
<1>2. \A i \in DOMAIN p.queue : p.queue[i].graph = None
  BY <1>1, PreparedQueue DEF IInv
<1> QED
  BY <1>2, PreparedQueue DEF IInv, OfGraph

\* Nor does a failed run queue a replay of any other graph.
LEMMA FailedIdle ==
  ASSUME IInv, ~in_flight, NEW p \in Prepared, NEW q \in AfterFailedRun(p.queue)
  PROVE  OfGraph(q, graph_id)
<1>1. OfGraph(p.queue, None)
  BY PrepareIdle
<1>2. RunOf(graph_id) \in Work /\ RunOf(graph_id).graph = graph_id
  BY DEF IInv, TypeOK, RunOf, Work
<1>3. CASE q = p.queue
  BY <1>1, <1>3 DEF OfGraph
<1>4. CASE q = Append(p.queue, RunOf(graph_id))
  <2>1. p.queue \in Seq(Work)
    BY <1>1 DEF OfGraph
  <2>2. /\ q \in Seq(Work)
        /\ \A i \in DOMAIN q : q[i] = RunOf(graph_id) \/ \E j \in DOMAIN p.queue : q[i] = p.queue[j]
    BY <1>2, <1>4, <2>1, Appended
  <2> QED
    BY <1>1, <1>2, <2>2 DEF OfGraph
<1> QED
  BY <1>3, <1>4 DEF AfterFailedRun

\* A successful run queues its replay, and its event last when it records one.
LEMMA RanIdle ==
  ASSUME IInv, ~in_flight, NEW p \in Prepared, NEW event \in BOOLEAN,
         RetainOnSuccess(p.queue, event)
  PROVE  /\ OfGraph(queue', graph_id)
         /\ event => queue'[Len(queue')] = Event
<1>1. p.queue \in Seq(Work) /\ \A i \in DOMAIN p.queue : p.queue[i].graph = None
  BY PrepareIdle DEF OfGraph
<1>2. RunOf(graph_id) \in Work /\ RunOf(graph_id).graph = graph_id
  BY DEF IInv, TypeOK, RunOf, Work
<1>3. Event \in Work /\ Event.graph = None
  BY DEF Event, Work
<1> DEFINE q == Append(p.queue, RunOf(graph_id))
<1>4. q \in Seq(Work) /\ \A i \in DOMAIN q : q[i].graph \in {None, graph_id}
  <2>1. /\ q \in Seq(Work)
        /\ \A i \in DOMAIN q : q[i] = RunOf(graph_id) \/ \E j \in DOMAIN p.queue : q[i] = p.queue[j]
    BY <1>1, <1>2, Appended
  <2> QED
    BY <1>1, <1>2, <2>1
<1>5. CASE ~event
  BY <1>4, <1>5 DEF RetainOnSuccess, OfGraph
<1>6. CASE event
  <2>1. queue' = Append(q, Event)
    BY <1>1, <1>2, <1>3, <1>6 DEF RetainOnSuccess
  <2>2. /\ Append(q, Event) \in Seq(Work)
        /\ Append(q, Event)[Len(Append(q, Event))] = Event
        /\ \A i \in DOMAIN Append(q, Event) :
              Append(q, Event)[i] = Event \/ \E j \in DOMAIN q : Append(q, Event)[i] = q[j]
    BY <1>3, <1>4, Appended
  <2> HIDE DEF q
  <2> QED
    BY <1>3, <1>4, <2>1, <2>2 DEF OfGraph
<1> QED
  BY <1>5, <1>6
----------------------------------------------------------------------------
(***************************************************************************)
(* The outcomes of a call, each preserving the invariant                   *)
(***************************************************************************)
Kept == UNCHANGED <<device_inputs, graph_id, releasing>>

\* A fence: nothing is queued, no flag is set.
LEMMA FencedOutcome ==
  ASSUME IInv, Kept, queue' = <<>>, clear_in_flight, place' \in Places,
         graph_captured' \in BOOLEAN
  PROVE  IInv'
<1>1. TypeOK'
  <2>1. queue' \in Seq(Work)
    OBVIOUS
  <2>2. in_flight' \in BOOLEAN /\ completion_event_recorded' \in BOOLEAN
    BY DEF clear_in_flight
  <2> QED
    BY <2>1, <2>2 DEF IInv, TypeOK, Kept, clear_in_flight
<1>2. ReplayIsGuarded' /\ GuardInv' /\ EventInv'
  BY DEF ReplayIsGuarded, GuardInv, EventInv, clear_in_flight
<1> QED
  BY <1>1, <1>2 DEF IInv

\* A call that fails before the run: an idle lane stays idle.
LEMMA PrepareFailureOutcome ==
  ASSUME IInv, Kept, ~in_flight, place = "owned", NEW p \in Prepared,
         queue' = p.queue, UNCHANGED <<flags, graph_captured, place>>
  PROVE  IInv'
<1>1. OfGraph(p.queue, None)
  BY PrepareIdle
<1>2. TypeOK'
  BY <1>1 DEF IInv, TypeOK, Kept, OfGraph, flags
<1>3. ReplayIsGuarded'
  BY <1>1 DEF ReplayIsGuarded, OfGraph
<1>4. GuardInv' /\ EventInv'
  BY DEF IInv, GuardInv, EventInv, flags, Kept
<1> QED
  BY <1>2, <1>3, <1>4 DEF IInv

\* A failed run is fenced, or poisons a graph lane, or leaves a lane without a
\* graph as it was.
LEMMA RunFailureOutcome ==
  ASSUME IInv, Kept, ~in_flight, place = "owned", NEW p \in Prepared, FailToRun(p)
  PROVE  IInv'
<1>1. PICK q \in AfterFailedRun(p.queue) : fence_or_retain_graph_guard(q)
  BY DEF FailToRun
<1>2. OfGraph(q, graph_id)
  BY FailedIdle
<1>3. UNCHANGED <<graph_captured, place>> /\ LeaseFree
  BY DEF FailToRun
<1>4. CASE queue' = <<>> /\ clear_in_flight
  BY <1>3, <1>4, FencedOutcome DEF IInv, TypeOK
<1>5. CASE /\ graph_id # None /\ queue' = q
           /\ in_flight' = TRUE /\ in_flight_graph_guard' = graph_id
           /\ UNCHANGED completion_event_recorded
  <2>1. TypeOK'
    BY <1>2, <1>3, <1>5 DEF IInv, TypeOK, Kept, OfGraph
  <2>2. ReplayIsGuarded'
    BY <1>2, <1>3, <1>5 DEF ReplayIsGuarded, OfGraph, Kept
  <2>3. GuardInv'
    BY <1>3, <1>5 DEF GuardInv, Kept, LeaseFree
  <2>4. EventInv'
    BY <1>5 DEF IInv, EventInv
  <2> QED
    BY <2>1, <2>2, <2>3, <2>4 DEF IInv
<1>6. CASE graph_id = None /\ queue' = q /\ UNCHANGED flags
  <2>1. TypeOK'
    BY <1>2, <1>3, <1>6 DEF IInv, TypeOK, Kept, OfGraph, flags
  <2>2. ReplayIsGuarded'
    BY <1>2, <1>6 DEF ReplayIsGuarded, OfGraph
  <2>3. GuardInv' /\ EventInv'
    BY <1>3, <1>6 DEF IInv, GuardInv, EventInv, flags, Kept
  <2> QED
    BY <2>1, <2>2, <2>3 DEF IInv
<1> QED
  BY <1>1, <1>4, <1>5, <1>6 DEF fence_or_retain_graph_guard

\* A run that stays in flight keeps its guard.
LEMMA RunRetainedOutcome ==
  ASSUME IInv, Kept, ~in_flight, NEW p \in Prepared, LeaseFree,
         NEW event \in BOOLEAN, RetainOnSuccess(p.queue, event),
         place' \in {"owned", "token"}, graph_captured' \in BOOLEAN
  PROVE  IInv'
<1>1. OfGraph(queue', graph_id) /\ (event => queue'[Len(queue')] = Event)
  BY RanIdle
<1>2. /\ in_flight' = TRUE /\ in_flight_graph_guard' = graph_id
      /\ completion_event_recorded' = (completion_event_recorded \/ event)
  BY DEF RetainOnSuccess
<1>3. completion_event_recorded = FALSE
  BY DEF IInv, TypeOK, EventInv
<1>4. TypeOK'
  BY <1>1, <1>2 DEF IInv, TypeOK, Kept, OfGraph, Places
<1>5. ReplayIsGuarded'
  BY <1>1, <1>2 DEF ReplayIsGuarded, OfGraph, Kept
<1>6. GuardInv'
  BY <1>2 DEF GuardInv, Kept, LeaseFree
<1>7. EventInv'
  BY <1>1, <1>2, <1>3 DEF EventInv
<1> QED
  BY <1>4, <1>5, <1>6, <1>7 DEF IInv
----------------------------------------------------------------------------

\* The first element leaves the queue; a recorded event stays last.
LEMMA DequeuedInv ==
  ASSUME IInv, DeviceCompletes
  PROVE  IInv'
<1>1. /\ queue \in Seq(Work) /\ queue # <<>> /\ queue' = Tail(queue)
      /\ UNCHANGED <<flags, device_inputs, graph_id, graph_captured, place, releasing>>
  BY DEF IInv, TypeOK, DeviceCompletes
<1>2. /\ queue' \in Seq(Work) /\ Len(queue') = Len(queue) - 1
      /\ \A i \in DOMAIN queue' : i + 1 \in DOMAIN queue /\ queue'[i] = queue[i + 1]
  BY <1>1
<1>3. TypeOK'
  BY <1>1, <1>2 DEF IInv, TypeOK, flags
<1>4. ReplayIsGuarded'
  BY <1>1, <1>2 DEF IInv, ReplayIsGuarded, flags
<1>5. GuardInv'
  BY <1>1 DEF IInv, GuardInv, flags
<1>6. EventInv'
  <2> SUFFICES ASSUME completion_event_recorded', queue' # <<>>
               PROVE  in_flight' /\ queue'[Len(queue')] = Event
    BY <1>1 DEF IInv, EventInv, flags
  <2>1. Len(queue') \in DOMAIN queue'
    BY <1>2
  <2>2. queue'[Len(queue')] = queue[Len(queue)]
    BY <1>1, <1>2, <2>1
  <2> QED
    BY <1>1, <2>2 DEF IInv, EventInv, flags
<1> QED
  BY <1>3, <1>4, <1>5, <1>6 DEF IInv

\* A completed event means that nothing of the lane is left on the device.
LEMMA EventSettles ==
  ASSUME IInv, completion_event_recorded, ~Queued(Event)
  PROVE  queue = <<>>
<1> SUFFICES ASSUME queue # <<>> PROVE FALSE
  OBVIOUS
<1>1. queue \in Seq(Work) /\ queue[Len(queue)] = Event
  BY DEF IInv, TypeOK, EventInv
<1>2. Len(queue) \in DOMAIN queue
  BY <1>1
<1> QED
  BY <1>1, <1>2 DEF Queued

\* Every step preserves the invariant.
LEMMA NextIInv == IInv /\ [Next]_vars => IInv'
<1> SUFFICES ASSUME IInv, [Next]_vars PROVE IInv'
  OBVIOUS
<1>0. /\ graph_captured \in BOOLEAN /\ RecordsEvent \in BOOLEAN
      /\ (graph_captured \/ graph_id # None) \in BOOLEAN /\ place \in Places
  BY DEF IInv, TypeOK, RecordsEvent
<1>1. ASSUME run_enqueued \/ enqueue PROVE IInv'
  <2>1. PICK p \in Prepared :
          \/ FailToPrepare(p)
          \/ FailToRun(p)
          \/ /\ p.ok /\ LeaseFree
             /\ RetainOnSuccess(p.queue, RecordsEvent)
             /\ graph_captured' = (graph_captured \/ graph_id # None)
             /\ place' \in {place, "token"}
    BY <1>1 DEF run_enqueued, enqueue
  <2>2. ~in_flight /\ place = "owned" /\ Kept
    BY <1>1 DEF run_enqueued, enqueue, CallRun, Kept
  <2> QED
    BY <1>0, <2>1, <2>2, PrepareFailureOutcome, RunFailureOutcome, RunRetainedOutcome
       DEF FailToPrepare
<1>2. ASSUME run PROVE IInv'
  <2>1. PICK p \in Prepared :
          \/ FailToPrepare(p)
          \/ FailToRun(p)
          \/ /\ SucceedFenced
             /\ graph_captured' = (graph_captured \/ graph_id # None)
             /\ UNCHANGED place
          \/ /\ p.ok /\ LeaseFree /\ RecordsEvent
             /\ RetainOnSuccess(p.queue, TRUE)
             /\ graph_captured' = TRUE
             /\ UNCHANGED place
    BY <1>2 DEF run
  <2>2. ~in_flight /\ place = "owned" /\ Kept
    BY <1>2 DEF run, CallRun, Kept
  <2> QED
    BY <1>0, <2>1, <2>2, PrepareFailureOutcome, RunFailureOutcome, RunRetainedOutcome,
       FencedOutcome DEF FailToPrepare, SucceedFenced
<1>3. ASSUME run_profiled PROVE IInv'
  <2>1. PICK p \in Prepared :
          \/ queue' = p.queue /\ UNCHANGED <<flags, graph_captured, place>>
          \/ FailToRun(p)
          \/ /\ p.ok /\ LeaseFree
             /\ SucceedFenced \/ RetainOnSuccess(p.queue, FALSE)
             /\ graph_captured' = (graph_captured \/ graph_id # None)
             /\ UNCHANGED place
    BY <1>3 DEF run_profiled, FailToPrepare
  <2>2. ~in_flight /\ place = "owned" /\ Kept
    BY <1>3 DEF run_profiled, CallRun, Kept
  <2> QED
    BY <1>0, <2>1, <2>2, PrepareFailureOutcome, RunFailureOutcome, RunRetainedOutcome,
       FencedOutcome DEF SucceedFenced
<1>4. ASSUME try_complete PROVE IInv'
  <2>1. queue = <<>>
    BY <1>4, EventSettles DEF try_complete
  <2> QED
    BY <1>0, <1>4, <2>1, FencedOutcome DEF try_complete, Kept
<1>5. ASSUME synchronize_outputs PROVE IInv'
  BY <1>0, <1>5, FencedOutcome DEF synchronize_outputs, Kept
<1>6. ASSUME NEW where \in Places, place' = where, where = "freed" => ~in_flight,
             UNCHANGED <<queue, flags>>,
             UNCHANGED <<device_inputs, graph_id, graph_captured, releasing>>
      PROVE  IInv'
  <2>1. TypeOK'
    BY <1>6 DEF IInv, TypeOK, flags
  <2>2. ReplayIsGuarded' /\ GuardInv' /\ EventInv'
    BY <1>6 DEF IInv, ReplayIsGuarded, GuardInv, EventInv, flags
  <2> QED
    BY <2>1, <2>2 DEF IInv
<1>7. ASSUME synchronize PROVE IInv'
  <2>1. CASE queue' = <<>> /\ clear_in_flight
    BY <1>0, <1>7, <2>1, FencedOutcome DEF synchronize, Kept, Places
  <2>2. CASE UNCHANGED <<queue, flags>> /\ place' \in {"owned", "leaked"}
    BY <1>6, <1>7, <2>2 DEF synchronize, Places
  <2> QED
    BY <1>7, <2>1, <2>2 DEF synchronize
<1>8. ASSUME drop PROVE IInv'
  <2>1. CASE queue' = <<>> /\ clear_in_flight
    BY <1>0, <1>8, <2>1, FencedOutcome DEF drop, Kept, Places
  <2>2. CASE UNCHANGED <<queue, flags>> /\ place' = "leaked"
    BY <1>6, <1>8, <2>2 DEF drop, Places
  <2>3. CASE UNCHANGED <<queue, flags>> /\ place' = "freed" /\ ~in_flight
    BY <1>6, <1>8, <2>3 DEF drop, Places
  <2> QED
    BY <1>8, <2>1, <2>2, <2>3, Zenon DEF drop
<1>9. ASSUME NEW g \in GraphIds, set_gpu_graph_id(g) PROVE IInv'
  <2>1. TypeOK'
    <3>1. device_inputs' \in BOOLEAN /\ graph_captured' \in BOOLEAN /\ graph_id' \in GraphIds
      BY <1>9, Zenon DEF IInv, TypeOK, set_gpu_graph_id
    <3>2. device_inputs' = TRUE
      BY <1>9, Zenon DEF IInv, TypeOK, set_gpu_graph_id
    <3>3. UNCHANGED <<flags, place, queue, releasing>>
      BY <1>9 DEF set_gpu_graph_id
    <3> QED
      BY <3>1, <3>2, <3>3 DEF IInv, TypeOK, flags
  <2>2. ReplayIsGuarded' /\ GuardInv' /\ EventInv'
    BY <1>9 DEF IInv, ReplayIsGuarded, GuardInv, EventInv, flags, set_gpu_graph_id
  <2> QED
    BY <2>1, <2>2 DEF IInv
<1>10. ASSUME NEW g \in GraphIds, ReleaseStep(g) PROVE IInv'
  <2>1. TypeOK'
    <3>1. releasing' \in [GraphIds -> {"no", "draining", "native"}]
      BY <1>10 DEF IInv, TypeOK, ReleaseStep
    <3> QED
      BY <1>10, <3>1 DEF IInv, TypeOK, flags, ReleaseStep
  <2>2. ReplayIsGuarded' /\ EventInv'
    BY <1>10 DEF IInv, ReplayIsGuarded, EventInv, flags, ReleaseStep
  <2>3. GuardInv'
    BY <1>10 DEF IInv, TypeOK, GuardInv, flags, ReleaseStep
  <2> QED
    BY <2>1, <2>2, <2>3 DEF IInv
<1>11. CASE UNCHANGED vars
  BY <1>11 DEF vars, IInv, TypeOK, ReplayIsGuarded, GuardInv, EventInv
<1> QED
  BY <1>1, <1>2, <1>3, <1>4, <1>5, <1>7, <1>8, <1>9, <1>10, <1>11, DequeuedInv DEF Next
----------------------------------------------------------------------------

\* The strengthened invariant of the lane holds in every reachable state.
THEOREM LaneInvariant == Spec => []IInv
BY InitIInv, NextIInv, PTL DEF Spec

\* The lane's type invariant.
THEOREM LaneTypeOK == Spec => []TypeOK
<1>1. IInv => TypeOK
  BY DEF IInv
<1> QED
  BY LaneInvariant, <1>1, PTL

\* A pending replay is always covered by the lane's retained guard, whatever
\* call failed on the way, and its buffers are never freed.
THEOREM LaneReplayIsGuarded == Spec => []ReplayIsGuarded
<1>1. IInv => ReplayIsGuarded
  BY DEF IInv
<1> QED
  BY LaneInvariant, <1>1, PTL

\* The guard of a pending replay keeps the release of its graph out.
LEMMA GuardedRelease == IInv => NoReleaseUnderReplay
<1> SUFFICES ASSUME IInv, NEW g \in GraphIds, releasing[g] = "native",
                    NEW i \in DOMAIN queue, queue[i] = RunOf(g)
             PROVE  FALSE
  BY DEF NoReleaseUnderReplay, Queued
<1>1. queue[i].graph = g /\ g # None
  BY GraphIdsAssumption DEF RunOf
<1>2. in_flight_graph_guard = g
  BY <1>1 DEF IInv, ReplayIsGuarded
<1> QED
  BY <1>1, <1>2 DEF IInv, GuardInv

\* The provider's release of a captured graph never overlaps a replay of it.
THEOREM LaneNoReleaseUnderReplay == Spec => []NoReleaseUnderReplay
BY LaneInvariant, GuardedRelease, PTL

\* A lane leaves the in-flight state only when the device is done with it.
LEMMA LaneSettles ==
  ASSUME IInv, Next, in_flight, ~in_flight'
  PROVE  queue' = <<>>
<1>1. ~CallRun
  BY DEF CallRun
<1>2. ASSUME try_complete PROVE queue' = <<>>
  BY <1>2, EventSettles DEF try_complete
<1>3. ASSUME UNCHANGED flags PROVE FALSE
  BY <1>3 DEF flags
<1>4. ASSUME synchronize \/ drop \/ synchronize_outputs PROVE queue' = <<>>
  BY <1>3, <1>4 DEF synchronize, drop, synchronize_outputs, flags
<1>5. ASSUME NEW g \in GraphIds, set_gpu_graph_id(g) \/ ReleaseStep(g) PROVE FALSE
  BY <1>5 DEF set_gpu_graph_id, ReleaseStep, flags
<1>6. ASSUME DeviceCompletes PROVE FALSE
  BY <1>6 DEF DeviceCompletes, flags
<1> QED
  BY <1>1, <1>2, <1>4, <1>5, <1>6 DEF Next, run_enqueued, enqueue, run, run_profiled

\* A stale event is never taken for the completion of a later run, and no fence that failed
\* makes a lane reusable.
THEOREM LaneReusableOnlyWhenSettled == Spec => ReusableOnlyWhenSettled
<1>1. IInv /\ [Next]_vars => [in_flight /\ ~in_flight' => queue' = <<>>]_vars
  BY LaneSettles DEF vars
<1> QED
  BY LaneInvariant, <1>1, PTL DEF Spec, ReusableOnlyWhenSettled

(***************************************************************************)
(* Chains: the inductive invariant                                         *)
(***************************************************************************)
NoWait == \A i \in DOMAIN down : down[i] # "wait"

\* What is pending downstream keeps the lane in flight, with a chain or leaked; once the
\* wait at its front has passed, the source stream has nothing left.
DownInv ==
    /\ down \in Seq(DownstreamWork)
    /\ \A i \in DOMAIN down : down[i] = "wait" => i = 1
    /\ down # <<>> =>
          /\ in_flight /\ completion_event_recorded /\ place # "freed"
          /\ \/ holder = "chain" /\ ~complete
             \/ holder = "runtime" /\ place = "leaked"
    /\ (down # <<>> \/ holder = "chain") /\ NoWait => queue = <<>>

\* A run or a chain holds its lane; a chain keeps it in flight until it is complete, and an
\* event it recorded is the last thing downstream.
HolderInv ==
    /\ holder \in Holders
    /\ holder \in {"run", "chain"} => place = "owned"
    /\ holder = "chain" /\ ~complete => in_flight /\ completion_event_recorded
    /\ holder = "chain" /\ recorded /\ down # <<>> => down[Len(down)] = "event"

ChainIInv == IInv /\ HolderInv /\ DownInv

LEMMA ChainInitIInv == ChainInit => ChainIInv
<1> SUFFICES ASSUME ChainInit PROVE ChainIInv
  OBVIOUS
<1>1. IInv
  BY InitIInv DEF ChainInit
<1>2. down \in Seq(DownstreamWork)
  BY DEF ChainInit
<1> QED
  BY <1>1, <1>2 DEF ChainInit, ChainIInv, HolderInv, DownInv, Holders

\* Without downstream work and without a chain nothing is promised of the stream.
LEMMA NothingDownstream ==
  ASSUME down' = <<>>, holder' # "chain"
  PROVE  DownInv'
<1>1. down' \in Seq(DownstreamWork)
  OBVIOUS
<1> QED
  BY <1>1 DEF DownInv

\* A lane that only changes hands, and is not freed in flight.
LEMMA MovedOutcome ==
  ASSUME IInv, place' \in Places, place' = "freed" => ~in_flight,
         UNCHANGED <<queue, flags>>,
         UNCHANGED <<device_inputs, graph_id, graph_captured, releasing>>
  PROVE  IInv'
<1>1. TypeOK'
  BY DEF IInv, TypeOK, flags
<1>2. ReplayIsGuarded' /\ GuardInv' /\ EventInv'
  BY DEF IInv, ReplayIsGuarded, GuardInv, EventInv, flags
<1> QED
  BY <1>1, <1>2 DEF IInv

\* What chain_on_stream queues downstream: the wait first, and the event last.
LEMMA ChainQueued ==
  ASSUME NEW e \in Enqueued
  PROVE  LET d == queue_completion_wait \o e.work \o (IF e.recorded THEN <<"event">> ELSE <<>>)
         IN  /\ d \in Seq(DownstreamWork) /\ d # <<>> /\ 1 \in DOMAIN d /\ d[1] = "wait"
             /\ \A i \in DOMAIN d : d[i] = "wait" => i = 1
             /\ e.recorded => d[Len(d)] = "event"
<1>1. e.work \in {<<>>, <<"consumer">>} /\ e.recorded \in BOOLEAN
  BY DEF Enqueued
<1>2. CASE e.work = <<>> /\ e.recorded
  BY <1>2 DEF queue_completion_wait, DownstreamWork
<1>3. CASE e.work = <<>> /\ ~e.recorded
  BY <1>3 DEF queue_completion_wait, DownstreamWork
<1>4. CASE e.work = <<"consumer">> /\ e.recorded
  BY <1>4 DEF queue_completion_wait, DownstreamWork
<1>5. CASE e.work = <<"consumer">> /\ ~e.recorded
  BY <1>5 DEF queue_completion_wait, DownstreamWork
<1> QED
  BY <1>1, <1>2, <1>3, <1>4, <1>5

(***************************************************************************)
(* Chains: the steps                                                       *)
(***************************************************************************)
\* A lane that can be called has nothing downstream.
LEMMA OwnedIsQuiet ==
  ASSUME ChainIInv, holder # "chain", place # "leaked"
  PROVE  down = <<>>
  BY DEF ChainIInv, DownInv

LEMMA EnqueuePreparedIInv ==
  ASSUME ChainIInv, enqueue_prepared
  PROVE  ChainIInv'
<1> USE DEF ChainIInv
<1>1. /\ holder = "runtime" /\ ~in_flight /\ place = "owned" /\ Kept
      /\ down' = down
  BY DEF enqueue_prepared, CallRun, Kept
<1>2. down' = <<>>
  BY <1>1, OwnedIsQuiet
<1>3. PICK p \in Prepared :
          \/ ~p.ok /\ queue' = p.queue /\ UNCHANGED <<flags, graph_captured, place, chain>>
          \/ /\ p.ok /\ LeaseFree
             /\ \E q \in AfterFailedRun(p.queue) :
                   \/ fence_or_retain_graph_guard(q) /\ ~in_flight' /\ UNCHANGED place
                   \/ /\ graph_id # None
                      /\ queue' = q
                      /\ in_flight' = TRUE
                      /\ in_flight_graph_guard' = graph_id
                      /\ place' = "leaked"
                      /\ UNCHANGED completion_event_recorded
             /\ UNCHANGED <<graph_captured, chain>>
          \/ /\ p.ok /\ LeaseFree
             /\ RetainOnSuccess(p.queue, RecordsEvent)
             /\ graph_captured' = (graph_captured \/ graph_id # None)
             /\ holder' = "run"
             /\ UNCHANGED <<place, recorded, failure, complete>>
  BY DEF enqueue_prepared
<1>4. CASE queue' = p.queue /\ UNCHANGED <<flags, graph_captured, place, chain>>
  <2>1. IInv'
    BY <1>1, <1>4, PrepareFailureOutcome
  <2> QED
    BY <1>1, <1>2, <1>4, <2>1, NothingDownstream DEF HolderInv, chain
<1>5. CASE /\ p.ok /\ LeaseFree /\ UNCHANGED <<graph_captured, chain, place>>
           /\ \E q \in AfterFailedRun(p.queue) : fence_or_retain_graph_guard(q)
  <2>1. IInv'
    BY <1>1, <1>5, RunFailureOutcome DEF FailToRun
  <2> QED
    BY <1>1, <1>2, <1>5, <2>1, NothingDownstream DEF HolderInv, chain
<1>6. ASSUME NEW q \in AfterFailedRun(p.queue), LeaseFree, graph_id # None, queue' = q,
             in_flight' = TRUE, in_flight_graph_guard' = graph_id, place' = "leaked",
             UNCHANGED completion_event_recorded, UNCHANGED <<graph_captured, chain>>
      PROVE  ChainIInv'
  <2>1. OfGraph(q, graph_id)
    BY <1>1, FailedIdle
  <2>2. TypeOK'
    BY <1>1, <1>6, <2>1 DEF IInv, TypeOK, Kept, OfGraph, Places
  <2>3. ReplayIsGuarded'
    BY <1>1, <1>6, <2>1 DEF ReplayIsGuarded, OfGraph, Kept
  <2>4. GuardInv'
    BY <1>1, <1>6 DEF GuardInv, Kept, LeaseFree
  <2>5. EventInv'
    BY <1>1, <1>6 DEF IInv, EventInv
  <2>6. IInv'
    BY <2>2, <2>3, <2>4, <2>5 DEF IInv
  <2> QED
    BY <1>1, <1>2, <1>6, <2>6, NothingDownstream DEF HolderInv, chain
<1>7. CASE /\ p.ok /\ LeaseFree
           /\ RetainOnSuccess(p.queue, RecordsEvent)
           /\ graph_captured' = (graph_captured \/ graph_id # None)
           /\ holder' = "run"
           /\ UNCHANGED <<place, recorded, failure, complete>>
  <2>1. RecordsEvent \in BOOLEAN /\ graph_captured' \in BOOLEAN
    BY <1>7 DEF IInv, TypeOK, RecordsEvent
  <2>2. IInv'
    BY <1>1, <1>7, <2>1, RunRetainedOutcome
  <2> QED
    BY <1>1, <1>2, <1>7, <2>2, NothingDownstream DEF HolderInv, Holders
<1> QED
  BY <1>3, <1>4, <1>5, <1>6, <1>7

LEMMA LaneCallIInv ==
  ASSUME ChainIInv, LaneCall
  PROVE  ChainIInv'
<1> USE DEF ChainIInv
<1>1. holder \in {"runtime", "run"} /\ UNCHANGED chainVars /\ Next
  BY DEF LaneCall, Next
<1>2. IInv'
  BY <1>1, NextIInv
<1>3. place # "leaked"
  BY DEF LaneCall, run_enqueued, run, run_profiled, try_complete, synchronize_outputs,
         set_gpu_graph_id, enqueue, synchronize, drop, CallRun
<1>4. down' = <<>>
  BY <1>1, <1>3, OwnedIsQuiet DEF chainVars
<1>5. holder = "run" => place' = place
  BY DEF LaneCall, run_enqueued, run, run_profiled, try_complete, synchronize_outputs,
         set_gpu_graph_id, FailToPrepare, FailToRun
<1>6. HolderInv'
  BY <1>1, <1>5 DEF HolderInv, chainVars
<1> QED
  BY <1>1, <1>2, <1>4, <1>6, NothingDownstream DEF chainVars

LEMMA OwnedRunIInv ==
  ASSUME ChainIInv, poll_owned_runs \/ DropRun \/ complete_owned
  PROVE  ChainIInv'
<1> USE DEF ChainIInv
<1>0. /\ place \in Places /\ graph_captured' \in BOOLEAN /\ Kept /\ graph_captured' = graph_captured
      /\ holder = "run" /\ down' = down /\ place = "owned"
  BY DEF poll_owned_runs, DropRun, complete_owned, LaneUnchanged, chainVars, Kept, IInv, TypeOK,
         HolderInv
<1>1. down' = <<>>
  BY <1>0, OwnedIsQuiet
<1>2. CASE poll_owned_runs
  <2>1. queue' = <<>> /\ clear_in_flight /\ place' = place
    BY <1>2, EventSettles DEF poll_owned_runs
  <2>2. IInv'
    BY <1>0, <2>1, FencedOutcome
  <2> QED
    BY <1>0, <1>1, <1>2, <2>1, <2>2, NothingDownstream DEF poll_owned_runs, chainVars, HolderInv
<1>3. CASE DropRun \/ complete_owned
  <2>1. GiveBack /\ holder' = "runtime"
    BY <1>3 DEF DropRun, complete_owned
  <2>2. IInv'
    <3>1. CASE UNCHANGED <<queue, flags>> /\ place' \in {"owned", "leaked"}
      BY <1>0, <3>1, MovedOutcome DEF Kept, Places
    <3>2. CASE queue' = <<>> /\ clear_in_flight /\ place' = place
      BY <1>0, <3>2, FencedOutcome
    <3> QED
      BY <1>0, <2>1, <3>1, <3>2 DEF GiveBack
  <2> QED
    BY <1>1, <2>1, <2>2, NothingDownstream DEF HolderInv, Holders
<1> QED
  BY <1>2, <1>3

\* chain_on_stream, and its unwinding: what is left downstream starts with the wait.
LEMMA ChainOnStreamIInv ==
  ASSUME ChainIInv, chain_on_stream \/ ChainPanics
  PROVE  ChainIInv'
<1> USE DEF ChainIInv
<1>0. /\ holder = "run" /\ in_flight /\ completion_event_recorded /\ place = "owned"
      /\ Kept /\ graph_captured' = graph_captured
  BY DEF chain_on_stream, ChainPanics, CanChain, HolderInv, LaneUnchanged, Kept
<1>1. CASE chain_on_stream
  <2>1. PICK e \in Enqueued :
          /\ down' = queue_completion_wait \o e.work \o (IF e.recorded THEN <<"event">> ELSE <<>>)
          /\ recorded' = e.recorded
    BY <1>1 DEF chain_on_stream
  <2>2. /\ holder' = "chain" /\ complete' = FALSE /\ UNCHANGED <<place, queue, flags>>
    BY <1>1 DEF chain_on_stream
  <2>3. IInv'
    BY <1>0, <2>2, MovedOutcome DEF Kept, Places
  <2>4. /\ down' \in Seq(DownstreamWork) /\ down' # <<>> /\ 1 \in DOMAIN down' /\ down'[1] = "wait"
        /\ \A i \in DOMAIN down' : down'[i] = "wait" => i = 1
        /\ recorded' => down'[Len(down')] = "event"
    BY <2>1, ChainQueued
  <2>5. HolderInv'
    BY <1>0, <2>2, <2>4 DEF HolderInv, Holders, flags
  <2>6. DownInv'
    BY <1>0, <2>2, <2>4 DEF DownInv, NoWait, flags
  <2> QED
    BY <2>3, <2>5, <2>6
<1>2. CASE ChainPanics
  <2>1. holder' = "runtime"
    BY <1>2 DEF ChainPanics
  <2>2. HolderInv'
    BY <2>1 DEF HolderInv, Holders
  <2>3. CASE queue' = <<>> /\ down' = <<>> /\ clear_in_flight /\ UNCHANGED place
    <3>1. IInv'
      BY <1>0, <2>3, FencedOutcome DEF IInv, TypeOK
    <3> QED
      BY <2>1, <2>2, <2>3, <3>1, NothingDownstream
  <2>4. ASSUME NEW e \in Enqueued, place' = "leaked", UNCHANGED <<queue, flags>>,
               down' = queue_completion_wait \o e.work
                          \o (IF e.recorded THEN <<"event">> ELSE <<>>)
        PROVE  ChainIInv'
    <3>1. IInv'
      BY <1>0, <2>4, MovedOutcome DEF Kept, Places
    <3>2. /\ down' \in Seq(DownstreamWork) /\ down' # <<>> /\ 1 \in DOMAIN down' /\ down'[1] = "wait"
          /\ \A i \in DOMAIN down' : down'[i] = "wait" => i = 1
      BY <2>4, ChainQueued
    <3>3. DownInv'
      BY <1>0, <2>1, <2>4, <3>2 DEF DownInv, NoWait, flags
    <3> QED
      BY <2>2, <3>1, <3>3
  <2> QED
    BY <1>2, <2>3, <2>4 DEF ChainPanics
<1> QED
  BY <1>1, <1>2

\* A chain that has proof of its completion, by the event or by a fence.
LEMMA ChainEndsIInv ==
  ASSUME ChainIInv, ChainTryComplete \/ ChainSynchronize \/ DropChain
  PROVE  ChainIInv' /\ (in_flight /\ ~in_flight' => queue' = <<>>)
<1> USE DEF ChainIInv
<1>0. /\ holder = "chain" /\ Kept /\ graph_captured' = graph_captured /\ place = "owned"
      /\ place \in Places /\ graph_captured' \in BOOLEAN
  BY DEF ChainTryComplete, ChainSynchronize, DropChain, HolderInv, LaneUnchanged, Kept, IInv, TypeOK
<1>1. ASSUME DownstreamFenced PROVE down' = <<>> /\ queue' = <<>>
  BY <1>0, <1>1 DEF DownstreamFenced, DownInv, NoWait
<1>2. CASE ChainTryComplete
  <2>1. down = <<>>
    <3> SUFFICES ASSUME down # <<>> PROVE FALSE
      OBVIOUS
    <3>1. down \in Seq(DownstreamWork) /\ down[Len(down)] = "event"
      BY <1>0, <1>2 DEF ChainTryComplete, HolderInv, DownInv
    <3>2. Len(down) \in DOMAIN down
      BY <3>1
    <3> QED
      BY <1>2, <3>1, <3>2 DEF ChainTryComplete
  <2>2. queue = <<>>
    BY <1>0, <2>1 DEF DownInv, NoWait
  <2>3. /\ queue' = <<>> /\ clear_in_flight /\ place' = place /\ down' = <<>> /\ complete' = TRUE
        /\ holder' = holder
    BY <1>2, <2>1, <2>2 DEF ChainTryComplete, mark_complete
  <2>4. IInv'
    BY <1>0, <2>3, FencedOutcome
  <2>5. down' \in Seq(DownstreamWork)
    BY <2>3
  <2>6. HolderInv' /\ DownInv'
    BY <1>0, <2>3, <2>5 DEF HolderInv, DownInv, NoWait
  <2> QED
    BY <2>3, <2>4, <2>6
<1>3. CASE ChainSynchronize
  <2>1. holder' \in {"run", "runtime"} /\ place' = place
    BY <1>3 DEF ChainSynchronize, EndChain
  <2>2. down' = <<>> /\ IInv' /\ (in_flight /\ ~in_flight' => queue' = <<>>)
    <3>1. CASE ~complete /\ DownstreamFenced /\ clear_in_flight
      BY <1>0, <1>1, <2>1, <3>1, FencedOutcome
    <3>2. CASE complete /\ UNCHANGED <<queue, flags, down>>
      <4>1. down = <<>>
        BY <1>0, <3>2 DEF DownInv
      <4>2. IInv'
        BY <1>0, <2>1, <3>2, MovedOutcome DEF Kept
      <4> QED
        BY <3>2, <4>1, <4>2 DEF flags
    <3> QED
      BY <1>3, <3>1, <3>2 DEF ChainSynchronize
  <2>3. HolderInv'
    BY <1>0, <2>1 DEF HolderInv, Holders
  <2> QED
    BY <2>1, <2>2, <2>3, NothingDownstream
<1>4. CASE DropChain
  <2>1. holder' = "runtime"
    BY <1>4 DEF DropChain, EndChain
  <2>2. HolderInv'
    BY <2>1 DEF HolderInv, Holders
  <2>3. CASE complete /\ UNCHANGED <<queue, flags, down, place>>
    <3>1. down' = <<>>
      BY <1>0, <2>3 DEF DownInv
    <3>2. IInv'
      BY <1>0, <2>3, MovedOutcome DEF Kept
    <3> QED
      BY <2>1, <2>2, <2>3, <3>1, <3>2, NothingDownstream DEF flags
  <2>4. CASE DownstreamFenced /\ clear_in_flight /\ UNCHANGED place
    <3>1. down' = <<>> /\ queue' = <<>>
      BY <1>1, <2>4
    <3>2. IInv'
      BY <1>0, <2>4, <3>1, FencedOutcome
    <3> QED
      BY <2>1, <2>2, <3>1, <3>2, NothingDownstream
  <2>5. CASE ~complete /\ place' = "leaked" /\ UNCHANGED <<queue, flags, down>>
    <3>1. IInv'
      BY <1>0, <2>5, MovedOutcome DEF Kept, Places
    <3>2. DownInv'
      BY <1>0, <2>1, <2>5 DEF DownInv, NoWait, flags
    <3> QED
      BY <2>2, <2>5, <3>1, <3>2 DEF flags
  <2> QED
    BY <1>4, <2>3, <2>4, <2>5 DEF DropChain
<1> QED
  BY <1>2, <1>3, <1>4

\* The downstream stream passes its wait only when the source event has completed, that is
\* when the source has nothing left.
LEMMA DownstreamIInv ==
  ASSUME ChainIInv, DownstreamCompletes
  PROVE  ChainIInv'
<1> USE DEF ChainIInv
<1>1. /\ down \in Seq(DownstreamWork) /\ down # <<>> /\ down' = Tail(down)
      /\ UNCHANGED <<vars, chain>>
  BY DEF DownstreamCompletes, DownInv
<1>2. IInv'
  BY <1>1, NextIInv
<1>3. /\ down' \in Seq(DownstreamWork) /\ Len(down') = Len(down) - 1
      /\ \A i \in DOMAIN down' : i + 1 \in DOMAIN down /\ i + 1 # 1 /\ down'[i] = down[i + 1]
  BY <1>1
<1>4. queue = <<>>
  <2>1. CASE Head(down) = "wait"
    <3>1. ~Queued(Event)
      BY <2>1 DEF DownstreamCompletes
    <3> QED
      BY <1>1, <3>1, EventSettles DEF DownInv
  <2>2. CASE Head(down) # "wait"
    <3>1. NoWait
      BY <1>1, <2>2 DEF DownInv, NoWait
    <3> QED
      BY <1>1, <3>1 DEF DownInv
  <2> QED
    BY <2>1, <2>2
<1>5. \A i \in DOMAIN down' : down'[i] # "wait"
  BY <1>3 DEF DownInv
<1>6. DownInv'
  BY <1>1, <1>3, <1>4, <1>5 DEF DownInv, vars, chain
<1>7. down' # <<>> => down'[Len(down')] = down[Len(down)]
  <2> SUFFICES ASSUME down' # <<>> PROVE down'[Len(down')] = down[Len(down)]
    OBVIOUS
  <2>1. Len(down') \in DOMAIN down'
    BY <1>3
  <2> QED
    BY <1>1, <1>3, <2>1
<1>8. HolderInv'
  BY <1>1, <1>7 DEF HolderInv, vars, chain
<1> QED
  BY <1>2, <1>6, <1>8

LEMMA SourceIInv ==
  ASSUME ChainIInv, SourceStep \/ UNCHANGED allVars
  PROVE  ChainIInv'
<1> USE DEF ChainIInv
<1>1. UNCHANGED chainVars /\ [Next]_vars
  BY DEF SourceStep, allVars, Next
<1>2. IInv'
  BY <1>1, NextIInv
<1>3. UNCHANGED <<flags, place>> /\ (queue = <<>> => queue' = <<>>)
  BY DEF SourceStep, DeviceCompletes, ReleaseStep, allVars, vars, flags
<1>4. HolderInv'
  BY <1>1, <1>3 DEF HolderInv, chainVars, flags
<1>5. DownInv'
  BY <1>1, <1>3 DEF DownInv, NoWait, chainVars, flags
<1> QED
  BY <1>2, <1>4, <1>5

LEMMA ChainNextIInv == ChainIInv /\ [ChainNext]_allVars => ChainIInv'
  BY EnqueuePreparedIInv, LaneCallIInv, OwnedRunIInv, ChainOnStreamIInv, ChainEndsIInv,
     DownstreamIInv, SourceIInv DEF ChainNext

LEMMA ChainInvariant == ChainSpec => []ChainIInv
<1>1. ChainSafety => []ChainIInv
  BY ChainInitIInv, ChainNextIInv, PTL DEF ChainSafety
<1>2. ChainSpec => ChainSafety
  BY DEF ChainSpec
<1> QED
  BY <1>1, <1>2, PTL

\* An idle or freed lane has no downstream consumer of its outputs pending, however the
\* closure, the event record and the fences of a chain ended.
THEOREM ChainNoReuseUnderConsumer == ChainSpec => []NoReuseUnderConsumer
<1>1. ChainIInv => NoReuseUnderConsumer
  <2> SUFFICES ASSUME ChainIInv, ~in_flight \/ place = "freed" PROVE down = <<>>
    BY DEF NoReuseUnderConsumer
  <2> QED
    BY DEF ChainIInv, DownInv
<1> QED
  BY <1>1, ChainInvariant, PTL

\* A consumer at the front of the downstream stream reads the outputs of a run that has
\* completed: the wait that chain_on_stream queues first has held it back.
THEOREM ChainConsumerReadsFinishedOutput == ChainSpec => []ConsumerReadsFinishedOutput
<1>1. ChainIInv => ConsumerReadsFinishedOutput
  <2> SUFFICES ASSUME ChainIInv, down # <<>>, Head(down) = "consumer" PROVE queue = <<>>
    BY DEF ConsumerReadsFinishedOutput
  <2>1. down \in Seq(DownstreamWork) /\ down[1] = "consumer"
    BY DEF ChainIInv, DownInv
  <2>2. NoWait
    BY <2>1 DEF ChainIInv, DownInv, NoWait
  <2> QED
    BY <2>2 DEF ChainIInv, DownInv
<1> QED
  BY <1>1, ChainInvariant, PTL

\* Under owned runs and chains too a lane becomes reusable only when its device queue is
\* empty: the chain's event and its fences stand for the lane's own.
THEOREM ChainReusableOnlyWhenSettled == ChainSpec => ReusableOnlyWhenSettled
<1>1. ChainIInv /\ [ChainNext]_allVars => [in_flight /\ ~in_flight' => queue' = <<>>]_vars
  <2> SUFFICES ASSUME ChainIInv, [ChainNext]_allVars, in_flight, ~in_flight' PROVE queue' = <<>>
    OBVIOUS
  <2>1. ASSUME UNCHANGED flags PROVE FALSE
    BY <2>1 DEF flags
  <2>2. ~enqueue_prepared
    BY DEF enqueue_prepared, CallRun
  <2>3. CASE LaneCall
    <3>1. Next
      BY <2>3 DEF LaneCall, Next
    <3> QED
      BY <3>1, LaneSettles DEF ChainIInv
  <2>4. CASE poll_owned_runs
    BY <2>4, EventSettles DEF poll_owned_runs, ChainIInv
  <2>5. CASE DropRun \/ complete_owned
    BY <2>1, <2>5 DEF DropRun, complete_owned, GiveBack
  <2>6. CASE chain_on_stream \/ ChainPanics
    BY <2>1, <2>6 DEF chain_on_stream, ChainPanics
  <2>7. CASE ChainTryComplete \/ ChainSynchronize \/ DropChain
    BY <2>7, ChainEndsIInv
  <2>8. CASE DownstreamCompletes \/ SourceStep \/ UNCHANGED allVars
    BY <2>1, <2>8 DEF DownstreamCompletes, SourceStep, DeviceCompletes, ReleaseStep, allVars, vars,
                      flags
  <2> QED
    BY <2>2, <2>3, <2>4, <2>5, <2>6, <2>7, <2>8 DEF ChainNext
<1>2. ChainSafety => [][in_flight /\ ~in_flight' => queue' = <<>>]_vars
  BY <1>1, ChainInitIInv, ChainNextIInv, PTL DEF ChainSafety
<1> QED
  BY <1>2 DEF ChainSpec, ReusableOnlyWhenSettled

\* The lane's invariants survive the chains: a pending replay keeps its guard, and the
\* provider releases no graph under it.
THEOREM ChainKeepsReplayGuarded == ChainSpec => [](ReplayIsGuarded /\ NoReleaseUnderReplay)
<1>1. ChainIInv => ReplayIsGuarded /\ NoReleaseUnderReplay
  BY GuardedRelease DEF ChainIInv, IInv
<1> QED
  BY <1>1, ChainInvariant, PTL
=============================================================================
