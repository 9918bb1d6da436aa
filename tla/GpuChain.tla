------------------------------ MODULE GpuChain ------------------------------
(***************************************************************************)
(* GPU chaining (runtime.rs, cuda_rt.rs): an OwnedDynamicIoRun holds a     *)
(* detached lane whose run is pending, and chain_on_stream queues, on      *)
(* another CUDA stream, a wait for the lane's completion event, whatever   *)
(* the caller's closure enqueues, and a second event.  The lane is given   *)
(* back when that second event has completed.  The closure may fail or     *)
(* panic after it queued consumers, every CUDA call may fail, and the      *)
(* token may be dropped at any time.  The lane itself is ServingLane: its  *)
(* actions stay possible where the code still hands out the lane.          *)
(***************************************************************************)
EXTENDS ServingLane

VARIABLES device_outputs,  \* the lane was built with device outputs (with_device_io)
          holder,          \* who holds the lane beside place: see Holders
          recorded,        \* downstream_event_recorded of the chain
          failure,         \* the chain keeps an error to report
          complete,        \* complete of the chain
          down             \* external: the downstream stream

chain == <<holder, recorded, failure, complete>>
chainVars == <<device_outputs, holder, recorded, failure, complete, down>>
allVars == <<vars, chainVars>>

\* runtime: the runtime or the caller of a ServingLane; run: an OwnedDynamicIoRun;
\* chain: a GpuChainedDynamicIoRun.
Holders == {"runtime", "run", "chain"}

DownstreamWork == {"wait", "consumer", "event"}

ChainInit ==
    /\ Init
    /\ device_outputs \in BOOLEAN /\ (device_outputs => device_inputs)
    /\ holder = "runtime"
    /\ recorded = FALSE /\ failure = FALSE /\ complete = FALSE
    /\ down = <<>>

LaneUnchanged == UNCHANGED <<device_inputs, graph_id, graph_captured, releasing>>

(***************************************************************************)
(* The owned run                                                           *)
(***************************************************************************)
\* enqueue_prepared: run_enqueued on the detached lane.  A failed run is fenced
\* and the lane given back, or the lane is forgotten.
enqueue_prepared ==
    /\ holder = "runtime"
    /\ CallRun
    /\ \E p \in Prepared :
          \/ ~p.ok /\ queue' = p.queue /\ UNCHANGED <<flags, graph_captured, place, chain>>
          \/ /\ p.ok /\ LeaseFree
             /\ \E q \in AfterFailedRun(p.queue) :
                   \/ fence_or_retain_graph_guard(q) /\ ~in_flight' /\ UNCHANGED place
                   \/ /\ graph_id # None
                      /\ queue' = q
                      /\ in_flight' = TRUE
                      /\ in_flight_graph_guard' = graph_id
                      /\ place' = "leaked"
                      /\ UNCHANGED completion_event_recorded
             /\ UNCHANGED <<graph_captured, chain>>
          \/ /\ p.ok /\ LeaseFree
             /\ RetainOnSuccess(p.queue, RecordsEvent)
             /\ graph_captured' = (graph_captured \/ graph_id # None)
             /\ holder' = "run"
             /\ UNCHANGED <<place, recorded, failure, complete>>
    /\ UNCHANGED <<device_inputs, graph_id, releasing, device_outputs, down>>

\* lane_mut: an idle run hands out its lane, on which the caller may run again,
\* complete or change the graph; a lane of the runtime takes every call.
LaneCall ==
    /\ holder \in {"runtime", "run"}
    /\ \/ run_enqueued \/ run \/ run_profiled
       \/ try_complete \/ synchronize_outputs
       \/ \E g \in GraphIds : set_gpu_graph_id(g)
       \/ holder = "runtime" /\ (enqueue \/ synchronize \/ drop)
    /\ UNCHANGED chainVars

\* poll_owned_runs on a batch that holds this run: the preflight refuses a run
\* without an event, then a run whose event has completed is cleared.
poll_owned_runs ==
    /\ holder = "run"
    /\ in_flight /\ completion_event_recorded
    /\ ~Queued(Event)
    /\ clear_in_flight
    /\ LaneUnchanged
    /\ UNCHANGED <<place, queue, chainVars>>

\* finish_in_flight_best_effort, then the lane goes back, through its recovery
\* slot (Drop) or return_detached_lane (complete_owned), or is forgotten.
GiveBack ==
    \/ /\ ~in_flight
       /\ UNCHANGED <<place, queue, flags>>
    \/ /\ in_flight
       /\ queue' = <<>>
       /\ clear_in_flight
       /\ UNCHANGED place
    \/ /\ in_flight
       /\ place' = "leaked"
       /\ UNCHANGED <<queue, flags>>

DropRun ==
    /\ holder = "run" /\ place = "owned"
    /\ GiveBack
    /\ holder' = "runtime"
    /\ LaneUnchanged
    /\ UNCHANGED <<device_outputs, recorded, failure, complete, down>>

complete_owned ==
    /\ holder = "run" /\ place = "owned"
    /\ GiveBack
    /\ holder' = "runtime"
    /\ LaneUnchanged
    /\ UNCHANGED <<device_outputs, recorded, failure, complete, down>>

(***************************************************************************)
(* The chain                                                               *)
(***************************************************************************)
(* A fence of the downstream stream: all of it has completed, and if it still had
   to wait for the source event, the source has completed too. *)
DownstreamFenced ==
    /\ down' = <<>>
    /\ queue' = IF \E i \in DOMAIN down : down[i] = "wait" THEN <<>> ELSE queue

\* Mutant: stream_wait_event is forgotten.
NoCompletionWait == <<>>

\* queue_completion_wait: the downstream stream waits for the source event.
queue_completion_wait == <<"wait">>

\* What the closure queued, and how it ended; the lane's downstream event may be
\* recorded after it.
Enqueued == [work : {<<>>, <<"consumer">>}, result : {"ok", "err", "panic"}, recorded : BOOLEAN]

CanChain ==
    /\ holder = "run"
    /\ device_outputs
    /\ in_flight /\ completion_event_recorded
    /\ down = <<>>

\* chain_on_stream whose closure returned: the run moves into the chain, with or
\* without a recorded event.  A refusal returns the run unchanged.
chain_on_stream ==
    /\ CanChain
    /\ \E e \in Enqueued :
          /\ e.result # "panic"
          /\ down' = queue_completion_wait \o e.work
                        \o (IF e.recorded THEN <<"event">> ELSE <<>>)
          /\ recorded' = e.recorded
          /\ failure' = (e.result = "err" \/ ~e.recorded)
    /\ holder' = "chain"
    /\ complete' = FALSE
    /\ LaneUnchanged
    /\ UNCHANGED <<place, queue, flags, device_outputs>>

\* Mutant: unwinding gives the lane back although the record failed.
PanicGivesBack ==
    /\ CanChain
    /\ \E e \in Enqueued :
          /\ e.result = "panic"
          /\ down' = queue_completion_wait \o e.work
          /\ clear_in_flight
    /\ holder' = "runtime"
    /\ LaneUnchanged
    /\ UNCHANGED <<place, queue, device_outputs, recorded, failure, complete>>

\* chain_on_stream whose closure panicked: the consumers are fenced and unwinding
\* gives the lane back, or the run is forgotten with them.
ChainPanics ==
    /\ CanChain
    /\ \E e \in Enqueued :
          /\ e.result = "panic"
          /\ \/ /\ e.recorded
                /\ queue' = <<>> /\ down' = <<>>
                /\ clear_in_flight
                /\ UNCHANGED place
             \/ /\ down' = queue_completion_wait \o e.work
                           \o (IF e.recorded THEN <<"event">> ELSE <<>>)
                /\ place' = "leaked"
                /\ UNCHANGED <<queue, flags>>
    /\ holder' = "runtime"
    /\ LaneUnchanged
    /\ UNCHANGED <<device_outputs, recorded, failure, complete>>

\* mark_complete: the chain has proof that its stream is done.
mark_complete ==
    /\ clear_in_flight
    /\ complete' = TRUE

\* Mutant: a chain whose closure failed is never found ready.
TryCompleteUnlessFailed ==
    /\ holder = "chain" /\ ~complete
    /\ recorded /\ ~failure
    /\ ~\E i \in DOMAIN down : down[i] = "event"
    /\ mark_complete
    /\ LaneUnchanged
    /\ UNCHANGED <<place, queue, device_outputs, holder, recorded, failure, down>>

\* GpuChainedDynamicIoRun::try_complete answers Ready for the first time.
ChainTryComplete ==
    /\ holder = "chain" /\ ~complete
    /\ recorded
    /\ ~\E i \in DOMAIN down : down[i] = "event"
    /\ mark_complete
    /\ LaneUnchanged
    /\ UNCHANGED <<place, queue, device_outputs, holder, recorded, failure, down>>

\* The chain is taken apart: the run goes back to the caller, or it is dropped
\* with the chain and its idle lane returns through the recovery slot.
EndChain(to) ==
    /\ holder' = to
    /\ recorded' = FALSE /\ failure' = FALSE /\ complete' = FALSE

(* GpuChainedDynamicIoRun::synchronize that returns or reports the chain's error:
   the event (the whole stream, when no event was recorded) has been waited for. *)
ChainSynchronize ==
    /\ holder = "chain"
    /\ \/ ~complete /\ DownstreamFenced /\ clear_in_flight
       \/ complete /\ UNCHANGED <<queue, flags, down>>
    /\ EndChain(IF failure THEN "runtime" ELSE "run")
    /\ LaneUnchanged
    /\ UNCHANGED <<place, device_outputs>>

\* Drop for GpuChainedDynamicIoRun, also after a synchronize that failed: event,
\* else stream, else the run and the stream are forgotten.
DropChain ==
    /\ holder = "chain"
    /\ \/ complete /\ UNCHANGED <<queue, flags, down, place>>
       \/ ~complete /\ DownstreamFenced /\ clear_in_flight /\ UNCHANGED place
       \/ ~complete /\ place' = "leaked" /\ UNCHANGED <<queue, flags, down>>
    /\ EndChain("runtime")
    /\ LaneUnchanged
    /\ UNCHANGED device_outputs

(***************************************************************************)
(* The device                                                              *)
(***************************************************************************)
\* The downstream stream works off its queue; a wait holds it until the source
\* event has completed.
DownstreamCompletes ==
    /\ down # <<>>
    /\ Head(down) = "wait" => ~Queued(Event)
    /\ down' = Tail(down)
    /\ UNCHANGED <<vars, device_outputs, chain>>

SourceStep ==
    /\ DeviceCompletes \/ \E g \in GraphIds : ReleaseStep(g)
    /\ UNCHANGED chainVars

ChainNext ==
    \/ enqueue_prepared \/ LaneCall \/ poll_owned_runs \/ DropRun \/ complete_owned
    \/ chain_on_stream \/ ChainPanics \/ ChainTryComplete \/ ChainSynchronize \/ DropChain
    \/ DownstreamCompletes \/ SourceStep

ChainSafety == ChainInit /\ [][ChainNext]_allVars

(* The streams make progress, and the holder of a chain keeps polling it. *)
ChainFairness ==
    /\ WF_allVars(DownstreamCompletes)
    /\ WF_allVars(DeviceCompletes /\ UNCHANGED chainVars)
    /\ WF_allVars(ChainTryComplete)

ChainSpec == ChainSafety /\ ChainFairness

(***************************************************************************)
(* Properties                                                              *)
(***************************************************************************)
\* An idle lane, which can be refilled and run again or freed, has no downstream
\* consumer of its outputs pending, whatever the closure, the event record or the
\* fences of a chain did.
NoReuseUnderConsumer ==
    ~in_flight \/ place = "freed" => \A i \in DOMAIN down : down[i] # "consumer"

\* A consumer that the device may start reads outputs whose run has completed.
ConsumerReadsFinishedOutput ==
    down # <<>> /\ Head(down) = "consumer" => \A i \in DOMAIN queue : queue[i].kind # "run"

\* A polled chain whose event was recorded becomes complete, unless its holder
\* synchronizes or drops it first: the downstream stream waits for an event that
\* the source stream reaches.
ChainBecomesReady == holder = "chain" /\ recorded ~> complete \/ holder # "chain"
=============================================================================
