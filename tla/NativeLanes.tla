---------------------------- MODULE NativeLanes ----------------------------
(***************************************************************************)
(* What a lane and a set of lanes keep alive (the lane types of session.rs *)
(* and runtime.rs, the constructors of Runtime, StaticIoRuntime and        *)
(* DynamicIoRuntime).  A lane owns a binding, the buffers bound to it and  *)
(* a reference of its session, or borrows the session.  The environment,   *)
(* which NativeSessions shows to be kept by the session, is left out, and  *)
(* the buffers of a lane are one object.                                   *)
(***************************************************************************)
EXTENDS NativeSessions

New3 == CHOOSE i \in Ids : i \notin Objects \cup {New, New2}

\* lane_tensor_buffer: host memory owned by the buffer.  AllocatedTensor: memory of
\* the session's allocator, whose session it keeps.
HostBuffers == Object("buffers", <<>>, {})
DeviceBuffers(s) == Object("buffers", <<s>>, {s})

\* The binding of a lane points to the session and to the bound buffers.
LaneBinding(s, buffers) == Owned(Object("binding", <<s>>, {s, buffers}))

\* Mutant: the buffers are declared before the binding.
BuffersFirst(binding, buffers, rest) == <<buffers, binding>> \o rest

\* The fields of a lane in the order they are declared.
LaneFields(binding, buffers, rest) == <<binding, buffers>> \o rest

\* The buffers and the binding of a lane under construction.
WithParts(h, s, buffers) ==
    [h EXCEPT ![New] = Owned(buffers), ![New2] = LaneBinding(s, New)]

\* A lane constructor: locals are dropped in the reverse of their declaration, so one that
\* declares its buffers before the binding drops the binding first.
BuildLane(taken, s, buffers, lane) ==
    \/ Refuses(taken)
    \/ /\ Room(3)
       /\ \/ /\ heap' = [WithParts(Without(taken), s, buffers) EXCEPT ![New3] = lane]
             /\ UNCHANGED dropping
          \/ /\ heap' = WithParts(Without(taken), s, buffers)
             /\ dropping' = <<Release(New2), Release(New)>> \o Unrefs(taken)
       /\ UNCHANGED <<area, leaked>>

(***************************************************************************)
(* Lanes                                                                   *)
(***************************************************************************)
\* Lane::new: takes the session and keeps it last.
LaneNew ==
    \E s \in Movable("session") :
        BuildLane(<<s>>, s, HostBuffers, Wrapper("lane", LaneFields(New2, New, <<s>>)))

\* A lane that borrows its session.
BorrowingLane(s, buffers, name) ==
    BuildLane(<<>>, s, buffers, Borrowing(Wrapper(name, LaneFields(New2, New, <<>>)), {s}))

prepare_tensor_io_lane == \E s \in Held("session") : BorrowingLane(s, HostBuffers, "lane")
prepare_static_tensor_io_lane == \E s \in Held("session") : BorrowingLane(s, HostBuffers, "staticlane")

\* Outputs, or inputs and outputs, of the session's allocator.
prepare_allocated_output_tensor_io_lane ==
    \E s \in Held("session") : BorrowingLane(s, DeviceBuffers(s), "lane")
prepare_allocated_tensor_io_lane ==
    \E s \in Held("session") : BorrowingLane(s, DeviceBuffers(s), "allocatedlane")

\* The outputs are bound to a device only; every run collects them.
prepare_device_output_tensor_io_lane ==
    \E s \in Held("session") : BorrowingLane(s, HostBuffers, "collecting")

\* prepare_tensor_io_lanes: when a later lane fails, the earlier ones are dropped, here the
\* one built before it.
prepare_tensor_io_lanes ==
    \E s \in Held("session") :
        /\ Room(3)
        /\ heap' = [WithParts(heap, s, HostBuffers) EXCEPT
                        ![New3] = Owned(Wrapper("lane", LaneFields(New2, New, <<>>)))]
        /\ dropping' = <<Release(New3)>>
        /\ UNCHANGED <<area, leaked>>

\* prepare_run: no native object of its own; it borrows session and inputs.
prepare_run ==
    \E s \in Held("session"), v \in Held("buffers") :
        Make(Borrowing(Wrapper("collecting", <<>>), {s, v}))

\* prepare_io_binding, prepare_io_binding_buffers: the bound values are borrowed.
prepare_io_binding ==
    \E s \in Held("session"), v \in Held("buffers") :
        MakeOrUndo(Borrowing(Object("binding", <<s>>, {s, v}), {s, v}))

\* The caller's tensor.
CallerBuffers == Make(HostBuffers)

\* check_binding_session: a session runs its own bindings only.
check_binding_session(s, b) == heap[b].guards[1] = s

\* run_binding and its variants: the call points to the session and what is bound.
run_binding ==
    \E s \in Held("session"), b \in Held("binding") :
        check_binding_session(s, b) /\ Undoes(<<>>, Object("run", <<>>, {s, b} \cup heap[b].uses))

\* PreparedRun::run and DeviceOutputTensorIoLane::run: the last outputs are released, then
\* the engine runs and the new ones are collected; a failed run leaves none.
RefreshOutputs ==
    \E l \in Held("collecting") :
        /\ LET olds == Among(heap[l].guards, OfKind({"value"}))
               kept == Among(heap[l].guards, Ids \ OfKind({"value"}))
           IN \/ /\ olds # <<>>
                 /\ heap' = [heap EXCEPT ![l].guards = kept]
                 /\ dropping' = Unrefs(olds)
              \/ /\ olds = <<>> /\ Room(1)
                 /\ heap' = [heap EXCEPT ![l].guards = Append(kept, New),
                                         ![New] = Owned(Object("value", <<>>, {}))]
                 /\ UNCHANGED dropping
        /\ UNCHANGED <<area, leaked>>

\* uses_cuda_stream: the session was configured with this very stream and keeps it.
uses_cuda_stream(s, c) == c \in ToSet(heap[s].guards)

\* The stream a device lane fences on when it is dropped: a raw pointer.
StreamsFor(s) == {c \in Held("cudastream") : uses_cuda_stream(s, c)}

ServingLaneOf(s, cs) ==
    LET lane == Object("servinglane", LaneFields(New2, New, <<s>>), cs)
    IN IF cs = {} THEN [lane EXCEPT !.native = "none"] ELSE lane

\* ServingLane::build.  When it fails with the binding done, the parts of the unfinished
\* lane go in the reverse order of their creation, the device buffers or, in the last
\* expression, all buffers before the binding; the abandoned binding is only released,
\* which reads no bound memory.
ServingLaneBuild(s, buffers, cs) ==
    \/ Refuses(<<s>>)
    \/ /\ Room(3)
       /\ \/ /\ heap' = [WithParts(Without(<<s>>), s, buffers) EXCEPT ![New3] = ServingLaneOf(s, cs)]
             /\ UNCHANGED dropping
          \/ /\ heap' = [WithParts(Without(<<s>>), s, buffers) EXCEPT ![New2].uses = {s}]
             /\ dropping' = <<Release(New), Release(New2), Unref(s)>>
       /\ UNCHANGED <<area, leaked>>

\* ServingLane::new, with_memory, with_buffer_policy: host buffers, no stream.
ServingLaneNew == \E s \in Movable("session") : ServingLaneBuild(s, HostBuffers, {})

\* with_device_inputs, with_device_io: the buffers are of the session's allocator, and the
\* lane fences on the very stream of the session.
with_device_inputs ==
    \E s \in Movable("session") :
        \E c \in StreamsFor(s) : ServingLaneBuild(s, DeviceBuffers(s), {c})

(***************************************************************************)
(* Sets of lanes: a whole lane is one object                               *)
(***************************************************************************)
WholeLane(s, cs) == Owned(Object("wholelane", <<s>>, {s} \cup cs))

\* A lane takes a stream that its session uses.
Accepts(s, cs) == \A c \in cs : uses_cuda_stream(s, c)

\* The lanes of a runtime, one per session of ss, each with its stream or none: the set
\* is built, or the lane that fails drops the earlier ones and then what the call consumed.
BuildLanes(taken, ss, streams, name) ==
    \/ /\ Len(ss) = 1 /\ Room(2) /\ Accepts(ss[1], streams[1])
       /\ heap' = [Without(taken) EXCEPT ![New] = WholeLane(ss[1], streams[1]),
                                         ![New2] = Wrapper(name, <<New>>)]
       /\ dropping' = Unrefs(taken)
       /\ UNCHANGED <<area, leaked>>
    \/ /\ Len(ss) = 2 /\ Room(3) /\ \A k \in 1..2 : Accepts(ss[k], streams[k])
       /\ heap' = [Without(taken) EXCEPT ![New] = WholeLane(ss[1], streams[1]),
                                         ![New2] = WholeLane(ss[2], streams[2]),
                                         ![New3] = Wrapper(name, <<New, New2>>)]
       /\ dropping' = Unrefs(taken)
       /\ UNCHANGED <<area, leaked>>
    \/ /\ Len(ss) = 2 /\ Room(1) /\ Accepts(ss[1], streams[1])
       /\ heap' = [Without(taken) EXCEPT ![New] = WholeLane(ss[1], streams[1])]
       /\ dropping' = <<Release(New)>> \o Unrefs(taken)
       /\ UNCHANGED <<area, leaked>>
    \/ Refuses(taken)

\* One session for every lane, or one per lane.
Shared(s) == {<<s>>, <<s, s>>}
Slices(set) == {<<s>> : s \in set} \cup (set \X set)
Distinct(set) == {ss \in Slices(set) : Len(ss) = 2 => ss[1] # ss[2]}

HostOnly(ss) == [k \in DOMAIN ss |-> {}]
OnStream(ss, c) == [k \in DOMAIN ss |-> {c}]

\* build_shared_lanes, Runtime::shared_session: every lane has a clone of the session,
\* which the call consumes.
build_shared_lanes ==
    \E s \in Movable("session") : \E ss \in Shared(s) : BuildLanes(<<s>>, ss, HostOnly(ss), "runtime")

\* Runtime::from_sessions: each lane takes one of the sessions.
from_sessions ==
    \E ss \in Distinct(Movable("session")) : BuildLanes(ss, ss, HostOnly(ss), "runtime")

\* from_session_factory, replicated_sessions: the sessions are created first, here one, and
\* dropped when a later session or a lane fails.
FactoryLanes(name) ==
    \/ /\ Room(3)
       /\ heap' = [heap EXCEPT ![New] = Owned(Object("session", <<>>, {})),
                               ![New2] = WholeLane(New, {}), ![New3] = Wrapper(name, <<New2>>)]
       /\ UNCHANGED <<area, dropping, leaked>>
    \/ Undoes(<<>>, Object("session", <<>>, {}))

from_session_factory == FactoryLanes("runtime")

\* The same for StaticIoRuntime, whose lanes are serving lanes.
static_shared_session ==
    \E s \in Movable("session") : \E ss \in Shared(s) : BuildLanes(<<s>>, ss, HostOnly(ss), "static")
static_from_sessions ==
    \E ss \in Distinct(Movable("session")) : BuildLanes(ss, ss, HostOnly(ss), "static")
static_from_session_factory == FactoryLanes("static")

\* from_session_refs: the lanes clone the handles they are shown.
from_session_refs ==
    \E ss \in Slices(Held("session")) : BuildLanes(<<>>, ss, HostOnly(ss), "static")

\* shared_session_with_device_inputs, shared_session_with_device_io: every lane on the one stream.
shared_session_with_device_inputs ==
    \E s \in Movable("session"), c \in Held("cudastream") :
        \E ss \in Shared(s) : BuildLanes(<<s>>, ss, OnStream(ss, c), "static")

\* from_session_refs_with_device_inputs: all sessions must have the stream.
from_session_refs_with_device_inputs ==
    \E ss \in Slices(Held("session")), c \in Held("cudastream") :
        BuildLanes(<<>>, ss, OnStream(ss, c), "static")

\* from_session_refs_with_device_input_streams: the k-th session has the k-th stream.
from_session_refs_with_device_input_streams ==
    \E ss \in Slices(Held("session")), cs \in Slices(Held("cudastream")) :
        Len(ss) = Len(cs) /\ BuildLanes(<<>>, ss, [k \in DOMAIN ss |-> {cs[k]}], "static")

\* from_session_refs_with_device_io, from_session_refs_with_device_io_streams.
from_session_refs_with_device_io ==
    \E ss \in Slices(Held("session")), c \in Held("cudastream") :
        BuildLanes(<<>>, ss, OnStream(ss, c), "deviceio")
from_session_refs_with_device_io_streams ==
    \E ss \in Slices(Held("session")), cs \in Slices(Held("cudastream")) :
        Len(ss) = Len(cs) /\ BuildLanes(<<>>, ss, [k \in DOMAIN ss |-> {cs[k]}], "deviceio")

\* DynamicIoRuntime: it keeps its sessions; build_lane_set gives each bucket lanes with
\* clones of them, and an evicted bucket is dropped.
NewDynamicRuntime ==
    \E s \in Movable("session") : Consume(<<s>>, Wrapper("dynamic", <<s>>))

\* The factory's session is dropped when a later one, or the runtime, is refused.
DynamicFromSessionFactory ==
    \/ /\ Room(2)
       /\ heap' = [heap EXCEPT ![New] = Owned(Object("session", <<>>, {})),
                               ![New2] = Wrapper("dynamic", <<New>>)]
       /\ UNCHANGED <<area, dropping, leaked>>
    \/ Undoes(<<>>, Object("session", <<>>, {}))

build_lane_set ==
    \E d \in Held("dynamic") :
        LET s == Last(heap[d].guards)
        IN /\ FieldsOf(d, {"wholelane"}) = <<>>
           /\ Room(1)
           /\ \E cs \in {{}} \cup {{c} : c \in StreamsFor(s)} :
                  heap' = [heap EXCEPT ![New] = WholeLane(s, cs), ![d].guards = <<New>> \o @]
           /\ UNCHANGED <<area, dropping, leaked>>

EvictBucket ==
    \E d \in Held("dynamic") :
        /\ FieldsOf(d, {"wholelane"}) # <<>>
        /\ heap' = [heap EXCEPT ![d].guards = Tail(@)]
        /\ dropping' = <<Unref(heap[d].guards[1])>>
        /\ UNCHANGED <<area, leaked>>

\* enqueue_prepared takes the lane out of its bucket and into an owned run, which may
\* outlive the runtime (OwnedDynamicIoRun).
enqueue_prepared ==
    \E d \in Held("dynamic") :
        /\ FieldsOf(d, {"wholelane"}) # <<>>
        /\ heap' = [heap EXCEPT ![d].guards = Tail(@), ![heap[d].guards[1]].handles = 1]
        /\ UNCHANGED <<area, dropping, leaked>>

\* give_back, complete_owned: the run returns its lane to the bucket.
complete_owned ==
    \E d \in Held("dynamic"), l \in Movable("wholelane") :
        /\ FieldsOf(d, {"wholelane"}) = <<>>
        /\ heap[l].guards[1] = heap[d].guards[1]
        /\ heap' = [heap EXCEPT ![d].guards = <<l>> \o @, ![l].handles = 0]
        /\ UNCHANGED <<area, dropping, leaked>>

LaneNext ==
    \/ LaneNew \/ prepare_tensor_io_lane \/ prepare_static_tensor_io_lane
    \/ prepare_allocated_output_tensor_io_lane \/ prepare_allocated_tensor_io_lane
    \/ prepare_device_output_tensor_io_lane \/ prepare_tensor_io_lanes
    \/ CallerBuffers \/ prepare_run \/ prepare_io_binding \/ run_binding \/ RefreshOutputs
    \/ ServingLaneNew \/ with_device_inputs \/ CloneSession

LaneSetNext ==
    \/ build_shared_lanes \/ from_sessions \/ from_session_factory
    \/ static_shared_session \/ static_from_sessions \/ static_from_session_factory
    \/ from_session_refs \/ shared_session_with_device_inputs
    \/ from_session_refs_with_device_inputs \/ from_session_refs_with_device_input_streams
    \/ from_session_refs_with_device_io \/ from_session_refs_with_device_io_streams \/ CloneSession
    \/ NewDynamicRuntime \/ DynamicFromSessionFactory
    \/ build_lane_set \/ EvictBucket \/ enqueue_prepared \/ complete_owned
=============================================================================
