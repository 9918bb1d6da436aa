-------------------------- MODULE ServingTopology --------------------------
(***************************************************************************)
(* Which sessions, streams and captured graphs the lanes of a              *)
(* DynamicIoRuntime run on: the options (DynamicIoOptions), built by calls *)
(* in any order and validated by the constructors, the sealed plan, and    *)
(* the buckets, whose graph lanes capture when they are built.             *)
(*                                                                         *)
(* A session captures one graph per annotation id, on the buffers of the   *)
(* lane that ran first under that id; every later run under the id reads   *)
(* and writes those buffers.  Captured graphs live as long as the session. *)
(* Several runtimes may share a session, which is a handle.  The sessions  *)
(* given to one replicated runtime are distinct (the caller's duty).       *)
(*                                                                         *)
(* A behaviour either builds a plan of any shapes, or serves one of a few. *)
(***************************************************************************)
EXTENDS ServingShapePlan

CONSTANTS Sessions, Streams,
          SessionStreams,  \* the assignments of user_compute_streams to sessions
          None,            \* no stream, no graph
          ServedBuilders,  \* the builders of the plans that are served
          max_buckets,     \* option max_buckets
          LaneCounts,      \* lanes of a shared-session runtime
          StreamLists,     \* what with_device_input_streams is called with
          MaxRuntimes,     \* runtimes (model bound)
          MaxGraphId       \* i32::MAX in the code
ASSUME TopologyAssumption ==
    /\ None \notin Streams /\ max_buckets \in Nat \ {0}
    /\ SessionStreams \subseteq [Sessions -> Streams \cup {None}]
    /\ \A b \in ServedBuilders : b.shapes \in Seq(PlanEntries)
    /\ LaneCounts \subseteq Nat /\ MaxGraphId \in Nat

VARIABLES stream_of,       \* the user stream each session was built with
          options,         \* the DynamicIoOptions being built
          runtimes,        \* the DynamicIoRuntimes
          next_graph_id,   \* NEXT_CAPTURED_GRAPH_ID, one for the process
          captured         \* external: the graphs each session has captured, by annotation
                           \* id, each with the lane whose buffers it uses

topologyVars == <<stream_of, options, runtimes, next_graph_id, captured>>
servingVars == <<planVars, topologyVars>>

DefaultOptions ==
    [rebind_inputs_each_run |-> FALSE, cuda_graph |-> FALSE, device_outputs |-> FALSE,
     device |-> FALSE, stream |-> None, lane_streams |-> <<>>]

ServingInit ==
    /\ \/ /\ PlanInit
          /\ stream_of = [s \in Sessions |-> None]
       \/ /\ serving = TRUE /\ builder = NewBuilder
          /\ plan \in {PlanOf(b) : b \in {x \in ServedBuilders : Builds(x)}}
          /\ stream_of \in SessionStreams
    /\ options = DefaultOptions
    /\ runtimes = <<>>
    /\ next_graph_id = 1
    /\ captured = [s \in Sessions |-> {}]

(***************************************************************************)
(* Options                                                                 *)
(***************************************************************************)
\* Runtimes are constructed before one serves: a constructor reads nothing that serving
\* changes.  A further runtime only matters beside graph runtimes: others share nothing.
Constructing ==
    /\ Len(runtimes) < MaxRuntimes
    /\ \A r \in DOMAIN runtimes :
          runtimes[r].options.cuda_graph /\ runtimes[r].plan = NoPlan /\ runtimes[r].buckets = {}

SetOptions(o) ==
    /\ Constructing
    /\ options' = o
    /\ UNCHANGED <<planVars, stream_of, runtimes, next_graph_id, captured>>

with_rebind_inputs_each_run(enabled) == SetOptions([options EXCEPT !.rebind_inputs_each_run = enabled])
with_cuda_graph(enabled) == SetOptions([options EXCEPT !.cuda_graph = enabled])
with_device_outputs(enabled) == SetOptions([options EXCEPT !.device_outputs = enabled])

\* The streams are taken to be on the one device.
with_device_inputs(stream) ==
    SetOptions([options EXCEPT !.device = TRUE, !.stream = stream, !.lane_streams = <<>>])
with_device_input_streams(streams) ==
    SetOptions([options EXCEPT !.device = TRUE, !.stream = None, !.lane_streams = streams])

validate(o) ==
    /\ ~(o.cuda_graph /\ o.rebind_inputs_each_run)
    /\ o.cuda_graph => o.device
    /\ o.device_outputs => o.device
    /\ o.device => ~o.rebind_inputs_each_run /\ (o.lane_streams # <<>> \/ o.stream # None)

\* Mutant: a shared session may serve several graph lanes per bucket.
ModeUnchecked(o, mode, lanes) ==
    o.lane_streams # <<>> => mode = "replicated" /\ Len(o.lane_streams) = lanes

validate_runtime_mode(o, mode, lanes) ==
    /\ o.cuda_graph /\ lanes > 1 => mode = "replicated"
    /\ o.lane_streams # <<>> => mode = "replicated" /\ Len(o.lane_streams) = lanes

(***************************************************************************)
(* Constructors                                                            *)
(***************************************************************************)
\* lane i runs on the i-th session, or on the shared one.
NewRuntime(mode, sessions, lanes) ==
    /\ Constructing /\ (runtimes # <<>> => options.cuda_graph)
    /\ validate(options) /\ validate_runtime_mode(options, mode, lanes)
    /\ runtimes' = Append(runtimes,
            [sessions |-> sessions, options |-> options, plan |-> NoPlan, buckets |-> {}])
    /\ options' = DefaultOptions
    /\ UNCHANGED <<planVars, stream_of, next_graph_id, captured>>

shared_session_with_options(session, lanes) ==
    NewRuntime("shared", [i \in 1..lanes |-> session], lanes)

from_sessions_with_options(sessions) == NewRuntime("replicated", sessions, Len(sessions))

(***************************************************************************)
(* Buckets                                                                 *)
(***************************************************************************)
\* A CudaPinned bucket matches no runtime.
PolicyMatches(e, o) == e.policy = IF o.device_outputs THEN "device" ELSE "host"

\* One input and one output per lane.
install_shape_plan(r) ==
    /\ plan # NoPlan
    /\ runtimes[r].buckets = {}
    /\ Len(plan.buckets) <= max_buckets
    /\ \A i \in DOMAIN plan.buckets :
          /\ Len(plan.buckets[i].inputs) = 1 /\ Len(plan.buckets[i].outputs) = 1
          /\ PolicyMatches(plan.buckets[i], runtimes[r].options)
    /\ runtimes' = [runtimes EXCEPT ![r].plan = plan]
    /\ UNCHANGED <<planVars, stream_of, options, next_graph_id, captured>>

\* Mutant: a request that the plan pads to a bucket is let through as it is.
PlannedIfClassified(runtime, inputs, outputs) ==
    IF runtime.plan = NoPlan THEN ~runtime.options.cuda_graph
    ELSE "id" \in DOMAIN classify(runtime.plan, inputs)

\* A plan is binding and required with graphs; the request has to be padded already.
validate_planned_shape(runtime, inputs, outputs) ==
    IF runtime.plan = NoPlan THEN ~runtime.options.cuda_graph
    ELSE LET c == classify(runtime.plan, inputs)
         IN  /\ "id" \in DOMAIN c
             /\ runtime.plan.buckets[c.id].inputs = inputs
             /\ runtime.plan.buckets[c.id].outputs = outputs

\* build_lane_set: a device-input lane is built on the stream of its session.
LaneStream(runtime, i) ==
    IF runtime.options.lane_streams # <<>> THEN runtime.options.lane_streams[i]
    ELSE runtime.options.stream
LanesBuild(runtime) ==
    runtime.options.device =>
        \A i \in DOMAIN runtime.sessions : stream_of[runtime.sessions[i]] = LaneStream(runtime, i)

\* The buffers of a lane, which no other lane ever has.
Buffers(r, key, i) == [runtime |-> r, key |-> key, lane |-> i, built |-> next_graph_id]

\* external: a run under an annotation id captures if the session has none.
Capture(c, session, id, buffers) ==
    IF \E g \in c[session] : g.id = id THEN c
    ELSE [c EXCEPT ![session] = @ \cup {[id |-> id, buffers |-> buffers]}]

\* The eager capture of the first n lanes of a new bucket, one after the other.
CaptureLanes(sessions, r, key, id, n) ==
    LET after[i \in 0..n] ==
            IF i = 0 THEN captured ELSE Capture(after[i - 1], sessions[i], id, Buffers(r, key, i))
    IN  after[n]

\* The process-wide counter.
allocate_captured_graph_id(r) == next_graph_id

\* get_or_create_bucket_inner on a miss.  A full cache evicts a bucket, which a graph
\* runtime refuses.  The capture of a lane may fail: then the bucket is not created,
\* and the annotation id and the graphs captured so far stay.
get_or_create_bucket(r, inputs, outputs) ==
    LET rt == runtimes[r]
        key == <<inputs, outputs>>
        id == allocate_captured_graph_id(r)
        bucket == [key |-> key, graph |-> id,
                   lanes |-> [i \in DOMAIN rt.sessions |-> Buffers(r, key, i)]]
        full == Cardinality(rt.buckets) >= max_buckets
        kept == {rest \in SUBSET rt.buckets :
                    Cardinality(rest) = Cardinality(rt.buckets) - IF full THEN 1 ELSE 0}
    IN  /\ validate_planned_shape(rt, inputs, outputs)
        /\ \A b \in rt.buckets : b.key # key
        /\ rt.options.cuda_graph => ~full
        /\ LanesBuild(rt)
        /\ \E rest \in kept :
              \/ /\ rt.options.cuda_graph /\ next_graph_id < MaxGraphId
                 /\ next_graph_id' = next_graph_id + 1
                 /\ \/ /\ captured' = CaptureLanes(rt.sessions, r, key, id, Len(rt.sessions))
                       /\ runtimes' = [runtimes EXCEPT ![r].buckets = rest \cup {bucket}]
                    \/ \E n \in 0..(Len(rt.sessions) - 1) :
                          /\ captured' = CaptureLanes(rt.sessions, r, key, id, n)
                          /\ runtimes' = [runtimes EXCEPT ![r].buckets = rest]
              \/ /\ ~rt.options.cuda_graph
                 /\ runtimes' = [runtimes EXCEPT ![r].buckets =
                                    rest \cup {[bucket EXCEPT !.graph = None]}]
                 /\ UNCHANGED <<next_graph_id, captured>>
        /\ UNCHANGED <<planVars, stream_of, options>>

\* The provider keeps the captured graphs of a removed bucket.
remove_bucket(r, b) ==
    /\ runtimes' = [runtimes EXCEPT ![r].buckets = @ \ {b}]
    /\ UNCHANGED <<planVars, stream_of, options, next_graph_id, captured>>

DistinctSessions == {q \in UNION {[1..n -> Sessions] : n \in 1..Cardinality(Sessions)} : IsInjective(q)}
ServedEntries == UNION {ToSet(b.shapes) : b \in ServedBuilders}

ServeNext ==
    \/ \E b \in BOOLEAN : with_rebind_inputs_each_run(b) \/ with_cuda_graph(b) \/ with_device_outputs(b)
    \/ \E s \in Streams : with_device_inputs(s)
    \/ \E q \in StreamLists : with_device_input_streams(q)
    \/ \E s \in Sessions, n \in LaneCounts : shared_session_with_options(s, n)
    \/ \E q \in DistinctSessions : from_sessions_with_options(q)
    \/ \E r \in DOMAIN runtimes :
          \/ install_shape_plan(r)
          \/ \E inputs \in {e.inputs : e \in ServedEntries}, outputs \in {e.outputs : e \in ServedEntries} :
                get_or_create_bucket(r, inputs, outputs)
          \/ \E b \in runtimes[r].buckets : remove_bucket(r, b)

ServingNext ==
    \/ PlanNext /\ UNCHANGED topologyVars
    \/ serving /\ ServeNext

ServingSpec == ServingInit /\ [][ServingNext]_servingVars

(***************************************************************************)
(* Properties                                                              *)
(***************************************************************************)
\* A lane replays a graph that was captured on its own input and output buffers:
\* not on those of another lane of its bucket, of a failed or removed bucket, or of
\* another runtime on the same session.
NoAliasedReplay ==
    \A r \in DOMAIN runtimes : \A b \in runtimes[r].buckets :
        b.graph # None =>
            \A i \in DOMAIN b.lanes :
                \A g \in captured[runtimes[r].sessions[i]] : g.id = b.graph => g.buffers = b.lanes[i]

\* A graph is captured for the canonical shapes of the runtime's plan alone, also when
\* the plan pads: a live request never captures a shape of its own.
OnlyPlannedShapesCapture ==
    \A r \in DOMAIN runtimes :
        runtimes[r].options.cuda_graph =>
            \A g \in UNION {captured[s] : s \in Sessions} :
                g.buffers.runtime = r =>
                    \E i \in DOMAIN runtimes[r].plan.buckets :
                        g.buffers.key = <<runtimes[r].plan.buckets[i].inputs,
                                          runtimes[r].plan.buckets[i].outputs>>
=============================================================================
