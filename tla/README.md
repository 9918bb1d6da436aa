# A TLA+ verification of st-zrt

st-zrt is a Rust wrapper around ONNX Runtime for serving models with prepared,
reusable I/O. Its own logic, beyond thin calls into the C API, is about *when*
a buffer, a lane, a captured CUDA graph, a queue slot or a native object may be
reused or freed, while a GPU, ORT worker threads and other Rust threads may still
be using it; about which request goes to which prepared shape; and about how the
library and its bindings come to be in the first place. This directory models that
logic, model-checks it with TLC and proves parts of it with TLAPS.

Paths below are relative to `src/st-zrt/src/` unless they start with `src/`.
`PROJECT.json` maps every definition to the lines it models.

## 1. Inventory

| Component | State | Operations | What makes it correct |
|---|---|---|---|
| Captured-graph lease (`session.rs` 60-147, 855-893, 2732-2764) | one atomic word (release bit, guard count), a mutex, a condition variable | `begin_run`, guard `Drop`, `begin_release`, `end_release`, `release_captured_graph` | the provider is never asked to release a graph under a run; no lost wakeup; exact count |
| Serving lane (`runtime.rs` 939-2060) | `in_flight`, retained graph guard, completion event flag, staging buffers; the device's queue | `run*`, `enqueue`, `try_complete`, `synchronize_*`, `set_graph_id`, drop | buffers and guard outlive pending work, on failures too; completion is not reported early |
| GPU chain (`runtime.rs` 582-641, 769-907, 1508-1567) | second stream, second event, kept error | `chain_on_stream`, poll, synchronize, drop | outputs outlive their downstream consumers; consumers read finished outputs |
| Dynamic runtime (`runtime.rs` 3800-5200) | buckets, LRU order, slot table with generations, retired buckets, detached counts, shape plan | create/evict/remove/clear buckets, `enqueue_prepared`, `complete_owned`, token drop, runtime drop | handles resolve to their bucket or to nothing; every lane is in one place; graphs are released when quiet |
| Recovery slots (`runtime.rs` 420-560) | cell per lane, lock-free stack of cells | token drop (many threads), reclaim (runtime) | no lane lost, duplicated or read half-written |
| SPSC queue (`spsc.rs`) | two wrapping indices, ring, two closed flags | `try_send`, `send`, `try_recv`, `recv`, `close`, `is_closed`, drop | bounded FIFO; no slot race; blocked calls end |
| Serving lane pool (`runtime.rs` 2418-2570) | idle list, mutex, condition variable | `checkout`, `try_checkout`, guard drop | a lane has one holder; a returned lane wakes a waiter |
| Asynchronous run (`session.rs` 2148-2240, 2919-3034) | `AsyncState` shared with the ORT callback, waker | `run_async*`, poll, callback, drop of the future | one completion, no missed wake, memory outlives the native run |
| Shape plan and runtime options (`shape_plan.rs`, `runtime.rs` 2600-2901, 4283-4822) | builder, sealed plan with a hash index; options; graph id counter | `add_shape`, `build`, `classify`; `with_*`, `validate`, constructors, `install_shape_plan`, bucket creation with capture | a request gets the best canonical shape or the declared fallback; a graph replays on the buffers it was captured on |
| Environment, devices, allocators, streams (`environment.rs`, `threading.rs`, `allocator.rs`, `memory.rs`, `ep_device.rs`, `hardware.rs`, `interop.rs`) | native handles, guards | construction with loggers, thread pools, arenas; discovery; import | what a native object points to outlives it |
| Sessions, session and run options (`session.rs`, `session_options.rs`, `run_options.rs`, `initializer.rs`, `prepacked.rs`, `lora.rs`, `model_spool.rs`, `metadata.rs`) | native handles, guards | loading in nine ways, options built into handles, runs, copies | as above, on failures too; one environment per object graph |
| CUDA provider configuration (`ep.rs`, `cuda_rt.rs`) | typed settings, raw entries, stream guard | builders, serialisation, application | a session never keeps the address of a stream nobody keeps |
| Tensors and bindings (`tensor.rs`, `io_binding.rs`, `arena.rs`) | native values, storage, bound buffers | construction, views, binding, collections | storage outlives the value; sizes are exact |
| Lanes, static runtime, lane sets (`session.rs`, `runtime.rs`) | binding, buffers, session reference | preparation, factories, runs, buckets | field order and error paths release in a safe order |
| Model editor and authoring (`model_editor.rs`, `type_info.rs`, `custom_ops.rs`, `ep_authoring.rs`) | native handles that move into other ones | transfer to the engine, callbacks | each handle is released by exactly one side |
| Build acquisition (`src/st-zrt-sys/build.rs`) | files under `OUT_DIR` | download, verify, extract, mark, link | only a verified library is linked; a broken cache heals; the marker is true |
| Code generator (`src/codegen/src/main.rs`) | the fields read so far, the file written | find, strip, split, classify, emit | every accessor has the index and the types of its member |
| Errors, diagnostics, serde, generated declarations | none | formatting, conversion | out of scope |

Interactions. A *dynamic runtime* owns buckets of *lanes*; a lane holds a guard
of the *lease* of its bucket's graph for as long as a replay may be pending; an
owned run takes its lane out of the bucket, may be *chained* to a consumer on
another stream, and when it is dropped on any thread the lane comes home through
the *recovery slots*. The runtime releases a retired bucket's graph through the
lease on a thread of its own and waits for it in `clear_buckets` and `drop`. The
*shape plan* decides which buckets a runtime with graphs may create. The *SPSC
queue* is used by applications to pass owned runs between threads. Under all of
them lies the *ownership* of native objects: a lane owns a binding that points to
a session that points to an environment, options and streams. And under that lie
the *generated* accessors, which call into the library that the *build script*
has fetched. So the lease, the recovery slots, the pool, the queue and the
asynchronous run are the places where threads really race, the lane and the chain
are where native failures bite, the runtime is where long sequences of legal calls
can go wrong, the wrappers are where every drop order counts, and the build script
is where a crash leaves files behind.

`PROJECT.json` "hazards" lists what is hard to test, line by line.

## 2. Modules

| Module | Models | One action is |
|---|---|---|
| `CapturedGraphLease` | the lease | one atomic access, one lock acquisition or one critical-section exit |
| `ReleaseExclusion` | abstract: runs and releases of one graph exclude each other | start/finish a run; claim, call, return of a release |
| `ServingLane` | one lane, the device queue and releasers of its graphs | one public `&mut self` call, or one step of the device or a releaser |
| `GpuChain` | extends `ServingLane` by owned runs, chained runs and the second stream | the same |
| `DynamicIoRuntime` | the bucket cache, handles, owned runs, retirement | one public call, a token's drop, the end of a release thread |
| `RecoverySlots` | the cells and the ready stack | one atomic access or one access to a cell's contents |
| `Spsc` | the ring and its two handles | one atomic access or one slot access |
| `BoundedFifo` | abstract: a bounded FIFO with two closable ends | send, receive, close |
| `ServingLanePool` | the pool of lanes and its guards | one lock acquisition, one critical section, one use of a lane |
| `RunAsync` | asynchronous runs of one session: caller, future, ORT worker, callback | one access to the shared state, or one step of the native run |
| `ServingShapePlan` | plan builder, sealing, classification | one builder call |
| `ServingTopology` | extends `ServingShapePlan` by options, runtimes, buckets, captured graphs | one public call |
| `NativeHeap` | the ownership discipline: objects, guards, borrows, drops | one release or one reference dropped |
| `NativeEnvironment`, `NativeSessions`, `NativeTensors`, `NativeLanes`, `NativeProviders`, `NativeAuthoring` | the operations of the wrappers on that heap | one public call |
| `TensorLayout` | sizes, addresses and ranges of buffers | one construction |
| `NativeObjects` | composes the seven above, area by area | |
| `ApiTable` | the binding generator over one API struct | one line of the struct, or the writing of the file |
| `BuildAcquisition` | the build script over `OUT_DIR` | one file operation, request or kill |
| `FfiCrate` | composes the two: generate, publish, build again and again | |
| `MC*` | constants and symmetries for TLC; `MCHandover` and `MCSessionUse` put two protocols in one run | |
| `CapturedGraphLease_proofs`, `ServingLane_proofs` (with `GpuChain`), `Handover_proofs` (the pool of lanes and the recovery slots), `SessionUse_proofs` (the asynchronous run; the shape plan and the topology), `BuildAcquisition_proofs`, `Spsc_proofs`, `DynamicIoRuntime_proofs`, `NativeObjects_proofs` | theorems | |

How they fit together. `ServingLane` uses the lease through the promise that
`ReleaseExclusion` states and `CapturedGraphLease` is shown to implement.
`GpuChain` extends `ServingLane`, so its run checks the lane's own properties with
the chain beside it. `DynamicIoRuntime` and `ServingLanePool` keep of a lane only
whether provider work may be pending, which is what `ServingLane` is about.
`RecoverySlots` refines the single step "the lane goes into its recovery cell" of
`DynamicIoRuntime`; that each lane has a cell of its own, which `RecoverySlots`
starts from, is `LanesAreConserved`. `ServingTopology` looks at the same runtime
from another side: which buffers, sessions, streams and graph ids its lanes use.
`NativeLanes` has the same constructors a third time, for what they own; the three
views share no state in the code but the bucket itself.

Correspondence in short:

* **Lease.** `state`, `wait_lock`, `wait_cv` are the fields of the same name;
  `seen` is the local copy (`current`, `previous`) that a compare-exchange loop
  carries; `pc` says which line is next. `GRAPH_LEASE_ACTIVE_MASK` is a
  parameter, so the assertion against counter overflow is reached
  (`LoadPanics`). `leaked` counts guards that a lane has forgotten with
  `mem::forget` (`Leak`): a release then waits for ever, by design of the code.
  Mutex and condition variable are external: a wait set, spurious wakeups, and
  `notify_all`.
* **Lane.** `queue` is what the device has not finished: input copies, runs
  (with their graph) and events. Each native call may fail; a failed run may
  leave any part of its work in the queue; a successful fence empties the queue.
  `place` tells who owns the lane (caller, in-flight token, freed, forgotten).
* **Chain.** `down` is the second stream; a wait on it holds until the lane's event
  has completed. The closure may queue a consumer (one stands for all it queues)
  and then return, fail or panic; each event call and each fence may fail. `holder` says whether
  the lane is the runtime's, an owned run's or a chain's, which decides what calls
  the borrow checker still allows.
* **Runtime.** Every call begins with the reclaim of recovered lanes
  (`Reclaimed`), as in the code. `unfenced` collects graphs with work that leaked
  without a fence; `gone` the lanes that will never come back; `issued` is a
  history variable. `hot_bucket` is left out: it is compared with the key before
  it is used.
* **Recovery slots.** `occupied`, `value`, `ready_head`, `ready_next` as in the
  code; `compare_exchange_weak` may fail with the expected head.
* **SPSC.** Indices run modulo `Word`. Parking is a step that ends by its
  timeout; `unpark` only shortens it.
* **Pool.** `idle` is the `Vec` under the mutex, a stack; `guard` says which lane a
  thread has, from the pop until the push of the guard's `Drop`; `cv` is the wait
  set. A lane that could not be fenced goes back with `in_flight` set, as in the
  code, and is handed out again. A `try_checkout` that finds nothing changes nothing.
* **Asynchronous run.** `refs` is the strong count of the `Arc<AsyncState>`: one
  reference for the future, one given to the callback by `into_raw`. `result`,
  `done` and `waker` are the fields of that state; `c_pc` and `w_pc` say where the
  future's owner and the worker stand. A run may finish before `RunAsync` returns.
  What callers may do with the session is what the borrow checker and the
  documentation leave them: `NoFuture` for owned inputs, `MayForget` for borrowed
  ones.
* **Shape plan.** A request is one shape per input. The hash is the code's FNV-1a,
  of which the model keeps the low `HashBits`, which depend on no higher bit; so
  hashes collide. Element counts fail above `ElementLimit`. A padding ratio is a
  fraction; the rounding of `f64` is left out.
* **Topology.** `captured` is what the provider keeps for each session: graphs by
  annotation id, each with the lane whose buffers it replays. Capture happens when a
  graph bucket is built, under an id of the process-wide counter
  (`session.rs` 47, 874). The sessions of one replicated runtime are distinct, which
  the constructor leaves to its caller (`runtime.rs` 2856-2862, 3971-3972); two
  runtimes may share a session.
* **Native heap.** An object has handles (what the program can name), guards (the
  fields its wrapper drops, in declaration order), uses (what the native object
  points to), borrows, and whether its native part is live or has moved. A drop goes
  on one release at a time. Every constructor can be refused before or after the
  native call, and undoes what it has done the way the code does. The logging function
  is one per process (`environment.rs` 387-389): `calls` of an environment is the logger
  in force, that of the first environment; it is taken to stay in force until the last
  environment is released, the least that the documentation can mean. Where the code
  states a duty of its caller in a `# Safety` section, the duty is a borrow, as if
  the compiler checked it: `create_tensor_from_memory`, `from_allocated`, buffers
  bound to an `IoBinding`, the device of an importer, a custom-op domain,
  `set_input_model`, `OwnedEpDevice` and its factory, `append_ep_device`, external
  initializer data, `update_with_value`. The value a run returns is taken to own its
  memory. A mismatch of device ids is a refusal that may happen.
* **CUDA configuration.** The stream of a configuration is its guard; the address
  that a raw entry or a deserialised configuration may hold is a use without a guard.
* **Layout.** Words, pages and thresholds are scaled down; `size_of` and `align_of`
  of an element type are taken to be equal, as for every `Element` type of the crate.
* **Build.** Each file under `OUT_DIR` has one of a few contents (none, cut short,
  good, other bytes). Every system call may fail, the build may be killed half-way
  through a step that writes, and between builds the archive may rot, or the tree, its
  `lib/` or the library in `lib/` be wiped; bytes of an extracted file do not change. The
  versioned library is looked for on Linux targets, by a script that runs on Unix.
  One build at a time runs in an `OUT_DIR`, which is private to one target
  and feature set.
* **Generator.** Text is a sequence of lexemes. Headers are enumerated with their
  layout: where stars, blanks and line breaks go, attributes, callbacks, arrays,
  unnamed parameters. Parameter names and the casing of identifiers are left out.

Atomics are modelled as interleavings of single accesses (sequential
consistency). For the lease, the asynchronous state and the ring each location that
carries data is published with Release and read with Acquire, and the lease's word
is one location, so the interleavings cover what the properties speak of; the models
do not show that a weaker ordering would be wrong.

## 3. Runs

| Run | Checks | Result | Distinct states |
|---|---|---|---|
| `lease` | `NoRunDuringNativeRelease`, `WordIsExact`, `NoLostWakeup`, refinement `ImplementsReleaseExclusion`, liveness `WaitersMakeProgress` | holds | 55,005 |
| `lane` | `ReplayIsGuarded`, `NoReleaseUnderReplay`, `ReusableOnlyWhenSettled`, `NoReuseUnderConsumer`, `ConsumerReadsFinishedOutput`, liveness `ChainBecomesReady` | holds | 26,241 |
| `runtime` | `SlotTableIsExact`, `LanesAreConserved`, `OwnedRunsKeepTheirBucket`, `ReleasedGraphIsQuiet`, `IdsAreNeverReissued`, `PlannedShapesAreNeverEvicted` | holds | 195,390 |
| `handover` | `LaneHasOneOwner`, `NoSleeperBesideIdleLane`, liveness `IdleLaneIsTaken` (pool); `StackIsExact`, `CellAccessIsExclusive`, liveness and completeness `ReclaimEmptiesTheStack` (recovery slots) | holds | 77,838 |
| `spsc` | `SlotsAreExact`, refinement `ImplementsFifo`, liveness and finality `CloseIsSeenAndFinal` | holds | 352,235 |
| `spsc_drained` | `ClosedAfterDrain` (the doc of `recv`) | violated | |
| `session_use` | `StateIsFreedOnce`, `TakeFollowsWrite`, liveness `RunResolves` (asynchronous runs); `ClassifyIsBest`, `NoAliasedReplay`, `OnlyPlannedShapesCapture` (plans and topology) | holds | 222,304 |
| `async_session` | `SessionOutlivesRun` ("there is no caller hazard") | violated | |
| `native` | `NoDanglingUse`, `ReleasesAreSingle`, `NoOrphan`, `OneEnvironment`, `LayoutIsExact` | holds | 159,213 |
| `native_logger` | `LoggerOutlivesCalls` (the comment of `UserLogger`) | violated | |
| `build` | `LinksOnlyVerified`, `TableMatchesHeader`, liveness and action property `BuildHeals` | holds | 21,070 |
| `build_marker` | `PartialTreeIsReplaced` (the comment on the marker) | violated | |

`handover` and `session_use` each run two protocols that share no state and of which no
property speaks together: while one works the other rests in an initial state
(`MCHandover`, `MCSessionUse`), so nothing is added to or taken from either.

What the properties say is stated above each one in its module. Each has a mutant
(a definition marked "Mutant" beside the one it replaces) under which TLC finds
it violated (`BuildHeals` has two, one for each part). The type invariants `TypeOK` are not run: the proofs establish them
where there is a proof module (section 6), and in the other modules they document
the variables.

`ClassifyIsBest` compares `classify` with a definition that knows no hash and no
index: the entry of exactly this shape if there is one, else, if the plan pads, the
first of the smallest entries that hold the request, within the ratio, and the
code's error otherwise. It is checked while plans are made and while runtimes serve
from them. `NoAliasedReplay` is about the graphs that a session finds under a bucket's
id; that replays on one stream do not overlap is not part of it. `NoDanglingUse` is about
what a native object was given to point to, so an environment's own logger is part of
it and the logger in force in the process, maybe another's, is not
(`LoggerOutlivesCalls`, finding 3). `BuildHeals` excepts a library that was wiped from `lib/`
behind the marker (finding 4), and its second part, `BuildKeepsMarkerTrue`, says that
nothing but a wipe leads there. `LayoutIsExact` compares every
constructed buffer with exact integer arithmetic. `TableMatchesHeader` compares the
generated table with the declarations the header was printed from.

### Bounds

* `lease`: two runners and two releasers, so that a run races a run, a release
  races a release and each kind waits for the other; mask 2, so that a third
  guard (two alive or leaked already) meets the overflow assertion.
* `lane`: two inputs (a copy can fail after another was queued), two graphs, and
  a device queue of at most 9 entries (`QueueBound`). Work leaks into the queue
  of an idle lane only on the paths of observation 1, and the bound allows several
  in a row.
* `runtime`: three shapes over two buckets (eviction happens), two lanes per
  bucket, generations up to 2 and three slots (generations and slots run out, a
  slot beyond `max_buckets` is used), three graph ids (they run out). States are
  counted up to the symmetry of shapes. Deadlock is not checked: after `drop` the
  system has ended.
* `handover`, recovery slots: three cells, each with its own dropping thread, and the consumer.
  Three is the least number with a push between two others and a pop.
* `spsc`: capacity 3 rounded to 4, indices modulo 8: a full ring spans the wrap.
  Two values tell a reordering from the right order.
* `handover`, pool: two lanes and four threads, so that two threads sleep while two hold
  lanes, and both lanes can come back before a sleeper runs.
* `session_use`, asynchronous runs: two runs of one session, each with borrowed or owned inputs, since the
  session is what runs share. Deadlock is not checked: the system ends when every
  run is through.
* `native`: fourteen areas of the API, each with the objects its calls can combine
  and three to five objects at a time (`MaxObjects`): the longest chain of guards in
  an area (stream, options, session, binding and buffers, lane) fits, and two
  environments where calls can mix them. Places of the heap are symmetric. An area
  where every call needs room the heap does not have waits for a drop; deadlock is
  not checked since a leaked logger slot can be all that is left. At most two streams
  per session options (`MaxStreams`). Layout: words up to 127, pages of 8, thresholds
  16 and 32, shapes of rank up to two with dynamic, zero and overflowing dimensions.
* `session_use`, plans and topology: plans of up to three entries out of nine, sixteen requests and six fallbacks, three
  hash bits (collisions), element counts limited to 8 (overflow). Runtimes: one, or
  two of which a graph runtime is one, two sessions with streams of their own or a
  common one, lists of device input streams with and without repetition, one or two
  lanes, two buckets, three graph ids (they run out). Constructors come before
  serving; all streams are on one device.
* `build`: four faults, enough for a kill, a failed removal, and three failed
  downloads with one to spare; four targets: two of Linux, one other with an asset, one
  unsupported. Headers: two
  structs, with one member of every parameter form and layout between two others.

### Fairness

* `lease`: each thread inside a call keeps taking steps (weak fairness); a thread
  that wants the mutex gets it in the end, a run that keeps its guard ends, the
  native release returns, and the compare-exchange of a guard's
  `Drop` succeeds in the end (strong fairness: others can take the lock or
  change the word infinitely often, but the operating system's mutex and the
  hardware do not starve one thread for ever). Nothing says that a call is ever
  made, a guard ever leaked or a wakeup ever spurious. `WaitersMakeProgress` has the
  hypothesis that no guard has leaked.
* `lane`: both streams work off their queues, and the holder of a chain keeps
  polling it, which is what the documentation tells a caller to do.
* `handover`, recovery slots: the runtime inside a reclaim keeps going, and the weak
  compare-exchange, which may fail spuriously, succeeds if tried for ever. The
  dropping threads need no fairness.
* `spsc`: each thread inside a call keeps taking steps. A parked thread wakes by
  its timeout. Nothing says that anyone closes.
* `handover`, pool: a thread leaves its critical section (weak fairness), and the mutex does
  not starve a thread for ever (strong fairness). Nobody has to call the pool or to
  drop a guard, and a sleeper that is not notified may sleep for ever.
* `session_use`: the worker runs to its end; a poll that has begun ends; an executor
  polls a new future, and polls it again after it was woken. It may poll without a
  wake but need not, so a missed wake would show.
* `build`: a started build goes on, since timeouts bound each request, and a build
  that failed is run again. Faults are finitely many (`MaxFaults`); nothing makes
  one happen.

## 4. Findings

1. **`try_recv` may answer Closed with an element queued** (`spsc_drained`,
   `spsc.rs` 297). It reads `tail` before `sender_closed`; a sender that sends and
   closes in between is seen as closed and empty. `is_closed` reads them in the
   safe order (`CloseIsSeenAndFinal`).
2. **An asynchronous run can outlive its session** (`async_session`, `session.rs`
   2235). A run with owned inputs keeps its inputs but only borrows the session,
   through the future. A future dropped early ends the borrow and the run goes on.
   The documentation says there is no caller hazard. `ServingLane::run_async`
   relies on the same borrow for its input buffers.
3. **A logger can be freed while it is in force** (`native_logger`, `environment.rs`
   137). Its closure is dropped with the environment that brought it, because then,
   says the comment, ONNX Runtime can no longer call it (136-137, also 80-81). The
   documentation of `new_with_logger` says that the logging function is process-global
   and that of the first environment (387-389). When that one is dropped while a
   second lives, the function stays and its closure is gone. Whether the engine then
   calls it is up to the engine; the model assumes of it what 387-389 say and that the
   function stays in force while an environment lives.
4. **A partial tree keeps its marker** (`build_marker`, `src/st-zrt-sys/build.rs` 384).
   The comment says that a wiped or partial `onnxruntime/` must not keep the marker's
   promise alive (382-383); the code looks whether `lib/` is a directory. With the library
   gone from `lib/`, every later build on Linux panics (422) until somebody removes
   `OUT_DIR`.

## 5. Observations

Met while modelling; no run is about them, because the code makes no promise they
break, because they need a caller who breaks one, or because they lie outside what
is modelled.

1. *An idle lane may have work pending* (`runtime.rs` 1638, 1730). A failed run of a
   lane without a graph whose fence also fails, or a device input copy that fails
   after an earlier one was queued, leaves the lane idle. Lanes with a graph are
   safe: that is `ReplayIsGuarded`.
2. *The capture check cannot see leaked work* (`runtime.rs` 4658, 4669). It looks at
   the buckets only; a failed eager capture or a removed bucket that could not be
   fenced is no longer among them.
3. *A lane whose `run_async` is pending is not in flight* (`runtime.rs` 2011), so
   what guards a lane in flight does not guard it.
4. *The drop of the ring leaks after a wrap* (`spsc.rs` 105): `head..tail` is empty
   when the indices have wrapped between them. It needs 2^64 sends.
   `SlotsAreExact` allows it.
5. *`AlignedBuffer::zeroed` accepts an alignment that is not a power of two* when it
   is below `align_of`, since it then uses the larger one.
6. *Sparse tensors*: `indices_i64` does not check that the memory is accessible from
   the host, `values_as_slice` does; a COO tensor with a dense shape of rank 0 takes
   values without indices; the number of values is not compared with the dense count.
7. *`register_existing_allocator`* needs an allocator that outlives the environment,
   which an allocator that keeps that environment cannot.
8. *Queries on options skip `validate_cuda_stream_guards`*: they build a handle and
    release it, and no session uses it.
9. *Known leaks*, all on error paths or documented: `Tensor::copy_from_slice`,
    `StringTensor::new`, `Allocator::stats`, lookups of session options with a NUL in
    the key, the slot reference of `attach_logger` (`session_options.rs` 735-751).
    The actions mark them (`Leaks`, `leaked`), which is what `NoOrphan` excepts.
10. *The generator* does not read the return type of a callback and does not decay
    arrays in a callback's parameters; a member of the table that is no function
    pointer would be skipped and shift the indices; an unnamed `enum X` parameter
    would become `void`. The pinned header has none of these.

## 6. Proofs

The proof modules are checked by TLAPS to the last leaf.

**`CapturedGraphLease_proofs`**: for every finite set of runners, every set of
releasers disjoint from it and every mask at least 1 (`ThreadsAssumption`,
`MaskAssumption`). The inductive invariant `IInv` is the conjunction of `TypeOK`
and

* `LockInv`: the mutex is held exactly in the critical sections;
* `WaitSetInv`: only threads inside `wait` are in the wait set;
* `SeenInv`: what a thread knows of the copy it is about to exchange (this is what
  makes the exchange neither overflow nor underflow);
* `CountInv`: the low bits count the guards alive and the leaked ones;
* `OwnerInv`: the release bit is set exactly while one releaser owns it, and the
  count is zero while it is in the native call;
* `WakeInv`: `NoLostWakeup`, and that a thread between its decision to sleep and
  its sleep decided rightly. This part needs `LockInv`: the notifier must
  take the mutex, so it cannot notify in between.

`NoRunDuringNativeRelease` is not inductive alone: that no guard appears during
the native call rests on the release bit being in the copy that the exchange
compares, so on `SeenInv` and `OwnerInv` together. From `IInv` follow
`LeaseTypeOK`, `LeaseWordIsExact`, `LeaseExclusion` and `LeaseNoLostWakeup`, and,
with the mapping of running/owner/native, `LeaseRefinement`: every step is a step
of `ReleaseExclusion` or a stutter.

**`ServingLane_proofs`**: for every number of inputs, set of graphs and queue
bound. `IInv` is `TypeOK`, `ReplayIsGuarded`, `GuardInv` (a retained guard means
in flight, not freed, and no native release) and `EventInv` (a recorded event is
the last entry of the queue, so its completion means the queue is empty). From it
follow `LaneTypeOK`, `LaneReplayIsGuarded`, `LaneNoReleaseUnderReplay` and the
action property `LaneReusableOnlyWhenSettled`, about `ServingLane!Spec`.

The second half of the module is about `GpuChain!ChainSafety`, which is `ChainSpec`
without its fairness. `ChainIInv` adds to `IInv`

* `DownInv`: only the front of the downstream stream is a wait; what is pending there
  keeps the lane in flight with its event recorded, in a chain that is not complete or
  in a leaked lane; and once the wait has passed, the lane's own queue is empty;
* `HolderInv`: who holds the lane decides its place, its flags and what events of the
  chain mean.

The lane's actions keep `IInv` here for the same reason as alone (the lemmas are
shared); the calls of `OwnedRun` and `GpuChain` keep all of it, one action at a time.
`ChainNoReuseUnderConsumer`, `ChainConsumerReadsFinishedOutput`,
`ChainReusableOnlyWhenSettled` and `ChainKeepsReplayGuarded` follow. That a consumer
reads a finished output rests on `EventInv` and `DownInv` together: the wait passes when
the event has completed, and the event was the last entry of the queue.

**`Handover_proofs`, the pool**: for all finite sets of threads and lanes
(`PoolAssumption`). `IInv` is `TypeOK`, `LaneHasOneOwner`,
`NoSleeperBesideIdleLane` and

* `GuardInv`: a thread has a lane exactly between its pop and its push;
* `WaitSetInv`: only threads inside `wait` are in the wait set.

`NoSleeperBesideIdleLane` compares the length of the idle list with the number of
threads that are awake and will look at it. A push adds one lane and, if anybody
sleeps, wakes one thread; a pop takes a lane and a thread away from both sides; a
thread goes to sleep only on an empty list; `try_checkout` only shortens the list.
From it follow `PoolTypeOK`, `PoolLaneHasOneOwner` and
`PoolNoSleeperBesideIdleLane`.

**`SessionUse_proofs`, the asynchronous run**: for any set of runs of one session. `IInv` is `TypeOK`,
`StateIsFreedOnce`, `TakeFollowsWrite`, `WorkerInv` (a worker exists exactly for a run
that ONNX Runtime accepted), `ResultInv` (`done` is the worker's publication, and the
result is there from the write to the take), `RegisterInv` (between registering and the
second look at `done` a poll is registered or will see it), `NoMissedWake` and
`BorrowedRunKeepsSession`. The last two are stated in the proof module: a future that
answered Pending was woken since or will be, which is the safety half of `RunResolves`;
and the documented rule for borrowed inputs is enough to keep the session during the
native run, which is what fails for owned inputs (run `async_session`).

**`SessionUse_proofs`, the shape plan and the topology**: for any sets of builders,
sessions, streams and requests (`PlanAssumption`, `ShapesAssumption`: shapes are
sequences of integers; `TopologyAssumption`). `ClassifiesBest` rests on `PlanInv`: a
plan is the plan of a builder that `build` accepts. The rest is about the functions of
such a plan: the chain of hash candidates finds exactly the entry whose shapes are the
request's, whatever collides; the loop over the sorted entries ends with the fitting
entry of least size, the first of equal ones, by the least-number principle again; and
an entry whose count overflows does not fit. `ReplaysOwnBuffers` and
`CapturesPlannedShapes` rest on `ServingIInv`, which adds

* `ServingTypes`;
* `DistinctLanes`: the lanes of a runtime that captures have sessions of their own;
* `IdsBelow`: graph ids of buckets and of captured graphs are below the next one, so a
  new bucket's id is in no session's memory yet;
* `LanesMatch`: a bucket has a set of buffers for every session of its runtime;
* `GraphsPlanned`: a captured graph belongs to a shape its runtime planned, if the
  runtime captures.

**`BuildAcquisition_proofs`**: for any targets and any `MaxFaults`, about
`BuildAcquisition!Spec`. The run `build` composes it with the generator
(`FfiCrate`), whose operators are recursive, so the theorems are stated one level
below; `FfiCrate` runs the build of this module unchanged. `IInv` is `TypeOK`,
`MarkerInv` (beside a `lib/` directory the marker means a verified tree, whole but for a
library that was wiped, and no acquiring build finds both) and `StageInv` (what each step
of a build knows of the files it will use). `LinksOnlyVerified` is not inductive alone: a
second build trusts the marker of a first that may have been killed anywhere.
`OnlyWipesBreakMarker` (`BuildKeepsMarkerTrue`, the safety part of `BuildHeals`) follows from the same invariant, step by
step: what the steps of a build write to the tree they write while no marker stands
beside a `lib/`, or in one rename.

**`Handover_proofs`, the recovery slots**: for any finite set of cells (`CellsAssumption`), each with a
thread that drops its token. `IInv` is `TypeOK`, `CellInv`, `PushInv`, `PopInv` (what a
thread between two accesses knows of its cell and of the head it read) and `StackInv`:
there is a list of distinct cells that starts at `ready_head`, follows `ready_next`, ends
at `Nil` and holds exactly the cells on the stack. There is no ABA case to exclude
by a counter: only the runtime pops, so the head that a pop compares can only have been
buried. `StackIsExact` speaks of the recursive function `After`; that it follows the
list is shown by the least-number principle (`Least`, from the well-foundedness of the
order on `Nat`), which does the work of an induction without an operator parameter.

**`Spsc_proofs`**: for every capacity and index width of which the width is a proper
multiple (`CapacityAssumption`, weaker than the power of two that
`checked_next_power_of_two` answers). The first third of the module is arithmetic:
masking undoes wrapping, and up to `Capacity` consecutive indices have different slots.
`IInv` is `TypeOK`, `SenderInv`, `ReceiverInv` (what either side knows of the other's
index from its stale copy), `SlotInv` (a slot is full exactly if its index lies between
`head` and `tail` and it was not moved out, or it is the one about to be published) and
`WrittenInv`. From it follow `SpscSlotsAreExact`, `SpscNoMoreIsFinal` (the safety half
of `CloseIsSeenAndFinal`) and the refinement `SpscImplementsFifo`, in which publishing
the tail is the send, releasing the head the receive, and every other step a stutter.

**`DynamicIoRuntime_proofs`**: for every number of buckets, lanes, slots, generations and
graphs (`BoundsAssumption`, `NoneAssumption`) and a finite set of shapes
(`KeysAssumption`: dimensions are machine integers). `IInv` has these parts:

* `TableType` and `TableInv`: the types of the four tables, `SlotTableIsExact`, and that
  every cached shape occurs in the order of use, so that there is an oldest bucket;
* `IssuedInv`: no id was issued with a generation that its slot has yet to give. A free
  slot is ahead of every id issued for it, and a slot whose generations ran out is never
  free again; that is why no id is given twice;
* `LanesInv`: the lanes of a bucket are idle, in flight, with tokens, recovered or gone,
  each in one place and once, and the detached count is the number of those that are out;
* `HomeInv`: while the runtime lives, what is out with a token or recovered has a bucket;
* `GraphInv`: a graph was numbered and belongs to one bucket and its tokens; a released one
  has neither and no leaked work; a bucket whose graph has leaked work has lost a lane, so
  its detached count is not zero and it is neither evicted nor released;
* `PlanInv`: a plan fits the cache, which then holds planned shapes only;
* the types of the rest, and that a dropped runtime has no bucket.

Almost every call begins with the reclaim of recovered lanes and goes on with the buckets
it has by then, which no state of a behaviour shows. The parts are therefore operators on
any tables: one lemma says what the reclaim leaves (`ReclaimedReady`), one per table
operation what it makes of such tables (`RetiredTables` for `swap_remove` and the repair of
the indices, `CreatedTables` for the allocation of an id, `DrainedTables` for the drain),
and one per way a lane can move what becomes of its bucket (`LaneIntoToken`,
`TokenIntoRecovered` and so on). The proof of an action composes them. That the free list
after a drain is right is a statement about the recursive function `FreedSlots`, shown by
the least-number principle as for the recovery slots. `PlannedShapesAreNeverEvicted`
counts: the cached keys are distinct planned shapes other than the one looked up, so the
cache is not full.

**`NativeObjects_proofs`**: for any finite set of places (`IdsAssumption`), any bound on
the objects of an area (`MaxObjectsAssumption`) and any choice of areas, so for heaps of
every size. `IInv` has two parts, which TLC checked on the run `native` before they were
proved:

* `HeapOK`: a free place is empty; a guard keeps an object, and never one of a kind that
  some call frees, freezes or renames where it is (`InPlace`); wrappers whose guards are
  read by position have them (a device its environment, a dynamic runtime its session);
* `TasksOK`: what a drop has still to do concerns objects that are there, and an object
  about to be released has no handle and no guard and occurs once in it.

`ReleasesAreSingle` is not inductive alone: that nothing else keeps the object that is
released next must be known from the moment its last reference went, through all the
releases that come before it. The strong count of the code is a number of references; one
lemma (`StrongZero`) turns "the count is zero" into "no handle, no guard, no pending
reference", and all the rest speaks of references instead of numbers. Every call changes
the heap in one of about a dozen ways (it creates an object, consumes some, undoes what it
made, attaches guards, moves one object into another, ...): one lemma per way says what it
keeps, and one lemma per call that its arguments are what that way needs. Two hundred
calls are thereby one or two steps each.

`ExactLayout`, in the second part of the module, is about `TensorLayout`: for every word
width, page size, thresholds, shapes, alignments and addresses, of which only is asked that
powers of two divide each other (`PowersAssumption`) and that they are natural numbers
(`LayoutAssumption`). Its invariant says of the spec that plain storage has no modifier,
which each builder call keeps. Counting a shape with overflow checks and without are two
recursive functions that agree unless the first fails (`CountIs`). That prefaulting reaches
every page (`PrefaultIs`) is the one argument that is not a calculation: the elements lie
in one page each, the touched ones are a page apart, so an element's page is the one of the
touched element before it or of the touched element after it, which may be the last.

Model-checked only:

* liveness under fairness (`WaitersMakeProgress`, `ChainBecomesReady`, `IdleLaneIsTaken`,
  `RunResolves` and the liveness halves of `BuildHeals`, `ReclaimEmptiesTheStack` and
  `CloseIsSeenAndFinal`), which is out of the prover's reach;
* `NoDanglingUse`, `NoOrphan` and `OneEnvironment`: they are about what is reached
  through chains of guards or uses, and an inductive invariant for them has to describe
  the chains of every kind of object;
* `TableMatchesHeader`: the generator's text processing is written with `RECURSIVE`
  operators, which the prover does not take.

## 7. Not modelled

* `run_unsynchronized` (unsafe: its caller promises the fence), the lane's own
  `run_async` (its core is `RunAsync`) and `hot_bucket` (a hint that is verified
  before use).
* Two threads on one SPSC handle: each handle has one thread in the model, as the
  module's documentation demands.
* Of the native wrappers: `register_existing_allocator`, `release_shared_allocator`,
  `LoraAdapter` with an allocator, the context of thread-pool callbacks, loading and
  unloading of provider libraries, and queries that return copies. Values that are
  only forwarded (scalar options, key-value settings of providers other than CUDA)
  are not told apart. Copies between tensors are modelled one pair at a time.
* Typed access to elements, conversions of element types, errors, diagnostics and
  serde: no state whose order matters.
* `src/st-zrt-sys/src/generated.rs`, `ep_vtables.rs` and `lib.rs`: about eight thousand lines
  of declarations that the generator writes or that mirror C structs. What the
  generator does to get them right is `ApiTable`.
* Benchmarks, examples and tests.

## 8. Plan

What is left to prove: `NoDanglingUse`, which needs an invariant that says of every kind
of object through which of its guards it keeps what its native object points to.
