------------------------- MODULE NativeEnvironment -------------------------
(***************************************************************************)
(* Environments, loggers, thread pools, allocators, memory descriptors,    *)
(* discovered devices, streams and imported resources (environment.rs,     *)
(* threading.rs, allocator.rs, memory.rs, ep_device.rs, hardware.rs,       *)
(* interop.rs): what each wrapper keeps alive for its native object.       *)
(***************************************************************************)
EXTENDS NativeHeap

\* The logging function is process-global: the first environment installs its own, a
\* logger of the program or none, and the later ones cannot override it.  It is taken
\* to be in force until no environment is left.
InForce(own) ==
    IF OfKind({"env"}) = {} THEN own ELSE UNION {heap[e].calls : e \in OfKind({"env"})}

\* EnvInner: the pools and the logger it keeps, and what its native object points to.
EnvInner(guards, uses, logger) == Logging(Object("env", guards, uses), InForce(logger))

\* Environment::new, new_with_level.
NewEnvironment == Make(EnvInner(<<>>, {}, {}))

\* ThreadingOptions::new, and with_thread_manager at most once: the boxed manager
\* is what the native options point to, and a failed setter drops both.
ThreadingOptions == MakeOrUndo(Object("threading", <<>>, {}))

with_thread_manager ==
    \E t \in Movable("threading") :
        /\ heap[t].guards = <<>>
        /\ \/ /\ Room(1)
              /\ heap' = [heap EXCEPT ![t].guards = <<New>>, ![t].uses = {New},
                                      ![New] = Owned(Object("manager", <<>>, {}))]
              /\ UNCHANGED <<area, dropping, leaked>>
           \/ Refuses(<<t>>)

\* Some objects and what they point to; an optional argument.
WithUses(s) == ToSet(s) \cup UNION {heap[i].uses : i \in ToSet(s)}
AtMostOne(set) == {<<>>} \cup {<<i>> : i \in set}

\* new_with_global_thread_pools: the pools run on the manager of the options.
WithPools(t) == EnvInner(<<t>>, WithUses(<<t>>), {})

new_with_global_thread_pools == \E t \in Movable("threading") : Consume(<<t>>, WithPools(t))

\* UserLogger: the boxed closure that ONNX Runtime calls, through its address.
UserLogger == Owned(Object("logger", <<>>, {}))

\* new_with_logger, new_with_logger_and_global_thread_pools: the boxed closure is
\* kept by the environment and dropped after it, whichever logger is in force.
new_with_logger ==
    \E ts \in AtMostOne(Movable("threading")) :
        \/ /\ Room(2)
           /\ heap' = [Without(ts) EXCEPT
                          ![New] = UserLogger,
                          ![New2] = EnvInner(Append(ts, New), {New} \cup WithUses(ts), {New})]
           /\ UNCHANGED <<area, dropping, leaked>>
        \/ Refuses(ts)

\* EnvCreationOptions: the options own the logger, the pools and the config
\* entries until create_env.
EnvCreationOptions ==
    \E ts \in AtMostOne(Movable("threading")), ks \in AtMostOne(Movable("kvps")) :
        /\ Room(2)
        /\ heap' = [Without(ts \o ks) EXCEPT
                       ![New] = UserLogger,
                       ![New2] = Wrapper("envoptions", <<New>> \o ts \o ks)]
        /\ UNCHANGED <<area, dropping, leaked>>

\* create_env: pools and logger move into the environment, the entries are dropped.
create_env ==
    \E o \in Movable("envoptions") :
        \/ /\ Room(1)
           /\ LET Fields(k) == Among(heap[o].guards, OfKind({k}))
                  logger == Fields("logger")
                  kept == Fields("threading") \o logger
              IN /\ heap' = [heap EXCEPT ![o] = Free,
                                 ![New] = EnvInner(kept, WithUses(kept), ToSet(logger))]
                 /\ dropping' = Unrefs(Fields("kvps"))
           /\ UNCHANGED <<area, leaked>>
        \/ Refuses(<<o>>)

\* Environment is a shared handle.
CloneEnvironment == \E e \in Held("env") : Clone(e)

(***************************************************************************)
(* Allocators and memory                                                   *)
(***************************************************************************)
\* MemoryInfo constructors: a descriptor that cannot be classified is released.
MemoryInfo == MakeOrUndo(Object("memory", <<>>, {}))

\* try_clone_descriptor: a descriptor of its own.
try_clone_descriptor == Held("memory") # {} /\ MemoryInfo

KeyValuePairs == Make(Object("kvps", <<>>, {}))

\* from_handle_owned: a reference to an allocator of the environment.
SharedAllocator(e) == Object("allocator", <<e>>, {e})

\* create_shared_allocator (the device must be of this environment) and
\* get_shared_allocator.
create_shared_allocator ==
    \E e \in Held("env"), d \in Held("epdevice") :
        ToSet(heap[d].guards) = {e} /\ Make(SharedAllocator(e))

get_shared_allocator == \E e \in Held("env"), m \in Held("memory") : Make(SharedAllocator(e))

\* ArenaCfg; register_allocator, create_and_register_allocator_v2: the new allocator is the
\* environment's own, the descriptor and the arena are read during the call.
ArenaCfg == Make(Object("arena", <<>>, {}))

register_allocator ==
    \E e \in Held("env"), m \in Held("memory"), a \in Held("arena") :
        Undoes(<<>>, Object("call", <<>>, {e, m, a}))

\* Allocator::allocate: an Allocation borrows its allocator and is freed through it.
allocate == \E a \in Held("allocator") : Make(Borrowing(Object("allocation", <<>>, {a}), {a}))

\* Allocator::stats: the native map is released, but an entry that is not UTF-8
\* returns early without it.
stats ==
    \E a \in Held("allocator") :
        Undoes(<<>>, Object("stats", <<>>, {})) \/ Leaks("stats")

(***************************************************************************)
(* Devices, streams and imported resources                                 *)
(***************************************************************************)
\* get_ep_devices and hardware_devices: borrowed from the environment, which
\* every device keeps.
get_ep_devices == \E e \in Held("env") : Make(Object("epdevice", <<e>>, {e}))
hardware_devices == \E e \in Held("env") : Make(Object("hwdevice", <<e>>, {e}))

\* hardware_device_ep_incompatibility_details: for a device of this environment.
hardware_device_ep_incompatibility_details ==
    \E e \in Held("env"), d \in Held("hwdevice") :
        heap[d].guards[1] = e /\ Make(Object("details", <<>>, {}))

EpDeviceHardware == \E d \in Held("epdevice") : Make(Object("hwdevice", heap[d].guards, heap[d].uses))

\* SyncStream::for_ep_device: the stream keeps the device's environment.
SyncStream == \E d \in Held("epdevice") : Make(Object("syncstream", heap[d].guards, heap[d].uses))

\* ExternalResourceImporter::for_device: the caller guarantees the device, so the
\* device value outlives the importer; the imported handles are released by
\* functions of the library, not by the importer.
for_device == \E d \in Held("epdevice") : Make(Borrowing(Object("importer", <<>>, {d}), {d}))

import_memory == \E i \in Held("importer") : Make(Object("extmem", <<>>, {}))
import_semaphore == \E i \in Held("importer") : Make(Object("semaphore", <<>>, {}))

\* create_tensor_from_memory: "valid only while mem_handle stays alive", which is
\* the caller's duty; a value that cannot be introspected is released.
create_tensor_from_memory ==
    \E i \in Held("importer"), m \in Held("extmem") :
        MakeOrUndo(Borrowing(Object("value", <<>>, {m}), {m}))

EnvironmentNext ==
    \/ NewEnvironment \/ ThreadingOptions \/ with_thread_manager
    \/ new_with_global_thread_pools \/ new_with_logger \/ EnvCreationOptions \/ create_env
    \/ CloneEnvironment \/ MemoryInfo \/ try_clone_descriptor \/ KeyValuePairs

DeviceNext ==
    \/ NewEnvironment \/ CloneEnvironment \/ MemoryInfo
    \/ ArenaCfg \/ register_allocator \/ create_shared_allocator \/ get_shared_allocator \/ allocate \/ stats
    \/ get_ep_devices \/ hardware_devices \/ hardware_device_ep_incompatibility_details
    \/ EpDeviceHardware \/ SyncStream
    \/ for_device \/ import_memory \/ import_semaphore \/ create_tensor_from_memory
=============================================================================
