--------------------------- MODULE NativeSessions ---------------------------
(***************************************************************************)
(* Sessions and runs (session.rs, session_options.rs, run_options.rs,      *)
(* ep.rs, initializer.rs, prepacked.rs, model_spool.rs, lora.rs,           *)
(* metadata.rs): a session keeps everything the native session points to,  *)
(* and a constructor that fails releases the native session before what it *)
(* points to.                                                              *)
(***************************************************************************)
EXTENDS NativeEnvironment

(***************************************************************************)
(* What a session is built from                                            *)
(***************************************************************************)
\* PrepackedWeightsContainer::new, LoraAdapter (from a path or bytes), ExternalInitializerInfo::new.
PrepackedWeightsContainer == Make(Object("prepacked", <<>>, {}))
LoraAdapter == Make(Object("lora", <<>>, {}))
ExternalInitializerInfo == Make(Object("initializerinfo", <<>>, {}))

\* spool_model_bytes: the temporary file is removed when writing it fails, and by
\* the drop of its guard.
spool_model_bytes == MakeOrUndo(Object("spool", <<>>, {}))

\* OwnedInitializer::tensor: a name for a tensor buffer, which it consumes.
OwnedInitializer ==
    \E t \in Movable("tensorbuffer") :
        \/ /\ heap' = [heap EXCEPT ![t].kind = "initializer"]
           /\ UNCHANGED <<area, dropping, leaked>>
        \/ Refuses(<<t>>)

(***************************************************************************)
(* Session options: a builder, passed by value                             *)
(***************************************************************************)
SessionOptions == Make(Wrapper("options", <<>>))

FieldsOf(o, kinds) == Among(heap[o].guards, OfKind(kinds))

\* A builder step that keeps one more guard, or drops the builder with its error.
Builds(o, g) == g \notin ToSet(heap[o].guards) /\ (Attach(o, <<g>>, {}) \/ Refuses(<<o>>))

\* ep_options!: a provider's own options, released when an entry is refused.
ProviderOptions == MakeOrUndo(Object("provideroptions", <<>>, {}))

\* apply: the queued providers are appended through options that live for the call; those
\* of CUDA point to the stream.
apply ==
    \E o \in Held("options") :
        Undoes(<<>>, Object("provideroptions", <<>>, ToSet(FieldsOf(o, {"cudastream"}))))

\* append_execution_provider_device: the queued devices keep their environment.
append_execution_provider_device ==
    \E o \in Movable("options"), d \in Held("epdevice") : Builds(o, heap[d].guards[1])

\* with_user_logging_function: the options share the logger's slot.
with_user_logging_function ==
    \E o \in Movable("options") :
        /\ FieldsOf(o, {"slot"}) = <<>> /\ Room(1)
        /\ heap' = [heap EXCEPT ![o].guards = Append(@, New), ![New] = Owned(Object("slot", <<>>, {}))]
        /\ UNCHANGED <<area, dropping, leaked>>

\* build_handle_inner: a native copy of the options, released when a setter refuses; it
\* points to the streams that the options keep or whose addresses their entries hold.
OptionsHandle(o) == Object("handle", <<>>, heap[o].uses \cup ToSet(FieldsOf(o, {"cudastream"})))

\* execution_mode, mem_pattern_enabled, config_entries, clone_ort_handle: the copy is
\* released on every path.
build_handle == \E o \in Held("options") : Undoes(<<>>, OptionsHandle(o))

\* has_config_entry, config_entry: the copy is forgotten when the key holds a NUL.
config_entry == \E o \in Held("options") : Undoes(<<>>, OptionsHandle(o)) \/ Leaks("handle")

(***************************************************************************)
(* Sessions                                                                *)
(***************************************************************************)
\* Mutant: the devices of another environment are attached.
AttachAnyDevice(o, e) == TRUE

\* apply_device_attach: queued devices must come from the session's environment.
apply_device_attach(o, e) == ToSet(FieldsOf(o, {"env"})) \subseteq {e}

\* build_handle_inner gives the native session one reference of the logger's slot
\* and never takes it back.
LeaksSlot(h, o) ==
    [i \in Ids |-> [h[i] EXCEPT !.handles = @ + Occurrences(i, FieldsOf(o, {"slot"}))]]

\* SessionInner's guards in the order of its fields: initializers, prepacked
\* weights, CUDA streams, the spooled model file and last the environment.
SessionFields(o, given, e) ==
    LET Given(k) == Among(given, OfKind({k}))
    IN Given("initializer") \o Given("prepacked") \o FieldsOf(o, {"cudastream"})
           \o Given("spool") \o <<e>>

SessionOf(o, given, e) ==
    Object("session", SessionFields(o, given, e),
           {e} \cup ToSet(given) \cup ToSet(heap[o].guards) \cup heap[o].uses)

\* validate_cuda_stream_guards: deserialised options may hold the address of a stream, or
\* have lost the stream they require.
validate_cuda_stream_guards(o) == heap[o].kind = "options" /\ heap[o].uses = {}

\* build_session_options_for_env: the devices are attached to the native options of this
\* environment, and a failure there or in the engine releases the options.
build_session_options_for_env(o, e) ==
    validate_cuda_stream_guards(o) /\ apply_device_attach(o, e) /\ Room(1)

\* add_owned_initializers, add_external_initializers_batch: the native options point to the
\* values as well.
add_owned_initializers(handle, given) == [handle EXCEPT !.uses = @ \cup ToSet(given)]

\* The constructors of Session, from options and what else the session is given: the
\* call is refused; or the engine refuses the native options, which may have their
\* reference of the slot by then; or the session is wrapped; or its metadata cannot be read
\* and it is released before its guards (from_handle_with_resources).
NewSession(taken, given) ==
    \E o \in Movable("options") \cup Movable("stranded"), e \in Held("env") :
        \/ Refuses(<<o>> \o taken)
        \/ /\ build_session_options_for_env(o, e)
           /\ \A s \in ToSet(FieldsOf(o, {"slot"})) : heap[s].handles < 2
           /\ LET after == LeaksSlot(Without(<<o>> \o taken), o)
              IN \/ /\ heap' = [after EXCEPT ![New] = Owned(add_owned_initializers(OptionsHandle(o), given))]
                    /\ dropping' = <<Release(New)>> \o Unrefs(<<o>> \o taken)
                 \/ /\ heap' = [after EXCEPT ![New] = SessionOf(o, given, e)]
                    /\ dropping' = <<Unref(o)>>
                 \/ /\ heap' = [after EXCEPT ![New] = Owned(SessionOf(o, given, e))]
                    /\ dropping' = <<Release(New), Unref(o)>>
           /\ UNCHANGED <<area, leaked>>

\* From a path (new_with_spool), from bytes, for editing: nothing else is given.
SessionNew == NewSession(<<>>, <<>>)
from_bytes == NewSession(<<>>, <<>>)
from_bytes_for_editing == NewSession(<<>>, <<>>)

\* The files are read while the session is created and are not retained.
new_with_external_initializer_files == NewSession(<<>>, <<>>)

\* The initializers move into the session.
new_with_owned_initializers == \E i \in Movable("initializer") : NewSession(<<i>>, <<i>>)
new_with_external_initializers == \E i \in Movable("initializer") : NewSession(<<i>>, <<i>>)
from_bytes_with_owned_initializers == \E i \in Movable("initializer") : NewSession(<<i>>, <<i>>)

\* The container is shared, with or without initializers.
new_with_prepacked_weights ==
    \E p \in Held("prepacked"), is \in AtMostOne(Movable("initializer")) : NewSession(is, is \o <<p>>)
from_bytes_with_prepacked_weights ==
    \E p \in Held("prepacked"), is \in AtMostOne(Movable("initializer")) : NewSession(is, is \o <<p>>)

\* from_bytes_with_external_data: the session keeps the spooled file.
from_bytes_with_external_data == \E f \in Movable("spool") : NewSession(<<f>>, <<f>>)

\* Session is a shared handle.
CloneSession == \E s \in Held("session") : Clone(s)

\* finalize: only through the one handle of the session; the streams of the new
\* options are kept before the native call, which may still fail, sees them.
finalize ==
    \E s \in Movable("session"), o \in Held("options") :
        /\ Strong(heap, dropping, s) = 1
        /\ LET streams == Among(FieldsOf(o, {"cudastream"}), Ids \ ToSet(heap[s].guards))
           IN streams # <<>> /\ Attach(s, streams, ToSet(streams))

\* Model metadata, type information and the allocated strings of a session are its
\* caller's to release.
Metadata == \E s \in Held("session") : MakeOrUndo(Object("metadata", <<>>, {}))

\* ep_graph_assignment_info: borrowed from the session.
ep_graph_assignment_info ==
    \E s \in Held("session") : Make(Borrowing(Object("subgraph", <<>>, {s}), {s}))

(***************************************************************************)
(* Run options and runs                                                    *)
(***************************************************************************)
RunOptions == Make(Wrapper("runbuilder", <<>>))

\* with_sync_stream replaces the stream, with_lora_adapter adds an adapter.
with_sync_stream ==
    \E o \in Movable("runbuilder"), s \in Held("syncstream") :
        FieldsOf(o, {"syncstream"}) = <<>> /\ Attach(o, <<s>>, {})

with_lora_adapter ==
    \E o \in Movable("runbuilder"), a \in Held("lora") :
        FieldsOf(o, {"lora"}) = <<>> /\ Attach(o, <<a>>, {})

\* MaterializedRunOptions: the stream and then the adapters, dropped after the native options.
MaterializedRunOptions(o) == Object("runoptions", heap[o].guards, ToSet(heap[o].guards))

freeze ==
    \E o \in Movable("runbuilder") :
        /\ \/ /\ heap' = [heap EXCEPT ![o] = MaterializedRunOptions(o)]
              /\ UNCHANGED dropping
           \/ /\ heap' = [heap EXCEPT ![o] = Owned(MaterializedRunOptions(o))]
              /\ dropping' = <<Release(o)>>
        /\ UNCHANGED <<area, leaked>>

\* check_sync_stream: the stream keeps the session's environment.
check_sync_stream(s, t) == heap[t].guards[1] \in ToSet(heap[s].guards)

\* check_run_options: so do the streams of the options.
check_run_options(s, o) == \A t \in ToSet(FieldsOf(o, {"syncstream"})) : check_sync_stream(s, t)

\* run_with, run_array_with: a call in progress points to the session and to the options
\* it was given, all borrowed by the call.
run_with ==
    \E s \in Held("session"), o \in Held("runoptions") :
        check_run_options(s, o) /\ Undoes(<<>>, Object("run", <<>>, {s, o}))

\* copy_*_on_stream: the same for a copy on a stream.
copy_tensor_handles_on_stream ==
    \E s \in Held("session"), t \in Held("syncstream") :
        check_sync_stream(s, t) /\ Undoes(<<>>, Object("copy", <<>>, {s, t}))

\* stamp_outputs: the outputs of a run go to the caller's slots; when an output cannot be
\* described, it and the later ones are released and the earlier ones stay.
stamp_outputs ==
    /\ Held("session") # {}
    /\ Room(2)
    /\ LET value == Object("value", <<>>, {})
       IN \/ /\ heap' = [heap EXCEPT ![New] = value, ![New2] = value]
             /\ UNCHANGED dropping
          \/ /\ heap' = [heap EXCEPT ![New] = value, ![New2] = Owned(value)]
             /\ dropping' = <<Release(New2)>>
    /\ UNCHANGED <<area, leaked>>

SessionNext ==
    \/ PrepackedWeightsContainer \/ spool_model_bytes \/ OwnedInitializer
    \/ SessionOptions \/ with_user_logging_function
    \/ SessionNew \/ from_bytes \/ from_bytes_for_editing \/ new_with_external_initializer_files
    \/ new_with_owned_initializers \/ new_with_external_initializers
    \/ from_bytes_with_owned_initializers \/ new_with_prepacked_weights
    \/ from_bytes_with_prepacked_weights \/ from_bytes_with_external_data
    \/ CloneSession

RunNext ==
    \/ get_ep_devices \/ SyncStream \/ SessionOptions \/ append_execution_provider_device
    \/ build_handle \/ config_entry \/ SessionNew \/ LoraAdapter \/ ExternalInitializerInfo
    \/ RunOptions \/ with_sync_stream \/ with_lora_adapter \/ freeze \/ run_with
    \/ copy_tensor_handles_on_stream \/ stamp_outputs \/ Metadata \/ ep_graph_assignment_info
=============================================================================
