-------------------------- MODULE NativeProviders --------------------------
(***************************************************************************)
(* The configuration of the CUDA provider (ep.rs, CudaStream in            *)
(* cuda_rt.rs) on its way into a session.  The native session keeps the    *)
(* address of a user stream: it may come from a stream that the            *)
(* configuration, the options and then the session keep, and never from a  *)
(* text.  Raw entries are such texts, and so are configurations and        *)
(* options that were serialised, which loses the stream, and edited.       *)
(*                                                                         *)
(* Of a configuration the model keeps its input policy (the kind), its     *)
(* stream (the guard) and the streams whose addresses its raw entries hold *)
(* (the uses).  Other settings are values that are copied.                 *)
(***************************************************************************)
EXTENDS NativeSessions

\* CudaStream::new; its drop waits for the stream and destroys it.
CudaStream == Make(Object("cudastream", <<>>, {}))

(***************************************************************************)
(* Raw entries                                                             *)
(***************************************************************************)
\* The keys of entries: a pointer, another typed setting, or one unknown to the wrapper.
EntryKeys == {"pointer", "typed", "unknown"}
is_unsafe_cuda_pointer_key(k) == k = "pointer"
is_reserved_cuda_key(k) == k \in {"pointer", "typed"}

\* upsert_string_entry: only an entry with an address matters here.
upsert_string_entry(g, k, c) ==
    /\ heap' = [heap EXCEPT ![g].uses = IF k = "pointer" THEN @ \cup {c} ELSE @]
    /\ UNCHANGED <<area, dropping, leaked>>

(***************************************************************************)
(* CudaConfig, a builder: a refused step drops it                          *)
(***************************************************************************)
Configs == Movable("cudaconfig") \cup Movable("streamconfig")

\* performance, low_memory: the provider's own stream.
performance == Make(Wrapper("cudaconfig", <<>>))

\* graph_replay: a user stream, which must be of this device.
graph_replay == \E c \in Held("cudastream") : Make(Wrapper("streamconfig", <<c>>))

config_with_raw ==
    \E g \in Configs, k \in EntryKeys, c \in Held("cudastream") :
        IF is_reserved_cuda_key(k) THEN Refuses(<<g>>) ELSE upsert_string_entry(g, k, c)

\* Another stream takes the place of the one the configuration has.
ReplaceStream(g, kind, stream) ==
    /\ heap' = [heap EXCEPT ![g].kind = kind, ![g].guards = stream]
    /\ dropping' = Unrefs(heap[g].guards)
    /\ UNCHANGED <<area, leaked>>

\* with_device_input_policy: a user stream must be there already, another policy drops it.
with_device_input_policy ==
    \E g \in Configs :
        \/ ReplaceStream(g, "cudaconfig", <<>>)
        \/ heap[g].guards = <<>> /\ Refuses(<<g>>)

\* with_user_stream, refused for a stream of another device.
with_user_stream ==
    \E g \in Configs, c \in Held("cudastream") :
        ReplaceStream(g, "streamconfig", <<c>>) \/ Refuses(<<g>>)

\* Serialised and read again, perhaps edited: the policy stays, the stream is skipped.
DeserializeConfig ==
    \E g \in Configs, cs \in AtMostOne(Held("cudastream")) :
        Make([Wrapper(heap[g].kind, <<>>) EXCEPT !.uses = heap[g].uses \cup ToSet(cs)])

(***************************************************************************)
(* CudaProviderOptions: entries only                                       *)
(***************************************************************************)
\* provider_options (From<CudaConfig>): the entries of the configuration.
provider_options ==
    \E g \in Configs : Make([Wrapper("entries", <<>>) EXCEPT !.uses = heap[g].uses])

entries_with_raw ==
    \E g \in Movable("entries"), k \in EntryKeys, c \in Held("cudastream") :
        IF is_unsafe_cuda_pointer_key(k) THEN Refuses(<<g>>) ELSE upsert_string_entry(g, k, c)

\* CudaOptions::from_config: native provider options without an address.
from_config ==
    \E g \in Held("entries") :
        heap[g].uses = {} /\ MakeOrUndo(Object("provideroptions", <<>>, heap[g].uses))

\* update_with_value: "value must point to an object valid for the lifetime ORT requires",
\* which is the caller's duty.
update_with_value ==
    \E p \in Held("provideroptions"), c \in Held("cudastream") :
        /\ heap[p].uses = {}
        /\ heap' = [heap EXCEPT ![p].uses = {c}, ![p].borrows = {c}]
        /\ UNCHANGED <<area, dropping, leaked>>

(***************************************************************************)
(* Session options                                                         *)
(***************************************************************************)
\* Streams queued in one value of options (model bound).
MaxStreams == 2

\* with_cuda: no entry of an edited configuration overrides a typed setting, and a user
\* stream is there; the stream moves into the options.  Text with a NUL is refused too.
with_cuda ==
    \E o \in Movable("options"), g \in Configs :
        \/ /\ heap[g].uses = {}
           /\ heap[g].kind = "streamconfig" => heap[g].guards # <<>>
           /\ Len(heap[o].guards) < MaxStreams
           /\ heap' = [heap EXCEPT ![g] = Free, ![o].guards = @ \o heap[g].guards,
                                   ![o].uses = @ \cup heap[g].uses]
           /\ UNCHANGED <<area, dropping, leaked>>
        \/ Refuses(<<o, g>>)

\* with_execution_provider: raw entries of the CUDA provider, refused for a NUL too.
with_execution_provider ==
    \E o \in Movable("options"), k \in EntryKeys, c \in Held("cudastream") :
        \/ ~is_unsafe_cuda_pointer_key(k) /\ upsert_string_entry(o, k, c)
        \/ Refuses(<<o>>)

\* Options serialised and read again, perhaps edited: a queued provider that requires a
\* stream is left without it.
DeserializeOptions ==
    \E o \in HeldOf({"options", "stranded"}), cs \in AtMostOne(Held("cudastream")) :
        Make([Wrapper(IF FieldsOf(o, {"cudastream"}) # <<>> THEN "stranded" ELSE heap[o].kind, <<>>)
                 EXCEPT !.uses = heap[o].uses \cup ToSet(cs)])

\* Configurations and entries; and the way of a configuration into a session.
EntriesNext ==
    \/ CudaStream \/ performance \/ graph_replay \/ config_with_raw \/ DeserializeConfig
    \/ provider_options \/ entries_with_raw \/ ProviderOptions \/ from_config \/ update_with_value

CudaNext ==
    \/ performance \/ graph_replay \/ with_device_input_policy \/ with_user_stream
    \/ DeserializeConfig \/ SessionOptions \/ with_cuda \/ with_execution_provider \/ apply
    \/ DeserializeOptions \/ SessionNew \/ from_bytes_for_editing \/ finalize
=============================================================================
