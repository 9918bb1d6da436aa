--------------------------- MODULE NativeTensors ---------------------------
(***************************************************************************)
(* Tensors and bindings (tensor.rs, io_binding.rs, the allocator of a      *)
(* session in allocator.rs, pinned buffers in cuda_rt.rs): who owns the    *)
(* bytes a native value points to, and what a constructor that fails       *)
(* half-way leaves behind.  A Rust borrow stands for a lifetime parameter, *)
(* or for a duty the documentation gives the caller.                       *)
(***************************************************************************)
EXTENDS NativeHeap

Kept(i) == heap[i].guards

\* Caller memory that values can be built over.
CallerData == Make(Object("data", <<>>, {}))

(***************************************************************************)
(* Buffers that own their storage                                          *)
(***************************************************************************)
\* AlignedBuffer::zeroed and lock_pages, MmapBuffer::map_file: a mapping or an
\* allocation that is refused later (alignment, mlock) is unmapped or freed.
AlignedBuffer == MakeOrUndo(Object("storage", <<>>, {}))
map_file == MakeOrUndo(Object("storage", <<>>, {}))

\* PinnedBuffer::zeros (cudaMallocHost).
PinnedBuffer == Make(Object("storage", <<>>, {}))

\* TensorBuffer::from_storage (from_vec, from_mmap_file, zeros_with): the value
\* points into the storage that the buffer owns.
from_storage ==
    \E s \in Movable("storage") : Consume(<<s>>, Object("tensorbuffer", <<s>>, {s}))

(***************************************************************************)
(* Values over caller memory                                               *)
(***************************************************************************)
\* Tensor::from_buffer, from_packed_bytes; OutputValue::from_buffer.
from_buffer == \E d \in Held("data") : Make(Borrowing(Object("tensor", <<>>, {d}), {d}))
OutputValue == \E d \in Held("data") : Make(Borrowing(Object("outputvalue", <<>>, {d}), {d}))

\* Tensor::copy_from_slice: an engine-allocated tensor, forgotten when its data
\* pointer cannot be read.
copy_from_slice == Make(Object("tensor", <<>>, {})) \/ Leaks("tensor")

\* SparseTensor::copy_coo, copy_csr, copy_block_sparse: the native tensor copies,
\* and is released when filling it fails.
SparseCopy == MakeOrUndo(Object("sparse", <<>>, {}))

\* SparseTensor::from_coo_buffer, from_csr_buffer, from_block_sparse_buffer: it
\* borrows values and indices, and is released when the indices are refused.
SparseBorrow == \E d \in Held("data") : MakeOrUndo(Borrowing(Object("sparse", <<>>, {d}), {d}))

\* StringTensor::new: the native tensor is forgotten when a string holds a NUL or
\* the fill fails.
StringTensor == Make(Object("stringtensor", <<>>, {})) \/ Leaks("stringtensor")

(***************************************************************************)
(* Allocators of a session, and what they allocate                         *)
(***************************************************************************)
\* Allocator::create: keeps the session whose provider allocates.
AllocatorCreate == \E s \in Held("session") : Make(Object("allocator", <<s>>, {s}))

\* AllocatedTensor's fields: the allocator, and last the session guard taken from it.
AllocatedFields(a) == <<a>> \o Kept(a)

\* AllocatedTensor::new (for_session, cuda, copy_from_slice): consumes the allocator
\* and takes its session guard; a value without data is released.
AllocatedTensor ==
    \E a \in Movable("allocator") :
        LET tensor == Object("allocatedtensor", AllocatedFields(a), {a} \cup heap[a].uses)
        IN /\ Room(1)
           /\ \/ /\ heap' = [Without(<<a>>) EXCEPT ![a].guards = <<>>, ![New] = tensor]
                 /\ UNCHANGED dropping
              \/
                 /\ heap' = [Without(<<a>>) EXCEPT ![New] = [Owned(tensor) EXCEPT !.guards = <<a>>]]
                 /\ dropping' = <<Release(New)>>
           /\ UNCHANGED <<area, leaked>>

\* Allocator::allocate: freed through the allocator it borrows.
Allocation == \E a \in Held("allocator") : Make(Borrowing(Object("allocation", <<>>, {a}), {a}))

\* Mutant: the allocation keeps its Drop although ORT frees the buffer.
KeepAllocation(a) == [heap[a] EXCEPT !.native = "moved"]

\* Allocation::into_raw_parts: the wrapper is forgotten.
into_raw_parts(a) == Free

\* OwnedValue::from_allocated: ORT takes the buffer and frees it through the
\* allocator, which the caller must keep; a refused buffer is freed at once.
from_allocated ==
    \E a \in Movable("allocation") :
        \/ /\ Room(1)
           /\ heap' = [heap EXCEPT ![a] = into_raw_parts(a),
                         ![New] = Borrowing(Object("value", <<>>, heap[a].uses), heap[a].borrows)]
           /\ UNCHANGED <<area, dropping, leaked>>
        \/ Refuses(<<a>>)

(***************************************************************************)
(* Engine-owned values                                                     *)
(***************************************************************************)
\* from_introspect (of opaque, for instance): the handle
\* is wrapped, or released when it cannot be read.
from_introspect == MakeOrUndo(Object("value", <<>>, {}))

\* The element of a sequence or a map, and a sequence or a map of values, are values of
\* their own, and so is a type description.
get_value == Held("value") # {} /\ from_introspect
new_composite == Held("value") # {} /\ from_introspect
type_info == Held("value") # {} /\ Make(Object("runtimetype", <<>>, {}))

\* DeviceValue::from_owned and into_owned: a value that is no tensor is dropped.
from_owned == \E v \in Movable("value") : Consume(<<v>>, Wrapper("devicevalue", <<v>>))

\* Mutant: the handles after the failed one are forgotten.
ForgetRemaining == <<Release(New)>>

\* collect_from_raw failed: the failed handle and the ones after it are released.
ReleaseRemaining == <<Release(New), Release(New2)>>

\* collect_from_raw on the two values of a run: all are wrapped, or all released.
collect_from_raw ==
    /\ Room(2)
    /\ LET value == Object("value", <<>>, {})
       IN \/ /\ heap' = [heap EXCEPT ![New] = value, ![New2] = value]
             /\ UNCHANGED dropping
          \/ /\ heap' = [heap EXCEPT ![New] = Owned(value), ![New2] = Owned(value)]
             /\ dropping' = ReleaseRemaining
    /\ UNCHANGED <<area, leaked>>

(***************************************************************************)
(* Bindings                                                                *)
(***************************************************************************)
\* IoBinding::new keeps the session through ReleaseIoBinding.
BindingOf(s) == Object("binding", <<s>>, {s})

IoBinding == \E s \in Held("session") : Make(BindingOf(s))

\* bind_input, bind_output, bind_output_buffer, bind_output_allocated: the native
\* binding shares the value but points to its memory, which the caller must keep
\* until the binding is cleared or dropped.
Bind ==
    \E b \in Held("binding"),
       v \in HeldOf({"tensor", "tensorbuffer", "outputvalue", "allocatedtensor"}) :
        /\ v \notin heap[b].borrows
        /\ heap' = [heap EXCEPT ![b].uses = @ \cup heap[v].uses, ![b].borrows = @ \cup {v}]
        /\ UNCHANGED <<area, dropping, leaked>>

\* clear_inputs, clear_outputs.
clear ==
    \E b \in Held("binding") :
        /\ heap[b].borrows # {}
        /\ heap' = [heap EXCEPT ![b].uses = ToSet(Kept(b)), ![b].borrows = {}]
        /\ UNCHANGED <<area, dropping, leaked>>

\* output_values of a bound run.
output_values == Held("binding") # {} /\ collect_from_raw

\* output_names: both engine arrays are freed on every path.
output_names == Held("binding") # {} /\ Undoes(<<>>, Object("names", <<>>, {}))

TensorNext ==
    \/ CallerData \/ AlignedBuffer \/ map_file \/ PinnedBuffer \/ from_storage
    \/ from_buffer \/ OutputValue \/ copy_from_slice \/ SparseCopy \/ SparseBorrow
    \/ StringTensor \/ from_introspect \/ get_value \/ new_composite \/ type_info \/ from_owned

BindingNext ==
    \/ AllocatorCreate \/ AllocatedTensor \/ Allocation \/ from_allocated
    \/ CallerData \/ from_buffer \/ PinnedBuffer \/ from_storage
    \/ IoBinding \/ Bind \/ clear \/ output_values \/ output_names
=============================================================================
