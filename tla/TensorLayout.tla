---------------------------- MODULE TensorLayout ----------------------------
(***************************************************************************)
(* The sizes and addresses behind a tensor buffer: how many bytes a shape  *)
(* has, which storage a BufferSpec selects after any sequence of its       *)
(* builder calls, where the bytes lie, which pages are touched ahead of    *)
(* the first run, and which range of a file a mapped tensor shows.  ONNX   *)
(* Runtime reads and writes as many bytes as it is told.                   *)
(*                                                                         *)
(* Words, pages and thresholds are scaled down: a word holds 0..WordMax.   *)
(***************************************************************************)
EXTENDS Integers, Sequences

CONSTANTS WordMax,      \* usize::MAX and u64::MAX
          PageSize,     \* a power of two
          AlignedThreshold, HugepageThreshold,  \* AUTO_*_THRESHOLD_BYTES
          HugeAlignment,        \* HUGEPAGE_BUFFER_ALIGNMENT
          Shapes,       \* shapes the program asks for
          Alignments,   \* alignments it asks for
          Addresses,    \* where an allocation may start
          Offsets, FileLengths, \* of mapped files
          Powers        \* the powers of two in a word

\* The larger of two powers of two is a multiple of the other.
ASSUME PowersAssumption ==
    /\ {1, 4, 8, PageSize} \subseteq Powers /\ Powers \subseteq Nat \ {0}
    /\ \A a, b \in Powers : a <= b => b % a = 0
ASSUME LayoutAssumption ==
    /\ WordMax \in Nat /\ PageSize >= 8
    /\ AlignedThreshold \in Nat /\ HugepageThreshold \in Nat /\ AlignedThreshold <= HugepageThreshold
    /\ HugeAlignment \in Nat /\ Alignments \cup Addresses \cup Offsets \cup FileLengths \subseteq Nat
    /\ Shapes \subseteq Seq(Int)

VARIABLES spec,         \* the BufferSpec being composed
          buffer        \* the construction that was tried last

layoutVars == <<spec, buffer>>

Err == -1

(***************************************************************************)
(* Sizes                                                                   *)
(***************************************************************************)
CheckedMul(a, b) == IF a = Err \/ b = Err \/ a * b > WordMax THEN Err ELSE a * b
CheckedAdd(a, b) == IF a = Err \/ b = Err \/ a + b > WordMax THEN Err ELSE a + b

\* The elements of a shape; a dynamic dimension or an overflow on the way is an error.
checked_element_count(dims) ==
    LET count[k \in 0..Len(dims)] ==
            IF k = 0 THEN 1 ELSE IF dims[k] < 0 THEN Err ELSE CheckedMul(count[k - 1], dims[k])
    IN count[Len(dims)]

\* Bits of a packed type, and bytes of the others.
packed_element_bits(type) ==
    CASE type \in {"Uint4", "Int4", "Float4E2M1"} -> 4
      [] type \in {"Uint2", "Int2"} -> 2
      [] OTHER -> 0
element_size(type) ==
    CASE type \in {"Uint8", "Int8", "Bool", "Float8E4M3FN", "Float8E4M3FNUZ", "Float8E5M2",
                  "Float8E5M2FNUZ", "Float8E8M0"} -> 1
      [] type \in {"Uint16", "Int16", "Float16", "Bfloat16"} -> 2
      [] type \in {"Float", "Int32", "Uint32"} -> 4
      [] type \in {"Double", "Int64", "Uint64", "Complex64"} -> 8
      [] type = "Complex128" -> 16
      [] OTHER -> 0

tensor_byte_len(type, count) ==
    IF packed_element_bits(type) # 0
    THEN LET bits == CheckedAdd(CheckedMul(count, packed_element_bits(type)), 7)
         IN IF bits = Err THEN Err ELSE bits \div 8
    ELSE CheckedMul(count, element_size(type))

(***************************************************************************)
(* BufferSpec                                                              *)
(***************************************************************************)
vec == [storage |-> "Vec", alignment |-> 0, prefault |-> FALSE, hugepage |-> FALSE,
        mlock |-> FALSE, auto |-> FALSE]
aligned(a) == [vec EXCEPT !.storage = "Aligned", !.alignment = a]
cuda_pinned == [vec EXCEPT !.storage = "CudaPinned"]
auto == [vec EXCEPT !.auto = TRUE]

Promoted(s) == IF s.storage = "Vec" THEN "Aligned" ELSE s.storage
prefault(s) == [s EXCEPT !.prefault = TRUE, !.auto = FALSE]
hugepage(s) == [s EXCEPT !.storage = Promoted(s), !.hugepage = TRUE, !.auto = FALSE]
mlock(s) == [s EXCEPT !.storage = Promoted(s), !.mlock = TRUE, !.auto = FALSE]
alignment(s, a) == [s EXCEPT !.storage = "Aligned", !.alignment = a, !.auto = FALSE]

\* The balanced policy, resolved by size.
resolve(s, bytes) ==
    CASE ~s.auto -> s
      [] s.auto /\ bytes >= HugepageThreshold -> prefault(hugepage(aligned(HugeAlignment)))
      [] s.auto /\ bytes >= AlignedThreshold /\ bytes < HugepageThreshold -> prefault(aligned(PageSize))
      [] s.auto /\ bytes < AlignedThreshold -> vec

Compose ==
    /\ buffer.result = "none"
    /\ \/ spec' \in {vec, cuda_pinned, auto, prefault(spec), hugepage(spec), mlock(spec)}
       \/ \E a \in Alignments : spec' \in {aligned(a), alignment(spec, a)}
    /\ UNCHANGED buffer

(***************************************************************************)
(* Storage                                                                 *)
(***************************************************************************)
NoBuffer == [result |-> "none", type |-> "Uint8", shape |-> <<>>, bytes |-> 0, addr |-> 0,
             alignment |-> 1, touched |-> {}, prefault |-> FALSE, file |-> Err, offset |-> 0,
             nnz |-> 0, values |-> <<>>, indices |-> <<>>, format |-> "dense"]
Refused(why) == [NoBuffer EXCEPT !.result = why]

\* The value is made over the storage, unless its memory is not host accessible or ONNX
\* Runtime refuses it.
MakeValue(b) == buffer' \in {b, Refused("value")}

\* Mutant: one element per page from the start of the slice, and no more.
PrefaultStrideOnly(addr, len, size) ==
    {addr + i * size : i \in {j \in 0..(len - 1) : j % (PageSize \div size) = 0}}

\* The addresses prefault_slice reads and writes back.
prefault_slice(addr, len, size) ==
    LET stride == IF PageSize \div size = 0 THEN 1 ELSE PageSize \div size
        steps == {i \in 0..(len - 1) : i % stride = 0 \/ i = len - 1}
    IN {addr + i * size : i \in steps}

\* AlignedBuffer::zeroed: the alignment it allocates with, or why it fails.
zeroed(size, bytes, asked) ==
    LET align == IF asked > size THEN asked ELSE size
        rounded == ((bytes + align - 1) \div align) * align
    IN CASE align \notin Powers -> [result |-> "alignment", align |-> align]
         [] align \in Powers /\ rounded > WordMax \div 2 -> [result |-> "capacity", align |-> align]
         [] align \in Powers /\ rounded <= WordMax \div 2 -> [result |-> "built", align |-> align]

\* What a resolved spec comes to: aligned-only modifiers on other storage are refused,
\* a Vec beyond isize::MAX panics, pinned storage needs the cuda feature.
StorageFor(s, size, bytes) ==
    CASE s.storage = "Aligned" -> zeroed(size, bytes, s.alignment)
      [] s.storage # "Aligned" /\ (s.alignment # 0 \/ s.hugepage \/ s.mlock) ->
            [result |-> "modifiers", align |-> size]
      [] s.storage # "Aligned" /\ s.alignment = 0 /\ ~s.hugepage /\ ~s.mlock ->
            [result |-> IF bytes > WordMax \div 2 THEN "capacity" ELSE "built", align |-> size]

\* TensorBuffer::zeros_with, with the address the allocator picks.
zeros_with(shape, type) ==
    /\ buffer.result = "none"
    /\ LET size == element_size(type)
           len == checked_element_count(shape)
           bytes == CheckedMul(len, size)
           resolved == resolve(spec, bytes)
           storage == StorageFor(resolved, size, bytes)
       IN IF bytes = Err THEN buffer' = Refused("shape")
          ELSE IF storage.result # "built" THEN buffer' = Refused(storage.result)
          ELSE \E addr \in {a \in Addresses : a % storage.align = 0} :
                 \/ MakeValue([NoBuffer EXCEPT
                      !.result = "built", !.type = type, !.shape = shape, !.bytes = bytes, !.addr = addr,
                      !.alignment = IF resolved.storage = "Aligned" THEN resolved.alignment ELSE 0,
                      !.prefault = resolved.prefault,
                      !.touched = IF resolved.prefault THEN prefault_slice(addr, len, size) ELSE {}])
                 \/ resolved.mlock /\ bytes > 0 /\ buffer' = Refused("lock")
    /\ UNCHANGED spec

\* The page-aligned range of the file that is mapped, and where the data starts in it.
map_file_range(offset, bytes) ==
    LET map_offset == (offset \div PageSize) * PageSize
    IN [offset |-> map_offset, data_offset |-> offset - map_offset,
        len |-> CheckedAdd(offset - map_offset, bytes)]

\* TensorBuffer::from_mmap_file_with_options; mmap itself may fail too ("range").
from_mmap_file(shape, type, offset, file_len) ==
    /\ buffer.result = "none" /\ spec = auto
    /\ LET bytes == CheckedMul(checked_element_count(shape), element_size(type))
           end == CheckedAdd(offset, bytes)
           range == map_file_range(offset, bytes)
       IN IF bytes = Err \/ end = Err THEN buffer' = Refused("shape")
          ELSE IF end > file_len THEN buffer' = Refused("range")
          ELSE IF bytes = 0
          THEN MakeValue([NoBuffer EXCEPT !.result = "built", !.type = type, !.shape = shape])
          ELSE IF range.len = Err THEN buffer' = Refused("range")
          ELSE \E map \in {a \in Addresses : a % PageSize = 0} :
                 IF (map + range.data_offset) % element_size(type) # 0
                 THEN buffer' = Refused("alignment")
                 ELSE \/ MakeValue([NoBuffer EXCEPT
                             !.result = "built", !.type = type, !.shape = shape, !.bytes = bytes,
                             !.addr = map + range.data_offset,
                             !.file = range.offset - map, !.offset = offset])
                      \/ buffer' \in {Refused("range"), Refused("lock")}
    /\ UNCHANGED spec

\* Tensor::from_packed_bytes over n bytes of the caller.
from_packed_bytes(shape, type, n) ==
    /\ buffer.result = "none" /\ spec = auto
    /\ LET expected == tensor_byte_len(type, checked_element_count(shape))
       IN IF packed_element_bits(type) = 0 THEN buffer' = Refused("type")
          ELSE IF expected # n THEN buffer' = Refused("shape")
          ELSE MakeValue([NoBuffer EXCEPT !.result = "built", !.type = type, !.shape = shape, !.bytes = n])
    /\ UNCHANGED spec

(***************************************************************************)
(* Sparse tensors                                                          *)
(***************************************************************************)
validate_shape_len(shape, len) == checked_element_count(shape) = len

validate_sparse_shapes(dense, values, nnz) ==
    checked_element_count(dense) # Err /\ validate_shape_len(values, nnz)

validate_coo_indices(nnz, rank, n) ==
    IF nnz = 0 THEN n = 0 ELSE n = nnz \/ n = CheckedMul(nnz, rank)

validate_csr_indices(nnz, dense, inner, outer) ==
    /\ inner = nnz
    /\ dense # <<>> /\ dense[1] >= 0
    /\ outer = CheckedAdd(dense[1], 1)

\* A value of nnz elements with index buffers of these lengths.
Sparse(ok, format, dense, values, nnz, indices) ==
    /\ IF validate_sparse_shapes(dense, values, nnz) /\ ok
       THEN MakeValue([NoBuffer EXCEPT !.result = "sparse", !.shape = dense, !.values = values,
                          !.nnz = nnz, !.indices = indices, !.format = format])
       ELSE buffer' = Refused("indices")
    /\ UNCHANGED spec

\* copy_coo and from_coo_buffer; copy_csr and from_csr_buffer; copy_block_sparse and
\* from_block_sparse_buffer.
coo(dense, values, nnz, n) ==
    Sparse(validate_coo_indices(nnz, Len(dense), n), "coo", dense, values, nnz, <<n>>)
csr(dense, values, nnz, inner, outer) ==
    Sparse(validate_csr_indices(nnz, dense, inner, outer), "csr", dense, values, nnz, <<inner, outer>>)
block_sparse(dense, values, nnz, shape, n) ==
    Sparse(validate_shape_len(shape, n), "block", dense, values, nnz, shape)

(***************************************************************************)
(* Copies                                                                  *)
(***************************************************************************)
\* try_host_copy_tensor_handles: memcpy between host tensors of one size.
try_host_copy_tensor_handles(src, dst) ==
    IF ~src.host \/ ~dst.host THEN buffer' = Refused("engine")
    ELSE IF src.bytes # dst.bytes THEN buffer' = Refused("size")
    ELSE buffer' = [NoBuffer EXCEPT !.result = "copied", !.bytes = dst.bytes, !.addr = dst.addr,
                       !.touched = {dst.addr + i : i \in 0..(src.bytes - 1)}]

\* Session::copy_tensor_handles: the engine copies, or the host does.
copy_tensor_handles(src, dst) ==
    /\ \/ buffer' = [NoBuffer EXCEPT !.result = "copied", !.bytes = dst.bytes, !.addr = dst.addr]
       \/ try_host_copy_tensor_handles(src, dst)
    /\ UNCHANGED spec

\* Element counts and tensors for sparse values and copies: a device tensor has no address
\* of the host, and 64 elements of rank 2 have more indices than a word can count.
SparseCounts == {0, 1, 3, 6, 64}
Tensors == [host : {TRUE}, bytes : {8, 16}, addr : Addresses] \cup [host : {FALSE}, bytes : {8, 16}, addr : {Err}]

LayoutInit == spec = auto /\ buffer = NoBuffer

\* Sparse tensors and copies do not depend on the spec.
SparseOrCopy ==
    /\ buffer.result = "none" /\ spec = auto
    /\ \/ \E dense \in Shapes, k, nnz, n \in SparseCounts :
             \/ coo(dense, <<k>>, nnz, n)
             \/ \E outer \in {0, 1, 4, 12} : csr(dense, <<k>>, nnz, n, outer)
             \/ block_sparse(dense, <<k>>, nnz, <<n, 2>>, 2 * n)
       \/ \E src, dst \in Tensors : copy_tensor_handles(src, dst)

LayoutNext ==
    \/ Compose
    \/ \E shape \in Shapes, type \in {"Uint8", "Float", "Double"} : zeros_with(shape, type)
    \/ \E shape \in Shapes, type \in {"Uint8", "Float"}, o \in Offsets, n \in FileLengths :
          from_mmap_file(shape, type, o, n)
    \/ \E shape \in Shapes, type \in {"Uint4", "Uint2", "Uint8"}, n \in 0..4 :
          from_packed_bytes(shape, type, n)
    \/ SparseOrCopy

(***************************************************************************)
(* Properties                                                              *)
(***************************************************************************)
RealCount(shape) ==
    LET product[k \in 0..Len(shape)] == IF k = 0 THEN 1 ELSE product[k - 1] * shape[k]
    IN product[Len(shape)]

Bytes == {buffer.addr + i : i \in 0..(buffer.bytes - 1)}
Page(a) == a \div PageSize

\* The bytes given to ONNX Runtime are those the shape needs.
SizeIsExact ==
    LET n == RealCount(buffer.shape) IN
        /\ \A k \in DOMAIN buffer.shape : buffer.shape[k] >= 0
        /\ IF packed_element_bits(buffer.type) = 0 THEN buffer.bytes = n * element_size(buffer.type)
           ELSE LET bits == n * packed_element_bits(buffer.type) IN
                    buffer.bytes * 8 >= bits /\ (buffer.bytes - 1) * 8 < bits

\* The values and the indices of a sparse tensor have the lengths its format is read by.
SparseIsExact ==
    /\ RealCount(buffer.values) = buffer.nnz
    /\ \A k \in DOMAIN buffer.shape : buffer.shape[k] >= 0
    /\ buffer.format = "coo" => buffer.indices[1] \in {buffer.nnz, buffer.nnz * Len(buffer.shape)}
    /\ buffer.format = "csr" => buffer.indices = <<buffer.nnz, buffer.shape[1] + 1>>

\* A buffer that was built has exactly the bytes its shape needs, without overflow, at
\* an address aligned for its type and for the power of two the spec asks for (any other
\* alignment below the type's own is accepted and means nothing); prefaulting touched
\* every page of it and no byte outside; a mapped tensor shows the file from the offset
\* asked for.  The values and indices of a sparse tensor have the lengths its format is
\* read by.  A copy that fell back to the host wrote the destination, all of it and
\* nothing else, and never device memory.  No sequence of builder calls makes a spec of
\* plain storage that is refused for its modifiers.
LayoutIsExact ==
    /\ buffer.result = "modifiers" => spec.storage = "CudaPinned"
    /\ buffer.result = "sparse" => SparseIsExact
    /\ buffer.result = "copied" =>
          buffer.touched = {} \/ (buffer.addr # Err /\ buffer.touched = Bytes)
    /\ buffer.result = "built" =>
        /\ SizeIsExact
        /\ packed_element_bits(buffer.type) = 0 /\ buffer.bytes > 0 =>
              buffer.addr % element_size(buffer.type) = 0
        /\ buffer.alignment \in Powers /\ buffer.bytes > 0 => buffer.addr % buffer.alignment = 0
        /\ buffer.touched \subseteq Bytes
        /\ buffer.prefault => {Page(a) : a \in Bytes} = {Page(a) : a \in buffer.touched}
        /\ buffer.file # Err => buffer.addr + buffer.file = buffer.offset
=============================================================================
