------------------------------- MODULE Tensor -------------------------------
(***************************************************************************)
(* src/tensor/tensor.c: tensors over owned and borrowed buffers, the views *)
(* derived from them by changing shape, strides and data pointer, clones   *)
(* and copies.  A pointer is a buffer and a byte offset, and a buffer is a *)
(* sequence of elements.  Calls that are rejected before *out is written   *)
(* change nothing and are left out.  The callers keep tensor.h's contract: *)
(* *out is no owner, no view outlives its buffer, a status is looked at.   *)
(***************************************************************************)
EXTENDS Integers, Sequences, SequencesExt, FiniteSets, FiniteSetsExt

CONSTANTS
    Slots,          \* the callers' tensors
    Buffers,        \* allocations, and buffers of callers
    Dtypes,         \* the element types in use
    Roots,          \* the shapes tensors are allocated and wrapped with
    Dims,           \* values of a dimension that views are asked for
    MaxRank,        \* HBI_TENSOR_MAX_RANK
    IntMax,         \* INT64_MAX
    Alignments,     \* asked of hbi_tensor_alloc_aligned
    Wraps,          \* callers' buffers: spare elements, read-only, address
                    \* modulo an alignment
    MinAlignment,   \* sizeof(void *)
    MaxCalls        \* bound on the calls of a behaviour

VARIABLES
    tensor,         \* hbi_tensor of each slot
    buffer,         \* of each buffer: its values, by element; <<>> when not allocated
    skew,           \* of each buffer: its address, modulo an alignment
    where,          \* history: the element each index of a tensor stands for
    copied,         \* history: the target and the values of a copy just made
    calls

vars == <<tensor, buffer, skew, where, copied, calls>>

-----------------------------------------------------------------------------
(* Element types, shapes and strides.                                      *)

Bits == [fp32 |-> 32, fp16 |-> 16, bf16 |-> 16, int8 |-> 8, int4 |-> 4, int2 |-> 2,
         fp8 |-> 8, nf4 |-> 4, mxfp4 |-> 4]
DtypeAlign(dt) == IF Bits[dt] >= 8 THEN Bits[dt] \div 8 ELSE 1
Reserved(dt) == dt \in {"fp8", "nf4"}
SubByte(dt) == dt \in {"int4", "int2", "nf4", "mxfp4"}
PackedBytes(dt, count) == (count * Bits[dt] + 7) \div 8

Product(dims) == FoldLeft(LAMBDA a, b : a * b, 1, dims)
Dot(xs, ys) == FoldLeft(LAMBDA a, b : a + b, 0, [i \in DOMAIN xs |-> xs[i] * ys[i]])

Ranks == 0..MaxRank
ShapesOf(rank) == [1..rank -> Dims]
Shapes == UNION {ShapesOf(rank) : rank \in Ranks}

\* hbi_shape_validate, and the overflow tests of hbi_dtype_packed_nbytes.
ShapeValid(dims) ==
    Len(dims) <= MaxRank /\ (\A i \in DOMAIN dims : dims[i] > 0) /\ Product(dims) <= IntMax
BytesValid(dt, count) == count * Bits[dt] <= IntMax - 7

Contiguous(dims) == [i \in DOMAIN dims |-> Product(SubSeq(dims, i + 1, Len(dims)))]
IsContiguous(strides, dims) == strides = Contiguous(dims)
Span(dims, strides) == Dot([i \in DOMAIN dims |-> dims[i] - 1], strides) + 1

Indices(dims) ==
    {idx \in [DOMAIN dims -> 0..(Max({1} \cup ToSet(dims)) - 1)] : \A i \in DOMAIN dims : idx[i] < dims[i]}


-----------------------------------------------------------------------------
(* Tensors.                                                                *)

Zeroed == [dtype |-> "invalid", dims |-> <<>>, strides |-> <<>>, data |-> <<>>, nbytes |-> 0,
           align |-> 0, ownership |-> "owned", readOnly |-> FALSE, contiguous |-> FALSE]

Live(s) == tensor[s].data # <<>>
Owns(s) == Live(s) /\ tensor[s].ownership = "owned"
Free(b) == buffer[b] = <<>>
BufferOf(t) == t.data[1]

\* No other tensor is over the buffer of this one.
Alone(s) == \A o \in Slots \ {s} : Live(o) => BufferOf(tensor[o]) # BufferOf(tensor[s])

\* What a caller passes as *out: a tensor without data, or a view to reuse.
Reusable(o) == Live(o) => ~Owns(o) /\ ~Alone(o)

\* The element of its buffer that a tensor's strides lead to.
Element(t, idx) == (t.data[2] * 8) \div Bits[t.dtype] + Dot(idx, t.strides)

NoCopy == [slot |-> "none"]

Init ==
    /\ tensor = [s \in Slots |-> Zeroed]
    /\ buffer = [b \in Buffers |-> <<>>] /\ skew = [b \in Buffers |-> 0]
    /\ where = [s \in Slots |-> <<>>]
    /\ copied = NoCopy /\ calls = 0

Sets(s, t, elements) ==
    /\ tensor' = [tensor EXCEPT ![s] = t]
    /\ where' = [where EXCEPT ![s] = elements]

RowMajor(dims) == [idx \in Indices(dims) |-> Dot(idx, Contiguous(dims))]

Fresh(dt, dims, b, nbytes, align, ownership, readOnly) ==
    [dtype |-> dt, dims |-> dims, strides |-> Contiguous(dims), data |-> <<b, 0>>,
     nbytes |-> nbytes, align |-> align, ownership |-> ownership, readOnly |-> readOnly,
     contiguous |-> TRUE]

Allocatable(dt, dims) == ~Reserved(dt) /\ ShapeValid(dims) /\ BytesValid(dt, Product(dims))

\* tensor_alloc_impl: the buffer is zeroed; or there is none, and *out keeps a
\* type and a shape without data.
Alloc(s, dt, dims, align, b) ==
    /\ Reusable(s) /\ Allocatable(dt, dims)
    /\ align >= MinAlignment /\ align >= DtypeAlign(dt)
    /\ \/ /\ Free(b)
          /\ buffer' = [buffer EXCEPT ![b] = [i \in 1..Product(dims) |-> 0]]
          /\ skew' = [skew EXCEPT ![b] = 0]
          /\ Sets(s, Fresh(dt, dims, b, PackedBytes(dt, Product(dims)), align, "owned", FALSE),
                  RowMajor(dims))
       \/ /\ Sets(s, [Zeroed EXCEPT !.dtype = dt, !.dims = dims, !.strides = Contiguous(dims)], <<>>)
          /\ UNCHANGED <<buffer, skew>>
    /\ copied' = NoCopy

\* tensor_wrap_impl over a buffer of `count` elements, at least as many as the
\* shape has; the caller's values are its elements' positions.
Wrap(s, dt, dims, count, readOnly, b, address) ==
    /\ Reusable(s) /\ Free(b) /\ Allocatable(dt, dims)
    /\ address % DtypeAlign(dt) = 0
    /\ PackedBytes(dt, count) >= PackedBytes(dt, Product(dims))
    /\ buffer' = [buffer EXCEPT ![b] = [i \in 1..count |-> i]]
    /\ skew' = [skew EXCEPT ![b] = address]
    /\ Sets(s, Fresh(dt, dims, b, PackedBytes(dt, count), DtypeAlign(dt), "borrowed", readOnly),
            RowMajor(dims))
    /\ copied' = NoCopy

\* hbi_tensor_destroy; the callers destroy an owner after its views, and give
\* up a buffer of their own with the last tensor over it.
Destroy(s) ==
    /\ tensor[s] # Zeroed
    /\ Owns(s) => Alone(s)
    /\ buffer' = IF Owns(s) \/ (Live(s) /\ Alone(s))
                 THEN [buffer EXCEPT ![BufferOf(tensor[s])] = <<>>] ELSE buffer
    /\ Sets(s, Zeroed, <<>>)
    /\ UNCHANGED skew /\ copied' = NoCopy

\* hbi_tensor_move: "*dst should be empty or already destroyed".
Move(d, s) ==
    /\ d # s /\ tensor[d] = Zeroed /\ tensor[s] # Zeroed
    /\ tensor' = [tensor EXCEPT ![d] = tensor[s], ![s] = Zeroed]
    /\ where' = [where EXCEPT ![d] = where[s], ![s] = <<>>]
    /\ UNCHANGED <<buffer, skew>> /\ copied' = NoCopy

-----------------------------------------------------------------------------
(* Copies.                                                                 *)

\* The values a tensor has, as its caller means them.
Values(s) == [idx \in Indices(tensor[s].dims) |-> buffer[BufferOf(tensor[s])][where[s][idx] + 1]]

CopyPossible(src, contiguous) == contiguous \/ ~SubByte(src.dtype)

\* The target's buffer after the copy: one memcpy from data to data, or the
\* elements one by one, each through the strides of its tensor.
Copied(src, dst, contents, contiguous) ==
    LET from(k) == contents[BufferOf(src)][k + 1]
        base(t) == (t.data[2] * 8) \div Bits[t.dtype]
        target == contents[BufferOf(dst)]
    IN  IF contiguous
        THEN [k \in DOMAIN target |->
                IF (k - 1) - base(dst) \in 0..(Product(src.dims) - 1)
                THEN from(base(src) + (k - 1) - base(dst)) ELSE target[k]]
        ELSE [k \in DOMAIN target |->
                IF \E idx \in Indices(src.dims) : Element(dst, idx) = k - 1
                THEN from(Element(src, CHOOSE idx \in Indices(src.dims) : Element(dst, idx) = k - 1))
                ELSE target[k]]

Notes(slot, values) == copied' = [slot |-> slot, values |-> values]

\* hbi_tensor_clone into a new owned tensor, contiguous.
Clone(s, o, b) ==
    /\ s # o /\ Live(s) /\ Reusable(o) /\ Free(b)
    /\ LET src == tensor[s]
           out == Fresh(src.dtype, src.dims, b, PackedBytes(src.dtype, Product(src.dims)),
                        64, "owned", FALSE)
           zeroed == [buffer EXCEPT ![b] = [i \in 1..Product(src.dims) |-> 0]]
       IN  /\ CopyPossible(src, src.contiguous)
           /\ buffer' = [zeroed EXCEPT ![b] = Copied(src, out, zeroed, src.contiguous)]
           /\ Sets(o, out, RowMajor(src.dims))
           /\ Notes(o, Values(s))
    /\ skew' = [skew EXCEPT ![b] = 0]

\* hbi_tensor_copy_into, between tensors over different buffers.
CopyInto(s, d) ==
    /\ s # d /\ Live(s) /\ Live(d) /\ ~tensor[d].readOnly
    /\ tensor[s].dtype = tensor[d].dtype /\ tensor[s].dims = tensor[d].dims
    /\ BufferOf(tensor[s]) # BufferOf(tensor[d])
    /\ LET contiguous == tensor[s].contiguous /\ tensor[d].contiguous
       IN  /\ CopyPossible(tensor[s], contiguous)
           /\ buffer' = [buffer EXCEPT ![BufferOf(tensor[d])] =
                    Copied(tensor[s], tensor[d], buffer, contiguous)]
    /\ Notes(d, Values(s))
    /\ UNCHANGED <<tensor, skew, where>>

-----------------------------------------------------------------------------
(* Views.  Each takes its parent's metadata (view_seed), changes shape,    *)
(* strides and data, and refreshes the flag and the extent.                *)

Refreshed(t) ==
    [t EXCEPT !.ownership = "view", !.contiguous = IsContiguous(t.strides, t.dims),
              !.nbytes = PackedBytes(t.dtype, Span(t.dims, t.strides))]

ViewOf(p, o) == p # o /\ Live(p) /\ Reusable(o)

\* The new tensor, and for each of its indices the parent's index it means.
Derives(p, o, t, Source(_)) ==
    /\ Sets(o, t, [idx \in Indices(t.dims) |-> where[p][Source(idx)]])
    /\ UNCHANGED <<buffer, skew>> /\ copied' = NoCopy

\* hbi_tensor_view, which keeps the parent's extent.
View(p, o) ==
    /\ ViewOf(p, o)
    /\ Derives(p, o, [tensor[p] EXCEPT !.ownership = "view"], LAMBDA idx : idx)

\* The index of a shape at a place in the row-major order.
Unflatten(n, dims) == CHOOSE idx \in Indices(dims) : Dot(idx, Contiguous(dims)) = n

Reshape(p, o, dims) ==
    /\ ViewOf(p, o) /\ tensor[p].contiguous
    /\ ShapeValid(dims) /\ Product(dims) = Product(tensor[p].dims)
    /\ Derives(p, o, Refreshed([tensor[p] EXCEPT !.dims = dims, !.strides = Contiguous(dims)]),
               LAMBDA idx : Unflatten(Dot(idx, Contiguous(dims)), tensor[p].dims))

InDim(start, count, dim) == start >= 0 /\ count > 0 /\ start + count <= dim

\* Mutant: the byte offset of a packed element is rounded down.
ShiftedAnywhere(t, elements) == <<t.data[1], t.data[2] + (elements * Bits[t.dtype]) \div 8>>

\* The data pointer moved by a number of elements: none when a packed element
\* does not start a byte.
Shifted(t, elements) ==
    IF SubByte(t.dtype) /\ (elements * Bits[t.dtype]) % 8 # 0 THEN <<>>
    ELSE <<t.data[1], t.data[2] + (elements * Bits[t.dtype]) \div 8>>

\* hbi_tensor_slice and, for several axes, hbi_tensor_subtensor: the first n
\* axes are cut.
Subtensor(p, o, starts, counts) ==
    LET t == tensor[p]
        n == Len(starts)
        offset == Dot(starts, SubSeq(t.strides, 1, n))
    IN  /\ ViewOf(p, o) /\ n <= Len(t.dims)
        /\ \A i \in 1..n : InDim(starts[i], counts[i], t.dims[i])
        /\ Shifted(t, offset) # <<>>
        /\ Derives(p, o, Refreshed([t EXCEPT
                !.dims = [i \in DOMAIN t.dims |-> IF i <= n THEN counts[i] ELSE t.dims[i]],
                !.data = Shifted(t, offset), !.align = DtypeAlign(t.dtype)]),
            LAMBDA idx : [i \in DOMAIN idx |-> IF i <= n THEN idx[i] + starts[i] ELSE idx[i]])

Slice(p, o, axis, start, count) ==
    LET t == tensor[p]
    IN  /\ ViewOf(p, o) /\ axis \in DOMAIN t.dims /\ InDim(start, count, t.dims[axis])
        /\ LET data == Shifted(t, start * t.strides[axis])
           IN  /\ data # <<>>
               /\ Derives(p, o, Refreshed([t EXCEPT !.dims[axis] = count, !.data = data,
                                                    !.align = DtypeAlign(t.dtype)]),
                          LAMBDA idx : [idx EXCEPT ![axis] = @ + start])

Swapped(s, a, b) == [s EXCEPT ![a] = s[b], ![b] = s[a]]

Transpose(p, o, a, b) ==
    /\ ViewOf(p, o) /\ {a, b} \subseteq DOMAIN tensor[p].dims
    /\ SubByte(tensor[p].dtype) => a = b
    /\ Derives(p, o, Refreshed([tensor[p] EXCEPT !.dims = Swapped(@, a, b), !.strides = Swapped(@, a, b)]),
               LAMBDA idx : Swapped(idx, a, b))

\* hbi_tensor_permute with a bijection.
Permute(p, o, perm) ==
    LET t == tensor[p]
        axes == DOMAIN t.dims
    IN  /\ ViewOf(p, o) /\ DOMAIN perm = axes
        /\ {perm[i] : i \in axes} = axes
        /\ SubByte(t.dtype) => perm = [i \in axes |-> i]
        /\ Derives(p, o, Refreshed([t EXCEPT !.dims = [i \in axes |-> t.dims[perm[i]]],
                                             !.strides = [i \in axes |-> t.strides[perm[i]]]]),
                   LAMBDA idx : [j \in axes |-> idx[CHOOSE i \in axes : perm[i] = j]])

\* hbi_tensor_squeeze drops the axes of size 1.
Squeeze(p, o) ==
    LET t == tensor[p]
        kept == SelectSeq([i \in DOMAIN t.dims |-> i], LAMBDA i : t.dims[i] # 1)
        At(s) == [i \in DOMAIN kept |-> s[kept[i]]]
    IN  /\ ViewOf(p, o)
        /\ Derives(p, o, Refreshed([t EXCEPT !.dims = At(t.dims), !.strides = At(t.strides)]),
                   LAMBDA idx : [j \in DOMAIN t.dims |->
                        IF t.dims[j] = 1 THEN 0 ELSE idx[CHOOSE i \in DOMAIN kept : kept[i] = j]])

\* hbi_tensor_unsqueeze inserts an axis of size 1, with the stride of the axis
\* it comes before.
Unsqueeze(p, o, axis) ==
    LET t == tensor[p]
        stride == IF axis <= Len(t.dims) THEN t.strides[axis] ELSE 1
    IN  /\ ViewOf(p, o) /\ axis <= Len(t.dims) + 1 /\ Len(t.dims) + 1 <= MaxRank
        /\ Derives(p, o, Refreshed([t EXCEPT !.dims = InsertAt(@, axis, 1),
                                             !.strides = InsertAt(@, axis, stride)]),
                   LAMBDA idx : RemoveAt(idx, axis))

Call ==
    \/ \E s \in Slots, dt \in Dtypes, dims \in Roots, b \in Buffers :
        \/ \E align \in Alignments : Alloc(s, dt, dims, align, b)
        \/ \E w \in Wraps : Wrap(s, dt, dims, Product(dims) + w.spare, w.readOnly, b, w.address)
    \/ \E s \in Slots : Destroy(s)
    \/ \E s, o \in Slots :
        \/ Move(o, s) \/ CopyInto(s, o) \/ View(s, o) \/ Squeeze(s, o)
        \/ \E b \in Buffers : Clone(s, o, b)
    \/ \E s, o \in Slots : ViewOf(s, o) /\ LET rank == Len(tensor[s].dims) IN
        \/ \E dims \in Shapes : Reshape(s, o, dims)
        \/ \E axis \in 1..(rank + 1) : Unsqueeze(s, o, axis)
        \/ \E axis \in 1..rank, start \in {0} \cup Dims, count \in Dims : Slice(s, o, axis, start, count)
        \/ \E n \in 0..rank : \E starts \in [1..n -> {0} \cup Dims], counts \in ShapesOf(n) :
            Subtensor(s, o, starts, counts)
        \/ \E a, b \in 1..rank : Transpose(s, o, a, b)
        \/ \E perm \in [1..rank -> 1..rank] : Permute(s, o, perm)

Next == calls < MaxCalls /\ calls' = calls + 1 /\ Call

Spec == Init /\ [][Next]_vars

-----------------------------------------------------------------------------
(* Properties.                                                             *)

\* However views are derived from views, the shape, strides and data pointer
\* of a tensor lead to the elements its caller means.
ViewsMeanTheirElements ==
    \A s \in Slots : Live(s) => \A idx \in Indices(tensor[s].dims) :
        Element(tensor[s], idx) = where[s][idx]

\* Every element a live tensor reaches is in its buffer, and within the extent
\* the tensor records, from an address of the alignment it records; its
\* contiguity flag is not stale (hbi_tensor_validate).
TensorsValid ==
    \A s \in Slots : Live(s) =>
        LET t == tensor[s]
        IN  /\ \A idx \in Indices(t.dims) : Element(t, idx) \in 0..(Len(buffer[BufferOf(t)]) - 1)
            /\ PackedBytes(t.dtype, Span(t.dims, t.strides)) <= t.nbytes
            /\ t.data[2] + t.nbytes <= PackedBytes(t.dtype, Len(buffer[BufferOf(t)]))
            /\ (skew[BufferOf(t)] + t.data[2]) % t.align = 0
            /\ t.contiguous = IsContiguous(t.strides, t.dims)

\* A live tensor's buffer is allocated, and has one owner at most; an owned
\* buffer is not lost.
OneOwner ==
    /\ \A s \in Slots : Live(s) => ~Free(BufferOf(tensor[s]))
    /\ \A s, o \in Slots : Owns(s) /\ Owns(o) /\ BufferOf(tensor[s]) = BufferOf(tensor[o]) => s = o
    /\ \A b \in Buffers : ~Free(b) => \E s \in Slots : Live(s) /\ BufferOf(tensor[s]) = b

\* After a clone or a copy the target has the values its source had, whichever
\* of the two copies by bytes or by strides was taken.
CopiesEqual == copied # NoCopy => Values(copied.slot) = copied.values

\* Through any derivation of views, copies and moves a tensor reaches the
\* elements meant, inside a buffer that is there and has one owner.
TensorsExact == ViewsMeanTheirElements /\ TensorsValid /\ OneOwner /\ CopiesEqual
=============================================================================
