-------------------------------- MODULE Arena --------------------------------
(***************************************************************************)
(* The arena allocator of src/memory: one backing block and a bump cursor. *)
(* Every cell of the backing block holds the client's value that was last  *)
(* written there, so that slices that overlap, or a copy that misses the   *)
(* old contents, show in the data.  Addresses are Word-sized integers and  *)
(* wrap, the backing block lies anywhere the platform may put it.          *)
(***************************************************************************)
EXTENDS Naturals, FiniteSets

CONSTANTS
    Capacity,       \* bytes of the backing block
    Bases,          \* addresses of the backing block
    Natural,        \* HBI_MEM_NATURAL_ALIGN
    Sizes,          \* the sizes requested
    Alignments,     \* the alignments requested: 0 and any number
    Word,           \* size_t and uintptr_t count modulo this
    MaxSlices       \* bound: slices handed out, each the value of its bytes

ArenaAssumption ==
    /\ Capacity \in Nat \ {0} /\ Word \in Nat /\ MaxSlices \in Nat
    /\ \A base \in Bases : base \in Nat /\ base % Natural = 0 /\ base + Capacity < Word

VARIABLES
    base,           \* the address of the backing block
    offset, last_offset,
    slices,         \* slices the client holds: the value of its bytes -> [at, size, align]
    cells,          \* offset -> the value written there, 0 for none
    next            \* the next value

vars == <<base, offset, last_offset, slices, cells, next>>

Init ==
    /\ base \in Bases
    /\ offset = 0 /\ last_offset = 0
    /\ slices = <<>> /\ next = 1
    /\ cells = [i \in 0..Capacity - 1 |-> 0]

IsPow2(n) == \E k \in 0..n : n = 2^k
NormalizeAlignment(alignment) == IF alignment = 0 THEN Natural ELSE alignment

\* hbi_align_up: 0 when the rounded address wraps.
AlignUp(x, align) ==
    LET rounded == (((x + align - 1) % Word) \div align) * align
    IN  IF rounded < x THEN 0 ELSE rounded

Slice(at, size, align) == [at |-> at, size |-> size, align |-> align]
Span(s) == s.at..s.at + s.size - 1

\* arena_alloc: the slice it would hand out, if any.  The absolute address is
\* aligned, a size of 0 is 1, and both sums may wrap.
Carve(size, alignment) ==
    LET align == NormalizeAlignment(alignment)
        n == IF size = 0 THEN 1 ELSE size
        cur == (base + offset) % Word
        aligned == AlignUp(cur, align)
        start == (aligned + Word - base) % Word
        end == (start + n) % Word
    IN  IF ~IsPow2(align) \/ (aligned = 0 /\ cur # 0) \/ end < start \/ end > Capacity
        THEN {} ELSE {Slice(start, n, align)}

\* The client fills what it was given: cells of the span take the value v.
Filled(contents, s, v) == [i \in DOMAIN contents |-> IF i \in Span(s) THEN v ELSE contents[i]]
Without(v) == [w \in DOMAIN slices \ {v} |-> slices[w]]
With(held, v, s) == [w \in DOMAIN held \cup {v} |-> IF w = v THEN s ELSE held[w]]

Alloc(size, alignment) ==
    /\ next <= MaxSlices
    /\ \E s \in Carve(size, alignment) :
          /\ last_offset' = s.at /\ offset' = s.at + s.size
          /\ slices' = With(slices, next, s)
          /\ cells' = Filled(cells, s, next)
    /\ next' = next + 1
    /\ UNCHANGED base

\* arena_realloc of the last slice, in place, larger or smaller.  It keeps the
\* alignment the slice has, whatever alignment the call asks for.
GrowsInPlace(v, size) == slices[v].at = last_offset /\ last_offset + size <= Capacity

ReallocInPlace(v, size) ==
    /\ v \in DOMAIN slices /\ size > 0
    /\ GrowsInPlace(v, size)
    /\ offset' = last_offset + size
    /\ LET s == [slices[v] EXCEPT !.size = size]
       IN  /\ slices' = [slices EXCEPT ![v] = s]
           /\ cells' = [i \in DOMAIN cells |->
                          IF i \in Span(s) \ Span(slices[v]) THEN v ELSE cells[i]]
    /\ UNCHANGED <<base, last_offset, next>>

\* Mutant: the copy stops one byte early.
CopiedShort(old, fresh, size) ==
    LET avail == fresh.at + fresh.size - old.at
        copy == (IF size < avail THEN size ELSE avail) - 1
    IN  [i \in DOMAIN cells |->
            IF i \in fresh.at..fresh.at + copy - 1 THEN cells[old.at + (i - fresh.at)] ELSE cells[i]]

\* The memcpy into the fresh slice: bounded by what lies between the old slice
\* and the cursor, which the carving has already moved.
Copied(old, fresh, size) ==
    LET avail == fresh.at + fresh.size - old.at
        copy == IF size < avail THEN size ELSE avail
    IN  [i \in DOMAIN cells |->
            IF i \in fresh.at..fresh.at + copy - 1 THEN cells[old.at + (i - fresh.at)] ELSE cells[i]]

\* arena_realloc of another slice, or one that does not fit in place: a fresh
\* slice and a copy.  The client then fills what the copy did not give it.
ReallocCopy(v, size, alignment) ==
    /\ v \in DOMAIN slices /\ size > 0
    /\ ~GrowsInPlace(v, size)
    /\ \E s \in Carve(size, alignment) :
          LET old == slices[v]
              kept == Slice(s.at, IF size < old.size THEN size ELSE old.size, s.align)
              copied == Copied(old, s, size)
          IN  /\ last_offset' = s.at /\ offset' = s.at + s.size
              /\ slices' = [slices EXCEPT ![v] = s]
              /\ cells' = [i \in DOMAIN cells |->
                             IF i \in Span(s) \ Span(kept) THEN v ELSE copied[i]]
    /\ UNCHANGED <<base, next>>

\* arena_free, and realloc to 0 bytes, change nothing: the client lets go.
Free(v) ==
    /\ v \in DOMAIN slices
    /\ slices' = Without(v)
    /\ UNCHANGED <<base, offset, last_offset, cells, next>>

\* hbi_arena_reset: every pointer becomes invalid.
Reset ==
    /\ offset # 0
    /\ offset' = 0 /\ last_offset' = 0
    /\ slices' = <<>>
    /\ UNCHANGED <<base, cells, next>>

Next ==
    \/ \E size \in Sizes, a \in Alignments : Alloc(size, a)
    \/ \E v \in 1..MaxSlices, size \in Sizes :
          ReallocInPlace(v, size) \/ \E a \in Alignments : ReallocCopy(v, size, a)
    \/ \E v \in 1..MaxSlices : Free(v)
    \/ Reset

Spec == Init /\ [][Next]_vars

-----------------------------------------------------------------------------
(* Properties.                                                             *)

TypeOK ==
    /\ base \in Bases /\ next \in 1..MaxSlices + 1
    /\ offset \in 0..Capacity /\ last_offset \in 0..Capacity
    /\ DOMAIN slices \subseteq 1..MaxSlices

\* Every slice the client holds still has the bytes the client put there: no
\* other slice was carved over it, and a reallocation, in place or copied, in
\* the middle of the arena or after a shrink, kept the old contents.
ContentsKept == \A v \in DOMAIN slices : \A i \in Span(slices[v]) : cells[i] = v

\* The address of a slice has the alignment it was asked for, wherever the
\* platform put the backing block ("Align the ABSOLUTE address, not just the
\* offset", memory.c:404).
AddressAligned == \A v \in DOMAIN slices : (base + slices[v].at) % slices[v].align = 0

\* A client's slices are its own and as it asked for them until the reset.
SlicesKept == TypeOK /\ ContentsKept /\ AddressAligned
=============================================================================
