------------------------------ MODULE KvContext ------------------------------
(***************************************************************************)
(* What a KV context of src/kv/kv.c holds: its token cursors, the shape of *)
(* its tensors and which of their cells carry the data of a token.  The    *)
(* contiguous allocator gives every context one page.                      *)
(*                                                                         *)
(* Two axes of the tensors matter: the one that counts tokens, at position *)
(* SeqAxis, and one other of size Outer (layers, heads or batch).  K and V *)
(* are treated alike and are one tensor here.  A cell is a pair            *)
(* <<outer, token>>.                                                       *)
(***************************************************************************)
EXTENDS Integers, FiniteSets

CONSTANTS
    Handles,
    Limits,         \* the values of max_tokens callers ask for
    Counts,         \* the num_tokens and retain_tokens callers pass
    Outer,          \* the size of the other axis
    SeqAxis,        \* 1: tokens are axis 0 (adapter_gpt_oss.c:1036);
                    \* 2: they are not (kv.h:44, generate.c:134, kv_test.c:241)
    Word,           \* 2^32: where a uint32_t wraps
    Operations      \* the optional operations callers use

ContextAssumption ==
    /\ Word \in Nat \ {0} /\ Outer \in Nat \ {0} /\ SeqAxis \in {1, 2}
    /\ Limits \subseteq 0..Word-1 /\ Counts \subseteq 0..Word-1
    /\ Operations \subseteq {"shrink", "grow", "clone"}

VARIABLE ctx        \* the open contexts: [Handles -> context or NoContext]

NoContext == [max_tokens |-> 0, total_tokens |-> 0, capacity |-> 0, num_tokens |-> 0,
              shape |-> <<0, 0>>, cells |-> {}, open |-> FALSE]

Open(h) == ctx[h].open
Rows(c) == c.shape[SeqAxis]
Lesser(x, y) == IF x < y THEN x ELSE y

\* The cells of the tokens a context holds.
Held(c) == {cell \in c.cells : cell[2] < c.num_tokens}

Init == ctx = [h \in Handles |-> NoContext]

-----------------------------------------------------------------------------
\* context_create, with the shape its callers pass: max_tokens on the token
\* axis.  The allocator's page has that capacity.
Fresh(max, shape) ==
    [max_tokens |-> max, total_tokens |-> 0, capacity |-> max, num_tokens |-> 0,
     shape |-> shape, cells |-> {}, open |-> TRUE]

Create(h, max) ==
    /\ ~Open(h)
    /\ ctx' = [ctx EXCEPT ![h] =
                 Fresh(max, IF SeqAxis = 1 THEN <<max, Outer>> ELSE <<Outer, max>>)]

Destroy(h) ==
    /\ Open(h)
    /\ ctx' = [ctx EXCEPT ![h] = NoContext]

Reset(h) ==
    /\ Open(h)
    /\ ctx' = [ctx EXCEPT ![h].total_tokens = 0, ![h].num_tokens = 0]

\* context_append_tokens: the sum and its test are in uint32_t; the page takes
\* what fits.
Append(h, n) ==
    /\ Open(h)
    /\ (ctx[h].total_tokens + n) % Word <= ctx[h].max_tokens
    /\ LET take == Lesser((ctx[h].capacity - ctx[h].num_tokens) % Word, n)
       IN  ctx' = [ctx EXCEPT ![h].num_tokens = (@ + take) % Word,
                              ![h].total_tokens = (@ + n) % Word]

\* The executor writes the embeddings of the tokens the page holds.
Write(h) ==
    /\ Open(h)
    /\ ctx' = [ctx EXCEPT ![h].cells =
                 @ \cup ((0..Outer-1) \X (0..Lesser(ctx[h].num_tokens, Rows(ctx[h])) - 1))]

Truncate(h, retain) ==
    /\ Open(h) /\ retain < ctx[h].total_tokens
    /\ ctx' = [ctx EXCEPT ![h].num_tokens = Lesser(@, retain), ![h].total_tokens = retain]

\* Mutant: the last token is not copied.
CopiedButLast(c, to) ==
    {{cell \in c.cells : cell[2] < c.num_tokens - 1}}

\* The cells that reach a new tensor of shape `to`: slices of the first
\* num_tokens entries of AXIS 0 on both sides, then copy_into, which wants
\* equal shapes.  Neither status is looked at.  When a slice fails, its
\* tensor is an uninitialised local: the copy does nothing or happens to work.
Copied(c, to) ==
    LET n == c.num_tokens
        sliced == n <= c.shape[1] /\ n <= to[1]
        first(cell) == IF SeqAxis = 1 THEN cell[2] ELSE cell[1]
    IN  IF n = 0 THEN {{}}
        ELSE IF ~sliced THEN {{}, c.cells}
        ELSE IF c.shape[2] # to[2] THEN {{}}
        ELSE {{cell \in c.cells : first(cell) < n}}

\* context_clone: a context of the source's max_tokens and shape.
Clone(src, dst) ==
    /\ "clone" \in Operations
    /\ Open(src) /\ ~Open(dst)
    /\ \E cells \in Copied(ctx[src], ctx[src].shape) :
          ctx' = [ctx EXCEPT ![dst] =
                    [Fresh(ctx[src].max_tokens, ctx[src].shape) EXCEPT
                        !.total_tokens = ctx[src].total_tokens,
                        !.num_tokens = ctx[src].num_tokens, !.cells = cells]]

\* context_resize to fewer tokens: only the cursors change.
Shrink(h, max) ==
    /\ "shrink" \in Operations
    /\ Open(h) /\ max < ctx[h].max_tokens
    /\ ctx' = [ctx EXCEPT ![h].max_tokens = max,
                          ![h].total_tokens = Lesser(@, max),
                          ![h].num_tokens = Lesser(@, max)]

\* context_resize to more: every dimension equal to the old max_tokens becomes
\* the new one, and the page is replaced.  A failed reallocation changes
\* nothing.
Grow(h, max) ==
    /\ "grow" \in Operations
    /\ Open(h) /\ max > ctx[h].max_tokens
    /\ LET c == ctx[h]
           to == [i \in 1..2 |-> IF c.shape[i] = c.max_tokens THEN max ELSE c.shape[i]]
       IN  \E cells \in Copied(c, to) :
             ctx' = [ctx EXCEPT ![h] =
                       [c EXCEPT !.max_tokens = max, !.capacity = max, !.shape = to,
                                 !.cells = cells]]

Next ==
    \E h \in Handles :
       \/ Destroy(h) \/ Reset(h) \/ Write(h)
       \/ \E max \in Limits : Create(h, max) \/ Shrink(h, max) \/ Grow(h, max)
       \/ \E n \in Counts : Append(h, n) \/ Truncate(h, n)
       \/ \E g \in Handles : Clone(h, g)

Spec == Init /\ [][Next]_ctx

-----------------------------------------------------------------------------
(* Properties.                                                             *)

UInt32 == 0..Word-1

TypeOK ==
    \A h \in Handles :
       /\ ctx[h].max_tokens \in UInt32 /\ ctx[h].total_tokens \in UInt32
       /\ ctx[h].capacity \in UInt32 /\ ctx[h].num_tokens \in UInt32
       /\ ctx[h].shape \in (Nat \X Nat)

\* The two cursors of a context agree and stay inside its limits, through any
\* sequence of appends, truncations, resizes and clones: total_tokens counts
\* the tokens in the page, which are at most max_tokens and fit the page.
CursorsAgree ==
    \A h \in Handles :
       LET c == ctx[h]
       IN  c.total_tokens = c.num_tokens /\ c.num_tokens <= c.max_tokens
           /\ c.max_tokens <= c.capacity

\* The tensors have a row for every token the page admits.  A shrink followed by
\* a growth breaks it: the shape no longer has the dimension the growth looks for.
HasRows(c) == c.capacity <= Rows(c)

\* Growing a context and cloning it keep what the tokens wrote, as long as the
\* tensors have rows for them: "Deep clone `src`" (kv.h:115), "attempts
\* reallocation/expansion" (kv.h:121).
KeepsData ==
    \A h \in Handles :
       /\ Open(h) /\ HasRows(ctx[h]) /\ ctx'[h].capacity > ctx[h].capacity
            => Held(ctx[h]) \subseteq ctx'[h].cells
       /\ ~Open(h) /\ ctx'[h].total_tokens > 0
            => \E s \in Handles : Open(s) /\ (HasRows(ctx[s]) => Held(ctx[s]) \subseteq ctx'[h].cells)
DataKept == [][KeepsData]_ctx

\* The cache of a sequence: its cursors agree, and its data outlives growths
\* and clones.
CacheKept == [](TypeOK /\ CursorsAgree) /\ DataKept
=============================================================================
