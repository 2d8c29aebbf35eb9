-------------------------------- MODULE Json --------------------------------
(***************************************************************************)
(* src/json/json.c: a recursive-descent parser that builds a tree of       *)
(* separate allocations, any of which may fail, and frees the partial tree *)
(* on every error path.  The input is read one symbol at a time: a         *)
(* punctuation mark, a string (a sequence of pieces between two quotes), a *)
(* scalar, or a character no value starts with; white space is left out.   *)
(* The C call stack is the sequence of containers being parsed.            *)
(***************************************************************************)
EXTENDS Integers, Sequences, SequencesExt

CONSTANTS
    Strings,        \* the strings of inputs: sequences of pieces
    MaxSymbols,     \* bound on the length of an input
    MaxDepth,       \* HBI_JSON_MAX_DEPTH, 64 in the code
    InitialItems    \* the first capacity of a container, 8 in the code

U == INSTANCE Utf8

VARIABLES
    text,       \* the symbols consumed
    ahead,      \* the symbol peeked at: drawn when the one before is consumed
    stack,      \* the containers being parsed, innermost last
    mode,       \* what the innermost call does next
    value,      \* the value just parsed; meaningful in mode "parsed"
    depth,      \* p->depth
    live,       \* allocations not freed
    result

vars == <<text, ahead, stack, mode, value, depth, live, result>>

None == <<>>

Mark(m) == [mark |-> m, string |-> None]
StringSymbol(s) == [mark |-> "string", string |-> s]
End == Mark("end")
Symbols ==
    {Mark(m) : m \in {"[", "]", "{", "}", ",", ":", "scalar", "?"}}
        \cup {StringSymbol(s) : s \in Strings}

Init ==
    /\ text = <<>> /\ ahead \in Symbols
    /\ stack = <<>> /\ mode = "value" /\ value = None /\ depth = 0 /\ live = 0
    /\ result = None

\* p->pos++: the symbol after the next one comes into view
Consume ==
    /\ text' = Append(text, ahead)
    /\ ahead' \in IF Len(text) + 1 < MaxSymbols
                  THEN Symbols \cup {End} ELSE {End}

-----------------------------------------------------------------------------
(* Strings.  A piece is a \u escape (its number), a plain character, an    *)
(* escape such as \n, a malformed escape or a control character.           *)

Plain == -1
Escape == -2
Malformed == -3
Control == -4

HighSurrogate(p) == p \in 55296..56319
LowSurrogate(p) == p \in 56320..57343
Numeric(p) == p >= 0
Paired(high, low) == 65536 + (high - 55296) * 1024 + (low - 56320)

\* The pieces parse_string_raw stops at with an error.
Bad(pieces, i) ==
    \/ pieces[i] \in {Malformed, Control}
    \/ /\ Numeric(pieces[i])
       /\ \/ HighSurrogate(pieces[i])
             /\ ~(i < Len(pieces) /\ Numeric(pieces[i + 1]) /\ LowSurrogate(pieces[i + 1]))
          \/ LowSurrogate(pieces[i])
             /\ ~(i > 1 /\ Numeric(pieces[i - 1]) /\ HighSurrogate(pieces[i - 1]))

WellFormed(pieces) == \A i \in DOMAIN pieces : ~Bad(pieces, i)

\* The bytes a piece adds: utf8_emit writes a pair at its second half.
BytesOfPiece(pieces, i) ==
    IF ~Numeric(pieces[i]) THEN <<65>>
    ELSE IF HighSurrogate(pieces[i]) THEN <<>>
    ELSE IF LowSurrogate(pieces[i]) THEN U!Encode(Paired(pieces[i - 1], pieces[i]))
    ELSE U!Encode(pieces[i])

Decoded(pieces) ==
    FlattenSeq([i \in DOMAIN pieces |-> BytesOfPiece(pieces, i)])

RawLength(pieces) ==
    FoldLeft(LAMBDA n, p : n + (IF Numeric(p) THEN 6 ELSE IF p = Escape THEN 2 ELSE 1),
             0, pieces)

-----------------------------------------------------------------------------
(* The tree and its allocations.                                           *)

Scalar == [kind |-> "scalar"]
StringValue(s) == [kind |-> "string", string |-> s]

RECURSIVE Freed(_)
\* What hbi_json_free frees: the node; a string's characters; the items of
\* a container and its array of items, when it has one; the keys.
Freed(v) ==
    LET items == IF v.kind \in {"array", "object"} THEN v.items ELSE <<>>
        inner == FoldLeft(LAMBDA n, item : n + Freed(item), 0, items)
    IN  CASE v.kind = "scalar" -> 1
          [] v.kind = "string" -> 2
          [] v.kind = "array" -> 1 + inner + (IF v.capacity > 0 THEN 1 ELSE 0)
          [] v.kind = "object" -> 1 + inner + Len(items) + (IF v.capacity > 0 THEN 1 ELSE 0)

Container(kind, capacity) ==
    [kind |-> kind, items |-> <<>>, keys |-> <<>>, capacity |-> capacity, key |-> None]

Top == Last(stack)
Below == Front(stack)

\* The error return of the innermost call, which has freed n allocations;
\* the callers then unwind.
Fail(n) ==
    /\ mode' = "unwind" /\ live' = live - n /\ value' = None
    /\ UNCHANGED <<stack, depth, result>>

Parsed(v, allocated) ==
    /\ mode' = "parsed" /\ value' = v /\ live' = live + allocated
    /\ UNCHANGED <<stack, depth, result>>

-----------------------------------------------------------------------------
(* parse_value.                                                            *)

TooDeep == depth >= MaxDepth

ValueError ==
    /\ mode = "value"
    /\ TooDeep \/ ahead.mark \in {"end", "]", "}", ",", ":", "?"}
    /\ Fail(0) /\ UNCHANGED <<text, ahead>>

\* parse_number and parse_literal
ScalarValue ==
    /\ mode = "value" /\ ~TooDeep /\ ahead.mark = "scalar"
    /\ Consume
    /\ Parsed(Scalar, 1) \/ Fail(0)

\* parse_string_raw and its node.  The buffer is freed when the string is
\* not well formed and when the node cannot be allocated.
StringValueStep ==
    /\ mode = "value" /\ ~TooDeep /\ ahead.mark = "string"
    /\ Consume
    /\ \/ WellFormed(ahead.string) /\ Parsed(StringValue(ahead.string), 2)
       \/ Fail(0)

\* The start of parse_array and parse_object, up to the first item.  The
\* closing mark of an empty container is looked at in the next step.
Open ==
    /\ mode = "value" /\ ~TooDeep /\ ahead.mark \in {"[", "{"}
    /\ Consume
    /\ depth' = depth + 1
    /\ LET kind == IF ahead.mark = "[" THEN "array" ELSE "object" IN
       \/ /\ mode' = "opened" /\ live' = live + 1
          /\ stack' = Append(stack, Container(kind, 0))
       \/ /\ mode' = "unwind" /\ live' = live
          /\ stack' = Append(stack, [Container(kind, 0) EXCEPT !.kind = "none"])
    /\ UNCHANGED <<value, result>>

Closing(kind) == IF kind = "array" THEN "]" ELSE "}"

\* p->depth-- and the return of a finished container
Close(v) ==
    /\ stack' = Below /\ depth' = depth - 1
    /\ mode' = "parsed" /\ value' = v
    /\ UNCHANGED <<live, result>>

EmptyContainer ==
    /\ mode = "opened" /\ ahead.mark = Closing(Top.kind)
    /\ Consume
    /\ Close(Top)

\* The first array of items; without it the node is freed.
Reserve ==
    /\ mode = "opened" /\ ahead.mark # Closing(Top.kind)
    /\ \/ /\ stack' = Append(Below, [Top EXCEPT !.capacity = InitialItems])
          /\ mode' = (IF Top.kind = "array" THEN "value" ELSE "key")
          /\ live' = live + 1
       \/ /\ stack' = Append(Below, [Top EXCEPT !.kind = "none"])
          /\ mode' = "unwind" /\ live' = live - 1
    /\ UNCHANGED <<text, ahead, value, depth, result>>

-----------------------------------------------------------------------------
(* The members of an object.                                               *)

KeyError == mode = "key" /\ ahead.mark # "string" /\ Fail(0) /\ UNCHANGED <<text, ahead>>

Key ==
    /\ mode = "key" /\ ahead.mark = "string"
    /\ Consume
    /\ \/ /\ WellFormed(ahead.string)
          /\ stack' = Append(Below, [Top EXCEPT !.key = <<ahead.string>>])
          /\ mode' = "colon" /\ live' = live + 1
          /\ UNCHANGED <<value, depth, result>>
       \/ Fail(0)

Colon ==
    /\ mode = "colon" /\ ahead.mark = ":"
    /\ Consume
    /\ mode' = "value" /\ UNCHANGED <<stack, value, depth, live, result>>

ColonError == mode = "colon" /\ ahead.mark # ":" /\ Fail(0) /\ UNCHANGED <<text, ahead>>

-----------------------------------------------------------------------------
(* After a value.                                                          *)

\* The container with the value in it, its array doubled when it is full.
Added(v) ==
    [Top EXCEPT !.items = Append(@, v),
                !.keys = @ \o Top.key, !.key = None,
                !.capacity = IF Len(Top.items) = @ THEN 2 * @ ELSE @]

Add ==
    /\ mode = "parsed" /\ stack # <<>>
    /\ \/ /\ stack' = Append(Below, Added(value)) /\ mode' = "added"
          /\ value' = None /\ UNCHANGED <<depth, live, result>>
       \/ /\ Len(Top.items) = Top.capacity /\ Fail(Freed(value))
    /\ UNCHANGED <<text, ahead>>

More ==
    /\ mode = "added" /\ ahead.mark = ","
    /\ Consume
    /\ mode' = (IF Top.kind = "array" THEN "value" ELSE "key")
    /\ UNCHANGED <<stack, value, depth, live, result>>

Finish ==
    /\ mode = "added" /\ ahead.mark = Closing(Top.kind)
    /\ Consume
    /\ Close(Top)

MoreError ==
    /\ mode = "added" /\ ahead.mark \notin {",", Closing(Top.kind)}
    /\ Fail(0) /\ UNCHANGED <<text, ahead>>

\* A caller of a failed parse_value frees its pending key and its container.
Unwind ==
    /\ mode = "unwind" /\ stack # <<>>
    /\ live' = live - (IF Top.kind = "none" THEN 0 ELSE Len(Top.key) + Freed(Top))
    /\ stack' = Below /\ depth' = depth - 1
    /\ UNCHANGED <<text, ahead, mode, value, result>>

\* Mutant: what follows the value is not looked at.
ReturnEarly ==
    /\ stack = <<>> /\ mode \in {"parsed", "unwind"}
    /\ IF mode = "parsed"
       THEN result' = [status |-> "OK", root |-> value]
       ELSE result' = [status |-> "ERROR", root |-> None]
    /\ mode' = "returned" /\ value' = None
    /\ UNCHANGED <<text, ahead, stack, depth, live>>

\* The end of hbi_json_parse
Return ==
    /\ stack = <<>> /\ mode \in {"parsed", "unwind"}
    /\ IF mode = "parsed" /\ ahead = End
       THEN result' = [status |-> "OK", root |-> value] /\ live' = live
       ELSE /\ result' = [status |-> "ERROR", root |-> None]
            /\ live' = IF mode = "parsed" THEN live - Freed(value) ELSE live
    /\ mode' = "returned" /\ value' = None
    /\ UNCHANGED <<text, ahead, stack, depth>>

\* hbi_json_free by the caller of a successful parse
FreeRoot ==
    /\ mode = "returned" /\ result # None /\ result.status = "OK"
    /\ live' = live - Freed(result.root)
    /\ mode' = "freed"
    /\ UNCHANGED <<text, ahead, stack, value, depth, result>>

Next ==
    \/ ValueError \/ ScalarValue \/ StringValueStep \/ Open \/ EmptyContainer \/ Reserve
    \/ KeyError \/ Key \/ Colon \/ ColonError
    \/ Add \/ More \/ Finish \/ MoreError \/ Unwind \/ Return \/ FreeRoot

Spec == Init /\ [][Next]_vars

-----------------------------------------------------------------------------
RECURSIVE Written(_)
\* The symbols of a tree.
Written(v) ==
    CASE v.kind = "scalar" -> <<Mark("scalar")>>
      [] v.kind = "string" -> <<StringSymbol(v.string)>>
      [] v.kind \in {"array", "object"} ->
            LET item(i) == IF v.kind = "array" THEN Written(v.items[i])
                           ELSE <<StringSymbol(v.keys[i]), Mark(":")>> \o Written(v.items[i])
                joined == [i \in DOMAIN v.items |->
                              IF i = 1 THEN item(i) ELSE <<Mark(",")>> \o item(i)]
            IN  <<Mark(IF v.kind = "array" THEN "[" ELSE "{")>> \o FlattenSeq(joined)
                   \o <<Mark(Closing(v.kind))>>

\* A parse that succeeds built the tree of exactly its input: no symbol is
\* skipped, repeated, left over or read past the end of a container, at any
\* nesting.
TreeIsInput ==
    mode = "returned" /\ result.status = "OK" => Written(result.root) = text /\ ahead = End

\* Whatever the error, and whichever allocation fails, a parse that fails
\* leaves nothing allocated, and freeing the tree of one that succeeds
\* frees everything.
NothingLeaks ==
    /\ live >= 0
    /\ mode = "returned" /\ result.status = "ERROR" => live = 0
    /\ mode = "freed" => live = 0

\* The containers being parsed are never nested beyond the limit, and the
\* depth is that of the stack again after every return.
DepthBounded == depth = Len(stack) /\ Len(stack) <= MaxDepth

\* The characters of a string fit the buffer sized from its raw length
\* before it is decoded, and are well-formed UTF-8 whatever it escapes.
StringsDecode ==
    \A s \in Strings : WellFormed(s) =>
        Len(Decoded(s)) <= RawLength(s) /\ U!Validate(Decoded(s))

\* A parse is exact, within its limit, and leaves nothing behind.
ParseExact == TreeIsInput /\ StringsDecode /\ DepthBounded /\ NothingLeaks
=============================================================================
