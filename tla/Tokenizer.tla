----------------------------- MODULE Tokenizer -----------------------------
(***************************************************************************)
(* src/tokenizer/tokenizer.c and tokenizer_mock.c: token sequences, the    *)
(* tokenizer manager and the byte-level tokenizer behind it.  A caller     *)
(* encodes texts into one sequence, in one call or in chunks that share a  *)
(* context, and decodes the sequence.  Any allocation may fail.  The call  *)
(* and time counters of the manager are left out.                          *)
(***************************************************************************)
EXTENDS Integers, Sequences, Utf8

CONSTANTS
    InputTexts,         \* sequences of bytes given to encode
    Batches,           \* tokens given to hbi_token_sequence_append_many
    InitialCap,         \* HBI_TOKEN_SEQ_INITIAL_CAP, 64 in the code
    OutCapacities,      \* of the buffers decode writes
    CodePoints,         \* numbers given to hbi_utf8_encode
    Offset,             \* MOCK_OFFSET
    MaxTokens           \* bound on the tokens of a sequence

Garbage == -1           \* what an array holds before it is written
None == <<>>

VARIABLES
    data, count,        \* the array and the length of the token sequence
    context,            \* an encode context is allocated
    call, text, index,  \* the encode under way, its text and loop variable
    status,
    decoded,            \* what the last call returned, when it was a decode
    written             \* history: the tokens given to the sequence since its last clear

vars == <<data, count, context, call, text, index, status, decoded, written>>

Capacity == Len(data)
Fresh(n) == [i \in 1..n |-> Garbage]

Init ==
    /\ data = Fresh(InitialCap) /\ count = 0
    /\ context = FALSE /\ call = "none" /\ text = None /\ index = 0
    /\ status = "OK"
    /\ decoded = None /\ written = None

-----------------------------------------------------------------------------
(* The token sequence.                                                     *)

\* token_sequence_grow: the capacity doubled until it holds the tokens
GrownCapacity(needed) ==
    LET doubled[k \in 0..needed] ==
            IF k = 0 THEN Capacity
            ELSE IF doubled[k - 1] < count + needed THEN 2 * doubled[k - 1] ELSE doubled[k - 1]
    IN  doubled[needed]

\* Mutant: the tokens are not carried over.
GrownFresh(needed) == Fresh(GrownCapacity(needed))

\* The array after hbi_realloc, which keeps its contents.
Grown(needed) == data \o Fresh(GrownCapacity(needed) - Capacity)

Fits(needed) == count + needed <= Capacity

\* A write past the array is lost: it lands in memory that is not the sequence's.
Put(array, tokens) ==
    [i \in 1..Len(array) |->
        IF i \in count + 1..count + Len(tokens) THEN tokens[i - count] ELSE array[i]]

\* hbi_token_sequence_append_many, and append for one token
Append1(tokens) ==
    /\ data' = Put(IF Fits(Len(tokens)) THEN data ELSE Grown(Len(tokens)), tokens)
    /\ count' = count + Len(tokens)
    /\ written' = written \o tokens

AppendMany(tokens) ==
    /\ call = "none" /\ count + Len(tokens) <= MaxTokens
    /\ \/ Append1(tokens) /\ status' = "OK"
       \/ ~Fits(Len(tokens)) /\ status' = "OOM" /\ UNCHANGED <<data, count, written>>
    /\ decoded' = None /\ UNCHANGED <<context, call, text, index>>

Clear ==
    /\ call = "none" /\ count > 0
    /\ count' = 0 /\ written' = None /\ status' = "OK"
    /\ decoded' = None /\ UNCHANGED <<data, context, call, text, index>>

-----------------------------------------------------------------------------
(* Encoding.                                                               *)

\* mock_encode's tokens: one per byte
TokenOf(byte) == byte + Offset

\* hbi_tokenizer_manager_encode: only a one-call encode validates its text
EncodeBegin(t) ==
    /\ call = "none" /\ count + Len(t) <= MaxTokens
    /\ IF Validate(t)
       THEN call' = "encode" /\ text' = t /\ index' = 0 /\ UNCHANGED status
       ELSE status' = "INVALID_ARG" /\ UNCHANGED <<call, text, index>>
    /\ decoded' = None /\ UNCHANGED <<data, count, context, written>>

\* hbi_tokenizer_manager_encode_incremental: the context of the first call
\* is kept for the next ones
ChunkBegin(t) ==
    /\ call = "none" /\ count + Len(t) <= MaxTokens
    /\ \/ /\ context' = TRUE /\ call' = "chunk" /\ text' = t /\ index' = 0
          /\ UNCHANGED status
       \/ /\ ~context /\ status' = "OOM"
          /\ UNCHANGED <<context, call, text, index>>
    /\ decoded' = None /\ UNCHANGED <<data, count, written>>

Return(st) == status' = st /\ call' = "none" /\ text' = None /\ index' = 0

\* One iteration of the loop over the bytes.  When the sequence cannot grow
\* the call fails; the tokens already appended stay.
EncodeByte ==
    /\ call # "none" /\ index < Len(text)
    /\ \/ /\ Append1(<<TokenOf(text[index + 1])>>)
          /\ index' = index + 1 /\ UNCHANGED <<call, text, status>>
       \/ /\ ~Fits(1) /\ Return("OOM")
          /\ UNCHANGED <<data, count, written>>
    /\ UNCHANGED <<context, decoded>>

EncodeEnd ==
    /\ call # "none" /\ index = Len(text)
    /\ Return("OK")
    /\ UNCHANGED <<data, count, context, decoded, written>>

\* hbi_tokenizer_manager_free_context
FreeContext ==
    /\ call = "none" /\ context
    /\ context' = FALSE
    /\ decoded' = None /\ UNCHANGED <<data, count, call, text, index, status, written>>

-----------------------------------------------------------------------------
(* Decoding.                                                               *)

Shown(token) == token \in Offset..Offset + 127
BytesOf(tokens) == [i \in 1..Len(tokens) |-> tokens[i] - Offset]

\* mock_decode: the shown tokens as bytes, until one is left for the NUL
DecodedText(tokens, capacity) ==
    LET shown == SelectSeq(tokens, Shown)
    IN  BytesOf(SubSeq(shown, 1, IF Len(shown) < capacity THEN Len(shown) ELSE capacity - 1))

\* hbi_tokenizer_manager_decode
Decoding(capacity) ==
    /\ call = "none"
    /\ IF capacity = 0
       THEN status' = "INVALID_ARG" /\ UNCHANGED decoded
       ELSE /\ decoded' = [text |-> DecodedText(SubSeq(data, 1, count), capacity),
                           room |-> capacity, of |-> written]
            /\ status' = "OK"
    /\ UNCHANGED <<data, count, context, call, text, index, written>>

Next ==
    \/ \E tokens \in Batches : AppendMany(tokens)
    \/ \E t \in InputTexts : EncodeBegin(t) \/ ChunkBegin(t)
    \/ \E capacity \in OutCapacities : Decoding(capacity)
    \/ Clear \/ EncodeByte \/ EncodeEnd \/ FreeContext

Spec == Init /\ [][Next]_vars

-----------------------------------------------------------------------------
\* The sequence holds what was appended since it was cleared, in order,
\* through growths of its array, failed growths and failed encodes.
SequenceExact == count <= Capacity /\ SubSeq(data, 1, count) = written

\* A failed or an ongoing encode has appended a prefix of the tokens of its
\* text, and a finished one all of them.
EncodesPrefix ==
    call # "none" =>
        \E before \in 0..Len(written) :
            SubSeq(written, before + 1, Len(written))
                = [i \in 1..index |-> TokenOf(text[i])]

\* Decoding returns the shown tokens in order, all of them when the buffer
\* has room for them and a NUL, else as many as leave room for the NUL.
DecodesWhatWasEncoded ==
    decoded # None =>
        LET bytes == BytesOf(SelectSeq(decoded.of, Shown))
        IN  /\ IsPrefix(decoded.text, bytes)
            /\ Len(decoded.text) < decoded.room
            /\ decoded.text # bytes => Len(decoded.text) = decoded.room - 1

\* A scalar value is encoded so that hbi_utf8_decode gives it back with the
\* bytes it took, whatever follows; cut short, or with one of its later
\* bytes replaced, it is rejected.  Surrogates and numbers beyond 0x10FFFF
\* have no encoding.
Utf8RoundTrip ==
    \A cp \in CodePoints :
        LET s == Encode(cp)
        IN  IF Surrogate(cp) \/ cp > CodePointMax THEN s = <<>>
            ELSE /\ \A tail \in {<<>>, <<65>>, <<128>>} :
                        Decode(s \o tail) = [cp |-> cp, len |-> Len(s)]
                 /\ \A n \in 0..Len(s) - 1 : Decode(SubSeq(s, 1, n)) = Rejected
                 /\ \A i \in 2..Len(s) : Decode([s EXCEPT ![i] = 65]) = Rejected

\* Text survives: into tokens, through growth and failure, and back.  The
\* coder has no state: what holds of it in the initial state holds always.
TextSurvives ==
    SequenceExact /\ EncodesPrefix /\ DecodesWhatWasEncoded /\ (Init => Utf8RoundTrip)
=============================================================================
