-------------------------------- MODULE Utf8 --------------------------------
(***************************************************************************)
(* The UTF-8 helpers of src/tokenizer/tokenizer.c, over bytes 0..255.  A   *)
(* mask of low bits is a remainder and a shift a quotient by a power of 2. *)
(***************************************************************************)
EXTENDS Integers, Sequences, SequencesExt

Surrogate(cp) == cp \in 55296..57343    \* 0xD800..0xDFFF
CodePointMax == 1114111                 \* 0x10FFFF

\* hbi_utf8_seq_len: 0 for a byte that leads no sequence
SeqLen(b) ==
    IF b < 128 THEN 1 ELSE IF b \in 192..223 THEN 2
    ELSE IF b \in 224..239 THEN 3 ELSE IF b \in 240..247 THEN 4 ELSE 0

\* The bits of the lead byte above, and of each byte after it.
LeadBits(b, len) == b % (<<128, 32, 16, 8>>[len])
CodePoint(s, len) ==
    FoldLeft(LAMBDA cp, b : cp * 64 + (b % 64), LeadBits(s[1], len), SubSeq(s, 2, len))

Rejected == [cp |-> 65533, len |-> 0]

\* hbi_utf8_decode: the first code point of a text and the bytes it takes.
\* An encoding longer than needed is rejected only below 0x80.
Decode(s) ==
    IF s = <<>> \/ SeqLen(s[1]) = 0 \/ SeqLen(s[1]) > Len(s) THEN Rejected
    ELSE LET len == SeqLen(s[1])
             cp == CodePoint(s, len)
         IN  IF \/ \E i \in 2..len : s[i] \notin 128..191
                \/ cp < 128 /\ len # 1
                \/ Surrogate(cp) \/ cp > CodePointMax
             THEN Rejected
             ELSE [cp |-> cp, len |-> len]

\* hbi_utf8_encode; <<>> for a number that is no scalar value
Encode(cp) ==
    IF cp > CodePointMax \/ Surrogate(cp) THEN <<>>
    ELSE IF cp < 128 THEN <<cp>>
    ELSE IF cp < 2048 THEN <<192 + cp \div 64, 128 + (cp % 64)>>
    ELSE IF cp < 65536
         THEN <<224 + cp \div 4096, 128 + ((cp \div 64) % 64), 128 + (cp % 64)>>
    ELSE <<240 + cp \div 262144, 128 + ((cp \div 4096) % 64), 128 + ((cp \div 64) % 64),
           128 + (cp % 64)>>

\* hbi_utf8_validate: the loop over the code points of a text
Validate(text) ==
    LET from[i \in 0..Len(text)] ==
            \/ i = Len(text)
            \/ LET d == Decode(SubSeq(text, i + 1, Len(text)))
               IN  d.len # 0 /\ from[i + d.len]
    IN  from[0]
=============================================================================
