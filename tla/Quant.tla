------------------------------- MODULE Quant -------------------------------
(***************************************************************************)
(* Decoding of stored numbers to binary32, src/quant/quant.c.  A binary32  *)
(* is the triple of its fields (its 32 bits do not fit TLC's integers).    *)
(* The decoders work on bits as the code does; what they should compute is *)
(* stated on values, as a mantissa times a power of two.                   *)
(***************************************************************************)
EXTENDS Integers, Sequences

CONSTANTS
    Halves,           \* the 16-bit codes decoded
    Bytes,            \* the bytes of packed 4-bit codes
    Exponents,        \* the scale bytes
    BlockElems        \* elements to a scale: 32 in the code

Float == [sign : {0, 1}, exp : 0..255, mant : 0..(2^23 - 1)]
F(s, e, m) == [sign |-> s, exp |-> e, mant |-> m]

-----------------------------------------------------------------------------
(* The decoders.                                                           *)

\* The loop that shifts a subnormal's mantissa up to bit 10.
Shifts(mant) == CHOOSE k \in 0..10 : mant * 2^k \in 1024..2047

HalfOf(sign, exp, mant) ==
    IF exp = 0
    THEN IF mant = 0 THEN F(sign, 0, 0)
         ELSE F(sign, 113 - Shifts(mant), ((mant * 2^Shifts(mant)) % 1024) * 2^13)
    ELSE IF exp = 31 THEN F(sign, 255, mant * 2^13)
         ELSE F(sign, exp - 15 + 127, mant * 2^13)

\* Mutant: a subnormal number is normalised one step too far.
HalfFlat(h) ==
    LET exp == (h \div 2^10) % 32  mant == h % 2^10
    IN  IF exp = 0 /\ mant # 0
        THEN F(h \div 2^15, 112 - Shifts(mant), ((mant * 2^Shifts(mant)) % 1024) * 2^13)
        ELSE HalfOf(h \div 2^15, exp, mant)

\* fp16_to_fp32.
Half(h) == HalfOf(h \div 2^15, (h \div 2^10) % 32, h % 2^10)

\* bf16_to_fp32: the upper half of the 32 bits.
Bfloat(b) == F(b \div 2^15, (b \div 2^7) % 256, (b % 2^7) * 2^16)

\* k_e2m1_lut, in halves, and the sign.
Magnitude == <<0, 1, 2, 3, 4, 6, 8, 12>>

\* e8m0_to_scale as the power of two it stands for; 0xFF is a scale of zero
\* and 0 has all bits clear.
ScaleIsZero(e) == e \in {0, 255}
ScalePower(e) == e - 127

\* The nibble of element i (from 0), low or high half first.
Nibble(src, i, highFirst) ==
    LET byte == src[(i \div 2) + 1]
    IN  IF (i % 2 = 1) # highFirst THEN byte \div 16 ELSE byte % 16

Block(i) == i \div BlockElems

\* dequant_mxfp4: element i as [sign, halves, power]; [halves |-> 0] for zero.
Element(src, scales, i, highFirst) ==
    LET nib == Nibble(src, i, highFirst)
        scale == scales[Block(i) + 1]
    IN  [sign |-> nib \div 8,
         halves |-> IF ScaleIsZero(scale) THEN 0 ELSE Magnitude[(nib % 8) + 1],
         power |-> IF ScaleIsZero(scale) THEN 0 ELSE ScalePower(scale)]

\* hbi_quant_mxfp4_validate on the number of scales.
ScalesNeeded(n) == (n + BlockElems - 1) \div BlockElems

-----------------------------------------------------------------------------
VARIABLES
    dtype,            \* the type of the request, "none" at first
    input,            \* its data
    status, output

vars == <<dtype, input, status, output>>

NoInput == [codes |-> <<>>, scales |-> <<>>, n |-> 0, highFirst |-> FALSE]

Init ==
    /\ dtype = "none"
    /\ input = NoInput
    /\ status = "OK"
    /\ output = <<>>

\* hbi_quant_dequantize_to_fp32 for the 16-bit types.
DequantizeHalf(type, h) ==
    /\ dtype' = type
    /\ input' = [NoInput EXCEPT !.codes = <<h>>, !.n = 1]
    /\ output' = <<IF type = "fp16" THEN Half(h) ELSE Bfloat(h)>>
    /\ status' = "OK"

\* ... and for MXFP4: the metadata is validated, then each element decoded.
DequantizeMxfp4(codes, scales, n, highFirst) ==
    /\ dtype' = "mxfp4"
    /\ input' = [codes |-> codes, scales |-> scales, n |-> n, highFirst |-> highFirst]
    /\ IF Len(scales) # ScalesNeeded(n)
       THEN status' = "CORRUPT" /\ output' = <<>>
       ELSE /\ status' = "OK"
            /\ output' = [i \in 1..n |-> Element(codes, scales, i - 1, highFirst)]

Next ==
    \/ /\ dtype = "none"
       /\ \E h \in Halves, type \in {"fp16", "bf16"} : DequantizeHalf(type, h)
    \/ /\ dtype = "none"
       /\ \E n \in 1..(2 * BlockElems), highFirst \in BOOLEAN :
              \E codes \in [1..((n + 1) \div 2) -> Bytes] :
                  \E k \in 1..2 : \E scales \in [1..k -> Exponents] :
                      DequantizeMxfp4(codes, scales, n, highFirst)

Spec == Init /\ [][Next]_vars

-----------------------------------------------------------------------------
\* a * 2^i = b * 2^j
SameValue(a, i, b, j) ==
    IF a = 0 \/ b = 0 THEN a = b
    ELSE IF i >= j THEN a * 2^(i - j) = b ELSE a = b * 2^(j - i)

(* A binary16 code decodes to a binary32 of the same value, sign and class *)
(* (zero, finite, infinite, not a number): every subnormal, whose mantissa *)
(* fp16_to_fp32 normalises in a loop, included.                            *)
HalfExact ==
    dtype = "fp16" =>
        LET h == input.codes[1]
            exp == (h \div 2^10) % 32
            mant == h % 2^10
            f == output[1]
        IN  /\ f \in Float
            /\ f.sign = h \div 2^15
            /\ (exp = 31) = (f.exp = 255)
            /\ exp = 31 => (mant = 0) = (f.mant = 0)
            /\ exp = 0 /\ mant = 0 => f.exp = 0 /\ f.mant = 0
            /\ exp < 31 /\ exp + mant > 0 =>
                  /\ f.exp \in 1..254
                  /\ SameValue(IF exp = 0 THEN mant ELSE 1024 + mant,
                               IF exp = 0 THEN -24 ELSE exp - 25,
                               2^23 + f.mant, f.exp - 150)

(* A bfloat16 decodes to the binary32 with its sign and exponent, and its  *)
(* seven mantissa bits on top.                                             *)
BfloatExact ==
    dtype = "bf16" =>
        LET b == input.codes[1]  f == output[1]
        IN  f \in Float /\ b = f.sign * 2^15 + f.exp * 2^7 + f.mant \div 2^16
                        /\ f.mant % 2^16 = 0

(* Packed 4-bit codes: element i is the i-th nibble of the stream in the   *)
(* order the metadata names, scaled by the scale of the block it lies in,  *)
(* and a wrong number of scales is refused before any is read.             *)
Mxfp4Exact ==
    dtype = "mxfp4" =>
        /\ (status = "OK") = (Len(input.scales) * BlockElems \in
                              input.n..(input.n + BlockElems - 1))
        /\ status = "OK" =>
             \A i \in 1..input.n :
                 LET high == IF input.highFirst THEN i % 2 = 1 ELSE i % 2 = 0
                     byte == input.codes[(i + 1) \div 2]
                     code == IF high THEN byte \div 16 ELSE byte % 16
                     block == CHOOSE b \in 1..Len(input.scales) :
                                  i \in ((b - 1) * BlockElems + 1)..(b * BlockElems)
                     scale == input.scales[block]
                     two == code % 8
                     \* 1 sign bit, 2 exponent bits of bias 1, 1 mantissa bit
                     halves == IF two < 2 THEN two
                               ELSE (2 + (two % 2)) * 2^((two \div 2) - 1)
                 IN  /\ output[i].sign = code \div 8
                     /\ scale \in 1..254 => /\ output[i].halves = halves
                                            /\ output[i].power = scale - 127

\* Every stored number is decoded to its value, subnormals, infinities and
\* the ends of the exponents included.
DecodesToValue == HalfExact /\ BfloatExact /\ Mxfp4Exact
=============================================================================
