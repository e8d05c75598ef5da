------------------------------ MODULE TarChecksum ------------------------------
(***************************************************************************)
(* tar_header_checksum_valid.  A header carries the sum of its bytes, with *)
(* the bytes of the checksum field itself counted as blanks.  Some writers *)
(* have summed the bytes as signed numbers, so both sums are accepted.     *)
(* The header is summed byte by byte; before that one byte of it may have  *)
(* been changed on the way.                                                *)
(***************************************************************************)
EXTENDS Integers, Sequences

CONSTANTS
    Headers,   \* the headers considered: sequences of bytes without the field
    FieldLen   \* length of the checksum field, 8 in the code

Byte == 0..255
Blank == 32

HeadersAssumption == Headers \subseteq Seq(Byte)
FieldLenAssumption == FieldLen \in Nat

VARIABLES
    original,       \* the header as it was written
    header,         \* the header as it is read
    expected,       \* the number in its checksum field
    i,              \* bytes summed so far
    sum_unsigned,
    sum_signed,
    pc              \* "transit", "sum", "true" or "false"

vars == <<original, header, expected, i, sum_unsigned, sum_signed, pc>>

Signed(b) == IF b < 128 THEN b ELSE b - 256

\* What a writer of either kind puts in the checksum field.
Sums(h, read) ==
    LET upto[k \in 0..Len(h)] == IF k = 0 THEN FieldLen * Blank ELSE upto[k - 1] + read[h[k]]
    IN  upto
SumOf(h, read) == Sums(h, read)[Len(h)]
AsUnsigned == [b \in Byte |-> b]
AsSigned == [b \in Byte |-> Signed(b)]
Written(h) == {SumOf(h, AsUnsigned), SumOf(h, AsSigned)} \cap Nat

TypeOK ==
    /\ original \in Headers
    /\ Len(header) = Len(original) /\ \A k \in 1..Len(header) : header[k] \in Byte
    /\ expected \in Nat
    /\ i \in 0..Len(header)
    /\ sum_unsigned \in Nat /\ sum_signed \in Int
    /\ sum_signed <= sum_unsigned /\ (sum_unsigned - sum_signed) % 256 = 0
    /\ pc \in {"transit", "sum", "true", "false"}

Init ==
    /\ original \in Headers
    /\ header = original
    /\ expected \in Written(original)
    /\ i = 0
    /\ sum_unsigned = FieldLen * Blank /\ sum_signed = FieldLen * Blank
    /\ pc = "transit"

\* At most one byte is changed before the header is read.
Transit ==
    /\ pc = "transit"
    /\ pc' = "sum"
    /\ \/ UNCHANGED header
       \/ \E k \in 1..Len(header), b \in Byte : header' = [header EXCEPT ![k] = b]
    /\ UNCHANGED <<original, expected, i, sum_unsigned, sum_signed>>

Add(b) ==
    /\ sum_unsigned' = sum_unsigned + b
    /\ sum_signed' = sum_signed + Signed(b)

SumByte ==
    /\ pc = "sum"
    /\ i < Len(header)
    /\ i' = i + 1
    /\ Add(header[i + 1])
    /\ UNCHANGED <<original, header, expected, pc>>

Agrees == expected = sum_unsigned \/ (sum_signed >= 0 /\ expected = sum_signed)

Compare ==
    /\ pc = "sum"
    /\ i = Len(header)
    /\ pc' = IF Agrees THEN "true" ELSE "false"
    /\ UNCHANGED <<original, header, expected, i, sum_unsigned, sum_signed>>

Next == Transit \/ SumByte \/ Compare

Spec == Init /\ [][Next]_vars

-----------------------------------------------------------------------------
\* Accepting two ways of summing does not let a changed byte through: a header
\* is accepted if and only if it is the one that was written.
OneChangedByteIsFound ==
    /\ pc = "true" => header = original
    /\ pc = "false" => header # original
=============================================================================
