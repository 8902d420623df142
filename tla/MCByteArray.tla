----------------------------- MODULE MCByteArray -----------------------------
(***************************************************************************)
(* Model-checking instance of ByteArray, and of the encodings it stores.   *)
(***************************************************************************)
EXTENDS ByteArray, Codec, TLC

\* Byte values are interchangeable.
Symmetry == Permutations(Bytes)

\* A buffer nobody has written to, which is where the items begin.
Untouched == text = <<>> /\ mem = [c \in Cells |-> Junk]

\* What is read is what was written: a reader that knows the types of two items
\* written one after the other gets both back and ends at the end of the bytes
\* (tests/test_bytearray.cpp:18 and 35).  And writeUint32 and writeUint64 never
\* write past uint8_t tmp[5] and tmp[10], which have room for just the groups of
\* the largest value.
RoundTrip == Untouched => ItemsComeBack
=============================================================================
