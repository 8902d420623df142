------------------------------- MODULE Codec -------------------------------
(***************************************************************************)
(* The encodings of luwu/bytearray.cpp: fixed-width integers in either     *)
(* byte order, variable-length integers (groups of 7 bits, zigzag for      *)
(* signed values) and strings behind a length field.                       *)
(*                                                                         *)
(* Widths are parameters: the code has Width 32 and 64, Group 7, and       *)
(* length fields of 16, 32 and 64 bits.  A string is its length; its       *)
(* characters are the byte Char.                                           *)
(***************************************************************************)
EXTENDS Integers, Sequences

CONSTANTS
    Width,        \* bits of an integer
    Group,        \* payload bits of a varint byte; a byte has one more
    LengthBits,   \* bits of a string's length field
    Lengths       \* lengths of the strings that are written

ASSUME CodecAssumption ==
    /\ Width \in Nat \ {0} /\ Group \in Nat \ {0} /\ LengthBits \in Nat \ {0}
    /\ Lengths \subseteq Nat

Mod      == 2 ^ Width
ByteSize == 2 ^ (Group + 1)
Unsigned == 0..(Mod - 1)
Signed   == -(2 ^ (Width - 1))..(2 ^ (Width - 1) - 1)
Char     == 0

Items == [type : {"uint", "fix"}, val : Unsigned]
           \cup [type : {"int"}, val : Signed]
           \cup [type : {"string"}, val : Lengths]

----------------------------------------------------------------------------
(***************************************************************************)
(* Encoding.                                                               *)
(***************************************************************************)
\* Mutant: negative values are not made odd.
ZigzagEven(v) == IF v < 0 THEN ((-v) * 2) % Mod ELSE v * 2

\* EncodeZigzag32/64.  Negating the smallest value and doubling a large one
\* overflow; the build wraps around.
EncodeZigzag(v) == IF v < 0 THEN ((-v) * 2 - 1) % Mod ELSE (v * 2) % Mod

\* -(val & 1) is all ones or zero: the exclusive or complements or keeps.
DecodeZigzag(u) == IF u % 2 = 0 THEN u \div 2 ELSE -(u \div 2) - 1

\* The loop that ends at a value below the limit.
Groups(limit) ==
    LET f[u \in Nat] == IF u >= limit THEN <<(u % 2 ^ Group) + 2 ^ Group>> \o f[u \div 2 ^ Group]
                        ELSE <<u>>
    IN f

\* writeUint32/64 into tmp.
Varint(u) == Groups(2 ^ Group)[u]

\* writeFix...: the bytes of v, swapped when m_endian is not the host's order
\* (the host is little-endian; little: m_endian is LITTLE_ENDIAN).
Fix(little, v, bits) ==
    LET n == (bits + Group) \div (Group + 1) IN
    [k \in 1..n |-> (v \div ByteSize ^ (IF little THEN k - 1 ELSE n - k)) % ByteSize]

Encode(little, item) ==
    CASE item.type = "uint"   -> Varint(item.val)
      [] item.type = "int"    -> Varint(EncodeZigzag(item.val))
      [] item.type = "fix"    -> Fix(little, item.val, Width)
      [] item.type = "string" -> Fix(little, item.val % 2 ^ LengthBits, LengthBits)
                                   \o [k \in 1..item.val |-> Char]

----------------------------------------------------------------------------
(***************************************************************************)
(* Decoding from position p.                                               *)
(***************************************************************************)
\* How many bytes the loop of readUint32/64 consumes: up to the first byte
\* without the continuation bit, at most as many as its shifts fit the width.
MaxGroups == (Width + Group - 1) \div Group

VarintLen(bytes, p) ==
    CHOOSE k \in 1..MaxGroups :
        /\ k = MaxGroups \/ bytes[p + k] < 2 ^ Group
        /\ \A j \in 1..(k - 1) : bytes[p + j] >= 2 ^ Group

ReadVarint(bytes, p) ==
    LET value[k \in 0..MaxGroups] ==
          IF k = 0 THEN 0
          ELSE value[k - 1] + (bytes[p + k] % 2 ^ Group) * 2 ^ (Group * (k - 1))
    IN [val |-> value[VarintLen(bytes, p)] % Mod, len |-> VarintLen(bytes, p)]

ReadFix(little, bytes, p, bits) ==
    LET n == (bits + Group) \div (Group + 1)
        value[k \in 0..n] ==
          IF k = 0 THEN 0
          ELSE value[k - 1] + bytes[p + k] * ByteSize ^ (IF little THEN k - 1 ELSE n - k)
    IN [val |-> value[n] % 2 ^ bits, len |-> n]

Decode(little, bytes, type, p) ==
    CASE type = "uint"   -> ReadVarint(bytes, p)
      [] type = "int"    -> [ReadVarint(bytes, p) EXCEPT !.val = DecodeZigzag(@)]
      [] type = "fix"    -> ReadFix(little, bytes, p, Width)
      [] type = "string" -> LET field == ReadFix(little, bytes, p, LengthBits)
                            IN [val |-> field.val, len |-> field.len + field.val]

----------------------------------------------------------------------------
(***************************************************************************)
(* What the operators promise.                                             *)
(***************************************************************************)
\* A reader that knows the types of two items written one after the other gets
\* both back, ends at the end of the bytes, and no varint is longer than its
\* buffer.
ItemsComeBack ==
    \A little \in BOOLEAN, one \in Items, two \in Items :
        LET bytes  == Encode(little, one) \o Encode(little, two)
            first  == Decode(little, bytes, one.type, 0)
            second == Decode(little, bytes, two.type, first.len)
        IN /\ first.val = one.val /\ second.val = two.val
           /\ first.len + second.len = Len(bytes)
           /\ one.type \in {"uint", "int"} => first.len <= MaxGroups
=============================================================================
