-------------------------------- MODULE Codec --------------------------------
(***************************************************************************)
(* The integer encodings of sylar's ByteArray (bytearray.cc, endian.h) as  *)
(* pure operators.  A byte holds Group + 1 bits, seven of them payload in  *)
(* the code; an integer is w bits wide, 32 or 64 in the code.  Overflow    *)
(* wraps: the code is built for two's complement with -O0, where the       *)
(* signed overflow of -v and v * 2 does.                                   *)
(***************************************************************************)
EXTENDS Integers, Sequences, SequencesExt

CONSTANT Group      \* payload bits of a varint byte: 7 in the code

Radix == 2 ^ (Group + 1)
Byte == 0 .. Radix - 1

\* (uintW_t)v and back.
Unsigned(w, v) == v % 2 ^ w
Signed(w, u) == IF u >= 2 ^ (w - 1) THEN u - 2 ^ w ELSE u

EncodeZigzag(w, v) ==
    IF v < 0 THEN Unsigned(w, Unsigned(w, -v) * 2 - 1) ELSE Unsigned(w, v * 2)

\* (v >> 1) ^ -(v & 1): the exclusive or with all ones is the complement.
DecodeZigzag(w, u) ==
    IF u % 2 = 0 THEN u \div 2 ELSE Signed(w, (2 ^ w - 1) - u \div 2)

\* How many bytes writeUint32/64 needs, and its tmp array has, for w bits.
VarintMax(w) == (w + Group - 1) \div Group

\* writeUint32/64: low groups first, the top bit set in all but the last.
EncodeVarint(u) ==
    LET n == CHOOSE k \in 1 .. u + 1 :
                 u < 2 ^ (Group * k) /\ \A j \in 1 .. k - 1 : u >= 2 ^ (Group * j)
    IN  [i \in 1 .. n |-> ((u \div 2 ^ (Group * (i - 1))) % 2 ^ Group)
                          + (IF i < n THEN 2 ^ Group ELSE 0)]

\* What the loop of readUint32/64 makes of the bytes it has read; bits shifted
\* out of the result are lost.
DecodeVarint(w, bytes) ==
    Unsigned(w, FoldRight(LAMBDA b, acc : (b % 2 ^ Group) + 2 ^ Group * acc, bytes, 0))

\* bswap_16/32/64 on the bytes of a value in memory.
byteswap(bytes) == Reverse(bytes)

\* The n bytes of a value on the little-endian machines sylar is built for.
InMemory(n, v) == [i \in 1 .. n |-> (v \div Radix ^ (i - 1)) % Radix]

FromMemory(bytes) == FoldRight(LAMBDA b, acc : b + Radix * acc, bytes, 0)

==============================================================================
