----------------------------- MODULE MCByteArray -----------------------------
\* ByteArray for TLC: bytes of two payload bits, integers of five bits.
EXTENDS ByteArray

CONSTANT Lengths     \* lengths of the byte strings

\* One string for each length: distinct bytes show any that is misplaced.
Texts == {[i \in 1 .. n |-> i % Radix] : n \in Lengths}

\* The codec alone, for every integer of the width: what the typed reads rely on.
ASSUME CodecAssumption == EncodingsInvert

==============================================================================
