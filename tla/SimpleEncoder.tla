--------------------------- MODULE SimpleEncoder ---------------------------
(***************************************************************************)
(* src/Utils/SimpleEncoder.h: the obfuscation of the check sum and the     *)
(* payload of a frame with a fixed key and the random key of its header,   *)
(* and the check sum.  Bytes have ByteRange values (256 in the code).      *)
(***************************************************************************)
EXTENDS Integers, Sequences, SequencesExt, Bitwise

CONSTANT ByteRange

ASSUME ByteAssumption == ByteRange \in Nat \ {0}

Bytes == 0..(ByteRange - 1)

\* In Encode and Decode the first element has no predecessor: entry 0 is 0,
\* which gives the code's key + 1 for it.
Encode(original, fixedKey, randomKey) ==
  LET p[i \in 0..Len(original)] ==
        IF i = 0 THEN 0 ELSE original[i] ^^ ((p[i - 1] + randomKey + i) % ByteRange)
      encoded[i \in 0..Len(original)] ==
        IF i = 0 THEN 0 ELSE p[i] ^^ ((encoded[i - 1] + fixedKey + i) % ByteRange)
  IN [i \in 1..Len(original) |-> encoded[i]]

Decode(encoded, fixedKey, randomKey) ==
  LET p == [i \in 0..Len(encoded) |->
              IF i = 0 THEN 0
              ELSE encoded[i] ^^ (((IF i = 1 THEN 0 ELSE encoded[i - 1]) + fixedKey + i) % ByteRange)]
  IN [i \in 1..Len(encoded) |-> p[i] ^^ ((p[i - 1] + randomKey + i) % ByteRange)]

CalculateChecksum(buf) == FoldLeft(LAMBDA sum, byte : sum + byte, 0, buf) % ByteRange
=============================================================================
