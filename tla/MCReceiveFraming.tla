-------------------------- MODULE MCReceiveFraming --------------------------
EXTENDS ReceiveFraming

\* One, two and three cells of payload; with three the packet has no room
\* left for the header.
MCMessages == {<<<<0>>>>, <<<<1>>, <<5>>>>, <<<<2>>, <<1, 3>>>>}
MCRandKeys == {4}

\* SimpleEncoder.h:30-64: Decode undoes Encode, for all keys.
ASSUME DecodeUndoesEncode ==
  \A data \in UNION {[1..n -> Bytes] : n \in 0..3}, k \in Bytes, rk \in Bytes :
    Decode(Encode(data, k, rk), k, rk) = data
=============================================================================
