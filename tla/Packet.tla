------------------------------- MODULE Packet -------------------------------
(***************************************************************************)
(* src/IOCPNetLib/Packet: the serialisation buffer.  A packet is the cells *)
(* written up to mRear and the number of them read (mFront); mDataSize is  *)
(* the difference.  Neither a write without room nor a read without data   *)
(* reports anything.  Its reference count is in SendPath.                  *)
(***************************************************************************)
EXTENDS Integers, Sequences

CONSTANTS PayloadLenDefault,   \* PAYLOAD_LEN_DEFAULT: size of the buffer (1400)
          HeaderSize           \* sizeof(NetHeader)

ASSUME PacketAssumption ==
  PayloadLenDefault \in Nat /\ HeaderSize \in Nat /\ HeaderSize <= PayloadLenDefault

GetDataSize(packet) == Len(packet.cells) - packet.front

\* operator <<: the value's cells behind mRear, or nothing.
Insert(packet, value) ==
  IF PayloadLenDefault < Len(packet.cells) + Len(value) THEN packet
  ELSE [packet EXCEPT !.cells = @ \o value]

PutData(packet, src) ==
  IF GetDataSize(packet) + Len(src) > PayloadLenDefault THEN packet
  ELSE [packet EXCEPT !.cells = @ \o src]

\* operator >> : the next n cells; without them the variable keeps its value.
Extracted(packet, n, old) ==
  IF GetDataSize(packet) < n THEN old ELSE SubSeq(packet.cells, packet.front + 1, packet.front + n)

Extract(packet, n) ==
  IF GetDataSize(packet) < n THEN packet ELSE [packet EXCEPT !.front = @ + n]

Alloc == [cells |-> <<>>, front |-> 0]

\* A packet to be sent starts with room for the header.
NetAlloc(emptyHeader) == PutData(Alloc, emptyHeader)

GetPayload(packet) == SubSeq(packet.cells, HeaderSize + 1, Len(packet.cells))

GetPayloadSize(packet) == GetDataSize(packet) - HeaderSize
=============================================================================
