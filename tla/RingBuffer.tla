----------------------------- MODULE RingBuffer -----------------------------
(***************************************************************************)
(* src/Utils/RingBuffer: the byte ring a session receives into, and the    *)
(* one its content reads from.  One byte stays free, so that front = rear  *)
(* means empty.  A ring is a record of its cells and the offsets mFront    *)
(* and mRear from mBuffer; every operator is the ring after the call.      *)
(***************************************************************************)
EXTENDS Integers, Sequences

CONSTANT BufferSize      \* mBufferSize (2048 in Session)

ASSUME RingAssumption == BufferSize \in Nat \ {0}

Offsets == 0..(BufferSize - 1)

Rings(Cell) == [cells : [Offsets -> Cell], front : Offsets, rear : Offsets]

NewRing(cell) == [cells |-> [o \in Offsets |-> cell], front |-> 0, rear |-> 0]

GetUseSize(r) ==
  IF r.front > r.rear THEN (BufferSize - r.front) + r.rear ELSE r.rear - r.front

GetFreeSize(r) == BufferSize - GetUseSize(r) - 1

\* What can be written behind rear without going round.
DirectEnqueueSize(r) ==
  IF r.rear >= r.front
    THEN IF r.front = 0 THEN BufferSize - r.rear - 1 ELSE BufferSize - r.rear
    ELSE r.front - r.rear - 1

\* What can be read from front without going round.
DirectDequeueSize(r) ==
  IF r.front > r.rear THEN BufferSize - r.front ELSE r.rear - r.front

\* memcpy of the sequence data to the offset at.
Copied(cells, at, data) ==
  [o \in Offsets |-> IF o \in at..(at + Len(data) - 1) THEN data[o - at + 1] ELSE cells[o]]

\* The offset after size bytes, of which direct fit before the end.
Advance(from, size, direct) ==
  IF size <= direct THEN (from + size) % BufferSize ELSE (size - direct) % BufferSize

\* All or nothing: data that does not fit is not written.
Enqueue(r, data) ==
  LET direct == DirectEnqueueSize(r)
  IN IF Len(data) > GetFreeSize(r) THEN r
     ELSE [cells |-> IF Len(data) <= direct THEN Copied(r.cells, r.rear, data)
                     ELSE Copied(Copied(r.cells, r.rear, SubSeq(data, 1, direct)),
                                 0, SubSeq(data, direct + 1, Len(data))),
           front |-> r.front,
           rear |-> Advance(r.rear, Len(data), direct)]

Lesser(a, b) == IF a > b THEN b ELSE a

\* The bytes Peek and Dequeue copy out: as many of n as there are.
Peek(r, n) ==
  LET direct == DirectDequeueSize(r)
  IN [k \in 1..Lesser(n, GetUseSize(r)) |->
        IF k <= direct THEN r.cells[r.front + k - 1] ELSE r.cells[k - direct - 1]]

MoveFront(r, n) ==
  [r EXCEPT !.front = Advance(r.front, Lesser(n, GetUseSize(r)), DirectDequeueSize(r))]

\* The ring after Dequeue, which reads what Peek reads.
Dequeue(r, n) ==
  [r EXCEPT !.front = Advance(r.front, Lesser(n, GetUseSize(r)), DirectDequeueSize(r))]

\* For bytes the kernel wrote behind rear; none if there is no room for them.
MoveRear(r, n) ==
  IF n > GetFreeSize(r) THEN r
  ELSE [r EXCEPT !.rear = Advance(r.rear, n, DirectEnqueueSize(r))]

ClearBuffer(r) == [r EXCEPT !.front = 0, !.rear = 0]
=============================================================================
