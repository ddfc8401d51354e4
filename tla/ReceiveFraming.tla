--------------------------- MODULE ReceiveFraming ---------------------------
(***************************************************************************)
(* The receive half of a connection, of NetLib_Server and of NetLib_Client:*)
(* a peer builds messages with Packet, frames and obfuscates them as       *)
(* SendPacket does; the kernel writes the stream in pieces of any size into*)
(* the buffers of RecvPost; the completion handler cuts it into frames and *)
(* hands them to OnRecv, or to the ring of the session's content, whose    *)
(* thread reads it at the same time.                                       *)
(*                                                                         *)
(* A byte is a cell with ByteRange values; the length fields, two bytes in *)
(* the code, are one cell.  References are in SessionLifetime.             *)
(***************************************************************************)
EXTENDS RingBuffer, SimpleEncoder, Packet, FiniteSets

CONSTANTS Messages,        \* a message is the sequence of its values, a value a sequence of cells
          HeaderCode, FixedKey, RandKeys,
          ContentBufferSize,
          MaxRecvPostCnt,  \* max_recvPostCnt (10)
          MaxMessages,     \* frames the peer sends, over all connections
          MaxBroken        \* those of them that are no frames of ours

\* The content's ring has its own size, so that it can run full.
ContentRing == INSTANCE RingBuffer WITH BufferSize <- ContentBufferSize

NetHeaderSize == 4         \* Code, Len, RandKey, CheckSum
ContentHeaderSize == 1     \* ContentQueueHeader

ASSUME FramingAssumption ==
  /\ HeaderSize = NetHeaderSize
  /\ HeaderCode \in Bytes /\ FixedKey \in Bytes /\ RandKeys \subseteq Bytes
  /\ PayloadLenDefault < ByteRange - 1
  /\ PayloadLenDefault < BufferSize
  /\ ContentBufferSize \in Nat \ {0} /\ MaxRecvPostCnt \in Nat \ {0}

VARIABLES
  side,              \* whose handler this is: "server" or "client"
  content,           \* m_content # nullptr
  sent,              \* the messages the peer has sent on this connection, as they are to arrive
  budget, broken,    \* frames it may still send, and those sent that were broken
  peerClosed,
  wire,              \* bytes sent and not received
  recvBuffer,        \* m_recvBuffer
  contentBuffer,     \* m_recvrecvBuffer
  buffers,           \* the two spans of the posted receive: offset and length
  recv,              \* the receive: "pending", "done" or "none"
  transferred, cancelled,
  pc,                \* the worker: "wait", "parse", "payload", "post" or "stopped"
  payload,           \* the payload still to be put into contentBuffer
  recvPostCnt, requestDisconnect,
  pieces,            \* completions since the last frame was taken
  contentPc, bufferlen, header,
  delivered          \* what OnRecv has read

streamVars == <<sent, budget, broken, peerClosed>>
socketVars == <<buffers, recv, transferred, cancelled>>
handlerVars == <<pc, payload, recvPostCnt, requestDisconnect, pieces>>
contentVars == <<contentPc, bufferlen, header>>
vars == <<side, content, streamVars, wire, recvBuffer, contentBuffer, socketVars,
          handlerVars, contentVars, delivered>>

-----------------------------------------------------------------------------
\* The sending side.

EmptyHeader == [i \in 1..NetHeaderSize |-> 0]

\* What an application writes with operator << .
BuiltPacket(m) == FoldLeft(Insert, Alloc, m)

\* SendPacket: header, payload, check sum; the check sum and the payload are
\* obfuscated.  A payload that does not fit behind the header is dropped.
Frame(m, randKey) ==
  LET packet == PutData(NetAlloc(EmptyHeader), BuiltPacket(m).cells)
      body == GetPayload(packet)
  IN <<HeaderCode, GetPayloadSize(packet), randKey>>
       \o Encode(<<CalculateChecksum(body)>> \o body, FixedKey, randKey)

\* Frames with a wrong code, a length over the limit, or a wrong byte at the end.
\* A length between PayloadLenDefault - HeaderSize and the limit is not among
\* them: no SendPacket makes one, the test of the length lets it pass, and what
\* the code does then is undefined, as iobuf has no room behind the header.
BrokenFrames(frame) ==
  {[frame EXCEPT ![1] = (@ + 1) % ByteRange],
   [frame EXCEPT ![2] = ByteRange - 1],
   [frame EXCEPT ![Len(frame)] = (@ + 1) % ByteRange]}

\* The variable of a read that found no data: its value is not defined.
Unset == <<>>

\* What OnRecv reads with operator >> , value by value.
ReadValues(cells, m) ==
  FoldLeft(LAMBDA acc, value :
             [packet |-> Extract(acc.packet, Len(value)),
              values |-> Append(acc.values, Extracted(acc.packet, Len(value), Unset))],
           [packet |-> PutData(Alloc, cells), values |-> <<>>], m).values

\* The receiver reads the values of the message its type, the first one,
\* stands for; an empty payload has none.
Received(cells) ==
  LET of == {m \in Messages : m[1] = Extracted(PutData(Alloc, cells), 1, Unset)}
  IN IF of = {} THEN <<Unset>> ELSE ReadValues(cells, CHOOSE m \in of : TRUE)

\* A message as it arrives: one whose packet is too full for the header
\* arrives without its values.
Arriving(m) == IF Len(BuiltPacket(m).cells) + HeaderSize <= PayloadLenDefault THEN m ELSE <<Unset>>

Init ==
  /\ side \in {"server", "client"}
  /\ content = FALSE
  /\ sent = <<>> /\ budget = MaxMessages /\ broken = 0 /\ peerClosed = FALSE
  /\ wire = <<>>
  /\ recvBuffer = NewRing(0) /\ contentBuffer = ContentRing!NewRing(0)
  /\ buffers = <<<<0, BufferSize - 1>>, <<0, 0>>>>
  /\ recv = "pending" /\ transferred = 0 /\ cancelled = FALSE
  /\ pc = "wait" /\ payload = <<>> /\ recvPostCnt = 0 /\ requestDisconnect = FALSE
  /\ pieces = 0
  /\ contentPc = "idle" /\ bufferlen = 0 /\ header = 0
  /\ delivered = <<>>

Send ==
  /\ budget > 0 /\ ~peerClosed /\ pc # "stopped"
  /\ budget' = budget - 1
  /\ \E m \in Messages, k \in RandKeys :
       \/ /\ sent' = Append(sent, Arriving(m))
          /\ wire' = wire \o Frame(m, k)
          /\ UNCHANGED broken
       \/ /\ broken < MaxBroken
          /\ broken' = broken + 1
          /\ \E f \in BrokenFrames(Frame(m, k)) : wire' = wire \o f
          /\ UNCHANGED sent
  /\ UNCHANGED <<side, content, peerClosed, recvBuffer, contentBuffer, socketVars, handlerVars,
                 contentVars, delivered>>

PeerCloses ==
  /\ ~peerClosed
  /\ peerClosed' = TRUE
  /\ UNCHANGED <<side, content, sent, budget, broken, wire, recvBuffer, contentBuffer, socketVars,
                 handlerVars, contentVars, delivered>>

-----------------------------------------------------------------------------
\* The kernel.

\* The ring's cells with data written over the spans, one after the other.
Scattered(cells, spans, data) ==
  LET n == Lesser(Len(data), spans[1][2])
  IN Copied(Copied(cells, spans[1][1], SubSeq(data, 1, n)),
            spans[2][1], SubSeq(data, n + 1, Len(data)))

KernelReceives ==
  /\ recv = "pending"
  /\ \E n \in 1..Lesser(Len(wire), buffers[1][2] + buffers[2][2]) :
       /\ recvBuffer' = [recvBuffer EXCEPT !.cells = Scattered(@, buffers, SubSeq(wire, 1, n))]
       /\ wire' = SubSeq(wire, n + 1, Len(wire))
       /\ transferred' = n
  /\ recv' = "done"
  /\ UNCHANGED <<side, content, streamVars, contentBuffer, buffers, cancelled, handlerVars,
                 contentVars, delivered>>

\* Nothing is transferred: the receive was cancelled, or the peer has closed.
KernelEnds ==
  /\ recv = "pending"
  /\ cancelled \/ (peerClosed /\ wire = <<>>)
  /\ transferred' = 0
  /\ recv' = "done"
  /\ UNCHANGED <<side, content, streamVars, wire, recvBuffer, contentBuffer, buffers, cancelled,
                 handlerVars, contentVars, delivered>>

-----------------------------------------------------------------------------
\* The completion handler.

GetRecv ==
  /\ pc = "wait" /\ recv = "done"
  /\ recv' = "none" /\ transferred' = 0
  /\ IF transferred = 0
       THEN /\ pc' = "stopped"
            /\ UNCHANGED <<recvBuffer, pieces>>
       ELSE /\ pc' = "parse"
            /\ recvBuffer' = MoveRear(recvBuffer, transferred)
            /\ pieces' = Lesser(pieces + 1, MaxRecvPostCnt)
  /\ UNCHANGED <<side, content, streamVars, wire, contentBuffer, buffers, cancelled, payload,
                 recvPostCnt, requestDisconnect, contentVars, delivered>>

LenOf(r) == Peek(r, NetHeaderSize)[2]

\* Faulty variant: a frame that ends with the data counts as incomplete.
IncompleteAtEnd(r) ==
  GetUseSize(r) <= NetHeaderSize + (IF GetUseSize(r) < NetHeaderSize THEN 0 ELSE LenOf(r))

\* Neither a header nor, by its length, a frame is there yet.
Incomplete(r) ==
  GetUseSize(r) < NetHeaderSize + (IF GetUseSize(r) < NetHeaderSize THEN 0 ELSE LenOf(r))

WrongHeader(r) ==
  /\ GetUseSize(r) >= NetHeaderSize
  /\ \/ Peek(r, NetHeaderSize)[1] # HeaderCode
     \/ LenOf(r) > PayloadLenDefault

\* The check sum and the payload of the frame in front, decoded.
DecodedBody(r) ==
  LET h == Peek(r, NetHeaderSize)
      body == Peek(MoveFront(r, NetHeaderSize), h[2])
  IN Decode(<<h[4]>> \o body, FixedKey, h[3])

ChecksumHolds(body) == CalculateChecksum(Tail(body)) = Head(body)

WithoutFrame(r) == Dequeue(MoveFront(r, NetHeaderSize), LenOf(r))

\* Server only: at most MaxRecvPostCnt rounds of the loop without a frame.  The
\* model counts one further.
CountRound ==
  /\ pc = "parse" /\ side = "server"
  /\ recvPostCnt < MaxRecvPostCnt
  /\ recvPostCnt' = recvPostCnt + 1

TooManyReceives ==
  /\ pc = "parse" /\ side = "server"
  /\ recvPostCnt >= MaxRecvPostCnt
  /\ recvPostCnt' = MaxRecvPostCnt + 1
  /\ requestDisconnect' = TRUE
  /\ pc' = "post"
  /\ UNCHANGED <<side, content, streamVars, wire, recvBuffer, contentBuffer, socketVars, payload,
                 pieces, contentVars, delivered>>

\* The header stays in the buffer, and every later round finds it again.
RejectHeader ==
  /\ WrongHeader(recvBuffer)
  /\ requestDisconnect' = TRUE
  /\ pc' = "post"
  /\ UNCHANGED <<recvBuffer, contentBuffer, payload, pieces, delivered>>

AwaitMore ==
  /\ ~WrongHeader(recvBuffer) /\ Incomplete(recvBuffer)
  /\ pc' = "post"
  /\ UNCHANGED <<recvBuffer, contentBuffer, payload, requestDisconnect, pieces, delivered>>

\* The frame is gone: the next round goes on behind it.
RejectChecksum ==
  /\ ~WrongHeader(recvBuffer) /\ ~Incomplete(recvBuffer)
  /\ ~ChecksumHolds(DecodedBody(recvBuffer))
  /\ recvBuffer' = WithoutFrame(recvBuffer)
  /\ requestDisconnect' = TRUE
  /\ pc' = "post"
  /\ UNCHANGED <<contentBuffer, payload, pieces, delivered>>

TakeFrame ==
  /\ ~WrongHeader(recvBuffer) /\ ~Incomplete(recvBuffer)
  /\ ChecksumHolds(DecodedBody(recvBuffer))
  /\ recvBuffer' = WithoutFrame(recvBuffer)
  /\ pieces' = 0

OnRecv(body) == delivered' = Append(delivered, Received(body))

ServerRound ==
  /\ CountRound
  /\ RejectHeader \/ AwaitMore \/ RejectChecksum
  /\ UNCHANGED <<side, content, streamVars, wire, socketVars, contentVars>>

\* Faulty variant: the rounds are not counted anew.
DeliverFrameUncounted ==
  /\ pc = "parse" /\ side = "server" /\ ~content
  /\ recvPostCnt < MaxRecvPostCnt
  /\ TakeFrame
  /\ recvPostCnt' = recvPostCnt + 1
  /\ OnRecv(Tail(DecodedBody(recvBuffer)))
  /\ UNCHANGED <<side, content, streamVars, wire, contentBuffer, socketVars, pc, payload,
                 requestDisconnect, contentVars>>

DeliverFrame ==
  /\ pc = "parse" /\ side = "server" /\ ~content
  /\ recvPostCnt < MaxRecvPostCnt
  /\ TakeFrame
  /\ recvPostCnt' = 0
  /\ OnRecv(Tail(DecodedBody(recvBuffer)))
  /\ UNCHANGED <<side, content, streamVars, wire, contentBuffer, socketVars, pc, payload,
                 requestDisconnect, contentVars>>

\* What Enqueue returns: 0 also for data of no length.
Enqueued(r, data) == IF Len(data) > ContentRing!GetFreeSize(r) THEN 0 ELSE Len(data)

\* The session of a content: first the length goes into the content's ring.
QueueHeader ==
  /\ pc = "parse" /\ side = "server" /\ content
  /\ recvPostCnt < MaxRecvPostCnt
  /\ TakeFrame
  /\ recvPostCnt' = 0
  /\ payload' = Tail(DecodedBody(recvBuffer))
  /\ contentBuffer' = ContentRing!Enqueue(contentBuffer, <<Len(payload')>>)
  /\ IF Enqueued(contentBuffer, <<Len(payload')>>) = 0
       THEN pc' = "post" /\ requestDisconnect' = TRUE
       ELSE pc' = "payload" /\ UNCHANGED requestDisconnect
  /\ UNCHANGED <<side, content, streamVars, wire, socketVars, contentVars, delivered>>

QueuePayload ==
  /\ pc = "payload"
  /\ contentBuffer' = ContentRing!Enqueue(contentBuffer, payload)
  /\ payload' = <<>>
  /\ IF Enqueued(contentBuffer, payload) = 0
       THEN pc' = "post" /\ requestDisconnect' = TRUE
       ELSE pc' = "parse" /\ UNCHANGED requestDisconnect
  /\ UNCHANGED <<side, content, streamVars, wire, recvBuffer, socketVars, recvPostCnt, pieces,
                 contentVars, delivered>>

\* The client's handler counts no rounds and has no contents.
ClientRound ==
  /\ pc = "parse" /\ side = "client"
  /\ \/ RejectHeader \/ AwaitMore \/ RejectChecksum
     \/ /\ TakeFrame
        /\ OnRecv(Tail(DecodedBody(recvBuffer)))
        /\ UNCHANGED <<pc, payload, contentBuffer, requestDisconnect>>
  /\ UNCHANGED <<side, content, streamVars, wire, socketVars, recvPostCnt, contentVars>>

\* Faulty variant: both spans are counted up to the size of the ring.
RecvPostWhole ==
  /\ pc = "post"
  /\ LET direct == DirectEnqueueSize(recvBuffer)
         rest == BufferSize - GetUseSize(recvBuffer) - direct
     IN IF direct = 0 /\ rest = 0
          THEN /\ pc' = "stopped"
               /\ UNCHANGED <<buffers, recv, cancelled>>
          ELSE /\ pc' = "wait"
               /\ buffers' = <<<<recvBuffer.rear, direct>>, <<0, rest>>>>
               /\ recv' = "pending"
               /\ cancelled' = requestDisconnect
  /\ UNCHANGED <<side, content, streamVars, wire, recvBuffer, contentBuffer, transferred, payload,
                 recvPostCnt, requestDisconnect, pieces, contentVars, delivered>>

\* Two spans: behind rear, and before front; a full ring posts nothing and
\* ends the connection.  The handler then looks at requestDisconnect: its
\* CancelIoEx comes before the data or after it.
RecvPost ==
  /\ pc = "post"
  /\ LET direct == DirectEnqueueSize(recvBuffer)
         rest == GetFreeSize(recvBuffer) - direct
     IN IF direct = 0 /\ rest = 0
          THEN /\ pc' = "stopped"
               /\ UNCHANGED <<buffers, recv, cancelled>>
          ELSE /\ pc' = "wait"
               /\ buffers' = <<<<recvBuffer.rear, direct>>, <<0, rest>>>>
               /\ recv' = "pending"
               /\ cancelled' = requestDisconnect
  /\ UNCHANGED <<side, content, streamVars, wire, recvBuffer, contentBuffer, transferred, payload,
                 recvPostCnt, requestDisconnect, pieces, contentVars, delivered>>

-----------------------------------------------------------------------------
\* The session's content.

\* Move_Content of a session that has none.
MoveContent ==
  /\ side = "server" /\ ~content /\ pc # "stopped"
  /\ content' = TRUE
  /\ UNCHANGED <<side, streamVars, wire, recvBuffer, contentBuffer, socketVars, handlerVars,
                 contentVars, delivered>>

\* Update's loop: how much there is is read once; the length is looked at.
ContentReadSize ==
  /\ contentPc = "idle" /\ content /\ pc # "stopped"
  /\ ContentRing!GetUseSize(contentBuffer) >= ContentHeaderSize
  /\ bufferlen' = ContentRing!GetUseSize(contentBuffer)
  /\ contentPc' = "read"
  /\ UNCHANGED <<side, content, streamVars, wire, recvBuffer, contentBuffer, socketVars,
                 handlerVars, header, delivered>>

\* Faulty variant: the payload is taken whether it is there or not.
ContentReadUnchecked ==
  /\ contentPc = "read"
  /\ bufferlen' = 0
  /\ contentBuffer' = ContentRing!MoveFront(contentBuffer, ContentHeaderSize)
  /\ header' = ContentRing!Peek(contentBuffer, ContentHeaderSize)[1]
  /\ contentPc' = "take"
  /\ UNCHANGED <<side, content, streamVars, wire, recvBuffer, socketVars, handlerVars,
                 delivered>>

ContentReadHeader ==
  /\ contentPc = "read"
  /\ bufferlen' = 0
  /\ LET len == ContentRing!Peek(contentBuffer, ContentHeaderSize)[1]
     IN IF bufferlen < ContentHeaderSize + len
          THEN /\ contentPc' = "idle"
               /\ UNCHANGED <<contentBuffer, header>>
          ELSE /\ contentBuffer' = ContentRing!MoveFront(contentBuffer, ContentHeaderSize)
               /\ header' = len
               /\ contentPc' = "take"
  /\ UNCHANGED <<side, content, streamVars, wire, recvBuffer, socketVars, handlerVars,
                 delivered>>

ContentTake ==
  /\ contentPc = "take"
  /\ OnRecv(ContentRing!Peek(contentBuffer, header))
  /\ contentBuffer' = ContentRing!Dequeue(contentBuffer, header)
  /\ contentPc' = "idle" /\ header' = 0
  /\ UNCHANGED <<side, content, streamVars, wire, recvBuffer, socketVars, handlerVars, bufferlen>>

-----------------------------------------------------------------------------
\* The slot's next connection.  ReleaseSession clears the buffers as well.
Connect ==
  /\ pc = "stopped" /\ contentPc = "idle" /\ budget > 0
  /\ recvBuffer' = ClearBuffer(recvBuffer) /\ contentBuffer' = ContentRing!ClearBuffer(contentBuffer)
  /\ recvPostCnt' = 0 /\ requestDisconnect' = FALSE /\ content' = FALSE
  /\ pc' = "post" /\ pieces' = 0 /\ payload' = <<>>
  /\ sent' = <<>> /\ delivered' = <<>> /\ broken' = 0 /\ peerClosed' = FALSE /\ wire' = <<>>
  /\ cancelled' = FALSE
  /\ UNCHANGED <<side, budget, buffers, recv, transferred, contentVars>>

Handler == GetRecv \/ TooManyReceives \/ ServerRound \/ DeliverFrame \/ QueueHeader
             \/ QueuePayload \/ ClientRound \/ RecvPost
Content == ContentReadSize \/ ContentReadHeader \/ ContentTake
Kernel == KernelReceives \/ KernelEnds

Next == Send \/ PeerCloses \/ Kernel \/ Handler \/ MoveContent \/ Content \/ Connect

Spec == Init /\ [][Next]_vars

HandlerReady == pc \in {"parse", "payload", "post"} \/ (pc = "wait" /\ recv = "done")
ContentReady == contentPc # "idle" \/ (content /\ pc # "stopped" /\ ContentRing!GetUseSize(contentBuffer) >= 1)

\* Data that was sent is received, workers and the content's updates run.
FairSpec ==
  /\ Spec
  /\ WF_recv(Kernel)
  /\ []<>(~HandlerReady) \/ []<><<Handler>>_vars
  /\ []<>(~ContentReady) \/ []<><<Content>>_vars

-----------------------------------------------------------------------------
\* NetLib_Server.cpp:138-158, NetLib_Content.cpp:61-77: until the connection
\* is asked to close, OnRecv reads from the packets, in order, the values the
\* peer wrote, through framing, obfuscation, both rings and their wraps, and
\* whatever the sizes of the pieces; the handler's buffers carry nothing over
\* from the slot's last connection.
Stream == INSTANCE MessageStream
  WITH Message <- Messages \cup {<<Unset>>},
       closing <- requestDisconnect \/ broken > 0
StreamSpec == Stream!Spec

\* Session.h:170-183, RingBuffer.cpp:55-72: the kernel writes into cells that
\* hold nothing unread, and MoveRear accepts all it wrote.
KernelFits ==
  recv = "pending" =>
    /\ buffers[1][2] + buffers[2][2] <= GetFreeSize(recvBuffer)
    /\ buffers[1][1] = recvBuffer.rear /\ buffers[1][1] + buffers[1][2] <= BufferSize
    /\ buffers[2][2] > 0 => buffers[2][1] = (buffers[1][1] + buffers[1][2]) % BufferSize

\* NetLib_Server.cpp:76-134: a peer whose frames are right, and do not come in
\* more pieces than max_recvPostCnt, is not disconnected by the handler.
WellBehavedIsKept ==
  (requestDisconnect \/ (pc = "stopped" /\ ~peerClosed)) =>
    broken > 0 \/ (side = "server" /\ (content \/ pieces >= MaxRecvPostCnt))

\* NetLib_Server.cpp:57-176: whatever was sent is read, unless the connection
\* is disconnected; nothing waits for a message that may never be sent.
EveryMessageArrives ==
  \A i \in 1..MaxMessages :
    (Len(sent) >= i) ~> (Len(delivered) >= i \/ requestDisconnect \/ broken > 0 \/ pc = "stopped")
=============================================================================
