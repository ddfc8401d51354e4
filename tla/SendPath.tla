------------------------------ MODULE SendPath ------------------------------
(***************************************************************************)
(* How NetLib_Server sends: SendPacket and SendPacketMulticast put packets *)
(* into the lock-free queue of a session and, through the flag IsSending,  *)
(* see to it that exactly one worker at a time takes them out again, hands *)
(* them to WSASend and waits for its completion. A packet counts its       *)
(* references and goes back to the packet pool with the last of them.      *)
(*                                                                         *)
(* Steps are the interlocked operations on IsSending, m_size, the queue    *)
(* and the calls of the kernel. FindSession, and a decrement of IOCount    *)
(* with the ReleaseSession it may cause, are single steps here: module     *)
(* SessionLifetime has their interleavings and proves that whoever found a *)
(* session owns it. A sent byte count is "sent" (everything) or "zero" (a  *)
(* reset or cancelled send).                                               *)
(***************************************************************************)
EXTENDS Integers, Sequences, FiniteSets

CONSTANTS
    Slots,              \* the indexes of m_sessions
    NoSlot,
    Workers,            \* the threads of m_threadPool
    Senders,            \* the threads that call SendPacket[Multicast]
    SendPacketCount,    \* SEND_PACKET_COUNT, the packets of one WSASend
    MaxOfSendPackets,   \* m_opt_maxOfSendPackets
    MaxPackets,         \* bound: packets allocated during a behaviour
    MaxConnections      \* bound: connections during a behaviour

Threads == Workers \cup Senders
Packets == 1..MaxPackets
NoPacket == 0

ASSUME SendThreadsAssumption ==
    /\ IsFiniteSet(Threads) /\ IsFiniteSet(Slots)
    /\ Workers \cap Senders = {} /\ NoSlot \notin Slots

ASSUME SendBoundsAssumption ==
    /\ SendPacketCount \in Nat \ {0} /\ MaxOfSendPackets \in Nat
    /\ MaxPackets \in Nat /\ MaxConnections \in Nat

VARIABLES
    state,          \* "free" (released or never used), "live", "closing"
    id,             \* the id in Session::SessionHandle
    refs,           \* the references in IOCount
    receiving,      \* does the receive still hold its reference?
    isSending,      \* Session::IsSending
    queue,          \* the linked nodes of m_sendBuffer
    size,           \* m_size of m_sendBuffer
    sendPackets,    \* m_sendPackets[0 .. m_sendPacketCount - 1]
    inFlight,       \* the batches WSASend has accepted and not completed
    posted,         \* completions for the session waiting in the IOCP
    refCount,       \* Packet::refCount
    freed,          \* how often Packet::Free was called for the packet
    to,             \* the handles the packet was sent to
    nextPacket,     \* the packets NetAlloc has handed out
    delivered,      \* what the peer of the present connection has received
    pc, slot,       \* where a thread is, and the session it works on
    todo,           \* the handles a sender's call has still to serve
    packet,         \* the packet of a sender's call
    handle,         \* the handle it is serving
    batch,          \* the local "packets" of a worker in SendPost
    owes            \* the Decrement_IOCounts its handler ends with

lifeVars    == <<state, id, refs, receiving>>
bufferVars  == <<isSending, queue, size, sendPackets>>
ioVars      == <<inFlight, posted, delivered>>
packetVars  == <<refCount, freed, to, nextPacket>>
callVars    == <<todo, packet, handle>>
workVars    == <<batch, owes>>
vars == <<lifeVars, bufferVars, ioVars, packetVars, pc, slot, callVars, workVars>>

-----------------------------------------------------------------------------
Count(seq, p) == Cardinality({i \in DOMAIN seq : seq[i] = p})

\* refCount of every packet of seq is decremented; at 0 it is freed.
Dropped(seq) ==
    /\ refCount' = [p \in Packets |-> refCount[p] - Count(seq, p)]
    /\ freed' = [p \in Packets |->
          IF Count(seq, p) > 0 /\ refCount[p] - Count(seq, p) = 0
          THEN freed[p] + 1 ELSE freed[p]]

\* ClearSendPackets (m_sendPacketCount becomes 0), and with it ClearSendBuffer,
\* which dequeues until m_size says the queue is empty.
Emptied(s) ==
    LET n == Cardinality({i \in DOMAIN queue[s] : i <= size[s]}) IN
    /\ Dropped(sendPackets[s] \o SubSeq(queue[s], 1, n))
    /\ sendPackets' = [sendPackets EXCEPT ![s] = <<>>]
    /\ queue' = [queue EXCEPT ![s] = SubSeq(@, n + 1, Len(@))]
    /\ size' = [size EXCEPT ![s] = @ - n]

Post(s, kind) == posted' = [posted EXCEPT ![s][kind] = @ + 1]
Taken(s, kind) == posted' = [posted EXCEPT ![s][kind] = @ - 1]

Step(t, from, target) == pc[t] = from /\ pc' = [pc EXCEPT ![t] = target]

Found(h) == state[h[1]] = "live" /\ id[h[1]] = h[2]

\* The handles the application has been given, stale ones included.
Handles == {h \in Slots \X (1..MaxConnections) : h[2] <= id[h[1]]}

Init ==
    /\ state = [s \in Slots |-> "free"]
    /\ id = [s \in Slots |-> 0]
    /\ refs = [s \in Slots |-> 0]
    /\ receiving = [s \in Slots |-> FALSE]
    /\ isSending = [s \in Slots |-> FALSE]
    /\ queue = [s \in Slots |-> <<>>]
    /\ size = [s \in Slots |-> 0]
    /\ sendPackets = [s \in Slots |-> <<>>]
    /\ inFlight = [s \in Slots |-> <<>>]
    /\ posted = [s \in Slots |-> [k \in {"sendpost", "sent", "zero", "check"} |-> 0]]
    /\ delivered = [s \in Slots |-> <<>>]
    /\ refCount = [p \in Packets |-> 0]
    /\ freed = [p \in Packets |-> 0]
    /\ to = [p \in Packets |-> {}]
    /\ nextPacket = 1
    /\ pc = [t \in Threads |-> "idle"]
    /\ slot = [t \in Threads |-> NoSlot]
    /\ todo = [c \in Senders |-> {}]
    /\ packet = [c \in Senders |-> NoPacket]
    /\ handle = [c \in Senders |-> <<NoSlot, 0>>]
    /\ batch = [w \in Workers |-> <<>>]
    /\ owes = [w \in Workers |-> 0]

\* Session::Connect by the accept thread, with the first receive.
Connect(s) ==
    /\ state[s] = "free"
    /\ Cardinality(Handles) < MaxConnections
    /\ state' = [state EXCEPT ![s] = "live"]
    /\ id' = [id EXCEPT ![s] = @ + 1]
    /\ refs' = [refs EXCEPT ![s] = 1]
    /\ receiving' = [receiving EXCEPT ![s] = TRUE]
    /\ isSending' = [isSending EXCEPT ![s] = FALSE]
    /\ Emptied(s)
    /\ delivered' = [delivered EXCEPT ![s] = <<>>]
    /\ UNCHANGED <<inFlight, posted, to, nextPacket, pc, slot, callVars, workVars>>

-----------------------------------------------------------------------------
(* The sending threads.                                                    *)

\* Bound: a call is made only if a packet is left for it.
Room == nextPacket + Cardinality({c \in Senders : pc[c] # "idle" /\ packet[c] = NoPacket})
        <= MaxPackets

\* NetAlloc: a packet with n references for the handles hs.
Allocate(c, n, hs) ==
    /\ packet' = [packet EXCEPT ![c] = nextPacket]
    /\ refCount' = [refCount EXCEPT ![nextPacket] = n]
    /\ to' = [to EXCEPT ![nextPacket] = hs]
    /\ nextPacket' = nextPacket + 1

SendPacket(c, h) ==
    /\ Room
    /\ Step(c, "idle", "find")
    /\ todo' = [todo EXCEPT ![c] = {h}]
    /\ UNCHANGED <<lifeVars, bufferVars, ioVars, packetVars, slot, packet,
                   handle, workVars>>

\* Faulty variant: one reference for all the handles of a multicast.
MulticastOneReference(c, hs) ==
    /\ Room
    /\ Step(c, "idle", "find")
    /\ todo' = [todo EXCEPT ![c] = hs]
    /\ Allocate(c, 1, hs)
    /\ UNCHANGED <<lifeVars, bufferVars, ioVars, freed, slot, handle, workVars>>

\* SendPacketMulticast: all the references are taken before the first enqueue.
SendPacketMulticast(c, hs) ==
    /\ Room
    /\ Step(c, "idle", "find")
    /\ todo' = [todo EXCEPT ![c] = hs]
    /\ Allocate(c, Cardinality(hs), hs)
    /\ UNCHANGED <<lifeVars, bufferVars, ioVars, freed, slot, handle, workVars>>

\* The call is done with one handle: the next one, or it returns.
Served(c, from) ==
    /\ Step(c, from, IF todo'[c] = {} THEN "idle" ELSE "find")
    /\ slot' = [slot EXCEPT ![c] = NoSlot]
    /\ handle' = [handle EXCEPT ![c] = <<NoSlot, 0>>]
    /\ packet' = IF todo'[c] = {} THEN [packet EXCEPT ![c] = NoPacket] ELSE packet

\* A multicast gives up the reference of a handle it could not serve.
GiveUp(c) ==
    IF packet[c] = NoPacket THEN UNCHANGED <<refCount, freed>>
                            ELSE Dropped(<<packet[c]>>)

\* Faulty variant: the slot is taken for the session of the handle.
FindSessionBySlot(c, h) ==
    /\ h \in todo[c]
    /\ todo' = [todo EXCEPT ![c] = @ \ {h}]
    /\ state[h[1]] = "live"
    /\ Step(c, "find", "size")
    /\ refs' = [refs EXCEPT ![h[1]] = @ + 1]
    /\ slot' = [slot EXCEPT ![c] = h[1]]
    /\ handle' = [handle EXCEPT ![c] = h]
    /\ UNCHANGED <<state, id, receiving, bufferVars, ioVars, packetVars, packet,
                   workVars>>

FindSession(c, h) ==
    /\ h \in todo[c]
    /\ todo' = [todo EXCEPT ![c] = @ \ {h}]
    /\ IF Found(h)
       THEN /\ Step(c, "find", "size")
            /\ refs' = [refs EXCEPT ![h[1]] = @ + 1]
            /\ slot' = [slot EXCEPT ![c] = h[1]]
            /\ handle' = [handle EXCEPT ![c] = h]
            /\ UNCHANGED <<refCount, freed, packet>>
       ELSE /\ Served(c, "find")
            /\ GiveUp(c)
            /\ UNCHANGED refs
    /\ UNCHANGED <<state, id, receiving, bufferVars, ioVars, to, nextPacket,
                   workVars>>

\* A queue over its limit disconnects the session; SendPacket allocates only
\* now.
CheckSize(c) ==
    /\ pc[c] = "size"
    /\ IF size[slot[c]] > MaxOfSendPackets
       THEN /\ Step(c, "size", "full")
            /\ UNCHANGED <<refCount, to, nextPacket, packet>>
       ELSE /\ Step(c, "size", "link")
            /\ IF packet[c] = NoPacket
               THEN Allocate(c, 1, {handle[c]})
               ELSE UNCHANGED <<refCount, to, nextPacket, packet>>
    /\ UNCHANGED <<lifeVars, bufferVars, ioVars, freed, slot, todo, handle, workVars>>

\* Enqueue: the node is linked, and counted in m_size by a later step.
EnqueueLink(c) ==
    /\ Step(c, "link", "count")
    /\ queue' = [queue EXCEPT ![slot[c]] = Append(@, packet[c])]
    /\ UNCHANGED <<lifeVars, isSending, size, sendPackets, ioVars, packetVars,
                   slot, callVars, workVars>>

EnqueueCount(c) ==
    /\ Step(c, "count", "trypost")
    /\ size' = [size EXCEPT ![slot[c]] = @ + 1]
    /\ UNCHANGED <<lifeVars, isSending, queue, sendPackets, ioVars, packetVars,
                   slot, callVars, workVars>>

\* Faulty variant: the posted send has no reference of its own.
TrySendPostUncounted(c) ==
    /\ Step(c, "trypost", "return")
    /\ IF isSending[slot[c]]
       THEN UNCHANGED <<isSending, posted>>
       ELSE /\ isSending' = [isSending EXCEPT ![slot[c]] = TRUE]
            /\ Post(slot[c], "sendpost")
    /\ UNCHANGED <<lifeVars, queue, size, sendPackets, inFlight, delivered,
                   packetVars, slot, callVars, workVars>>

\* Increment_IOCount and TrySendPost: the one who sets IsSending posts the
\* send, which keeps the reference; the others give theirs back.
TrySendPost(c) ==
    /\ Step(c, "trypost", "return")
    /\ IF isSending[slot[c]]
       THEN UNCHANGED <<isSending, refs, posted>>
       ELSE /\ isSending' = [isSending EXCEPT ![slot[c]] = TRUE]
            /\ refs' = [refs EXCEPT ![slot[c]] = @ + 1]
            /\ Post(slot[c], "sendpost")
    /\ UNCHANGED <<state, id, receiving, queue, size, sendPackets, inFlight,
                   delivered, packetVars, slot, callVars, workVars>>

\* Decrement_IOCount and, at 0, the release flag of ReleaseSession.
Released(s) ==
    /\ refs' = [refs EXCEPT ![s] = @ - 1]
    /\ state' = IF refs[s] = 1 THEN [state EXCEPT ![s] = "closing"] ELSE state

ReturnSession(c) ==
    /\ pc[c] = "return"
    /\ Released(slot[c])
    /\ IF state'[slot[c]] = "closing"
       THEN /\ Step(c, "return", "close")
            /\ UNCHANGED <<todo, slot, handle, packet>>
       ELSE UNCHANGED todo /\ Served(c, "return")
    /\ UNCHANGED <<id, receiving, bufferVars, ioVars, packetVars, workVars>>

ReturnFull(c) ==
    /\ pc[c] = "full"
    /\ Released(slot[c])
    /\ Step(c, "full", IF state'[slot[c]] = "closing" THEN "closefull" ELSE "disconnect")
    /\ UNCHANGED <<id, receiving, bufferVars, ioVars, packetVars, slot, callVars,
                   workVars>>

\* Disconnect by handle cancels what is in flight, if it finds the session.
Disconnect(c) ==
    /\ UNCHANGED todo
    /\ Served(c, "disconnect")
    /\ GiveUp(c)
    /\ IF Found(handle[c]) /\ inFlight[slot[c]] # <<>>
       THEN /\ Post(slot[c], "zero")
            /\ inFlight' = [inFlight EXCEPT ![slot[c]] = Tail(@)]
       ELSE UNCHANGED <<posted, inFlight>>
    /\ UNCHANGED <<lifeVars, bufferVars, delivered, to, nextPacket, workVars>>

-----------------------------------------------------------------------------
(* The workers.                                                            *)

Handle(w, s, label, n) ==
    /\ Step(w, "idle", label)
    /\ slot' = [slot EXCEPT ![w] = s]
    /\ owes' = [owes EXCEPT ![w] = n]

GetSendPost(w, s) ==
    /\ posted[s]["sendpost"] > 0
    /\ Taken(s, "sendpost")
    /\ Handle(w, s, "pop", 0)
    /\ UNCHANGED <<lifeVars, bufferVars, inFlight, delivered, packetVars,
                   callVars, batch>>

\* A send that transferred 0 bytes leaves IsSending set and the packets where
\* they are.
GetSendCompletion(w, s, kind) ==
    /\ kind \in {"sent", "zero", "check"}
    /\ posted[s][kind] > 0
    /\ Taken(s, kind)
    /\ Handle(w, s, CASE kind = "sent"  -> "clear"
                      [] kind = "check" -> "flag"
                      [] kind = "zero"  -> "dec", 1)
    /\ UNCHANGED <<lifeVars, bufferVars, inFlight, delivered, packetVars,
                   callVars, batch>>

\* The receive of a peer that is gone, or whose session was disconnected.
GetRecv(w, s) ==
    /\ receiving[s]
    /\ receiving' = [receiving EXCEPT ![s] = FALSE]
    /\ Handle(w, s, "dec", 1)
    /\ UNCHANGED <<state, id, refs, bufferVars, ioVars, packetVars, callVars, batch>>

\* Faulty variant: m_sendPacketCount is reset, the references are kept.
ClearCountOnly(w) ==
    /\ Step(w, "clear", "flag")
    /\ sendPackets' = [sendPackets EXCEPT ![slot[w]] = <<>>]
    /\ UNCHANGED <<lifeVars, isSending, queue, size, ioVars, packetVars,
                   slot, callVars, workVars>>

ClearSendPackets(w) ==
    /\ Step(w, "clear", "flag")
    /\ Dropped(sendPackets[slot[w]])
    /\ sendPackets' = [sendPackets EXCEPT ![slot[w]] = <<>>]
    /\ UNCHANGED <<lifeVars, isSending, queue, size, ioVars, to, nextPacket,
                   slot, callVars, workVars>>

ClearIsSending(w) ==
    /\ Step(w, "flag", "recheck")
    /\ isSending' = [isSending EXCEPT ![slot[w]] = FALSE]
    /\ UNCHANGED <<lifeVars, queue, size, sendPackets, ioVars, packetVars, slot,
                   callVars, workVars>>

\* Faulty variant: the queue is not looked at again.
NoRecheckSize(w) ==
    /\ Step(w, "recheck", "dec")
    /\ UNCHANGED <<lifeVars, bufferVars, ioVars, packetVars, slot, callVars, workVars>>

\* GetUseSize after the flag is cleared: whatever came too late to set it.
RecheckSize(w) ==
    /\ Step(w, "recheck", IF size[slot[w]] > 0 THEN "again" ELSE "dec")
    /\ UNCHANGED <<lifeVars, bufferVars, ioVars, packetVars, slot, callVars, workVars>>

\* Increment_IOCount and TrySendPostInCompletion.
TrySendPostInCompletion(w) ==
    /\ pc[w] = "again"
    /\ IF isSending[slot[w]]
       THEN Step(w, "again", "dec") /\ UNCHANGED <<isSending, refs>>
       ELSE /\ Step(w, "again", "pop")
            /\ isSending' = [isSending EXCEPT ![slot[w]] = TRUE]
            /\ refs' = [refs EXCEPT ![slot[w]] = @ + 1]
    /\ UNCHANGED <<state, id, receiving, queue, size, sendPackets, ioVars,
                   packetVars, slot, callVars, workVars>>

\* SendPost: Dequeue until it fails or SEND_PACKET_COUNT packets are there. It
\* takes one off m_size first, and puts it back if there was none.
DequeueCount(w) ==
    /\ Step(w, "pop", IF size[slot[w]] > 0 THEN "take" ELSE "undo")
    /\ size' = [size EXCEPT ![slot[w]] = @ - 1]
    /\ UNCHANGED <<lifeVars, isSending, queue, sendPackets, ioVars, packetVars,
                   slot, callVars, workVars>>

DequeueFails(w) ==
    /\ Step(w, "undo", "transmit")
    /\ size' = [size EXCEPT ![slot[w]] = @ + 1]
    /\ UNCHANGED <<lifeVars, isSending, queue, sendPackets, ioVars, packetVars,
                   slot, callVars, workVars>>

\* Faulty variant: the newest node is taken.
DequeueNewest(w) ==
    /\ pc[w] = "take"
    /\ queue[slot[w]] # <<>>
    /\ Step(w, "take", IF Len(batch[w]) + 1 = SendPacketCount THEN "transmit" ELSE "pop")
    /\ LET n == Len(queue[slot[w]]) IN
          /\ batch' = [batch EXCEPT ![w] = Append(@, queue[slot[w]][n])]
          /\ queue' = [queue EXCEPT ![slot[w]] = SubSeq(@, 1, n - 1)]
    /\ UNCHANGED <<lifeVars, isSending, size, sendPackets, ioVars, packetVars,
                   slot, callVars, owes>>

DequeueTake(w) ==
    /\ pc[w] = "take"
    /\ queue[slot[w]] # <<>>
    /\ Step(w, "take", IF Len(batch[w]) + 1 = SendPacketCount THEN "transmit" ELSE "pop")
    /\ batch' = [batch EXCEPT ![w] = Append(@, Head(queue[slot[w]]))]
    /\ queue' = [queue EXCEPT ![slot[w]] = Tail(@)]
    /\ UNCHANGED <<lifeVars, isSending, size, sendPackets, ioVars, packetVars,
                   slot, callVars, owes>>

\* The handler returns the references it owes, and ends.
Finish(w, from, n) ==
    /\ Step(w, from, IF n = 0 THEN "idle" ELSE "dec")
    /\ owes' = [owes EXCEPT ![w] = n]
    /\ slot' = IF n = 0 THEN [slot EXCEPT ![w] = NoSlot] ELSE slot

\* Faulty variant: an empty SendPost just ends.
NoSendingCheck(w) ==
    /\ batch[w] = <<>>
    /\ Finish(w, "transmit", owes[w] + 1)
    /\ UNCHANGED <<lifeVars, bufferVars, ioVars, packetVars, callVars, batch>>

\* Nothing to send (the node was linked, its count was still to come): a
\* REQUEST_SENDING_CHECK goes round the IOCP.
PostSendingCheck(w) ==
    /\ batch[w] = <<>>
    /\ Finish(w, "transmit", owes[w])
    /\ Post(slot[w], "check")
    /\ UNCHANGED <<lifeVars, bufferVars, inFlight, delivered, packetVars,
                   callVars, batch>>

\* WSASend accepts the batch (its reference now belongs to the completion)
\* or fails at once (the reference is returned, IsSending stays set).
WSASend(w, accepted) ==
    /\ batch[w] # <<>>
    /\ sendPackets' = [sendPackets EXCEPT ![slot[w]] = batch[w]]
    /\ batch' = [batch EXCEPT ![w] = <<>>]
    /\ Finish(w, "transmit", IF accepted THEN owes[w] ELSE owes[w] + 1)
    /\ inFlight' = IF accepted THEN [inFlight EXCEPT ![slot[w]] = Append(@, batch[w])]
                               ELSE inFlight
    /\ UNCHANGED <<lifeVars, isSending, queue, size, posted, delivered,
                   packetVars, callVars>>

\* The Decrement_IOCount at the end of a handler.
DecrementIOCount(w) ==
    /\ pc[w] = "dec"
    /\ Released(slot[w])
    /\ IF state'[slot[w]] = "closing"
       THEN Step(w, "dec", "close") /\ UNCHANGED <<slot, owes>>
       ELSE Finish(w, "dec", owes[w] - 1)
    /\ UNCHANGED <<id, receiving, bufferVars, ioVars, packetVars, callVars, batch>>

\* The rest of ReleaseSession.
CloseSession(t) ==
    /\ pc[t] \in {"close", "closefull"}
    /\ state' = [state EXCEPT ![slot[t]] = "free"]
    /\ isSending' = [isSending EXCEPT ![slot[t]] = FALSE]
    /\ Emptied(slot[t])
    /\ IF t \in Workers
       THEN Finish(t, "close", owes[t] - 1) /\ UNCHANGED callVars
       ELSE /\ UNCHANGED <<owes, todo>>
            /\ IF pc[t] = "close" THEN Served(t, "close")
               ELSE /\ Step(t, "closefull", "disconnect")
                    /\ UNCHANGED <<slot, packet, handle>>
    /\ UNCHANGED <<id, refs, receiving, ioVars, to, nextPacket, batch>>

-----------------------------------------------------------------------------
(* The kernel.                                                             *)

\* A WSASend completes with all its bytes.
KernelSends(s) ==
    /\ inFlight[s] # <<>>
    /\ inFlight' = [inFlight EXCEPT ![s] = Tail(@)]
    /\ delivered' = [delivered EXCEPT ![s] = @ \o Head(inFlight[s])]
    /\ Post(s, "sent")
    /\ UNCHANGED <<lifeVars, bufferVars, packetVars, pc, slot, callVars, workVars>>

\* It completes with 0: the connection was reset, or somebody called CancelIoEx.
KernelFails(s) ==
    /\ inFlight[s] # <<>>
    /\ inFlight' = [inFlight EXCEPT ![s] = Tail(@)]
    /\ Post(s, "zero")
    /\ UNCHANGED <<lifeVars, bufferVars, delivered, packetVars, pc, slot,
                   callVars, workVars>>

-----------------------------------------------------------------------------
FindsNext(c) == \E h \in todo[c] : FindSession(c, h)

Send(c) == FindsNext(c) \/ CheckSize(c) \/ EnqueueLink(c) \/ EnqueueCount(c)
           \/ TrySendPost(c) \/ ReturnSession(c) \/ ReturnFull(c) \/ Disconnect(c)

Work(w) == \/ ClearSendPackets(w) \/ ClearIsSending(w) \/ RecheckSize(w)
           \/ TrySendPostInCompletion(w) \/ DequeueCount(w) \/ DequeueFails(w)
           \/ DequeueTake(w) \/ PostSendingCheck(w) \/ DecrementIOCount(w)
           \/ \E accepted \in BOOLEAN : WSASend(w, accepted)

Kinds == {"sent", "zero", "check"}

Next ==
    \/ \E s \in Slots : Connect(s) \/ KernelSends(s) \/ KernelFails(s)
    \/ \E c \in Senders :
          \/ \E h \in Handles : SendPacket(c, h)
          \/ \E hs \in (SUBSET Handles) \ {{}} : SendPacketMulticast(c, hs)
          \/ Send(c)
    \/ \E w \in Workers, s \in Slots :
          \/ GetSendPost(w, s) \/ GetRecv(w, s)
          \/ \E kind \in Kinds : GetSendCompletion(w, s, kind)
    \/ \E w \in Workers : Work(w)
    \/ \E t \in Threads : CloseSession(t)

Spec == Init /\ [][Next]_vars

\* Threads go on with what they began, the IOCP is a FIFO queue, and a send
\* that was accepted completes in one way or the other: the peer reads, or the
\* connection breaks.
Fairness ==
    /\ \A c \in Senders : WF_vars(Send(c) \/ CloseSession(c))
    /\ \A w \in Workers : WF_vars(Work(w) \/ CloseSession(w))
    /\ \A s \in Slots :
          /\ WF_vars(KernelSends(s) \/ KernelFails(s))
          /\ SF_vars(\E w \in Workers :
                GetSendPost(w, s) \/ \E kind \in Kinds : GetSendCompletion(w, s, kind))

FairSpec == Spec /\ Fairness
-----------------------------------------------------------------------------
(* Correctness.                                                            *)

Elements(seq) == {seq[i] : i \in DOMAIN seq}

SendLabels == {"pop", "take", "undo", "transmit", "clear", "flag"}
HoldLabels == {"size", "full", "link", "count", "trypost", "return"}

At(labels, s) == {t \in Threads : slot[t] = s /\ pc[t] \in labels}

\* The one who is to send for session s: a posted REQUEST_SENDPOST, a worker
\* in SendPost or in the completion before it clears the flag, the WSASend in
\* flight, its completion.
SendTokens(s) ==
    Len(inFlight[s]) + posted[s]["sendpost"] + posted[s]["sent"]
    + posted[s]["zero"] + posted[s]["check"] + Cardinality(At(SendLabels, s))

\* A packet in the queue of a live session whose flag is clear has somebody
\* who is still going to test the flag (the race of Enqueue and TrySendPost
\* with the completion that clears the flag and looks at the queue again).
NoLostWakeup ==
    \A s \in Slots : state[s] = "live" /\ ~isSending[s] /\ queue[s] # <<>> =>
        At({"count", "trypost", "recheck", "again"}, s) # {}

\* A WSASend of s failed: nothing is sent on this connection any more.
SendFailed(s) == isSending[s] /\ SendTokens(s) = 0 /\ sendPackets[s] # <<>>

\* IsSending is not left behind: while it is set, somebody is sending, or the
\* socket has failed.
SendingHasOwner ==
    \A s \in Slots : state[s] = "live" /\ isSending[s] =>
        SendTokens(s) = 1 \/ SendFailed(s)

\* References worker w returns before its handler ends.
Returns(w) == owes[w] + (IF pc[w] \in {"pop", "take", "undo", "transmit"} THEN 1 ELSE 0)

\* IOCount of a live session counts the receive, the senders that found it,
\* the send and the handlers at work; a released session has none of them.
RefsExact ==
    \A s \in Slots :
        LET posts == posted[s]["sendpost"] + posted[s]["sent"]
                     + posted[s]["zero"] + posted[s]["check"]
            works == {w \in Workers : slot[w] = s /\ pc[w] # "close"}
        IN  IF state[s] = "live"
            THEN refs[s] = (IF receiving[s] THEN 1 ELSE 0) + Len(inFlight[s]) + posts
                           + Cardinality(At(HoldLabels, s))
                           + Cardinality(UNION {{w} \X (1..Returns(w)) : w \in works})
            ELSE /\ refs[s] = 0 /\ ~receiving[s] /\ inFlight[s] = <<>> /\ posts = 0
                 /\ At(HoldLabels, s) = {} /\ works = {}

\* Where packet p is in a family of sequences.
Places(seqs, p) ==
    {x \in UNION {{y} \X DOMAIN seqs[y] : y \in DOMAIN seqs} : seqs[x[1]][x[2]] = p}

\* The handles for which a sender's call still has a reference to use.
Unused(c) ==
    todo[c] \cup IF pc[c] \in {"size", "link", "full", "closefull", "disconnect"}
                 THEN {handle[c]} ELSE {}

\* Every reference of a packet is somewhere: in a queue, in m_sendPackets, in a
\* worker's hands, or still to be used by the call that allocated it. It is
\* freed when, and only when, the last is gone, and so never twice and never
\* while somebody can reach it (SendPacket, SendPacketMulticast, ClearSend*).
PacketRefs ==
    \A p \in 1..(nextPacket - 1) :
        /\ refCount[p] =
              Cardinality(Places(queue, p)) + Cardinality(Places(sendPackets, p))
              + Cardinality(Places(batch, p))
              + Cardinality({x \in Senders \X Handles :
                                packet[x[1]] = p /\ x[2] \in Unused(x[1])})
        /\ freed[p] = IF refCount[p] = 0 THEN 1 ELSE 0

\* What was taken out of the queue and has not reached the peer.
Undelivered(s) ==
    IF posted[s]["sent"] > 0 \/ At({"clear"}, s) # {} THEN <<>> ELSE sendPackets[s]

InHands(s) ==
    IF \E w \in Workers : slot[w] = s /\ batch[w] # <<>>
    THEN batch[CHOOSE w \in Workers : slot[w] = s /\ batch[w] # <<>>] ELSE <<>>

Pending(s) == IF state[s] = "live" THEN Undelivered(s) \o InHands(s) \o queue[s] ELSE <<>>

\* The peer gets the packets addressed to its handle in order, once, without a
\* gap: the send path implements SendChannel.
Channel == INSTANCE SendChannel WITH
    connection <- [s \in Slots |-> IF state[s] = "live" THEN id[s] ELSE 0],
    addressees <- to,
    pending    <- [s \in Slots |-> Pending(s)]
ChannelSpec == Channel!Spec

\* What is put into the queue of a session leaves it: to the peer, or with the
\* connection, unless a WSASend of the connection has failed.
EverythingIsSent ==
    \A s \in Slots, p \in Packets :
        p \in Elements(queue[s]) ~> p \notin Elements(Pending(s)) \/ SendFailed(s)
=============================================================================
