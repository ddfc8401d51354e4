# A TLA+ development of IOCPNetModule

IOCPNetModule is a Windows IOCP network library (C++17, `src/IOCPNetLib`, `src/Utils`) and three
servers built on it: `ChatServer`, `LoginServer` and `MonitorServer`. The library runs an accept
thread, a pool of worker threads fed by one I/O completion port, and any number of application
threads that reach a session through an 8-byte handle. Sessions live in a preallocated array and
are protected by no lock: a 16-bit reference count with a release flag, interlocked operations
and the order of a few assignments do the work of one. The repository has no tests. This directory
models that protocol, checks it with TLC and proves its core with TLAPS.

## Inventory

| Part | State | Operations | Interacts with |
|---|---|---|---|
| Session lifetime (`NetLib_Server.cpp`, `Session.h`) | `IOCount` (release flag in the upper byte), `SessionHandle`, `requestDisconnect`, socket, index pool, `m_sessionCount`, `m_idPool` | accept and `Connect`; enter, receive and leave completions; `FindSession`, `ReturnSession`, `Disconnect`; `ReleaseSession` | calls `OnConnectionRequest`, `OnClientJoin`, `OnRecv`, `OnClientLeave`; every other part uses its references |
| Send path (same files, `LockFreeQueue.h`, `Packet.h`) | `IsSending`, `m_sendBuffer` and its `m_size`, `m_sendPackets`, `Packet::refCount` | `SendPacket`, `SendPacketMulticast`, `TrySendPost[InCompletion]`, `SendPost`, send and sendpost completions, `ClearSendPackets`, `ClearSendBuffer` | holds session references; full queue calls `Disconnect` |
| Start and stop | `m_isRunning`, `m_isListening`, threads | `Start`, `Stop`, loops of the threads | posts one quit completion per worker |
| Receive framing (`RingBuffer`, `SimpleEncoder`, `Packet`, parse loops) | ring buffer of a session and that for its content, `recvPostCnt` | `RecvPost`, header and checksum tests, decode, `OnRecv` | the kernel writes into the ring; a bad header disconnects; a content reads the second ring |
| Content (`NetLib_Content`) | `sessions`, `m_msgQueue`, `IsMoving`, `m_content` | `Move_Content`, `Update`, `Leave`, `Release` | takes over the release of its sessions |
| Client (`NetLib_Client`, `MonitorClient.h`) | one session, `m_Connect` | `Connect`, `SendPacket`, its completions, the reconnect loop in `OnLeaveServer` | reports to MonitorServer |
| Lock-free containers and pools (`Utils`) | linked nodes with tags, thread-local stacks | `Enqueue`/`Dequeue`, `Push`/`Pop`, `Alloc`/`Free` | index pool, send buffers, packets |
| ChatServer | `waiting`, `sessions_accNo`, `players_sessionHandle`, sectors | login with Redis token, sector moves, chat multicast, heartbeat, timeouts | library callbacks; `MonitorClient` |
| LoginServer | `waiting`, `succ` | login, token `SET ... EX 30`, timeouts | Redis, ChatServer |
| MonitorServer | `waiting`, `clients_sessionHandle`, `sessions_ServerNo`, `monitors`, `clientContentQueue`, samples | logins, samples, leave messages, DB writes | `MonitorClient`s, tools, MySQL |
| Diagnostics, configuration, data | log files, counters | I/O | not modelled |

What is hard: handles that outlive their session while the slot is reused; the count reaching zero
in one step and the release flag being set in another; late lookups that never take their
increment back; `Disconnect` against a receive being re-armed; the send flag cleared while a
packet arrives; a queue counter that lags the queue; one packet shared by many queues; and, in the
servers, handles collected under a lock and used after it. The receive path adds a ring that the
kernel writes to and that wraps, the contents a session handed from one thread to another by
messages, and the client a connection that is used while it is being set up. `PROJECT.json` lists each of these
hazards at its line, with the properties that cover it.

What makes each part correct: a found session is the one asked for, its callbacks come in order
and `OnClientLeave` comes in the end (lifetime); the peer gets its packets in order, once and
without a gap, and packets are freed once (send path); messages whole, in order and as they were
written, whatever the pieces (framing); one reader of a session, callbacks between entering and
leaving a content, one release (content); a login leaves one session per account (ChatServer);
locks taken in one order and a player in one sector (sectors); a number belongs to one session of
a server, and a server whose connection failed is registered again (client and MonitorServer).

## Modules

| Module | Models |
|---|---|
| `SessionLifecycle` | abstract: what the library promises about handles |
| `SessionLifetime` | the session lifetime, one step per interlocked operation |
| `MCSessionLifetime` | its model-checking instance (symmetry) |
| `SessionLifetimeProofs` | the inductive invariant and the theorems |
| `SendChannel` | abstract: one FIFO channel per connection |
| `SendPath` | the send path |
| `MCSendPath` | its model-checking instance |
| `TLSObjectPool` | the pool of nodes, used by the next two |
| `CountedFifo` | abstract: queues of what their own callers put in |
| `LockFreeQueue` | `Enqueue` and `Dequeue`, one step per access to shared memory |
| `MCLockFreeQueue` | its model-checking instance |
| `IndexStack` | abstract: a stack of indexes |
| `LockFreeStack` | `Push` and `Pop`, one step per access to shared memory |
| `MCLockFreeStack` | its model-checking instance |
| `ChatServer` | logins, sectors, broadcasts and leaving in ChatServer, above `SessionLifecycle` |
| `MCChatServer` | its model-checking instance (symmetry) |
| `RingBuffer` | `RingBuffer` with its front and rear, cell by cell |
| `SimpleEncoder` | the obfuscation and the check sum, byte by byte |
| `Packet` | a packet's buffer: values written and read, room for the header |
| `MessageStream` | abstract: the messages of a connection, in order |
| `ReceiveFraming` | the receive path from the peer's packet to `OnRecv`, with the three above |
| `MCReceiveFraming` | its model-checking instance (messages, the encoder's round trip) |
| `ContentMove` | contents, `Move_Content` and the release of sessions that have one |
| `MCContentMove` | its model-checking instance |
| `MonitorNet` | the connections between the next two |
| `MonitorClient` | the client of a reporting server |
| `MonitorServer` | the handlers and the content thread of MonitorServer |
| `MonitorFlow` | composes the last three |
| `MCMonitorFlow` | its model-checking instance |
| `SendPathProofs` | the inductive invariant of `SendPath` and its theorems; that `Packet::refCount` is the number of places that hold the packet; that the send path implements `SendChannel` |
| `MonitorProofs` | the inductive invariant of `MonitorFlow` and its theorems |
| `ChatServerProofs` | the inductive invariant of `ChatServer` and its theorems |
| `TLSObjectPoolProofs` | what `Alloc` and `Free` do to the set of pooled nodes, and that none is in it twice |
| `LockFreeStackProofs` | the inductive invariant of `LockFreeStack`, its theorems and its refinement |
| `LockFreeQueueProofs` | the inductive invariant of `LockFreeQueue`, its theorems and its refinement |
| `ContentMoveProofs` | the inductive invariant of `ContentMove` and its theorems |

### SessionLifetime

A slot of `m_sessions` is an element of `Slots`; `ioCount`, `sessionId` (the id half of
`SessionHandle`; 0 means never used), `requestDisconnect` and `open` are its fields. `recvIO`,
`enterPosted` and `leavePosted` are its overlapped operations: a pending receive is `"first"`
(posted by the enter handler) or `"rearmed"` (posted by the receive handler), a completed one
`"zero"` or `"data"`. `free` and `sessionCount` are `m_sessionIndexPool` and `m_sessionCount`.
The accept thread has its own program counter; workers and callers share `pc`, `slot` and `want`.
A worker's handler and a caller's API call are chains of labels, one interlocked operation,
shared read, kernel call or callback per step. An API call made inside a callback is a call by
one of the `Callers`: the references behave the same, since the handler's own reference is still
held. `joined` and `left` record the handles passed to `OnClientJoin` and `OnClientLeave`.

Abstracted: the content of receives, the other fields of `Connect`, `OnConnectionRequest` refusing
a connection (it leaves no trace), and the quit completion of `Stop`. Sessions have no content:
`ReleaseSession` takes its first branch. Sends are in `SendPath`.

`SessionLifecycle` is the abstract view: a handle gets an index nobody owns, is joined once, left
once and only after it was joined, and the index is reused only after that.
`SessionLifetime` implements it with `live` mapped to the handles whose index is neither pooled
nor still to be given to them.

### SendPath

A `SendPacket` or `SendPacketMulticast` call is a set `todo` of handles to serve; for each the
steps are find, test of the size, link, count, test of `IsSending`, return. A multicast takes all
its references when it starts, a `SendPacket` one after the test, as in the code. `queue` is the
linked list of `m_sendBuffer` and `size` its `m_size`, which is raised after the link and lowered
before the take. A worker in `SendPost` holds its local `batch`; `inFlight` is what WSASend
accepted; `posted` counts the completions in the IOCP by kind: REQUEST_SENDPOST, a sent or failed
send, REQUEST_SENDING_CHECK. `owes` is the number of `Decrement_IOCount` calls a handler still
has to make.

`FindSession` and a decrement together with the release it causes are single steps here: their
interleavings are the subject of `SessionLifetime`. `Connect` and the cleanup in `ReleaseSession`
are single steps because no other thread has a reference then (`RefsExact` checks it).
The receive is reduced to the reference it holds and may return at any time. `Disconnect` of a
full session is reduced to what it does to the send in flight. WSASend may fail at any call and
an accepted send may fail at any time; partial sends do not occur (an overlapped send completes
with all its bytes or with none).

`SendChannel` is the abstract view: a FIFO per connection. `SendPath` implements it with `pending`
mapped to what is in `m_sendPackets` and not delivered, in the hands of a worker, and in the queue.

### LockFreeQueue, LockFreeStack and TLSObjectPool

A pointer is a pair of a node number (0: null) and a tag; `Tagged` is `SetCount`. All the queues of
one element type share the static `m_nodePool`, so `LockFreeQueue` models several queues over one
pool. A thread inside a call has its local variables (`node`, `headCap`, `tailCap`, `nextCap`) and
a label; a step makes one read, write or compare-and-swap of shared memory, or none. A node in
the pool keeps its `next` and `data`, and a slow thread may still read them, as in the code
(`TLSObjectPool` links its free nodes through a field of its own). An `Alloc` or `Free` is one step:
only `m_freeSets` is shared, in one locked section per call. The pool and the containers share no
state but the nodes; `LockFreeQueue` and `LockFreeStack` extend `TLSObjectPool`.

`SendPath` uses the queue as a list (`EnqueueLink`, `DequeueTake`) with a counter that lags
(`EnqueueCount`, `DequeueCount`); `SizeExact` is what it takes for granted about that counter,
`FifoSpec` what it takes for granted about the list. `SessionLifetime` uses
the stack as a set of indexes; `IndexOnce` is what it takes for granted.

`FifoSpec` maps each queue to the data of the nodes behind its dummy node. The linearisation points
are the compare-and-swap on `next` and the one on `m_head`. The stack's are those on `m_top`.

The runs show where this holds: with any number of enqueuing threads as long as no node comes back
from the pool while one of them is between its read of `m_tail` and its compare-and-swap
(`queue_contended`, whose pool never returns a node), and with immediate reuse of the nodes when
only one thread enqueues (`queue_recycled`). With both it does not (Known limits).

### ChatServer

`ChatServer` has the library as an instance of `SessionLifecycle`: `OnClientJoin` and `OnClientLeave`
are its `Join` and `Leave`, a handle is never given out twice, and `Disconnect` does nothing for one
that has left. That a session's callbacks do not overlap is `CallbackOrder` and `SingleReceive` of
`SessionLifetime`; `task` therefore holds one place per session. The tables keep their names. A
section under `lock_waiting`, `lock_players_accNo` or `lock_players_sessionHandle` takes no other
lock and is one step; a login is six steps, `OnClientLeave` four. A `Player` is named by its session's
handle and never used again, which makes a use after `DeletePlayer` visible even if the pool has given
the object to somebody else. The sectors' locks are taken one by one: a move holds its first one
exclusively while it waits for the second (`holds`), a broadcast holds up to nine of them shared and
releases each once it has been read. `voidSector` is never given an ID and so has that of sector 0.

Abstracted: times (a session may be too old whenever the content thread looks), texts and names, the
statistics, the blacklist. Redis answers yes or no. A heartbeat searches `players_sessionHandle`
without its lock: while another worker is at an insert or erase it may find nothing.

### ReceiveFraming

The peer builds a packet from values (`Insert`, `NetAlloc`, `PutData`), `Frame` adds header, check sum
and obfuscation as `SendPacket` does, and `wire` carries the bytes. `RecvPost` posts two spans of the
ring; the kernel writes any number of bytes into them and only the completion (`GetRecv`) moves
`rear`. A step of the worker is one round of the parse loop, so that the content's thread and the
kernel run between two of them; the bytes of a session with a content go into a second ring in two
steps, length and payload, while `ContentReadSize`, `ContentReadHeader` and `ContentTake` read it. The
loop of the server counts its rounds, the client's does not; `side` says which it is. `Connect` reuses
the slot for the next connection. `RingBuffer` is instantiated twice, with the size of each ring.

Abstracted: a byte is a cell of `ByteRange` values, a length one cell instead of two bytes, and a
message a sequence of values, each a sequence of cells. Encryption is on, as in the servers' files. A
session that gets a content is moved at most once (moves are in `ContentMove`).

`MessageStream` is the abstract view: a sequence of messages, read in order, that may end early only
when the connection was asked to close. `WellBehavedIsKept` is the other half: when it may be. What
the code does here and a reader may not expect: a message that leaves no room for the header is
sent without content, as the result of `PutData` is not looked at (NetLib_Server.cpp:446,
NetLib_Client.cpp:241); an empty message to a session with a content disconnects it, as `Enqueue` of
nothing returns 0 (151); a content's ring that is full keeps the length without its payload, which
does no harm as the session is disconnected; a frame with a wrong check sum is dropped and the next
one read while the disconnect is under way; the test of `max_recvPostCnt` comes before the test
whether that very piece completes the frame.

### ContentMove

A thread is a slot's own callbacks or a content's `Update`. `Move_Content` is three steps (find and
mark, leave, enter), and `Update` takes its messages one by one and then looks at its sessions one by
one, with `IsMoving` read before each frame. References count those of the receive, of moves, of the
ENTER messages and of the loop; the last one releases, by the leave completion or by a RELEASE
message. `inside` records what `OnEnter`, `OnLeave` and `OnRelease` told a content about a handle.

The library does not say who may call `Move_Content`. The model has the callers that serve the
session at that moment: the server's callbacks if it has no content, those of its content otherwise.
Even so `IsMoving` is one flag for every move of a slot: it is reset by whatever LEAVE comes first
(`disturbed`), and from then on the properties about readers and maps are not claimed. This
happens when a session is moved on before the LEAVE of its previous move was handled, or when its slot
has been used again by then (Known limits). `ReleasedOnce` and `ClosedReturns` hold regardless.

### MonitorFlow

`MonitorClient` is the one session of a server's `NetLib_Client`: `at` is how far `Connect` has come, and
`m_Connect` is set at its first step, so the main thread's `SendPacket` (three steps: find, enqueue,
return) may meet every one of them. `SendPost` sends all that is queued; the completions end with
`Decrement`, which releases the session, and `ClientLeaves` connects again. `MonitorServer` has a
`handler` per session, a step as long as a lock is held, and `content`, the place of
`ClientContentThread`. `Clients` is the set of `Client` objects that exist, which makes a use after
`delete` visible. `MonitorFlow` joins them: a connection may break, a login may be late, tools come
and go. A handle is given out again when neither side remembers it; the code never does, so this
only bounds the model.

Abstracted: the values measured and their statistics, the keys (right or wrong), the blacklist. On
the server's side sessions are those of `SessionLifetime`. What the code does here and a reader may
not expect: a measurement that overtakes the login, or a login that comes before the LEAVE of its
predecessor was handled, gets the connection closed and made again (`FinallyRegistered` shows that
this ends); `Login_Timeout` may disconnect a session that has just logged in; and a send that goes
out between `Session::Connect` and `CreateIoCompletionPort` (NetLib_Client.cpp:365-366) never
completes and holds its reference, which `FinallyRegistered` excepts (`Orphaned`).

## Runs

| Run | Instance | Shows |
|---|---|---|
| `session_safety` | 2 slots, 2 workers, 2 callers, 3 connections | the safety properties, the inductive invariant and `SessionLifecycle` |
| `session_liveness` | 1 slot used twice, 2 workers, 1 caller | `OnClientLeave` follows a dead receive and a `Disconnect` |
| `session_early_disconnect` | the same | the finding |
| `send_path` | 1 slot, 1 connection, 2 senders, 2 workers, 3 packets | the send flag, references, `SendChannel`, and that what is enqueued is sent |
| `send_multicast` | 2 slots, 3 connections, 1 sender, 1 worker, 2 packets | packets shared by several sessions; nothing of one connection reaches the next |
| `queue_contended` | 1 queue, 2 enqueuing and 2 dequeuing threads, 3 values, no node used twice | FIFO, the counter, and that every call returns |
| `queue_recycled` | 2 queues, 1 enqueuing and 2 dequeuing threads, 4 values, every node free at once | the tags, one owner per node |
| `index_stack` | 3 threads, 2 indexes, 5 pushes, every node free at once | a stack; one holder per index |
| `chat_server` | 3 sessions, 1 account, 3 sectors in a row | one session per account, nothing left of a session that has left, no circle of sector locks, broadcasts that see one moment |
| `receive_framing` | 2 messages of 3 lengths, one of them perhaps broken, 1 slot used twice, rings of 8 and 5 bytes | messages whole and in order, no byte overwritten, a correct peer not cut, what was sent is read |
| `content_move` | 1 slot, 2 connections, 2 contents, 5 moves, 3 frames | one reader, callbacks inside enter and leave, no handle left in a map, one release |
| `monitor_flow` | 1 server, 2 handles, 1 measurement, 1 fault, 1 tool | no `Client` used after `delete`, nothing outlives its session, who was accepted is served, registered in the end |

Bounds. `MaxId`, `MaxPackets`, `MaxConnections`, `MaxValue`, `MaxPushes`, `MaxMessages`, `MaxMoves`,
`MaxFrames`, `MaxUpdates`, `MaxFaults` and `MaxToolLogins` end a behaviour; `MaxDrift` bounds the late
lookups of one released slot, of which the code allows any number (Known limits). Three connections on two slots force a reuse while the other slot is
busy; two workers and two callers give every pair of racing steps, including two threads in
`ReleaseSession`. The proofs remove the bounds on slots, workers (up to the width of the count),
callers and connections for the session lifetime, and every bound of the send path for the three
invariants of `SendPathProofs`. In `send_path` three packets and batches of two
give a full batch with a rest, an empty batch and two senders between link and count; a queue
limit of 0 makes the full-queue path common. The chunk size of 512 (128 for the stack) only sets how
many nodes a thread must free before another one gets them: 1 makes reuse immediate, and a size
above the number of takes rules it out. `TagRange` is the real 2^17; no run comes round it.
In `chat_server` three sessions on one account make chains of duplicate logins and, on three sectors
beside `voidSector`, two moves against a broadcast or a leave; three sectors are the fewest of which
one has neighbours on both sides. `MaxCollected` lets the content thread hold one stale handle at a
time; what it does with one does not depend on the others.
In `receive_framing` the ring has room for one frame and a part of the next, so that both its writes
and its posted spans wrap; the content's ring cannot hold two frames; the longest message leaves no
room for the header; three rounds without a frame are the limit (10 in the code). In `content_move`
five moves take a session through both contents and back and on; one slot with two connections has
the reuse. In `monitor_flow` the one handle more than the server needs lets a connection overlap
with the traces of its predecessor, and `MaxTools` is 0 so that one tool's login can be refused.
Deadlock checking is off since behaviours end with the bounds.

Fairness. A thread inside a handler or an API call goes on (the code has no blocking call there);
a queued completion is taken although workers keep taking others (the IOCP is FIFO), hence strong
fairness per completion; the accept thread finishes what it began. Nothing obliges a peer, a
client or the application to do anything, except that in `send_path` an accepted send
completes (the peer reads, or the connection breaks); there a thread also carries through a
`CloseSession` it has begun, and strong fairness is on taking the completions of a slot together. In
`receive_framing` what was sent is received (weak fairness of the kernel), and the worker and the
content's thread run while they have something to do; those two are written out,
`[]<>~Ready \/ []<><<A>>_vars`, which is weak fairness with the guard in place of `ENABLED`. In
`content_move` every worker and every content's `Update`, which posts itself again, goes on. In
`monitor_flow` each thread of both sides does: the connecting worker, the other workers, a
`SendPacket` that was begun, the server's worker for each session, the content thread; faults and
logins of tools are never forced. `DisconnectLeadsToLeave` excludes a peer
whose data completes the receive just before every `CancelIoEx` for ever. With several callers
whose lookups of one session overlap without end a release could be put off for ever; the
liveness run has one caller.

## Finding

`session_early_disconnect`: a `Disconnect` between `OnClientJoin` and the first `RecvPost` is
lost. The receive handler looks at `requestDisconnect` after it re-arms the receive
(NetLib_Server.cpp:171), the enter handler does not (NetLib_Server.cpp:207). A silent peer
then stays until its own timeout, if the server has one.

## Known limits

Where the code keeps its promises only within limits, the models have these limits as constants
or as conditions of the properties. No document of the repository promises more, so these are not
findings.

- 4608 `FindSession` calls on a released slot that is not reused in the meantime carry its count
  from 0xEE00 past 0xFFFF to 0, and with that the release flag is gone. `FindSession`
  (NetLib_Server.cpp:692) has no such limit; `SessionLifetime` disables it at `MaxDrift` late lookups,
  so nothing it shows says anything of the lookups after these, and no property is claimed for the flag.
  (The comment at line 709 asks that nobody change the flag once `Increment_IOCount` has returned true;
  a lookup that ends there leaves its increment in the count.)
- A node that was the tail when an enqueuing thread read `m_tail` can be dequeued, freed and
  allocated again before the thread reads its `next` (LockFreeQueue.h:37). The null it then finds
  carries the identifier of the queue that is using the node now, and the compare-and-swap compares
  it only with itself: the packet is linked into another session's send buffer, or, if the same
  queue uses the node again, lost when line 31 overwrites the link. `FifoSpec` fails with a second
  enqueuing thread in `MCQueueRecycled`. It needs a thread that is held up while another one frees
  a whole chunk (512 nodes). `LockFreeQueueProofs` shows that nothing else can go wrong until the tags
  come round. No run has several enqueuing threads and used nodes together.
- The tags of the stack come round: a node that is pushed again 131072 pushes after its last push gets
  the same pointer again. If that happens while a Pop is between its read of `m_top` and its
  compare-and-swap, the Pop succeeds with a stale `Next`. The index may have lain in the stack during
  most of those pushes, so the Pop need not be suspended for long. `LockFreeStackProofs` shows that
  nothing else can go wrong.
- A session that is moved on before the LEAVE of its last move was handled, or whose slot is used
  again before it, is not protected by `IsMoving`: a content may read it together with the next one,
  or keep a handle for ever (without `disturbed` in `SingleReader` and `NoGhosts` the run
  `content_move` finds both). Two threads that move one session at the same time are outside the
  model. No server of the repository uses a content.
- A received length is compared with 1400 (NetLib_Server.cpp:100, NetLib_Client.cpp:49), and the payload is
  then copied behind the header into a buffer of 1400 bytes: lengths from 1396 on (1399 in
  NetLib_Content.cpp:62-70, where the header is shorter) are too long for it. A packet that `SendPacket`
  of the library makes is 1400 bytes with its header and fits; a peer that makes others is outside
  `ReceiveFraming`, whose broken frames have a length over the limit, a wrong code or a wrong byte.
- A client's send that is posted before its socket has a completion port never completes, and its
  session is never released (`Orphaned` in `MonitorFlow`).

## Proofs

`SessionLifetimeProofs` proves, for every finite set of slots, workers and callers (at most 126
threads, so that the low byte of `IOCount` can hold their references) and every `MaxId`:
`TypeOK`, `FoundSessionIsOwned`, `CallbackOrder`, `SingleReceive`, `PopNeverEmpty`,
`RequestReachesReceive` and that `SessionLifetime` implements `SessionLifecycle`. The runs
check `TypeOK` as a part of `IInv`.

The one assumption beyond the module's is `NoWrap`: the late lookups of a released slot do not
overflow 16 bits (`ReleaseCount + MaxDrift < 65536`). The code does not guarantee it. The first of the
known limits is what happens without it, so it cannot be dropped.

The properties are not inductive; `IInv` is. Its parts:
`CountExact` (the count of a session in use is the number of references held by threads, the
accept thread, the enter completion and the receive; that of a released one is the flag plus
drift, and exactly one leave is under way), `OneDriver` (one baton per connection goes from the
accept thread to the enter completion, the driving worker, the receive and back),
`HandlesInOrder` (which handles have been joined and left, and what a thread's label says about
it), `OpenWhileUsed`, `CountedIndexes` (`m_sessionCount` is the number of indexes out of the pool
plus those pushed and not yet un-counted) and `OwnReferenceLeft` (a handler that returns two
references does not release with the first). `CountExact` is why a found session cannot be
released, `OneDriver` why there is one receive and why callbacks do not overlap, and
`CountedIndexes` why the ignored result of `Pop` does no harm. Preservation is proved action by
action, each part by a lemma of its own; the lemmas at the top of the module are about
cardinalities of the sets of threads at a label and about 16-bit arithmetic. The
refinement is a step property proved under `IInv`.

`SendPathProofs` proves, for every finite set of sessions, workers and senders, any number of packets,
connections and packets per WSASend and any queue limit, that `SendPath` satisfies `RefsExact`,
`SendingHasOwner` and `NoLostWakeup`. None of the three is inductive: each needs the others.
`IInv` says, of every session, in the numbers of threads at the labels of the send path:

- `CountsExact`: on a live session `refs` (`IOCount`) is the receive, the sends in flight, the posted
  completions, the senders that hold the session and the decrements its workers still owe, and on any
  other session all of these are zero. So a step of a thread finds its session live, and the release
  can neither come early nor come twice.
- `OneSender`: what owns the sending (a send in flight, a posted completion, a worker between the flag
  and its end) is exactly one thing while `isSending` is set, or nothing after a WSASend that failed and
  left its packets in `sendPackets`, and nothing while it is clear. This is what makes the CAS of
  `TrySendPost` and the one of the completion exclude each other, and a dequeue have one consumer.
- `SizeLags`: `size` (`m_size`) is the length of the list less the senders that have linked and not yet
  counted and the workers that have counted and not yet taken. A test of `m_size` is a test of the list
  only up to those threads.
- `OneCloser`: a session being released has one thread that releases it.
- `Woken`: a live session with a packet in the list and a clear flag has a thread that has yet to count
  it, to try the flag or to look at `m_size` again. It follows at the clearing of the flag from
  `SizeLags`, and at the worker's second look from `SizeLags` and `OneSender` together.

`CountsExact` adds up debts of more than one reference, so the module begins with lemmas on the
cardinality of the set of (thread, decrement) pairs and on how one thread's step changes each number;
then comes type correctness and one lemma per action. `EverythingIsSent` stays with TLC.

The second part of `SendPathProofs` proves `PacketRefs` from that invariant and three more: `CallsOK` (what a call has
still to serve are handles that exist, its packet has been allocated once it links one, and a `SendPacket`
that has yet to allocate has one handle only), `NothingKept` (`m_sendPackets` is empty while the flag is
clear, a send is posted or a worker is in `SendPost`, so that the new batch overwrites no reference; that
a second worker does not fill it is `OneSender`) and `Exact` (the reference count is the number of places,
0 for packets not yet allocated, and `freed` is 1 exactly at 0). Every step either moves references
between places, or drops as many from the count as from the places, or allocates. The lemmas are about how
often a packet is in a sequence and about the cardinality of its places when one sequence of a family, or
one call, changes.

Its last part proves that `SendPath` implements `SendChannel` (`ChannelRefined`). That packets keep
their order needs that one worker at a time takes them out: `Exclusive`, a consequence of `OneSender`, says
that while a worker sends, a completion is posted or a WSASend is in flight, there is nothing else of
these. From it `Pending`, whose definition asks who is sending, is known in each of three cases
(`PendingIs`), and moving a batch from the list to the worker, to `m_sendPackets` and into the completion
leaves it the same. That a packet reaches only its addressees, and once, needs two more parts of the
invariant `CInv`. `Addressed`: a call past FindSession holds the handle of its session's present
connection (an `Enqueue` after a reconnection would break it; the reference the call holds is what
prevents that), its unserved handles are among the addressees, and no two calls share a packet.
`NotAgain`: what the present connection has had, in its queue, in hands or delivered, no call is still
going to put there. A `Connect` is `Open`, a step of a worker or a call that ends the session is `Close`,
`EnqueueLink` is `Append1`, the allocation is `Address`, a completion with all its bytes is `Deliver`
(of `m_sendPackets`, by `FlightKept`), and every other step changes nothing the channel shows.

`MonitorProofs` proves, for any sets of servers and handles (positive numbers) and any bounds, that
`MonitorFlow` satisfies `NoFreedClient`, `NothingOutlivesLeave` and `AcceptedIsServed`. The handler
takes a `Client` under the lock of the map and uses it after the lock is gone; why the content thread
cannot delete it meanwhile is an argument over five pieces of state, and `IInv` is that argument:
`ClientsExact` (the table of numbers and the `Client` objects are one relation, and a session has at
most one number), `LoginStages` (a session logs in once, as a server or as a tool),
`ClientsAccounted` (a `Client` is in the map except while its login inserts it or the content thread
deletes it, and it belongs to a connected session or to one whose LEAVE is queued or being handled),
`HandlersJoined` (callbacks run only between join and leave: the contract of `SessionLifecycle`) and
`AcceptedHasClient`. The connections (`MonitorNet`) and the clients take part only through the types
of what they send, so what is proved does not depend on how clients behave.

`ChatServerProofs` proves, for any sets of sessions and accounts and on every map, that `ChatServer`
satisfies `SupersededIsClosed`, `NothingOutlivesLeave`, `NoLockCycle` and `ChatIsASnapshot`. Its `IInv`:
`Stages` (a session waits, logs in, is a player, leaves; which table it may be in at each stage),
`AccountsOwned` (an account leads to a session that has it and has yet to give it up, so that the
comparison in `OnClientLeave` is enough), `MembersPlaced` (a sector's list has only players whose
`curSector` it is, so that one erase removes a Player from all of them), `SupersededIsClosed` itself, and
`LocksOrdered` (what a callback holds of the sectors, and that an exclusive lock is alone). Deadlock
freedom is proved by a rank: twice the place of the awaited sector in the order of the locks, and one
more for an exclusive request. Whom a session waits for, if that one waits too, has a higher rank, so
the highest rank in a set waits for nobody in it. The order needs care: `voidSector` has the ID 0 like
the first sector, and only because a move never goes back to `voidSector` does the test `>` of the IDs
still order them, with `voidSector` after sector 0 and before the others. `ChatIsASnapshot` is a step
property: while a broadcast reads, a move or a leave that could change a sector it still holds is shut
out by `Exclusive` or waits.

`LockFreeStackProofs` proves, for any finite set of threads, any number of indexes and any chunk size,
that `LockFreeStack` satisfies `IndexOnce` and implements `IndexStack`, on one condition, `NoTagReuse`:
the pointer on which a `Pop` is about to compare and swap is not pushed again. `TagsHold` proves the
condition for behaviours with fewer pushes than tags (`MaxPushes < TagRange`), since until then every
push has a tag of its own and a pointer still to be pushed is none that a call can have read. `IInv` says
that there are a height `h` and pointers `L[1]`, ..., `L[h]` such that, by `Linked`, these are what is
found from `m_top` on, by `NodesOwned`, the nodes in the stack, in the hands of calls and in the pool are
apart, by `IndexesCarried`, the nodes in use carry the indexes that are not out, each once, and, by
`ReadsHold`, a `Push` has made its node lead to what it compares `m_top` with, and if what a `Pop`
compares `m_top` with is in the stack then the `Next` it has read is still right. The last is the argument
against ABA: a node that is popped and given back keeps its old `Next` until it is in a `Push`, and by the
time it is in the stack again its tag has changed. The pool comes in through two lemmas of
`TLSObjectPoolProofs`: `Alloc` takes a node out of the pool or makes one, `Free` puts one in, and no node
is ever in it twice. `Contents`, which follows the links by a recursive function, is shown equal to the
data of `L` by its least counterexample.

`LockFreeQueueProofs` proves, for any finite set of threads, any number of queues over one pool, any
number of values and any chunk size, that `LockFreeQueue` satisfies `SizeExact` and `NodesApart` and
implements `CountedFifo`, on two conditions. `NoTagReuse`: no compare-and-swap of `m_head` or `m_tail` is
about to find the pointer it compares with linked again with the same tag. `TailKept`: the node whose
`Next` an Enqueue reads or is about to compare and swap is not the new node of another Enqueue. The second
is the second of the known limits and cannot be dropped. `TagsHold` proves the first, given the second,
while fewer values are put in than there are tags (`MaxValue < TagRange`). `WaitingListsKeep`
says what breaks the second with any number of enqueuing threads and nodes in use again and again: only
that an Enqueue is held up between its read of `m_tail` and its compare-and-swap until the list with the
tail's node is full and has been handed over (not `ListsWait`; the list has 512 nodes in the code). A node
that was freed waits in its thread's `m_rtop` before that, from which nobody takes; so the node another
Enqueue is given is new, which by `Made` the tail is not, or comes from a list that was handed over.
`QueuesWhileListsWait` puts these together: the queues are FIFOs, with exact counters and nodes of one owner,
until the tags come round, under `ListsWait` alone. The code does not guarantee `ListsWait`; it is what the
servers' workers need to meet. The run `queue_contended` meets it, as no list becomes full;
`queue_recycled`, where a list has one node, does not, and meets `TailKept` only since one thread enqueues
(the lemma `OneEnqueuerKeeps`).

`IInv` says that there are pointers `N[q][0]`, `N[q][1]`, ..., all that were ever linked to queue `q`, with
a position `lo[q]` of the dummy and `hi[q]` of the last node, such that, by `Linked`, `m_head` is the
dummy, each `Next` leads to the pointer after it and `m_tail` is one of them; by `NodesOwned`, a node is in
the pool, or at one position of one queue, or one call's; by `ValuesCarried`, the values linked, taken and
carried by calls were put in by callers of the same queue, each once; and by `Counted`, `m_size` is
`hi - lo` less the calls in progress. What a call has read may be out of date: `EnqueueReads` says that the
tail it read is still in the queue, or is out of it and has a `Next` for good (so that the compare-and-swap
on `Next` fails), and that what it will move `m_tail` to follows what it compares `m_tail` with;
`DequeueReads` says that if `m_head` still is what the call has read, then so are its `Next` and the data,
and `m_tail` is ahead of it, so that the node it frees is not the tail. Since `N` has the pointers that were
taken too, a pointer once read can be told from all that come later, which is the argument against ABA. As
a step either keeps `N`, `lo` and `hi`, links one pointer or takes one (`CoreNext`), the refinement has
three cases. `Contents` is shown equal to the data of `N` from `lo + 1` to `hi` as for the stack. That a
node is in the pool at one place only (`PooledOnce`) is a lemma of `TLSObjectPoolProofs`.

`ContentMoveProofs` proves, for any finite sets of slots and contents and any number of connections, moves
and frames, that `ContentMove` satisfies `ReleasedOnce` and, as long as `IsMoving` is not reset by somebody
else's message (`disturbed`), `SingleReader`, `NoGhosts` and `OnRecvInside`. One half of `IInv` holds
always. `WorkerInv`, `UpdateInv` and `MoverInv`: a worker serves its slot's present connection, an `Update`
serves a handle of its map, and a thread that moves a session is still in the callback that asked for it,
so that a slot has one mover. `RefInv`: a slot's references are the receive, the contents that serve it,
its mover and its queued ENTERs, and it is open while there is one; so an ENTER finds its session in that
content. `MessageInv` and `LifeInv` say which connection and content a queued message is for. With
`ReleasedOnce` itself these are inductive.

The other half holds until the disturbance and is about the future: `MapInv` takes a content's map and the
messages still in its queue together. The queued messages for a handle put it in and take it out by turns,
beginning with what the map lacks, and after the last of them the map has the handle exactly when the
session is in this content, open, and its mover has not just sent it away (`Stays`). A move may thus go
out and back before either content has looked, and still no ENTER finds the handle there and no LEAVE
misses it; the proof's lemmas are about what appending and taking a message does to the two. `CountInv` is
the count of the map. `InsideInv`: what is in a map has been told `OnEnter`, unless its LEAVE is queued.
`MarkInv`: an open session that still has to leave a content has `IsMoving` set; it is what a reset by
another LEAVE would break, which is how `disturbed` is defined. `TakeInv` follows at the test of
`IsMoving`: a content that takes a frame is the one the session is in, and stays it, because only its own
callbacks could move the session on. There being one such content is `SingleReader`.

TLC only: the liveness properties (`EverythingIsSent`, `CallsReturn` and `ClosedReturns` among them),
`ReceiveFraming` (its obfuscation needs bitwise operators, which the provers do not have) and the violation.

## Plan

Done: the session lifetime, the send path, the containers and pools, `ChatServer`, the client and
`MonitorFlow`, `ContentMove`, all with their proofs, and `ReceiveFraming`. Left, in the order of importance:

1. `LoginFlow`: LoginServer above `SessionLifecycle` with the expiry of the session key between it and
   ChatServer.

## Not modelled

- `Start` and `Stop` of the server. Stop waits for the accept thread, whose loop has no exit
  (NetLib_Server.cpp:306-315); every `Stop` of the servers is the end of the process.
- LoginServer. Its sessions, waiting table and timeouts repeat those of the other two servers; what
  is its own is a key that expires in Redis.
- The statistics of MonitorServer's samples and their way to MySQL, the TPS counters, the blacklist.
- Logging, profiling, performance counters, crash dumps, configuration parsing, the MySQL connector
  and message layouts: I/O and constants without a protocol. Test client binaries and SQL data.
