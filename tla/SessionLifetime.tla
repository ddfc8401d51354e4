-------------------------- MODULE SessionLifetime --------------------------
(***************************************************************************)
(* The life of the sessions of NetLib_Server: the index pool and the       *)
(* session array, the reference count IOCount with its release flag, the   *)
(* accept thread that gives a slot to a new connection, the worker threads *)
(* that handle the enter, receive and leave completions, and the threads   *)
(* of the application that reach a session through its handle              *)
(* (FindSession ... ReturnSession, Disconnect).                            *)
(*                                                                         *)
(* Every interlocked operation, every read of a shared field and every     *)
(* call of the kernel or of the application is a step of its own, so all   *)
(* interleavings of the threads are considered.                            *)
(***************************************************************************)
EXTENDS Naturals, FiniteSets

CONSTANTS
    Slots,      \* the indexes of m_sessions (m_opt_maxOfSession of them)
    NoSlot,     \* what a thread that handles nothing points at
    Workers,    \* the threads of m_threadPool
    Callers,    \* threads that use the API with a handle they were given
    MaxId,      \* bound: connections accepted during a behaviour
    MaxDrift    \* bound: FindSession calls that hit one released session

Threads == Workers \cup Callers

ASSUME SlotsAssumption == IsFiniteSet(Slots) /\ NoSlot \notin Slots

\* The low byte of IOCount counts references: 2 for each thread, and one each
\* for the accept thread, the enter completion and the receive, must fit.
\* (m_threadPool has room for 16 workers.)
ASSUME ThreadsAssumption ==
    /\ IsFiniteSet(Threads)
    /\ Workers \cap Callers = {}
    /\ Cardinality(Threads) <= 126

ASSUME BoundsAssumption == MaxId \in Nat /\ MaxDrift \in Nat

VARIABLES
    ioCount,            \* Session::IOCount, an unsigned short
    sessionId,          \* the id in Session::SessionHandle (0: never used)
    requestDisconnect,  \* Session::requestDisconnect
    open,               \* is Session::m_socket a socket that is not closed?
    recvIO,             \* the overlapped receive of the session
    enterPosted,        \* overlapped_enter completions queued in the IOCP
    leavePosted,        \* overlapped_leave completions queued in the IOCP
    free,               \* m_sessionIndexPool
    sessionCount,       \* m_sessionCount
    idPool,             \* m_idPool
    acceptPc,           \* where the accept thread is
    acceptSlot,         \* its local "index"
    pc,                 \* where each worker and caller is
    slot,               \* the session it works on
    want,               \* the id in the handle FindSession was called with
    joined,             \* handles passed to OnClientJoin so far
    left                \* handles passed to OnClientLeave so far

sessionVars == <<ioCount, sessionId, requestDisconnect, open>>
queueVars   == <<recvIO, enterPosted, leavePosted>>
poolVars    == <<free, sessionCount>>
acceptVars  == <<idPool, acceptPc, acceptSlot>>
threadVars  == <<pc, slot, want>>
appVars     == <<joined, left>>
vars == <<sessionVars, queueVars, poolVars, acceptVars, threadVars, appVars>>

-----------------------------------------------------------------------------
(* The 16-bit reference count.                                             *)

MaxWord == 65535
Word == 0..MaxWord

ReleaseCount == 60928                   \* RELEASE_IOCOUNT, 0xEE00
Wrap(n) == n % 65536

\* DecodeIOCount: the upper byte is the release flag.
Flagged(count) == count \div 256 # 0

Incremented(s) == Wrap(ioCount[s] + 1)
Decremented(s) == Wrap(ioCount[s] + 65535)

\* CancelIoEx: a pending receive completes with 0 bytes; the rest is untouched.
Pending == {"first", "rearmed"}
Cancelled(s) == [recvIO EXCEPT ![s] = IF @ \in Pending THEN "zero" ELSE @]

HandleOf(s) == <<s, sessionId[s]>>

\* Thread t takes up work on session s (id is the handle's, 0 for a worker).
Begin(t, label, s, id) ==
    /\ pc' = [pc EXCEPT ![t] = label]
    /\ slot' = [slot EXCEPT ![t] = s]
    /\ want' = [want EXCEPT ![t] = id]

\* Thread t goes on in the same handler or call, or ends it.
Go(t, label) ==
    /\ pc' = [pc EXCEPT ![t] = label]
    /\ slot' = IF label = "idle" THEN [slot EXCEPT ![t] = NoSlot] ELSE slot
    /\ want' = IF label = "idle" THEN [want EXCEPT ![t] = 0] ELSE want

-----------------------------------------------------------------------------
Init ==
    /\ ioCount = [s \in Slots |-> 0]
    /\ sessionId = [s \in Slots |-> 0]
    /\ requestDisconnect = [s \in Slots |-> FALSE]
    /\ open = [s \in Slots |-> FALSE]
    /\ recvIO = [s \in Slots |-> "none"]
    /\ enterPosted = [s \in Slots |-> 0]
    /\ leavePosted = [s \in Slots |-> 0]
    /\ free = Slots
    /\ sessionCount = 0
    /\ idPool = 0
    /\ acceptPc = "accept"
    /\ acceptSlot = NoSlot
    /\ pc = [t \in Threads |-> "idle"]
    /\ slot = [t \in Threads |-> NoSlot]
    /\ want = [t \in Threads |-> 0]
    /\ joined = {}
    /\ left = {}

-----------------------------------------------------------------------------
(* The accept thread.                                                      *)

\* A connection arrives, there is room and OnConnectionRequest agrees; a
\* connection refused at either test is closed and leaves no trace.
AcceptConnection ==
    /\ acceptPc = "accept"
    /\ idPool < MaxId
    /\ sessionCount < Cardinality(Slots)
    /\ sessionCount' = sessionCount + 1
    /\ acceptPc' = "pop"
    /\ UNCHANGED <<sessionVars, queueVars, free, idPool, acceptSlot,
                   threadVars, appVars>>

\* Faulty variant: the index is read and stays in the pool.
PeekIndex ==
    /\ acceptPc = "pop"
    /\ acceptSlot' \in (IF free = {} THEN Slots ELSE free)
    /\ acceptPc' = "handle"
    /\ UNCHANGED <<sessionVars, queueVars, poolVars, idPool, threadVars,
                   appVars>>

\* The result of Pop is ignored: on an empty pool "index" is uninitialised.
PopIndex ==
    /\ acceptPc = "pop"
    /\ acceptSlot' \in (IF free = {} THEN Slots ELSE free)
    /\ free' = free \ {acceptSlot'}
    /\ acceptPc' = "handle"
    /\ UNCHANGED <<sessionVars, queueVars, sessionCount, idPool, threadVars,
                   appVars>>

\* Connect, first part: the new handle and socket, while IOCount still
\* carries the release flag of the previous connection.
ConnectHandle ==
    /\ acceptPc = "handle"
    /\ idPool' = idPool + 1
    /\ sessionId' = [sessionId EXCEPT ![acceptSlot] = idPool']
    /\ open' = [open EXCEPT ![acceptSlot] = TRUE]
    /\ acceptPc' = "count"
    /\ UNCHANGED <<ioCount, requestDisconnect, queueVars, poolVars, acceptSlot,
                   threadVars, appVars>>

\* Connect: IOCount = 1, the reference of the connection being set up.
ConnectCount ==
    /\ acceptPc = "count"
    /\ ioCount' = [ioCount EXCEPT ![acceptSlot] = 1]
    /\ acceptPc' = "reset"
    /\ UNCHANGED <<sessionId, requestDisconnect, open, queueVars, poolVars,
                   idPool, acceptSlot, threadVars, appVars>>

\* Connect, last part: what follows the assignment of IOCount.
ConnectReset ==
    /\ acceptPc = "reset"
    /\ requestDisconnect' = [requestDisconnect EXCEPT ![acceptSlot] = FALSE]
    /\ acceptPc' = "post"
    /\ UNCHANGED <<ioCount, sessionId, open, queueVars, poolVars, idPool,
                   acceptSlot, threadVars, appVars>>

PostEnter ==
    /\ acceptPc = "post"
    /\ enterPosted' = [enterPosted EXCEPT ![acceptSlot] = @ + 1]
    /\ acceptPc' = "accept"
    /\ acceptSlot' = NoSlot
    /\ UNCHANGED <<sessionVars, recvIO, leavePosted, poolVars, idPool,
                   threadVars, appVars>>

-----------------------------------------------------------------------------
(* The kernel's end of the overlapped receive.                             *)

KernelReceives(s) ==
    /\ recvIO[s] \in Pending
    /\ recvIO' = [recvIO EXCEPT ![s] = "data"]
    /\ UNCHANGED <<sessionVars, enterPosted, leavePosted, poolVars, acceptVars,
                   threadVars, appVars>>

\* The peer closed or reset the connection.
KernelCloses(s) ==
    /\ recvIO[s] \in Pending
    /\ recvIO' = [recvIO EXCEPT ![s] = "zero"]
    /\ UNCHANGED <<sessionVars, enterPosted, leavePosted, poolVars, acceptVars,
                   threadVars, appVars>>

-----------------------------------------------------------------------------
(* A worker handles an enter completion.                                   *)

GetEnter(w, s) ==
    /\ pc[w] = "idle"
    /\ enterPosted[s] > 0
    /\ enterPosted' = [enterPosted EXCEPT ![s] = @ - 1]
    /\ Begin(w, "join", s, 0)
    /\ UNCHANGED <<sessionVars, recvIO, leavePosted, poolVars, acceptVars, appVars>>

\* The callback OnClientJoin: from now on the application knows the handle.
OnClientJoin(w) ==
    /\ pc[w] = "join"
    /\ joined' = joined \cup {HandleOf(slot[w])}
    /\ Go(w, "firstrecv")
    /\ UNCHANGED <<sessionVars, queueVars, poolVars, acceptVars,
                   left>>

\* RecvPost either succeeds, and the reference goes with the pending receive,
\* or fails (the peer reset the connection), and the reference is returned.
FirstRecvPost(w) ==
    /\ pc[w] = "firstrecv"
    /\ \/ /\ recvIO' = [recvIO EXCEPT ![slot[w]] = "first"]
          /\ Go(w, "idle")
       \/ /\ Go(w, "dec")
          /\ UNCHANGED recvIO
    /\ UNCHANGED <<sessionVars, enterPosted, leavePosted, poolVars, acceptVars,
                   appVars>>

-----------------------------------------------------------------------------
(* A worker handles a receive completion.                                  *)

\* Faulty variants: the next receive is posted before the data is parsed; a
\* receive of 0 bytes does not give its reference back.
GetRecvRearmed(w, s) ==
    /\ pc[w] = "idle"
    /\ recvIO[s] \in {"data", "zero"}
    /\ recvIO' = [recvIO EXCEPT ![s] = IF @ = "zero" THEN "none" ELSE "rearmed"]
    /\ Begin(w, IF recvIO[s] = "zero" THEN "dec" ELSE "parse", s, 0)
    /\ UNCHANGED <<sessionVars, enterPosted, leavePosted, poolVars, acceptVars,
                   appVars>>

GetRecvLeaked(w, s) ==
    /\ pc[w] = "idle"
    /\ recvIO[s] \in {"data", "zero"}
    /\ recvIO' = [recvIO EXCEPT ![s] = "none"]
    /\ IF recvIO[s] = "zero" THEN UNCHANGED threadVars ELSE Begin(w, "parse", s, 0)
    /\ UNCHANGED <<sessionVars, enterPosted, leavePosted, poolVars, acceptVars,
                   appVars>>

GetRecv(w, s) ==
    /\ pc[w] = "idle"
    /\ recvIO[s] \in {"data", "zero"}
    /\ recvIO' = [recvIO EXCEPT ![s] = "none"]
    /\ Begin(w, IF recvIO[s] = "zero" THEN "dec" ELSE "parse", s, 0)
    /\ UNCHANGED <<sessionVars, enterPosted, leavePosted, poolVars, acceptVars, appVars>>

\* The parse loop: the complete packets go to OnRecv; a malformed one (or too
\* many receives for one packet) makes the worker disconnect the session. Its
\* own reference keeps the session, so the call cannot fail; no receive is
\* pending for CancelIoEx to cancel.
Parse(w) ==
    /\ pc[w] = "parse"
    /\ \/ UNCHANGED <<requestDisconnect, recvIO>>
       \/ /\ requestDisconnect' = [requestDisconnect EXCEPT ![slot[w]] = TRUE]
          /\ recvIO' = Cancelled(slot[w])
    /\ Go(w, "inc")
    /\ UNCHANGED <<ioCount, sessionId, open, enterPosted, leavePosted, poolVars,
                   acceptVars, appVars>>

\* Faulty variant: the next receive has no reference of its own.
NoIncrementForRecv(w) ==
    /\ pc[w] = "inc"
    /\ Go(w, "repost")
    /\ UNCHANGED <<sessionVars, queueVars, poolVars, acceptVars, appVars>>

\* Increment_IOCount for the next receive; a release flag ends the handler.
IncrementForRecv(w) ==
    /\ pc[w] = "inc"
    /\ ioCount' = [ioCount EXCEPT ![slot[w]] = Incremented(slot[w])]
    /\ Go(w, IF Flagged(Incremented(slot[w])) THEN "idle" ELSE "repost")
    /\ UNCHANGED <<sessionId, requestDisconnect, open, queueVars, poolVars,
                   acceptVars, appVars>>

\* RecvPost fails on a dead connection or a full receive buffer.
RecvPost(w) ==
    /\ pc[w] = "repost"
    /\ \/ /\ recvIO' = [recvIO EXCEPT ![slot[w]] = "rearmed"]
          /\ Go(w, "checkreq")
       \/ /\ Go(w, "decio")
          /\ UNCHANGED recvIO
    /\ UNCHANGED <<sessionVars, enterPosted, leavePosted, poolVars, acceptVars,
                   appVars>>

\* Faulty variant: the request is not looked at again.
NoCheckRequest(w) ==
    /\ pc[w] = "checkreq"
    /\ Go(w, "dec")
    /\ UNCHANGED <<sessionVars, queueVars, poolVars, acceptVars, appVars>>

\* A Disconnect that found no receive to cancel is honoured here.
CheckRequest(w) ==
    /\ pc[w] = "checkreq"
    /\ recvIO' = IF requestDisconnect[slot[w]] THEN Cancelled(slot[w])
                 ELSE recvIO
    /\ Go(w, "dec")
    /\ UNCHANGED <<sessionVars, enterPosted, leavePosted, poolVars, acceptVars,
                   appVars>>

-----------------------------------------------------------------------------
(* A worker handles a leave completion.                                    *)

\* Faulty variant: the session is uncounted before its index is in the pool.
AfterLeaveUncounted(label) ==
    CASE label = "leave" -> "uncount" [] label = "uncount" -> "push" [] label = "push" -> "idle"

\* The order of the handler: OnClientLeave, Push, and only then the count.
AfterLeave(label) ==
    CASE label = "leave" -> "push" [] label = "push" -> "uncount" [] label = "uncount" -> "idle"

GetLeave(w, s) ==
    /\ pc[w] = "idle"
    /\ leavePosted[s] > 0
    /\ leavePosted' = [leavePosted EXCEPT ![s] = @ - 1]
    /\ Begin(w, "leave", s, 0)
    /\ UNCHANGED <<sessionVars, recvIO, enterPosted, poolVars, acceptVars, appVars>>

OnClientLeave(w) ==
    /\ pc[w] = "leave"
    /\ left' = left \cup {HandleOf(slot[w])}
    /\ Go(w, AfterLeave("leave"))
    /\ UNCHANGED <<sessionVars, queueVars, poolVars, acceptVars,
                   joined>>

PushIndex(w) ==
    /\ pc[w] = "push"
    /\ free' = free \cup {slot[w]}
    /\ Go(w, AfterLeave("push"))
    /\ UNCHANGED <<sessionVars, queueVars, sessionCount, acceptVars,
                   appVars>>

DecrementSessionCount(w) ==
    /\ pc[w] = "uncount"
    /\ sessionCount' = sessionCount - 1
    /\ Go(w, AfterLeave("uncount"))
    /\ UNCHANGED <<sessionVars, queueVars, free, acceptVars,
                   appVars>>

-----------------------------------------------------------------------------
(* A caller uses a handle the application has been given, joined or stale. *)

\* FindSession increments first; on the release flag it gives up and leaves
\* the increment behind (Connect overwrites it). The code has no limit on these:
\* MaxDrift is a bound of the model, and after 4608 of them the flag is gone.
FindSession(c, h) ==
    /\ pc[c] = "idle"
    /\ ioCount[h[1]] < ReleaseCount + MaxDrift
    /\ ioCount' = [ioCount EXCEPT ![h[1]] = Incremented(h[1])]
    /\ IF Flagged(Incremented(h[1]))
       THEN UNCHANGED threadVars
       ELSE Begin(c, "compare", h[1], h[2])
    /\ UNCHANGED <<sessionId, requestDisconnect, open, queueVars, poolVars,
                   acceptVars, appVars>>

\* Faulty variant: FindSession trusts the index.
NoCompareHandle(c) ==
    /\ pc[c] = "compare"
    /\ Go(c, "found")
    /\ UNCHANGED <<sessionVars, queueVars, poolVars, acceptVars, appVars>>

CompareHandle(c) ==
    /\ pc[c] = "compare"
    /\ Go(c, IF sessionId[slot[c]] = want[c] THEN "found" ELSE "dec")
    /\ UNCHANGED <<sessionVars, queueVars, poolVars, acceptVars,
                   appVars>>

\* GetSessionTPS_*, and the other calls that only look at the session.
UseSession(c) ==
    /\ pc[c] = "found"
    /\ Go(c, "dec")
    /\ UNCHANGED <<sessionVars, queueVars, poolVars, acceptVars,
                   appVars>>

\* Disconnect sets the request first, then cancels what is pending.
RequestDisconnect(c) ==
    /\ pc[c] = "found"
    /\ requestDisconnect' = [requestDisconnect EXCEPT ![slot[c]] = TRUE]
    /\ Go(c, "cancel")
    /\ UNCHANGED <<ioCount, sessionId, open, queueVars, poolVars, acceptVars,
                   appVars>>

CancelIo(c) ==
    /\ pc[c] = "cancel"
    /\ recvIO' = Cancelled(slot[c])
    /\ Go(c, "dec")
    /\ UNCHANGED <<sessionVars, enterPosted, leavePosted, poolVars, acceptVars,
                   appVars>>

-----------------------------------------------------------------------------
(* Any thread returns a reference.                                         *)

\* The label after Decrement_IOCount returns: a failed RecvPost is followed
\* by the Decrement_IOCount that ends the handler.
Resume(label) == IF label \in {"decio", "releaseio", "closeio"}
                 THEN "dec" ELSE "idle"

\* Decrement_IOCount; whoever reaches 0 goes on to ReleaseSession.
DecrementIOCount(t) ==
    /\ pc[t] \in {"dec", "decio"}
    /\ ioCount' = [ioCount EXCEPT ![slot[t]] = Decremented(slot[t])]
    /\ Go(t, IF Decremented(slot[t]) # 0 THEN Resume(pc[t])
             ELSE IF pc[t] = "dec" THEN "release" ELSE "releaseio")
    /\ UNCHANGED <<sessionId, requestDisconnect, open, queueVars, poolVars,
                   acceptVars, appVars>>

\* Faulty variant: the release flag is stored without looking at the count.
ReleaseUnchecked(t) ==
    /\ pc[t] \in {"release", "releaseio"}
    /\ ioCount' = [ioCount EXCEPT ![slot[t]] = ReleaseCount]
    /\ Go(t, IF pc[t] = "release" THEN "close" ELSE "closeio")
    /\ UNCHANGED <<sessionId, requestDisconnect, open, queueVars, poolVars,
                   acceptVars, appVars>>

\* ReleaseSession: the compare-and-swap from 0 to the release flag. If someone
\* took a reference in between, that reference's return releases the session.
ReleaseSession(t) ==
    /\ pc[t] \in {"release", "releaseio"}
    /\ IF ioCount[slot[t]] = 0
       THEN /\ ioCount' = [ioCount EXCEPT ![slot[t]] = ReleaseCount]
            /\ Go(t, IF pc[t] = "release" THEN "close" ELSE "closeio")
       ELSE /\ Go(t, Resume(pc[t]))
            /\ UNCHANGED ioCount
    /\ UNCHANGED <<sessionId, requestDisconnect, open, queueVars, poolVars,
                   acceptVars, appVars>>

\* The rest of ReleaseSession for a session without content: the socket is
\* closed, the buffers are emptied and the leave completion is posted.
CloseSession(t) ==
    /\ pc[t] \in {"close", "closeio"}
    /\ open' = [open EXCEPT ![slot[t]] = FALSE]
    /\ leavePosted' = [leavePosted EXCEPT ![slot[t]] = @ + 1]
    /\ Go(t, Resume(pc[t]))
    /\ UNCHANGED <<ioCount, sessionId, requestDisconnect, recvIO, enterPosted,
                   poolVars, acceptVars, appVars>>

-----------------------------------------------------------------------------
Accept == \/ AcceptConnection \/ PopIndex \/ ConnectHandle
          \/ ConnectCount \/ ConnectReset \/ PostEnter

Kernel(s) == KernelReceives(s) \/ KernelCloses(s)

Dequeue(w) == \E s \in Slots : GetEnter(w, s) \/ GetRecv(w, s) \/ GetLeave(w, s)

Handle(w) ==
    \/ OnClientJoin(w) \/ FirstRecvPost(w)
    \/ Parse(w) \/ IncrementForRecv(w) \/ RecvPost(w) \/ CheckRequest(w)
    \/ OnClientLeave(w) \/ PushIndex(w) \/ DecrementSessionCount(w)

Operate(c) ==
    \/ CompareHandle(c) \/ UseSession(c) \/ RequestDisconnect(c) \/ CancelIo(c)

Return(t) == DecrementIOCount(t) \/ ReleaseSession(t) \/ CloseSession(t)

Next ==
    \/ Accept
    \/ \E s \in Slots : Kernel(s)
    \/ \E w \in Workers : Dequeue(w) \/ Handle(w)
    \/ \E c \in Callers : (\E h \in joined : FindSession(c, h)) \/ Operate(c)
    \/ \E t \in Threads : Return(t)

Spec == Init /\ [][Next]_vars

(* Fairness: a thread goes on with the handler or the call it is in, the    *)
(* accept thread finishes what it began, and a completion does not wait for *)
(* ever while workers take other ones, because the IOCP is a FIFO queue.    *)
(* Nothing makes a peer send or close, a client connect, or the application *)
(* call.                                                                    *)
Fairness ==
    /\ WF_vars(PopIndex \/ ConnectHandle \/ ConnectCount \/ ConnectReset \/ PostEnter)
    /\ \A w \in Workers : WF_vars(Handle(w))
    /\ \A c \in Callers : WF_vars(Operate(c))
    /\ \A t \in Threads : WF_vars(Return(t))
    /\ \A s \in Slots : SF_vars(\E w \in Workers : GetEnter(w, s))
    /\ \A s \in Slots : SF_vars(\E w \in Workers : GetRecv(w, s))
    /\ \A s \in Slots : SF_vars(\E w \in Workers : GetLeave(w, s))

FairSpec == Spec /\ Fairness
-----------------------------------------------------------------------------
(* Correctness.                                                            *)

CallerLabels == {"compare", "found", "cancel"}
WorkerLabels == {"join", "firstrecv", "parse", "inc", "repost", "checkreq",
                 "decio", "releaseio", "closeio", "leave", "push", "uncount"}
SharedLabels == {"idle", "dec", "release", "close"}

LabelsOf(t) == SharedLabels \cup (IF t \in Workers THEN WorkerLabels ELSE CallerLabels)

ThreadsOK ==
    /\ pc \in [Threads -> SharedLabels \cup CallerLabels \cup WorkerLabels]
    /\ slot \in [Threads -> Slots \cup {NoSlot}]
    /\ want \in [Threads -> Nat]
    /\ \A t \in Threads :
          /\ pc[t] \in LabelsOf(t)
          /\ slot[t] = NoSlot <=> pc[t] = "idle"

\* Type correctness: every field has a value its C++ type admits, and a worker
\* is never inside an API call nor a caller inside a completion handler.
TypeOK ==
    /\ ioCount \in [Slots -> Word]
    /\ sessionId \in [Slots -> Nat]
    /\ requestDisconnect \in [Slots -> BOOLEAN]
    /\ open \in [Slots -> BOOLEAN]
    /\ recvIO \in [Slots -> Pending \cup {"none", "zero", "data"}]
    /\ enterPosted \in [Slots -> Nat]
    /\ leavePosted \in [Slots -> Nat]
    /\ free \subseteq Slots
    /\ sessionCount \in Nat
    /\ idPool \in Nat
    /\ acceptPc \in {"accept", "pop", "handle", "count", "reset", "post"}
    /\ acceptSlot \in IF acceptPc \in {"accept", "pop"} THEN {NoSlot} ELSE Slots
    /\ ThreadsOK
    /\ joined \subseteq Slots \X Nat
    /\ left \subseteq Slots \X Nat

\* A session found by handle stays that session until it is returned: while a
\* caller is past the comparison of FindSession the slot still carries the
\* handle it asked for, the connection's socket is still the one it had, it is
\* not in the index pool and OnClientLeave has not been called for it
\* (FindSession, Disconnect; the race is with ReleaseSession, the leave
\* handler and Connect).
FoundSessionIsOwned ==
    \A c \in Callers : pc[c] \in {"found", "cancel"} =>
        /\ sessionId[slot[c]] = want[c]
        /\ open[slot[c]]
        /\ slot[c] \notin free
        /\ <<slot[c], want[c]>> \in joined \ left

\* The callbacks of one connection come in order: OnClientJoin once and before
\* anything else, OnRecv only between join and leave, OnClientLeave once and
\* when no thread can still be delivering for this connection.
CallbackOrder ==
    \A w \in Workers :
        /\ pc[w] = "join" => HandleOf(slot[w]) \notin joined
        /\ pc[w] = "parse" => HandleOf(slot[w]) \in joined \ left
        /\ pc[w] = "leave" =>
              /\ HandleOf(slot[w]) \in joined \ left
              /\ \A v \in Workers \ {w} :
                    slot[v] = slot[w] => pc[v] \in {"uncount", "release", "releaseio"}

\* WSARecv is never called for a session that already has a receive pending,
\* queued or being handled: the byte stream has one reader (the reference the
\* receive needs and the hand-over enter -> receive -> receive keep it so).
SingleReceive ==
    \A w \in Workers : pc[w] \in {"firstrecv", "repost"} =>
        /\ open[slot[w]]
        /\ recvIO[slot[w]] = "none"
        /\ \A v \in Workers \ {w} :
              pc[v] \in {"join", "firstrecv", "parse", "inc", "repost"} =>
                  slot[v] # slot[w]

\* AcceptThread tests m_sessionCount and ignores the result of Pop, which on an
\* empty pool leaves the index unset: the pool cannot be empty when it pops,
\* although the count and the pool are updated by separate steps of the accept
\* thread and of the workers in their leave handlers, whose order decides.
PopNeverEmpty == acceptPc = "pop" => free # {}

\* Disconnect against the receive handler: if a receive posted by the handler
\* is pending although a disconnect was requested, somebody is still going to
\* cancel it (the caller in Disconnect, or the handler that rechecks the flag).
RequestReachesReceive ==
    \A s \in Slots : requestDisconnect[s] /\ recvIO[s] = "rearmed" =>
        \E t \in Threads : slot[t] = s /\ pc[t] \in {"cancel", "checkreq"}

\* The handles the library hands out follow the contract of SessionLifecycle.
Live == {HandleOf(s) : s \in {x \in Slots :
            x \notin free /\ ~(acceptSlot = x /\ acceptPc = "handle")}}

Lifecycle == INSTANCE SessionLifecycle WITH live <- Live, Ids <- 1..MaxId
LifecycleSpec == Lifecycle!Spec

\* A receive that completed with 0 bytes (the peer is gone or the receive was
\* cancelled) is followed by OnClientLeave for that connection.
CloseLeadsToLeave ==
    \A s \in Slots : (recvIO[s] = "zero") ~> (HandleOf(s) \in left)

\* A disconnect requested once the first receive has completed is followed by
\* OnClientLeave although the peer stays connected and silent. (A peer that
\* sends for ever could, in every round, complete the receive just before
\* CancelIoEx.)
DisconnectLeadsToLeave ==
    \A s \in Slots :
        \/ (requestDisconnect[s] /\ recvIO[s] = "rearmed") ~> (HandleOf(s) \in left)
        \/ []<>(recvIO[s] = "data")

\* Any disconnect of a joined session is followed by OnClientLeave.
EveryDisconnectLeadsToLeave ==
    \A s \in Slots :
        \/ (HandleOf(s) \in joined /\ requestDisconnect[s]) ~> (HandleOf(s) \in left)
        \/ []<>(recvIO[s] = "data")

-----------------------------------------------------------------------------
(* The inductive invariant behind the safety properties. *)

B(condition) == IF condition THEN 1 ELSE 0

At(labels, s) == {t \in Threads : slot[t] = s /\ pc[t] \in labels}

\* Labels at which a thread holds one reference, at which a receive handler
\* holds a second one, at which a worker is the one to drive the connection
\* towards its next receive, and at which a released session is on its way out.
UseLabels   == CallerLabels \cup {"join", "firstrecv", "parse", "inc", "repost",
                                  "checkreq", "dec", "decio"}
RearmLabels == {"repost", "decio"}
DriveLabels == {"join", "firstrecv", "parse", "inc", "repost"}
LeaveLabels == {"close", "closeio", "leave", "push"}

AcceptHolds(s) == acceptSlot = s /\ acceptPc \in {"reset", "post"}

\* No connection: in the pool, or popped and not yet counted.
Vacant(s) == s \in free \/ (acceptSlot = s /\ acceptPc \in {"handle", "count"})

RefCount(s) == Cardinality(At(UseLabels, s)) + Cardinality(At(RearmLabels, s))
               + B(AcceptHolds(s)) + enterPosted[s] + B(recvIO[s] # "none")

LeaveCount(s) == Cardinality(At(LeaveLabels, s)) + leavePosted[s]

\* IOCount is the number of references of a session in use, and release flag
\* plus leftovers of a released one, of which exactly one leave is under way.
CountExact ==
    \A s \in Slots :
        /\ Vacant(s) =>
              /\ RefCount(s) = 0 /\ LeaveCount(s) = 0
              /\ ioCount[s] \in 0..255 => ioCount[s] = 0 /\ \A h \in joined : h[1] # s
        /\ ~Vacant(s) /\ ioCount[s] \in 0..255 =>
              ioCount[s] = RefCount(s) /\ LeaveCount(s) = 0
        /\ ~Vacant(s) /\ ioCount[s] \notin 0..255 =>
              RefCount(s) = 0 /\ LeaveCount(s) = 1
        /\ ioCount[s] \in 0..255 \cup ReleaseCount..(ReleaseCount + MaxDrift)

\* One baton per connection: accept thread, enter completion, driving worker,
\* receive.
OneDriver ==
    /\ \A t, u \in Threads :
          pc[t] \in DriveLabels /\ pc[u] \in DriveLabels /\ slot[t] = slot[u] => t = u
    /\ \A t \in Threads : pc[t] \in DriveLabels =>
          ~AcceptHolds(slot[t]) /\ enterPosted[slot[t]] = 0 /\ recvIO[slot[t]] = "none"
    /\ \A s \in Slots : enterPosted[s] > 0 =>
          enterPosted[s] = 1 /\ ~AcceptHolds(s) /\ recvIO[s] = "none"
    /\ \A s \in Slots : AcceptHolds(s) => recvIO[s] = "none"

\* The connection has not been announced to the application yet.
Entering(s) == \/ acceptSlot = s /\ acceptPc \in {"count", "reset", "post"}
               \/ enterPosted[s] > 0
               \/ \E t \in Threads : slot[t] = s /\ pc[t] = "join"

HandlesInOrder ==
    /\ idPool <= MaxId /\ (acceptPc \in {"pop", "handle"} => idPool < MaxId)
    /\ \A s \in Slots : sessionId[s] <= idPool
    /\ left \subseteq joined
    /\ \A h \in joined : 0 < h[2] /\ h[2] <= sessionId[h[1]]
    /\ \A s \in Slots :
          /\ Entering(s) => 0 < sessionId[s] /\ HandleOf(s) \notin joined
          /\ ~Vacant(s) /\ ~Entering(s) => HandleOf(s) \in joined
          /\ ~Vacant(s) /\ HandleOf(s) \in left =>
                \E t \in Threads : slot[t] = s /\ pc[t] = "push"
    /\ \A t \in Threads : pc[t] \in CallerLabels => <<slot[t], want[t]>> \in joined
    /\ \A t \in Threads : pc[t] \in {"found", "cancel"} =>
          sessionId[slot[t]] = want[t]
    /\ \A t \in Threads : pc[t] = "push" => HandleOf(slot[t]) \in left
    /\ \A t \in Threads : pc[t] \notin {"idle", "join"} =>
          \E h \in joined : h[1] = slot[t]

OpenWhileUsed ==
    /\ acceptPc = "count" => open[acceptSlot]
    /\ \A s \in Slots : ~Vacant(s) /\ ~open[s] =>
          \/ leavePosted[s] > 0
          \/ \E t \in Threads : slot[t] = s /\ pc[t] \in {"leave", "push"}

CountedIndexes ==
    /\ sessionCount = Cardinality(Slots \ free) + B(acceptPc = "pop")
                      + Cardinality({t \in Threads : pc[t] = "uncount"})
    /\ sessionCount <= Cardinality(Slots)
    /\ acceptSlot \notin free

\* A receive handler whose RecvPost failed returns two references, and the
\* first of them is never the last: it does not release under its own feet.
OwnReferenceLeft == \A t \in Threads : pc[t] \notin {"releaseio", "closeio"}

\* The induction: the type invariant and the six facts above.
IInv == TypeOK /\ CountExact /\ OneDriver /\ HandlesInOrder /\ OpenWhileUsed
        /\ CountedIndexes /\ OwnReferenceLeft
=============================================================================
