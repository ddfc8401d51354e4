--------------------------- MODULE LockFreeQueue ---------------------------
(***************************************************************************)
(* LockFreeQueue at the granularity of its interlocked operations and of   *)
(* its reads of shared memory, for all the queues that share one static    *)
(* m_nodePool. A pointer is a node (0: null) with a tag in its upper bits; *)
(* every node that is linked has a tag of its own, and the null of a new   *)
(* node is tagged with the identifier of its queue. The call's arguments   *)
(* and local variables are per thread; a step with one access to shared    *)
(* memory may do any amount of local work.                                 *)
(***************************************************************************)
EXTENDS TLSObjectPool, Integers

CONSTANTS
    Enqueuers,          \* the threads that call Enqueue
    Dequeuers,          \* the threads that call Dequeue
    QueueCount,         \* the queues are numbered by their identifiers
    TagRange,           \* 2^17: the tags are what << 47 leaves of a count
    MaxValue            \* ends a behaviour: the values are 1..MaxValue

ASSUME QueueAssumption ==
    /\ Threads = Enqueuers \cup Dequeuers
    /\ QueueCount \in Nat \ {0}
    /\ TagRange \in Nat \ {0}
    /\ MaxValue \in Nat

Queues == 1..QueueCount
Values == 1..MaxValue

VARIABLES
    head,               \* m_head, the last node taken from
    tail,               \* m_tail
    size,               \* m_size
    allocCnt,           \* allocCnt
    next,               \* Node::next
    data,               \* Node::data
    pc,                 \* where each thread is
    queue,              \* the queue it has called
    value,              \* t: the argument of Enqueue, the result of Dequeue
    node,               \* newNode
    headCap,            \* headCap
    tailCap,            \* tailCap
    nextCap,            \* nextCap
    given,              \* the values each Enqueue was called with
    taken               \* what each Dequeue has taken, in order

listVars == <<head, tail, size, allocCnt, next, data>>
capVars == <<headCap, tailCap, nextCap>>
callVars == <<queue, value, node, given>>
vars == <<poolVars, listVars, pc, callVars, capVars, taken>>

Null == <<0, 0>>

\* Faulty variant: no tag.
Untagged(n, count) == <<n, 0>>

\* SetCount: a pointer with a tag.
Tagged(n, count) == <<n, count % TagRange>>

AllNodes == 1..(QueueCount + MaxValue)

\* The n-th node from the dummy node of a queue, 0 after the end.
Follow(q) ==
    LET f[n \in 0..(QueueCount + MaxValue)] ==
            IF n = 0 THEN head[q][1]
                     ELSE LET m == f[n - 1]
                          IN  IF m = 0 THEN 0 ELSE next[m][1]
    IN  f

Chain(q) == {Follow(q)[n] : n \in 0..(QueueCount + MaxValue)} \ {0}

\* What a queue holds: the data of the nodes after the dummy.
Contents(q) ==
    LET f == Follow(q)
        length == CHOOSE n \in 0..(QueueCount + MaxValue) :
                     /\ \A m \in 0..n : f[m] # 0
                     /\ n = QueueCount + MaxValue \/ f[n + 1] = 0
    IN  [i \in 1..length |-> data[f[i]]]

Goto(t, from, to) ==
    /\ pc[t] = from
    /\ pc' = [pc EXCEPT ![t] = to]

Init ==
    /\ PoolInit(QueueCount)
    /\ head = [q \in Queues |-> <<q, 0>>]
    /\ tail = head
    /\ size = [q \in Queues |-> 0]
    /\ allocCnt = [q \in Queues |-> 0]
    /\ next = [n \in AllNodes |-> Null]
    /\ data = [n \in AllNodes |-> 0]
    /\ pc = [t \in Threads |-> "idle"]
    /\ queue = [t \in Threads |-> 0]
    /\ value = [t \in Threads |-> 0]
    /\ node = [t \in Threads |-> Null]
    /\ headCap = [t \in Threads |-> Null]
    /\ tailCap = [t \in Threads |-> Null]
    /\ nextCap = [t \in Threads |-> Null]
    /\ given = [q \in Queues |-> {}]
    /\ taken = [q \in Queues |-> <<>>]

\* The locals of a call that returns are forgotten.
Return(t, from) ==
    /\ Goto(t, from, "idle")
    /\ queue' = [queue EXCEPT ![t] = 0]
    /\ value' = [value EXCEPT ![t] = 0]
    /\ node' = [node EXCEPT ![t] = Null]
    /\ headCap' = [headCap EXCEPT ![t] = Null]
    /\ tailCap' = [tailCap EXCEPT ![t] = Null]
    /\ nextCap' = [nextCap EXCEPT ![t] = Null]

-----------------------------------------------------------------------------
(* Enqueue                                                                 *)

\* The values are numbered in the order of the calls.
NextValue == Cardinality(UNION {given[q] : q \in Queues}) + 1

BeginEnqueue(t, q) ==
    /\ NextValue <= MaxValue
    /\ Goto(t, "idle", "tag")
    /\ \E n \in AllNodes :
          /\ Alloc(t, n)
          /\ data' = [data EXCEPT ![n] = NextValue]
          /\ next' = [next EXCEPT ![n] = Null]
          /\ node' = [node EXCEPT ![t] = <<n, 0>>]
    /\ queue' = [queue EXCEPT ![t] = q]
    /\ value' = [value EXCEPT ![t] = NextValue]
    /\ given' = [given EXCEPT ![q] = @ \cup {NextValue}]
    /\ UNCHANGED <<head, tail, size, allocCnt, capVars, taken>>

TagNode(t) ==
    LET q == queue[t]
        n == node[t][1]
    IN  /\ Goto(t, "tag", "tail")
        /\ allocCnt' = [allocCnt EXCEPT ![q] = @ + 1]
        /\ next' = [next EXCEPT ![n] = Tagged(0, q)]
        /\ node' = [node EXCEPT ![t] = Tagged(n, allocCnt'[q])]
        /\ UNCHANGED <<poolVars, head, tail, size, data, queue, value, given,
                       capVars, taken>>

ReadTail(t) ==
    /\ Goto(t, "tail", "next")
    /\ tailCap' = [tailCap EXCEPT ![t] = tail[queue[t]]]
    /\ UNCHANGED <<poolVars, listVars, callVars, headCap, nextCap, taken>>

ReadNext(t) ==
    /\ Goto(t, "next", IF next[tailCap[t][1]][1] # 0 THEN "swing" ELSE "link")
    /\ nextCap' = [nextCap EXCEPT ![t] = next[tailCap[t][1]]]
    /\ UNCHANGED <<poolVars, listVars, callVars, headCap, tailCap, taken>>

\* m_tail lags: help it on.
CasTail(t, new) ==
    tail' = IF tail[queue[t]] = tailCap[t]
            THEN [tail EXCEPT ![queue[t]] = new] ELSE tail

\* Faulty variant: the loop goes on without reading m_tail again.
SwingStaleTail(t) ==
    /\ Goto(t, "swing", "next")
    /\ CasTail(t, nextCap[t])
    /\ UNCHANGED <<poolVars, head, size, allocCnt, next, data, callVars, capVars,
                   taken>>

SwingTail(t) ==
    /\ Goto(t, "swing", "tail")
    /\ CasTail(t, nextCap[t])
    /\ UNCHANGED <<poolVars, head, size, allocCnt, next, data, callVars, capVars,
                   taken>>

Link(t) ==
    LET last == tailCap[t][1]
    IN  /\ Goto(t, "link", IF next[last] = nextCap[t] THEN "advance" ELSE "tail")
        /\ next' = IF next[last] = nextCap[t] THEN [next EXCEPT ![last] = node[t]]
                                              ELSE next
        /\ UNCHANGED <<poolVars, head, tail, size, allocCnt, data, callVars,
                       capVars, taken>>

AdvanceTail(t) ==
    /\ Goto(t, "advance", "count")
    /\ CasTail(t, node[t])
    /\ UNCHANGED <<poolVars, head, size, allocCnt, next, data, callVars, capVars,
                   taken>>

Count(t) ==
    /\ Return(t, "count")
    /\ size' = [size EXCEPT ![queue[t]] = @ + 1]
    /\ UNCHANGED <<poolVars, head, tail, allocCnt, next, data, given, taken>>

-----------------------------------------------------------------------------
(* Dequeue                                                                 *)

\* The caller reserves a value or finds that there is none left for it.
Reserve(t, q) ==
    /\ size' = [size EXCEPT ![q] = @ - 1]
    /\ Goto(t, "idle", IF size'[q] < 0 THEN "refuse" ELSE "takeHead")
    /\ queue' = [queue EXCEPT ![t] = q]
    /\ UNCHANGED <<poolVars, head, tail, allocCnt, next, data, value, node, given,
                   capVars, taken>>

\* Faulty variant: the decrement is not taken back.
RefuseUncounted(t) ==
    /\ Return(t, "refuse")
    /\ UNCHANGED <<poolVars, listVars, given, taken>>

Refuse(t) ==
    /\ Return(t, "refuse")
    /\ size' = [size EXCEPT ![queue[t]] = @ + 1]
    /\ UNCHANGED <<poolVars, head, tail, allocCnt, next, data, given, taken>>

TakeReadHead(t) ==
    /\ Goto(t, "takeHead", "takeTail")
    /\ headCap' = [headCap EXCEPT ![t] = head[queue[t]]]
    /\ UNCHANGED <<poolVars, listVars, callVars, tailCap, nextCap, taken>>

TakeReadTail(t) ==
    /\ Goto(t, "takeTail", "takeNext")
    /\ tailCap' = [tailCap EXCEPT ![t] = tail[queue[t]]]
    /\ UNCHANGED <<poolVars, listVars, callVars, headCap, nextCap, taken>>

\* A lagging m_tail is helped on in the same step.
TakeReadNext(t) ==
    LET new == next[headCap[t][1]]
        lags == new[1] # 0 /\ headCap[t] = tailCap[t]
    IN  /\ Goto(t, "takeNext", IF new[1] = 0 \/ lags THEN "takeHead" ELSE "takeData")
        /\ IF lags THEN CasTail(t, new) ELSE UNCHANGED tail
        /\ nextCap' = [nextCap EXCEPT ![t] = new]
        /\ UNCHANGED <<poolVars, head, size, allocCnt, next, data, callVars, headCap,
                       tailCap, taken>>

\* The data is copied before the node is taken, and perhaps in vain.
TakeReadData(t) ==
    /\ Goto(t, "takeData", "take")
    /\ value' = [value EXCEPT ![t] = data[nextCap[t][1]]]
    /\ UNCHANGED <<poolVars, listVars, queue, node, given, capVars, taken>>

\* Faulty variant: a store where the code compares and swaps.
TakeByStore(t) ==
    LET q == queue[t]
    IN  /\ Goto(t, "take", "free")
        /\ head' = [head EXCEPT ![q] = nextCap[t]]
        /\ taken' = [taken EXCEPT ![q] = Append(@, value[t])]
        /\ UNCHANGED <<poolVars, tail, size, allocCnt, next, data, callVars, capVars>>

Take(t) ==
    LET q == queue[t]
    IN  /\ Goto(t, "take", IF head[q] = headCap[t] THEN "free" ELSE "takeHead")
        /\ IF head[q] = headCap[t]
           THEN /\ head' = [head EXCEPT ![q] = nextCap[t]]
                /\ taken' = [taken EXCEPT ![q] = Append(@, value[t])]
           ELSE UNCHANGED <<head, taken>>
        /\ UNCHANGED <<poolVars, tail, size, allocCnt, next, data, callVars, capVars>>

\* Faulty variant: the node of the value is freed, which is the new dummy.
FreeNext(t) ==
    /\ Return(t, "free")
    /\ Free(t, nextCap[t][1])
    /\ UNCHANGED <<listVars, given, taken>>

FreeHead(t) ==
    /\ Return(t, "free")
    /\ Free(t, headCap[t][1])
    /\ UNCHANGED <<listVars, given, taken>>

-----------------------------------------------------------------------------
EnqueueStep(t) ==
    \/ \E q \in Queues : BeginEnqueue(t, q)
    \/ TagNode(t) \/ ReadTail(t) \/ ReadNext(t) \/ SwingTail(t)
    \/ Link(t) \/ AdvanceTail(t) \/ Count(t)

DequeueStep(t) ==
    \/ \E q \in Queues : Reserve(t, q)
    \/ Refuse(t) \/ TakeReadHead(t) \/ TakeReadTail(t) \/ TakeReadNext(t)
    \/ TakeReadData(t) \/ Take(t) \/ FreeHead(t)

Next ==
    \/ \E t \in Enqueuers : EnqueueStep(t)
    \/ \E t \in Dequeuers : DequeueStep(t)

Spec == Init /\ [][Next]_vars

\* A thread that is inside a call goes on.
FairSpec == Spec /\ \A t \in Threads :
                       WF_vars(pc[t] # "idle" /\ (EnqueueStep(t) \/ DequeueStep(t)))

-----------------------------------------------------------------------------
(* Properties                                                              *)

ReservedPcs == {"takeHead", "takeTail", "takeNext", "takeData", "take"}

At(q, places) == {t \in Threads : queue[t] = q /\ pc[t] \in places}

\* m_size, at every moment: what the queue holds less the nodes linked and not
\* yet counted, less the values reserved by a Dequeue and not yet taken, less
\* the callers about to be refused. (m_size is counted after the link.)
SizeExact ==
    \A q \in Queues :
        size[q] = Len(Contents(q)) - Cardinality(At(q, {"advance", "count"}))
                  - Cardinality(At(q, ReservedPcs)) - Cardinality(At(q, {"refuse"}))

\* A node of the pool has one owner: it is in the pool once, or linked in one
\* queue, or new in one Enqueue, or about to be freed by one Dequeue.
NodesApart ==
    \A n \in 1..created :
        1 = TimesPooled(n)
            + Cardinality({q \in Queues : n \in Chain(q)})
            + Cardinality({t \in Threads : /\ pc[t] \in {"tag", "tail", "next", "swing", "link"}
                                           /\ node[t][1] = n})
            + Cardinality({t \in Threads : pc[t] = "free" /\ headCap[t][1] = n})

\* Every call returns, whatever the other threads do (no Dequeue spins for ever).
CallsReturn == \A t \in Threads : pc[t] # "idle" ~> pc[t] = "idle"

\* The queues are FIFOs.
Fifo == INSTANCE CountedFifo WITH items <- [q \in Queues |-> Contents(q)]
FifoSpec == Fifo!Spec
=============================================================================
