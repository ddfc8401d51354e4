------------------------- MODULE LockFreeQueueProofs -------------------------
(***************************************************************************)
(* LockFreeQueue is a FIFO with an exact counter, and each of its nodes    *)
(* has one owner, for every number of threads, queues and values, as long  *)
(* as no compare-and-swap finds a pointer linked again with the same tag,  *)
(* and no Enqueue the node it is about to link to given to another one.    *)
(* The first holds while the tags have not come round, the second while no *)
(* Enqueue is held up until a whole list of freed nodes is handed over.    *)
(***************************************************************************)
EXTENDS LockFreeQueue, TLSObjectPoolProofs

\* A pointer with a node; any pointer (its node 0 is null).
Address == AllNodes \X Nat
Pointer == (AllNodes \cup {0}) \X Nat

\* While a node is an Enqueue's alone; while an Enqueue relies on the tail it read.
NewPcs == {"tag", "tail", "next", "swing", "link"}
TailPcs == {"next", "swing", "link", "advance"}
\* While a Dequeue relies on the head it read.
HeadPcs == {"takeTail", "takeNext", "takeData", "take"}
Pcs == {"idle", "advance", "count", "refuse", "free"} \cup NewPcs \cup ReservedPcs

Typed ==
    /\ head \in [Queues -> Pointer] /\ tail \in [Queues -> Pointer]
    /\ size \in [Queues -> Int] /\ allocCnt \in [Queues -> Nat]
    /\ next \in [AllNodes -> Pointer] /\ data \in [AllNodes -> Nat]
    /\ pc \in [Threads -> Pcs] /\ queue \in [Threads -> Queues \cup {0}]
    /\ \A t \in Threads : pc[t] # "idle" => queue[t] \in Queues
    /\ value \in [Threads -> Nat] /\ node \in [Threads -> Pointer]
    /\ headCap \in [Threads -> Pointer] /\ tailCap \in [Threads -> Pointer]
    /\ nextCap \in [Threads -> Pointer]
    /\ \A t \in Threads : pc[t] = "takeData" => nextCap[t] \in Address
    /\ given \in [Queues -> SUBSET Nat] /\ taken \in [Queues -> Seq(Nat)]
    /\ created <= QueueCount + MaxValue

\* The values given so far are those the numbering has reached.
GivenInOrder == \E g \in 0..MaxValue : UNION {given[q] : q \in Queues} = 1..g

\* The pointers ever linked to queue q are N[q][0], ..., N[q][hi[q]]: the dummy
\* is N[q][lo[q]], and those before it were taken.
Shape(N, lo, hi) ==
    /\ N \in [Queues -> [Nat -> Address]]
    /\ lo \in [Queues -> Nat] /\ hi \in [Queues -> Nat]
    /\ \A q \in Queues : lo[q] <= hi[q]

\* Next leads from each to the one after it, and from the last to null; m_tail may
\* lag.
Linked(N, lo, hi) ==
    \A q \in Queues :
        /\ head[q] = N[q][lo[q]]
        /\ \E j \in lo[q]..hi[q] : tail[q] = N[q][j]
        /\ next[N[q][hi[q]][1]][1] = 0
        /\ \A k \in lo[q]..hi[q] : k # hi[q] => next[N[q][k][1]] = N[q][k + 1]

\* The node that is a call's alone: new in an Enqueue, or taken by a Dequeue.
Own(t) == CASE pc[t] \in NewPcs -> node[t][1]
            [] pc[t] = "free" -> headCap[t][1]
            [] OTHER -> 0

\* n is a node of queue q; n is a queue's or a call's.
InQueue(N, lo, hi, q, n) == \E k \in lo[q]..hi[q] : N[q][k][1] = n
Used(N, lo, hi, n) ==
    (\E q \in Queues : InQueue(N, lo, hi, q, n)) \/ (n # 0 /\ \E t \in Threads : Own(t) = n)

\* A node is in the pool, or once in one queue, or one call's.
NodesOwned(N, lo, hi) ==
    /\ \A n : Used(N, lo, hi, n) <=> n \in 1..created /\ n \notin Pooled
    /\ \A q, r \in Queues : \A k \in lo[q]..hi[q], l \in lo[r]..hi[r] :
          N[q][k][1] = N[r][l][1] => q = r /\ k = l
    /\ \A t \in Threads, q \in Queues : \A k \in lo[q]..hi[q] : Own(t) # N[q][k][1]
    /\ \A t, u \in Threads : Own(t) = Own(u) /\ Own(t) # 0 => t = u

\* The values linked, taken and still to be linked are given ones, and those
\* still to be linked are each in one call's hands only.
ValuesCarried(N, lo, hi) ==
    /\ \A q \in Queues : \A k \in lo[q]..hi[q] : k # lo[q] => data[N[q][k][1]] \in given[q]
    /\ \A q \in Queues : \A i \in DOMAIN taken[q] : taken[q][i] \in given[q]
    /\ \A t \in Threads : pc[t] \in NewPcs =>
          /\ value[t] \in given[queue[t]] /\ data[node[t][1]] = value[t]
          /\ \A q \in Queues : \A k \in lo[q]..hi[q] : k # lo[q] => data[N[q][k][1]] # value[t]
          /\ \A q \in Queues : \A i \in DOMAIN taken[q] : taken[q][i] # value[t]
    /\ \A t, u \in Threads :
          pc[t] \in NewPcs /\ pc[u] \in NewPcs /\ value[t] = value[u] => t = u

\* No longer in a queue, and nothing can be linked to it.
Gone(N, lo, hi, n) ==
    /\ next[n][1] # 0 /\ \A q \in Queues : ~InQueue(N, lo, hi, q, n)
    /\ \A t \in Threads : pc[t] \in NewPcs => node[t][1] # n

\* What an Enqueue has read: the tail is in the queue, or gone for good; what
\* it will move m_tail to follows what it compares m_tail with.
EnqueueReads(N, lo, hi, t) ==
    LET q == queue[t]
    IN  /\ pc[t] \in NewPcs => node[t] \in Address /\ next[node[t][1]][1] = 0
        /\ pc[t] \in TailPcs => \E k \in 0..hi[q] : tailCap[t] = N[q][k]
        /\ pc[t] \in {"next", "link"} => \/ \E k \in lo[q]..hi[q] : tailCap[t] = N[q][k]
                                         \/ Gone(N, lo, hi, tailCap[t][1])
        /\ pc[t] = "link" => nextCap[t][1] = 0
        /\ pc[t] = "swing" => \A k \in lo[q]..hi[q] :
              tailCap[t] = N[q][k] => k # hi[q] /\ nextCap[t] = N[q][k + 1]
        /\ pc[t] = "advance" => \A k \in lo[q]..hi[q] :
              tailCap[t] = N[q][k] => k # hi[q] /\ node[t] = N[q][k + 1]

\* What a Dequeue has read: the head was the dummy once, and while it still is,
\* its Next and data are those read, and m_tail is ahead of it.
DequeueReads(N, lo, hi, t) ==
    LET q == queue[t]
    IN  /\ pc[t] \in HeadPcs => /\ \E k \in 0..lo[q] : headCap[t] = N[q][k]
                                /\ \A k \in lo[q]..hi[q] : k # lo[q] => headCap[t] # N[q][k]
        /\ pc[t] = "takeNext" /\ headCap[t] = head[q] /\ tail[q] = headCap[t]
              => tailCap[t] = headCap[t]
        /\ pc[t] \in {"takeData", "take"} /\ headCap[t] = head[q]
              => lo[q] # hi[q] /\ nextCap[t] = N[q][lo[q] + 1] /\ tail[q] # head[q]
        /\ pc[t] = "take" /\ headCap[t] = head[q] => value[t] = data[nextCap[t][1]]
        /\ pc[t] = "free" => headCap[t] \in Address

\* The callers that m_size does not count with: see SizeExact.
DebtPcs == {"advance", "count", "refuse"} \cup ReservedPcs
Counted(lo, hi) ==
    \A q \in Queues : size[q] = hi[q] - lo[q] - Cardinality(At(q, DebtPcs))

\* What the pointers N, from lo to hi, say of the state.
Core(N, lo, hi) ==
    /\ Shape(N, lo, hi) /\ Linked(N, lo, hi) /\ NodesOwned(N, lo, hi)
    /\ ValuesCarried(N, lo, hi) /\ Counted(lo, hi)
    /\ \A t \in Threads : EnqueueReads(N, lo, hi, t) /\ DequeueReads(N, lo, hi, t)

\* The inductive invariant.
IInv == Typed /\ PoolInv /\ GivenInOrder /\ \E N, lo, hi : Core(N, lo, hi)

\* The pointer that a compare-and-swap is about to find is not linked again.
NoTagReuse ==
    \A t, u \in Threads :
        pc[u] = "link" /\ queue[t] = queue[u] =>
            /\ pc[t] \in HeadPcs => headCap[t] # node[u]
            /\ pc[t] \in {"swing", "advance"} => tailCap[t] # node[u]

\* The node that an Enqueue is about to link to is not given to another one.
TailKept ==
    \A t, u \in Threads :
        pc[t] \in {"next", "link"} /\ pc[u] = "tag" => tailCap[t][1] # node[u][1]

-----------------------------------------------------------------------------
(* Nodes, pointers and threads.                                            *)

\* The numbers of the nodes.
LEMMA NodeFacts ==
    /\ QueueCount \in Nat \ {0} /\ MaxValue \in Nat /\ TagRange \in Nat \ {0}
    /\ AllNodes \subseteq Nat \ {0} /\ \A n \in Nat : n # 0 /\ n <= QueueCount + MaxValue => n \in AllNodes
    /\ Queues \subseteq AllNodes /\ 0 \notin Queues
    /\ \A p \in Address : p \in Pointer /\ p[1] \in AllNodes /\ p[1] # 0 /\ p[2] \in Nat
    /\ \A p \in Pointer : p[1] \in AllNodes \cup {0} /\ p[2] \in Nat /\ (p[1] # 0 => p \in Address)
    /\ Null \in Pointer /\ Null[1] = 0
<1>1. QueueCount \in Nat \ {0} /\ MaxValue \in Nat /\ TagRange \in Nat \ {0}
  BY QueueAssumption
<1>2. AllNodes \subseteq Nat \ {0} /\ \A n \in Nat : n # 0 /\ n <= QueueCount + MaxValue => n \in AllNodes
  BY <1>1 DEF AllNodes
<1>3. Queues \subseteq AllNodes /\ 0 \notin Queues
  BY <1>1 DEF AllNodes, Queues
<1>. QED  BY <1>1, <1>2, <1>3 DEF Address, Pointer, Null

\* SetCount keeps the node, and the count too while it is below TagRange.
LEMMA TaggedFacts ==
    ASSUME NEW n \in AllNodes \cup {0}, NEW c \in Nat
    PROVE  /\ Tagged(n, c) \in Pointer /\ Tagged(n, c)[1] = n
           /\ n \in AllNodes => Tagged(n, c) \in Address
           /\ c < TagRange => Tagged(n, c)[2] = c
<1>1. c % TagRange \in Nat
  BY NodeFacts
<1>2. c < TagRange => c % TagRange = c
  BY NodeFacts
<1>. QED  BY <1>1, <1>2 DEF Address, Pointer, Tagged

\* The threads that do not take a step keep their arguments and local variables.
OthersKept(t) ==
    \A u \in Threads \ {t} :
        /\ pc'[u] = pc[u] /\ queue'[u] = queue[u] /\ value'[u] = value[u] /\ node'[u] = node[u]
        /\ headCap'[u] = headCap[u] /\ tailCap'[u] = tailCap[u] /\ nextCap'[u] = nextCap[u]

\* Whether thread t is counted among those at S in a call on queue q.
IsAt(t, q, S) == IF queue[t] = q /\ pc[t] \in S THEN 1 ELSE 0

\* A step of one thread changes a number of threads at a label by one at most.
LEMMA AtStep ==
    ASSUME NEW t \in Threads, OthersKept(t), NEW q, NEW S
    PROVE  /\ Cardinality(At(q, S)) \in Nat /\ IsAt(t, q, S) \in {0, 1} /\ IsAt(t, q, S)' \in {0, 1}
           /\ Cardinality(At(q, S))' = Cardinality(At(q, S)) - IsAt(t, q, S) + IsAt(t, q, S)'
           /\ IsAt(t, q, S) <= Cardinality(At(q, S))
<1>. DEFINE A == At(q, S)  B == A \ {t}
<1>1. IsFiniteSet(A) /\ IsFiniteSet(B)
  <2>1. A \subseteq Threads /\ B \subseteq Threads
    BY DEF At
  <2>. QED  BY <2>1, PoolAssumption, FS_Subset
<1>2. /\ A = IF IsAt(t, q, S) = 1 THEN B \cup {t} ELSE B
      /\ A' = IF IsAt(t, q, S)' = 1 THEN B \cup {t} ELSE B
  BY DEF At, IsAt, OthersKept
<1>3. Cardinality(B) \in Nat /\ Cardinality(B \cup {t}) = Cardinality(B) + 1
  <2>1. t \notin B
    OBVIOUS
  <2>. QED  BY <1>1, <2>1, FS_AddElement, FS_CardinalityType
<1>4. IsAt(t, q, S) \in {0, 1} /\ IsAt(t, q, S)' \in {0, 1}
  BY DEF IsAt
<1>5. PICK b : b = Cardinality(B)
  OBVIOUS
<1>6. Cardinality(A) = b + IsAt(t, q, S)
  <2>1. CASE IsAt(t, q, S) = 1
    BY <2>1, <1>2, <1>3, <1>5
  <2>2. CASE IsAt(t, q, S) = 0
    BY <2>2, <1>2, <1>3, <1>5
  <2>. QED  BY <2>1, <2>2, <1>4
<1>7. Cardinality(A)' = b + IsAt(t, q, S)'
  <2>1. CASE IsAt(t, q, S)' = 1
    BY <2>1, <1>2, <1>3, <1>5
  <2>2. CASE IsAt(t, q, S)' = 0
    BY <2>2, <1>2, <1>3, <1>5
  <2>. QED  BY <2>1, <2>2, <1>4
<1>. HIDE DEF A, B
<1>8. /\ Cardinality(A) \in Nat /\ Cardinality(A)' = Cardinality(A) - IsAt(t, q, S) + IsAt(t, q, S)'
      /\ IsAt(t, q, S) <= Cardinality(A)
  BY <1>3, <1>4, <1>5, <1>6, <1>7
<1>. QED  BY <1>4, <1>8 DEF A

\* How much thread t adds to the debt of a queue.
Owed(t, q) == IF queue[t] = q /\ pc[t] \in DebtPcs THEN 1 ELSE 0

\* The same for the debt.
LEMMA DebtStep ==
    ASSUME NEW t \in Threads, OthersKept(t), NEW q
    PROVE  /\ Cardinality(At(q, DebtPcs)) \in Nat
           /\ Cardinality(At(q, DebtPcs))' = Cardinality(At(q, DebtPcs)) - Owed(t, q) + Owed(t, q)'
BY AtStep DEF Owed, IsAt

\* The counter moves with the debt and with the length.
SizeMoves(t, lo, hi, l, h) ==
    \A q \in Queues : size'[q] = size[q] + (h[q] - hi[q]) - (l[q] - lo[q])
                                    + Owed(t, q) - Owed(t, q)'

\* The counter stays right when it moves so.
LEMMA CountedStep ==
    ASSUME Typed, NEW lo, NEW hi, NEW l, NEW h, NEW t \in Threads, OthersKept(t),
           lo \in [Queues -> Nat], hi \in [Queues -> Nat],
           l \in [Queues -> Nat], h \in [Queues -> Nat], Counted(lo, hi),
           SizeMoves(t, lo, hi, l, h)
    PROVE  Counted(l, h)'
<1>. SUFFICES ASSUME NEW q \in Queues
     PROVE  size'[q] = h[q] - l[q] - Cardinality(At(q, DebtPcs))'
  BY DEF Counted
<1>1. PICK a, b, c, d : /\ a = Owed(t, q) /\ b = Owed(t, q)' /\ c = Cardinality(At(q, DebtPcs))
                        /\ d = Cardinality(At(q, DebtPcs))'
  OBVIOUS
<1>2. a \in {0, 1} /\ b \in {0, 1} /\ c \in Nat /\ d = c - a + b
  BY <1>1, DebtStep DEF Owed
<1>3. size[q] = hi[q] - lo[q] - c
  BY <1>1 DEF Counted
<1>4. size'[q] = size[q] + (h[q] - hi[q]) - (l[q] - lo[q]) + a - b
  BY <1>1 DEF SizeMoves
<1>5. size'[q] = h[q] - l[q] - d
  BY <1>2, <1>3, <1>4
<1>. QED  BY <1>1, <1>5

-----------------------------------------------------------------------------
(* Steps that leave the nodes, the queues and the owners alone.            *)

\* m_tail moves on along the queue.
TailMoves(N, lo, hi) ==
    \/ tail' = tail
    \/ \E q \in Queues : \E j \in lo[q]..hi[q] :
          j # hi[q] /\ tail[q] = N[q][j] /\ tail' = [tail EXCEPT ![q] = N[q][j + 1]]

\* What a call's node and value are, while they are its alone.
NewKept(t) ==
    /\ pc'[t] \in NewPcs <=> pc[t] \in NewPcs
    /\ pc[t] \in NewPcs => queue'[t] = queue[t] /\ value'[t] = value[t]
                           /\ node'[t][1] = node[t][1]

\* Positions in a queue are natural numbers and have nodes.
LEMMA Positions ==
    ASSUME NEW N, NEW lo, NEW hi, Shape(N, lo, hi), NEW q \in Queues
    PROVE  /\ lo[q] \in Nat /\ hi[q] \in Nat /\ lo[q] <= hi[q]
           /\ lo[q] \in lo[q]..hi[q] /\ hi[q] \in lo[q]..hi[q]
           /\ \A k \in Nat : N[q][k] \in Address /\ N[q][k] \in Pointer
           /\ \A k \in lo[q]..hi[q] : /\ k \in Nat /\ k \in 0..hi[q]
                                      /\ (k # hi[q] => k + 1 \in lo[q]..hi[q] /\ k + 1 # lo[q])
                                      /\ N[q][k] \in Address /\ N[q][k][1] \in AllNodes
           /\ \A k \in 0..hi[q] : k \in Nat /\ N[q][k] \in Address /\ N[q][k][1] \in AllNodes
<1>1. lo[q] \in Nat /\ hi[q] \in Nat /\ lo[q] <= hi[q] /\ N[q] \in [Nat -> Address]
  BY DEF Shape
<1>2. \A k \in Nat : N[q][k] \in Address /\ N[q][k] \in Pointer /\ N[q][k][1] \in AllNodes
  BY <1>1, NodeFacts
<1>3. \A k \in lo[q]..hi[q] : /\ k \in Nat /\ k \in 0..hi[q]
                              /\ (k # hi[q] => k + 1 \in lo[q]..hi[q] /\ k + 1 # lo[q])
  BY <1>1
<1>4. lo[q] \in lo[q]..hi[q] /\ hi[q] \in lo[q]..hi[q] /\ \A k \in 0..hi[q] : k \in Nat
  BY <1>1
<1>. QED  BY <1>1, <1>2, <1>3, <1>4

\* A queue has no pointer twice.
LEMMA PointersApart ==
    ASSUME NEW N, NEW lo, NEW hi, NodesOwned(N, lo, hi), NEW q \in Queues,
           NEW k \in lo[q]..hi[q], NEW l \in lo[q]..hi[q], N[q][k] = N[q][l]
    PROVE  k = l
BY DEF NodesOwned

\* m_tail does not come to the dummy.
LEMMA TailAhead ==
    ASSUME NEW N, NEW lo, NEW hi, Core(N, lo, hi), Typed, TailMoves(N, lo, hi), NEW q \in Queues
    PROVE  /\ tail'[q] = head[q] => tail[q] = head[q]
           /\ \E j \in lo[q]..hi[q] : tail'[q] = N[q][j]
<1>0. Shape(N, lo, hi) /\ NodesOwned(N, lo, hi) /\ head[q] = N[q][lo[q]]
  BY DEF Core, Linked
<1>a. \E j \in lo[q]..hi[q] : tail[q] = N[q][j]
  BY DEF Core, Linked
<1>1. CASE tail'[q] = tail[q]
  BY <1>a, <1>1
<1>2. CASE \E j \in lo[q]..hi[q] : j # hi[q] /\ tail'[q] = N[q][j + 1]
  <2>1. PICK j \in lo[q]..hi[q] : j # hi[q] /\ tail'[q] = N[q][j + 1]
    BY <1>2
  <2>2. j + 1 \in lo[q]..hi[q] /\ j + 1 # lo[q] /\ lo[q] \in lo[q]..hi[q]
    BY <1>0, <2>1, Positions
  <2>3. N[q][j + 1] # N[q][lo[q]]
    BY <1>0, <2>2, PointersApart
  <2>. QED  BY <1>0, <2>1, <2>2, <2>3
<1>3. tail'[q] = tail[q] \/ \E j \in lo[q]..hi[q] : j # hi[q] /\ tail'[q] = N[q][j + 1]
  BY DEF TailMoves, Typed
<1>. QED  BY <1>1, <1>2, <1>3

\* A step may write to the node that is its call's alone.
LEMMA OwnStep ==
    ASSUME NEW N, NEW lo, NEW hi, Core(N, lo, hi), Typed, NEW t \in Threads, OthersKept(t),
           UNCHANGED <<poolVars, head, data, given, taken>>, TailMoves(N, lo, hi),
           \A n \in AllNodes : next'[n] = next[n] \/ (pc[t] \in NewPcs /\ n = node[t][1]),
           Own(t)' = Own(t), NewKept(t), Counted(lo, hi)',
           EnqueueReads(N, lo, hi, t)', DequeueReads(N, lo, hi, t)'
    PROVE  Core(N, lo, hi)'
<1>0. Shape(N, lo, hi) /\ Linked(N, lo, hi) /\ NodesOwned(N, lo, hi) /\ ValuesCarried(N, lo, hi)
  BY DEF Core
<1>1. /\ head' = head /\ data' = data /\ given' = given /\ taken' = taken
      /\ Pooled' = Pooled /\ created' = created
  BY DEF poolVars, Pooled, InPool
<1>2. \A u \in Threads : Own(u)' = Own(u) /\ NewKept(u)
  BY DEF OthersKept, Own, NewKept
<1>3. Shape(N, lo, hi)'
  BY <1>0 DEF Shape
<1>4. \A q \in Queues : /\ tail'[q] = head[q] => tail[q] = head[q]
                        /\ \E j \in lo[q]..hi[q] : tail'[q] = N[q][j]
  BY TailAhead
<1>5. Linked(N, lo, hi)'
  <2>1. \A q \in Queues : \A k \in lo[q]..hi[q] : next'[N[q][k][1]] = next[N[q][k][1]]
    <3>1. pc[t] \in NewPcs => Own(t) = node[t][1]
      BY DEF Own, NewPcs
    <3>2. \A q \in Queues : \A k \in lo[q]..hi[q] : Own(t) # N[q][k][1]
      BY <1>0 DEF NodesOwned
    <3>3. \A q \in Queues : \A k \in lo[q]..hi[q] : N[q][k][1] \in AllNodes
      BY <1>0, Positions
    <3>. QED  BY <3>1, <3>2, <3>3
  <2>2. \A q \in Queues : hi[q] \in lo[q]..hi[q]
    BY <1>0, Positions
  <2>. QED  BY <1>0, <1>1, <1>4, <2>1, <2>2 DEF Linked
<1>6. \A n : Used(N, lo, hi, n)' <=> Used(N, lo, hi, n)
  BY <1>2 DEF Used, InQueue
<1>7. NodesOwned(N, lo, hi)'
  BY <1>0, <1>1, <1>2, <1>6 DEF NodesOwned
<1>8. ValuesCarried(N, lo, hi)'
  BY <1>0, <1>1, <1>2 DEF ValuesCarried, NewKept
<1>9. ASSUME NEW u \in Threads \ {t} PROVE EnqueueReads(N, lo, hi, u)' /\ DequeueReads(N, lo, hi, u)'
  <2>1. EnqueueReads(N, lo, hi, u) /\ DequeueReads(N, lo, hi, u)
    BY DEF Core
  <2>2. /\ pc'[u] = pc[u] /\ queue'[u] = queue[u] /\ value'[u] = value[u] /\ node'[u] = node[u]
        /\ headCap'[u] = headCap[u] /\ tailCap'[u] = tailCap[u] /\ nextCap'[u] = nextCap[u]
    BY DEF OthersKept
  <2>3. ASSUME NEW n \in AllNodes, Gone(N, lo, hi, n) PROVE Gone(N, lo, hi, n)'
    BY <2>3, <1>2 DEF Gone, InQueue, NewKept
  <2>4. EnqueueReads(N, lo, hi, u)'
    <3>1. pc[u] \in {"next", "link"} => tailCap[u][1] \in AllNodes
      <4>1. pc[u] \in {"next", "link"} => /\ queue[u] \in Queues
                                         /\ \E k \in 0..hi[queue[u]] : tailCap[u] = N[queue[u]][k]
        BY <2>1 DEF Typed, EnqueueReads, TailPcs
      <4>. QED  BY <4>1, <1>0, Positions
    <3>2. pc[u] \in NewPcs => next'[node[u][1]] = next[node[u][1]]
      <4>1. pc[t] \in NewPcs => Own(t) = node[t][1]
        BY DEF Own, NewPcs
      <4>2. pc[u] \in NewPcs => Own(u) = node[u][1] /\ node[u][1] \in AllNodes /\ node[u][1] # 0
        BY <2>1, NodeFacts DEF Own, NewPcs, EnqueueReads
      <4>. QED  BY <4>1, <4>2, <1>0 DEF NodesOwned
    <3>. QED  BY <2>1, <2>2, <2>3, <3>1, <3>2 DEF EnqueueReads
  <2>5. pc[u] # "idle" => queue[u] \in Queues
    BY DEF Typed
  <2>6. DequeueReads(N, lo, hi, u)'
    BY <1>1, <1>4, <2>1, <2>2, <2>5 DEF DequeueReads, HeadPcs
  <2>. QED  BY <2>4, <2>6
<1>. QED  BY <1>3, <1>5, <1>7, <1>8, <1>9 DEF Core

LEMMA QuietStep ==
    ASSUME NEW N, NEW lo, NEW hi, Core(N, lo, hi), Typed, NEW t \in Threads, OthersKept(t),
           UNCHANGED <<poolVars, head, next, data, given, taken>>, TailMoves(N, lo, hi),
           Own(t)' = Own(t), NewKept(t), Counted(lo, hi)',
           EnqueueReads(N, lo, hi, t)', DequeueReads(N, lo, hi, t)'
    PROVE  Core(N, lo, hi)'
<1>1. \A n \in AllNodes : next'[n] = next[n] \/ (pc[t] \in NewPcs /\ n = node[t][1])
  OBVIOUS
<1>. QED  BY <1>1, OwnStep

\* The counter of a step that owes as much as before and does not move it.
LEMMA SameCount ==
    ASSUME Typed, NEW N, NEW lo, NEW hi, Core(N, lo, hi), NEW t \in Threads, OthersKept(t),
           size' = size, queue'[t] = queue[t], pc'[t] \in DebtPcs <=> pc[t] \in DebtPcs
    PROVE  Counted(lo, hi)'
<1>1. SizeMoves(t, lo, hi, lo, hi)
  <2>. SUFFICES ASSUME NEW q \in Queues
       PROVE  size'[q] = size[q] + (hi[q] - hi[q]) - (lo[q] - lo[q]) + Owed(t, q) - Owed(t, q)'
    BY DEF SizeMoves
  <2>1. Owed(t, q)' = Owed(t, q) /\ Owed(t, q) \in Int
    BY DEF Owed
  <2>2. hi[q] \in Nat /\ lo[q] \in Nat /\ size[q] \in Int
    BY DEF Core, Shape, Typed
  <2>. QED  BY <2>1, <2>2
<1>2. Counted(lo, hi) /\ lo \in [Queues -> Nat] /\ hi \in [Queues -> Nat]
  BY DEF Core, Shape
<1>. QED  BY <1>1, <1>2, CountedStep

\* The calls' program counters fall into these classes.
LEMMA PcFacts ==
    /\ \A p \in NewPcs : p # "idle" /\ p # "free" /\ p \notin DebtPcs /\ p \notin HeadPcs
    /\ \A p \in HeadPcs : p \in DebtPcs /\ p # "free" /\ p # "idle"
BY DEF NewPcs, HeadPcs, DebtPcs, ReservedPcs

-----------------------------------------------------------------------------
(* The steps of Enqueue that change no list.                               *)

LEMMA ReadTailStep ==
    ASSUME NEW N, NEW lo, NEW hi, Core(N, lo, hi), Typed, NEW t \in Threads, ReadTail(t)
    PROVE  Core(N, lo, hi)'
<1>. USE DEF ReadTail, Goto, listVars, callVars, capVars
<1>1. OthersKept(t)
  BY DEF Typed, OthersKept
<1>2. /\ pc[t] = "tail" /\ pc'[t] = "next" /\ node'[t] = node[t] /\ queue'[t] = queue[t]
      /\ value'[t] = value[t] /\ tailCap'[t] = tail[queue[t]] /\ queue[t] \in Queues
  BY DEF Typed
<1>3. Own(t)' = Own(t) /\ NewKept(t)
  BY <1>2 DEF Own, NewKept, NewPcs
<1>4. Counted(lo, hi)'
  BY <1>1, <1>2, SameCount DEF DebtPcs, ReservedPcs
<1>5. EnqueueReads(N, lo, hi, t)'
  <2>1. \E j \in lo[queue[t]]..hi[queue[t]] : tail[queue[t]] = N[queue[t]][j]
    BY <1>2 DEF Core, Linked
  <2>2. \A k \in lo[queue[t]]..hi[queue[t]] : k \in 0..hi[queue[t]]
    BY <1>2, Positions DEF Core
  <2>3. node[t] \in Address /\ next[node[t][1]][1] = 0 /\ next' = next
    BY <1>2 DEF Core, EnqueueReads, NewPcs
  <2>. QED  BY <1>2, <2>1, <2>2, <2>3 DEF EnqueueReads
<1>6. DequeueReads(N, lo, hi, t)'
  BY <1>2 DEF DequeueReads, HeadPcs
<1>. QED  BY <1>1, <1>3, <1>4, <1>5, <1>6, QuietStep DEF TailMoves

LEMMA ReadNextStep ==
    ASSUME NEW N, NEW lo, NEW hi, Core(N, lo, hi), Typed, NEW t \in Threads, ReadNext(t)
    PROVE  Core(N, lo, hi)'
<1>. USE DEF ReadNext, Goto, listVars, callVars, capVars
<1>1. OthersKept(t)
  BY DEF Typed, OthersKept
<1>2. /\ pc[t] = "next" /\ pc'[t] = (IF next[tailCap[t][1]][1] # 0 THEN "swing" ELSE "link")
      /\ node'[t] = node[t] /\ queue'[t] = queue[t] /\ value'[t] = value[t]
      /\ tailCap'[t] = tailCap[t] /\ nextCap'[t] = next[tailCap[t][1]] /\ queue[t] \in Queues
      /\ next' = next
  BY DEF Typed
<1>3. Own(t)' = Own(t) /\ NewKept(t)
  BY <1>2 DEF Own, NewKept, NewPcs
<1>4. Counted(lo, hi)'
  BY <1>1, <1>2, SameCount DEF DebtPcs, ReservedPcs
<1>5. EnqueueReads(N, lo, hi, t)'
  <2>. HIDE DEF ReadNext, Goto, listVars, callVars, capVars
  <2>1. /\ node[t] \in Address /\ next[node[t][1]][1] = 0
        /\ \E k \in 0..hi[queue[t]] : tailCap[t] = N[queue[t]][k]
        /\ \/ \E k \in lo[queue[t]]..hi[queue[t]] : tailCap[t] = N[queue[t]][k]
           \/ Gone(N, lo, hi, tailCap[t][1])
    BY <1>2 DEF Core, EnqueueReads, NewPcs, TailPcs
  <2>2. Gone(N, lo, hi, tailCap[t][1]) => Gone(N, lo, hi, tailCap[t][1])'
    <3>1. \A u \in Threads : NewKept(u)
      BY <1>1, <1>3 DEF OthersKept, NewKept
    <3>2. \A u \in Threads : pc'[u] \in NewPcs => pc[u] \in NewPcs /\ node'[u][1] = node[u][1]
      BY <3>1 DEF NewKept
    <3>. QED  BY <1>2, <3>2 DEF Gone, InQueue
  <2>3. \A k \in lo[queue[t]]..hi[queue[t]] : tailCap[t] = N[queue[t]][k] =>
            IF k = hi[queue[t]] THEN next[tailCap[t][1]][1] = 0
                                ELSE next[tailCap[t][1]] = N[queue[t]][k + 1]
    <3>1. Linked(N, lo, hi) /\ queue[t] \in Queues
      BY <1>2 DEF Core
    <3>. QED  BY <3>1, SMTT(30) DEF Linked
  <2>4. CASE next[tailCap[t][1]][1] # 0
    <3>1. pc'[t] = "swing"
      BY <1>2, <2>4
    <3>2. \A k \in lo[queue[t]]..hi[queue[t]] : tailCap[t] = N[queue[t]][k] =>
              k # hi[queue[t]] /\ nextCap'[t] = N[queue[t]][k + 1]
      <4>1. nextCap'[t] = next[tailCap[t][1]]
        BY <1>2, SMTT(30)
      <4>. QED  BY <4>1, <2>3, <2>4
    <3>. QED  BY <1>2, <2>1, <3>1, <3>2 DEF EnqueueReads
  <2>5. CASE next[tailCap[t][1]][1] = 0
    <3>1. pc'[t] = "link" /\ nextCap'[t][1] = 0
      BY <1>2, <2>5
    <3>2. \/ \E k \in lo[queue[t]]..hi[queue[t]] : tailCap'[t] = N[queue[t]][k]
          \/ Gone(N, lo, hi, tailCap[t][1])'
      BY <1>2, <2>1, <2>2
    <3>. QED  BY <1>2, <2>1, <3>1, <3>2 DEF EnqueueReads
  <2>. QED  BY <2>4, <2>5
<1>6. DequeueReads(N, lo, hi, t)'
  BY <1>2 DEF DequeueReads, HeadPcs
<1>. QED  BY <1>1, <1>3, <1>4, <1>5, <1>6, QuietStep DEF TailMoves

\* If m_tail is what the call read, the call moves it on.
LEMMA CasTailMoves ==
    ASSUME NEW N, NEW lo, NEW hi, Core(N, lo, hi), Typed, NEW t \in Threads, queue[t] \in Queues,
           NEW new, CasTail(t, new),
           \A k \in lo[queue[t]]..hi[queue[t]] :
               tailCap[t] = N[queue[t]][k] => k # hi[queue[t]] /\ new = N[queue[t]][k + 1]
    PROVE  TailMoves(N, lo, hi)
<1>1. PICK j \in lo[queue[t]]..hi[queue[t]] : tail[queue[t]] = N[queue[t]][j]
  BY DEF Core, Linked
<1>2. CASE tail[queue[t]] = tailCap[t]
  BY <1>1, <1>2 DEF CasTail, TailMoves
<1>3. CASE tail[queue[t]] # tailCap[t]
  BY <1>3 DEF CasTail, TailMoves
<1>. QED  BY <1>2, <1>3

LEMMA SwingTailStep ==
    ASSUME NEW N, NEW lo, NEW hi, Core(N, lo, hi), Typed, NEW t \in Threads, SwingTail(t)
    PROVE  Core(N, lo, hi)'
<1>. USE DEF SwingTail, Goto, listVars, callVars, capVars
<1>1. OthersKept(t)
  BY DEF Typed, OthersKept
<1>2. /\ pc[t] = "swing" /\ pc'[t] = "tail" /\ node'[t] = node[t] /\ queue'[t] = queue[t]
      /\ value'[t] = value[t] /\ queue[t] \in Queues
  BY DEF Typed
<1>3. Own(t)' = Own(t) /\ NewKept(t)
  BY <1>2 DEF Own, NewKept, NewPcs
<1>4. Counted(lo, hi)'
  BY <1>1, <1>2, SameCount DEF DebtPcs, ReservedPcs
<1>5. /\ node[t] \in Address /\ next[node[t][1]][1] = 0 /\ next' = next
      /\ \A k \in lo[queue[t]]..hi[queue[t]] :
            tailCap[t] = N[queue[t]][k] => k # hi[queue[t]] /\ nextCap[t] = N[queue[t]][k + 1]
  BY <1>2 DEF Core, EnqueueReads, NewPcs
<1>6. EnqueueReads(N, lo, hi, t)' /\ DequeueReads(N, lo, hi, t)'
  BY <1>2, <1>5 DEF EnqueueReads, DequeueReads, HeadPcs, TailPcs
<1>7. TailMoves(N, lo, hi)
  BY <1>2, <1>5, CasTailMoves
<1>. QED  BY <1>1, <1>3, <1>4, <1>6, <1>7, QuietStep

LEMMA AdvanceTailStep ==
    ASSUME NEW N, NEW lo, NEW hi, Core(N, lo, hi), Typed, NEW t \in Threads, AdvanceTail(t)
    PROVE  Core(N, lo, hi)'
<1>. USE DEF AdvanceTail, Goto, listVars, callVars, capVars
<1>1. OthersKept(t)
  BY DEF Typed, OthersKept
<1>2. /\ pc[t] = "advance" /\ pc'[t] = "count" /\ queue'[t] = queue[t] /\ queue[t] \in Queues
  BY DEF Typed
<1>3. Own(t)' = Own(t) /\ NewKept(t)
  BY <1>2 DEF Own, NewKept, NewPcs
<1>4. Counted(lo, hi)'
  BY <1>1, <1>2, SameCount DEF DebtPcs, ReservedPcs
<1>5. \A k \in lo[queue[t]]..hi[queue[t]] :
          tailCap[t] = N[queue[t]][k] => k # hi[queue[t]] /\ node[t] = N[queue[t]][k + 1]
  BY <1>2 DEF Core, EnqueueReads
<1>6. EnqueueReads(N, lo, hi, t)' /\ DequeueReads(N, lo, hi, t)'
  BY <1>2 DEF EnqueueReads, DequeueReads, HeadPcs, TailPcs, NewPcs
<1>7. TailMoves(N, lo, hi)
  BY <1>2, <1>5, CasTailMoves
<1>. QED  BY <1>1, <1>3, <1>4, <1>6, <1>7, QuietStep

\* The queue has changed since the call read its tail.
LEMMA LinkAgainStep ==
    ASSUME NEW N, NEW lo, NEW hi, Core(N, lo, hi), Typed, NEW t \in Threads, Link(t),
           next[tailCap[t][1]] # nextCap[t]
    PROVE  Core(N, lo, hi)'
<1>. USE DEF Link, Goto, listVars, callVars, capVars
<1>1. OthersKept(t)
  BY DEF Typed, OthersKept
<1>2. /\ pc[t] = "link" /\ pc'[t] = "tail" /\ node'[t] = node[t] /\ queue'[t] = queue[t]
      /\ value'[t] = value[t] /\ queue[t] \in Queues
  BY DEF Typed
<1>3. Own(t)' = Own(t) /\ NewKept(t)
  BY <1>2 DEF Own, NewKept, NewPcs
<1>4. Counted(lo, hi)'
  BY <1>1, <1>2, SameCount DEF DebtPcs, ReservedPcs
<1>5. node[t] \in Address /\ next[node[t][1]][1] = 0 /\ next' = next
  BY <1>2 DEF Core, EnqueueReads, NewPcs
<1>6. EnqueueReads(N, lo, hi, t)' /\ DequeueReads(N, lo, hi, t)'
  BY <1>2, <1>5 DEF EnqueueReads, DequeueReads, HeadPcs, TailPcs
<1>. QED  BY <1>1, <1>3, <1>4, <1>6, QuietStep DEF TailMoves

\* The calls that return: the counter goes up by what the call owes.
LEMMA CountUpStep ==
    ASSUME NEW N, NEW lo, NEW hi, Core(N, lo, hi), Typed, NEW t \in Threads,
           Count(t) \/ Refuse(t)
    PROVE  Core(N, lo, hi)'
<1>. USE DEF Count, Refuse, Return, Goto
<1>1. OthersKept(t)
  BY DEF Typed, OthersKept
<1>2. /\ pc[t] \in {"count", "refuse"} /\ pc'[t] = "idle" /\ queue[t] \in Queues /\ queue'[t] = 0
      /\ size' = [size EXCEPT ![queue[t]] = size[queue[t]] + 1]
      /\ UNCHANGED <<poolVars, head, tail, next, data, given, taken>>
  BY DEF Typed
<1>3. Own(t)' = Own(t) /\ NewKept(t)
  BY <1>2 DEF Own, NewKept, NewPcs
<1>4. Counted(lo, hi)'
  <2>1. SizeMoves(t, lo, hi, lo, hi)
    <3>. SUFFICES ASSUME NEW q \in Queues
         PROVE  size'[q] = size[q] + (hi[q] - hi[q]) - (lo[q] - lo[q]) + Owed(t, q) - Owed(t, q)'
      BY DEF SizeMoves
    <3>1. Owed(t, q)' = 0 /\ Owed(t, q) = IF q = queue[t] THEN 1 ELSE 0
      BY <1>2, NodeFacts DEF Owed, DebtPcs, ReservedPcs
    <3>2. hi[q] \in Nat /\ lo[q] \in Nat /\ size[q] \in Int
      BY DEF Core, Shape, Typed
    <3>3. size'[q] = IF q = queue[t] THEN size[q] + 1 ELSE size[q]
      BY <1>2 DEF Typed
    <3>. QED  BY <3>1, <3>2, <3>3
  <2>2. Counted(lo, hi) /\ lo \in [Queues -> Nat] /\ hi \in [Queues -> Nat]
    BY DEF Core, Shape
  <2>. QED  BY <1>1, <2>1, <2>2, CountedStep
<1>5. EnqueueReads(N, lo, hi, t)' /\ DequeueReads(N, lo, hi, t)'
  BY <1>2 DEF EnqueueReads, DequeueReads, HeadPcs, TailPcs, NewPcs
<1>. QED  BY <1>1, <1>2, <1>3, <1>4, <1>5, QuietStep DEF TailMoves

-----------------------------------------------------------------------------
(* The steps of Dequeue that change no list.                               *)

LEMMA ReserveStep ==
    ASSUME NEW N, NEW lo, NEW hi, Core(N, lo, hi), Typed, NEW t \in Threads, NEW r \in Queues,
           Reserve(t, r)
    PROVE  Core(N, lo, hi)'
<1>. USE DEF Reserve, Goto, capVars
<1>1. OthersKept(t)
  BY DEF Typed, OthersKept
<1>2. /\ pc[t] = "idle" /\ pc'[t] \in {"refuse", "takeHead"} /\ queue'[t] = r
      /\ size' = [size EXCEPT ![r] = size[r] - 1]
      /\ UNCHANGED <<poolVars, head, tail, next, data, given, taken>>
  BY DEF Typed
<1>3. Own(t)' = Own(t) /\ NewKept(t)
  BY <1>2 DEF Own, NewKept, NewPcs
<1>4. Counted(lo, hi)'
  <2>1. SizeMoves(t, lo, hi, lo, hi)
    <3>. SUFFICES ASSUME NEW q \in Queues
         PROVE  size'[q] = size[q] + (hi[q] - hi[q]) - (lo[q] - lo[q]) + Owed(t, q) - Owed(t, q)'
      BY DEF SizeMoves
    <3>1. Owed(t, q) = 0 /\ Owed(t, q)' = IF q = r THEN 1 ELSE 0
      BY <1>2 DEF Owed, DebtPcs, ReservedPcs
    <3>2. hi[q] \in Nat /\ lo[q] \in Nat /\ size[q] \in Int
      BY DEF Core, Shape, Typed
    <3>3. size'[q] = IF q = r THEN size[q] - 1 ELSE size[q]
      BY <1>2 DEF Typed
    <3>. QED  BY <3>1, <3>2, <3>3
  <2>2. Counted(lo, hi) /\ lo \in [Queues -> Nat] /\ hi \in [Queues -> Nat]
    BY DEF Core, Shape
  <2>. QED  BY <1>1, <2>1, <2>2, CountedStep
<1>5. EnqueueReads(N, lo, hi, t)' /\ DequeueReads(N, lo, hi, t)'
  BY <1>2 DEF EnqueueReads, DequeueReads, HeadPcs, TailPcs, NewPcs
<1>. QED  BY <1>1, <1>2, <1>3, <1>4, <1>5, QuietStep DEF TailMoves

LEMMA TakeReadHeadStep ==
    ASSUME NEW N, NEW lo, NEW hi, Core(N, lo, hi), Typed, NEW t \in Threads, TakeReadHead(t)
    PROVE  Core(N, lo, hi)'
<1>. USE DEF TakeReadHead, Goto, listVars, callVars, capVars
<1>1. OthersKept(t)
  BY DEF Typed, OthersKept
<1>2. /\ pc[t] = "takeHead" /\ pc'[t] = "takeTail" /\ queue'[t] = queue[t] /\ queue[t] \in Queues
      /\ headCap'[t] = head[queue[t]]
  BY DEF Typed
<1>3. Own(t)' = Own(t) /\ NewKept(t)
  BY <1>2 DEF Own, NewKept, NewPcs
<1>4. Counted(lo, hi)'
  BY <1>1, <1>2, SameCount DEF DebtPcs, ReservedPcs
<1>5. EnqueueReads(N, lo, hi, t)'
  BY <1>2 DEF EnqueueReads, TailPcs, NewPcs
<1>6. DequeueReads(N, lo, hi, t)'
  <2>1. headCap'[t] = N[queue[t]][lo[queue[t]]]
    BY <1>2 DEF Core, Linked
  <2>2. lo[queue[t]] \in 0..lo[queue[t]] /\ lo[queue[t]] \in lo[queue[t]]..hi[queue[t]]
    BY <1>2 DEF Core, Shape
  <2>3. \A k \in lo[queue[t]]..hi[queue[t]] : k # lo[queue[t]] => headCap'[t] # N[queue[t]][k]
    BY <1>2, <2>1, <2>2, PointersApart DEF Core
  <2>. QED  BY <1>2, <2>1, <2>2, <2>3 DEF DequeueReads
<1>. QED  BY <1>1, <1>3, <1>4, <1>5, <1>6, QuietStep DEF TailMoves

LEMMA TakeReadTailStep ==
    ASSUME NEW N, NEW lo, NEW hi, Core(N, lo, hi), Typed, NEW t \in Threads, TakeReadTail(t)
    PROVE  Core(N, lo, hi)'
<1>. USE DEF TakeReadTail, Goto, listVars, callVars, capVars
<1>1. OthersKept(t)
  BY DEF Typed, OthersKept
<1>2. /\ pc[t] = "takeTail" /\ pc'[t] = "takeNext" /\ queue'[t] = queue[t] /\ queue[t] \in Queues
      /\ headCap'[t] = headCap[t] /\ tailCap'[t] = tail[queue[t]] /\ tail' = tail
  BY DEF Typed
<1>3. Own(t)' = Own(t) /\ NewKept(t)
  BY <1>2 DEF Own, NewKept, NewPcs
<1>4. Counted(lo, hi)'
  BY <1>1, <1>2, SameCount DEF DebtPcs, ReservedPcs
<1>5. EnqueueReads(N, lo, hi, t)'
  BY <1>2 DEF EnqueueReads, TailPcs, NewPcs
<1>6. DequeueReads(N, lo, hi, t)'
  <2>1. DequeueReads(N, lo, hi, t)
    BY DEF Core
  <2>. QED  BY <1>2, <2>1 DEF DequeueReads, HeadPcs
<1>. QED  BY <1>1, <1>3, <1>4, <1>5, <1>6, QuietStep DEF TailMoves

\* A Dequeue that moves m_tail on finds it at the dummy.
LEMMA TakeReadNextStep ==
    ASSUME NEW N, NEW lo, NEW hi, Core(N, lo, hi), Typed, NEW t \in Threads, TakeReadNext(t)
    PROVE  Core(N, lo, hi)'
<1>. USE DEF TakeReadNext, Goto, listVars, callVars, capVars
<1>q. PICK q : q = queue[t]
  OBVIOUS
<1>n. PICK new : new = next[headCap[t][1]]
  OBVIOUS
<1>1. OthersKept(t)
  BY DEF Typed, OthersKept
<1>2. /\ pc[t] = "takeNext" /\ queue'[t] = q /\ q \in Queues
      /\ headCap'[t] = headCap[t] /\ nextCap'[t] = new /\ tailCap'[t] = tailCap[t]
      /\ head' = head /\ next' = next
  BY <1>q, <1>n DEF Typed
<1>3. /\ pc'[t] \in {"takeHead", "takeData"}
      /\ pc'[t] = "takeData" => new[1] # 0 /\ headCap[t] # tailCap[t] /\ tail' = tail
      /\ tail' = tail \/ (new[1] # 0 /\ headCap[t] = tailCap[t] /\ CasTail(t, new))
  BY <1>n DEF Typed
<1>4. Own(t)' = Own(t) /\ NewKept(t)
  BY <1>2, <1>3 DEF Own, NewKept, NewPcs
<1>5. Counted(lo, hi)'
  BY <1>q, <1>1, <1>2, <1>3, SameCount DEF DebtPcs, ReservedPcs
<1>6. EnqueueReads(N, lo, hi, t)'
  BY <1>3 DEF EnqueueReads, TailPcs, NewPcs
<1>7. /\ \E k \in 0..lo[q] : headCap[t] = N[q][k]
      /\ \A k \in lo[q]..hi[q] : k # lo[q] => headCap[t] # N[q][k]
      /\ headCap[t] = head[q] /\ tail[q] = headCap[t] => tailCap[t] = headCap[t]
  BY <1>q, <1>2 DEF Core, DequeueReads, HeadPcs
<1>8. /\ head[q] = N[q][lo[q]] /\ next[N[q][hi[q]][1]][1] = 0
      /\ \A k \in lo[q]..hi[q] : k # hi[q] => next[N[q][k][1]] = N[q][k + 1]
  BY <1>2 DEF Core, Linked
<1>9. DequeueReads(N, lo, hi, t)'
  <2>. HIDE DEF TakeReadNext, Goto, listVars, callVars, capVars
  <2>1. CASE pc'[t] = "takeHead"
    BY <2>1 DEF DequeueReads, HeadPcs
  <2>2. CASE pc'[t] = "takeData"
    <3>1. ASSUME headCap[t] = head[q]
          PROVE  lo[q] # hi[q] /\ new = N[q][lo[q] + 1] /\ tail[q] # head[q]
      <4>1. lo[q] \in lo[q]..hi[q] /\ new = next[N[q][lo[q]][1]] /\ new[1] # 0
        BY <1>2, <1>3, <1>8, <1>n, <2>2, <3>1, Positions DEF Core
      <4>2. lo[q] # hi[q]
        BY <1>8, <4>1
      <4>3. new = N[q][lo[q] + 1]
        BY <1>8, <4>1, <4>2
      <4>4. tail[q] # head[q]
        BY <1>3, <1>7, <2>2, <3>1
      <4>. QED  BY <4>2, <4>3, <4>4
    <3>. QED  BY <1>2, <1>3, <1>7, <2>2, <3>1, SMTT(30) DEF DequeueReads
  <2>. QED  BY <1>3, <2>1, <2>2
<1>10. TailMoves(N, lo, hi)
  <2>1. CASE tail' = tail
    BY <2>1 DEF TailMoves
  <2>2. CASE new[1] # 0 /\ headCap[t] = tailCap[t] /\ CasTail(t, new)
    <3>1. \A k \in lo[q]..hi[q] : tailCap[t] = N[q][k] => k # hi[q] /\ new = N[q][k + 1]
      BY <2>2, <1>7, <1>8, <1>n
    <3>. QED  BY <2>2, <3>1, <1>2, <1>q, CasTailMoves
  <2>. QED  BY <1>3, <2>1, <2>2
<1>. QED  BY <1>1, <1>4, <1>5, <1>6, <1>9, <1>10, QuietStep

LEMMA TakeReadDataStep ==
    ASSUME NEW N, NEW lo, NEW hi, Core(N, lo, hi), Typed, NEW t \in Threads, TakeReadData(t)
    PROVE  Core(N, lo, hi)'
<1>. USE DEF TakeReadData, Goto, listVars, callVars, capVars
<1>1. OthersKept(t)
  BY DEF Typed, OthersKept
<1>2. /\ pc[t] = "takeData" /\ pc'[t] = "take" /\ queue'[t] = queue[t] /\ queue[t] \in Queues
      /\ headCap'[t] = headCap[t] /\ nextCap'[t] = nextCap[t] /\ value'[t] = data[nextCap[t][1]]
      /\ head' = head /\ tail' = tail /\ data' = data
  BY DEF Typed
<1>3. Own(t)' = Own(t) /\ NewKept(t)
  BY <1>2 DEF Own, NewKept, NewPcs
<1>4. Counted(lo, hi)'
  BY <1>1, <1>2, SameCount DEF DebtPcs, ReservedPcs
<1>5. EnqueueReads(N, lo, hi, t)'
  BY <1>2 DEF EnqueueReads, TailPcs, NewPcs
<1>6. DequeueReads(N, lo, hi, t)'
  <2>1. DequeueReads(N, lo, hi, t)
    BY DEF Core
  <2>. QED  BY <1>2, <2>1 DEF DequeueReads, HeadPcs
<1>. QED  BY <1>1, <1>3, <1>4, <1>5, <1>6, QuietStep DEF TailMoves

\* Another Dequeue was first.
LEMMA TakeAgainStep ==
    ASSUME NEW N, NEW lo, NEW hi, Core(N, lo, hi), Typed, NEW t \in Threads, Take(t),
           head[queue[t]] # headCap[t]
    PROVE  Core(N, lo, hi)'
<1>. USE DEF Take, Goto, listVars, callVars, capVars
<1>1. OthersKept(t)
  BY DEF Typed, OthersKept
<1>2. pc[t] = "take" /\ pc'[t] = "takeHead" /\ queue'[t] = queue[t] /\ queue[t] \in Queues
  BY DEF Typed
<1>3. Own(t)' = Own(t) /\ NewKept(t)
  BY <1>2 DEF Own, NewKept, NewPcs
<1>4. Counted(lo, hi)'
  BY <1>1, <1>2, SameCount DEF DebtPcs, ReservedPcs
<1>5. EnqueueReads(N, lo, hi, t)' /\ DequeueReads(N, lo, hi, t)'
  BY <1>2 DEF EnqueueReads, DequeueReads, HeadPcs, TailPcs, NewPcs
<1>. QED  BY <1>1, <1>3, <1>4, <1>5, QuietStep DEF TailMoves

-----------------------------------------------------------------------------
(* The steps that give a node to a call or take it back.                   *)

\* The owner of a node in use: what the pool's lemmas ask for and give.
LEMMA OwnFacts ==
    ASSUME NEW N, NEW lo, NEW hi, Core(N, lo, hi), Typed, NEW t \in Threads,
           pc[t] \in NewPcs \/ pc[t] = "free"
    PROVE  /\ Own(t) \in AllNodes /\ Own(t) # 0 /\ Own(t) \in 1..created /\ Own(t) \notin Pooled
           /\ pc[t] \in NewPcs => Own(t) = node[t][1] /\ node[t] \in Address
           /\ pc[t] = "free" => Own(t) = headCap[t][1] /\ headCap[t] \in Address
           /\ \A q \in Queues : \A k \in lo[q]..hi[q] : N[q][k][1] # Own(t)
           /\ \A u \in Threads \ {t} : Own(u) # Own(t)
<1>1. /\ pc[t] \in NewPcs => Own(t) = node[t][1] /\ node[t] \in Address
      /\ pc[t] = "free" => Own(t) = headCap[t][1] /\ headCap[t] \in Address
  BY PcFacts DEF Own, Core, EnqueueReads, DequeueReads
<1>2. Own(t) \in AllNodes /\ Own(t) # 0
  BY <1>1, NodeFacts
<1>3. Used(N, lo, hi, Own(t))
  BY <1>2 DEF Used
<1>. QED  BY <1>1, <1>2, <1>3 DEF Core, NodesOwned

LEMMA NextValueIs ==
    ASSUME GivenInOrder
    PROVE  \E g \in 0..MaxValue : UNION {given[q] : q \in Queues} = 1..g /\ NextValue = g + 1
<1>1. PICK g \in 0..MaxValue : UNION {given[q] : q \in Queues} = 1..g
  BY DEF GivenInOrder
<1>2. g \in Nat /\ Cardinality(1..g) = g
  BY FS_Interval, NodeFacts
<1>. QED  BY <1>1, <1>2 DEF NextValue

LEMMA TagNodeStep ==
    ASSUME NEW N, NEW lo, NEW hi, Core(N, lo, hi), Typed, NEW t \in Threads, TagNode(t)
    PROVE  Core(N, lo, hi)'
<1>. USE DEF TagNode, Goto, capVars
<1>1. OthersKept(t)
  BY DEF Typed, OthersKept
<1>2. /\ pc[t] = "tag" /\ pc'[t] = "tail" /\ queue'[t] = queue[t] /\ queue[t] \in Queues
      /\ value'[t] = value[t] /\ node'[t] = Tagged(node[t][1], allocCnt[queue[t]] + 1)
      /\ next' = [next EXCEPT ![node[t][1]] = Tagged(0, queue[t])]
  BY DEF Typed
<1>3. node[t][1] \in AllNodes
  BY <1>2, OwnFacts DEF NewPcs
<1>4. node'[t] \in Address /\ node'[t][1] = node[t][1] /\ next'[node[t][1]][1] = 0
  <2>1. allocCnt[queue[t]] + 1 \in Nat
    BY <1>2 DEF Typed
  <2>2. node'[t] \in Address /\ node'[t][1] = node[t][1]
    BY <1>2, <1>3, <2>1, TaggedFacts
  <2>3. Tagged(0, queue[t])[1] = 0
    BY DEF Tagged
  <2>. QED  BY <1>2, <1>3, <2>2, <2>3 DEF Typed
<1>5. Own(t)' = Own(t) /\ NewKept(t)
  BY <1>2, <1>4 DEF Own, NewKept, NewPcs
<1>6. Counted(lo, hi)'
  BY <1>1, <1>2, SameCount DEF DebtPcs, ReservedPcs
<1>7. EnqueueReads(N, lo, hi, t)' /\ DequeueReads(N, lo, hi, t)'
  BY <1>2, <1>4 DEF EnqueueReads, DequeueReads, HeadPcs, TailPcs
<1>8. \A n \in AllNodes : next'[n] = next[n] \/ (pc[t] \in NewPcs /\ n = node[t][1])
  BY <1>2 DEF Typed, NewPcs
<1>. QED  BY <1>1, <1>5, <1>6, <1>7, <1>8, OwnStep DEF TailMoves

\* The node comes from the pool, or is new, and nobody is about to link to it.
LEMMA BeginEnqueueStep ==
    ASSUME NEW N, NEW lo, NEW hi, Core(N, lo, hi), Typed, PoolInv, GivenInOrder, TailKept',
           NEW t \in Threads, NEW r \in Queues, BeginEnqueue(t, r)
    PROVE  /\ Core(N, lo, hi)' /\ PoolInv' /\ NextValue \in Values
           /\ \A q \in Queues : \A k \in lo[q]..hi[q] : data'[N[q][k][1]] = data[N[q][k][1]]
           /\ \A q \in Queues : NextValue \notin given[q]
<1>. USE DEF Goto, capVars
<1>g. PICK g \in 0..MaxValue : UNION {given[q] : q \in Queues} = 1..g /\ NextValue = g + 1
  BY NextValueIs
<1>v. PICK v : v = NextValue
  OBVIOUS
<1>n. PICK n \in AllNodes : /\ Alloc(t, n) /\ data' = [data EXCEPT ![n] = v]
                            /\ next' = [next EXCEPT ![n] = Null]
                            /\ node' = [node EXCEPT ![t] = <<n, 0>>]
  BY <1>v DEF BeginEnqueue
<1>0. Shape(N, lo, hi) /\ Linked(N, lo, hi) /\ NodesOwned(N, lo, hi) /\ ValuesCarried(N, lo, hi)
  BY DEF Core
<1>1. OthersKept(t)
  BY <1>n DEF Typed, OthersKept, BeginEnqueue
<1>2. /\ pc[t] = "idle" /\ pc'[t] = "tag" /\ queue'[t] = r /\ value'[t] = v
      /\ node'[t] = <<n, 0>> /\ given' = [given EXCEPT ![r] = given[r] \cup {v}]
      /\ UNCHANGED <<head, tail, size, taken>>
  BY <1>n, <1>v DEF Typed, BeginEnqueue
<1>3. /\ PoolInv' /\ Pooled' = Pooled \ {n}
      /\ \/ n \in Pooled /\ created' = created
         \/ n = created + 1 /\ created' = created + 1
  BY <1>n, AllocTakesOut
<1>4. created \in Nat /\ Pooled \subseteq 1..created
  BY DEF PoolInv, PoolTyped
<1>5. /\ ~Used(N, lo, hi, n) /\ n # 0
      /\ \A m : m \in 1..created' /\ m \notin Pooled'
                  <=> m = n \/ (m \in 1..created /\ m \notin Pooled)
  <2>1. CASE n \in Pooled /\ created' = created
    BY <2>1, <1>0, <1>3, <1>4 DEF NodesOwned
  <2>2. CASE n = created + 1 /\ created' = created + 1
    <3>1. n \notin 1..created /\ n # 0 /\ 1..created' = 1..created \cup {n}
      BY <2>2, <1>4
    <3>. QED  BY <3>1, <1>0, <1>3, <1>4 DEF NodesOwned
  <2>. QED  BY <1>3, <2>1, <2>2
<1>6. /\ \A q \in Queues : \A k \in lo[q]..hi[q] : N[q][k][1] # n
      /\ \A u \in Threads : Own(u) # n
  BY <1>5 DEF Used, InQueue
<1>7. /\ data'[n] = v /\ next'[n] = Null
      /\ \A m \in AllNodes : m # n => data'[m] = data[m] /\ next'[m] = next[m]
  BY <1>n DEF Typed
<1>8. \A q \in Queues : \A k \in lo[q]..hi[q] :
          /\ data'[N[q][k][1]] = data[N[q][k][1]] /\ next'[N[q][k][1]] = next[N[q][k][1]]
  BY <1>0, <1>6, <1>7, Positions
<1>9. v \in Values /\ (\A q \in Queues : v \notin given[q]) /\ v = NextValue
  <2>1. v \in Values /\ v \notin 1..g
    BY <1>g, <1>v, NodeFacts DEF BeginEnqueue, Values
  <2>. QED  BY <2>1, <1>g, <1>v
<1>10. Own(t)' = n /\ Own(t) = 0 /\ \A u \in Threads \ {t} : Own(u)' = Own(u)
  BY <1>1, <1>2 DEF Own, OthersKept, NewPcs
<1>11. Shape(N, lo, hi)'
  BY <1>0 DEF Shape
<1>12. Linked(N, lo, hi)'
  <2>1. \A q \in Queues : hi[q] \in lo[q]..hi[q]
    BY <1>0, Positions
  <2>. QED  BY <1>0, <1>2, <1>8, <2>1 DEF Linked
<1>13. NodesOwned(N, lo, hi)'
  <2>1. \A m : Used(N, lo, hi, m)' <=> m = n \/ Used(N, lo, hi, m)
    <3>1. \A m : m # 0 => ((\E u \in Threads : Own(u)' = m) <=> m = n \/ \E u \in Threads : Own(u) = m)
      BY <1>10
    <3>2. \A m : Used(N, lo, hi, m)' <=> \/ \E q \in Queues : InQueue(N, lo, hi, q, m)
                                         \/ m # 0 /\ \E u \in Threads : Own(u)' = m
      BY DEF Used, InQueue
    <3>. QED  BY <3>1, <3>2, <1>5, SMTT(30) DEF Used
  <2>2. \A u \in Threads, q \in Queues : \A k \in lo[q]..hi[q] : Own(u)' # N[q][k][1]
    BY <1>0, <1>6, <1>10 DEF NodesOwned
  <2>3. \A u, w \in Threads : Own(u)' = Own(w)' /\ Own(u)' # 0 => u = w
    BY <1>0, <1>6, <1>10 DEF NodesOwned
  <2>. QED  BY <1>0, <1>5, <2>1, <2>2, <2>3 DEF NodesOwned
<1>14. ValuesCarried(N, lo, hi)'
  <2>1. \A q \in Queues : \A x \in given[q] : x \in given'[q] /\ x # v
    BY <1>2, <1>9 DEF Typed
  <2>2. v \in given'[r]
    BY <1>2 DEF Typed
  <2>3. \A q \in Queues : \A k \in lo[q]..hi[q] :
            k # lo[q] => data'[N[q][k][1]] \in given'[q] /\ data'[N[q][k][1]] # v
    BY <1>0, <1>8, <2>1 DEF ValuesCarried
  <2>4. \A q \in Queues : \A i \in DOMAIN taken[q] : taken[q][i] \in given'[q] /\ taken[q][i] # v
    BY <1>0, <2>1 DEF ValuesCarried
  <2>5. \A u \in Threads : pc[u] \in NewPcs =>
            /\ value[u] \in given[queue[u]] /\ value[u] # v /\ queue[u] \in Queues
            /\ data'[node[u][1]] = value[u]
    <3>1. \A u \in Threads : pc[u] \in NewPcs => /\ value[u] \in given[queue[u]]
                                                 /\ queue[u] \in Queues
                                                 /\ data[node[u][1]] = value[u]
      BY <1>0, PcFacts DEF ValuesCarried, Typed
    <3>2. \A u \in Threads : pc[u] \in NewPcs => node[u][1] \in AllNodes /\ node[u][1] # n
      BY <1>6, OwnFacts
    <3>. QED  BY <3>1, <3>2, <2>1, <1>7
  <2>6. /\ pc[t] \notin NewPcs
        /\ \A u \in Threads \ {t} : (pc'[u] \in NewPcs <=> pc[u] \in NewPcs) /\ value'[u] = value[u]
                                    /\ node'[u] = node[u] /\ queue'[u] = queue[u]
    BY <1>1, <1>2, PcFacts DEF OthersKept
  <2>7. node'[t][1] = n
    BY <1>2
  <2>8. ASSUME NEW u \in Threads, pc'[u] \in NewPcs
        PROVE  /\ value'[u] \in given'[queue'[u]] /\ data'[node'[u][1]] = value'[u]
               /\ \A q \in Queues : \A k \in lo[q]..hi[q] : k # lo[q] => data'[N[q][k][1]] # value'[u]
               /\ \A q \in Queues : \A i \in DOMAIN taken[q] : taken[q][i] # value'[u]
    <3>1. CASE u = t
      BY <3>1, <2>2, <2>3, <2>4, <2>7, <1>2, <1>7
    <3>2. CASE u # t
      <4>1. pc[u] \in NewPcs /\ value'[u] = value[u] /\ node'[u] = node[u] /\ queue'[u] = queue[u]
        BY <2>6, <2>8, <3>2
      <4>2. value'[u] \in given'[queue'[u]] /\ data'[node'[u][1]] = value'[u]
        BY <4>1, <2>1, <2>5
      <4>. QED  BY <4>1, <4>2, <1>0, <1>8 DEF ValuesCarried
    <3>. QED  BY <3>1, <3>2
  <2>9. \A u, w \in Threads : pc'[u] \in NewPcs /\ pc'[w] \in NewPcs /\ value'[u] = value'[w] => u = w
    BY <1>0, <1>2, <2>5, <2>6 DEF ValuesCarried
  <2>. QED  BY <2>3, <2>4, <2>8, <2>9, <1>2 DEF ValuesCarried
<1>15. Counted(lo, hi)'
  <2>1. SizeMoves(t, lo, hi, lo, hi)
    <3>. SUFFICES ASSUME NEW q \in Queues
         PROVE  size'[q] = size[q] + (hi[q] - hi[q]) - (lo[q] - lo[q]) + Owed(t, q) - Owed(t, q)'
      BY DEF SizeMoves
    <3>1. Owed(t, q) = 0 /\ Owed(t, q)' = 0
      BY <1>2 DEF Owed, DebtPcs, ReservedPcs
    <3>2. hi[q] \in Nat /\ lo[q] \in Nat /\ size[q] \in Int
      BY <1>0 DEF Shape, Typed
    <3>. QED  BY <3>1, <3>2, <1>2
  <2>2. Counted(lo, hi) /\ lo \in [Queues -> Nat] /\ hi \in [Queues -> Nat]
    BY DEF Core, Shape
  <2>. QED  BY <1>1, <2>1, <2>2, CountedStep
<1>16. ASSUME NEW u \in Threads PROVE EnqueueReads(N, lo, hi, u)' /\ DequeueReads(N, lo, hi, u)'
  <2>1. CASE u = t
    <3>1. node'[t] \in Address /\ next'[node'[t][1]][1] = 0
      BY <1>2, <1>7 DEF Address, Null
    <3>. QED  BY <2>1, <3>1, <1>2 DEF EnqueueReads, DequeueReads, HeadPcs, TailPcs
  <2>2. CASE u # t
    <3>1. EnqueueReads(N, lo, hi, u) /\ DequeueReads(N, lo, hi, u)
      BY DEF Core
    <3>2. /\ pc'[u] = pc[u] /\ queue'[u] = queue[u] /\ value'[u] = value[u] /\ node'[u] = node[u]
          /\ headCap'[u] = headCap[u] /\ tailCap'[u] = tailCap[u] /\ nextCap'[u] = nextCap[u]
      BY <1>1, <2>2 DEF OthersKept
    <3>3. ASSUME pc[u] \in {"next", "link"}, Gone(N, lo, hi, tailCap[u][1])
          PROVE  Gone(N, lo, hi, tailCap[u][1])'
      <4>1. tailCap[u][1] \in AllNodes
        <5>1. queue[u] \in Queues /\ \E k \in 0..hi[queue[u]] : tailCap[u] = N[queue[u]][k]
          BY <3>1, <3>3 DEF EnqueueReads, TailPcs, Typed
        <5>. QED  BY <5>1, <1>0, Positions
      <4>2. tailCap[u][1] # n
        BY <1>2, <3>2, <3>3 DEF TailKept
      <4>3. next'[tailCap[u][1]] = next[tailCap[u][1]]
        BY <4>1, <4>2, <1>7
      <4>4. \A w \in Threads : pc'[w] \in NewPcs => node'[w][1] = n \/ (pc[w] \in NewPcs /\ node'[w] = node[w])
        BY <1>1, <1>2 DEF OthersKept
      <4>. QED  BY <3>2, <3>3, <4>2, <4>3, <4>4 DEF Gone, InQueue
    <3>7. pc[u] \in NewPcs => next'[node[u][1]] = next[node[u][1]]
      <4>1. pc[u] \in NewPcs => node[u][1] \in AllNodes /\ Own(u) = node[u][1]
        BY OwnFacts
      <4>. QED  BY <4>1, <1>6, <1>7
    <3>4. EnqueueReads(N, lo, hi, u)'
      BY <3>1, <3>2, <3>3, <3>7 DEF EnqueueReads
    <3>5. ASSUME pc[u] = "take", headCap[u] = head[queue[u]]
          PROVE  data'[nextCap[u][1]] = data[nextCap[u][1]]
      <4>1. /\ queue[u] \in Queues /\ lo[queue[u]] # hi[queue[u]]
            /\ nextCap[u] = N[queue[u]][lo[queue[u]] + 1]
        BY <3>1, <3>5 DEF DequeueReads, Typed
      <4>2. lo[queue[u]] + 1 \in lo[queue[u]]..hi[queue[u]]
        BY <4>1, <1>0, Positions
      <4>. QED  BY <4>1, <4>2, <1>8
    <3>6. DequeueReads(N, lo, hi, u)'
      BY <3>1, <3>2, <3>5, <1>2 DEF DequeueReads
    <3>. QED  BY <3>4, <3>6
  <2>. QED  BY <2>1, <2>2
<1>17. Core(N, lo, hi)'
  BY <1>11, <1>12, <1>13, <1>14, <1>15, <1>16 DEF Core
<1>. QED  BY <1>3, <1>8, <1>9, <1>17

LEMMA FreeHeadStep ==
    ASSUME NEW N, NEW lo, NEW hi, Core(N, lo, hi), Typed, PoolInv, NEW t \in Threads, FreeHead(t)
    PROVE  Core(N, lo, hi)' /\ PoolInv'
<1>. USE DEF FreeHead, Return, Goto, listVars
<1>n. PICK n : n = headCap[t][1]
  OBVIOUS
<1>0. Shape(N, lo, hi) /\ Linked(N, lo, hi) /\ NodesOwned(N, lo, hi) /\ ValuesCarried(N, lo, hi)
  BY DEF Core
<1>1. OthersKept(t)
  BY DEF Typed, OthersKept
<1>2. /\ pc[t] = "free" /\ pc'[t] = "idle" /\ Free(t, n)
      /\ UNCHANGED <<head, tail, size, next, data, given, taken>>
  BY <1>n DEF Typed
<1>3. /\ Own(t) = n /\ n # 0 /\ n \in 1..created /\ n \notin Pooled
      /\ \A q \in Queues : \A k \in lo[q]..hi[q] : N[q][k][1] # n
      /\ \A u \in Threads \ {t} : Own(u) # n
  BY <1>n, <1>2, OwnFacts
<1>4. PoolInv' /\ Pooled' = Pooled \cup {n} /\ created' = created
  BY <1>2, <1>3, FreePutsIn
<1>5. Own(t)' = 0 /\ \A u \in Threads \ {t} : Own(u)' = Own(u)
  BY <1>1, <1>2 DEF Own, OthersKept, NewPcs
<1>6. Shape(N, lo, hi)' /\ Linked(N, lo, hi)'
  BY <1>0, <1>2 DEF Shape, Linked
<1>7. NodesOwned(N, lo, hi)'
  <2>1. \A m : Used(N, lo, hi, m)' <=> Used(N, lo, hi, m) /\ m # n
    <3>1. \A m : (\E u \in Threads : Own(u)' = m /\ m # 0)
                   <=> (\E u \in Threads : Own(u) = m /\ m # 0) /\ m # n
      BY <1>3, <1>5
    <3>2. \A m : (\E q \in Queues : InQueue(N, lo, hi, q, m)) => m # n
      BY <1>3 DEF InQueue
    <3>3. \A m : Used(N, lo, hi, m)' <=> \/ \E q \in Queues : InQueue(N, lo, hi, q, m)
                                         \/ m # 0 /\ \E u \in Threads : Own(u)' = m
      BY DEF Used, InQueue
    <3>. QED  BY <3>1, <3>2, <3>3 DEF Used
  <2>2. \A q \in Queues : \A k \in lo[q]..hi[q] : N[q][k][1] # 0
    BY <1>0, Positions, NodeFacts
  <2>. QED  BY <1>0, <1>4, <1>5, <2>1, <2>2 DEF NodesOwned
<1>8. ValuesCarried(N, lo, hi)'
  <2>1. pc'[t] \notin NewPcs /\ \A u \in Threads \ {t} : /\ pc'[u] = pc[u] /\ value'[u] = value[u]
                                                         /\ node'[u] = node[u] /\ queue'[u] = queue[u]
    BY <1>1, <1>2, PcFacts DEF OthersKept
  <2>. QED  BY <1>0, <1>2, <2>1 DEF ValuesCarried
<1>9. Counted(lo, hi)'
  <2>1. SizeMoves(t, lo, hi, lo, hi)
    <3>. SUFFICES ASSUME NEW q \in Queues
         PROVE  size'[q] = size[q] + (hi[q] - hi[q]) - (lo[q] - lo[q]) + Owed(t, q) - Owed(t, q)'
      BY DEF SizeMoves
    <3>1. Owed(t, q) = 0 /\ Owed(t, q)' = 0
      BY <1>2 DEF Owed, DebtPcs, ReservedPcs
    <3>2. hi[q] \in Nat /\ lo[q] \in Nat /\ size[q] \in Int
      BY <1>0 DEF Shape, Typed
    <3>. QED  BY <3>1, <3>2, <1>2
  <2>2. Counted(lo, hi) /\ lo \in [Queues -> Nat] /\ hi \in [Queues -> Nat]
    BY DEF Core, Shape
  <2>. QED  BY <1>1, <2>1, <2>2, CountedStep
<1>10. ASSUME NEW u \in Threads PROVE EnqueueReads(N, lo, hi, u)' /\ DequeueReads(N, lo, hi, u)'
  <2>1. CASE u = t
    BY <2>1, <1>2 DEF EnqueueReads, DequeueReads, HeadPcs, TailPcs, NewPcs
  <2>2. CASE u # t
    <3>1. EnqueueReads(N, lo, hi, u) /\ DequeueReads(N, lo, hi, u)
      BY DEF Core
    <3>2. /\ pc'[u] = pc[u] /\ queue'[u] = queue[u] /\ value'[u] = value[u] /\ node'[u] = node[u]
          /\ headCap'[u] = headCap[u] /\ tailCap'[u] = tailCap[u] /\ nextCap'[u] = nextCap[u]
      BY <1>1, <2>2 DEF OthersKept
    <3>3. \A m : Gone(N, lo, hi, m) => Gone(N, lo, hi, m)'
      <4>1. \A w \in Threads : pc'[w] \in NewPcs => pc[w] \in NewPcs /\ node'[w] = node[w]
        BY <1>1, <1>2, PcFacts DEF OthersKept
      <4>. QED  BY <1>2, <4>1 DEF Gone, InQueue
    <3>. QED  BY <3>1, <3>2, <3>3, <1>2 DEF EnqueueReads, DequeueReads
  <2>. QED  BY <2>1, <2>2
<1>11. Core(N, lo, hi)'
  BY <1>6, <1>7, <1>8, <1>9, <1>10 DEF Core
<1>. QED  BY <1>4, <1>11

-----------------------------------------------------------------------------
(* The compare-and-swaps that change a queue.                              *)

\* The dummy, or the last node, of queue q is the next one.
OneMore(f, q) == [f EXCEPT ![q] = f[q] + 1]

\* The dummy is the Dequeue's, the node after it the new dummy.
LEMMA TakeStep ==
    ASSUME NEW N, NEW lo, NEW hi, Core(N, lo, hi), Typed, NEW t \in Threads, Take(t),
           head[queue[t]] = headCap[t],
           NEW l, l = OneMore(lo, queue[t])
    PROVE  /\ Core(N, l, hi)' /\ queue[t] \in Queues /\ lo[queue[t]] # hi[queue[t]]
           /\ data' = data /\ given' = given
           /\ value[t] = data[N[queue[t]][lo[queue[t]] + 1][1]]
<1>. USE DEF Take, Goto, callVars, capVars, OneMore
<1>q. PICK q : q = queue[t]
  OBVIOUS
<1>d. PICK d : d = N[q][lo[q]]
  OBVIOUS
<1>0. Shape(N, lo, hi) /\ Linked(N, lo, hi) /\ NodesOwned(N, lo, hi) /\ ValuesCarried(N, lo, hi)
  BY DEF Core
<1>1. OthersKept(t)
  BY DEF Typed, OthersKept
<1>2. /\ pc[t] = "take" /\ pc'[t] = "free" /\ queue'[t] = q /\ q \in Queues
      /\ headCap'[t] = headCap[t] /\ head' = [head EXCEPT ![q] = nextCap[t]]
      /\ taken' = [taken EXCEPT ![q] = Append(taken[q], value[t])]
      /\ UNCHANGED <<poolVars, tail, size, next, data, given>>
  BY <1>q DEF Typed
<1>3. /\ lo[q] # hi[q] /\ nextCap[t] = N[q][lo[q] + 1] /\ tail[q] # d
      /\ value[t] = data[N[q][lo[q] + 1][1]] /\ head[q] = d /\ headCap[t] = d
  BY <1>q, <1>d, <1>2, <1>0 DEF Core, DequeueReads, Linked
<1>4. /\ l \in [Queues -> Nat] /\ l[q] = lo[q] + 1 /\ \A r \in Queues \ {q} : l[r] = lo[r]
      /\ \A r \in Queues : lo[r] \in Nat /\ hi[r] \in Nat /\ l[r] <= hi[r]
  BY <1>q, <1>0, <1>2, <1>3 DEF Shape
<1>5. /\ \A r \in Queues : \A k \in l[r]..hi[r] : /\ k \in lo[r]..hi[r] /\ (r = q => k # lo[r])
                                                  /\ (k # l[r] => k # lo[r])
      /\ \A r \in Queues : \A k \in lo[r]..hi[r] : k \in l[r]..hi[r] \/ (r = q /\ k = lo[q])
      /\ \A r \in Queues : \A k \in 0..lo[r] : k \in 0..l[r]
      /\ lo[q] + 1 \in l[q]..hi[q] /\ lo[q] + 1 \in lo[q]..hi[q] /\ lo[q] \in lo[q]..hi[q]
      /\ lo[q] + 1 # lo[q]
  BY <1>2, <1>3, <1>4
<1>6. /\ d \in Address /\ d[1] \in AllNodes /\ d[1] # 0
      /\ \A r \in Queues : \A k \in l[r]..hi[r] : N[r][k][1] # d[1]
      /\ \A u \in Threads : Own(u) # d[1]
  <2>1. d \in Address /\ d[1] \in AllNodes /\ d[1] # 0
    BY <1>0, <1>2, <1>5, <1>d, Positions, NodeFacts
  <2>2. \A r \in Queues : \A k \in l[r]..hi[r] : N[r][k][1] # d[1]
    BY <1>0, <1>2, <1>5, <1>d DEF NodesOwned
  <2>. QED  BY <1>0, <1>2, <1>5, <1>d, <2>1, <2>2 DEF NodesOwned
<1>7. /\ \A r \in Queues : \A n : InQueue(N, lo, hi, r, n) <=> InQueue(N, l, hi, r, n) \/ (r = q /\ n = d[1])
      /\ \A r \in Queues : ~InQueue(N, l, hi, r, d[1])
  BY <1>2, <1>5, <1>6, <1>d DEF InQueue
<1>8. Own(t)' = d[1] /\ Own(t) = 0 /\ \A u \in Threads \ {t} : Own(u)' = Own(u)
  BY <1>1, <1>2, <1>3 DEF Own, OthersKept, NewPcs
<1>9. Shape(N, l, hi)'
  BY <1>0, <1>4 DEF Shape
<1>10. Linked(N, l, hi)'
  <2>1. ASSUME NEW r \in Queues PROVE \E j \in l[r]..hi[r] : tail[r] = N[r][j]
    <3>1. PICK j \in lo[r]..hi[r] : tail[r] = N[r][j]
      BY <1>0 DEF Linked
    <3>2. j \in l[r]..hi[r] \/ (r = q /\ j = lo[q])
      BY <1>5
    <3>. QED  BY <3>1, <3>2, <1>3, <1>d
  <2>2. \A r \in Queues : head'[r] = N[r][l[r]]
    BY <1>0, <1>2, <1>3, <1>4, SMTT(30) DEF Linked, Typed
  <2>3. \A r \in Queues : /\ next[N[r][hi[r]][1]][1] = 0
                           /\ \A k \in l[r]..hi[r] : k # hi[r] => next[N[r][k][1]] = N[r][k + 1]
    BY <1>0, <1>5 DEF Linked
  <2>4. tail' = tail /\ next' = next
    BY <1>2
  <2>. QED  BY <2>1, <2>2, <2>3, <2>4 DEF Linked
<1>11. NodesOwned(N, l, hi)'
  <2>1. \A n : Used(N, l, hi, n)' <=> Used(N, lo, hi, n)
    <3>1. \A n : (\E u \in Threads : Own(u)' = n /\ n # 0)
                   <=> n = d[1] \/ \E u \in Threads : Own(u) = n /\ n # 0
      BY <1>6, <1>8
    <3>2. \A n : (\E r \in Queues : InQueue(N, lo, hi, r, n))
                   <=> n = d[1] \/ \E r \in Queues : InQueue(N, l, hi, r, n)
      BY <1>2, <1>7
    <3>3. \A n : Used(N, l, hi, n)' <=> \/ \E r \in Queues : InQueue(N, l, hi, r, n)
                                        \/ n # 0 /\ \E u \in Threads : Own(u)' = n
      BY DEF Used, InQueue
    <3>. QED  BY <3>1, <3>2, <3>3 DEF Used
  <2>2. Pooled' = Pooled /\ created' = created
    BY <1>2 DEF poolVars, Pooled, InPool
  <2>3. \A u \in Threads, r \in Queues : \A k \in l[r]..hi[r] : Own(u)' # N[r][k][1]
    BY <1>0, <1>5, <1>6, <1>8 DEF NodesOwned
  <2>4. \A u, w \in Threads : Own(u)' = Own(w)' /\ Own(u)' # 0 => u = w
    BY <1>0, <1>6, <1>8 DEF NodesOwned
  <2>5. \A r, s \in Queues : \A k \in l[r]..hi[r], j \in l[s]..hi[s] :
            N[r][k][1] = N[s][j][1] => r = s /\ k = j
    BY <1>0, <1>5 DEF NodesOwned
  <2>6. \A n : Used(N, l, hi, n)' <=> n \in 1..created' /\ n \notin Pooled'
    BY <1>0, <2>1, <2>2 DEF NodesOwned
  <2>. QED  BY <2>3, <2>4, <2>5, <2>6 DEF NodesOwned
<1>12. ValuesCarried(N, l, hi)'
  <2>1. /\ value[t] \in given[q]
        /\ \A u \in Threads : pc[u] \in NewPcs => value[u] # value[t]
    BY <1>0, <1>2, <1>3, <1>5 DEF ValuesCarried
  <2>2. /\ taken'[q] = Append(taken[q], value[t]) /\ \A r \in Queues \ {q} : taken'[r] = taken[r]
        /\ taken[q] \in Seq(Nat) /\ value[t] \in Nat
    BY <1>2 DEF Typed
  <2>3. \A r \in Queues : \A i \in DOMAIN taken'[r] :
            (r = q /\ taken'[r][i] = value[t]) \/ (i \in DOMAIN taken[r] /\ taken'[r][i] = taken[r][i])
    <3>1. \A i \in DOMAIN taken'[q] : \/ taken'[q][i] = value[t]
                                      \/ i \in DOMAIN taken[q] /\ taken'[q][i] = taken[q][i]
      BY <2>2
    <3>. QED  BY <2>2, <3>1
  <2>4. \A r \in Queues : \A i \in DOMAIN taken'[r] : taken'[r][i] \in given[r]
    BY <1>0, <2>1, <2>3 DEF ValuesCarried
  <2>5. \A u \in Threads : pc[u] \in NewPcs =>
            \A r \in Queues : \A i \in DOMAIN taken'[r] : taken'[r][i] # value[u]
    BY <1>0, <2>1, <2>3 DEF ValuesCarried
  <2>6. pc'[t] \notin NewPcs /\ pc[t] \notin NewPcs
        /\ \A u \in Threads \ {t} : /\ pc'[u] = pc[u] /\ value'[u] = value[u]
                                    /\ node'[u] = node[u] /\ queue'[u] = queue[u]
    BY <1>1, <1>2 DEF OthersKept, NewPcs
  <2>7. \A r \in Queues : \A k \in l[r]..hi[r] : k # l[r] => data[N[r][k][1]] \in given[r]
    BY <1>0, <1>5 DEF ValuesCarried
  <2>8. \A u \in Threads : pc[u] \in NewPcs =>
            /\ value[u] \in given[queue[u]] /\ data[node[u][1]] = value[u]
            /\ \A r \in Queues : \A k \in l[r]..hi[r] : k # l[r] => data[N[r][k][1]] # value[u]
    BY <1>0, <1>5 DEF ValuesCarried
  <2>9. \A u, w \in Threads : pc[u] \in NewPcs /\ pc[w] \in NewPcs /\ value[u] = value[w] => u = w
    BY <1>0 DEF ValuesCarried
  <2>. QED  BY <1>2, <2>4, <2>5, <2>6, <2>7, <2>8, <2>9 DEF ValuesCarried
<1>13. Counted(l, hi)'
  <2>1. SizeMoves(t, lo, hi, l, hi)
    <3>. SUFFICES ASSUME NEW r \in Queues
         PROVE  size'[r] = size[r] + (hi[r] - hi[r]) - (l[r] - lo[r]) + Owed(t, r) - Owed(t, r)'
      BY DEF SizeMoves
    <3>1. Owed(t, r) = (IF r = q THEN 1 ELSE 0) /\ Owed(t, r)' = 0
      BY <1>2, <1>q DEF Owed, DebtPcs, ReservedPcs
    <3>2. size[r] \in Int /\ l[r] - lo[r] = IF r = q THEN 1 ELSE 0
      BY <1>4, SMTT(30) DEF Typed
    <3>3. hi[r] \in Nat /\ size'[r] = size[r]
      BY <1>2, <1>4
    <3>. QED  BY <3>1, <3>2, <3>3
  <2>2. Counted(lo, hi) /\ lo \in [Queues -> Nat] /\ hi \in [Queues -> Nat]
    BY DEF Core, Shape
  <2>. QED  BY <1>1, <1>4, <2>1, <2>2, CountedStep
<1>14. ASSUME NEW u \in Threads PROVE EnqueueReads(N, l, hi, u)' /\ DequeueReads(N, l, hi, u)'
  <2>1. CASE u = t
    BY <2>1, <1>2, <1>3, <1>6 DEF EnqueueReads, DequeueReads, HeadPcs, TailPcs, NewPcs
  <2>2. CASE u # t
    <3>1. EnqueueReads(N, lo, hi, u) /\ DequeueReads(N, lo, hi, u) /\ (pc[u] # "idle" => queue[u] \in Queues)
      BY DEF Core, Typed
    <3>2. /\ pc'[u] = pc[u] /\ queue'[u] = queue[u] /\ value'[u] = value[u] /\ node'[u] = node[u]
          /\ headCap'[u] = headCap[u] /\ tailCap'[u] = tailCap[u] /\ nextCap'[u] = nextCap[u]
      BY <1>1, <2>2 DEF OthersKept
    <3>3. \A w \in Threads : pc'[w] \in NewPcs => pc[w] \in NewPcs /\ node'[w] = node[w]
      BY <1>1, <1>2 DEF OthersKept, NewPcs
    <3>4. \A n : Gone(N, lo, hi, n) => Gone(N, l, hi, n)'
      <4>1. \A r \in Queues : \A n : InQueue(N, l, hi, r, n) => InQueue(N, lo, hi, r, n)
        BY <1>7
      <4>. QED  BY <1>2, <3>3, <4>1 DEF Gone, InQueue
    <3>5. Gone(N, l, hi, d[1])'
      <4>1. next[d[1]][1] # 0
        <5>1. next[d[1]] = N[q][lo[q] + 1]
          BY <1>0, <1>2, <1>3, <1>5, <1>d DEF Linked
        <5>. QED  BY <5>1, <1>0, <1>2, <1>5, Positions, NodeFacts
      <4>2. \A w \in Threads : pc[w] \in NewPcs => node[w][1] # d[1]
        BY <1>6 DEF Own, NewPcs
      <4>. QED  BY <1>2, <1>7, <3>3, <4>1, <4>2 DEF Gone, InQueue
    <3>6. pc[u] \in {"next", "link"} => \/ \E k \in l[queue[u]]..hi[queue[u]] : tailCap[u] = N[queue[u]][k]
                                        \/ Gone(N, l, hi, tailCap[u][1])'
      <4>1. CASE \E k \in lo[queue[u]]..hi[queue[u]] : tailCap[u] = N[queue[u]][k]
        BY <4>1, <1>5, <1>d, <3>1, <3>5
      <4>. QED  BY <4>1, <3>1, <3>4 DEF EnqueueReads
    <3>7. EnqueueReads(N, l, hi, u)'
      BY <3>1, <3>2, <3>6, <1>2, <1>5 DEF EnqueueReads, TailPcs, NewPcs
    <3>8. pc[u] \in HeadPcs => /\ \E k \in 0..l[queue[u]] : headCap[u] = N[queue[u]][k]
                               /\ \A k \in l[queue[u]]..hi[queue[u]] :
                                     k # l[queue[u]] => headCap[u] # N[queue[u]][k]
      BY <3>1, <1>5, PcFacts DEF DequeueReads
    <3>9. pc[u] \in HeadPcs /\ headCap[u] = head'[queue[u]] => queue[u] # q /\ head'[queue[u]] = head[queue[u]]
                                                               /\ l[queue[u]] = lo[queue[u]]
      <4>1. pc[u] \in HeadPcs /\ queue[u] = q => headCap[u] # head'[q]
        <5>1. head'[q] = N[q][lo[q] + 1]
          BY <1>2, <1>3 DEF Typed
        <5>. QED  BY <5>1, <1>5, <3>1 DEF DequeueReads
      <4>. QED  BY <4>1, <1>2, <1>4, <3>1, PcFacts DEF Typed
    <3>10. DequeueReads(N, l, hi, u)'
      BY <3>1, <3>2, <3>8, <3>9, <1>2 DEF DequeueReads, HeadPcs
    <3>. QED  BY <3>7, <3>10
  <2>. QED  BY <2>1, <2>2
<1>15. Core(N, l, hi)'
  BY <1>9, <1>10, <1>11, <1>12, <1>13, <1>14 DEF Core
<1>. QED  BY <1>2, <1>3, <1>15, <1>q

\* Pointer p is linked to queue q as number k.
Extended(N, q, k, p) == [N EXCEPT ![q] = [N[q] EXCEPT ![k] = p]]

\* The node of the Enqueue comes after the last one.
LEMMA LinkStep ==
    ASSUME NEW N, NEW lo, NEW hi, Core(N, lo, hi), Typed, NoTagReuse,
           NEW t \in Threads, Link(t), next[tailCap[t][1]] = nextCap[t],
           NEW h, h = OneMore(hi, queue[t]),
           NEW M, M = Extended(N, queue[t], hi[queue[t]] + 1, node[t])
    PROVE  /\ Core(M, lo, h)' /\ queue[t] \in Queues /\ data' = data
           /\ given' = given /\ taken' = taken
<1>. USE DEF Link, Goto, callVars, capVars, OneMore, Extended
<1>q. PICK q : q = queue[t]
  OBVIOUS
<1>a. PICK a : a = node[t]
  OBVIOUS
<1>0. Shape(N, lo, hi) /\ Linked(N, lo, hi) /\ NodesOwned(N, lo, hi) /\ ValuesCarried(N, lo, hi)
  BY DEF Core
<1>1. OthersKept(t)
  BY DEF Typed, OthersKept
<1>2. /\ pc[t] = "link" /\ pc'[t] = "advance" /\ queue'[t] = q /\ q \in Queues
      /\ node'[t] = a /\ tailCap'[t] = tailCap[t] /\ next' = [next EXCEPT ![tailCap[t][1]] = a]
      /\ UNCHANGED <<poolVars, head, tail, size, data, given, taken>>
  BY <1>q, <1>a DEF Typed
<1>3. /\ lo[q] \in Nat /\ hi[q] \in Nat /\ lo[q] <= hi[q]
      /\ \A r \in Queues : lo[r] \in Nat /\ hi[r] \in Nat /\ lo[r] <= hi[r]
      /\ N \in [Queues -> [Nat -> Address]] /\ hi \in [Queues -> Nat]
  BY <1>0, <1>2 DEF Shape
<1>4. /\ h \in [Queues -> Nat] /\ h[q] = hi[q] + 1 /\ \A r \in Queues \ {q} : h[r] = hi[r]
      /\ hi[q] + 1 \in Nat /\ \A r \in Queues : hi[r] <= h[r] /\ h[r] \in Nat
  BY <1>2, <1>3, <1>q
<1>b. \A r \in Queues : \A k \in lo[r]..hi[r] : k # hi[r] => k # h[r] /\ k + 1 \in lo[r]..hi[r]
  <2>. SUFFICES ASSUME NEW r \in Queues, NEW k \in lo[r]..hi[r], k # hi[r]
                PROVE  k # h[r] /\ k + 1 \in lo[r]..hi[r]
    OBVIOUS
  <2>1. lo[r] \in Nat /\ hi[r] \in Nat /\ (h[r] = hi[r] \/ h[r] = hi[r] + 1)
    BY <1>3, <1>4
  <2>. QED  BY <2>1
<1>5. a \in Address /\ a \in Pointer /\ a[1] \in AllNodes /\ a[1] # 0 /\ next[a[1]][1] = 0 /\ Own(t) = a[1]
  BY <1>2, <1>a, NodeFacts DEF Core, EnqueueReads, NewPcs, Own
<1>6. /\ M \in [Queues -> [Nat -> Address]] /\ M[q][hi[q] + 1] = a
      /\ \A k \in Nat : k # hi[q] + 1 => M[q][k] = N[q][k]
      /\ \A r \in Queues \ {q} : M[r] = N[r]
  <2>1. M[q] = [N[q] EXCEPT ![hi[q] + 1] = a] /\ N[q] \in [Nat -> Address]
    BY <1>2, <1>3, <1>q, <1>a
  <2>2. /\ M[q] \in [Nat -> Address] /\ M[q][hi[q] + 1] = a
        /\ \A k \in Nat : k # hi[q] + 1 => M[q][k] = N[q][k]
    BY <2>1, <1>4, <1>5
  <2>. QED  BY <2>2, <1>2, <1>3, <1>q
<1>7. /\ \A r \in Queues : \A k \in lo[r]..hi[r] : k \in lo[r]..h[r] /\ M[r][k] = N[r][k]
      /\ \A r \in Queues : \A k \in 0..hi[r] : k \in 0..h[r] /\ M[r][k] = N[r][k]
      /\ \A r \in Queues : \A k \in lo[r]..h[r] : k \in lo[r]..hi[r] \/ (r = q /\ k = hi[q] + 1)
      /\ hi[q] + 1 \in lo[q]..h[q] /\ hi[q] + 1 \notin lo[q]..hi[q] /\ hi[q] \in lo[q]..hi[q]
      /\ hi[q] + 1 # lo[q]
  <2>1. \A r \in Queues : \A k \in 0..hi[r] : k \in 0..h[r] /\ (r = q => k # hi[q] + 1) /\ k \in Nat
    BY <1>3, <1>4
  <2>2. \A r \in Queues : \A k \in lo[r]..hi[r] : k \in lo[r]..h[r] /\ k \in 0..hi[r]
    BY <1>3, <1>4
  <2>3. \A r \in Queues : \A k \in lo[r]..h[r] : k \in lo[r]..hi[r] \/ (r = q /\ k = hi[q] + 1)
    BY <1>3, <1>4
  <2>4. hi[q] + 1 \in lo[q]..h[q] /\ hi[q] + 1 \notin lo[q]..hi[q] /\ hi[q] \in lo[q]..hi[q]
        /\ hi[q] + 1 # lo[q]
    BY <1>3, <1>4
  <2>5. \A r \in Queues : \A k \in 0..hi[r] : M[r][k] = N[r][k]
    BY <2>1, <1>6
  <2>. QED  BY <2>1, <2>2, <2>3, <2>4, <2>5
\* The tail that the call read is the last node.
<1>8. tailCap[t] = N[q][hi[q]] /\ tailCap[t][1] \in AllNodes
  <2>1. next[tailCap[t][1]][1] = 0
    BY <1>2 DEF Core, EnqueueReads
  <2>2. PICK k \in lo[q]..hi[q] : tailCap[t] = N[q][k]
    BY <1>2, <1>q, <2>1 DEF Core, EnqueueReads, Gone
  <2>3. k # hi[q] => next[tailCap[t][1]] \in Address
    BY <1>0, <1>2, <2>2, Positions DEF Linked
  <2>4. k = hi[q]
    BY <2>1, <2>3, NodeFacts
  <2>. QED  BY <1>0, <1>2, <2>2, <2>4, Positions
<1>9. /\ \A r \in Queues : \A k \in lo[r]..hi[r] : N[r][k][1] # a[1]
      /\ \A u \in Threads \ {t} : Own(u) # a[1]
      /\ \A u \in Threads \ {t} : Own(u)' = Own(u)
      /\ Own(t)' = 0
  <2>1. /\ \A r \in Queues : \A k \in lo[r]..hi[r] : N[r][k][1] # a[1]
        /\ \A u \in Threads \ {t} : Own(u) # a[1]
    BY <1>0, <1>5 DEF NodesOwned
  <2>2. Own(t)' = 0 /\ \A u \in Threads \ {t} : Own(u)' = Own(u)
    BY <1>1, <1>2 DEF Own, OthersKept, NewPcs
  <2>. QED  BY <2>1, <2>2
<1>10. /\ next'[N[q][hi[q]][1]] = a
       /\ \A n \in AllNodes : n # N[q][hi[q]][1] => next'[n] = next[n]
       /\ next'[a[1]] = next[a[1]]
  <2>1. /\ next'[N[q][hi[q]][1]] = a
        /\ \A n \in AllNodes : n # N[q][hi[q]][1] => next'[n] = next[n]
    BY <1>2, <1>8 DEF Typed
  <2>2. N[q][hi[q]][1] # a[1]
    BY <1>2, <1>7, <1>9
  <2>. QED  BY <2>1, <2>2, <1>5
<1>11. \A r \in Queues : \A n : InQueue(M, lo, h, r, n) <=> InQueue(N, lo, hi, r, n) \/ (r = q /\ n = a[1])
  BY <1>6, <1>7, <1>2 DEF InQueue
<1>12. Shape(M, lo, h)'
  <2>1. ASSUME NEW r \in Queues PROVE lo[r] <= h[r]
    <3>1. lo[r] \in Nat /\ hi[r] \in Nat /\ h[r] \in Nat /\ lo[r] <= hi[r] /\ hi[r] <= h[r]
      BY <1>3, <1>4
    <3>. QED  BY <3>1
  <2>. QED  BY <1>0, <1>4, <1>6, <2>1 DEF Shape
<1>13. Linked(M, lo, h)'
  <2>1. \A r \in Queues : lo[r] \in lo[r]..hi[r]
    BY <1>3
  <2>2. ASSUME NEW r \in Queues
        PROVE  head[r] = M[r][lo[r]] /\ \E j \in lo[r]..h[r] : tail[r] = M[r][j]
    <3>1. PICK j \in lo[r]..hi[r] : tail[r] = N[r][j]
      BY <1>0 DEF Linked
    <3>2. head[r] = N[r][lo[r]]
      BY <1>0 DEF Linked
    <3>3. j \in lo[r]..h[r] /\ M[r][j] = N[r][j] /\ M[r][lo[r]] = N[r][lo[r]]
      BY <1>7, <2>1, <3>1
    <3>. QED  BY <3>1, <3>2, <3>3
  <2>3. ASSUME NEW r \in Queues
        PROVE  /\ next'[M[r][h[r]][1]][1] = 0
               /\ \A k \in lo[r]..h[r] : k # h[r] => next'[M[r][k][1]] = M[r][k + 1]
    <3>1. CASE r = q
      <4>1. next'[M[r][h[r]][1]][1] = 0
        <5>1. M[r][h[r]] = a
          BY <3>1, <1>4, <1>6
        <5>. QED  BY <5>1, <1>5, <1>10
      <4>2. ASSUME NEW k \in lo[q]..h[q], k # h[q] PROVE next'[M[q][k][1]] = M[q][k + 1]
        <5>1. k \in lo[q]..hi[q] /\ M[q][k] = N[q][k]
          BY <4>2, <1>2, <1>4, <1>7
        <5>2. CASE k = hi[q]
          BY <5>1, <5>2, <1>6, <1>10
        <5>3. CASE k # hi[q]
          <6>1. k + 1 \in lo[q]..hi[q] /\ M[q][k + 1] = N[q][k + 1]
            BY <5>1, <5>3, <1>0, <1>2, <1>7, Positions
          <6>2. N[q][k][1] \in AllNodes /\ N[q][k][1] # N[q][hi[q]][1]
            BY <5>1, <5>3, <1>0, <1>2, <1>7, Positions DEF NodesOwned
          <6>3. next[N[q][k][1]] = N[q][k + 1]
            BY <5>1, <5>3, <1>0, <1>2, SMTT(30) DEF Linked
          <6>. QED  BY <5>1, <6>1, <6>2, <6>3, <1>10
        <5>. QED  BY <5>2, <5>3
      <4>. QED  BY <3>1, <4>1, <4>2
    <3>2. CASE r # q
      <4>1. h[r] = hi[r] /\ M[r] = N[r]
        BY <3>2, <1>4, <1>6
      <4>2. \A k \in lo[r]..hi[r] : N[r][k][1] \in AllNodes /\ N[r][k][1] # N[q][hi[q]][1]
        BY <3>2, <1>0, <1>2, <1>7, Positions DEF NodesOwned
      <4>3. hi[r] \in lo[r]..hi[r]
        BY <1>3
      <4>4. \A k \in lo[r]..hi[r] : next'[N[r][k][1]] = next[N[r][k][1]]
        BY <4>2, <1>10
      <4>5. next[N[r][hi[r]][1]][1] = 0 /\ \A k \in lo[r]..hi[r] : k # hi[r] => next[N[r][k][1]] = N[r][k + 1]
        BY <1>0, SMTT(30) DEF Linked
      <4>6. next'[M[r][h[r]][1]][1] = 0
        BY <4>1, <4>3, <4>4, <4>5
      <4>7. ASSUME NEW k \in lo[r]..h[r], k # h[r] PROVE next'[M[r][k][1]] = M[r][k + 1]
        BY <4>1, <4>4, <4>5, <4>7
      <4>. QED  BY <4>6, <4>7
    <3>. QED  BY <3>1, <3>2, ZenonT(60)
  <2>4. \A r \in Queues : head'[r] = M[r][lo[r]] /\ \E j \in lo[r]..h[r] : tail'[r] = M[r][j]
    <3>1. head' = head /\ tail' = tail
      BY <1>2
    <3>. QED  BY <3>1, <2>2
  <2>. QED  BY <2>3, <2>4 DEF Linked
<1>14. NodesOwned(M, lo, h)'
  <2>1. \A n : Used(M, lo, h, n)' <=> Used(N, lo, hi, n)
    <3>1. \A n : (\E u \in Threads : Own(u) = n /\ n # 0)
                   <=> n = a[1] \/ \E u \in Threads : Own(u)' = n /\ n # 0
      BY <1>5, <1>9
    <3>2. \A n : (\E r \in Queues : InQueue(M, lo, h, r, n))
                   <=> n = a[1] \/ \E r \in Queues : InQueue(N, lo, hi, r, n)
      BY <1>2, <1>11
    <3>3. \A n : Used(M, lo, h, n)' <=> \/ \E r \in Queues : InQueue(M, lo, h, r, n)
                                        \/ n # 0 /\ \E u \in Threads : Own(u)' = n
      BY DEF Used, InQueue
    <3>. QED  BY <3>1, <3>2, <3>3 DEF Used
  <2>2. Pooled' = Pooled /\ created' = created
    BY <1>2 DEF poolVars, Pooled, InPool
  <2>3. \A n : Used(M, lo, h, n)' <=> n \in 1..created' /\ n \notin Pooled'
    BY <1>0, <2>1, <2>2 DEF NodesOwned
  <2>4. \A r \in Queues : \A k \in lo[r]..h[r] : \/ k \in lo[r]..hi[r] /\ M[r][k][1] = N[r][k][1]
                                                 \/ r = q /\ k = hi[q] + 1 /\ M[r][k][1] = a[1]
    BY <1>6, <1>7
  <2>5. \A r, s \in Queues : \A k \in lo[r]..h[r], j \in lo[s]..h[s] :
            M[r][k][1] = M[s][j][1] => r = s /\ k = j
    <3>. SUFFICES ASSUME NEW r \in Queues, NEW s \in Queues, NEW k \in lo[r]..h[r], NEW j \in lo[s]..h[s],
                         M[r][k][1] = M[s][j][1]
                  PROVE  r = s /\ k = j
      OBVIOUS
    <3>1. CASE k \in lo[r]..hi[r] /\ j \in lo[s]..hi[s]
      BY <3>1, <1>0, <1>7 DEF NodesOwned
    <3>2. CASE ~(k \in lo[r]..hi[r] /\ j \in lo[s]..hi[s])
      BY <3>2, <2>4, <1>9
    <3>. QED  BY <3>1, <3>2
  <2>6. \A u \in Threads, r \in Queues : \A k \in lo[r]..h[r] : Own(u)' # M[r][k][1]
    <3>1. \A r \in Queues : \A k \in lo[r]..h[r] : M[r][k][1] # 0
      <4>1. \A r \in Queues : \A k \in lo[r]..hi[r] : N[r][k][1] # 0
        BY <1>0, Positions, NodeFacts
      <4>. QED  BY <4>1, <2>4, <1>5
    <3>2. \A u \in Threads \ {t}, r \in Queues : \A k \in lo[r]..hi[r] : Own(u)' # N[r][k][1]
      BY <1>0, <1>9 DEF NodesOwned
    <3>. QED  BY <2>4, <3>1, <3>2, <1>9
  <2>7. \A u, w \in Threads : Own(u)' = Own(w)' /\ Own(u)' # 0 => u = w
    BY <1>0, <1>9 DEF NodesOwned
  <2>. QED  BY <2>3, <2>5, <2>6, <2>7 DEF NodesOwned
<1>15. ValuesCarried(M, lo, h)'
  <2>1. /\ value[t] \in given[q] /\ data[a[1]] = value[t]
        /\ \A u \in Threads \ {t} : pc[u] \in NewPcs => value[u] # value[t]
    BY <1>0, <1>2, <1>q, <1>a DEF ValuesCarried, NewPcs
  <2>2. \A r \in Queues : \A k \in lo[r]..h[r] :
            \/ k \in lo[r]..hi[r] /\ data[M[r][k][1]] = data[N[r][k][1]]
            \/ r = q /\ k = hi[q] + 1 /\ data[M[r][k][1]] = value[t]
    BY <1>6, <1>7, <2>1
  <2>3. pc'[t] \notin NewPcs /\ \A u \in Threads \ {t} : /\ pc'[u] = pc[u] /\ value'[u] = value[u]
                                                         /\ node'[u] = node[u] /\ queue'[u] = queue[u]
    BY <1>1, <1>2 DEF OthersKept, NewPcs
  <2>4. \A r \in Queues : \A k \in lo[r]..h[r] : k # lo[r] => data[M[r][k][1]] \in given[r]
    BY <1>0, <2>1, <2>2 DEF ValuesCarried
  <2>5. \A u \in Threads \ {t} : pc[u] \in NewPcs =>
            \A r \in Queues : \A k \in lo[r]..h[r] : k # lo[r] => data[M[r][k][1]] # value[u]
    BY <1>0, <2>1, <2>2 DEF ValuesCarried
  <2>6. /\ \A r \in Queues : \A i \in DOMAIN taken[r] : taken[r][i] \in given[r]
        /\ \A u \in Threads : pc[u] \in NewPcs =>
              /\ value[u] \in given[queue[u]] /\ data[node[u][1]] = value[u]
              /\ \A r \in Queues : \A i \in DOMAIN taken[r] : taken[r][i] # value[u]
        /\ \A u, w \in Threads : pc[u] \in NewPcs /\ pc[w] \in NewPcs /\ value[u] = value[w] => u = w
    BY <1>0 DEF ValuesCarried
  <2>. QED  BY <1>2, <2>3, <2>4, <2>5, <2>6 DEF ValuesCarried
<1>16. Counted(lo, h)'
  <2>1. SizeMoves(t, lo, hi, lo, h)
    <3>. SUFFICES ASSUME NEW r \in Queues
         PROVE  size'[r] = size[r] + (h[r] - hi[r]) - (lo[r] - lo[r]) + Owed(t, r) - Owed(t, r)'
      BY DEF SizeMoves
    <3>1. Owed(t, r) = 0 /\ Owed(t, r)' = IF r = q THEN 1 ELSE 0
      BY <1>2, <1>q DEF Owed, DebtPcs, ReservedPcs
    <3>2. size[r] \in Int /\ h[r] - hi[r] = IF r = q THEN 1 ELSE 0
      BY <1>3, <1>4, SMTT(30) DEF Typed
    <3>3. lo[r] \in Nat /\ size'[r] = size[r]
      BY <1>2, <1>3
    <3>. QED  BY <3>1, <3>2, <3>3
  <2>2. Counted(lo, hi) /\ lo \in [Queues -> Nat] /\ hi \in [Queues -> Nat]
    BY DEF Core, Shape
  <2>. QED  BY <1>1, <1>4, <2>1, <2>2, CountedStep
<1>17. ASSUME NEW u \in Threads PROVE EnqueueReads(M, lo, h, u)' /\ DequeueReads(M, lo, h, u)'
  <2>1. CASE u = t
    <3>1. ASSUME NEW k \in lo[q]..h[q], tailCap[t] = M[q][k]
          PROVE  k # h[q] /\ a = M[q][k + 1]
      <4>1. tailCap[t] # a
        BY <1>2, <1>7, <1>8, <1>9
      <4>2. k \in lo[q]..hi[q] /\ N[q][k] = N[q][hi[q]]
        BY <3>1, <4>1, <1>2, <1>6, <1>7, <1>8
      <4>3. k = hi[q]
        BY <4>2, <1>0, <1>2, <1>7, PointersApart
      <4>. QED  BY <4>3, <1>3, <1>4, <1>6
    <3>2. \E k \in 0..h[q] : tailCap[t] = M[q][k]
      <4>1. hi[q] \in 0..hi[q]
        BY <1>3
      <4>. QED  BY <4>1, <1>2, <1>7, <1>8
    <3>3. EnqueueReads(M, lo, h, t)'
      BY <3>1, <3>2, <1>2 DEF EnqueueReads, NewPcs
    <3>4. DequeueReads(M, lo, h, t)'
      BY <1>2 DEF DequeueReads, HeadPcs
    <3>. QED  BY <2>1, <3>3, <3>4
  <2>2. CASE u # t
    <3>1. EnqueueReads(N, lo, hi, u) /\ DequeueReads(N, lo, hi, u) /\ (pc[u] # "idle" => queue[u] \in Queues)
      BY DEF Core, Typed
    <3>2. /\ pc'[u] = pc[u] /\ queue'[u] = queue[u] /\ value'[u] = value[u] /\ node'[u] = node[u]
          /\ headCap'[u] = headCap[u] /\ tailCap'[u] = tailCap[u] /\ nextCap'[u] = nextCap[u]
      BY <1>1, <2>2 DEF OthersKept
    <3>3. pc[u] \in NewPcs => next'[node[u][1]][1] = 0
      <4>1. pc[u] \in NewPcs => /\ Own(u) = node[u][1] /\ node[u][1] \in AllNodes /\ node[u][1] # 0
                                /\ next[node[u][1]][1] = 0
        BY <3>1, NodeFacts DEF Own, NewPcs, EnqueueReads
      <4>2. pc[u] \in NewPcs => node[u][1] # N[q][hi[q]][1]
        BY <4>1, <1>0, <1>2, <1>7 DEF NodesOwned
      <4>. QED  BY <4>1, <4>2, <1>10
    <3>4. ASSUME NEW n \in AllNodes, Gone(N, lo, hi, n) PROVE Gone(M, lo, h, n)'
      <4>1. next'[n][1] # 0
        <5>1. next'[n] = next[n] \/ next'[n] = a
          BY <1>10
        <5>. QED  BY <5>1, <3>4, <1>5 DEF Gone
      <4>2. n # a[1]
        BY <3>4, <1>2, <1>a DEF Gone, NewPcs
      <4>3. \A r \in Queues : ~InQueue(M, lo, h, r, n)
        BY <3>4, <4>2, <1>11 DEF Gone
      <4>4. \A w \in Threads : pc'[w] \in NewPcs => pc[w] \in NewPcs /\ node'[w] = node[w]
        BY <1>1, <1>2 DEF OthersKept, NewPcs
      <4>. QED  BY <3>4, <4>1, <4>3, <4>4 DEF Gone, InQueue
    <3>5. pc[u] \in TailPcs => /\ queue[u] \in Queues
                               /\ \E k \in 0..hi[queue[u]] : tailCap[u] = N[queue[u]][k]
      BY <3>1 DEF EnqueueReads, TailPcs
    <3>6. pc[u] \in TailPcs => \E k \in 0..h[queue[u]] : tailCap[u] = M[queue[u]][k]
      BY <3>5, <1>7
    <3>7. pc[u] \in {"next", "link"} => \/ \E k \in lo[queue[u]]..h[queue[u]] : tailCap[u] = M[queue[u]][k]
                                        \/ Gone(M, lo, h, tailCap[u][1])'
      <4>1. pc[u] \in {"next", "link"} => tailCap[u][1] \in AllNodes /\ queue[u] \in Queues
        BY <3>5, <1>0, Positions DEF TailPcs
      <4>2. pc[u] \in {"next", "link"} => \/ \E k \in lo[queue[u]]..hi[queue[u]] : tailCap[u] = N[queue[u]][k]
                                          \/ Gone(N, lo, hi, tailCap[u][1])
        BY <3>1 DEF EnqueueReads
      <4>3. pc[u] \in {"next", "link"} /\ Gone(N, lo, hi, tailCap[u][1]) => Gone(M, lo, h, tailCap[u][1])'
        <5>. SUFFICES ASSUME pc[u] \in {"next", "link"}, Gone(N, lo, hi, tailCap[u][1])
                      PROVE  Gone(M, lo, h, tailCap[u][1])'
          OBVIOUS
        <5>1. PICK n \in AllNodes : n = tailCap[u][1]
          BY <4>1
        <5>2. Gone(M, lo, h, n)'
          BY <3>4, <5>1
        <5>3. tailCap'[u] = tailCap[u]
          BY <3>2
        <5>. QED  BY <5>1, <5>2, <5>3 DEF Gone, InQueue
      <4>4. pc[u] \in {"next", "link"} => \A k \in lo[queue[u]]..hi[queue[u]] :
                k \in lo[queue[u]]..h[queue[u]] /\ M[queue[u]][k] = N[queue[u]][k]
        BY <4>1, <1>7
      <4>. QED  BY <4>2, <4>3, <4>4
    <3>8. ASSUME pc[u] \in {"swing", "advance"}, NEW k \in lo[queue[u]]..h[queue[u]],
                 tailCap[u] = M[queue[u]][k]
          PROVE  /\ k \in lo[queue[u]]..hi[queue[u]] /\ tailCap[u] = N[queue[u]][k]
                 /\ k # hi[queue[u]] => k # h[queue[u]] /\ M[queue[u]][k + 1] = N[queue[u]][k + 1]
      <4>1. queue[u] \in Queues
        BY <3>1, <3>8
      <4>2. k \in lo[queue[u]]..hi[queue[u]]
        <5>1. queue[u] = q => tailCap[u] # a
          BY <3>8, <1>2, <1>q, <1>a DEF NoTagReuse
        <5>. QED  BY <3>8, <4>1, <5>1, <1>6, <1>7
      <4>3. tailCap[u] = N[queue[u]][k]
        BY <3>8, <4>1, <4>2, <1>7
      <4>4. k # hi[queue[u]] => k + 1 \in lo[queue[u]]..hi[queue[u]] /\ k # h[queue[u]]
        BY <4>1, <4>2, <1>b
      <4>. QED  BY <4>1, <4>2, <4>3, <4>4, <1>7
    <3>9. EnqueueReads(M, lo, h, u)'
      <4>1. pc[u] = "swing" => \A k \in lo[queue[u]]..h[queue[u]] : tailCap[u] = M[queue[u]][k] =>
                k # h[queue[u]] /\ nextCap[u] = M[queue[u]][k + 1]
        BY <3>1, <3>8 DEF EnqueueReads
      <4>2. pc[u] = "advance" => \A k \in lo[queue[u]]..h[queue[u]] : tailCap[u] = M[queue[u]][k] =>
                k # h[queue[u]] /\ node[u] = M[queue[u]][k + 1]
        BY <3>1, <3>8 DEF EnqueueReads
      <4>3. /\ pc[u] \in NewPcs => node[u] \in Address
            /\ pc[u] = "link" => nextCap[u][1] = 0
        BY <3>1 DEF EnqueueReads
      <4>. QED  BY <3>2, <3>3, <3>6, <3>7, <4>1, <4>2, <4>3 DEF EnqueueReads
    <3>10. pc[u] \in HeadPcs => /\ \E k \in 0..lo[queue[u]] : headCap[u] = M[queue[u]][k]
                                /\ \A k \in lo[queue[u]]..h[queue[u]] :
                                      k # lo[queue[u]] => headCap[u] # M[queue[u]][k]
      <4>. SUFFICES ASSUME pc[u] \in HeadPcs
                    PROVE  /\ \E k \in 0..lo[queue[u]] : headCap[u] = M[queue[u]][k]
                           /\ \A k \in lo[queue[u]]..h[queue[u]] :
                                 k # lo[queue[u]] => headCap[u] # M[queue[u]][k]
        OBVIOUS
      <4>1. queue[u] \in Queues
        BY <3>1, PcFacts
      <4>2. /\ \E k \in 0..lo[queue[u]] : headCap[u] = N[queue[u]][k]
            /\ \A k \in lo[queue[u]]..hi[queue[u]] : k # lo[queue[u]] => headCap[u] # N[queue[u]][k]
        BY <3>1 DEF DequeueReads
      <4>3. \A k \in 0..lo[queue[u]] : k \in 0..hi[queue[u]]
        BY <4>1, <1>3
      <4>4. queue[u] = q => headCap[u] # a
        BY <1>2, <1>q, <1>a DEF NoTagReuse
      <4>5. \A k \in lo[queue[u]]..h[queue[u]] : k # lo[queue[u]] => headCap[u] # M[queue[u]][k]
        BY <4>1, <4>2, <4>4, <1>6, <1>7
      <4>. QED  BY <4>1, <4>2, <4>3, <4>5, <1>7
    <3>11. queue[u] \in Queues /\ lo[queue[u]] # hi[queue[u]] =>
              lo[queue[u]] # h[queue[u]] /\ M[queue[u]][lo[queue[u]] + 1] = N[queue[u]][lo[queue[u]] + 1]
      <4>1. queue[u] \in Queues /\ lo[queue[u]] # hi[queue[u]] =>
                lo[queue[u]] + 1 \in lo[queue[u]]..hi[queue[u]] /\ lo[queue[u]] # h[queue[u]]
        <5>1. queue[u] \in Queues => lo[queue[u]] \in lo[queue[u]]..hi[queue[u]]
          BY <1>3
        <5>. QED  BY <5>1, <1>b
      <4>. QED  BY <4>1, <1>7
    <3>12. DequeueReads(M, lo, h, u)'
      BY <3>1, <3>2, <3>10, <3>11, <1>2 DEF DequeueReads
    <3>. QED  BY <3>9, <3>12
  <2>. QED  BY <2>1, <2>2
<1>18. Core(M, lo, h)'
  BY <1>12, <1>13, <1>14, <1>15, <1>16, <1>17 DEF Core
<1>. QED  BY <1>2, <1>18, <1>q

-----------------------------------------------------------------------------
(* Every step keeps the invariant.                                         *)

\* Values are given in the order of their numbers.
LEMMA GivenNext ==
    ASSUME Typed, GivenInOrder, [Next]_vars
    PROVE  GivenInOrder'
<1>1. ASSUME NEW t \in Enqueuers, NEW q \in Queues, BeginEnqueue(t, q) PROVE GivenInOrder'
  <2>1. PICK g \in 0..MaxValue : UNION {given[r] : r \in Queues} = 1..g /\ NextValue = g + 1
    BY NextValueIs
  <2>2. NextValue <= MaxValue /\ given' = [given EXCEPT ![q] = @ \cup {NextValue}]
    BY <1>1 DEF BeginEnqueue
  <2>3. g + 1 \in 0..MaxValue /\ 1..(g + 1) = 1..g \cup {g + 1}
    BY <2>1, <2>2, NodeFacts
  <2>4. UNION {given'[r] : r \in Queues} = (UNION {given[r] : r \in Queues}) \cup {g + 1}
    <3>1. given \in [Queues -> SUBSET Nat]
      BY DEF Typed
    <3>2. \A r \in Queues : given'[r] = IF r = q THEN given[r] \cup {g + 1} ELSE given[r]
      BY <2>1, <2>2, <3>1
    <3>3. \A v : (\E r \in Queues : v \in given'[r])
                   <=> v = g + 1 \/ \E r \in Queues : v \in given[r]
      BY <3>2
    <3>. QED  BY <3>3
  <2>. QED  BY <2>1, <2>3, <2>4 DEF GivenInOrder
<1>2. ASSUME given' = given PROVE GivenInOrder'
  BY <1>2 DEF GivenInOrder
<1>3. ASSUME NEW t \in Enqueuers, EnqueueStep(t) PROVE GivenInOrder'
  BY <1>1, <1>2, <1>3 DEF EnqueueStep, TagNode, ReadTail, ReadNext, SwingTail, Link, AdvanceTail,
                          Count, callVars
<1>4. ASSUME NEW t \in Dequeuers, DequeueStep(t) PROVE GivenInOrder'
  BY <1>2, <1>4 DEF DequeueStep, Reserve, Refuse, TakeReadHead, TakeReadTail, TakeReadNext,
                    TakeReadData, Take, FreeHead, callVars
<1>. QED  BY <1>2, <1>3, <1>4 DEF Next, vars, callVars

\* What a step reads Next and data of is a node.
LEMMA ReadsAreNodes ==
    ASSUME Typed, NEW N, NEW lo, NEW hi, Core(N, lo, hi), NEW t \in Threads
    PROVE  /\ pc[t] \in NewPcs => node[t][1] \in AllNodes
           /\ pc[t] \in TailPcs => tailCap[t][1] \in AllNodes
           /\ pc[t] \in HeadPcs => headCap[t][1] \in AllNodes
<1>. USE DEF Core
<1>1. EnqueueReads(N, lo, hi, t) /\ DequeueReads(N, lo, hi, t) /\ Shape(N, lo, hi)
  OBVIOUS
<1>2. pc[t] # "idle" => queue[t] \in Queues
  BY DEF Typed
<1>3. pc[t] \in NewPcs => node[t][1] \in AllNodes
  BY <1>1, NodeFacts DEF EnqueueReads
<1>4. pc[t] \in TailPcs => tailCap[t][1] \in AllNodes
  <2>1. pc[t] \in TailPcs => queue[t] \in Queues /\ \E k \in 0..hi[queue[t]] : tailCap[t] = N[queue[t]][k]
    BY <1>1, <1>2 DEF EnqueueReads, TailPcs
  <2>. QED  BY <1>1, <2>1, Positions
<1>5. pc[t] \in HeadPcs => headCap[t][1] \in AllNodes
  <2>1. pc[t] \in HeadPcs => queue[t] \in Queues /\ \E k \in 0..lo[queue[t]] : headCap[t] = N[queue[t]][k]
    BY <1>1, <1>2, PcFacts DEF DequeueReads
  <2>2. \A k \in 0..lo[queue[t]] : queue[t] \in Queues => k \in Nat
    BY <1>1 DEF Shape
  <2>. QED  BY <1>1, <2>1, <2>2, Positions, NodeFacts
<1>. QED  BY <1>3, <1>4, <1>5

\* Every step keeps the types.
LEMMA TypedNext ==
    ASSUME Typed, PoolInv, GivenInOrder, NEW N, NEW lo, NEW hi, Core(N, lo, hi), [Next]_vars
    PROVE  Typed'
<1>. USE DEF Goto, callVars, capVars, listVars, poolVars, Pcs, NewPcs, ReservedPcs
<1>0. Enqueuers \subseteq Threads /\ Dequeuers \subseteq Threads
  BY QueueAssumption
<1>1. ASSUME NEW t \in Threads, NEW q \in Queues, BeginEnqueue(t, q) PROVE Typed'
  <2>1. PICK n \in AllNodes : /\ Alloc(t, n)
                              /\ data' = [data EXCEPT ![n] = NextValue]
                              /\ next' = [next EXCEPT ![n] = Null]
                              /\ node' = [node EXCEPT ![t] = <<n, 0>>]
    BY <1>1 DEF BeginEnqueue
  <2>2. NextValue \in Nat
    BY NextValueIs
  <2>3. created' <= QueueCount + MaxValue
    <3>1. created' = created \/ created' = n
      BY <2>1, AllocTakesOut
    <3>2. n \in Nat /\ n <= QueueCount + MaxValue /\ created <= QueueCount + MaxValue
      BY NodeFacts DEF AllNodes, Typed
    <3>. QED  BY <3>1, <3>2
  <2>4. data' \in [AllNodes -> Nat] /\ next' \in [AllNodes -> Pointer]
    BY <2>1, <2>2, NodeFacts DEF Typed
  <2>5. node' \in [Threads -> Pointer] /\ value' \in [Threads -> Nat]
    <3>1. <<n, 0>> \in Pointer
      BY DEF Pointer
    <3>. QED  BY <1>1, <2>1, <2>2, <3>1 DEF Typed, BeginEnqueue
  <2>6. given' \in [Queues -> SUBSET Nat]
    BY <1>1, <2>2 DEF Typed, BeginEnqueue
  <2>7. /\ pc' \in [Threads -> Pcs] /\ queue' \in [Threads -> Queues \cup {0}]
        /\ \A u \in Threads : pc'[u] # "idle" => queue'[u] \in Queues
    BY <1>1 DEF Typed, BeginEnqueue
  <2>8. UNCHANGED <<head, tail, size, allocCnt, headCap, tailCap, nextCap, taken>>
    BY <1>1 DEF BeginEnqueue
  <2>9. \A u \in Threads : pc'[u] = "takeData" => nextCap'[u] \in Address
    BY <1>1, <2>8 DEF Typed, BeginEnqueue
  <2>. QED  BY <2>3, <2>4, <2>5, <2>6, <2>7, <2>8, <2>9 DEF Typed
<1>2. ASSUME NEW t \in Threads, TagNode(t) PROVE Typed'
  <2>1. pc[t] = "tag" /\ queue[t] \in Queues /\ node[t][1] \in AllNodes /\ queue[t] \in Nat
    BY <1>2, ReadsAreNodes, NodeFacts DEF TagNode, Typed
  <2>2. allocCnt' \in [Queues -> Nat] /\ allocCnt'[queue[t]] \in Nat
    BY <1>2, <2>1 DEF TagNode, Typed
  <2>3. Tagged(0, queue[t]) \in Pointer /\ Tagged(node[t][1], allocCnt'[queue[t]]) \in Pointer
    BY <2>1, <2>2, TaggedFacts
  <2>4. node' \in [Threads -> Pointer] /\ next' \in [AllNodes -> Pointer]
    BY <1>2, <2>3 DEF TagNode, Typed
  <2>. QED  BY <1>2, <2>1, <2>2, <2>4 DEF TagNode, Typed
<1>3. ASSUME NEW t \in Threads, ReadTail(t) PROVE Typed'
  BY <1>3 DEF ReadTail, Typed
<1>4. ASSUME NEW t \in Threads, ReadNext(t) PROVE Typed'
  <2>1. tailCap[t][1] \in AllNodes
    BY <1>4, ReadsAreNodes DEF ReadNext, TailPcs
  <2>. QED  BY <1>4, <2>1 DEF ReadNext, Typed
<1>5. ASSUME NEW t \in Threads, NEW new \in Pointer, CasTail(t, new), tail \in [Queues -> Pointer]
      PROVE  tail' \in [Queues -> Pointer]
  BY <1>5 DEF CasTail
<1>6. ASSUME NEW t \in Threads, SwingTail(t) \/ AdvanceTail(t) PROVE Typed'
  <2>1. nextCap[t] \in Pointer /\ node[t] \in Pointer /\ tail \in [Queues -> Pointer]
    BY DEF Typed
  <2>2. tail' \in [Queues -> Pointer]
    BY <1>5, <1>6, <2>1 DEF SwingTail, AdvanceTail
  <2>. QED  BY <1>6, <2>2 DEF SwingTail, AdvanceTail, Typed
<1>7. ASSUME NEW t \in Threads, Link(t) PROVE Typed'
  <2>1. tailCap[t][1] \in AllNodes
    BY <1>7, ReadsAreNodes DEF Link, TailPcs
  <2>2. next' \in [AllNodes -> Pointer]
    BY <1>7, <2>1 DEF Link, Typed
  <2>. QED  BY <1>7, <2>2 DEF Link, Typed
<1>8. ASSUME NEW t \in Threads, NEW from, Return(t, from)
      PROVE  /\ pc' \in [Threads -> Pcs] /\ queue' \in [Threads -> Queues \cup {0}]
             /\ \A u \in Threads : pc'[u] # "idle" => queue'[u] \in Queues
             /\ value' \in [Threads -> Nat] /\ node' \in [Threads -> Pointer]
             /\ headCap' \in [Threads -> Pointer] /\ tailCap' \in [Threads -> Pointer]
             /\ nextCap' \in [Threads -> Pointer]
             /\ \A u \in Threads : pc'[u] = "takeData" => nextCap'[u] \in Address
  BY <1>8, NodeFacts DEF Return, Typed
<1>9. ASSUME NEW t \in Threads, Count(t) \/ Refuse(t) PROVE Typed'
  <2>1. Return(t, "count") \/ Return(t, "refuse")
    BY <1>9 DEF Count, Refuse
  <2>2. /\ size' \in [Queues -> Int]
        /\ UNCHANGED <<poolVars, head, tail, allocCnt, next, data, given, taken>>
    BY <1>9 DEF Count, Refuse, Typed
  <2>. QED  BY <2>1, <2>2, <1>8 DEF Typed
<1>10. ASSUME NEW t \in Threads, NEW q \in Queues, Reserve(t, q) PROVE Typed'
  <2>1. size' \in [Queues -> Int]
    BY <1>10 DEF Reserve, Typed
  <2>. QED  BY <1>10, <2>1 DEF Reserve, Typed
<1>11. ASSUME NEW t \in Threads, TakeReadHead(t) \/ TakeReadTail(t) PROVE Typed'
  BY <1>11, ZenonT(60) DEF TakeReadHead, TakeReadTail, Typed
<1>12. ASSUME NEW t \in Threads, TakeReadNext(t) PROVE Typed'
  <2>1. headCap[t][1] \in AllNodes
    BY <1>12, ReadsAreNodes DEF TakeReadNext, HeadPcs
  <2>2. next[headCap[t][1]] \in Pointer /\ tail \in [Queues -> Pointer]
    BY <2>1 DEF Typed
  <2>3. tail' \in [Queues -> Pointer]
    BY <1>5, <1>12, <2>2 DEF TakeReadNext
  <2>4. \A u \in Threads : pc'[u] = "takeData" => nextCap'[u] \in Address
    <3>1. pc'[t] = "takeData" => nextCap'[t] \in Address
      BY <1>12, <2>2, NodeFacts DEF TakeReadNext, Typed
    <3>2. \A u \in Threads \ {t} : pc'[u] = pc[u] /\ nextCap'[u] = nextCap[u]
      BY <1>12 DEF TakeReadNext, Typed
    <3>. QED  BY <3>1, <3>2 DEF Typed
  <2>. QED  BY <1>12, <2>2, <2>3, <2>4 DEF TakeReadNext, Typed
<1>13. ASSUME NEW t \in Threads, TakeReadData(t) PROVE Typed'
  <2>1. nextCap[t][1] \in AllNodes
    BY <1>13, NodeFacts DEF TakeReadData, Typed
  <2>. QED  BY <1>13, <2>1 DEF TakeReadData, Typed
<1>14. ASSUME NEW t \in Threads, Take(t) PROVE Typed'
  <2>1. /\ value[t] \in Nat /\ nextCap[t] \in Pointer /\ taken \in [Queues -> Seq(Nat)]
        /\ head \in [Queues -> Pointer]
    BY DEF Typed
  <2>2. taken' \in [Queues -> Seq(Nat)]
    <3>1. taken' = taken \/ taken' = [taken EXCEPT ![queue[t]] = Append(taken[queue[t]], value[t])]
      BY <1>14 DEF Take
    <3>2. \A q \in Queues : Append(taken[q], value[t]) \in Seq(Nat)
      BY <2>1
    <3>. QED  BY <2>1, <3>1, <3>2
  <2>3. head' \in [Queues -> Pointer]
    <3>1. head' = head \/ head' = [head EXCEPT ![queue[t]] = nextCap[t]]
      BY <1>14 DEF Take
    <3>. QED  BY <2>1, <3>1
  <2>. QED  BY <1>14, <2>2, <2>3 DEF Take, Typed
<1>15. ASSUME NEW t \in Threads, FreeHead(t) PROVE Typed'
  <2>1. Return(t, "free") /\ UNCHANGED <<listVars, given, taken, created>>
    BY <1>15 DEF FreeHead, Free
  <2>. QED  BY <2>1, <1>8 DEF Typed
<1>16. ASSUME UNCHANGED vars PROVE Typed'
  BY <1>16 DEF vars, Typed
<1>17. ASSUME NEW t \in Threads, EnqueueStep(t) PROVE Typed'
  BY <1>1, <1>2, <1>3, <1>4, <1>6, <1>7, <1>9, <1>17 DEF EnqueueStep
<1>18. ASSUME NEW t \in Threads, DequeueStep(t) PROVE Typed'
  BY <1>9, <1>10, <1>11, <1>12, <1>13, <1>14, <1>15, <1>18 DEF DequeueStep
<1>. QED  BY <1>0, <1>16, <1>17, <1>18 DEF Next

\* Each queue starts with a dummy.
LEMMA CoreStart ==
    ASSUME Init
    PROVE  /\ Typed /\ PoolInv /\ GivenInOrder
           /\ \E N, lo, hi : /\ Core(N, lo, hi) /\ \A q \in Queues : lo[q] = 0 /\ hi[q] = 0
                             /\ N = [q \in Queues |-> [k \in Nat |-> <<q, 0>>]]
<1>. USE DEF Init
<1>N. PICK N, lo, hi : /\ N = [q \in Queues |-> [k \in Nat |-> <<q, 0>>]]
                       /\ lo = [q \in Queues |-> 0] /\ hi = [q \in Queues |-> 0]
  OBVIOUS
<1>1. PoolInv /\ Pooled = {} /\ created = QueueCount
  BY NodeFacts, PoolStart
<1>2. /\ \A q \in Queues : \A k \in Nat : N[q][k] = <<q, 0>> /\ N[q][k][1] = q
      /\ \A q \in Queues : lo[q] = 0 /\ hi[q] = 0
      /\ \A q \in Queues : q \in AllNodes /\ <<q, 0>> \in Address /\ <<q, 0>> \in Pointer
      /\ 0 \in 0..0 /\ \A k \in 0..0 : k = 0
  BY <1>N, NodeFacts DEF Address, Pointer
<1>3. \A t \in Threads : pc[t] = "idle" /\ Own(t) = 0
  BY DEF Own, NewPcs
<1>4. Typed
  <2>1. head \in [Queues -> Pointer] /\ tail \in [Queues -> Pointer]
    BY <1>2
  <2>2. created <= QueueCount + MaxValue
    BY <1>1, NodeFacts
  <2>. QED  BY <1>3, <2>1, <2>2, NodeFacts DEF Typed, Pcs
<1>5. GivenInOrder
  <2>1. 0 \in 0..MaxValue /\ 1..0 = {}
    BY NodeFacts
  <2>2. UNION {given[q] : q \in Queues} = {}
    OBVIOUS
  <2>. QED  BY <2>1, <2>2 DEF GivenInOrder
<1>6. Shape(N, lo, hi)
  BY <1>N, <1>2 DEF Shape
<1>7. Linked(N, lo, hi)
  BY <1>2, NodeFacts DEF Linked
<1>8. NodesOwned(N, lo, hi)
  <2>1. \A q \in Queues : \A k \in lo[q]..hi[q] : k = 0 /\ N[q][k][1] = q /\ q # 0
    BY <1>2, NodeFacts
  <2>2. \A q \in Queues : 0 \in lo[q]..hi[q] /\ N[q][0][1] = q
    BY <1>2
  <2>3. \A n : Used(N, lo, hi, n) <=> n \in Queues
    BY <1>3, <2>1, <2>2 DEF Used, InQueue
  <2>4. Queues = 1..created
    BY <1>1 DEF Queues
  <2>. QED  BY <1>1, <1>3, <2>1, <2>3, <2>4 DEF NodesOwned
<1>9. ValuesCarried(N, lo, hi)
  <2>1. \A q \in Queues : \A k \in lo[q]..hi[q] : k = lo[q]
    BY <1>2
  <2>2. \A q \in Queues : DOMAIN taken[q] = {}
    OBVIOUS
  <2>. QED  BY <1>3, <2>1, <2>2 DEF ValuesCarried, NewPcs
<1>10. Counted(lo, hi)
  <2>1. \A q : At(q, DebtPcs) = {}
    BY <1>3 DEF At, DebtPcs, ReservedPcs
  <2>2. \A q : Cardinality(At(q, DebtPcs)) = 0
    BY <2>1, FS_EmptySet
  <2>3. \A q \in Queues : size[q] = 0 /\ lo[q] = 0 /\ hi[q] = 0
    BY <1>2
  <2>. QED  BY <2>2, <2>3 DEF Counted
<1>11. \A t \in Threads : EnqueueReads(N, lo, hi, t) /\ DequeueReads(N, lo, hi, t)
  BY <1>3 DEF EnqueueReads, DequeueReads, NewPcs, TailPcs, HeadPcs
<1>12. Core(N, lo, hi)
  BY <1>6, <1>7, <1>8, <1>9, <1>10, <1>11 DEF Core
<1>. HIDE DEF Init
<1>13. \E A, b, c : /\ Core(A, b, c) /\ \A q \in Queues : b[q] = 0 /\ c[q] = 0
                   /\ A = [q \in Queues |-> [k \in Nat |-> <<q, 0>>]]
  <2>1. \A q \in Queues : lo[q] = 0 /\ hi[q] = 0
    BY <1>2
  <2>. WITNESS N, lo, hi
  <2>. QED  BY <2>1, <1>N, <1>12
<1>. QED  BY <1>1, <1>4, <1>5, <1>13

\* The values in queue q, the next one to be taken first.
ItemsOf(d, N, lo, hi, q) == [i \in 1..(hi[q] - lo[q]) |-> d[N[q][lo[q] + i][1]]]
Items(N, lo, hi, q) == ItemsOf(data, N, lo, hi, q)

\* The sequences that Items is.
LEMMA FunIsSeq ==
    ASSUME NEW n \in Nat, NEW s \in [1..n -> Nat]
    PROVE  s \in Seq(Nat) /\ Len(s) = n /\ DOMAIN s = 1..n
OBVIOUS

LEMMA ItemsFacts ==
    ASSUME NEW N, NEW lo, NEW hi, Shape(N, lo, hi), NEW q \in Queues, NEW d \in [AllNodes -> Nat],
           NEW s, s = ItemsOf(d, N, lo, hi, q)
    PROVE  /\ s \in Seq(Nat) /\ Len(s) = hi[q] - lo[q] /\ Len(s) \in Nat /\ DOMAIN s = 1..Len(s)
           /\ \A i \in 1..Len(s) : /\ lo[q] + i \in lo[q]..hi[q] /\ lo[q] + i # lo[q]
                                   /\ s[i] = d[N[q][lo[q] + i][1]]
<1>1. /\ lo[q] \in Nat /\ hi[q] \in Nat /\ lo[q] <= hi[q]
      /\ \A k \in lo[q]..hi[q] : N[q][k][1] \in AllNodes
  BY Positions
<1>2. PICK n \in Nat : n = hi[q] - lo[q]
  BY <1>1
<1>3. \A i \in 1..n : lo[q] + i \in lo[q]..hi[q] /\ lo[q] + i # lo[q]
  BY <1>1, <1>2
<1>4. s = [i \in 1..n |-> d[N[q][lo[q] + i][1]]]
  BY <1>2 DEF ItemsOf
<1>5. s \in [1..n -> Nat]
  BY <1>1, <1>3, <1>4
<1>6. s \in Seq(Nat) /\ Len(s) = n /\ DOMAIN s = 1..n
  BY <1>2, <1>5, FunIsSeq
<1>. QED  BY <1>2, <1>3, <1>4, <1>6

\* A link appends the value, a take removes the first one.
LEMMA AppendIs ==
    ASSUME NEW s \in Seq(Nat), NEW m \in Seq(Nat), Len(m) = Len(s) + 1,
           \A k \in 1..Len(s) : m[k] = s[k]
    PROVE  m = Append(s, m[Len(s) + 1])
<1>. DEFINE v == m[Len(s) + 1]  c == Append(s, v)
<1>1. Len(s) \in Nat /\ v \in Nat
  BY LenProperties, ElementOfSeq
<1>2. c \in Seq(Nat) /\ Len(c) = Len(s) + 1 /\ c[Len(s) + 1] = v /\ \A k \in 1..Len(s) : c[k] = s[k]
  BY <1>1, AppendProperties
<1>. HIDE DEF c
<1>3. \A k \in 1..Len(m) : k = Len(s) + 1 \/ k \in 1..Len(s)
  BY <1>1
<1>4. \A k \in 1..Len(m) : m[k] = c[k]
  BY <1>2, <1>3
<1>5. m = c
  BY <1>2, <1>4, SeqEqual
<1>. QED  BY <1>5 DEF c

LEMMA TailIs ==
    ASSUME NEW s \in Seq(Nat), NEW m \in Seq(Nat), Len(s) = Len(m) + 1,
           \A k \in 1..Len(m) : m[k] = s[k + 1]
    PROVE  s # <<>> /\ Head(s) = s[1] /\ m = Tail(s)
<1>1. Len(m) \in Nat
  BY LenProperties
<1>2. s # <<>> /\ Head(s) = s[1]
  BY <1>1
<1>3. Tail(s) \in Seq(Nat) /\ Len(Tail(s)) = Len(m) /\ \A k \in 1..Len(m) : Tail(s)[k] = s[k + 1]
  BY <1>1, <1>2, HeadTailProperties
<1>. QED  BY <1>2, <1>3, SeqEqual

\* What a step does to the queues: nothing, but that a call may be given a value
\* nobody else has; or it links a value; or it takes the first one.
Kept(N, lo, hi) ==
    /\ Core(N, lo, hi)' /\ taken' = taken
    /\ \A q \in Queues : Items(N, lo, hi, q)' = Items(N, lo, hi, q)
    /\ \/ given' = given
       \/ \E q \in Queues, v \in Values :
             /\ given' = [given EXCEPT ![q] = given[q] \cup {v}]
             /\ \A r \in Queues : v \notin given[r]
\* Thread t links its node, and M are the pointers linked then.
Links(t, N, hi, M, h) ==
    /\ Link(t) /\ next[tailCap[t][1]] = nextCap[t] /\ queue[t] \in Queues
    /\ h = OneMore(hi, queue[t]) /\ M = Extended(N, queue[t], hi[queue[t]] + 1, node[t])
LinkedOne(N, lo, hi) ==
    \E M, h, v : \E q \in Queues :
        /\ Core(M, lo, h)' /\ given' = given /\ taken' = taken
        /\ \E t \in Threads : Links(t, N, hi, M, h)
        /\ v \in given[q]
        /\ \A i \in DOMAIN Items(N, lo, hi, q) : Items(N, lo, hi, q)[i] # v
        /\ \A i \in DOMAIN taken[q] : taken[q][i] # v
        /\ Items(M, lo, h, q)' = Append(Items(N, lo, hi, q), v)
        /\ \A r \in Queues \ {q} : Items(M, lo, h, r)' = Items(N, lo, hi, r)
TookOne(N, lo, hi) ==
    \E l : \E q \in Queues :
        /\ Core(N, l, hi)' /\ given' = given
        /\ Items(N, lo, hi, q) # <<>>
        /\ taken' = [taken EXCEPT ![q] = Append(taken[q], Head(Items(N, lo, hi, q)))]
        /\ Items(N, l, hi, q)' = Tail(Items(N, lo, hi, q))
        /\ \A r \in Queues \ {q} : Items(N, l, hi, r)' = Items(N, lo, hi, r)

\* A step that changes no list, nor the data in one.
LEMMA KeptItems ==
    ASSUME Typed, NEW N, NEW lo, NEW hi, Core(N, lo, hi), Core(N, lo, hi)',
           \A q \in Queues : \A k \in lo[q]..hi[q] : data'[N[q][k][1]] = data[N[q][k][1]]
    PROVE  \A q \in Queues : Items(N, lo, hi, q)' = Items(N, lo, hi, q)
<1>. SUFFICES ASSUME NEW q \in Queues PROVE Items(N, lo, hi, q)' = Items(N, lo, hi, q)
  OBVIOUS
<1>1. lo[q] \in Nat /\ hi[q] \in Nat
  BY Positions DEF Core
<1>2. \A i \in 1..(hi[q] - lo[q]) : data'[N[q][lo[q] + i][1]] = data[N[q][lo[q] + i][1]]
  <2>1. \A i \in 1..(hi[q] - lo[q]) : lo[q] + i \in lo[q]..hi[q]
    BY <1>1
  <2>. QED  BY <2>1
<1>. QED  BY <1>2 DEF Items, ItemsOf

\* The two compare-and-swaps in these words.
LEMMA LinkIsLinkedOne ==
    ASSUME Typed, Typed', NoTagReuse, NEW N, NEW lo, NEW hi, Core(N, lo, hi),
           NEW t \in Threads, Link(t), next[tailCap[t][1]] = nextCap[t]
    PROVE  LinkedOne(N, lo, hi)
<1>q. PICK q : q = queue[t]
  OBVIOUS
<1>h. PICK h : h = OneMore(hi, queue[t])
  OBVIOUS
<1>M. PICK M : M = Extended(N, queue[t], hi[queue[t]] + 1, node[t])
  OBVIOUS
<1>1. Core(M, lo, h)' /\ q \in Queues /\ data' = data /\ given' = given /\ taken' = taken
  BY <1>q, <1>h, <1>M, LinkStep
<1>2. Shape(N, lo, hi) /\ Shape(M, lo, h) /\ data \in [AllNodes -> Nat]
  BY <1>1 DEF Core, Shape, Typed
<1>3. /\ h[q] = hi[q] + 1 /\ \A r \in Queues \ {q} : h[r] = hi[r]
      /\ M[q][hi[q] + 1] = node[t] /\ \A k \in Nat : k # hi[q] + 1 => M[q][k] = N[q][k]
      /\ \A r \in Queues \ {q} : M[r] = N[r]
  <2>1. N \in [Queues -> [Nat -> Address]] /\ hi \in [Queues -> Nat] /\ hi[q] + 1 \in Nat
    BY <1>1, <1>2 DEF Shape
  <2>2. M[q] = [N[q] EXCEPT ![hi[q] + 1] = node[t]] /\ N[q] \in [Nat -> Address]
    BY <1>1, <1>q, <1>M, <2>1 DEF Extended
  <2>. QED  BY <1>1, <1>q, <1>h, <1>M, <2>1, <2>2 DEF OneMore, Extended
<1>v. PICK v : v = data[node[t][1]]
  OBVIOUS
<1>4. /\ v \in given[q]
      /\ \A k \in lo[q]..hi[q] : k # lo[q] => data[N[q][k][1]] # v
      /\ \A i \in DOMAIN taken[q] : taken[q][i] # v
  <2>1. pc[t] \in NewPcs
    BY DEF Link, Goto, NewPcs
  <2>2. ValuesCarried(N, lo, hi)
    BY DEF Core
  <2>. QED  BY <1>1, <1>q, <1>v, <2>1, <2>2 DEF ValuesCarried
<1>s. PICK s : s = ItemsOf(data, N, lo, hi, q)
  OBVIOUS
<1>m. PICK m : m = ItemsOf(data, M, lo, h, q)
  OBVIOUS
<1>5. /\ s \in Seq(Nat) /\ Len(s) = hi[q] - lo[q] /\ Len(s) \in Nat /\ DOMAIN s = 1..Len(s)
      /\ \A i \in 1..Len(s) : /\ lo[q] + i \in lo[q]..hi[q] /\ lo[q] + i # lo[q]
                              /\ s[i] = data[N[q][lo[q] + i][1]]
  BY <1>1, <1>2, <1>s, ItemsFacts
<1>6. /\ m \in Seq(Nat) /\ Len(m) = h[q] - lo[q]
      /\ \A i \in 1..Len(m) : m[i] = data[M[q][lo[q] + i][1]]
  BY <1>1, <1>2, <1>m, ItemsFacts
<1>7. lo[q] \in Nat /\ hi[q] \in Nat
  BY <1>1, <1>2, Positions
<1>8. m = Append(s, v)
  <2>1. Len(m) = Len(s) + 1 /\ lo[q] + (Len(s) + 1) = hi[q] + 1 /\ Len(s) + 1 \in 1..Len(m)
    <3>1. Len(s) = hi[q] - lo[q] /\ Len(s) \in Nat /\ Len(m) = h[q] - lo[q] /\ h[q] = hi[q] + 1
      BY <1>3, <1>5, <1>6
    <3>2. Len(m) = Len(s) + 1 /\ lo[q] + (Len(s) + 1) = hi[q] + 1
      BY <3>1, <1>7
    <3>3. Len(s) + 1 \in 1..(Len(s) + 1)
      BY <3>1
    <3>. QED  BY <3>2, <3>3
  <2>2. ASSUME NEW i \in 1..Len(s) PROVE m[i] = s[i]
    <3>1. i \in 1..Len(m) /\ lo[q] + i \in Nat /\ lo[q] + i # hi[q] + 1
      <4>1. Len(s) = hi[q] - lo[q] /\ Len(s) \in Nat
        BY <1>5
      <4>. QED  BY <4>1, <1>7, <2>1
    <3>2. m[i] = data[M[q][lo[q] + i][1]] /\ s[i] = data[N[q][lo[q] + i][1]]
      BY <3>1, <1>5, <1>6
    <3>3. M[q][lo[q] + i] = N[q][lo[q] + i]
      BY <3>1, <1>3
    <3>. QED  BY <3>2, <3>3
  <2>3. m[Len(s) + 1] = v
    BY <2>1, <1>3, <1>6, <1>v
  <2>. QED  BY <2>1, <2>2, <2>3, <1>5, <1>6, AppendIs
<1>9. Items(N, lo, hi, q) = s /\ Items(M, lo, h, q)' = m
  BY <1>1, <1>s, <1>m DEF Items
<1>10. \A i \in DOMAIN s : s[i] # v
  BY <1>4, <1>5, SMTT(30)
<1>11. \A r \in Queues \ {q} : Items(M, lo, h, r)' = Items(N, lo, hi, r)
  BY <1>1, <1>3 DEF Items, ItemsOf
<1>12. Links(t, N, hi, M, h)
  BY <1>1, <1>q, <1>h, <1>M DEF Links, Link, Goto, Typed
<1>. QED  BY <1>1, <1>4, <1>8, <1>9, <1>10, <1>11, <1>12 DEF LinkedOne

LEMMA TakeIsTookOne ==
    ASSUME Typed, NEW N, NEW lo, NEW hi, Core(N, lo, hi), NEW t \in Threads, Take(t),
           head[queue[t]] = headCap[t]
    PROVE  TookOne(N, lo, hi)
<1>q. PICK q : q = queue[t]
  OBVIOUS
<1>l. PICK l : l = OneMore(lo, queue[t])
  OBVIOUS
<1>1. /\ Core(N, l, hi)' /\ q \in Queues /\ lo[q] # hi[q] /\ data' = data /\ given' = given
      /\ taken' = [taken EXCEPT ![q] = Append(taken[q], value[t])]
      /\ value[t] = data[N[q][lo[q] + 1][1]]
  <2>1. /\ Core(N, l, hi)' /\ queue[t] \in Queues /\ lo[queue[t]] # hi[queue[t]]
        /\ data' = data /\ given' = given
        /\ value[t] = data[N[queue[t]][lo[queue[t]] + 1][1]]
    BY <1>l, TakeStep
  <2>2. taken' = [taken EXCEPT ![q] = Append(taken[q], value[t])]
    BY <1>q DEF Take
  <2>. QED  BY <2>1, <2>2, <1>q
<1>2. Shape(N, lo, hi) /\ Shape(N, l, hi) /\ data \in [AllNodes -> Nat]
  BY <1>1 DEF Core, Shape, Typed
<1>3. /\ l[q] = lo[q] + 1 /\ \A r \in Queues \ {q} : l[r] = lo[r]
      /\ lo[q] \in Nat /\ hi[q] \in Nat /\ lo[q] <= hi[q]
  <2>1. lo \in [Queues -> Nat]
    BY <1>2 DEF Shape
  <2>. QED  BY <1>1, <1>2, <1>q, <1>l, <2>1, Positions DEF OneMore
<1>s. PICK s : s = ItemsOf(data, N, lo, hi, q)
  OBVIOUS
<1>m. PICK m : m = ItemsOf(data, N, l, hi, q)
  OBVIOUS
<1>4. /\ s \in Seq(Nat) /\ Len(s) = hi[q] - lo[q]
      /\ \A i \in 1..Len(s) : s[i] = data[N[q][lo[q] + i][1]]
  BY <1>1, <1>2, <1>s, ItemsFacts
<1>5. /\ m \in Seq(Nat) /\ Len(m) = hi[q] - l[q]
      /\ \A i \in 1..Len(m) : m[i] = data[N[q][l[q] + i][1]]
  BY <1>1, <1>2, <1>m, ItemsFacts
<1>6. Len(s) = Len(m) + 1 /\ Len(m) \in Nat /\ 1 \in 1..Len(s)
  BY <1>1, <1>3, <1>4, <1>5
<1>7. ASSUME NEW i \in 1..Len(m) PROVE m[i] = s[i + 1]
  <2>1. i + 1 \in 1..Len(s) /\ lo[q] + (i + 1) = l[q] + i
    BY <1>3, <1>6
  <2>. QED  BY <2>1, <1>4, <1>5
<1>8. s # <<>> /\ Head(s) = value[t] /\ m = Tail(s)
  BY <1>1, <1>4, <1>5, <1>6, <1>7, TailIs
<1>9. Items(N, lo, hi, q) = s /\ Items(N, l, hi, q)' = m
  BY <1>1, <1>s, <1>m DEF Items
<1>10. \A r \in Queues \ {q} : Items(N, l, hi, r)' = Items(N, lo, hi, r)
  BY <1>1, <1>3 DEF Items, ItemsOf
<1>. QED  BY <1>1, <1>8, <1>9, <1>10 DEF TookOne

\* Every step keeps the positions, links one pointer or takes one.
LEMMA CoreNext ==
    ASSUME Typed, Typed', PoolInv, GivenInOrder, NoTagReuse, TailKept',
           NEW N, NEW lo, NEW hi, Core(N, lo, hi), [Next]_vars
    PROVE  PoolInv' /\ (Kept(N, lo, hi) \/ LinkedOne(N, lo, hi) \/ TookOne(N, lo, hi))
<1>. DEFINE Goal == PoolInv' /\ (Kept(N, lo, hi) \/ LinkedOne(N, lo, hi) \/ TookOne(N, lo, hi))
<1>0. Enqueuers \subseteq Threads /\ Dequeuers \subseteq Threads
  BY QueueAssumption
<1>1. UNCHANGED poolVars => PoolInv'
  BY DEF poolVars, PoolInv, PoolTyped, PoolApart, Pooled, InPool
<1>2. ASSUME PoolInv', Core(N, lo, hi)', UNCHANGED <<data, given, taken>> PROVE Goal
  BY <1>2, KeptItems DEF Kept
<1>3. ASSUME NEW t \in Threads, NEW q \in Queues, BeginEnqueue(t, q) PROVE Goal
  <2>1. /\ Core(N, lo, hi)' /\ PoolInv' /\ NextValue \in Values
        /\ \A r \in Queues : \A k \in lo[r]..hi[r] : data'[N[r][k][1]] = data[N[r][k][1]]
        /\ \A r \in Queues : NextValue \notin given[r]
    BY <1>3, BeginEnqueueStep
  <2>2. taken' = taken /\ given' = [given EXCEPT ![q] = given[q] \cup {NextValue}]
    BY <1>3 DEF BeginEnqueue
  <2>. QED  BY <2>1, <2>2, KeptItems DEF Kept
<1>4. ASSUME NEW t \in Threads, EnqueueStep(t) PROVE Goal
  <2>1. ASSUME TagNode(t) PROVE Goal
    BY <1>1, <1>2, <2>1, TagNodeStep DEF TagNode
  <2>2. ASSUME ReadTail(t) PROVE Goal
    BY <1>1, <1>2, <2>2, ReadTailStep DEF ReadTail, listVars, callVars
  <2>3. ASSUME ReadNext(t) PROVE Goal
    BY <1>1, <1>2, <2>3, ReadNextStep DEF ReadNext, listVars, callVars
  <2>4. ASSUME SwingTail(t) PROVE Goal
    BY <1>1, <1>2, <2>4, SwingTailStep DEF SwingTail, callVars
  <2>5. ASSUME AdvanceTail(t) PROVE Goal
    BY <1>1, <1>2, <2>5, AdvanceTailStep DEF AdvanceTail, callVars
  <2>6. ASSUME Count(t) PROVE Goal
    BY <1>1, <1>2, <2>6, CountUpStep DEF Count
  <2>7. ASSUME Link(t) PROVE Goal
    <3>1. UNCHANGED <<poolVars, data, given, taken>>
      BY <2>7 DEF Link, callVars
    <3>2. CASE next[tailCap[t][1]] = nextCap[t]
      BY <1>1, <2>7, <3>1, <3>2, LinkIsLinkedOne
    <3>3. CASE next[tailCap[t][1]] # nextCap[t]
      BY <1>1, <1>2, <2>7, <3>1, <3>3, LinkAgainStep
    <3>. QED  BY <3>2, <3>3
  <2>. QED  BY <1>3, <1>4, <2>1, <2>2, <2>3, <2>4, <2>5, <2>6, <2>7 DEF EnqueueStep
<1>5. ASSUME NEW t \in Threads, DequeueStep(t) PROVE Goal
  <2>1. ASSUME NEW q \in Queues, Reserve(t, q) PROVE Goal
    BY <1>1, <1>2, <2>1, ReserveStep DEF Reserve
  <2>2. ASSUME Refuse(t) PROVE Goal
    BY <1>1, <1>2, <2>2, CountUpStep DEF Refuse
  <2>3. ASSUME TakeReadHead(t) PROVE Goal
    BY <1>1, <1>2, <2>3, TakeReadHeadStep DEF TakeReadHead, listVars, callVars
  <2>4. ASSUME TakeReadTail(t) PROVE Goal
    BY <1>1, <1>2, <2>4, TakeReadTailStep DEF TakeReadTail, listVars, callVars
  <2>5. ASSUME TakeReadNext(t) PROVE Goal
    BY <1>1, <1>2, <2>5, TakeReadNextStep DEF TakeReadNext, callVars
  <2>6. ASSUME TakeReadData(t) PROVE Goal
    BY <1>1, <1>2, <2>6, TakeReadDataStep DEF TakeReadData, listVars
  <2>7. ASSUME Take(t) PROVE Goal
    <3>1. UNCHANGED <<poolVars, data, given>> /\ (head[queue[t]] # headCap[t] => taken' = taken)
      BY <2>7 DEF Take, callVars
    <3>2. CASE head[queue[t]] = headCap[t]
      BY <1>1, <2>7, <3>1, <3>2, TakeIsTookOne
    <3>3. CASE head[queue[t]] # headCap[t]
      BY <1>1, <1>2, <2>7, <3>1, <3>3, TakeAgainStep
    <3>. QED  BY <3>2, <3>3
  <2>8. ASSUME FreeHead(t) PROVE Goal
    <3>1. UNCHANGED <<data, given, taken>>
      BY <2>8 DEF FreeHead, listVars
    <3>. QED  BY <1>2, <2>8, <3>1, FreeHeadStep
  <2>. QED  BY <1>5, <2>1, <2>2, <2>3, <2>4, <2>5, <2>6, <2>7, <2>8 DEF DequeueStep
<1>6. ASSUME UNCHANGED vars PROVE Goal
  <2>. USE <1>6 DEF vars, listVars, callVars, capVars
  <2>1. Core(N, lo, hi)'
    <3>1. /\ Shape(N, lo, hi)' /\ Linked(N, lo, hi)' /\ ValuesCarried(N, lo, hi)' /\ Counted(lo, hi)'
      BY DEF Core, Shape, Linked, ValuesCarried, Counted, At
    <3>2. \A t \in Threads : Own(t)' = Own(t)
      BY DEF Own
    <3>3. Pooled' = Pooled /\ created' = created
      BY DEF poolVars, Pooled, InPool
    <3>4. NodesOwned(N, lo, hi)'
      BY <3>2, <3>3 DEF Core, NodesOwned, Used, InQueue
    <3>5. \A t \in Threads : EnqueueReads(N, lo, hi, t)' /\ DequeueReads(N, lo, hi, t)'
      BY DEF Core, EnqueueReads, DequeueReads, Gone, InQueue
    <3>. QED  BY <3>1, <3>4, <3>5 DEF Core
  <2>. QED  BY <1>1, <1>2, <2>1
<1>. QED  BY <1>0, <1>4, <1>5, <1>6 DEF Next

LEMMA IInvStart == Init => IInv
BY CoreStart DEF IInv

\* Every step keeps the invariant.
LEMMA IInvNext == IInv /\ NoTagReuse /\ TailKept' /\ [Next]_vars => IInv'
<1>. SUFFICES ASSUME IInv, NoTagReuse, TailKept', [Next]_vars PROVE IInv'
  OBVIOUS
<1>1. PICK N, lo, hi : Core(N, lo, hi)
  BY DEF IInv
<1>2. Typed' /\ GivenInOrder'
  BY <1>1, TypedNext, GivenNext DEF IInv
<1>3. PoolInv' /\ (Kept(N, lo, hi) \/ LinkedOne(N, lo, hi) \/ TookOne(N, lo, hi))
  BY <1>1, <1>2, CoreNext DEF IInv
<1>4. CASE Kept(N, lo, hi)
  BY <1>2, <1>3, <1>4 DEF IInv, Kept
<1>5. CASE LinkedOne(N, lo, hi)
  <2>1. PICK M, h : Core(M, lo, h)'
    BY <1>5 DEF LinkedOne
  <2>. QED  BY <1>2, <1>3, <2>1 DEF IInv
<1>6. CASE TookOne(N, lo, hi)
  <2>1. PICK l : Core(N, l, hi)'
    BY <1>6 DEF TookOne
  <2>. QED  BY <1>2, <1>3, <2>1 DEF IInv
<1>. QED  BY <1>3, <1>4, <1>5, <1>6

\* The inductive invariant of the queues, as long as no compare-and-swap finds a
\* pointer linked again with the same tag, and no Enqueue the node it is about
\* to link to given to another one.
THEOREM SpecIInv == Spec /\ []NoTagReuse /\ []TailKept => []IInv
BY IInvStart, IInvNext, PTL DEF Spec

-----------------------------------------------------------------------------
(* What the invariant says of the contents.                                *)

\* A set of natural numbers has a least element.
LEMMA LeastOf ==
    ASSUME NEW S, S \subseteq Nat, S # {}
    PROVE  \E m \in S : \A x \in S : m <= x
<1>. DEFINE R == OpToRel(<, Nat)
<1>1. \A x, y \in Nat : x < y => <<x, y>> \in R
  BY Zenon DEF OpToRel
<1>2. IsWellFoundedOn(R, Nat)
  BY NatLessThanWellFounded
<1>. HIDE DEF R
<1>3. PICK m \in S : \A y \in S : ~(<<y, m>> \in R)
  BY <1>2, WFMin
<1>4. ASSUME NEW y \in S PROVE m <= y
  <2>1. m \in Nat /\ y \in Nat
    OBVIOUS
  <2>2. ~(y < m)
    BY <1>1, <1>3, <2>1
  <2>. QED  BY <2>1, <2>2
<1>. QED  BY <1>4

\* The pool has more nodes than a queue.
LEMMA QueueShort ==
    ASSUME NEW N, NEW lo, NEW hi, Core(N, lo, hi), NEW q \in Queues
    PROVE  hi[q] - lo[q] \in Nat /\ hi[q] - lo[q] + 1 <= QueueCount + MaxValue
<1>. DEFINE e == [k \in lo[q]..hi[q] |-> N[q][k][1]]
<1>1. /\ lo[q] \in Nat /\ hi[q] \in Nat /\ lo[q] <= hi[q]
      /\ \A k \in lo[q]..hi[q] : N[q][k][1] \in AllNodes
  BY Positions DEF Core
<1>2. e \in Injection(lo[q]..hi[q], AllNodes)
  <2>1. \A k, l \in lo[q]..hi[q] : N[q][k][1] = N[q][l][1] => k = l
    BY DEF Core, NodesOwned
  <2>. QED  BY <1>1, <2>1 DEF Injection, IsInjective
<1>3. /\ IsFiniteSet(AllNodes) /\ Cardinality(AllNodes) = QueueCount + MaxValue
      /\ Cardinality(lo[q]..hi[q]) = hi[q] - lo[q] + 1
  <2>1. QueueCount + MaxValue \in Nat /\ QueueCount + MaxValue # 0
    BY NodeFacts
  <2>2. /\ IsFiniteSet(1..(QueueCount + MaxValue))
        /\ Cardinality(1..(QueueCount + MaxValue)) = QueueCount + MaxValue
    BY <2>1, FS_Interval
  <2>3. Cardinality(lo[q]..hi[q]) = hi[q] - lo[q] + 1
    BY <1>1, FS_Interval, SMTT(30)
  <2>. QED  BY <2>2, <2>3 DEF AllNodes
<1>4. Cardinality(lo[q]..hi[q]) <= Cardinality(AllNodes)
  BY <1>2, <1>3, FS_Injection
<1>. QED  BY <1>1, <1>3, <1>4

\* The links from the dummy on lead through the pointers in their order.
LEMMA FollowLinks ==
    ASSUME NEW N, NEW lo, NEW hi, Core(N, lo, hi), NEW q \in Queues
    PROVE  \A n \in 0..(QueueCount + MaxValue) :
               Follow(q)[n] = IF n <= hi[q] - lo[q] THEN N[q][lo[q] + n][1] ELSE 0
<1>. DEFINE C == QueueCount + MaxValue
            S == 0..C
            c == hi[q] - lo[q]
            G(f) == [n \in S |-> IF n = 0 THEN head[q][1]
                                 ELSE LET m == f[n - 1] IN IF m = 0 THEN 0 ELSE next[m][1]]
            g == [n \in S |-> IF n <= c THEN N[q][lo[q] + n][1] ELSE 0]
<1>1. lo[q] \in Nat /\ hi[q] \in Nat /\ c \in Nat /\ c + lo[q] = hi[q] /\ C \in Nat /\ 0 \in S
  <2>1. lo[q] \in Nat /\ hi[q] \in Nat
    BY Positions DEF Core
  <2>. QED  BY <2>1, QueueShort, NodeFacts
<1>2. \A n \in S : n <= c => /\ lo[q] + n \in lo[q]..hi[q] /\ (n # c <=> lo[q] + n # hi[q])
                             /\ (n # 0 => (lo[q] + (n - 1)) + 1 = lo[q] + n)
  BY <1>1
<1>3. /\ head[q] = N[q][lo[q]] /\ next[N[q][hi[q]][1]][1] = 0
      /\ \A k \in lo[q]..hi[q] : /\ N[q][k][1] # 0
                                 /\ k # hi[q] => next[N[q][k][1]] = N[q][k + 1]
  <2>1. \A k \in lo[q]..hi[q] : N[q][k][1] # 0
    BY Positions, NodeFacts DEF Core
  <2>. QED  BY <2>1 DEF Core, Linked
<1>. HIDE DEF c, C
<1>4. g = G(g)
  <2>. SUFFICES ASSUME NEW n \in S
               PROVE  g[n] = IF n = 0 THEN head[q][1]
                             ELSE IF g[n - 1] = 0 THEN 0 ELSE next[g[n - 1]][1]
    OBVIOUS
  <2>1. CASE n = 0
    BY <2>1, <1>1, <1>3
  <2>2. CASE n # 0
    <3>1. n - 1 \in S /\ (n - 1) + 1 = n /\ n \in Nat
      BY <2>2, <1>1
    <3>2. CASE n - 1 <= c
      <4>1. lo[q] + (n - 1) \in lo[q]..hi[q] /\ g[n - 1] = N[q][lo[q] + (n - 1)][1] /\ g[n - 1] # 0
        BY <3>1, <3>2, <1>2, <1>3
      <4>2. CASE n - 1 = c
        <5>1. g[n] = 0
          BY <3>1, <4>2, <1>1
        <5>2. lo[q] + (n - 1) = hi[q]
          BY <4>2, <1>1
        <5>. QED  BY <2>2, <4>1, <5>1, <5>2, <1>3
      <4>3. CASE n - 1 # c
        <5>1. n <= c
          BY <3>1, <3>2, <4>3, <1>1
        <5>2. g[n] = N[q][lo[q] + n][1] /\ (lo[q] + (n - 1)) + 1 = lo[q] + n
          BY <2>2, <5>1, <1>2
        <5>3. next[N[q][lo[q] + (n - 1)][1]] = N[q][(lo[q] + (n - 1)) + 1]
          BY <3>1, <3>2, <4>1, <4>3, <1>2, <1>3
        <5>. QED  BY <2>2, <4>1, <5>2, <5>3
      <4>. QED  BY <4>2, <4>3
    <3>3. CASE ~(n - 1 <= c)
      <4>1. ~(n <= c)
        BY <3>1, <3>3, <1>1
      <4>. QED  BY <2>2, <3>1, <3>3, <4>1
    <3>. QED  BY <3>2, <3>3
  <2>. QED  BY <2>1, <2>2
<1>. HIDE DEF g
<1>5. Follow(q) = G(Follow(q))
  <2>1. Follow(q) = CHOOSE f : f = G(f)
    BY DEF Follow, C
  <2>. HIDE DEF G
  <2>. QED  BY <2>1, <1>4
<1>. DEFINE D == {n \in S : Follow(q)[n] # g[n]}
<1>6. D = {}
  <2>. SUFFICES ASSUME D # {} PROVE FALSE
    OBVIOUS
  <2>1. PICK m \in D : \A x \in D : m <= x
    <3>1. D \subseteq Nat
      BY <1>1
    <3>. QED  BY <3>1, LeastOf
  <2>2. m \in S /\ Follow(q)[m] # g[m]
    BY <2>1
  <2>3. CASE m = 0
    BY <2>2, <2>3, <1>4, <1>5
  <2>4. CASE m # 0
    <3>1. m - 1 \in S /\ ~(m <= m - 1)
      BY <2>2, <2>4, <1>1
    <3>2. Follow(q)[m - 1] = g[m - 1]
      BY <2>1, <3>1
    <3>3. Follow(q)[m] = G(Follow(q))[m] /\ g[m] = G(g)[m]
      BY <1>4, <1>5
    <3>. QED  BY <2>2, <2>4, <3>2, <3>3
  <2>. QED  BY <2>3, <2>4
<1>. QED  BY <1>6 DEF g, C, c

\* The contents and the chain of each queue, given its pointers.
ContentsLinked ==
    \A N, lo, hi : Typed /\ Core(N, lo, hi) => \A q \in Queues :
        /\ Contents(q) = Items(N, lo, hi, q) /\ Contents(q) \in Seq(Nat)
        /\ Len(Contents(q)) = hi[q] - lo[q]
        /\ \A n : n \in Chain(q) <=> InQueue(N, lo, hi, q, n)

\* So Contents, which follows them, is the data of these pointers.
LEMMA ContentsAreItems == ContentsLinked
<1>. SUFFICES ASSUME NEW N, NEW lo, NEW hi, Typed, Core(N, lo, hi), NEW q \in Queues
     PROVE  /\ Contents(q) = Items(N, lo, hi, q) /\ Contents(q) \in Seq(Nat)
            /\ Len(Contents(q)) = hi[q] - lo[q]
            /\ \A n : n \in Chain(q) <=> InQueue(N, lo, hi, q, n)
  BY DEF ContentsLinked
<1>C. PICK C : C = QueueCount + MaxValue
  OBVIOUS
<1>c. PICK c : c = hi[q] - lo[q]
  OBVIOUS
<1>f. PICK f : f = Follow(q)
  OBVIOUS
<1>1. c \in Nat /\ C \in Nat /\ c + 1 <= C /\ lo[q] \in Nat /\ hi[q] \in Nat /\ lo[q] + c = hi[q]
  <2>1. lo[q] \in Nat /\ hi[q] \in Nat
    BY Positions DEF Core
  <2>. QED  BY <2>1, <1>C, <1>c, QueueShort, NodeFacts
<1>2. \A n \in 0..C : f[n] = IF n <= c THEN N[q][lo[q] + n][1] ELSE 0
  BY <1>C, <1>c, <1>f, FollowLinks
<1>3. \A n \in 0..c : n \in 0..C /\ n <= c /\ lo[q] + n \in lo[q]..hi[q]
  BY <1>1
<1>4. \A n \in 0..c : f[n] = N[q][lo[q] + n][1] /\ f[n] # 0
  <2>1. \A k \in lo[q]..hi[q] : N[q][k][1] # 0
    BY Positions, NodeFacts DEF Core
  <2>. QED  BY <2>1, <1>2, <1>3
<1>5. \A n \in 0..C : n \notin 0..c => f[n] = 0
  <2>1. \A n \in 0..C : n \notin 0..c => ~(n <= c)
    BY <1>1
  <2>. QED  BY <2>1, <1>2
<1>. DEFINE Ends(n) == (\A m \in 0..n : f[m] # 0) /\ (n = C \/ f[n + 1] = 0)
<1>6. Ends(c) /\ c \in 0..C
  <2>1. c + 1 \in 0..C /\ c + 1 \notin 0..c
    BY <1>1
  <2>. QED  BY <2>1, <1>1, <1>4, <1>5
<1>7. ASSUME NEW n \in 0..C, Ends(n) PROVE n = c
  <2>1. n \in 0..n
    OBVIOUS
  <2>2. n \in 0..c
    BY <2>1, <1>5, <1>7
  <2>3. n # c => n # C /\ n + 1 \in 0..c
    BY <2>2, <1>1
  <2>. QED  BY <2>3, <1>4, <1>7
<1>8. (CHOOSE n \in 0..C : Ends(n)) = c
  <2>. HIDE DEF Ends
  <2>. QED  BY <1>6, <1>7
<1>9. Contents(q) = [i \in 1..c |-> data[f[i]]]
  BY <1>8, <1>C, <1>f DEF Contents
<1>10. Contents(q) = Items(N, lo, hi, q)
  <2>1. \A i \in 1..c : i \in 0..c
    BY <1>1
  <2>2. \A i \in 1..c : data[f[i]] = data[N[q][lo[q] + i][1]]
    BY <2>1, <1>4
  <2>. QED  BY <2>2, <1>9, <1>c DEF Items, ItemsOf
<1>11. Contents(q) \in Seq(Nat) /\ Len(Contents(q)) = hi[q] - lo[q]
  <2>1. Shape(N, lo, hi) /\ data \in [AllNodes -> Nat]
    BY DEF Core, Typed
  <2>2. \A s : s = ItemsOf(data, N, lo, hi, q) => s \in Seq(Nat) /\ Len(s) = hi[q] - lo[q]
    BY <2>1, ItemsFacts
  <2>. QED  BY <2>2, <1>10 DEF Items
<1>12. ASSUME NEW n PROVE n \in Chain(q) <=> InQueue(N, lo, hi, q, n)
  <2>1. n \in Chain(q) <=> n # 0 /\ \E i \in 0..C : f[i] = n
    BY <1>C, <1>f DEF Chain
  <2>2. n \in Chain(q) <=> \E i \in 0..c : f[i] = n
    BY <2>1, <1>3, <1>4, <1>5
  <2>3. \A k \in lo[q]..hi[q] : k - lo[q] \in 0..c /\ lo[q] + (k - lo[q]) = k
    BY <1>1
  <2>4. (\E i \in 0..c : f[i] = n) <=> \E k \in lo[q]..hi[q] : N[q][k][1] = n
    <3>1. ASSUME NEW i \in 0..c, f[i] = n PROVE \E k \in lo[q]..hi[q] : N[q][k][1] = n
      BY <3>1, <1>3, <1>4
    <3>2. ASSUME NEW k \in lo[q]..hi[q], N[q][k][1] = n PROVE \E i \in 0..c : f[i] = n
      <4>1. f[k - lo[q]] = N[q][lo[q] + (k - lo[q])][1]
        BY <2>3, <1>4
      <4>. QED  BY <4>1, <3>2, <2>3
    <3>. QED  BY <3>1, <3>2
  <2>. QED  BY <2>2, <2>4 DEF InQueue
<1>. QED  BY <1>10, <1>11, <1>12

\* The cardinality of a set of one element.
LEMMA OneOf ==
    ASSUME NEW S
    PROVE  /\ S = {} => Cardinality(S) = 0
           /\ (\E x \in S : \A y \in S : y = x) => Cardinality(S) = 1
<1>1. ASSUME NEW x \in S, \A y \in S : y = x PROVE Cardinality(S) = 1
  <2>1. S = {x}
    BY <1>1
  <2>. QED  BY <2>1, FS_Singleton
<1>. QED  BY <1>1, FS_EmptySet

\* The debts are SizeExact's three terms.
LEMMA SizeExactHolds == IInv => SizeExact
<1>. SUFFICES ASSUME IInv, NEW q \in Queues
     PROVE  size[q] = Len(Contents(q)) - Cardinality(At(q, {"advance", "count"}))
                      - Cardinality(At(q, ReservedPcs)) - Cardinality(At(q, {"refuse"}))
  BY DEF SizeExact
<1>1. PICK N, lo, hi : Typed /\ Core(N, lo, hi)
  BY DEF IInv
<1>. DEFINE A == At(q, {"advance", "count"})  B == At(q, ReservedPcs)  R == At(q, {"refuse"})
            D == At(q, DebtPcs)
<1>2. Len(Contents(q)) = hi[q] - lo[q] /\ size[q] = hi[q] - lo[q] - Cardinality(D)
  BY <1>1, ContentsAreItems DEF ContentsLinked, Core, Counted
<1>3. hi[q] - lo[q] \in Nat
  BY <1>1, QueueShort
<1>4. /\ D = (A \cup B) \cup R /\ A \cap B = {} /\ (A \cup B) \cap R = {}
      /\ A \subseteq Threads /\ B \subseteq Threads /\ R \subseteq Threads
  BY DEF At, DebtPcs, ReservedPcs
<1>. HIDE DEF A, B, R, D
<1>5. IsFiniteSet(A) /\ IsFiniteSet(B) /\ IsFiniteSet(R)
  BY <1>4, PoolAssumption, FS_Subset
<1>6. /\ IsFiniteSet(A \cup B)
      /\ Cardinality(A \cup B) = Cardinality(A) + Cardinality(B) - Cardinality(A \cap B)
  BY <1>5, FS_Union
<1>7. Cardinality((A \cup B) \cup R) = Cardinality(A \cup B) + Cardinality(R) - Cardinality((A \cup B) \cap R)
  BY <1>5, <1>6, FS_Union
<1>8. Cardinality(A \cap B) = 0 /\ Cardinality((A \cup B) \cap R) = 0
  BY <1>4, FS_EmptySet
<1>9. /\ Cardinality(A) \in Nat /\ Cardinality(B) \in Nat /\ Cardinality(R) \in Nat
      /\ Cardinality(A \cup B) \in Nat
  BY <1>5, <1>6, FS_CardinalityType
<1>10. Cardinality(D) = Cardinality(A) + Cardinality(B) + Cardinality(R)
  BY <1>4, <1>6, <1>7, <1>8, <1>9
<1>11. size[q] = Len(Contents(q)) - Cardinality(A) - Cardinality(B) - Cardinality(R)
  BY <1>2, <1>3, <1>9, <1>10
<1>. QED  BY <1>11 DEF A, B, R

\* Exactly one of the four terms of NodesApart is 1.
LEMMA NodesApartHolds == IInv => NodesApart
<1>. SUFFICES ASSUME IInv, NEW n \in 1..created
     PROVE  1 = TimesPooled(n) + Cardinality({q \in Queues : n \in Chain(q)})
                + Cardinality({t \in Threads : /\ pc[t] \in {"tag", "tail", "next", "swing", "link"}
                                               /\ node[t][1] = n})
                + Cardinality({t \in Threads : pc[t] = "free" /\ headCap[t][1] = n})
  BY DEF NodesApart
<1>1. PICK N, lo, hi : Typed /\ Core(N, lo, hi)
  BY DEF IInv
<1>. DEFINE A == {q \in Queues : n \in Chain(q)}
            B == {t \in Threads : /\ pc[t] \in {"tag", "tail", "next", "swing", "link"}
                                  /\ node[t][1] = n}
            F == {t \in Threads : pc[t] = "free" /\ headCap[t][1] = n}
<1>2. n # 0
  BY DEF IInv, PoolInv, PoolTyped
<1>3. /\ \A q : q \in A <=> q \in Queues /\ InQueue(N, lo, hi, q, n)
      /\ \A t : t \in B <=> t \in Threads /\ pc[t] \in NewPcs /\ Own(t) = n
      /\ \A t : t \in F <=> t \in Threads /\ pc[t] = "free" /\ Own(t) = n
  <2>1. \A q \in Queues : n \in Chain(q) <=> InQueue(N, lo, hi, q, n)
    BY <1>1, ContentsAreItems DEF ContentsLinked
  <2>. QED  BY <2>1 DEF Own, NewPcs
<1>4. \A t \in Threads : Own(t) = n => t \in B \/ t \in F
  BY <1>2, <1>3 DEF Own
<1>5. \A t \in Threads : ~(t \in B /\ t \in F)
  BY <1>3, PcFacts
<1>. HIDE DEF A, B, F
<1>6. TimesPooled(n) = IF n \in Pooled THEN 1 ELSE 0
  BY PooledOnce DEF IInv
<1>7. /\ Used(N, lo, hi, n) <=> n \notin Pooled
      /\ \A q, r \in A : q = r
      /\ \A t \in Threads, q \in A : Own(t) # n
      /\ \A t, u \in Threads : Own(t) = n /\ Own(u) = n => t = u
  <2>1. NodesOwned(N, lo, hi)
    BY <1>1 DEF Core
  <2>. QED  BY <2>1, <1>2, <1>3 DEF NodesOwned, InQueue
<1>8. CASE n \in Pooled
  <2>1. A = {} /\ B = {} /\ F = {}
    BY <1>2, <1>3, <1>7, <1>8 DEF Used
  <2>2. Cardinality(A) = 0 /\ Cardinality(B) = 0 /\ Cardinality(F) = 0
    BY <2>1, OneOf
  <2>. QED  BY <2>2, <1>6, <1>8 DEF A, B, F
<1>9. CASE n \notin Pooled
  <2>1. TimesPooled(n) = 0
    BY <1>6, <1>9
  <2>2. CASE \E q \in Queues : InQueue(N, lo, hi, q, n)
    <3>1. PICK q \in A : \A r \in A : r = q
      BY <2>2, <1>3, <1>7
    <3>2. B = {} /\ F = {}
      BY <3>1, <1>3, <1>7
    <3>3. Cardinality(A) = 1 /\ Cardinality(B) = 0 /\ Cardinality(F) = 0
      BY <3>1, <3>2, OneOf
    <3>. QED  BY <2>1, <3>3 DEF A, B, F
  <2>3. CASE \E t \in Threads : Own(t) = n
    <3>1. PICK t \in Threads : Own(t) = n /\ \A u \in Threads : Own(u) = n => u = t
      BY <2>3, <1>7
    <3>2. A = {}
      BY <3>1, <1>7
    <3>3. CASE t \in B
      <4>1. F = {} /\ \A u \in B : u = t
        BY <3>1, <3>3, <1>3, <1>5
      <4>2. Cardinality(A) = 0 /\ Cardinality(B) = 1 /\ Cardinality(F) = 0
        BY <3>2, <3>3, <4>1, OneOf
      <4>. QED  BY <2>1, <4>2 DEF A, B, F
    <3>4. CASE t \in F
      <4>1. B = {} /\ \A u \in F : u = t
        BY <3>1, <3>4, <1>3, <1>5
      <4>2. Cardinality(A) = 0 /\ Cardinality(B) = 0 /\ Cardinality(F) = 1
        BY <3>2, <3>4, <4>1, OneOf
      <4>. QED  BY <2>1, <4>2 DEF A, B, F
    <3>. QED  BY <3>1, <3>3, <3>4, <1>4
  <2>. QED  BY <2>2, <2>3, <1>7, <1>9 DEF Used
<1>. QED  BY <1>8, <1>9

-----------------------------------------------------------------------------
(* The refinement of CountedFifo.                                          *)

\* The initial states are CountedFifo's.
LEMMA FifoStart == Init /\ ContentsLinked => Fifo!Init
<1>. SUFFICES ASSUME Init, ContentsLinked PROVE Fifo!Init
  OBVIOUS
<1>1. Typed
  BY CoreStart
<1>2. PICK N, lo, hi : Core(N, lo, hi) /\ \A q \in Queues : lo[q] = 0 /\ hi[q] = 0
  BY CoreStart
<1>3. \A q \in Queues : Contents(q) = <<>>
  <2>. SUFFICES ASSUME NEW q \in Queues PROVE Contents(q) = <<>>
    OBVIOUS
  <2>1. Contents(q) \in Seq(Nat) /\ Len(Contents(q)) = hi[q] - lo[q] /\ hi[q] - lo[q] = 0
    BY <1>1, <1>2 DEF ContentsLinked
  <2>. QED  BY <2>1, EmptySeq
<1>4. [q \in Queues |-> Contents(q)] = [q \in Queues |-> <<>>]
  BY <1>3
<1>. QED  BY <1>4 DEF Init, Fifo!Init

\* BeginEnqueue gives, a link puts, a take takes, and the other steps stutter.
LEMMA FifoStep ==
    IInv /\ NoTagReuse /\ TailKept' /\ ContentsLinked /\ ContentsLinked' /\ [Next]_vars
        => [Fifo!Next]_(Fifo!fifoVars)
<1>. SUFFICES ASSUME IInv, NoTagReuse, TailKept', ContentsLinked, ContentsLinked', [Next]_vars
     PROVE  [Fifo!Next]_(Fifo!fifoVars)
  OBVIOUS
<1>. DEFINE items == [q \in Queues |-> Contents(q)]
<1>1. PICK N, lo, hi : Core(N, lo, hi)
  BY DEF IInv
<1>2. Typed /\ Typed' /\ PoolInv /\ GivenInOrder
  BY <1>1, TypedNext DEF IInv
<1>3. Kept(N, lo, hi) \/ LinkedOne(N, lo, hi) \/ TookOne(N, lo, hi)
  BY <1>1, <1>2, CoreNext
<1>4. \A q \in Queues : Contents(q) = Items(N, lo, hi, q)
  BY <1>1, <1>2 DEF ContentsLinked
<1>5. ASSUME NEW M, NEW l, NEW h, Core(M, l, h)', NEW q \in Queues
      PROVE  Contents(q)' = Items(M, l, h, q)'
  BY <1>2, <1>5 DEF ContentsLinked
<1>6. CASE Kept(N, lo, hi)
  <2>1. \A q \in Queues : Contents(q)' = Contents(q)
    BY <1>4, <1>5, <1>6 DEF Kept
  <2>2. items' = items
    BY <2>1
  <2>3. CASE given' = given
    BY <2>2, <2>3, <1>6 DEF Kept, Fifo!fifoVars
  <2>4. CASE \E q \in Queues, v \in Values :
                /\ given' = [given EXCEPT ![q] = given[q] \cup {v}]
                /\ \A r \in Queues : v \notin given[r]
    <3>1. PICK q \in Queues, v \in Values : /\ given' = [given EXCEPT ![q] = given[q] \cup {v}]
                                            /\ \A r \in Queues : v \notin given[r]
      BY <2>4
    <3>2. Fifo!Give(q, v)
      BY <2>2, <3>1, <1>6 DEF Kept, Fifo!Give
    <3>. QED  BY <3>2 DEF Fifo!Next
  <2>. QED  BY <2>3, <2>4, <1>6 DEF Kept
<1>7. CASE LinkedOne(N, lo, hi)
  <2>1. PICK M, h, v : \E q \in Queues :
        /\ Core(M, lo, h)' /\ given' = given /\ taken' = taken
        /\ v \in given[q]
        /\ \A i \in DOMAIN Items(N, lo, hi, q) : Items(N, lo, hi, q)[i] # v
        /\ \A i \in DOMAIN taken[q] : taken[q][i] # v
        /\ Items(M, lo, h, q)' = Append(Items(N, lo, hi, q), v)
        /\ \A r \in Queues \ {q} : Items(M, lo, h, r)' = Items(N, lo, hi, r)
    BY <1>7 DEF LinkedOne
  <2>2. PICK q \in Queues :
        /\ Core(M, lo, h)' /\ given' = given /\ taken' = taken
        /\ v \in given[q]
        /\ \A i \in DOMAIN Items(N, lo, hi, q) : Items(N, lo, hi, q)[i] # v
        /\ \A i \in DOMAIN taken[q] : taken[q][i] # v
        /\ Items(M, lo, h, q)' = Append(Items(N, lo, hi, q), v)
        /\ \A r \in Queues \ {q} : Items(M, lo, h, r)' = Items(N, lo, hi, r)
    BY <2>1
  <2>3. /\ Contents(q)' = Append(Contents(q), v)
        /\ \A r \in Queues \ {q} : Contents(r)' = Contents(r)
        /\ \A i \in DOMAIN Contents(q) : Contents(q)[i] # v
    BY <2>2, <1>4, <1>5
  <2>4. items' = [items EXCEPT ![q] = Append(items[q], v)]
    BY <2>3
  <2>5. Fifo!Put(q, v)
    BY <2>2, <2>3, <2>4 DEF Fifo!Put
  <2>6. v \in Values
    <3>1. PICK g \in 0..MaxValue : UNION {given[r] : r \in Queues} = 1..g
      BY <1>2 DEF GivenInOrder
    <3>2. v \in 1..g
      BY <2>2, <3>1
    <3>. QED  BY <3>2, NodeFacts DEF Values
  <2>. QED  BY <2>5, <2>6 DEF Fifo!Next
<1>8. CASE TookOne(N, lo, hi)
  <2>1. PICK l : \E q \in Queues :
        /\ Core(N, l, hi)' /\ given' = given
        /\ Items(N, lo, hi, q) # <<>>
        /\ taken' = [taken EXCEPT ![q] = Append(taken[q], Head(Items(N, lo, hi, q)))]
        /\ Items(N, l, hi, q)' = Tail(Items(N, lo, hi, q))
        /\ \A r \in Queues \ {q} : Items(N, l, hi, r)' = Items(N, lo, hi, r)
    BY <1>8 DEF TookOne
  <2>2. PICK q \in Queues :
        /\ Core(N, l, hi)' /\ given' = given
        /\ Items(N, lo, hi, q) # <<>>
        /\ taken' = [taken EXCEPT ![q] = Append(taken[q], Head(Items(N, lo, hi, q)))]
        /\ Items(N, l, hi, q)' = Tail(Items(N, lo, hi, q))
        /\ \A r \in Queues \ {q} : Items(N, l, hi, r)' = Items(N, lo, hi, r)
    BY <2>1
  <2>3. /\ Contents(q) # <<>> /\ Contents(q)' = Tail(Contents(q))
        /\ taken' = [taken EXCEPT ![q] = Append(taken[q], Head(Contents(q)))]
        /\ \A r \in Queues \ {q} : Contents(r)' = Contents(r)
    BY <2>2, <1>4, <1>5
  <2>4. items' = [items EXCEPT ![q] = Tail(items[q])] /\ items[q] = Contents(q)
    BY <2>3
  <2>5. Fifo!Take(q)
    BY <2>2, <2>3, <2>4 DEF Fifo!Take
  <2>. QED  BY <2>5 DEF Fifo!Next
<1>. QED  BY <1>3, <1>6, <1>7, <1>8

-----------------------------------------------------------------------------
(* While the tags have not come round, a pointer is linked once.           *)

\* While a node has its tag and is not linked yet.
LinkPcs == {"tail", "next", "swing", "link"}

\* The pointers that were linked and those to be linked are all different.
TagsNew(N, hi) ==
    /\ \A q \in Queues : \A k \in 0..hi[q] : N[q][k][2] <= allocCnt[q]
    /\ \A t \in Threads : pc[t] \in LinkPcs =>
          /\ node[t][2] <= allocCnt[queue[t]]
          /\ \A k \in 0..hi[queue[t]] : node[t] # N[queue[t]][k]
    /\ \A t, u \in Threads :
          pc[t] \in LinkPcs /\ pc[u] \in LinkPcs /\ queue[t] = queue[u] /\ node[t] = node[u] => t = u

\* Each given value is for one tag.
TagsCounted ==
    \A q \in Queues : allocCnt[q] + Cardinality(At(q, {"tag"})) = Cardinality(given[q])

\* A call compares with pointers that were linked: none is still to be linked.
LEMMA TagsNewReuse ==
    ASSUME Typed, NEW N, NEW lo, NEW hi, Core(N, lo, hi), TagsNew(N, hi)
    PROVE  NoTagReuse
<1>. SUFFICES ASSUME NEW t \in Threads, NEW u \in Threads, pc[u] = "link", queue[t] = queue[u]
     PROVE  /\ pc[t] \in HeadPcs => headCap[t] # node[u]
            /\ pc[t] \in {"swing", "advance"} => tailCap[t] # node[u]
  BY DEF NoTagReuse
<1>q. PICK q : q = queue[u]
  OBVIOUS
<1>1. q \in Queues /\ lo[q] \in Nat /\ hi[q] \in Nat /\ lo[q] <= hi[q]
  BY <1>q, Positions DEF Core, Typed
<1>2. \A k \in 0..hi[q] : node[u] # N[q][k]
  BY <1>q DEF TagsNew, LinkPcs
<1>3. \A k \in 0..lo[q] : k \in 0..hi[q]
  BY <1>1
<1>4. pc[t] \in HeadPcs => \E k \in 0..lo[q] : headCap[t] = N[q][k]
  BY <1>q DEF Core, DequeueReads
<1>5. pc[t] \in {"swing", "advance"} => \E k \in 0..hi[q] : tailCap[t] = N[q][k]
  BY <1>q DEF Core, EnqueueReads, TailPcs
<1>. QED  BY <1>2, <1>3, <1>4, <1>5

LEMMA TagsNewStart ==
    ASSUME Init
    PROVE  /\ TagsCounted
           /\ \A N, lo, hi : /\ \A q \in Queues : lo[q] = 0 /\ hi[q] = 0
                             /\ N = [q \in Queues |-> [k \in Nat |-> <<q, 0>>]]
                             => TagsNew(N, hi)
<1>1. \A t \in Threads : pc[t] = "idle"
  BY DEF Init
<1>2. TagsCounted
  <2>1. \A q : At(q, {"tag"}) = {}
    BY <1>1 DEF At
  <2>2. \A q : Cardinality(At(q, {"tag"})) = 0
    BY <2>1, FS_EmptySet
  <2>3. \A q \in Queues : allocCnt[q] = 0 /\ given[q] = {}
    BY DEF Init
  <2>4. \A q \in Queues : Cardinality(given[q]) = 0
    BY <2>3, FS_EmptySet
  <2>. QED  BY <2>2, <2>3, <2>4 DEF TagsCounted
<1>3. ASSUME NEW N, NEW lo, NEW hi, \A q \in Queues : lo[q] = 0 /\ hi[q] = 0,
             N = [q \in Queues |-> [k \in Nat |-> <<q, 0>>]]
      PROVE  TagsNew(N, hi)
  <2>1. \A q \in Queues : allocCnt[q] = 0
    BY DEF Init
  <2>2. \A q \in Queues : \A k \in 0..hi[q] : N[q][k][2] = 0
    BY <1>3
  <2>. QED  BY <1>1, <2>1, <2>2 DEF TagsNew, LinkPcs
<1>. QED  BY <1>2, <1>3

\* A value is given, then a tag.
LEMMA TagsCountedNext ==
    ASSUME Typed, GivenInOrder, TagsCounted, [Next]_vars
    PROVE  TagsCounted'
<1>. USE DEF Goto
<1>0. Enqueuers \subseteq Threads /\ Dequeuers \subseteq Threads
  BY QueueAssumption
<1>1. ASSUME NEW t \in Threads, NEW r \in Queues, BeginEnqueue(t, r) PROVE TagsCounted'
  <2>1. OthersKept(t)
    BY <1>1 DEF BeginEnqueue, Typed, OthersKept, capVars
  <2>2. PICK g \in 0..MaxValue : UNION {given[q] : q \in Queues} = 1..g /\ NextValue = g + 1
    BY NextValueIs
  <2>3. /\ given'[r] = given[r] \cup {g + 1} /\ \A q \in Queues \ {r} : given'[q] = given[q]
        /\ allocCnt' = allocCnt
    BY <1>1, <2>2 DEF BeginEnqueue, Typed
  <2>4. Cardinality(given'[r]) = Cardinality(given[r]) + 1 /\ Cardinality(given[r]) \in Nat
    <3>1. given[r] \subseteq 1..g
      BY <2>2
    <3>2. IsFiniteSet(1..g)
      BY FS_Interval
    <3>3. IsFiniteSet(given[r])
      BY <3>1, <3>2, FS_Subset
    <3>4. g + 1 \notin given[r]
      BY <3>1
    <3>. QED  BY <2>3, <3>3, <3>4, FS_AddElement, FS_CardinalityType
  <2>. SUFFICES ASSUME NEW q \in Queues
       PROVE  allocCnt'[q] + Cardinality(At(q, {"tag"}))' = Cardinality(given'[q])
    BY DEF TagsCounted
  <2>5. PICK a, b, c, d : /\ a = IsAt(t, q, {"tag"}) /\ b = IsAt(t, q, {"tag"})'
                          /\ c = Cardinality(At(q, {"tag"})) /\ d = Cardinality(At(q, {"tag"}))'
    OBVIOUS
  <2>6. c \in Nat /\ d = c - a + b
    BY <2>1, <2>5, AtStep
  <2>7. a = 0 /\ b = IF q = r THEN 1 ELSE 0
    BY <1>1, <2>5 DEF IsAt, BeginEnqueue, Typed
  <2>8. d = c + (IF q = r THEN 1 ELSE 0)
    BY <2>6, <2>7
  <2>9. allocCnt[q] + c = Cardinality(given[q]) /\ allocCnt[q] \in Nat
    BY <2>5 DEF TagsCounted, Typed
  <2>10. Cardinality(given'[q]) = Cardinality(given[q]) + (IF q = r THEN 1 ELSE 0)
    <3>1. q = r => Cardinality(given'[q]) = Cardinality(given[q]) + 1
      BY <2>4
    <3>2. q # r => given'[q] = given[q]
      BY <2>3
    <3>3. Cardinality(given[q]) \in Nat
      BY <2>6, <2>9
    <3>. QED  BY <3>1, <3>2, <3>3
  <2>11. allocCnt[q] + d = Cardinality(given'[q])
    BY <2>6, <2>8, <2>9, <2>10
  <2>. QED  BY <2>3, <2>5, <2>11
<1>2. ASSUME NEW t \in Threads, TagNode(t) PROVE TagsCounted'
  <2>1. OthersKept(t)
    BY <1>2 DEF TagNode, Typed, OthersKept, capVars
  <2>. SUFFICES ASSUME NEW q \in Queues
       PROVE  allocCnt'[q] + Cardinality(At(q, {"tag"}))' = Cardinality(given'[q])
    BY DEF TagsCounted
  <2>5. PICK a, b, c, d : /\ a = IsAt(t, q, {"tag"}) /\ b = IsAt(t, q, {"tag"})'
                          /\ c = Cardinality(At(q, {"tag"})) /\ d = Cardinality(At(q, {"tag"}))'
    OBVIOUS
  <2>6. c \in Nat /\ d = c - a + b
    BY <2>1, <2>5, AtStep
  <2>7. b = 0 /\ a = IF q = queue[t] THEN 1 ELSE 0
    BY <1>2, <2>5 DEF IsAt, TagNode, Typed
  <2>8. d = c - (IF q = queue[t] THEN 1 ELSE 0)
    BY <2>6, <2>7
  <2>9. allocCnt[q] + c = Cardinality(given[q]) /\ allocCnt[q] \in Nat /\ given' = given
    BY <1>2, <2>5 DEF TagsCounted, Typed, TagNode
  <2>10. allocCnt'[q] = allocCnt[q] + (IF q = queue[t] THEN 1 ELSE 0)
    BY <1>2 DEF TagNode, Typed
  <2>11. allocCnt'[q] + d = allocCnt[q] + c
    BY <2>6, <2>8, <2>9, <2>10
  <2>. QED  BY <2>5, <2>9, <2>11
<1>3. ASSUME UNCHANGED <<pc, queue, allocCnt, given>> PROVE TagsCounted'
  BY <1>3 DEF TagsCounted, At
<1>4. ASSUME NEW t \in Threads, allocCnt' = allocCnt, given' = given,
             pc[t] # "tag", pc'[t] # "tag", \A u \in Threads \ {t} : pc'[u] = pc[u] /\ queue'[u] = queue[u]
      PROVE  TagsCounted'
  <2>1. \A q : At(q, {"tag"})' = At(q, {"tag"})
    BY <1>4 DEF At
  <2>. QED  BY <1>4, <2>1 DEF TagsCounted
<1>5. ASSUME NEW t \in Threads, EnqueueStep(t) PROVE TagsCounted'
  <2>1. ASSUME \/ ReadTail(t) \/ ReadNext(t) \/ SwingTail(t) \/ Link(t) \/ AdvanceTail(t) \/ Count(t)
        PROVE  TagsCounted'
    <3>1. /\ allocCnt' = allocCnt /\ given' = given /\ pc[t] # "tag" /\ pc'[t] # "tag"
          /\ \A u \in Threads \ {t} : pc'[u] = pc[u] /\ queue'[u] = queue[u]
      BY <2>1 DEF ReadTail, ReadNext, SwingTail, Link, AdvanceTail, Count, Return, listVars,
         callVars, Typed
    <3>. QED  BY <3>1, <1>4
  <2>. QED  BY <1>1, <1>2, <1>5, <2>1 DEF EnqueueStep
<1>6. ASSUME NEW t \in Threads, DequeueStep(t) PROVE TagsCounted'
  <2>1. /\ allocCnt' = allocCnt /\ given' = given /\ pc[t] # "tag" /\ pc'[t] # "tag"
        /\ \A u \in Threads \ {t} : pc'[u] = pc[u] /\ queue'[u] = queue[u]
    BY <1>6 DEF DequeueStep, Reserve, Refuse, TakeReadHead, TakeReadTail, TakeReadNext,
       TakeReadData,
                Take, FreeHead, Return, listVars, callVars, Typed
  <2>. QED  BY <2>1, <1>4
<1>. QED  BY <1>0, <1>3, <1>5, <1>6 DEF Next, vars, listVars, callVars

\* The next tag is in range.
LEMMA TagInRange ==
    ASSUME Typed, GivenInOrder, TagsCounted, MaxValue < TagRange,
           NEW t \in Threads, pc[t] = "tag", queue[t] \in Queues
    PROVE  allocCnt[queue[t]] + 1 < TagRange
<1>q. PICK q, c, g : /\ q = queue[t] /\ c = Cardinality(At(q, {"tag"})) /\ g = Cardinality(given[q])
  OBVIOUS
<1>1. c \in Nat /\ 1 <= c
  <2>1. IsFiniteSet(At(q, {"tag"})) /\ t \in At(q, {"tag"})
    <3>1. At(q, {"tag"}) \subseteq Threads
      BY DEF At
    <3>. QED  BY <3>1, <1>q, PoolAssumption, FS_Subset DEF At
  <2>2. {t} \subseteq At(q, {"tag"})
    BY <2>1
  <2>3. Cardinality({t}) = 1 /\ Cardinality({t}) <= Cardinality(At(q, {"tag"}))
    BY <2>1, <2>2, FS_Singleton, FS_Subset
  <2>. QED  BY <2>1, <2>3, <1>q, FS_CardinalityType
<1>2. g \in Nat /\ g <= MaxValue
  <2>1. PICK m \in 0..MaxValue : UNION {given[r] : r \in Queues} = 1..m
    BY DEF GivenInOrder
  <2>2. given[q] \subseteq 1..m
    BY <1>q, <2>1
  <2>3. m \in Nat /\ IsFiniteSet(1..m) /\ Cardinality(1..m) = m
    BY <2>1, NodeFacts, FS_Interval
  <2>4. IsFiniteSet(given[q]) /\ Cardinality(given[q]) <= m
    BY <2>2, <2>3, FS_Subset
  <2>5. m <= MaxValue /\ MaxValue \in Nat /\ Cardinality(given[q]) \in Nat
    BY <2>1, <2>4, NodeFacts, FS_CardinalityType
  <2>. QED  BY <2>3, <2>4, <2>5, <1>q
<1>3. allocCnt[q] + c = g /\ allocCnt[q] \in Nat
  BY <1>q DEF TagsCounted, Typed
<1>4. allocCnt[q] + 1 < TagRange
  BY <1>1, <1>2, <1>3, NodeFacts
<1>. QED  BY <1>4, <1>q

\* A step that links no pointer.
LEMMA TagsNewKept ==
    ASSUME Typed, GivenInOrder, TagsCounted, MaxValue < TagRange,
           NEW N, NEW lo, NEW hi, Core(N, lo, hi), TagsNew(N, hi), [Next]_vars
    PROVE  TagsNew(N, hi)'
<1>. USE DEF Goto
<1>0. Enqueuers \subseteq Threads /\ Dequeuers \subseteq Threads
  BY QueueAssumption
<1>1. ASSUME allocCnt' = allocCnt,
             \A t \in Threads : pc'[t] \in LinkPcs =>
                 pc[t] \in LinkPcs /\ queue'[t] = queue[t] /\ node'[t] = node[t]
      PROVE  TagsNew(N, hi)'
  BY <1>1 DEF TagsNew
<1>2. ASSUME NEW t \in Threads, TagNode(t) PROVE TagsNew(N, hi)'
  <2>1. PICK q : q = queue[t]
    OBVIOUS
  <2>2. /\ pc[t] = "tag" /\ q \in Queues /\ queue' = queue /\ allocCnt[q] \in Nat
        /\ allocCnt'[q] = allocCnt[q] + 1 /\ \A r \in Queues \ {q} : allocCnt'[r] = allocCnt[r]
        /\ node'[t] = Tagged(node[t][1], allocCnt[q] + 1)
        /\ \A u \in Threads \ {t} : pc'[u] = pc[u] /\ node'[u] = node[u]
    BY <1>2, <2>1 DEF TagNode, Typed
  <2>3. node'[t][2] = allocCnt[q] + 1
    <3>1. node[t][1] \in AllNodes
      BY <2>2, ReadsAreNodes DEF NewPcs
    <3>. QED  BY <2>1, <2>2, <3>1, TagInRange, TaggedFacts
  <2>4. \A r \in Queues : \A k \in 0..hi[r] : N[r][k][2] \in Nat /\ N[r][k][2] <= allocCnt[r]
    <3>1. \A r \in Queues : \A k \in 0..hi[r] : N[r][k][2] \in Nat
      BY Positions, NodeFacts DEF Core
    <3>. QED  BY <3>1 DEF TagsNew
  <2>5. \A u \in Threads : pc[u] \in LinkPcs =>
            node[u][2] \in Nat /\ node[u][2] <= allocCnt[queue[u]] /\ queue[u] \in Queues
    <3>1. \A u \in Threads : pc[u] \in LinkPcs => queue[u] \in Queues
      BY DEF Typed, LinkPcs
    <3>2. \A u \in Threads : node[u][2] \in Nat
      BY NodeFacts DEF Typed
    <3>. QED  BY <3>1, <3>2 DEF TagsNew
  <2>6. \A r \in Queues : \A k \in 0..hi[r] : N[r][k][2] <= allocCnt'[r]
    <3>1. ASSUME NEW r \in Queues, NEW k \in 0..hi[r] PROVE N[r][k][2] <= allocCnt'[r]
      <4>1. N[r][k][2] \in Nat /\ N[r][k][2] <= allocCnt[r] /\ (r = q => allocCnt'[r] = allocCnt[q] + 1)
        BY <2>2, <2>4
      <4>. QED  BY <4>1, <2>2
    <3>. QED  BY <3>1
  <2>7. ASSUME NEW u \in Threads, pc'[u] \in LinkPcs
        PROVE  /\ node'[u][2] <= allocCnt'[queue'[u]]
               /\ \A k \in 0..hi[queue'[u]] : node'[u] # N[queue'[u]][k]
    <3>1. CASE u = t
      <4>1. node'[t][2] <= allocCnt'[q]
        BY <2>2, <2>3
      <4>2. \A k \in 0..hi[q] : N[q][k][2] # allocCnt[q] + 1
        BY <2>2, <2>4
      <4>. QED  BY <3>1, <4>1, <4>2, <2>1, <2>2, <2>3
    <3>2. CASE u # t
      <4>1. pc[u] \in LinkPcs /\ node'[u] = node[u] /\ queue'[u] = queue[u]
        BY <2>2, <2>7, <3>2
      <4>2. node[u][2] <= allocCnt'[queue[u]]
        <5>1. queue[u] = q => node[u][2] <= allocCnt[q] /\ node[u][2] \in Nat
          BY <2>5, <4>1
        <5>2. queue[u] = q => node[u][2] <= allocCnt'[q]
          BY <5>1, <2>2
        <5>. QED  BY <5>2, <2>2, <2>5, <4>1
      <4>. QED  BY <4>1, <4>2 DEF TagsNew
    <3>. QED  BY <3>1, <3>2
  <2>8. \A u \in Threads \ {t} : pc[u] \in LinkPcs /\ queue[u] = q => node[u] # node'[t]
    <3>1. \A u \in Threads \ {t} : pc[u] \in LinkPcs /\ queue[u] = q => node[u][2] # allocCnt[q] + 1
      BY <2>2, <2>5
    <3>. QED  BY <3>1, <2>3
  <2>9. \A u, w \in Threads : pc'[u] \in LinkPcs /\ pc'[w] \in LinkPcs /\ queue'[u] = queue'[w]
                              /\ node'[u] = node'[w] => u = w
    BY <2>1, <2>2, <2>8 DEF TagsNew
  <2>. QED  BY <2>6, <2>7, <2>9 DEF TagsNew
<1>3. ASSUME NEW t \in Threads, EnqueueStep(t) PROVE TagsNew(N, hi)'
  <2>1. ASSUME NEW q \in Queues, BeginEnqueue(t, q) PROVE TagsNew(N, hi)'
    <3>1. /\ allocCnt' = allocCnt /\ pc'[t] = "tag"
          /\ \A u \in Threads \ {t} : pc'[u] = pc[u] /\ queue'[u] = queue[u] /\ node'[u] = node[u]
      BY <2>1 DEF BeginEnqueue, Typed
    <3>. QED  BY <3>1, <1>1 DEF LinkPcs
  <2>2. ASSUME ReadTail(t) \/ ReadNext(t) \/ SwingTail(t) \/ Link(t) \/ AdvanceTail(t) PROVE TagsNew(N, hi)'
    BY <2>2, <1>1 DEF ReadTail, ReadNext, SwingTail, Link, AdvanceTail, listVars, callVars,
       LinkPcs, Typed
  <2>3. ASSUME Count(t) PROVE TagsNew(N, hi)'
    BY <2>3, <1>1 DEF Count, Return, LinkPcs, Typed
  <2>. QED  BY <1>2, <1>3, <2>1, <2>2, <2>3 DEF EnqueueStep
<1>4. ASSUME NEW t \in Threads, DequeueStep(t) PROVE TagsNew(N, hi)'
  <2>1. /\ allocCnt' = allocCnt /\ pc'[t] \notin LinkPcs
        /\ \A u \in Threads \ {t} : pc'[u] = pc[u] /\ queue'[u] = queue[u] /\ node'[u] = node[u]
    BY <1>4 DEF DequeueStep, Reserve, Refuse, TakeReadHead, TakeReadTail, TakeReadNext,
       TakeReadData,
                Take, FreeHead, Return, listVars, callVars, LinkPcs, Typed
  <2>. QED  BY <2>1, <1>1
<1>5. ASSUME UNCHANGED vars PROVE TagsNew(N, hi)'
  BY <1>5, <1>1 DEF vars, listVars, callVars
<1>. QED  BY <1>0, <1>3, <1>4, <1>5 DEF Next

LEMMA LinksShape ==
    ASSUME Typed, NEW N, NEW lo, NEW hi, Core(N, lo, hi),
           NEW t \in Threads, NEW M, NEW h, Links(t, N, hi, M, h)
    PROVE  \A r \in Queues : \A k \in 0..h[r] : \/ k \in 0..hi[r] /\ M[r][k] = N[r][k]
                                                \/ r = queue[t] /\ M[r][k] = node[t]
<1>q. PICK q, a : q = queue[t] /\ a = node[t]
  OBVIOUS
<1>1. /\ pc[t] = "link" /\ q \in Queues /\ pc'[t] = "advance"
      /\ allocCnt' = allocCnt /\ node' = node /\ queue' = queue
      /\ \A u \in Threads \ {t} : pc'[u] = pc[u]
  BY <1>q DEF Links, Link, Goto, callVars, Typed
<1>2. hi[q] \in Nat /\ hi \in [Queues -> Nat] /\ N \in [Queues -> [Nat -> Address]] /\ hi[q] + 1 \in Nat
  BY <1>1, Positions DEF Core, Shape
<1>3. h[q] = hi[q] + 1 /\ \A r \in Queues \ {q} : h[r] = hi[r]
  BY <1>q, <1>1, <1>2 DEF Links, OneMore
<1>4. /\ M[q][hi[q] + 1] = a /\ \A k \in Nat : k # hi[q] + 1 => M[q][k] = N[q][k]
      /\ \A r \in Queues \ {q} : M[r] = N[r]
  <2>1. M = [N EXCEPT ![q] = [N[q] EXCEPT ![hi[q] + 1] = a]]
    BY <1>q DEF Links, Extended
  <2>2. M[q] = [N[q] EXCEPT ![hi[q] + 1] = a] /\ N[q] \in [Nat -> Address]
    BY <1>1, <1>2, <2>1
  <2>3. M[q][hi[q] + 1] = a /\ \A k \in Nat : k # hi[q] + 1 => M[q][k] = N[q][k]
    BY <2>2, <1>2
  <2>. QED  BY <2>1, <2>3, <1>2
<1>5. \A r \in Queues : \A k \in 0..h[r] : \/ k \in 0..hi[r] /\ M[r][k] = N[r][k]
                                           \/ r = q /\ M[r][k] = a
  <2>1. \A k \in 0..h[q] : k \in Nat /\ (k \in 0..hi[q] \/ k = hi[q] + 1)
    BY <1>2, <1>3
  <2>2. \A k \in 0..hi[q] : k # hi[q] + 1
    BY <1>2
  <2>3. \A k \in 0..h[q] : (k \in 0..hi[q] /\ M[q][k] = N[q][k]) \/ M[q][k] = a
    BY <2>1, <2>2, <1>4
  <2>4. \A r \in Queues \ {q} : \A k \in 0..h[r] : k \in 0..hi[r] /\ M[r][k] = N[r][k]
    BY <1>3, <1>4
  <2>. QED  BY <2>3, <2>4
<1>. QED  BY <1>5, <1>q

\* The step that links one.
LEMMA TagsNewLinked ==
    ASSUME Typed, NEW N, NEW lo, NEW hi, Core(N, lo, hi), TagsNew(N, hi), TagsNew(N, hi)',
           NEW t \in Threads, NEW M, NEW h, Links(t, N, hi, M, h)
    PROVE  TagsNew(M, h)'
<1>q. PICK q, a : q = queue[t] /\ a = node[t]
  OBVIOUS
<1>1. /\ pc[t] = "link" /\ q \in Queues /\ pc'[t] = "advance"
      /\ allocCnt' = allocCnt /\ node' = node /\ queue' = queue
      /\ \A u \in Threads \ {t} : pc'[u] = pc[u]
  BY <1>q DEF Links, Link, Goto, callVars, Typed
<1>5. \A r \in Queues : \A k \in 0..h[r] : \/ k \in 0..hi[r] /\ M[r][k] = N[r][k]
                                           \/ r = q /\ M[r][k] = a
  BY <1>q, LinksShape
<1>6. /\ a[2] <= allocCnt[q]
      /\ \A u \in Threads \ {t} : pc[u] \in LinkPcs /\ queue[u] = q => node[u] # a
  BY <1>q, <1>1 DEF TagsNew, LinkPcs
<1>7. pc'[t] \notin LinkPcs
  BY <1>1 DEF LinkPcs
<1>8. \A r \in Queues : \A k \in 0..h[r] : M[r][k][2] <= allocCnt'[r]
  BY <1>1, <1>5, <1>6 DEF TagsNew
<1>9. ASSUME NEW u \in Threads, pc'[u] \in LinkPcs, NEW k \in 0..h[queue'[u]]
      PROVE  node'[u] # M[queue'[u]][k]
  <2>1. u # t /\ pc[u] \in LinkPcs /\ queue'[u] \in Queues
    BY <1>1, <1>7, <1>9 DEF Typed, LinkPcs
  <2>. QED  BY <1>1, <1>5, <1>6, <1>9, <2>1 DEF TagsNew
<1>10. /\ \A u \in Threads : pc'[u] \in LinkPcs => node'[u][2] <= allocCnt'[queue'[u]]
       /\ \A u, w \in Threads : pc'[u] \in LinkPcs /\ pc'[w] \in LinkPcs /\ queue'[u] = queue'[w]
                                /\ node'[u] = node'[w] => u = w
  BY DEF TagsNew
<1>. QED  BY <1>8, <1>9, <1>10 DEF TagsNew

\* The invariant and that tags are new.
TagInv ==
    /\ Typed /\ PoolInv /\ GivenInOrder /\ TagsCounted
    /\ \E N, lo, hi : Core(N, lo, hi) /\ TagsNew(N, hi)

LEMMA TagInvStart == Init => TagInv
<1>. SUFFICES ASSUME Init PROVE TagInv
  OBVIOUS
<1>1. PICK N, lo, hi : /\ Core(N, lo, hi) /\ \A q \in Queues : lo[q] = 0 /\ hi[q] = 0
                       /\ N = [q \in Queues |-> [k \in Nat |-> <<q, 0>>]]
  BY CoreStart
<1>2. TagsNew(N, hi) /\ TagsCounted
  BY <1>1, TagsNewStart
<1>. QED  BY <1>1, <1>2, CoreStart DEF TagInv

LEMMA TagInvReuse == TagInv => IInv /\ NoTagReuse
BY TagsNewReuse DEF TagInv, IInv

LEMMA TagInvNext ==
    ASSUME MaxValue < TagRange
    PROVE  TagInv /\ TailKept' /\ [Next]_vars => TagInv'
<1>. SUFFICES ASSUME TagInv, TailKept', [Next]_vars PROVE TagInv'
  OBVIOUS
<1>1. PICK N, lo, hi : Core(N, lo, hi) /\ TagsNew(N, hi)
  BY DEF TagInv
<1>2. Typed /\ PoolInv /\ GivenInOrder /\ TagsCounted /\ NoTagReuse
  BY TagInvReuse DEF TagInv
<1>3. Typed' /\ GivenInOrder' /\ TagsCounted'
  BY <1>1, <1>2, TypedNext, GivenNext, TagsCountedNext
<1>4. PoolInv' /\ (Kept(N, lo, hi) \/ LinkedOne(N, lo, hi) \/ TookOne(N, lo, hi))
  BY <1>1, <1>2, <1>3, CoreNext
<1>5. TagsNew(N, hi)'
  BY <1>1, <1>2, TagsNewKept
<1>6. CASE Kept(N, lo, hi)
  BY <1>3, <1>4, <1>5, <1>6 DEF TagInv, Kept
<1>7. CASE LinkedOne(N, lo, hi)
  <2>1. PICK M, h, t : t \in Threads /\ Core(M, lo, h)' /\ Links(t, N, hi, M, h)
    BY <1>7 DEF LinkedOne
  <2>2. TagsNew(M, h)'
    BY <1>1, <1>2, <1>5, <2>1, TagsNewLinked
  <2>. QED  BY <1>3, <1>4, <2>1, <2>2 DEF TagInv
<1>8. CASE TookOne(N, lo, hi)
  <2>1. PICK l : Core(N, l, hi)'
    BY <1>8 DEF TookOne
  <2>. QED  BY <1>3, <1>4, <1>5, <2>1 DEF TagInv
<1>. QED  BY <1>4, <1>6, <1>7, <1>8

-----------------------------------------------------------------------------
(* When the node that an Enqueue is about to link to is kept.              *)

\* Only enqueuing threads are in Enqueue.
OnlyEnqueuers ==
    /\ pc \in [Threads -> Pcs]
    /\ \A t \in Threads : pc[t] \in NewPcs \cup {"advance", "count"} => t \in Enqueuers

\* Every step keeps that.
LEMMA OnlyEnqueuersNext == OnlyEnqueuers /\ [Next]_vars => OnlyEnqueuers'
<1>. SUFFICES ASSUME OnlyEnqueuers, [Next]_vars PROVE OnlyEnqueuers'
  OBVIOUS
<1>. USE DEF Goto, Return, OnlyEnqueuers, Pcs, NewPcs, ReservedPcs
<1>0. Enqueuers \subseteq Threads /\ Dequeuers \subseteq Threads
  BY QueueAssumption
<1>1. ASSUME NEW t \in Enqueuers, EnqueueStep(t) PROVE OnlyEnqueuers'
  BY <1>0, <1>1 DEF EnqueueStep, BeginEnqueue, TagNode, ReadTail, ReadNext, SwingTail, Link,
     AdvanceTail, Count
<1>2. ASSUME NEW t \in Dequeuers, DequeueStep(t) PROVE OnlyEnqueuers'
  BY <1>0, <1>2 DEF DequeueStep, Reserve, Refuse, TakeReadHead, TakeReadTail, TakeReadNext,
     TakeReadData,
                    Take, FreeHead
<1>3. ASSUME UNCHANGED vars PROVE OnlyEnqueuers'
  BY <1>3 DEF vars
<1>. QED  BY <1>1, <1>2, <1>3 DEF Next

\* The lists that Alloc takes from: a thread's m_top and m_freeSets. A node given
\* back is in neither until m_chunkSize nodes of the same thread are.
HandedOver(n) ==
    \/ \E t \in Threads : n \in Listed(top[t])
    \/ \E s \in 1..Len(freeSets) : n \in Listed(freeSets[s])

\* From its read of m_tail to its compare-and-swap of Next, an Enqueue is not
\* held up until the list with the tail's node is full.
ListsWait ==
    \A t \in Threads : pc[t] \in {"next", "link"} => ~HandedOver(tailCap[t][1])

\* The pointers in use are those of nodes that were made.
Made ==
    /\ \A q \in Queues : tail[q][1] \in 0..created
    /\ \A n \in AllNodes : next[n][1] \in 0..created
    /\ \A t \in Threads : /\ node[t][1] \in 0..created /\ tailCap[t][1] \in 0..created
                          /\ nextCap[t][1] \in 0..created

LEMMA MadeStart == Init => Made
<1>. SUFFICES ASSUME Init PROVE Made
  OBVIOUS
<1>1. created = QueueCount /\ QueueCount \in Nat /\ \A q \in Queues : tail[q] = <<q, 0>>
  BY NodeFacts DEF Init, PoolInit
<1>. QED  BY <1>1 DEF Init, Made, Null, Queues

\* Where Alloc takes a node from.
LEMMA AllocFrom ==
    ASSUME PoolInv, NEW t \in Threads, NEW n, Alloc(t, n)
    PROVE  /\ HandedOver(n) \/ n = created + 1
           /\ n \in 0..created' /\ created \in Nat /\ created' \in Nat /\ created <= created'
<1>1. /\ top \in [Threads -> Seq(Nat)] /\ freeSets \in Seq(Seq(Nat) \ {<<>>})
      /\ created \in Nat /\ Pooled \subseteq 1..created
  BY DEF PoolInv, PoolTyped
<1>2. \/ n \in Pooled /\ created' = created
      \/ n = created + 1 /\ created' = created + 1
  BY AllocTakesOut
<1>3. \A l \in Seq(Nat) : l # <<>> => Head(l) \in Listed(l)
  BY EmptySeq, ElementOfSeq, HeadTailProperties DEF Listed
<1>4. HandedOver(n) \/ n = created + 1
  <2>1. CASE top[t] # <<>> /\ n = Head(top[t])
    BY <2>1, <1>1, <1>3 DEF HandedOver
  <2>2. CASE freeSets # <<>> /\ n = Head(Head(freeSets))
    <3>1. Len(freeSets) \in Nat /\ 1 \in 1..Len(freeSets) /\ Head(freeSets) = freeSets[1]
          /\ freeSets[1] \in Seq(Nat) /\ freeSets[1] # <<>>
      <4>1. Len(freeSets) \in Nat /\ Len(freeSets) # 0
        BY <2>2, <1>1, EmptySeq, LenProperties
      <4>2. 1 \in 1..Len(freeSets)
        BY <4>1
      <4>. QED  BY <4>1, <4>2, <2>2, <1>1, ElementOfSeq, HeadTailProperties
    <3>. QED  BY <2>2, <3>1, <1>3 DEF HandedOver
  <2>. QED  BY <2>1, <2>2 DEF Alloc
<1>5. CASE n \in Pooled /\ created' = created
  <2>1. n \in 1..created
    BY <1>1, <1>5
  <2>. QED  BY <1>1, <1>4, <1>5, <2>1
<1>6. CASE n = created + 1 /\ created' = created + 1
  BY <1>1, <1>4, <1>6
<1>. QED  BY <1>2, <1>5, <1>6

\* Every step keeps Made.
LEMMA MadeNext == IInv /\ Made /\ [Next]_vars => Made'
<1>. SUFFICES ASSUME IInv, Made, [Next]_vars PROVE Made'
  OBVIOUS
<1>. USE DEF Goto, Return, listVars, callVars, capVars, poolVars
<1>0. Enqueuers \subseteq Threads /\ Dequeuers \subseteq Threads
  BY QueueAssumption
<1>1. Typed /\ PoolInv /\ created \in Nat
  BY DEF IInv, PoolInv, PoolTyped
<1>2. PICK N, lo, hi : Core(N, lo, hi)
  BY DEF IInv
<1>3. \A t \in Threads :
         /\ pc[t] \in NewPcs => node[t][1] \in AllNodes
         /\ pc[t] \in TailPcs => tailCap[t][1] \in AllNodes
         /\ pc[t] \in HeadPcs => headCap[t][1] \in AllNodes
         /\ pc[t] # "idle" => queue[t] \in Queues
  BY <1>1, <1>2, ReadsAreNodes DEF Typed
<1>4. ASSUME NEW t \in Threads, NEW q \in Queues, BeginEnqueue(t, q) PROVE Made'
  <2>1. PICK n \in AllNodes : /\ Alloc(t, n) /\ node' = [node EXCEPT ![t] = <<n, 0>>]
                              /\ next' = [next EXCEPT ![n] = Null]
                              /\ UNCHANGED <<tail, tailCap, nextCap>>
    BY <1>4 DEF BeginEnqueue
  <2>2. n \in 0..created' /\ created' \in Nat /\ \A x \in 0..created : x \in 0..created'
    BY <1>1, <2>1, AllocFrom
  <2>3. ASSUME NEW x \in AllNodes PROVE next'[x][1] \in 0..created'
    <3>1. next[x][1] \in 0..created' /\ Null[1] = 0
      BY <2>2 DEF Made, Null
    <3>2. next'[x] = IF x = n THEN Null ELSE next[x]
      BY <1>1, <2>1 DEF Typed
    <3>. QED  BY <2>2, <3>1, <3>2
  <2>4. ASSUME NEW u \in Threads PROVE node'[u][1] \in 0..created'
    <3>1. node[u][1] \in 0..created'
      BY <2>2 DEF Made
    <3>2. node'[u] = IF u = t THEN <<n, 0>> ELSE node[u]
      BY <1>1, <2>1 DEF Typed
    <3>. QED  BY <2>2, <3>1, <3>2
  <2>. QED  BY <2>1, <2>2, <2>3, <2>4 DEF Made
<1>5. ASSUME NEW t \in Threads, EnqueueStep(t) PROVE Made'
  <2>1. ASSUME TagNode(t) PROVE Made'
    <3>1. pc[t] = "tag" /\ node[t][1] \in AllNodes /\ queue[t] \in Queues /\ queue[t] \in Nat
      BY <2>1, <1>3, NodeFacts DEF TagNode, NewPcs
    <3>2. allocCnt'[queue[t]] \in Nat
      BY <2>1, <1>1, <3>1 DEF TagNode, Typed
    <3>3. node' = [node EXCEPT ![t] = Tagged(node[t][1], allocCnt'[queue[t]])]
          /\ Tagged(node[t][1], allocCnt'[queue[t]])[1] = node[t][1]
      BY <2>1, <3>1, <3>2, TaggedFacts DEF TagNode
    <3>4. next' = [next EXCEPT ![node[t][1]] = Tagged(0, queue[t])] /\ Tagged(0, queue[t])[1] = 0
      BY <2>1, <3>1, TaggedFacts DEF TagNode
    <3>5. UNCHANGED <<created, tail, tailCap, nextCap>>
      BY <2>1 DEF TagNode
    <3>. QED  BY <1>1, <3>3, <3>4, <3>5 DEF Made, Typed
  <2>2. ASSUME ReadTail(t) PROVE Made'
    BY <2>2, <1>1, <1>3 DEF ReadTail, Made, Typed
  <2>3. ASSUME ReadNext(t) PROVE Made'
    BY <2>3, <1>1, <1>3 DEF ReadNext, Made, Typed, TailPcs
  <2>4. ASSUME SwingTail(t) PROVE Made'
    BY <2>4, <1>1, <1>3 DEF SwingTail, CasTail, Made, Typed
  <2>5. ASSUME Link(t) PROVE Made'
    BY <2>5, <1>1, <1>3 DEF Link, Made, Typed
  <2>6. ASSUME AdvanceTail(t) PROVE Made'
    BY <2>6, <1>1, <1>3 DEF AdvanceTail, CasTail, Made, Typed
  <2>7. ASSUME Count(t) PROVE Made'
    BY <2>7, <1>1 DEF Count, Made, Typed, Null
  <2>. QED  BY <1>4, <1>5, <2>1, <2>2, <2>3, <2>4, <2>5, <2>6, <2>7 DEF EnqueueStep
<1>6. ASSUME NEW t \in Threads, DequeueStep(t) PROVE Made'
  <2>1. ASSUME NEW q \in Queues, Reserve(t, q) PROVE Made'
    BY <2>1 DEF Reserve, Made
  <2>2. ASSUME Refuse(t) PROVE Made'
    BY <2>2, <1>1 DEF Refuse, Made, Typed, Null
  <2>3. ASSUME TakeReadHead(t) PROVE Made'
    BY <2>3 DEF TakeReadHead, Made
  <2>4. ASSUME TakeReadTail(t) PROVE Made'
    BY <2>4, <1>1, <1>3 DEF TakeReadTail, Made, Typed
  <2>5. ASSUME TakeReadNext(t) PROVE Made'
    <3>1. pc[t] = "takeNext" /\ headCap[t][1] \in AllNodes /\ queue[t] \in Queues
      BY <2>5, <1>3 DEF TakeReadNext, HeadPcs
    <3>2. PICK new : new = next[headCap[t][1]] /\ new[1] \in 0..created
      BY <3>1 DEF Made
    <3>3. nextCap' = [nextCap EXCEPT ![t] = new] /\ UNCHANGED <<created, next, node, tailCap>>
      BY <2>5, <3>2 DEF TakeReadNext
    <3>4. tail' = tail \/ tail' = [tail EXCEPT ![queue[t]] = new]
      BY <2>5, <3>2 DEF TakeReadNext, CasTail
    <3>. QED  BY <1>1, <3>1, <3>2, <3>3, <3>4 DEF Made, Typed
  <2>6. ASSUME TakeReadData(t) PROVE Made'
    BY <2>6 DEF TakeReadData, Made
  <2>7. ASSUME Take(t) PROVE Made'
    BY <2>7 DEF Take, Made
  <2>8. ASSUME FreeHead(t) PROVE Made'
    BY <2>8, <1>1 DEF FreeHead, Free, Made, Typed, Null
  <2>. QED  BY <1>6, <2>1, <2>2, <2>3, <2>4, <2>5, <2>6, <2>7, <2>8 DEF DequeueStep
<1>7. ASSUME UNCHANGED vars PROVE Made'
  BY <1>7 DEF vars, Made
<1>. QED  BY <1>0, <1>5, <1>6, <1>7 DEF Next

\* While the lists wait, no Enqueue is given the node that another one relies on:
\* the node it is given is new, or it was handed over.
LEMMA TailKeptNext ==
    IInv /\ Made /\ TailKept /\ ListsWait /\ [Next]_vars => TailKept'
<1>. SUFFICES ASSUME IInv, Made, TailKept, ListsWait, [Next]_vars,
                     NEW t \in Threads, NEW u \in Threads,
                     pc'[t] \in {"next", "link"}, pc'[u] = "tag"
              PROVE  tailCap'[t][1] # node'[u][1]
  BY DEF TailKept
<1>. USE DEF Goto, Return, listVars, callVars, capVars
<1>0. Enqueuers \subseteq Threads /\ Dequeuers \subseteq Threads
  BY QueueAssumption
<1>1. Typed /\ PoolInv /\ t # u
  BY DEF IInv
<1>2. PICK N, lo, hi : Core(N, lo, hi)
  BY DEF IInv
<1>3. ASSUME pc[t] \in {"next", "link"}, tailCap'[t] = tailCap[t], pc[u] = "tag", node'[u] = node[u]
      PROVE  tailCap'[t][1] # node'[u][1]
  BY <1>3 DEF TailKept
<1>4. ASSUME NEW v \in Threads, EnqueueStep(v) \/ DequeueStep(v) PROVE OthersKept(v)
  <2>1. ASSUME EnqueueStep(v) PROVE OthersKept(v)
    BY <2>1, <1>1 DEF EnqueueStep, BeginEnqueue, TagNode, ReadTail, ReadNext, SwingTail, Link,
       AdvanceTail, Count, OthersKept, Typed
  <2>2. ASSUME DequeueStep(v) PROVE OthersKept(v)
    BY <2>2, <1>1 DEF DequeueStep, Reserve, Refuse, TakeReadHead, TakeReadTail, TakeReadNext,
       TakeReadData, Take, FreeHead, OthersKept, Typed
  <2>. QED  BY <1>4, <2>1, <2>2
<1>5. ASSUME NEW v \in Threads, v # t, v # u, OthersKept(v) PROVE tailCap'[t][1] # node'[u][1]
  BY <1>3, <1>5 DEF OthersKept
<1>6. ASSUME EnqueueStep(t), OthersKept(t) PROVE tailCap'[t][1] # node'[u][1]
  <2>1. pc[u] = "tag" /\ node'[u] = node[u]
    BY <1>1, <1>6 DEF OthersKept
  <2>2. \/ pc[t] \in {"next", "link"} /\ tailCap'[t] = tailCap[t]
        \/ pc[t] = "tail" /\ tailCap'[t] = tail[queue[t]]
    BY <1>1, <1>6 DEF EnqueueStep, BeginEnqueue, TagNode, ReadTail, ReadNext, SwingTail, Link,
       AdvanceTail, Count, Typed
  <2>3. CASE pc[t] = "tail" /\ tailCap'[t] = tail[queue[t]]
    <3>1. PICK q : q = queue[t] /\ q \in Queues
      BY <1>1, <2>3 DEF Typed
    <3>2. PICK j \in lo[q]..hi[q] : tail[q] = N[q][j]
      BY <1>2, <3>1 DEF Core, Linked
    <3>3. node[u][1] # N[q][j][1]
      BY <1>1, <1>2, <2>1, <3>1, OwnFacts DEF NewPcs
    <3>. QED  BY <2>1, <2>3, <3>1, <3>2, <3>3
  <2>. QED  BY <1>3, <2>1, <2>2, <2>3
<1>7. ASSUME EnqueueStep(u), OthersKept(u) PROVE tailCap'[t][1] # node'[u][1]
  <2>1. pc[t] \in {"next", "link"} /\ tailCap'[t] = tailCap[t]
    BY <1>1, <1>7 DEF OthersKept
  <2>2. PICK q \in Queues : BeginEnqueue(u, q)
    BY <1>1, <1>7 DEF EnqueueStep, TagNode, ReadTail, ReadNext, SwingTail, Link, AdvanceTail,
       Count, Typed
  <2>3. PICK n \in AllNodes : Alloc(u, n) /\ node' = [node EXCEPT ![u] = <<n, 0>>]
    BY <2>2 DEF BeginEnqueue
  <2>4. (HandedOver(n) \/ n = created + 1) /\ created \in Nat
    BY <1>1, <2>3, AllocFrom
  <2>5. ~HandedOver(tailCap[t][1]) /\ tailCap[t][1] \in 0..created
    BY <2>1 DEF ListsWait, Made
  <2>6. node'[u][1] = n
    BY <1>1, <2>3 DEF Typed
  <2>7. tailCap[t][1] # n
    BY <2>4, <2>5
  <2>. QED  BY <2>1, <2>6, <2>7
<1>8. ASSUME NEW v \in {t, u}, DequeueStep(v) PROVE FALSE
  BY <1>1, <1>8 DEF DequeueStep, Reserve, Refuse, TakeReadHead, TakeReadTail, TakeReadNext,
     TakeReadData, Take, FreeHead, Typed
<1>9. ASSUME UNCHANGED vars PROVE tailCap'[t][1] # node'[u][1]
  BY <1>3, <1>9 DEF vars
<1>. QED  BY <1>0, <1>4, <1>5, <1>6, <1>7, <1>8, <1>9 DEF Next

-----------------------------------------------------------------------------
(* The theorems.                                                           *)

\* As long as no compare-and-swap finds a pointer linked again with the same tag,
\* and no Enqueue the node it is about to link to given to another one, m_size is
\* exact at every moment: it is off by the calls in progress, and by no more.
THEOREM SizeExactIfKept == Spec /\ []NoTagReuse /\ []TailKept => []SizeExact
BY SpecIInv, SizeExactHolds, PTL

\* And then a node of the pool has one owner: no call frees it, or is given it,
\* while a queue or another call has it.
THEOREM NodesApartIfKept == Spec /\ []NoTagReuse /\ []TailKept => []NodesApart
BY SpecIInv, NodesApartHolds, PTL

\* And then every queue gives each value once, in the order of the links.
THEOREM FifoIfKept == Spec /\ []NoTagReuse /\ []TailKept => FifoSpec
<1>1. Spec /\ []NoTagReuse /\ []TailKept => Fifo!Init
  BY FifoStart, ContentsAreItems DEF Spec
<1>2. Spec /\ []NoTagReuse /\ []TailKept => [][Fifo!Next]_(Fifo!fifoVars)
  BY SpecIInv, FifoStep, ContentsAreItems, PTL DEF Spec
<1>. QED  BY <1>1, <1>2, PTL DEF FifoSpec, Fifo!Spec

\* In fewer calls of Enqueue than there are tags (2^17) no pointer is linked twice.
THEOREM TagsHold ==
    ASSUME MaxValue < TagRange
    PROVE  Spec /\ []TailKept => []NoTagReuse
BY TagInvStart, TagInvNext, TagInvReuse, PTL DEF Spec

\* With one enqueuing thread nobody else is given a node.
LEMMA OneEnqueuerKeeps ==
    ASSUME \A t, u \in Enqueuers : t = u
    PROVE  Spec => []TailKept
<1>1. Init => OnlyEnqueuers
  BY DEF Init, OnlyEnqueuers, Pcs, NewPcs
<1>2. OnlyEnqueuers => TailKept
  BY DEF OnlyEnqueuers, TailKept, NewPcs
<1>. QED  BY <1>1, <1>2, OnlyEnqueuersNext, PTL DEF Spec

\* With any number of enqueuing threads that use the nodes again, TailKept can
\* only break when a list with the node of the tail an Enqueue has read is full,
\* and with it handed over, before that Enqueue compares and swaps.
THEOREM WaitingListsKeep == Spec /\ []NoTagReuse /\ []ListsWait => []TailKept
<1>1. Init => TailKept
  BY DEF Init, TailKept
<1>2. IInv /\ NoTagReuse /\ Made /\ TailKept /\ ListsWait /\ [Next]_vars => TailKept' /\ IInv' /\ Made'
  BY TailKeptNext, MadeNext, IInvNext
<1>. QED  BY <1>1, <1>2, IInvStart, MadeStart, PTL DEF Spec

\* So the queues are FIFOs with exact counters, and their nodes have one owner,
\* for all threads that call, until the tags come round, unless a thread is held
\* up for as long as another one needs to free a whole list.
THEOREM QueuesWhileListsWait ==
    ASSUME MaxValue < TagRange
    PROVE  Spec /\ []ListsWait => []SizeExact /\ []NodesApart /\ FifoSpec
<1>1. Init => TailKept
  BY DEF Init, TailKept
<1>2. TagInv /\ Made /\ TailKept /\ ListsWait /\ [Next]_vars => TagInv' /\ TailKept' /\ Made'
  BY TailKeptNext, MadeNext, TagInvNext, TagInvReuse
<1>3. Spec /\ []ListsWait => []TailKept
  BY <1>1, <1>2, TagInvStart, MadeStart, PTL DEF Spec
<1>. QED  BY <1>3, TagsHold, SizeExactIfKept, NodesApartIfKept, FifoIfKept, PTL
=============================================================================
