--------------------------- MODULE LockFreeStack ---------------------------
(***************************************************************************)
(* LockFreeStack as the pool of session indexes, at the granularity of its *)
(* reads and compare-and-swaps of shared memory. A node that was popped    *)
(* goes to the TLSObjectPool and comes back as another push's node while a *)
(* slow Pop may still read its Next; a tag in the upper bits of m_top, new *)
(* with every push, tells. m_size has no reader and is left out.           *)
(***************************************************************************)
EXTENDS TLSObjectPool

CONSTANTS
    IndexCount,         \* m_maxSessions: the indexes are 1..IndexCount here
    TagRange            \* 2^17: the tags are what << 47 leaves of a count

ASSUME StackAssumption == IndexCount \in Nat \ {0} /\ TagRange \in Nat \ {0}

CONSTANT MaxPushes      \* bounds m_allocCnt

VARIABLES
    topNode,            \* m_top of the stack
    allocCnt,           \* m_allocCnt
    next,               \* Node::Next
    data,               \* Node::Data
    pc,                 \* where each thread is
    node,               \* newTop of a Push
    oldTop,             \* oldTop
    newTop,             \* newTop of a Pop
    out                 \* the indexes that were popped and not pushed back

stackVars == <<topNode, allocCnt, next, data>>
vars == <<poolVars, stackVars, pc, node, oldTop, newTop, out>>

Null == <<0, 0>>
Indexes == 1..IndexCount

\* A node is made only when the thread's m_top and m_freeSets are empty.
AllNodes == 1..(IndexCount + 2 * (ChunkSize - 1) * Cardinality(Threads))

\* Faulty variants: no tag; the tag and the address exchanged.
Untagged(n, count) == <<n, 0>>

\* SetCount: a pointer with a tag.
Tagged(n, count) == <<n, count % TagRange>>

\* The constructor of NetLib_Server has pushed all the indexes, the last first.
Init ==
    /\ PoolInit(IndexCount)
    /\ topNode = Tagged(IndexCount, IndexCount)
    /\ allocCnt = IndexCount
    /\ next = [n \in AllNodes |->
                  IF n \in 2..IndexCount THEN Tagged(n - 1, n - 1) ELSE Null]
    /\ data = [n \in AllNodes |-> IF n \in Indexes THEN IndexCount + 1 - n ELSE 0]
    /\ pc = [t \in Threads |-> "idle"]
    /\ node = [t \in Threads |-> Null]
    /\ oldTop = [t \in Threads |-> Null]
    /\ newTop = [t \in Threads |-> Null]
    /\ out = {}

Goto(t, from, to) ==
    /\ pc[t] = from
    /\ pc' = [pc EXCEPT ![t] = to]

\* The locals of a call that returns are forgotten.
Return(t, from) ==
    /\ Goto(t, from, "idle")
    /\ node' = [node EXCEPT ![t] = Null]
    /\ oldTop' = [oldTop EXCEPT ![t] = Null]
    /\ newTop' = [newTop EXCEPT ![t] = Null]

-----------------------------------------------------------------------------
(* Push                                                                    *)

BeginPush(t, index) ==
    /\ allocCnt < MaxPushes
    /\ Goto(t, "idle", "pushRead")
    /\ index \in out
    /\ out' = out \ {index}
    /\ allocCnt' = allocCnt + 1
    /\ \E n \in AllNodes :
          /\ Alloc(t, n)
          /\ data' = [data EXCEPT ![n] = index]
          /\ node' = [node EXCEPT ![t] = Tagged(n, allocCnt')]
    /\ UNCHANGED <<topNode, next, oldTop, newTop>>

PushReadTop(t) ==
    /\ Goto(t, "pushRead", "pushNext")
    /\ oldTop' = [oldTop EXCEPT ![t] = topNode]
    /\ UNCHANGED <<poolVars, stackVars, node, newTop, out>>

PushSetNext(t) ==
    /\ Goto(t, "pushNext", "push")
    /\ next' = [next EXCEPT ![node[t][1]] = oldTop[t]]
    /\ UNCHANGED <<poolVars, topNode, allocCnt, data, node, oldTop, newTop, out>>

Push(t) ==
    \/ /\ topNode = oldTop[t]
       /\ topNode' = node[t]
       /\ Return(t, "push")
       /\ UNCHANGED <<poolVars, allocCnt, next, data, out>>
    \/ /\ topNode # oldTop[t]
       /\ Goto(t, "push", "pushRead")
       /\ UNCHANGED <<poolVars, stackVars, node, oldTop, newTop, out>>

-----------------------------------------------------------------------------
(* Pop                                                                     *)

\* An empty stack ends the call.
PopReadTop(t) ==
    /\ pc[t] \in {"idle", "popRead"}
    /\ IF topNode[1] = 0
       THEN Return(t, pc[t])
       ELSE /\ Goto(t, pc[t], "popNext")
            /\ oldTop' = [oldTop EXCEPT ![t] = topNode]
            /\ UNCHANGED <<node, newTop>>
    /\ UNCHANGED <<poolVars, stackVars, out>>

PopReadNext(t) ==
    /\ Goto(t, "popNext", "pop")
    /\ newTop' = [newTop EXCEPT ![t] = next[oldTop[t][1]]]
    /\ UNCHANGED <<poolVars, stackVars, node, oldTop, out>>

\* Faulty variant: a store where the code compares and swaps.
PopByStore(t) ==
    /\ topNode' = newTop[t]
    /\ Goto(t, "pop", "popFree")
    /\ UNCHANGED <<poolVars, allocCnt, next, data, node, oldTop, newTop, out>>

Pop(t) ==
    \/ /\ topNode = oldTop[t]
       /\ topNode' = newTop[t]
       /\ Goto(t, "pop", "popFree")
       /\ UNCHANGED <<poolVars, allocCnt, next, data, node, oldTop, newTop, out>>
    \/ /\ topNode # oldTop[t]
       /\ Goto(t, "pop", "popRead")
       /\ UNCHANGED <<poolVars, stackVars, node, oldTop, newTop, out>>

\* The index is read from the node, which is the caller's alone, and the node
\* goes back to the pool.
PopFree(t) ==
    /\ Return(t, "popFree")
    /\ out' = out \cup {data[oldTop[t][1]]}
    /\ Free(t, oldTop[t][1])
    /\ UNCHANGED stackVars

-----------------------------------------------------------------------------
Next ==
    \E t \in Threads :
        \/ \E index \in Indexes : BeginPush(t, index)
        \/ PushReadTop(t) \/ PushSetNext(t) \/ Push(t)
        \/ PopReadTop(t) \/ PopReadNext(t) \/ Pop(t) \/ PopFree(t)

Spec == Init /\ [][Next]_vars

-----------------------------------------------------------------------------
(* Properties                                                              *)

\* The n-th node from the top, 0 after the last.
Follow ==
    LET f[n \in 1..(Cardinality(AllNodes) + 1)] ==
            IF n = 1 THEN topNode[1]
                     ELSE LET m == f[n - 1] IN IF m = 0 THEN 0 ELSE next[m][1]
    IN  f

Height == Cardinality({n \in DOMAIN Follow : Follow[n] # 0})

Contents == [k \in 1..Height |-> data[Follow[k]]]

Pointers == (AllNodes \X (0..(TagRange - 1))) \cup {Null}

Pushing(t) == pc[t] \in {"pushRead", "pushNext", "push"}

\* An index is in the stack once, or out, or in the hands of one call: two
\* connections never get one index, and none is lost.
IndexOnce ==
    \A i \in Indexes :
        1 = Cardinality({k \in 1..Height : Contents[k] = i})
            + (IF i \in out THEN 1 ELSE 0)
            + Cardinality({t \in Threads : /\ Pushing(t)
                                           /\ data[node[t][1]] = i})
            + Cardinality({t \in Threads : /\ pc[t] = "popFree"
                                           /\ data[oldTop[t][1]] = i})

\* The stack of nodes is a stack of indexes.
Lifo == INSTANCE IndexStack WITH items <- Contents
LifoSpec == Lifo!Spec
=============================================================================
