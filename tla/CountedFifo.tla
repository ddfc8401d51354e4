---------------------------- MODULE CountedFifo ----------------------------
(***************************************************************************)
(* What a family of LockFreeQueues promises: each is a FIFO of the values  *)
(* its own callers give to it. SendPath uses the send buffer as one.       *)
(***************************************************************************)
EXTENDS Naturals, Sequences

CONSTANTS
    Queues,             \* the queues
    Values              \* what they hold

VARIABLES
    given,              \* the values handed to Enqueue of each queue
    items,              \* what each queue holds
    taken               \* what its Dequeue has returned, in order

fifoVars == <<given, items, taken>>

Init ==
    /\ given = [q \in Queues |-> {}]
    /\ items = [q \in Queues |-> <<>>]
    /\ taken = [q \in Queues |-> <<>>]

Give(q, v) ==
    /\ \A r \in Queues : v \notin given[r]
    /\ given' = [given EXCEPT ![q] = @ \cup {v}]
    /\ UNCHANGED <<items, taken>>

Put(q, v) ==
    /\ v \in given[q]
    /\ \A i \in DOMAIN items[q] : items[q][i] # v
    /\ \A i \in DOMAIN taken[q] : taken[q][i] # v
    /\ items' = [items EXCEPT ![q] = Append(@, v)]
    /\ UNCHANGED <<given, taken>>

Take(q) ==
    /\ items[q] # <<>>
    /\ items' = [items EXCEPT ![q] = Tail(@)]
    /\ taken' = [taken EXCEPT ![q] = Append(@, Head(items[q]))]
    /\ UNCHANGED given

Next == \E q \in Queues : Take(q) \/ \E v \in Values : Give(q, v) \/ Put(q, v)

Spec == Init /\ [][Next]_fifoVars
=============================================================================
