----------------------------- MODULE IndexStack -----------------------------
(***************************************************************************)
(* What LockFreeStack promises to its user, the pool of session indexes: a *)
(* stack, in which an index that was popped is not found again before it   *)
(* has been pushed.                                                        *)
(***************************************************************************)
EXTENDS Naturals, Sequences

CONSTANT Indexes        \* the indexes of m_sessions

VARIABLE items          \* the stack, its top first

Push(i) ==
    /\ \A k \in DOMAIN items : items[k] # i
    /\ items' = <<i>> \o items

Pop ==
    /\ items # <<>>
    /\ items' = Tail(items)

\* At first every index is in the stack.
Init ==
    /\ \A i \in Indexes : \E k \in DOMAIN items : items[k] = i
    /\ \A k, l \in DOMAIN items : items[k] = items[l] => k = l

Next == Pop \/ \E i \in Indexes : Push(i)

Spec == Init /\ [][Next]_items
=============================================================================
