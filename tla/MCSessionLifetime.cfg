\* Two sessions, three connections (so at least one slot is reused), two
\* workers and two threads that keep using handles, stale ones included.
SPECIFICATION Spec
CONSTANTS
    Slots = {s1, s2}
    NoSlot = NoSlot
    Workers = {w1, w2}
    Callers = {c1, c2}
    MaxId = 3
    MaxDrift = 1
SYMMETRY Symmetry
INVARIANTS
    FoundSessionIsOwned
    CallbackOrder
    SingleReceive
    RequestReachesReceive
    PopNeverEmpty
    IInv
PROPERTIES
    LifecycleSpec
\* the behaviour ends when MaxId connections have come and gone
CHECK_DEADLOCK FALSE
