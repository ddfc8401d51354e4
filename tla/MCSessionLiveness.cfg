\* Under the fairness of the scheduler and the IOCP: one slot used twice.
SPECIFICATION FairSpec
CONSTANTS
    Slots = {s1}
    NoSlot = NoSlot
    Workers = {w1, w2}
    Callers = {c1}
    MaxId = 2
    MaxDrift = 2
PROPERTIES
    CloseLeadsToLeave
    DisconnectLeadsToLeave
\* the behaviour ends when MaxId connections have come and gone
CHECK_DEADLOCK FALSE
