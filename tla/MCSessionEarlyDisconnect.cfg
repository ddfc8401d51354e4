\* A Disconnect between OnClientJoin and the first receive.
SPECIFICATION FairSpec
CONSTANTS
    Slots = {s1}
    NoSlot = NoSlot
    Workers = {w1, w2}
    Callers = {c1}
    MaxId = 2
    MaxDrift = 2
PROPERTIES
    EveryDisconnectLeadsToLeave
CHECK_DEADLOCK FALSE
