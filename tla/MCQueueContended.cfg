\* Two enqueuing and two dequeuing threads; no node is used twice.
\* Under threads that go on.
SPECIFICATION FairSpec
CONSTANTS
    Threads = {p1, p2, d1, d2}
    Enqueuers = {p1, p2}
    Dequeuers = {d1, d2}
    QueueCount = 1
    TagRange = 131072
    MaxValue = 3
    ChunkSize = 8
INVARIANTS
    SizeExact
PROPERTIES
    FifoSpec
    CallsReturn
\* the behaviour ends when the values are used up
CHECK_DEADLOCK FALSE
