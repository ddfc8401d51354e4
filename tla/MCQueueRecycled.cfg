\* One enqueuing thread and two queues that share the nodes; a node is free for
\* the next Enqueue as soon as it was taken.
SPECIFICATION Spec
CONSTANTS
    Threads = {p1, d1, d2}
    Enqueuers = {p1}
    Dequeuers = {d1, d2}
    QueueCount = 2
    TagRange = 131072
    MaxValue = 4
    ChunkSize = 1
SYMMETRY Symmetry
INVARIANTS
    NodesApart
PROPERTIES
    FifoSpec
\* the behaviour ends when the values are used up
CHECK_DEADLOCK FALSE
