\* Three threads that pop and push two indexes; the nodes are used again at once.
SPECIFICATION Spec
CONSTANTS
    Threads = {t1, t2, t3}
    ChunkSize = 1
    IndexCount = 2
    TagRange = 131072
    MaxPushes = 5
SYMMETRY Symmetry
INVARIANTS
    IndexOnce
PROPERTIES
    LifoSpec
\* the behaviour ends when the pushes are used up
CHECK_DEADLOCK FALSE
