\* One slot used by two connections, two contents, five moves.
SPECIFICATION FairSpec
CONSTANTS
    Slots = {s1}
    Contents = {A, B}
    NoContent = NoContent
    MaxConnections = 2
    MaxMoves = 5
    MaxFrames = 3
INVARIANTS
    SingleReader
    NoGhosts
    ReleasedOnce
PROPERTIES
    OnRecvInside
    ClosedReturns
\* the behaviour ends when the connections, moves and frames are used up
CHECK_DEADLOCK FALSE
