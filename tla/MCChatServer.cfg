\* Three sessions that log in to one account, on a map of three sectors in a row.
SPECIFICATION Spec
CONSTANTS
    Slots = {s1, s2, s3}
    Ids = {1}
    Accounts = {a1}
    NoAccount = NoAccount
    NoHandle = NoHandle
    SECTOR_MAX_X = 3
    SECTOR_MAX_Y = 1
    MaxCollected = 1
SYMMETRY Symmetry
INVARIANTS
    SupersededIsClosed
    NothingOutlivesLeave
    NoLockCycle
PROPERTIES
    ChatIsASnapshot
\* every handle may have left
CHECK_DEADLOCK FALSE
