\* Two messages of a well-behaved or a broken peer in pieces, a receive ring of
\* 8 bytes that wraps and a content ring too small for both.
SPECIFICATION FairSpec
CONSTANTS
    BufferSize = 8
    ContentBufferSize = 5
    ByteRange = 8
    PayloadLenDefault = 6
    HeaderSize = 4
    Messages <- MCMessages
    HeaderCode = 7
    FixedKey = 2
    RandKeys <- MCRandKeys
    MaxRecvPostCnt = 3
    MaxMessages = 2
    MaxBroken = 1
INVARIANTS
    KernelFits
    WellBehavedIsKept
PROPERTIES
    StreamSpec
    EveryMessageArrives
\* the behaviour ends when the traffic is used up
CHECK_DEADLOCK FALSE
