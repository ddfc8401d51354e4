\* One connection, two senders with three packets, two workers; the limit of
\* the queue is passed. Fair threads, a FIFO IOCP and a peer that reads or breaks.
SPECIFICATION FairSpec
CONSTANTS
    Slots = {s1}
    NoSlot = NoSlot
    Workers = {w1, w2}
    Senders = {c1, c2}
    SendPacketCount = 2
    MaxOfSendPackets = 0
    MaxPackets = 3
    MaxConnections = 1
INVARIANTS
    NoLostWakeup
    SendingHasOwner
    RefsExact
PROPERTIES
    ChannelSpec
    EverythingIsSent
\* the behaviour ends when the packets and connections are used up
CHECK_DEADLOCK FALSE
