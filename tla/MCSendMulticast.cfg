\* Two sessions, one of them used again, packets multicast to both or sent to
\* one, and calls for connections that are gone.
SPECIFICATION Spec
CONSTANTS
    Slots = {s1, s2}
    NoSlot = NoSlot
    Workers = {w1}
    Senders = {c1}
    SendPacketCount = 2
    MaxOfSendPackets = 0
    MaxPackets = 2
    MaxConnections = 3
SYMMETRY SlotSenderSymmetry
INVARIANTS
    PacketRefs
PROPERTIES
    ChannelSpec
\* the behaviour ends when the packets and connections are used up
CHECK_DEADLOCK FALSE
