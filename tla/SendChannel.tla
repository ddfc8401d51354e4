---------------------------- MODULE SendChannel ----------------------------
(***************************************************************************)
(* What SendPacket and SendPacketMulticast promise: between the server and *)
(* the peer of a connection there is one FIFO channel. The peer receives   *)
(* the packets addressed to its own handle, each at most once, in the      *)
(* order they were put into the channel and without a gap; what is still   *)
(* in the channel when the connection goes is dropped.                     *)
(***************************************************************************)
EXTENDS Naturals, Sequences

CONSTANTS
    Slots,              \* the indexes of m_sessions
    Packets             \* the packets of Packet::NetAlloc

VARIABLES
    connection,         \* the id of the connection of each slot, 0: none
    addressees,         \* the handles a packet was sent to
    pending,            \* what the channel of each slot holds
    delivered           \* what its peer has received

channelVars == <<connection, addressees, pending, delivered>>

Elements(seq) == {seq[i] : i \in DOMAIN seq}

Init ==
    /\ connection = [s \in Slots |-> 0]
    /\ addressees = [p \in Packets |-> {}]
    /\ pending = [s \in Slots |-> <<>>]
    /\ delivered = [s \in Slots |-> <<>>]

Open(s) ==
    /\ connection[s] = 0
    /\ connection'[s] > 0
    /\ connection' = [connection EXCEPT ![s] = connection'[s]]
    /\ delivered' = [delivered EXCEPT ![s] = <<>>]
    /\ UNCHANGED <<addressees, pending>>

Close(s) ==
    /\ connection[s] > 0
    /\ connection' = [connection EXCEPT ![s] = 0]
    /\ pending' = [pending EXCEPT ![s] = <<>>]
    /\ UNCHANGED <<addressees, delivered>>

\* A packet gets its addressees once.
Address(p) ==
    /\ addressees[p] = {}
    /\ addressees' = [addressees EXCEPT ![p] = addressees'[p]]
    /\ UNCHANGED <<connection, pending, delivered>>

Append1(s, p) ==
    /\ <<s, connection[s]>> \in addressees[p]
    /\ p \notin Elements(pending[s]) \cup Elements(delivered[s])
    /\ pending' = [pending EXCEPT ![s] = Append(@, p)]
    /\ UNCHANGED <<connection, addressees, delivered>>

Deliver(s) ==
    /\ connection[s] > 0
    /\ \E n \in 1..Len(pending[s]) :
          /\ delivered' = [delivered EXCEPT
                              ![s] = @ \o SubSeq(pending[s], 1, n)]
          /\ pending' = [pending EXCEPT ![s] = SubSeq(@, n + 1, Len(@))]
    /\ UNCHANGED <<connection, addressees>>

Next ==
    \/ \E s \in Slots : Open(s) \/ Close(s) \/ Deliver(s)
    \/ \E p \in Packets : Address(p)
    \/ \E s \in Slots, p \in Packets : Append1(s, p)

Spec == Init /\ [][Next]_channelVars
=============================================================================
