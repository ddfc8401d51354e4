--------------------------- MODULE MonitorClient ---------------------------
(***************************************************************************)
(* MonitorClient over NetLib_Client: the one session by which the chat and *)
(* the login server report to the monitor server.  A worker connects and   *)
(* connects again when the session was released (OnLeaveServer); the main  *)
(* thread sends measurements whenever m_Connect is set.                    *)
(*                                                                         *)
(* The send queue's own steps are SendPath's; here an enqueue with its     *)
(* TrySendPost is one step, and SendPost is one step.                      *)
(***************************************************************************)
EXTENDS MonitorNet

CONSTANT MaxUpdates  \* measurements the main threads send

ASSUME ClientAssumption == MaxUpdates \in Nat

VARIABLES
  at,          \* of a server: how far its Connect has come
  link,        \* its connection: SessionHandle, once Session::Connect has written it
  m_Connect,
  IOCount, released,
  m_sendBuffer, IsSending,
  posted,      \* overlapped_sendpost is in the completion port
  flight,      \* overlapped_send: "none", "out", or "lost" without a completion port
  receiving,   \* the receive is posted
  leaving,     \* overlapped_leave is posted
  sender,      \* the main thread's SendPacket
  updates

clientVars == <<at, link, m_Connect, IOCount, released, m_sendBuffer, IsSending, posted, flight,
                receiving, leaving, sender, updates>>

Resting == [step |-> "idle", handle |-> NoHandle]

ClientInit ==
  /\ at = [s \in Servers |-> "connecting"] /\ link = [s \in Servers |-> NoHandle]
  /\ m_Connect = [s \in Servers |-> FALSE]
  /\ IOCount = [s \in Servers |-> 0] /\ released = [s \in Servers |-> TRUE]
  /\ m_sendBuffer = [s \in Servers |-> <<>>] /\ IsSending = [s \in Servers |-> FALSE]
  /\ posted = [s \in Servers |-> FALSE] /\ flight = [s \in Servers |-> "none"]
  /\ receiving = [s \in Servers |-> FALSE] /\ leaving = [s \in Servers |-> FALSE]
  /\ sender = [s \in Servers |-> Resting]
  /\ updates = 0

-----------------------------------------------------------------------------
\* Decrement_IOCount, and ReleaseSession at 0, which closes the socket.
\* sending' and buffer' are what the step leaves if the session stays.
Decrement(s, count, buffer, sending) ==
  /\ IOCount' = [IOCount EXCEPT ![s] = count - 1]
  /\ IF count > 1
       THEN /\ m_sendBuffer' = [m_sendBuffer EXCEPT ![s] = buffer]
            /\ IsSending' = [IsSending EXCEPT ![s] = sending]
            /\ UNCHANGED <<released, leaving, cut>>
       ELSE /\ released' = [released EXCEPT ![s] = TRUE]
            /\ cut' = cut \cup {link[s]}
            /\ m_sendBuffer' = [m_sendBuffer EXCEPT ![s] = <<>>]
            /\ IsSending' = [IsSending EXCEPT ![s] = FALSE]
            /\ leaving' = [leaving EXCEPT ![s] = TRUE]

\* Enqueue, a reference, and TrySendPost: the reference stays with the posted
\* SendPost, or is returned at once.
Enqueue(s, msg) ==
  /\ m_sendBuffer' = [m_sendBuffer EXCEPT ![s] = Append(@, msg)]
  /\ IOCount' = IF IsSending[s] THEN IOCount ELSE [IOCount EXCEPT ![s] = @ + 1]
  /\ IsSending' = [IsSending EXCEPT ![s] = TRUE]
  /\ posted' = IF IsSending[s] THEN posted ELSE [posted EXCEPT ![s] = TRUE]

-----------------------------------------------------------------------------
\* Connect, on the worker that served the leave completion (or in main).

\* connect() succeeds: m_Connect is set although the session is still released.
TcpConnect(s, h) ==
  /\ at[s] = "connecting"
  /\ at' = [at EXCEPT ![s] = "tcp"]
  /\ m_Connect' = [m_Connect EXCEPT ![s] = TRUE]
  /\ link' = [link EXCEPT ![s] = h]
  /\ net' = [net EXCEPT ![h] = <<>>] /\ cut' = cut \ {h}
  /\ UNCHANGED <<IOCount, released, m_sendBuffer, IsSending, posted, flight, receiving, leaving,
                 sender, updates>>

\* Session::Connect up to IOCount: from here on FindSession succeeds.
SessionConnect(s) ==
  /\ at[s] = "tcp"
  /\ at' = [at EXCEPT ![s] = "session"]
  /\ IOCount' = [IOCount EXCEPT ![s] = 1] /\ released' = [released EXCEPT ![s] = FALSE]
  /\ IsSending' = [IsSending EXCEPT ![s] = FALSE]
  /\ UNCHANGED <<wires, link, m_Connect, m_sendBuffer, posted, flight, receiving, leaving, sender,
                 updates>>

\* Session::Connect then clears the send queue, under senders already at work.
SessionClear(s) ==
  /\ at[s] = "session"
  /\ at' = [at EXCEPT ![s] = "cleared"]
  /\ m_sendBuffer' = [m_sendBuffer EXCEPT ![s] = <<>>]
  /\ UNCHANGED <<wires, link, m_Connect, IOCount, released, IsSending, posted, flight, receiving,
                 leaving, sender, updates>>

Register(s) ==
  /\ at[s] = "cleared"
  /\ at' = [at EXCEPT ![s] = "registered"]
  /\ UNCHANGED <<wires, link, m_Connect, IOCount, released, m_sendBuffer, IsSending, posted, flight,
                 receiving, leaving, sender, updates>>

\* OnEnterJoinServer sends the login.
EnterJoin(s) ==
  /\ at[s] = "registered"
  /\ at' = [at EXCEPT ![s] = "joined"]
  /\ Enqueue(s, [type |-> "login", from |-> s])
  /\ UNCHANGED <<wires, link, m_Connect, released, flight, receiving, leaving, sender, updates>>

\* Faulty variant: the reference of a receive that failed is not returned.
FirstRecvKept(s) ==
  /\ at[s] = "joined"
  /\ at' = [at EXCEPT ![s] = "up"]
  /\ IF link[s] \notin cut
       THEN receiving' = [receiving EXCEPT ![s] = TRUE]
       ELSE UNCHANGED receiving
  /\ UNCHANGED <<wires, IOCount, released, m_sendBuffer, IsSending, leaving, link, m_Connect, posted,
                 flight, sender, updates>>

\* RecvPost, which fails on a connection already closed.
FirstRecv(s) ==
  /\ at[s] = "joined"
  /\ at' = [at EXCEPT ![s] = "up"]
  /\ \/ /\ receiving' = [receiving EXCEPT ![s] = TRUE]
        /\ UNCHANGED <<IOCount, released, m_sendBuffer, IsSending, leaving, cut>>
     \/ /\ link[s] \in cut
        /\ Decrement(s, IOCount[s], m_sendBuffer[s], IsSending[s])
        /\ UNCHANGED receiving
  /\ UNCHANGED <<net, link, m_Connect, posted, flight, sender, updates>>

Connecting(s) == SessionConnect(s) \/ SessionClear(s) \/ Register(s) \/ EnterJoin(s) \/ FirstRecv(s)

-----------------------------------------------------------------------------
\* The workers' completions.

RecvEnds(s) ==
  /\ receiving[s] /\ link[s] \in cut
  /\ receiving' = [receiving EXCEPT ![s] = FALSE]
  /\ Decrement(s, IOCount[s], m_sendBuffer[s], IsSending[s])
  /\ UNCHANGED <<net, at, link, m_Connect, posted, flight, sender, updates>>

\* SendPost: all that is queued goes out in one WSASend.  A socket without a
\* completion port never reports that one; a closed one may refuse it.
SendPost(s) ==
  /\ posted[s]
  /\ posted' = [posted EXCEPT ![s] = FALSE]
  /\ \/ /\ flight' = [flight EXCEPT ![s] = IF m_sendBuffer[s] # <<>> /\ at[s] \in {"session", "cleared"}
                                             THEN "lost" ELSE "out"]
        /\ net' = IF link[s] \in cut THEN net
                  ELSE [net EXCEPT ![link[s]] = @ \o m_sendBuffer[s]]
        /\ m_sendBuffer' = [m_sendBuffer EXCEPT ![s] = <<>>]
        /\ UNCHANGED <<IOCount, released, IsSending, leaving, cut>>
     \/ /\ link[s] \in cut /\ m_sendBuffer[s] # <<>>
        /\ Decrement(s, IOCount[s], <<>>, IsSending[s])
        /\ UNCHANGED <<net, flight>>
  /\ UNCHANGED <<at, link, m_Connect, receiving, sender, updates>>

\* The completion of a send: with data, and another SendPost if the queue has
\* filled meanwhile; or, on a closed connection, without: IsSending stays set.
SendDone(s) ==
  /\ flight[s] = "out"
  /\ flight' = [flight EXCEPT ![s] = "none"]
  /\ \/ /\ m_sendBuffer[s] = <<>>
        /\ Decrement(s, IOCount[s], <<>>, FALSE)
        /\ UNCHANGED posted
     \/ /\ m_sendBuffer[s] # <<>>
        /\ posted' = [posted EXCEPT ![s] = TRUE]
        /\ Decrement(s, IOCount[s] + 1, m_sendBuffer[s], TRUE)
     \/ /\ link[s] \in cut
        /\ Decrement(s, IOCount[s], m_sendBuffer[s], IsSending[s])
        /\ UNCHANGED posted
  /\ UNCHANGED <<net, at, link, m_Connect, receiving, sender, updates>>

\* The leave completion: OnLeaveServer connects again.
ClientLeaves(s) ==
  /\ leaving[s] /\ at[s] = "up"
  /\ leaving' = [leaving EXCEPT ![s] = FALSE]
  /\ m_Connect' = [m_Connect EXCEPT ![s] = FALSE]
  /\ at' = [at EXCEPT ![s] = "connecting"]
  /\ UNCHANGED <<wires, link, IOCount, released, m_sendBuffer, IsSending, posted, flight, receiving,
                 sender, updates>>

-----------------------------------------------------------------------------
\* Monitoring in the main thread: IsConnect, then SendPacket of a measurement,
\* with the SessionHandle of this moment, which Session::Connect writes.

IsConnect(s) ==
  /\ sender[s].step = "idle" /\ m_Connect[s] /\ updates < MaxUpdates
  /\ updates' = updates + 1
  /\ sender' = [sender EXCEPT ![s] = [step |-> "find",
                                           handle |-> IF at[s] = "tcp" THEN NoHandle ELSE link[s]]]
  /\ UNCHANGED <<wires, at, link, m_Connect, IOCount, released, m_sendBuffer, IsSending, posted,
                 flight, receiving, leaving>>

\* FindSession with the handle read before: a released session is left alone,
\* another connection's reference is returned.
FindSession(s) ==
  /\ sender[s].step = "find"
  /\ IF released[s]
       THEN /\ sender' = [sender EXCEPT ![s] = Resting]
            /\ UNCHANGED IOCount
       ELSE /\ sender' = [sender EXCEPT ![s].step = IF @ = "find" /\ link[s] = sender[s].handle
                                                     THEN "enqueue" ELSE "return"]
            /\ IOCount' = [IOCount EXCEPT ![s] = @ + 1]
  /\ UNCHANGED <<wires, at, link, m_Connect, released, m_sendBuffer, IsSending, posted, flight,
                 receiving, leaving, updates>>

SendPacket(s) ==
  /\ sender[s].step = "enqueue"
  /\ sender' = [sender EXCEPT ![s].step = "return"]
  /\ Enqueue(s, [type |-> "data", from |-> s])
  /\ UNCHANGED <<wires, at, link, m_Connect, released, flight, receiving, leaving, updates>>

ReturnSession(s) ==
  /\ sender[s].step = "return"
  /\ sender' = [sender EXCEPT ![s] = Resting]
  /\ Decrement(s, IOCount[s], m_sendBuffer[s], IsSending[s])
  /\ UNCHANGED <<net, at, link, m_Connect, posted, flight, receiving, updates>>

Sending(s) == FindSession(s) \/ SendPacket(s) \/ ReturnSession(s)

\* The threads that serve s.
Completions(s) == RecvEnds(s) \/ SendPost(s) \/ SendDone(s) \/ ClientLeaves(s)

ClientStep(s) == Connecting(s) \/ Completions(s) \/ Sending(s) \/ IsConnect(s)
=============================================================================
