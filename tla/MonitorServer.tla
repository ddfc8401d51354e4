--------------------------- MODULE MonitorServer ---------------------------
(***************************************************************************)
(* MonitorServer/main.cpp: the sessions wait for their login; a reporting  *)
(* server's session gets a Client and the entry of its number, a monitor   *)
(* tool's a place among the monitors.  The workers run the handlers, one   *)
(* at a time for a session, in steps as long as a lock is held.  What a    *)
(* leave removes of a Client is done later, by ClientContentThread.        *)
(*                                                                         *)
(* Sessions are SessionLifetime's: OnClientLeave comes once, when no       *)
(* handler of the session runs.  Disconnect only asks for it.              *)
(***************************************************************************)
EXTENDS MonitorNet

CONSTANT MaxTools  \* a tool's login is refused if there are more monitors

ASSUME ServerAssumption == MaxTools \in Nat

VARIABLES
  joined,               \* sessions between OnClientJoin and OnClientLeave
  requestDisconnect,
  handler,              \* of a session: the step its worker is at, and the message
  waiting, monitors,
  clients_sessionHandle, sessions_ServerNo,
  Clients,              \* the Client objects that exist, by handle
  clientContentQueue,   \* LEAVE messages
  content,              \* ClientContentThread: its step, and the handle it works on
  accepted              \* history: sessions whose login was accepted

registry == <<waiting, monitors, clients_sessionHandle, sessions_ServerNo, Clients, clientContentQueue>>
serverVars == <<joined, requestDisconnect, handler, registry, content, accepted>>

Nothing == [step |-> "idle", msg |-> [type |-> "none", from |-> 0]]
Waking == [step |-> "timeout", handle |-> NoHandle, serverNo |-> 0]

ServerInit ==
  /\ joined = {} /\ requestDisconnect = {}
  /\ handler = [h \in Handles |-> Nothing]
  /\ waiting = {} /\ monitors = {}
  /\ clients_sessionHandle = {} /\ sessions_ServerNo = [s \in Servers |-> NoHandle]
  /\ Clients = {} /\ clientContentQueue = <<>>
  /\ content = Waking /\ accepted = {}

Disconnect(h) == requestDisconnect' = requestDisconnect \cup (joined \cap {h})
To(h, step) == handler' = [handler EXCEPT ![h].step = step]
Return(h) == handler' = [handler EXCEPT ![h] = Nothing]

-----------------------------------------------------------------------------
OnClientJoin(h) ==
  /\ joined' = joined \cup {h}
  /\ waiting' = waiting \cup {h}
  /\ accepted' = accepted \ {h} /\ requestDisconnect' = requestDisconnect \ {h}
  /\ UNCHANGED <<handler, monitors, clients_sessionHandle, sessions_ServerNo, Clients,
                 clientContentQueue, content>>

\* OnRecv: Content_Proc of the next message.
OnRecv(h) ==
  /\ h \in joined /\ handler[h] = Nothing /\ net[h] # <<>>
  /\ handler' = [handler EXCEPT ![h] = [step |-> Head(net[h]).type, msg |-> Head(net[h])]]
  /\ net' = [net EXCEPT ![h] = Tail(@)]
  /\ UNCHANGED <<cut, joined, requestDisconnect, registry, content, accepted>>

\* Both logins begin by taking the session out of waiting.
LeaveWaiting(h) ==
  /\ handler[h].step \in {"login", "tool"}
  /\ waiting' = waiting \ {h}
  /\ IF h \in waiting
       THEN /\ To(h, IF handler[h].step = "login" THEN "serverNo" ELSE "key")
            /\ UNCHANGED requestDisconnect
       ELSE Disconnect(h) /\ Return(h)
  /\ UNCHANGED <<net, cut, joined, monitors, clients_sessionHandle, sessions_ServerNo, Clients,
                 clientContentQueue, content, accepted>>

\* Faulty variant: a new login takes the number over and deletes the old Client.
LoginTakesOver(h) ==
  /\ handler[h].step = "serverNo"
  /\ LET serverNo == handler[h].msg.from
     IN /\ sessions_ServerNo' = [sessions_ServerNo EXCEPT ![serverNo] = h]
        /\ Clients' = {c \in Clients : c[2] # serverNo} \cup {<<h, serverNo>>}
  /\ accepted' = accepted \cup {h}
  /\ To(h, "insert")
  /\ UNCHANGED <<net, cut, joined, requestDisconnect, waiting, monitors, clients_sessionHandle,
                 clientContentQueue, content>>

\* en_PACKET_SS_MONITOR_LOGIN: one session of a server at a time.
LoginServerNo(h) ==
  /\ handler[h].step = "serverNo"
  /\ LET serverNo == handler[h].msg.from
     IN IF sessions_ServerNo[serverNo] # NoHandle
          THEN /\ Disconnect(h) /\ Return(h)
               /\ UNCHANGED <<sessions_ServerNo, Clients, accepted>>
          ELSE /\ sessions_ServerNo' = [sessions_ServerNo EXCEPT ![serverNo] = h]
               /\ Clients' = Clients \cup {<<h, serverNo>>}
               /\ accepted' = accepted \cup {h}
               /\ To(h, "insert")
               /\ UNCHANGED requestDisconnect
  /\ UNCHANGED <<net, cut, joined, waiting, monitors, clients_sessionHandle, clientContentQueue, content>>

LoginInsert(h) ==
  /\ handler[h].step = "insert"
  /\ clients_sessionHandle' = clients_sessionHandle \cup {h}
  /\ Return(h)
  /\ UNCHANGED <<net, cut, joined, requestDisconnect, waiting, monitors, sessions_ServerNo, Clients,
                 clientContentQueue, content, accepted>>

\* en_PACKET_SS_MONITOR_DATA_UPDATE: the Client is found, its lock released;
\* then the server number must be the session's.
DataFind(h) ==
  /\ handler[h].step = "data"
  /\ IF h \in clients_sessionHandle
       THEN To(h, "check") /\ UNCHANGED requestDisconnect
       ELSE Disconnect(h) /\ Return(h)
  /\ UNCHANGED <<net, cut, joined, registry, content, accepted>>

DataCheck(h) ==
  /\ handler[h].step = "check"
  /\ IF \E c \in Clients : c[1] = h /\ sessions_ServerNo[c[2]] = h
       THEN To(h, "sample") /\ UNCHANGED requestDisconnect
       ELSE Disconnect(h) /\ Return(h)
  /\ UNCHANGED <<net, cut, joined, registry, content, accepted>>

\* The measurement goes to the monitors and into the Client's sampleQueue.
DataSample(h) ==
  /\ handler[h].step = "sample"
  /\ Return(h)
  /\ UNCHANGED <<net, cut, joined, requestDisconnect, registry, content, accepted>>

\* en_PACKET_CS_MONITOR_TOOL_REQ_LOGIN: the number of monitors is read without
\* their lock, before the new one is inserted under it.
ToolKey(h) ==
  /\ handler[h].step = "key"
  /\ \/ Cardinality(monitors) <= MaxTools /\ To(h, "monitor") /\ UNCHANGED requestDisconnect
     \/ Disconnect(h) /\ Return(h)
  /\ UNCHANGED <<net, cut, joined, registry, content, accepted>>

ToolInsert(h) ==
  /\ handler[h].step = "monitor"
  /\ monitors' = monitors \cup {h}
  /\ Return(h)
  /\ UNCHANGED <<net, cut, joined, requestDisconnect, waiting, clients_sessionHandle,
                 sessions_ServerNo, Clients, clientContentQueue, content, accepted>>

-----------------------------------------------------------------------------
\* The session has been released: the connection is closed, OnClientLeave begins.
SessionEnds(h) ==
  /\ h \in joined /\ handler[h] = Nothing /\ h \in requestDisconnect \cup cut
  /\ To(h, "leave")
  /\ cut' = cut \cup {h}
  /\ net' = [net EXCEPT ![h] = <<>>]
  /\ UNCHANGED <<joined, requestDisconnect, registry, content, accepted>>

OnClientLeave(h) ==
  /\ handler[h].step = "leave"
  /\ waiting' = waiting \ {h}
  /\ To(h, "leaveMonitors")
  /\ UNCHANGED <<net, cut, joined, requestDisconnect, monitors, clients_sessionHandle,
                 sessions_ServerNo, Clients, clientContentQueue, content, accepted>>

\* Faulty variant: the Client is taken out at once, its number later.
LeaveMonitorsAndClients(h) ==
  /\ handler[h].step = "leaveMonitors"
  /\ monitors' = monitors \ {h}
  /\ clients_sessionHandle' = clients_sessionHandle \ {h}
  /\ clientContentQueue' = IF h \in monitors THEN clientContentQueue ELSE Append(clientContentQueue, h)
  /\ joined' = joined \ {h}
  /\ Return(h)
  /\ UNCHANGED <<net, cut, requestDisconnect, waiting, sessions_ServerNo, Clients, content, accepted>>

\* A monitor is removed here; any other session by a LEAVE message.
LeaveMonitors(h) ==
  /\ handler[h].step = "leaveMonitors"
  /\ monitors' = monitors \ {h}
  /\ clientContentQueue' = IF h \in monitors THEN clientContentQueue ELSE Append(clientContentQueue, h)
  /\ joined' = joined \ {h}
  /\ Return(h)
  /\ UNCHANGED <<net, cut, requestDisconnect, waiting, clients_sessionHandle, sessions_ServerNo,
                 Clients, content, accepted>>

-----------------------------------------------------------------------------
\* ClientContentThread: Login_Timeout, then its messages, once a second.

ContentTo(step, h, n) == content' = [step |-> step, handle |-> h, serverNo |-> n]

\* A session that waited too long is noted under the lock ...
TimeoutFound(h) ==
  /\ content.step = "timeout" /\ h \in waiting
  /\ ContentTo("disconnect", h, 0)
  /\ UNCHANGED <<net, cut, joined, requestDisconnect, handler, registry, accepted>>

NoTimeout ==
  /\ content.step = "timeout" /\ clientContentQueue # <<>>
  /\ ContentTo("drain", NoHandle, 0)
  /\ UNCHANGED <<net, cut, joined, requestDisconnect, handler, registry, accepted>>

\* ... and disconnected after it.
TimeoutDisconnect ==
  /\ content.step = "disconnect"
  /\ Disconnect(content.handle)
  /\ ContentTo("drain", NoHandle, 0)
  /\ UNCHANGED <<net, cut, joined, handler, registry, accepted>>

\* Faulty variant: the number of the LEAVE is freed whoever has it.
HandleLeaveByNumber ==
  /\ content.step = "drain" /\ clientContentQueue # <<>>
  /\ LET h == Head(clientContentQueue)
     IN \E s \in Servers :
          /\ clients_sessionHandle' = clients_sessionHandle \ {h}
          /\ ContentTo("erase", h, s)
  /\ clientContentQueue' = Tail(clientContentQueue)
  /\ UNCHANGED <<net, cut, joined, requestDisconnect, handler, waiting, monitors, sessions_ServerNo,
                 Clients, accepted>>

\* LEAVE: the Client is taken out of the map, if the session had one ...
HandleLeave ==
  /\ content.step = "drain" /\ clientContentQueue # <<>>
  /\ LET h == Head(clientContentQueue)
     IN IF h \in clients_sessionHandle
          THEN /\ clients_sessionHandle' = clients_sessionHandle \ {h}
               /\ \E c \in Clients : c[1] = h /\ ContentTo("erase", h, c[2])
          ELSE UNCHANGED <<clients_sessionHandle, content>>
  /\ clientContentQueue' = Tail(clientContentQueue)
  /\ UNCHANGED <<net, cut, joined, requestDisconnect, handler, waiting, monitors, sessions_ServerNo,
                 Clients, accepted>>

\* ... then its number is freed and the Client deleted.
EraseServerNo ==
  /\ content.step = "erase"
  /\ sessions_ServerNo' = [sessions_ServerNo EXCEPT ![content.serverNo] = NoHandle]
  /\ Clients' = {c \in Clients : c[1] # content.handle}
  /\ ContentTo("drain", NoHandle, 0)
  /\ UNCHANGED <<net, cut, joined, requestDisconnect, handler, waiting, monitors,
                 clients_sessionHandle, clientContentQueue, accepted>>

\* The samples are added up, and the thread sleeps.
Drained ==
  /\ content.step = "drain" /\ clientContentQueue = <<>>
  /\ content' = Waking
  /\ UNCHANGED <<net, cut, joined, requestDisconnect, handler, registry, accepted>>

-----------------------------------------------------------------------------
Handler(h) == OnRecv(h) \/ LeaveWaiting(h) \/ LoginServerNo(h) \/ LoginInsert(h) \/ DataFind(h)
                \/ DataCheck(h) \/ DataSample(h) \/ ToolKey(h) \/ ToolInsert(h)
                \/ SessionEnds(h) \/ OnClientLeave(h) \/ LeaveMonitors(h)

ContentStep == NoTimeout \/ TimeoutDisconnect \/ HandleLeave \/ EraseServerNo \/ Drained

\* What the server still knows of a connection.
Remembered ==
  joined \cup waiting \cup monitors \cup clients_sessionHandle \cup {c[1] : c \in Clients}
    \cup {sessions_ServerNo[s] : s \in Servers} \cup {content.handle}
    \cup {clientContentQueue[i] : i \in DOMAIN clientContentQueue}
=============================================================================
