---------------------------- MODULE MonitorFlow ----------------------------
(***************************************************************************)
(* The reporting servers' clients and the monitor server together: login,  *)
(* measurements, refused and broken connections, and connecting again.     *)
(*                                                                         *)
(* Handles are never used twice by the code (48 bits); here one is given   *)
(* out again when neither side remembers it.                               *)
(***************************************************************************)
EXTENDS MonitorClient, MonitorServer

CONSTANTS MaxToolLogins, MaxFaults

ASSUME FlowAssumption == MaxToolLogins \in Nat /\ MaxFaults \in Nat

VARIABLES toolLogins, faults

vars == <<wires, clientVars, serverVars, toolLogins, faults>>

Init == NetInit /\ ClientInit /\ ServerInit /\ toolLogins = 0 /\ faults = 0

Unused ==
  Handles \ (Remembered \cup {sender[s].handle : s \in Servers}
               \cup {link[s] : s \in {r \in Servers : at[r] # "connecting"}})

\* connect, accepted by the monitor server.
Connect(s) ==
  \E h \in Unused :
    /\ \A g \in Unused : h <= g
    /\ TcpConnect(s, h) /\ OnClientJoin(h)
    /\ UNCHANGED <<toolLogins, faults>>

\* A monitor tool connects and asks to log in.
ToolConnect ==
  \E h \in Unused :
    /\ \A g \in Unused : h <= g
    /\ toolLogins < MaxToolLogins /\ toolLogins' = toolLogins + 1
    /\ net' = [net EXCEPT ![h] = <<[type |-> "tool", from |-> 0]>>] /\ cut' = cut \ {h}
    /\ OnClientJoin(h)
    /\ UNCHANGED <<clientVars, faults>>

\* A connection breaks, or its peer closes it.
Break ==
  /\ faults < MaxFaults /\ faults' = faults + 1
  /\ \E h \in joined \ cut : cut' = cut \cup {h}
  /\ UNCHANGED <<net, clientVars, serverVars, toolLogins>>

\* A login takes longer than LOGIN_TIME_OUT.
LateLogin ==
  /\ faults < MaxFaults /\ faults' = faults + 1
  /\ \E h \in Handles : TimeoutFound(h)
  /\ UNCHANGED <<clientVars, toolLogins>>

Client(s) == (ClientStep(s) /\ UNCHANGED <<serverVars, toolLogins, faults>>) \/ Connect(s)
Server == ((\E h \in Handles : Handler(h)) \/ ContentStep) /\ UNCHANGED <<clientVars, toolLogins, faults>>

Next == (\E s \in Servers : Client(s)) \/ Server \/ ToolConnect \/ Break \/ LateLogin

Spec == Init /\ [][Next]_vars

\* The threads of both sides run: a server's connecting worker, its other
\* workers, its main thread once in SendPacket, the workers of the monitor
\* server for every session, and ClientContentThread.
FairSpec ==
  /\ Spec
  /\ \A s \in Servers :
       /\ WF_vars((Connecting(s) /\ UNCHANGED <<serverVars, toolLogins, faults>>) \/ Connect(s))
       /\ WF_vars(Completions(s) /\ UNCHANGED <<serverVars, toolLogins, faults>>)
       /\ WF_vars(Sending(s) /\ UNCHANGED <<serverVars, toolLogins, faults>>)
  /\ \A h \in Handles : WF_vars(Handler(h) /\ UNCHANGED <<clientVars, toolLogins, faults>>)
  /\ WF_vars(ContentStep /\ UNCHANGED <<clientVars, toolLogins, faults>>)

-----------------------------------------------------------------------------
\* MonitorServer/main.cpp:274-277, 294-345: a handler works with the Client
\* outside of the lock it found it under; the object must still exist.
NoFreedClient ==
  \A h \in Handles : handler[h].step \in {"insert", "check", "sample"} => \E s \in Servers : <<h, s>> \in Clients

\* MonitorServer/main.cpp:92-121, 447-467: what the maps hold belongs to a
\* session that is still connected, or has its LEAVE to come.
NothingOutlivesLeave ==
  /\ waiting \cup monitors \subseteq joined
  /\ LET left == {clientContentQueue[i] : i \in DOMAIN clientContentQueue}
     IN /\ clients_sessionHandle \subseteq joined \cup left
        /\ \A s \in Servers :
             \/ sessions_ServerNo[s] \in joined \cup left \cup {NoHandle}
             \/ content.step = "erase" /\ content.handle = sessions_ServerNo[s]

\* MonitorServer/main.cpp:282-329, 447-467: a number is freed by its own
\* session's LEAVE only, so that no measurement is refused of a session whose
\* login was accepted.
AcceptedIsServed ==
  [][\A h \in accepted : handler[h].step \in {"data", "check"} => handler'[h] # Nothing]_vars

Registered(s) == sessions_ServerNo[s] # NoHandle /\ sessions_ServerNo[s] = link[s] /\ ~released[s]
                   /\ link[s] \in clients_sessionHandle /\ link[s] \notin cut

\* A send went out before the socket had its completion port (NetLib_Client.cpp:365-366).
Orphaned(s) == flight[s] = "lost"

\* NetLib_Client.cpp:153-158, MonitorClient.h:27-36, MonitorServer/main.cpp:260-267:
\* after the last failure every server is registered in the end, although a
\* login that is quicker than the LEAVE of its predecessor is refused; unless
\* a send was lost to the completion port while it connected.
FinallyRegistered == \A s \in Servers : <>[](Registered(s) \/ Orphaned(s))
=============================================================================
