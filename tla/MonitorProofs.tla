--------------------------- MODULE MonitorProofs ---------------------------
(***************************************************************************)
(* The safety properties of MonitorFlow hold for any sets of reporting     *)
(* servers and connections and any bounds: no Client is used after it was  *)
(* deleted, nothing outlives its session, and a number whose login was     *)
(* accepted stays its session's until that leaves.                         *)
(***************************************************************************)
EXTENDS MonitorFlow, TLAPS

Steps == {"idle", "login", "data", "tool", "serverNo", "insert", "check", "sample", "key", "monitor",
          "leave", "leaveMonitors"}
Messages == [type : {"login", "data"}, from : Servers] \cup [type : {"tool"}, from : {0}]
Msgs == Messages \cup {Nothing.msg}

\* The messages on their way, from the clients' queues to the handlers.
WiresTyped ==
  /\ net \in [Handles -> Seq(Messages)]
  /\ m_sendBuffer \in [Servers -> Seq(Messages)]

ServerTyped ==
  /\ joined \subseteq Handles
  /\ handler \in [Handles -> [step : Steps, msg : Msgs]]
  /\ \A h \in Handles : handler[h].step \in {"login", "serverNo"} => handler[h].msg.from \in Servers
  /\ clients_sessionHandle \subseteq Handles
  /\ sessions_ServerNo \in [Servers -> Handles \cup {NoHandle}]
  /\ Clients \subseteq Handles \X Servers
  /\ clientContentQueue \in Seq(Handles)
  /\ accepted \subseteq Handles

HasClient(h) == \E s \in Servers : <<h, s>> \in Clients
Left == {clientContentQueue[i] : i \in DOMAIN clientContentQueue}
Erasing(h) == content.step = "erase" /\ content.handle = h

\* Only a connected session has a handler at work.
HandlersJoined ==
  \A h \in Handles : handler[h] = Nothing \/ (handler[h].step # "idle" /\ h \in joined)

\* sessions_ServerNo and the Client objects are one relation; a session has at
\* most one number.
ClientsExact ==
  /\ \A h \in Handles, s \in Servers : <<h, s>> \in Clients <=> sessions_ServerNo[s] = h
  /\ \A s, t \in Servers : sessions_ServerNo[s] = sessions_ServerNo[t] => s = t \/ sessions_ServerNo[s] = NoHandle

\* A session logs in once, as a server or as a tool.
Stage(h) ==
  /\ h \in waiting \cup monitors \/ handler[h].step \in {"serverNo", "key", "monitor"} => ~HasClient(h)
  /\ h \in monitors \/ handler[h].step \in {"serverNo", "key", "monitor", "insert", "leaveMonitors"}
       => h \notin waiting
  /\ handler[h].step \in {"serverNo", "insert"} => h \notin monitors
  /\ handler[h].step \in {"insert", "check", "sample"} => HasClient(h)

LoginStages == waiting \cup monitors \subseteq joined /\ \A h \in Handles : Stage(h)

\* A Client is in the map except while it is inserted or deleted; it belongs to
\* a connected session, or to one whose LEAVE is queued or being handled.
ClientsAccounted ==
  /\ Left \cap joined = {}
  /\ content.step = "erase" => /\ <<content.handle, content.serverNo>> \in Clients
                               /\ content.handle \notin joined
  /\ \A h \in Handles :
       /\ h \in clients_sessionHandle => HasClient(h) /\ ~Erasing(h)
       /\ HasClient(h) => h \in clients_sessionHandle \/ handler[h].step = "insert" \/ Erasing(h)
       /\ HasClient(h) => h \in joined \cup Left \/ Erasing(h)

AcceptedHasClient ==
  \A h \in accepted \cap joined : h \in clients_sessionHandle \/ handler[h].step = "insert"

Registry == ServerTyped /\ HandlersJoined /\ ClientsExact /\ LoginStages /\ ClientsAccounted
              /\ AcceptedHasClient

IInv == WiresTyped /\ Registry

LEMMA HandlesNat == Handles \subseteq Nat \ {0}
BY NetAssumption

-----------------------------------------------------------------------------
(* What a step of one handler, or of the content thread, leaves alone.     *)

\* A handler of h that touches neither the Clients nor the map keeps the
\* invariant if h itself is at a place it may be at.
LEMMA WorkerMoves ==
  ASSUME Registry, NEW h \in Handles,
         UNCHANGED <<joined, clients_sessionHandle, sessions_ServerNo, Clients, clientContentQueue,
                     content, accepted>>,
         handler' \in [Handles -> [step : Steps, msg : Msgs]],
         \A g \in Handles \ {h} : handler'[g] = handler[g],
         handler'[h] = Nothing \/ (handler'[h].step # "idle" /\ h \in joined),
         handler'[h].step \in {"login", "serverNo"} => handler'[h].msg.from \in Servers,
         handler[h].step # "insert",
         waiting' \subseteq waiting, monitors' \subseteq monitors \cup {h},
         monitors' \subseteq joined, monitors \ {h} \subseteq monitors',
         Stage(h)'
  PROVE  Registry'
<1>1. /\ \A g \in Handles : HasClient(g)' <=> HasClient(g)
      /\ \A g \in Handles : Erasing(g)' <=> Erasing(g)
      /\ Left' = Left
  BY DEF HasClient, Erasing, Left
<1>2. ServerTyped'
  BY DEF Registry, ServerTyped
<1>3. HandlersJoined'
  BY DEF Registry, HandlersJoined
<1>4. ClientsExact'
  BY DEF Registry, ClientsExact
<1>5. LoginStages'
  <2>1. ASSUME NEW g \in Handles \ {h}
        PROVE  Stage(g)'
    <3>1. Stage(g)
      BY DEF Registry, LoginStages
    <3>2. g \in waiting' => g \in waiting
      OBVIOUS
    <3>3. g \in monitors' => g \in monitors
      OBVIOUS
    <3>. QED  BY <1>1, <3>1, <3>2, <3>3 DEF Stage
  <2>2. \A g \in Handles : Stage(g)'
    BY <2>1
  <2>. QED  BY <2>2 DEF Registry, LoginStages
<1>6. ClientsAccounted'
  BY <1>1 DEF Registry, ClientsAccounted
<1>7. AcceptedHasClient'
  BY DEF Registry, AcceptedHasClient, ServerTyped
<1>. QED  BY <1>2, <1>3, <1>4, <1>5, <1>6, <1>7 DEF Registry

\* The content thread between two of its LEAVE messages changes nothing.
LEMMA ContentMoves ==
  ASSUME Registry, UNCHANGED <<joined, handler, registry, accepted>>,
         content.step # "erase", content'.step # "erase"
  PROVE  Registry'
<1>0. UNCHANGED <<waiting, monitors, clients_sessionHandle, sessions_ServerNo, Clients, clientContentQueue>>
  BY DEF registry
<1>1. /\ \A g \in Handles : HasClient(g)' <=> HasClient(g)
      /\ \A g \in Handles : ~Erasing(g)' /\ ~Erasing(g)
      /\ Left' = Left
  BY <1>0 DEF HasClient, Erasing, Left
<1>2. ServerTyped' /\ HandlersJoined' /\ ClientsExact' /\ AcceptedHasClient'
  BY <1>0 DEF Registry, ServerTyped, HandlersJoined, ClientsExact, AcceptedHasClient
<1>3. LoginStages'
  BY <1>0, <1>1 DEF Registry, LoginStages, Stage
<1>4. ClientsAccounted'
  BY <1>0, <1>1 DEF Registry, ClientsAccounted
<1>. QED  BY <1>2, <1>3, <1>4 DEF Registry

\* A step of the worker of h: its place changes, or it returns.
LEMMA Placed ==
  ASSUME ServerTyped, NEW h \in Handles, NEW step \in Steps, To(h, step)
  PROVE  /\ handler' \in [Handles -> [step : Steps, msg : Msgs]]
         /\ \A g \in Handles \ {h} : handler'[g] = handler[g]
         /\ handler'[h].step = step /\ handler'[h].msg = handler[h].msg
BY DEF ServerTyped, To

LEMMA Returned ==
  ASSUME ServerTyped, NEW h \in Handles, Return(h)
  PROVE  /\ handler' \in [Handles -> [step : Steps, msg : Msgs]]
         /\ \A g \in Handles \ {h} : handler'[g] = handler[g]
         /\ handler'[h] = Nothing /\ handler'[h].step = "idle"
BY DEF ServerTyped, Return, Nothing, Steps, Msgs

LEMMA Busy ==
  ASSUME Registry, NEW h \in Handles, handler[h].step # "idle"
  PROVE  h \in joined
BY DEF Registry, HandlersJoined, Nothing

-----------------------------------------------------------------------------
(* The workers of MonitorServer.                                           *)

LEMMA OnRecvStep ==
  ASSUME IInv, NEW h \in Handles, OnRecv(h)
  PROVE  Registry'
<1>1. /\ UNCHANGED <<joined, waiting, monitors, clients_sessionHandle, sessions_ServerNo, Clients,
                     clientContentQueue, content, accepted>>
      /\ handler[h] = Nothing /\ h \in joined
  BY DEF OnRecv, registry
<1>2. net[h] \in Seq(Messages) /\ net[h] # <<>> /\ Head(net[h]) \in Messages
  BY DEF IInv, WiresTyped, OnRecv
<1>3. /\ Head(net[h]).type \in {"login", "data", "tool"}
      /\ Head(net[h]).type = "login" => Head(net[h]).from \in Servers
  BY <1>2 DEF Messages
<1>4. /\ handler' \in [Handles -> [step : Steps, msg : Msgs]]
      /\ \A g \in Handles \ {h} : handler'[g] = handler[g]
      /\ handler'[h].step \in {"login", "data", "tool"}
      /\ handler'[h].step = "login" => handler'[h].msg.from \in Servers
  <2>1. handler \in [Handles -> [step : Steps, msg : Msgs]]
    BY DEF IInv, Registry, ServerTyped
  <2>2. handler' = [handler EXCEPT ![h] = [step |-> Head(net[h]).type, msg |-> Head(net[h])]]
    BY DEF OnRecv
  <2>. QED  BY <1>2, <1>3, <2>1, <2>2 DEF Steps, Msgs
<1>5. HasClient(h)' <=> HasClient(h)
  BY <1>1 DEF HasClient
<1>6. Stage(h)'
  BY <1>1, <1>4, <1>5 DEF IInv, Registry, LoginStages, Stage
<1>7. handler[h].step # "insert" /\ monitors \subseteq joined
  BY <1>1 DEF Nothing, IInv, Registry, LoginStages
<1>. QED  BY <1>1, <1>4, <1>6, <1>7, WorkerMoves DEF IInv

\* A handler goes on to its next step.
LEMMA GoesOn ==
  ASSUME Registry, NEW h \in Handles, NEW step \in Steps \ {"idle", "login", "insert"},
         To(h, step), handler[h].step \notin {"idle", "insert"},
         UNCHANGED <<joined, monitors, clients_sessionHandle, sessions_ServerNo, Clients,
                     clientContentQueue, content, accepted>>,
         waiting' \subseteq waiting,
         step = "serverNo" => handler[h].msg.from \in Servers /\ h \notin monitors,
         step \in {"serverNo", "key", "monitor"} => ~HasClient(h),
         step \in {"serverNo", "key", "monitor", "leaveMonitors"} => h \notin waiting',
         step \in {"check", "sample"} => HasClient(h)
  PROVE  Registry'
<1>1. /\ handler' \in [Handles -> [step : Steps, msg : Msgs]]
      /\ \A g \in Handles \ {h} : handler'[g] = handler[g]
      /\ handler'[h].step = step /\ handler'[h].msg = handler[h].msg
  BY Placed DEF Registry
<1>2. HasClient(h)' <=> HasClient(h)
  BY DEF HasClient
<1>3. Stage(h)'
  BY <1>1, <1>2 DEF Registry, LoginStages, Stage
<1>4. h \in joined /\ monitors \subseteq joined
  BY Busy DEF Registry, LoginStages
<1>. QED  BY <1>1, <1>3, <1>4, WorkerMoves

\* A handler returns.
LEMMA Returns ==
  ASSUME Registry, NEW h \in Handles, Return(h), handler[h].step # "insert",
         UNCHANGED <<joined, monitors, clients_sessionHandle, sessions_ServerNo, Clients,
                     clientContentQueue, content, accepted>>,
         waiting' \subseteq waiting
  PROVE  Registry'
<1>1. /\ handler' \in [Handles -> [step : Steps, msg : Msgs]]
      /\ \A g \in Handles \ {h} : handler'[g] = handler[g]
      /\ handler'[h] = Nothing /\ handler'[h].step = "idle"
  BY Returned DEF Registry
<1>2. HasClient(h)' <=> HasClient(h)
  BY DEF HasClient
<1>3. Stage(h)'
  BY <1>1, <1>2 DEF Registry, LoginStages, Stage
<1>4. monitors \subseteq joined
  BY DEF Registry, LoginStages
<1>. QED  BY <1>1, <1>3, <1>4, WorkerMoves

LEMMA LeaveWaitingStep ==
  ASSUME Registry, NEW h \in Handles, LeaveWaiting(h)
  PROVE  Registry'
<1>1. /\ UNCHANGED <<joined, monitors, clients_sessionHandle, sessions_ServerNo, Clients,
                     clientContentQueue, content, accepted>>
      /\ waiting' = waiting \ {h} /\ handler[h].step \in {"login", "tool"}
  BY DEF LeaveWaiting
<1>2. CASE h \notin waiting
  BY <1>1, <1>2, Returns DEF LeaveWaiting
<1>3. CASE h \in waiting
  <2>1. ~HasClient(h) /\ h \notin monitors
    BY <1>3 DEF Registry, LoginStages, Stage
  <2>2. CASE handler[h].step = "login"
    <3>1. To(h, "serverNo") /\ handler[h].msg.from \in Servers
      BY <1>3, <2>2 DEF LeaveWaiting, Registry, ServerTyped
    <3>. QED  BY <1>1, <2>1, <2>2, <3>1, GoesOn DEF Steps
  <2>3. CASE handler[h].step = "tool"
    <3>1. To(h, "key")
      BY <1>3, <2>3 DEF LeaveWaiting
    <3>. QED  BY <1>1, <2>1, <2>3, <3>1, GoesOn DEF Steps
  <2>. QED  BY <1>1, <2>2, <2>3
<1>. QED  BY <1>2, <1>3

LEMMA DataStep ==
  ASSUME Registry, NEW h \in Handles, DataFind(h) \/ DataCheck(h) \/ DataSample(h)
  PROVE  Registry'
<1>1. /\ UNCHANGED <<joined, waiting, monitors, clients_sessionHandle, sessions_ServerNo, Clients,
                     clientContentQueue, content, accepted>>
      /\ handler[h].step \in {"data", "check", "sample"}
  BY DEF DataFind, DataCheck, DataSample, registry
<1>2. CASE Return(h)
  BY <1>1, <1>2, Returns
<1>3. CASE DataFind(h) /\ To(h, "check") /\ h \in clients_sessionHandle
  <2>1. HasClient(h)
    BY <1>3 DEF Registry, ClientsAccounted
  <2>. QED  BY <1>1, <1>3, <2>1, GoesOn DEF Steps
<1>4. CASE DataCheck(h) /\ To(h, "sample")
  <2>1. HasClient(h)
    BY <1>4 DEF DataCheck, Registry, LoginStages, Stage
  <2>. QED  BY <1>1, <1>4, <2>1, GoesOn DEF Steps
<1>. QED  BY <1>2, <1>3, <1>4 DEF DataFind, DataCheck, DataSample

LEMMA ToolKeyStep ==
  ASSUME Registry, NEW h \in Handles, ToolKey(h)
  PROVE  Registry'
<1>1. /\ UNCHANGED <<joined, waiting, monitors, clients_sessionHandle, sessions_ServerNo, Clients,
                     clientContentQueue, content, accepted>>
      /\ handler[h].step = "key"
  BY DEF ToolKey, registry
<1>2. ~HasClient(h) /\ h \notin waiting
  BY <1>1 DEF Registry, LoginStages, Stage
<1>3. CASE Return(h)
  BY <1>1, <1>3, Returns
<1>4. CASE To(h, "monitor")
  BY <1>1, <1>2, <1>4, GoesOn DEF Steps
<1>. QED  BY <1>3, <1>4 DEF ToolKey

LEMMA ToolInsertStep ==
  ASSUME Registry, NEW h \in Handles, ToolInsert(h)
  PROVE  Registry'
<1>1. /\ UNCHANGED <<joined, waiting, clients_sessionHandle, sessions_ServerNo, Clients,
                     clientContentQueue, content, accepted>>
      /\ handler[h].step = "monitor" /\ monitors' = monitors \cup {h} /\ Return(h)
  BY DEF ToolInsert
<1>2. ~HasClient(h) /\ h \notin waiting /\ h \in joined /\ monitors \subseteq joined
  BY <1>1, Busy DEF Registry, LoginStages, Stage
<1>3. /\ handler' \in [Handles -> [step : Steps, msg : Msgs]]
      /\ \A g \in Handles \ {h} : handler'[g] = handler[g]
      /\ handler'[h] = Nothing /\ handler'[h].step = "idle"
  BY <1>1, Returned DEF Registry
<1>4. HasClient(h)' <=> HasClient(h)
  BY <1>1 DEF HasClient
<1>5. Stage(h)'
  BY <1>1, <1>2, <1>3, <1>4 DEF Stage
<1>. QED  BY <1>1, <1>2, <1>3, <1>5, WorkerMoves

LEMMA SessionEndsStep ==
  ASSUME Registry, NEW h \in Handles, SessionEnds(h)
  PROVE  Registry'
<1>1. /\ UNCHANGED <<joined, waiting, monitors, clients_sessionHandle, sessions_ServerNo, Clients,
                     clientContentQueue, content, accepted>>
      /\ handler[h] = Nothing /\ h \in joined /\ To(h, "leave")
  BY DEF SessionEnds, registry
<1>2. /\ handler' \in [Handles -> [step : Steps, msg : Msgs]]
      /\ \A g \in Handles \ {h} : handler'[g] = handler[g]
      /\ handler'[h].step = "leave"
  BY <1>1, Placed DEF Registry, Steps
<1>3. HasClient(h)' <=> HasClient(h)
  BY <1>1 DEF HasClient
<1>4. Stage(h)'
  BY <1>1, <1>2, <1>3 DEF Registry, LoginStages, Stage
<1>5. handler[h].step # "insert" /\ monitors \subseteq joined
  BY <1>1 DEF Nothing, Registry, LoginStages
<1>. QED  BY <1>1, <1>2, <1>4, <1>5, WorkerMoves

LEMMA OnClientLeaveStep ==
  ASSUME Registry, NEW h \in Handles, OnClientLeave(h)
  PROVE  Registry'
<1>1. /\ UNCHANGED <<joined, monitors, clients_sessionHandle, sessions_ServerNo, Clients,
                     clientContentQueue, content, accepted>>
      /\ waiting' = waiting \ {h} /\ handler[h].step = "leave" /\ To(h, "leaveMonitors")
  BY DEF OnClientLeave
<1>. QED  BY <1>1, GoesOn DEF Steps
\* A login is accepted: the number and the Client come at once, the entry of
\* the map in LoginInsert.
LEMMA LoginServerNoStep ==
  ASSUME Registry, NEW h \in Handles, LoginServerNo(h)
  PROVE  Registry'
<1>. DEFINE n == handler[h].msg.from
<1>1. /\ UNCHANGED <<joined, waiting, monitors, clients_sessionHandle, clientContentQueue, content>>
      /\ handler[h].step = "serverNo"
  BY DEF LoginServerNo
<1>2. CASE sessions_ServerNo[n] # NoHandle
  BY <1>1, <1>2, Returns DEF LoginServerNo
<1>3. CASE sessions_ServerNo[n] = NoHandle
  <2>1. /\ n \in Servers /\ h # NoHandle /\ h \in joined
        /\ ~HasClient(h) /\ h \notin waiting /\ h \notin monitors
    BY <1>1, Busy, HandlesNat DEF Registry, ServerTyped, LoginStages, Stage, NoHandle
  <2>2. /\ sessions_ServerNo' = [sessions_ServerNo EXCEPT ![n] = h]
        /\ Clients' = Clients \cup {<<h, n>>}
        /\ accepted' = accepted \cup {h} /\ To(h, "insert")
    BY <1>3 DEF LoginServerNo
  <2>3. /\ handler' \in [Handles -> [step : Steps, msg : Msgs]]
        /\ \A g \in Handles \ {h} : handler'[g] = handler[g]
        /\ handler'[h].step = "insert"
    BY <2>2, Placed DEF Registry, Steps
  <2>4. /\ \A g \in Handles : HasClient(g)' <=> HasClient(g) \/ g = h
        /\ \A g \in Handles : Erasing(g)' <=> Erasing(g)
        /\ Left' = Left
    BY <1>1, <2>1, <2>2 DEF HasClient, Erasing, Left
  <2>5. sessions_ServerNo \in [Servers -> Handles \cup {NoHandle}] /\ Clients \subseteq Handles \X Servers
    BY DEF Registry, ServerTyped
  <2>6. \A s \in Servers : sessions_ServerNo'[s] = IF s = n THEN h ELSE sessions_ServerNo[s]
    BY <2>1, <2>2, <2>5
  <2>7. \A s \in Servers : sessions_ServerNo[s] # h
    BY <2>1, <2>5 DEF Registry, ClientsExact, HasClient
  <2>8. ServerTyped'
    BY <1>1, <2>1, <2>2, <2>3, <2>5 DEF Registry, ServerTyped
  <2>9. HandlersJoined'
    BY <1>1, <2>1, <2>3 DEF Registry, HandlersJoined
  <2>10. ClientsExact'
    <3>1. \A g \in Handles, s \in Servers : <<g, s>> \in Clients' <=> sessions_ServerNo'[s] = g
      <4>1. \A g \in Handles, s \in Servers : <<g, s>> \in Clients' <=> <<g, s>> \in Clients \/ (g = h /\ s = n)
        BY <2>2
      <4>2. \A g \in Handles, s \in Servers : <<g, s>> \in Clients <=> sessions_ServerNo[s] = g
        BY DEF Registry, ClientsExact
      <4>3. \A g \in Handles : sessions_ServerNo[n] # g
        BY <1>3, HandlesNat DEF NoHandle
      <4>. QED  BY <2>1, <2>6, <2>7, <4>1, <4>2, <4>3
    <3>. QED  BY <2>1, <2>6, <2>7, <3>1 DEF Registry, ClientsExact
  <2>11. LoginStages'
    BY <1>1, <2>1, <2>3, <2>4 DEF Registry, LoginStages, Stage
  <2>12. ClientsAccounted'
    BY <1>1, <2>1, <2>2, <2>3, <2>4 DEF Registry, ClientsAccounted
  <2>13. AcceptedHasClient'
    BY <1>1, <2>1, <2>2, <2>3, <2>8 DEF Registry, AcceptedHasClient, ServerTyped
  <2>. QED  BY <2>8, <2>9, <2>10, <2>11, <2>12, <2>13 DEF Registry
<1>. QED  BY <1>2, <1>3

LEMMA LoginInsertStep ==
  ASSUME Registry, NEW h \in Handles, LoginInsert(h)
  PROVE  Registry'
<1>1. /\ UNCHANGED <<joined, waiting, monitors, sessions_ServerNo, Clients, clientContentQueue, content,
                     accepted>>
      /\ handler[h].step = "insert" /\ Return(h)
      /\ clients_sessionHandle' = clients_sessionHandle \cup {h}
  BY DEF LoginInsert
<1>2. HasClient(h) /\ h \in joined
  BY <1>1, Busy DEF Registry, LoginStages, Stage
<1>3. /\ handler' \in [Handles -> [step : Steps, msg : Msgs]]
      /\ \A g \in Handles \ {h} : handler'[g] = handler[g]
      /\ handler'[h] = Nothing /\ handler'[h].step = "idle"
  BY <1>1, Returned DEF Registry
<1>4. /\ \A g \in Handles : HasClient(g)' <=> HasClient(g)
      /\ \A g \in Handles : Erasing(g)' <=> Erasing(g)
      /\ Left' = Left
  BY <1>1 DEF HasClient, Erasing, Left
<1>5. ServerTyped'
  BY <1>1, <1>3 DEF Registry, ServerTyped
<1>6. HandlersJoined' /\ ClientsExact'
  BY <1>1, <1>3 DEF Registry, HandlersJoined, ClientsExact
<1>7. LoginStages'
  BY <1>1, <1>3, <1>4 DEF Registry, LoginStages, Stage
<1>8. ClientsAccounted'
  <2>1. ~Erasing(h)
    BY <1>2 DEF Registry, ClientsAccounted, Erasing
  <2>. QED  BY <1>1, <1>2, <1>3, <1>4, <2>1 DEF Registry, ClientsAccounted
<1>9. AcceptedHasClient'
  BY <1>1, <1>3, <1>5 DEF Registry, AcceptedHasClient, ServerTyped
<1>. QED  BY <1>5, <1>6, <1>7, <1>8, <1>9 DEF Registry

\* What a queue holds after one more was put in.
LEMMA AfterAppend ==
  ASSUME NEW q \in Seq(Handles), NEW h \in Handles
  PROVE  /\ Append(q, h) \in Seq(Handles)
         /\ {Append(q, h)[i] : i \in DOMAIN Append(q, h)} = {q[i] : i \in DOMAIN q} \cup {h}
<1>1. Len(q) \in Nat /\ DOMAIN q = 1..Len(q) /\ DOMAIN Append(q, h) = 1..(Len(q) + 1)
  OBVIOUS
<1>2. /\ \A i \in 1..Len(q) : Append(q, h)[i] = q[i]
      /\ Append(q, h)[Len(q) + 1] = h
  OBVIOUS
<1>3. \A i \in 1..(Len(q) + 1) : i \in 1..Len(q) \/ i = Len(q) + 1
  BY <1>1
<1>. QED  BY <1>1, <1>2, <1>3

\* The end of OnClientLeave: the session of a Client leaves a LEAVE behind.
LEMMA LeaveMonitorsStep ==
  ASSUME Registry, NEW h \in Handles, LeaveMonitors(h)
  PROVE  Registry'
<1>1. /\ UNCHANGED <<waiting, clients_sessionHandle, sessions_ServerNo, Clients, content, accepted>>
      /\ handler[h].step = "leaveMonitors" /\ Return(h)
      /\ monitors' = monitors \ {h} /\ joined' = joined \ {h}
      /\ clientContentQueue' = IF h \in monitors THEN clientContentQueue ELSE Append(clientContentQueue, h)
  BY DEF LeaveMonitors
<1>2. h \notin waiting /\ (h \in monitors => ~HasClient(h))
  BY <1>1 DEF Registry, LoginStages, Stage
<1>3. /\ handler' \in [Handles -> [step : Steps, msg : Msgs]]
      /\ \A g \in Handles \ {h} : handler'[g] = handler[g]
      /\ handler'[h] = Nothing /\ handler'[h].step = "idle"
  BY <1>1, Returned DEF Registry
<1>4. /\ \A g \in Handles : HasClient(g)' <=> HasClient(g)
      /\ \A g \in Handles : Erasing(g)' <=> Erasing(g)
  BY <1>1 DEF HasClient, Erasing
<1>5. /\ clientContentQueue' \in Seq(Handles)
      /\ Left' = IF h \in monitors THEN Left ELSE Left \cup {h}
  <2>1. clientContentQueue \in Seq(Handles)
    BY DEF Registry, ServerTyped
  <2>2. CASE h \in monitors
    BY <1>1, <2>1, <2>2 DEF Left
  <2>3. CASE h \notin monitors
    <3>1. clientContentQueue' = Append(clientContentQueue, h)
      BY <1>1, <2>3
    <3>. QED  BY <2>1, <2>3, <3>1, AfterAppend DEF Left
  <2>. QED  BY <2>2, <2>3
<1>6. ServerTyped'
  BY <1>1, <1>3, <1>5 DEF Registry, ServerTyped
<1>7. HandlersJoined' /\ ClientsExact'
  BY <1>1, <1>3 DEF Registry, HandlersJoined, ClientsExact
<1>8. LoginStages'
  BY <1>1, <1>2, <1>3, <1>4 DEF Registry, LoginStages, Stage
<1>9. ClientsAccounted'
  BY <1>1, <1>2, <1>3, <1>4, <1>5 DEF Registry, ClientsAccounted
<1>10. AcceptedHasClient'
  BY <1>1, <1>3, <1>6 DEF Registry, AcceptedHasClient, ServerTyped
<1>. QED  BY <1>6, <1>7, <1>8, <1>9, <1>10 DEF Registry

\* A connection gets a handle that nothing remembers.
LEMMA OnClientJoinStep ==
  ASSUME Registry, NEW h \in Handles \ Remembered, OnClientJoin(h)
  PROVE  Registry'
<1>1. /\ UNCHANGED <<handler, monitors, clients_sessionHandle, sessions_ServerNo, Clients,
                     clientContentQueue, content>>
      /\ joined' = joined \cup {h} /\ waiting' = waiting \cup {h} /\ accepted' = accepted \ {h}
  BY DEF OnClientJoin
<1>2. /\ h \notin joined \cup waiting \cup monitors \cup clients_sessionHandle \cup Left
      /\ ~HasClient(h) /\ content.handle # h
  <2>1. /\ h \notin joined \cup waiting \cup monitors \cup clients_sessionHandle
        /\ h \notin {c[1] : c \in Clients} /\ content.handle # h
        /\ h \notin {clientContentQueue[i] : i \in DOMAIN clientContentQueue}
    BY DEF Remembered
  <2>2. \A s \in Servers : <<h, s>>[1] = h
    OBVIOUS
  <2>3. \A s \in Servers : <<h, s>> \notin Clients
    BY <2>1, <2>2
  <2>. QED  BY <2>1, <2>3 DEF Left, HasClient
<1>3. handler[h] = Nothing
  BY <1>2 DEF Registry, HandlersJoined
<1>4. /\ \A g \in Handles : HasClient(g)' <=> HasClient(g)
      /\ \A g \in Handles : Erasing(g)' <=> Erasing(g)
      /\ Left' = Left
  BY <1>1 DEF HasClient, Erasing, Left
<1>5. ServerTyped' /\ HandlersJoined' /\ ClientsExact'
  BY <1>1 DEF Registry, ServerTyped, HandlersJoined, ClientsExact
<1>6. LoginStages'
  BY <1>1, <1>2, <1>3, <1>4 DEF Registry, LoginStages, Stage, Nothing
<1>7. ClientsAccounted'
  BY <1>1, <1>2, <1>4 DEF Registry, ClientsAccounted
<1>8. AcceptedHasClient'
  BY <1>1 DEF Registry, AcceptedHasClient
<1>. QED  BY <1>5, <1>6, <1>7, <1>8 DEF Registry

-----------------------------------------------------------------------------
(* ClientContentThread.                                                    *)

\* What a queue holds after its head was taken.
LEMMA AfterTail ==
  ASSUME NEW q \in Seq(Handles), q # <<>>
  PROVE  /\ Tail(q) \in Seq(Handles) /\ Head(q) \in Handles
         /\ Head(q) \in {q[i] : i \in DOMAIN q}
         /\ {Tail(q)[i] : i \in DOMAIN Tail(q)} \subseteq {q[i] : i \in DOMAIN q}
         /\ {q[i] : i \in DOMAIN q} \subseteq {Tail(q)[i] : i \in DOMAIN Tail(q)} \cup {Head(q)}
<1>1. Len(q) \in Nat \ {0} /\ DOMAIN q = 1..Len(q) /\ Head(q) = q[1]
  OBVIOUS
<1>2. Tail(q) \in Seq(Handles) /\ DOMAIN Tail(q) = 1..(Len(q) - 1)
  OBVIOUS
<1>3. \A i \in 1..(Len(q) - 1) : Tail(q)[i] = q[i + 1] /\ i + 1 \in DOMAIN q
  BY <1>1
<1>4. ASSUME NEW i \in DOMAIN q, i # 1
      PROVE  q[i] \in {Tail(q)[j] : j \in DOMAIN Tail(q)}
  <2>1. i - 1 \in 1..(Len(q) - 1) /\ (i - 1) + 1 = i
    BY <1>1, <1>4
  <2>2. Tail(q)[i - 1] = q[i]
    BY <1>3, <2>1
  <2>. QED  BY <1>2, <2>1, <2>2
<1>5. {q[i] : i \in DOMAIN q} \subseteq {Tail(q)[i] : i \in DOMAIN Tail(q)} \cup {Head(q)}
  BY <1>1, <1>4
<1>6. {Tail(q)[i] : i \in DOMAIN Tail(q)} \subseteq {q[i] : i \in DOMAIN q}
  BY <1>2, <1>3
<1>7. Head(q) \in Handles /\ Head(q) \in {q[i] : i \in DOMAIN q}
  BY <1>1
<1>. QED  BY <1>2, <1>5, <1>6, <1>7

\* A LEAVE finds the Client in the map, or its session had none.
LEMMA HandleLeaveStep ==
  ASSUME Registry, HandleLeave
  PROVE  Registry'
<1>. DEFINE h == Head(clientContentQueue)
<1>1. /\ UNCHANGED <<joined, handler, waiting, monitors, sessions_ServerNo, Clients, accepted>>
      /\ content.step = "drain" /\ clientContentQueue # <<>>
      /\ clientContentQueue' = Tail(clientContentQueue)
  BY DEF HandleLeave
<1>2. /\ clientContentQueue' \in Seq(Handles) /\ h \in Handles
      /\ h \in Left /\ Left' \subseteq Left /\ Left \subseteq Left' \cup {h}
  BY <1>1, AfterTail DEF Registry, ServerTyped, Left
<1>3. \A g \in Handles : HasClient(g)' <=> HasClient(g)
  BY <1>1 DEF HasClient
<1>4. h \notin joined /\ \A g \in Handles : ~Erasing(g)
  BY <1>1, <1>2 DEF Registry, ClientsAccounted, Erasing
<1>5. handler[h] = Nothing
  BY <1>2, <1>4 DEF Registry, HandlersJoined
<1>6. CASE h \in clients_sessionHandle
  <2>1. /\ clients_sessionHandle' = clients_sessionHandle \ {h}
        /\ \E c \in Clients : c[1] = h /\ ContentTo("erase", h, c[2])
    BY <1>6 DEF HandleLeave
  <2>2. PICK c \in Clients : c[1] = h /\ ContentTo("erase", h, c[2])
    BY <2>1
  <2>3. c = <<h, c[2]>> /\ c[2] \in Servers
    BY <2>2 DEF Registry, ServerTyped
  <2>4. content'.step = "erase" /\ content'.handle = h /\ content'.serverNo = c[2]
    BY <2>2 DEF ContentTo
  <2>5. \A g \in Handles : Erasing(g)' <=> g = h
    BY <2>4 DEF Erasing
  <2>6. ServerTyped' /\ HandlersJoined' /\ ClientsExact'
    BY <1>1, <1>2, <2>1 DEF Registry, ServerTyped, HandlersJoined, ClientsExact
  <2>7. LoginStages'
    BY <1>1, <1>3 DEF Registry, LoginStages, Stage
  <2>8. ClientsAccounted'
    <3>1. <<content'.handle, content'.serverNo>> \in Clients' /\ content'.handle \notin joined'
      BY <1>1, <1>4, <2>3, <2>4
    <3>2. Left' \cap joined' = {}
      BY <1>1, <1>2 DEF Registry, ClientsAccounted
    <3>3. ASSUME NEW g \in Handles
          PROVE  /\ g \in clients_sessionHandle' => HasClient(g)' /\ ~Erasing(g)'
                 /\ HasClient(g)' => g \in clients_sessionHandle' \/ handler'[g].step = "insert" \/ Erasing(g)'
                 /\ HasClient(g)' => g \in joined' \cup Left' \/ Erasing(g)'
      <4>1. /\ g \in clients_sessionHandle => HasClient(g)
            /\ HasClient(g) => g \in clients_sessionHandle \/ handler[g].step = "insert"
            /\ HasClient(g) => g \in joined \cup Left
        BY <1>4 DEF Registry, ClientsAccounted
      <4>2. (HasClient(g)' <=> HasClient(g)) /\ (Erasing(g)' <=> g = h)
        BY <1>3, <2>5
      <4>. QED  BY <1>1, <1>2, <2>1, <4>1, <4>2
    <3>. QED  BY <3>1, <3>2, <3>3 DEF ClientsAccounted
  <2>9. AcceptedHasClient'
    BY <1>1, <1>4, <2>1 DEF Registry, AcceptedHasClient
  <2>. QED  BY <2>6, <2>7, <2>8, <2>9 DEF Registry
<1>7. CASE h \notin clients_sessionHandle
  <2>1. UNCHANGED <<clients_sessionHandle, content>>
    BY <1>7 DEF HandleLeave
  <2>2. ~HasClient(h)
    BY <1>2, <1>4, <1>5, <1>7 DEF Registry, ClientsAccounted, Nothing
  <2>3. \A g \in Handles : Erasing(g)' <=> Erasing(g)
    BY <2>1 DEF Erasing
  <2>4. ServerTyped' /\ HandlersJoined' /\ ClientsExact'
    BY <1>1, <1>2, <2>1 DEF Registry, ServerTyped, HandlersJoined, ClientsExact
  <2>5. LoginStages'
    BY <1>1, <1>3 DEF Registry, LoginStages, Stage
  <2>6. ClientsAccounted'
    BY <1>1, <1>2, <1>3, <1>4, <2>1, <2>2, <2>3 DEF Registry, ClientsAccounted
  <2>7. AcceptedHasClient'
    BY <1>1, <2>1 DEF Registry, AcceptedHasClient
  <2>. QED  BY <2>4, <2>5, <2>6, <2>7 DEF Registry
<1>. QED  BY <1>6, <1>7

\* The number that is freed is the one of the session that left.
LEMMA EraseServerNoStep ==
  ASSUME Registry, EraseServerNo
  PROVE  Registry'
<1>. DEFINE h == content.handle
<1>. DEFINE n == content.serverNo
<1>1. /\ UNCHANGED <<joined, handler, waiting, monitors, clients_sessionHandle, clientContentQueue, accepted>>
      /\ content.step = "erase" /\ content'.step = "drain"
      /\ sessions_ServerNo' = [sessions_ServerNo EXCEPT ![n] = NoHandle]
      /\ Clients' = {c \in Clients : c[1] # h}
  BY DEF EraseServerNo, ContentTo
<1>2. /\ Clients \subseteq Handles \X Servers
      /\ sessions_ServerNo \in [Servers -> Handles \cup {NoHandle}]
  BY DEF Registry, ServerTyped
<1>3. <<h, n>> \in Clients /\ h \in Handles /\ n \in Servers /\ h \notin joined
  BY <1>1, <1>2 DEF Registry, ClientsAccounted
<1>4. handler[h] = Nothing
  BY <1>3 DEF Registry, HandlersJoined
<1>5. sessions_ServerNo[n] = h /\ h # NoHandle
  BY <1>3, HandlesNat DEF Registry, ClientsExact, NoHandle
<1>6. /\ \A g \in Handles : HasClient(g)' <=> HasClient(g) /\ g # h
      /\ \A g \in Handles : ~Erasing(g)' /\ (Erasing(g) <=> g = h)
      /\ Left' = Left
  BY <1>1, <1>2 DEF HasClient, Erasing, Left
<1>7. \A s \in Servers : sessions_ServerNo'[s] = IF s = n THEN NoHandle ELSE sessions_ServerNo[s]
  BY <1>1, <1>2
<1>8. ServerTyped'
  BY <1>1, <1>2 DEF Registry, ServerTyped
<1>9. HandlersJoined'
  BY <1>1 DEF Registry, HandlersJoined
<1>10. ClientsExact'
  <2>1. \A s \in Servers : sessions_ServerNo[s] = h => s = n
    BY <1>3, <1>5 DEF Registry, ClientsExact
  <2>2. \A g \in Handles, s \in Servers : <<g, s>> \in Clients' <=> <<g, s>> \in Clients /\ g # h
    BY <1>1
  <2>3. \A g \in Handles, s \in Servers : <<g, s>> \in Clients' <=> sessions_ServerNo'[s] = g
    <3>1. \A g \in Handles, s \in Servers : <<g, s>> \in Clients <=> sessions_ServerNo[s] = g
      BY DEF Registry, ClientsExact
    <3>2. \A g \in Handles : NoHandle # g
      BY HandlesNat DEF NoHandle
    <3>3. ASSUME NEW g \in Handles, NEW s \in Servers
          PROVE  <<g, s>> \in Clients' <=> sessions_ServerNo'[s] = g
      <4>1. CASE s = n
        BY <1>5, <1>7, <2>2, <3>1, <3>2, <4>1
      <4>2. CASE s # n
        BY <1>7, <2>1, <2>2, <3>1, <4>2
      <4>. QED  BY <4>1, <4>2
    <3>. QED  BY <3>3
  <2>. QED  BY <1>7, <2>3 DEF Registry, ClientsExact
<1>11. LoginStages'
  BY <1>1, <1>4, <1>6 DEF Registry, LoginStages, Stage, Nothing
<1>12. ClientsAccounted'
  BY <1>1, <1>6 DEF Registry, ClientsAccounted
<1>13. AcceptedHasClient'
  BY <1>1 DEF Registry, AcceptedHasClient
<1>. QED  BY <1>8, <1>9, <1>10, <1>11, <1>12, <1>13 DEF Registry
LEMMA ContentSteps ==
  ASSUME Registry, ContentStep \/ \E h \in Handles : TimeoutFound(h)
  PROVE  Registry'
<1>1. CASE NoTimeout \/ TimeoutDisconnect \/ Drained \/ \E h \in Handles : TimeoutFound(h)
  <2>1. UNCHANGED <<joined, handler, registry, accepted>>
    BY <1>1 DEF NoTimeout, TimeoutDisconnect, Drained, TimeoutFound
  <2>2. content.step # "erase" /\ content'.step # "erase"
    BY <1>1 DEF NoTimeout, TimeoutDisconnect, Drained, TimeoutFound, ContentTo, Waking
  <2>. QED  BY <2>1, <2>2, ContentMoves
<1>. QED  BY <1>1, HandleLeaveStep, EraseServerNoStep DEF ContentStep

LEMMA HandlerSteps ==
  ASSUME IInv, NEW h \in Handles, Handler(h)
  PROVE  Registry'
BY OnRecvStep, LeaveWaitingStep, LoginServerNoStep, LoginInsertStep, DataStep, ToolKeyStep,
   ToolInsertStep, SessionEndsStep, OnClientLeaveStep, LeaveMonitorsStep DEF Handler, IInv

\* The clients do not touch the server's state.
LEMMA RegistryKept ==
  ASSUME Registry, UNCHANGED serverVars
  PROVE  Registry'
<1>1. UNCHANGED <<joined, handler, waiting, monitors, clients_sessionHandle, sessions_ServerNo, Clients,
                  clientContentQueue, content, accepted>>
  BY DEF serverVars, registry
<1>2. /\ \A g \in Handles : HasClient(g)' <=> HasClient(g)
      /\ \A g \in Handles : Erasing(g)' <=> Erasing(g)
      /\ Left' = Left
  BY <1>1 DEF HasClient, Erasing, Left
<1>3. ServerTyped' /\ HandlersJoined' /\ ClientsExact' /\ AcceptedHasClient'
  BY <1>1 DEF Registry, ServerTyped, HandlersJoined, ClientsExact, AcceptedHasClient
<1>4. LoginStages'
  BY <1>1, <1>2 DEF Registry, LoginStages, Stage
<1>5. ClientsAccounted'
  BY <1>1, <1>2 DEF Registry, ClientsAccounted
<1>. QED  BY <1>3, <1>4, <1>5 DEF Registry

-----------------------------------------------------------------------------
(* The messages of the clients.                                            *)

LEMMA DecrementTyped ==
  ASSUME WiresTyped, NEW s \in Servers, NEW count, NEW buffer \in Seq(Messages), NEW sending,
         Decrement(s, count, buffer, sending)
  PROVE  m_sendBuffer' \in [Servers -> Seq(Messages)]
<1>1. <<>> \in Seq(Messages)
  OBVIOUS
<1>2. \/ m_sendBuffer' = [m_sendBuffer EXCEPT ![s] = buffer]
      \/ m_sendBuffer' = [m_sendBuffer EXCEPT ![s] = <<>>]
  BY DEF Decrement
<1>. QED  BY <1>1, <1>2 DEF WiresTyped

LEMMA EnqueueTyped ==
  ASSUME WiresTyped, NEW s \in Servers, NEW msg \in Messages, Enqueue(s, msg)
  PROVE  m_sendBuffer' \in [Servers -> Seq(Messages)]
<1>1. Append(m_sendBuffer[s], msg) \in Seq(Messages)
  BY DEF WiresTyped
<1>2. m_sendBuffer' = [m_sendBuffer EXCEPT ![s] = Append(@, msg)]
  BY DEF Enqueue
<1>. QED  BY <1>1, <1>2 DEF WiresTyped

LEMMA ClientWires ==
  ASSUME WiresTyped, NEW s \in Servers, ClientStep(s)
  PROVE  WiresTyped'
<1>0. /\ net \in [Handles -> Seq(Messages)]
      /\ m_sendBuffer \in [Servers -> Seq(Messages)] /\ m_sendBuffer[s] \in Seq(Messages)
      /\ <<>> \in Seq(Messages)
  BY DEF WiresTyped
<1>1. CASE SessionConnect(s) \/ Register(s) \/ IsConnect(s) \/ FindSession(s) \/ ClientLeaves(s)
  BY <1>0, <1>1 DEF SessionConnect, Register, IsConnect, FindSession, ClientLeaves, wires, WiresTyped
<1>2. CASE SessionClear(s)
  BY <1>0, <1>2 DEF SessionClear, wires, WiresTyped
<1>3. CASE EnterJoin(s)
  <2>1. [type |-> "login", from |-> s] \in Messages
    BY DEF Messages
  <2>. QED  BY <1>0, <1>3, <2>1, EnqueueTyped DEF EnterJoin, wires, WiresTyped
<1>4. CASE SendPacket(s)
  <2>1. [type |-> "data", from |-> s] \in Messages
    BY DEF Messages
  <2>. QED  BY <1>0, <1>4, <2>1, EnqueueTyped DEF SendPacket, wires, WiresTyped
<1>5. CASE FirstRecv(s)
  <2>1. net' = net /\ (m_sendBuffer' = m_sendBuffer \/ Decrement(s, IOCount[s], m_sendBuffer[s], IsSending[s]))
    BY <1>5 DEF FirstRecv
  <2>. QED  BY <1>0, <2>1, DecrementTyped DEF WiresTyped
<1>6. CASE RecvEnds(s)
  BY <1>0, <1>6, DecrementTyped DEF RecvEnds, WiresTyped
<1>7. CASE ReturnSession(s)
  BY <1>0, <1>7, DecrementTyped DEF ReturnSession, WiresTyped
<1>8. CASE SendDone(s)
  <2>1. net' = net
    BY <1>8 DEF SendDone
  <2>2. \/ Decrement(s, IOCount[s], <<>>, FALSE)
        \/ Decrement(s, IOCount[s] + 1, m_sendBuffer[s], TRUE)
        \/ Decrement(s, IOCount[s], m_sendBuffer[s], IsSending[s])
    BY <1>8 DEF SendDone
  <2>. QED  BY <1>0, <2>1, <2>2, DecrementTyped DEF WiresTyped
<1>9. CASE SendPost(s)
  <2>1. CASE Decrement(s, IOCount[s], <<>>, IsSending[s]) /\ net' = net
    BY <1>0, <2>1, DecrementTyped DEF WiresTyped
  <2>2. CASE /\ net' = IF link[s] \in cut THEN net ELSE [net EXCEPT ![link[s]] = @ \o m_sendBuffer[s]]
             /\ m_sendBuffer' = [m_sendBuffer EXCEPT ![s] = <<>>]
    <3>1. \A h \in Handles : net[h] \o m_sendBuffer[s] \in Seq(Messages)
      BY <1>0
    <3>2. net' \in [Handles -> Seq(Messages)]
      BY <1>0, <2>2, <3>1
    <3>. QED  BY <1>0, <2>2, <3>2 DEF WiresTyped
  <2>. QED  BY <1>9, <2>1, <2>2 DEF SendPost
<1>. QED  BY <1>1, <1>2, <1>3, <1>4, <1>5, <1>6, <1>7, <1>8, <1>9
          DEF ClientStep, Connecting, Completions, Sending

LEMMA ServerWires ==
  ASSUME WiresTyped, UNCHANGED clientVars, (\E h \in Handles : Handler(h)) \/ ContentStep
  PROVE  WiresTyped'
<1>1. m_sendBuffer' = m_sendBuffer
  BY DEF clientVars
<1>2. CASE ContentStep
  BY <1>1, <1>2 DEF ContentStep, NoTimeout, TimeoutDisconnect, HandleLeave, EraseServerNo, Drained,
                    WiresTyped
<1>3. ASSUME NEW h \in Handles, Handler(h)
      PROVE  WiresTyped'
  <2>1. CASE OnRecv(h)
    <3>1. net[h] \in Seq(Messages) /\ net[h] # <<>> /\ net' = [net EXCEPT ![h] = Tail(@)]
      BY <2>1 DEF OnRecv, WiresTyped
    <3>2. Tail(net[h]) \in Seq(Messages)
      BY <3>1
    <3>. QED  BY <1>1, <3>1, <3>2 DEF WiresTyped
  <2>2. CASE SessionEnds(h)
    <3>1. <<>> \in Seq(Messages) /\ net' = [net EXCEPT ![h] = <<>>]
      BY <2>2 DEF SessionEnds
    <3>. QED  BY <1>1, <3>1 DEF WiresTyped
  <2>3. CASE net' = net
    BY <1>1, <2>3 DEF WiresTyped
  <2>. QED  BY <1>3, <2>1, <2>2, <2>3 DEF Handler, LeaveWaiting, LoginServerNo, LoginInsert, DataFind,
              DataCheck, DataSample, ToolKey, ToolInsert, OnClientLeave, LeaveMonitors
<1>. QED  BY <1>2, <1>3

-----------------------------------------------------------------------------
LEMMA InitInvariant == Init => IInv
<1>. SUFFICES ASSUME Init PROVE IInv
  OBVIOUS
<1>. USE DEF Init, NetInit, ClientInit, ServerInit
<1>1. WiresTyped
  BY DEF WiresTyped
<1>2. ServerTyped
  BY DEF ServerTyped, Nothing, Steps, Msgs, NoHandle
<1>3. /\ \A h \in Handles : ~HasClient(h) /\ ~Erasing(h) /\ handler[h] = Nothing
      /\ Left = {}
  BY DEF HasClient, Erasing, Waking, Left
<1>4. HandlersJoined
  BY <1>3 DEF HandlersJoined
<1>5. ClientsExact
  BY HandlesNat DEF ClientsExact, NoHandle
<1>6. LoginStages
  BY <1>3 DEF LoginStages, Stage, Nothing
<1>7. ClientsAccounted
  BY <1>3 DEF ClientsAccounted, Waking
<1>8. AcceptedHasClient
  BY DEF AcceptedHasClient
<1>. QED  BY <1>1, <1>2, <1>4, <1>5, <1>6, <1>7, <1>8 DEF IInv, Registry

LEMMA NextInvariant == IInv /\ [Next]_vars => IInv'
<1>. SUFFICES ASSUME IInv, [Next]_vars PROVE IInv'
  OBVIOUS
<1>0. WiresTyped /\ Registry
  BY DEF IInv
<1>1. CASE UNCHANGED vars
  <2>1. UNCHANGED <<net, m_sendBuffer>> /\ UNCHANGED serverVars
    BY <1>1 DEF vars, wires, clientVars
  <2>. QED  BY <1>0, <2>1, RegistryKept DEF IInv, WiresTyped
<1>2. ASSUME NEW s \in Servers, Client(s)
      PROVE  IInv'
  <2>1. CASE ClientStep(s) /\ UNCHANGED serverVars
    BY <1>0, <2>1, RegistryKept, ClientWires DEF IInv
  <2>2. CASE Connect(s)
    <3>1. PICK h \in Handles \ Remembered : TcpConnect(s, h) /\ OnClientJoin(h)
      BY <2>2 DEF Connect, Unused
    <3>2. <<>> \in Seq(Messages) /\ net' = [net EXCEPT ![h] = <<>>] /\ m_sendBuffer' = m_sendBuffer
      BY <3>1 DEF TcpConnect
    <3>. QED  BY <1>0, <3>1, <3>2, OnClientJoinStep DEF IInv, WiresTyped
  <2>. QED  BY <1>2, <2>1, <2>2 DEF Client
<1>3. CASE Server
  BY <1>0, <1>3, HandlerSteps, ContentSteps, ServerWires DEF Server, IInv
<1>4. CASE ToolConnect
  <2>1. PICK h \in Handles \ Remembered : OnClientJoin(h) /\ net' = [net EXCEPT ![h] = <<[type |-> "tool", from |-> 0]>>]
    BY <1>4 DEF ToolConnect, Unused
  <2>2. <<[type |-> "tool", from |-> 0]>> \in Seq(Messages)
    BY DEF Messages
  <2>3. m_sendBuffer' = m_sendBuffer
    BY <1>4 DEF ToolConnect, clientVars
  <2>. QED  BY <1>0, <2>1, <2>2, <2>3, OnClientJoinStep DEF IInv, WiresTyped
<1>5. CASE Break
  <2>1. UNCHANGED <<net, m_sendBuffer>> /\ UNCHANGED serverVars
    BY <1>5 DEF Break, clientVars
  <2>. QED  BY <1>0, <2>1, RegistryKept DEF IInv, WiresTyped
<1>6. CASE LateLogin
  <2>1. PICK h \in Handles : TimeoutFound(h)
    BY <1>6 DEF LateLogin
  <2>2. UNCHANGED <<net, m_sendBuffer>>
    BY <1>6, <2>1 DEF LateLogin, TimeoutFound, clientVars
  <2>. QED  BY <1>0, <2>1, <2>2, ContentSteps DEF IInv, WiresTyped
<1>. QED  BY <1>1, <1>2, <1>3, <1>4, <1>5, <1>6 DEF Next

\* The tables of the monitor server agree with each other and with the
\* sessions that exist, whatever the interleaving of handlers, content thread
\* and clients.
THEOREM RegistryConsistent == Spec => []IInv
<1>. QED  BY InitInvariant, NextInvariant, PTL DEF Spec

\* MonitorServer/main.cpp:294-345: a Client is not deleted while a handler uses it.
THEOREM ClientsStayAllocated == Spec => []NoFreedClient
<1>1. IInv => NoFreedClient
  BY DEF IInv, Registry, LoginStages, Stage, HasClient, NoFreedClient
<1>. QED  BY <1>1, RegistryConsistent, PTL

\* MonitorServer/main.cpp:92-121, 447-467: what the maps hold has a session, or
\* a LEAVE to come.
THEOREM MapsFollowSessions == Spec => []NothingOutlivesLeave
<1>1. ASSUME IInv
      PROVE  NothingOutlivesLeave
  <2>1. waiting \cup monitors \subseteq joined
    BY <1>1 DEF IInv, Registry, LoginStages
  <2>2. clients_sessionHandle \subseteq joined \cup Left
    BY <1>1 DEF IInv, Registry, ClientsAccounted, ServerTyped
  <2>3. ASSUME NEW s \in Servers, sessions_ServerNo[s] # NoHandle
        PROVE  sessions_ServerNo[s] \in joined \cup Left \/ Erasing(sessions_ServerNo[s])
    <3>1. sessions_ServerNo[s] \in Handles
      BY <1>1, <2>3 DEF IInv, Registry, ServerTyped
    <3>2. HasClient(sessions_ServerNo[s])
      BY <1>1, <3>1 DEF IInv, Registry, ClientsExact, HasClient
    <3>. QED  BY <1>1, <3>1, <3>2 DEF IInv, Registry, ClientsAccounted
  <2>. QED  BY <2>1, <2>2, <2>3 DEF NothingOutlivesLeave, Left, Erasing
<1>. QED  BY <1>1, RegistryConsistent, PTL

\* The worker of one session does not touch another's handler.
LEMMA OthersStay ==
  ASSUME ServerTyped, NEW g \in Handles, NEW h \in Handles \ {g}, Handler(g)
  PROVE  handler'[h] = handler[h]
<1>1. CASE OnRecv(g)
  BY <1>1 DEF OnRecv, ServerTyped
<1>2. CASE \E step \in Steps : To(g, step)
  BY <1>2, Placed
<1>3. CASE Return(g)
  BY <1>3, Returned
<1>. QED  BY <1>1, <1>2, <1>3 DEF Handler, LeaveWaiting, LoginServerNo, LoginInsert, DataFind, DataCheck,
            DataSample, ToolKey, ToolInsert, SessionEnds, OnClientLeave, LeaveMonitors, Steps

\* The measurement of a session that was accepted passes both tests.
LEMMA MeasurementTaken ==
  ASSUME Registry, NEW h \in accepted, handler[h].step \in {"data", "check"}, Handler(h)
  PROVE  handler'[h] # Nothing
<1>1. h \in Handles
  BY DEF Registry, ServerTyped
<1>2. h \in clients_sessionHandle
  BY <1>1, Busy DEF Registry, AcceptedHasClient
<1>3. CASE DataFind(h)
  <2>1. To(h, "check")
    BY <1>2, <1>3 DEF DataFind
  <2>2. handler'[h].step = "check"
    BY <1>1, <2>1, Placed DEF Registry, Steps
  <2>. QED  BY <2>2 DEF Nothing
<1>4. CASE DataCheck(h)
  <2>1. PICK s \in Servers : <<h, s>> \in Clients
    BY <1>1, <1>2 DEF Registry, ClientsAccounted, HasClient
  <2>2. sessions_ServerNo[s] = h
    BY <1>1, <2>1 DEF Registry, ClientsExact
  <2>3. \E c \in Clients : c[1] = h /\ sessions_ServerNo[c[2]] = h
    BY <2>1, <2>2
  <2>4. To(h, "sample")
    BY <1>4, <2>3 DEF DataCheck
  <2>5. handler'[h].step = "sample"
    BY <1>1, <2>4, Placed DEF Registry, Steps
  <2>. QED  BY <2>5 DEF Nothing
<1>5. handler[h] # Nothing
  BY DEF Nothing
<1>. QED  BY <1>3, <1>4, <1>5 DEF Handler, OnRecv, LeaveWaiting, LoginServerNo, LoginInsert, DataSample,
            ToolKey, ToolInsert, SessionEnds, OnClientLeave, LeaveMonitors

\* MonitorServer/main.cpp:282-329: no measurement of a session whose login was
\* accepted is refused.
THEOREM AcceptedStaysServed == Spec => AcceptedIsServed
<1>1. ASSUME IInv, [Next]_vars
      PROVE  [\A h \in accepted : handler[h].step \in {"data", "check"} => handler'[h] # Nothing]_vars
  <2>1. SUFFICES ASSUME NEW h \in accepted, handler[h].step \in {"data", "check"}
                 PROVE  handler'[h] # Nothing
    OBVIOUS
  <2>2. Registry /\ h \in Handles /\ handler[h] # Nothing
    BY <1>1, <2>1 DEF IInv, Registry, ServerTyped, Nothing
  <2>3. CASE handler' = handler
    BY <2>2, <2>3
  <2>4. ASSUME NEW g \in Handles, Handler(g)
        PROVE  handler'[h] # Nothing
    BY <2>1, <2>2, <2>4, OthersStay, MeasurementTaken DEF Registry
  <2>5. \/ handler' = handler
        \/ \E g \in Handles : Handler(g)
    <3>1. CASE UNCHANGED vars
      BY <3>1 DEF vars, serverVars
    <3>2. CASE \E s \in Servers : Client(s)
      BY <3>2 DEF Client, Connect, OnClientJoin, serverVars
    <3>3. CASE Server
      BY <3>3 DEF Server, ContentStep, NoTimeout, TimeoutDisconnect, HandleLeave, EraseServerNo, Drained
    <3>4. CASE ToolConnect \/ Break \/ LateLogin
      BY <3>4 DEF ToolConnect, Break, LateLogin, OnClientJoin, TimeoutFound, serverVars
    <3>. QED  BY <1>1, <3>1, <3>2, <3>3, <3>4 DEF Next
  <2>. QED  BY <2>3, <2>4, <2>5
<1>. QED  BY <1>1, RegistryConsistent, PTL DEF Spec, AcceptedIsServed
=============================================================================
