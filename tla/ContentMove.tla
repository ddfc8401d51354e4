---------------------------- MODULE ContentMove ----------------------------
(***************************************************************************)
(* NetLib_Content: sessions that are served by the Update of a content     *)
(* instead of the workers, and Move_Content, which hands them from one to  *)
(* the next with messages in the contents' queues.                         *)
(*                                                                         *)
(* A content's Update runs on one worker at a time.  Nothing in the        *)
(* library says who may call Move_Content; the model has the callers that  *)
(* serve the session: its OnClientJoin and OnRecv of the server, and       *)
(* OnEnter and OnRecv of the content it is in.  IsMoving is one flag for   *)
(* all moves of a slot; "disturbed" remembers that it was reset by a       *)
(* message or move it was not set for.  References and the release are     *)
(* those of SessionLifetime in one step each, the bytes of a frame those   *)
(* of ReceiveFraming.                                                      *)
(***************************************************************************)
EXTENDS Integers, Sequences, FiniteSets

CONSTANTS Slots, Contents,
          NoContent,       \* nullptr
          MaxConnections,  \* connections per slot
          MaxMoves, MaxFrames

ASSUME ContentAssumption ==
  /\ IsFiniteSet(Slots) /\ IsFiniteSet(Contents)
  /\ NoContent \notin Contents /\ Slots \cap Contents = {}
  /\ MaxConnections \in Nat /\ MaxMoves \in Nat /\ MaxFrames \in Nat

\* The update threads, and the worker that runs a slot's own callbacks.
Threads == Slots \cup Contents
Handles == Slots \X (1..MaxConnections)
NoHandle == <<>>

VARIABLES
  life,        \* of a slot: "free", "open", "released" (the release flag is set)
  conn,        \* its connection: the handle is <<slot, conn>>
  refs,        \* IOCount
  connected,   \* its receive is still to end
  m_content, IsMoving,
  ring,        \* frames in m_recvrecvBuffer
  leaving,     \* overlapped_leave is posted
  m_msgQueue,  \* of a content: ENTER, LEAVE and RELEASE messages
  sessions,    \* of a content: the handles it serves
  m_sessionCount,
  thread,      \* of a thread: what it does, and with which handle
  todo,        \* of a content: handles its loop has still to look at
  moving,      \* of a thread: its Move_Content
  inside,      \* history: the contents a handle has entered and not left
  disturbed,   \* history: IsMoving was reset while a LEAVE of another move of the
               \* session was due, or by the LEAVE of an earlier connection
  moves, frames

slotVars == <<life, conn, refs, connected, m_content, IsMoving, ring, leaving>>
contentVars == <<m_msgQueue, sessions, m_sessionCount, todo>>
vars == <<slotVars, contentVars, thread, moving, inside, disturbed, moves, frames>>

Idle == [at |-> "idle", handle |-> NoHandle]
NotMoving == [step |-> "none", to |-> NoContent, handle |-> NoHandle]

Init ==
  /\ life = [s \in Slots |-> "free"] /\ conn = [s \in Slots |-> 0]
  /\ refs = [s \in Slots |-> 0] /\ connected = [s \in Slots |-> FALSE]
  /\ m_content = [s \in Slots |-> NoContent] /\ IsMoving = [s \in Slots |-> FALSE]
  /\ ring = [s \in Slots |-> 0] /\ leaving = [s \in Slots |-> FALSE]
  /\ m_msgQueue = [c \in Contents |-> <<>>] /\ sessions = [c \in Contents |-> {}]
  /\ m_sessionCount = [c \in Contents |-> 0] /\ todo = [c \in Contents |-> {}]
  /\ thread = [t \in Threads |-> Idle] /\ moving = [t \in Threads |-> NotMoving]
  /\ inside = [h \in Handles |-> {}] /\ disturbed = FALSE
  /\ moves = 0 /\ frames = 0

Msg(type, h) == [type |-> type, session |-> h[1], sent |-> h]
Current(s) == <<s, conn[s]>>
Pending(c, type, h) ==
  \E i \in DOMAIN m_msgQueue[c] : m_msgQueue[c][i].type = type /\ m_msgQueue[c][i].sent = h
\* Where messages of a type are that are for slot s.
Posted(type, s, queues) ==
  {at \in UNION {{c} \X DOMAIN queues[c] : c \in Contents} :
     queues[at[1]][at[2]].type = type /\ queues[at[1]][at[2]].session = s}
\* IsMoving is being reset although a LEAVE of h is posted or about to be.
LeaveDue(h, queues) ==
  \/ \E c \in Contents : \E i \in DOMAIN queues[c] : queues[c][i] = Msg("LEAVE", h)
  \/ \E t \in Threads : moving[t].step = "leave" /\ moving[t].handle = h /\ m_content[h[1]] # NoContent
Found(h) == life[h[1]] = "open" /\ conn[h[1]] = h[2]

\* Faulty variant: the worker releases the session of a content as well.
DroppedByBoth(s, queues) ==
  IF refs[s] > 1 THEN
    /\ refs' = [refs EXCEPT ![s] = @ - 1]
    /\ m_msgQueue' = queues
    /\ UNCHANGED <<life, leaving, IsMoving, ring>>
  ELSE
    /\ refs' = [refs EXCEPT ![s] = 0]
    /\ life' = [life EXCEPT ![s] = "released"]
    /\ leaving' = [leaving EXCEPT ![s] = TRUE]
    /\ IsMoving' = [IsMoving EXCEPT ![s] = FALSE]
    /\ ring' = [ring EXCEPT ![s] = 0]
    /\ m_msgQueue' = IF m_content[s] = NoContent THEN queues
                     ELSE [queues EXCEPT ![m_content[s]] = Append(@, Msg("RELEASE", Current(s)))]

\* ReleaseSession, when the last reference goes: by the worker, or by a
\* message to the content the session is in.
Dropped(s, queues) ==
  IF refs[s] > 1 THEN
    /\ refs' = [refs EXCEPT ![s] = @ - 1]
    /\ m_msgQueue' = queues
    /\ UNCHANGED <<life, leaving, IsMoving, ring>>
  ELSE
    /\ refs' = [refs EXCEPT ![s] = 0]
    /\ life' = [life EXCEPT ![s] = "released"]
    /\ IF m_content[s] = NoContent
         THEN /\ leaving' = [leaving EXCEPT ![s] = TRUE]
              /\ IsMoving' = [IsMoving EXCEPT ![s] = FALSE]
              /\ ring' = [ring EXCEPT ![s] = 0]
              /\ m_msgQueue' = queues
         ELSE /\ m_msgQueue' = [queues EXCEPT ![m_content[s]] = Append(@, Msg("RELEASE", Current(s)))]
              /\ UNCHANGED <<leaving, IsMoving, ring>>

-----------------------------------------------------------------------------
\* The workers.

\* Accept and the enter completion: OnClientJoin is about to run.
Connect(s) ==
  /\ life[s] = "free" /\ conn[s] < MaxConnections /\ thread[s] = Idle
  /\ life' = [life EXCEPT ![s] = "open"]
  /\ conn' = [conn EXCEPT ![s] = @ + 1]
  /\ refs' = [refs EXCEPT ![s] = 1] /\ connected' = [connected EXCEPT ![s] = TRUE]
  /\ m_content' = [m_content EXCEPT ![s] = NoContent]
  /\ IsMoving' = [IsMoving EXCEPT ![s] = FALSE]
  /\ ring' = [ring EXCEPT ![s] = 0]
  /\ thread' = [thread EXCEPT ![s] = [at |-> "callback", handle |-> <<s, conn[s] + 1>>]]
  /\ UNCHANGED <<leaving, contentVars, moving, inside, disturbed, moves, frames>>

\* A frame has come: for OnRecv of the server, or for the session's content.
ReceiveFrame(s) ==
  /\ connected[s] /\ thread[s] = Idle /\ frames < MaxFrames
  /\ frames' = frames + 1
  /\ IF m_content[s] = NoContent
       THEN /\ thread' = [thread EXCEPT ![s] = [at |-> "callback", handle |-> Current(s)]]
            /\ UNCHANGED ring
       ELSE /\ ring' = [ring EXCEPT ![s] = @ + 1]
            /\ UNCHANGED thread
  /\ UNCHANGED <<life, conn, refs, connected, m_content, IsMoving, leaving, contentVars, moving,
                 inside, disturbed, moves>>

WorkerReturns(s) ==
  /\ thread[s].at = "callback" /\ moving[s].step = "none"
  /\ thread' = [thread EXCEPT ![s] = Idle]
  /\ UNCHANGED <<slotVars, contentVars, moving, inside, disturbed, moves, frames>>

\* The receive ends; its reference goes.
PeerCloses(s) ==
  /\ connected[s] /\ thread[s] = Idle
  /\ connected' = [connected EXCEPT ![s] = FALSE]
  /\ Dropped(s, m_msgQueue)
  /\ UNCHANGED <<conn, m_content, sessions, m_sessionCount, todo, thread, moving, inside, disturbed,
                 moves, frames>>

\* The leave completion: OnClientLeave, and the index goes back to its pool.
ClientLeave(s) ==
  /\ leaving[s]
  /\ leaving' = [leaving EXCEPT ![s] = FALSE]
  /\ life' = [life EXCEPT ![s] = "free"]
  /\ UNCHANGED <<conn, refs, connected, m_content, IsMoving, ring, contentVars, thread, moving,
                 inside, disturbed, moves, frames>>

-----------------------------------------------------------------------------
\* Move_Content, called in a callback of thread t for the handle it serves.

\* The callers' discipline: the callback is one of the session's present
\* content, or of the server if it has none.
InCallback(t) ==
  /\ thread[t].at \in {"callback", "entering", "receiving"} /\ moving[t].step = "none"
  /\ m_content[thread[t].handle[1]] = (IF t \in Contents THEN t ELSE NoContent)

\* Faulty variant: IsMoving is not set.
MoveContentUnmarked(t) ==
  /\ InCallback(t) /\ moves < MaxMoves
  /\ LET h == thread[t].handle
     IN /\ Found(h)
        /\ \E to \in Contents \cup {NoContent} :
             /\ to # m_content[h[1]]
             /\ moving' = [moving EXCEPT ![t] = [step |-> "leave", to |-> to, handle |-> h]]
        /\ refs' = [refs EXCEPT ![h[1]] = @ + 1]
  /\ moves' = moves + 1
  /\ UNCHANGED <<life, conn, connected, m_content, IsMoving, ring, leaving, contentVars, thread,
                 inside, disturbed, frames>>

MoveContent(t) ==
  /\ InCallback(t) /\ moves < MaxMoves
  /\ LET h == thread[t].handle
     IN /\ Found(h)
        /\ \E to \in Contents \cup {NoContent} :
             /\ to # m_content[h[1]]
             /\ moving' = [moving EXCEPT ![t] = [step |-> "leave", to |-> to, handle |-> h]]
        /\ refs' = [refs EXCEPT ![h[1]] = @ + 1]
        /\ IsMoving' = [IsMoving EXCEPT ![h[1]] = TRUE]
  /\ moves' = moves + 1
  /\ UNCHANGED <<life, conn, connected, m_content, ring, leaving, contentVars, thread, inside, disturbed,
                 frames>>

\* Leave of the old content: OnLeave, and a message without a reference.
MoveLeave(t) ==
  /\ moving[t].step = "leave"
  /\ moving' = [moving EXCEPT ![t].step = "enter"]
  /\ LET h == moving[t].handle
         old == m_content[h[1]]
     IN IF old # NoContent
          THEN /\ inside' = [inside EXCEPT ![h] = @ \ {old}]
               /\ m_msgQueue' = [m_msgQueue EXCEPT ![old] = Append(@, Msg("LEAVE", h))]
               /\ UNCHANGED <<IsMoving, disturbed>>
          ELSE /\ IsMoving' = [IsMoving EXCEPT ![h[1]] = FALSE]
               /\ disturbed' = (disturbed \/ LeaveDue(h, m_msgQueue))
               /\ UNCHANGED <<inside, m_msgQueue>>
  /\ UNCHANGED <<life, conn, refs, connected, m_content, ring, leaving, sessions, m_sessionCount,
                 todo, thread, moves, frames>>

\* The message to the new content carries the reference; without a new
\* content it is returned.
MoveEnter(t) ==
  /\ moving[t].step = "enter"
  /\ moving' = [moving EXCEPT ![t] = NotMoving]
  /\ LET h == moving[t].handle
         to == moving[t].to
     IN /\ m_content' = [m_content EXCEPT ![h[1]] = to]
        /\ IF to # NoContent
             THEN /\ m_msgQueue' = [m_msgQueue EXCEPT ![to] = Append(@, Msg("ENTER", h))]
                  /\ UNCHANGED refs
             ELSE /\ refs' = [refs EXCEPT ![h[1]] = @ - 1]
                  /\ UNCHANGED m_msgQueue
  /\ UNCHANGED <<life, conn, connected, IsMoving, ring, leaving, sessions, m_sessionCount, todo,
                 thread, inside, disturbed, moves, frames>>

-----------------------------------------------------------------------------
\* Update of a content: first its messages, one after the other.

Takes(c, type) == thread[c] = Idle /\ m_msgQueue[c] # <<>> /\ Head(m_msgQueue[c]).type = type

HandleEnter(c) ==
  /\ Takes(c, "ENTER")
  /\ LET h == Current(Head(m_msgQueue[c]).session)
     IN /\ sessions' = [sessions EXCEPT ![c] = @ \cup {h}]
        /\ inside' = [inside EXCEPT ![h] = @ \cup {c}]
        /\ thread' = [thread EXCEPT ![c] = [at |-> "entering", handle |-> h]]
  /\ m_sessionCount' = [m_sessionCount EXCEPT ![c] = @ + 1]
  /\ m_msgQueue' = [m_msgQueue EXCEPT ![c] = Tail(@)]
  /\ UNCHANGED <<slotVars, todo, moving, disturbed, moves, frames>>

\* Faulty variant: the reference of the message is not returned.
EnterKeeps(c) ==
  /\ thread[c].at = "entering" /\ moving[c].step = "none"
  /\ thread' = [thread EXCEPT ![c] = Idle]
  /\ UNCHANGED <<slotVars, contentVars, moving, inside, disturbed, moves, frames>>

EnterReturns(c) ==
  /\ thread[c].at = "entering" /\ moving[c].step = "none"
  /\ Dropped(thread[c].handle[1], m_msgQueue)
  /\ thread' = [thread EXCEPT ![c] = Idle]
  /\ UNCHANGED <<conn, connected, m_content, sessions, m_sessionCount, todo, moving, inside, disturbed,
                 moves, frames>>

\* The handle is read from the session, which may be another connection's.
HandleLeave(c) ==
  /\ Takes(c, "LEAVE")
  /\ m_msgQueue' = [m_msgQueue EXCEPT ![c] = Tail(@)]
  /\ LET msg == Head(m_msgQueue[c])
         s == msg.session
     IN /\ sessions' = [sessions EXCEPT ![c] = @ \ {Current(s)}]
        /\ IsMoving' = [IsMoving EXCEPT ![s] = FALSE]
        /\ disturbed' = (disturbed \/ Current(s) # msg.sent \/ LeaveDue(Current(s), m_msgQueue'))
  /\ m_sessionCount' = [m_sessionCount EXCEPT ![c] = @ - 1]
  /\ UNCHANGED <<life, conn, refs, connected, m_content, ring, leaving, todo, thread, moving, inside,
                 moves, frames>>

\* Faulty variant: the handle stays in the map.
HandleReleaseKeeps(c) ==
  /\ Takes(c, "RELEASE")
  /\ LET s == Head(m_msgQueue[c]).session
     IN /\ inside' = [inside EXCEPT ![Current(s)] = @ \ {c}]
        /\ IsMoving' = [IsMoving EXCEPT ![s] = FALSE]
        /\ m_content' = [m_content EXCEPT ![s] = NoContent]
        /\ ring' = [ring EXCEPT ![s] = 0]
        /\ life' = [life EXCEPT ![s] = "free"]
  /\ m_sessionCount' = [m_sessionCount EXCEPT ![c] = @ - 1]
  /\ m_msgQueue' = [m_msgQueue EXCEPT ![c] = Tail(@)]
  /\ UNCHANGED <<conn, refs, connected, leaving, sessions, todo, thread, moving, disturbed, moves, frames>>

\* Release: everything is cleared, OnRelease, and the index goes back.
HandleRelease(c) ==
  /\ Takes(c, "RELEASE")
  /\ LET s == Head(m_msgQueue[c]).session
     IN /\ sessions' = [sessions EXCEPT ![c] = @ \ {Current(s)}]
        /\ inside' = [inside EXCEPT ![Current(s)] = @ \ {c}]
        /\ IsMoving' = [IsMoving EXCEPT ![s] = FALSE]
        /\ m_content' = [m_content EXCEPT ![s] = NoContent]
        /\ ring' = [ring EXCEPT ![s] = 0]
        /\ life' = [life EXCEPT ![s] = "free"]
  /\ m_sessionCount' = [m_sessionCount EXCEPT ![c] = @ - 1]
  /\ m_msgQueue' = [m_msgQueue EXCEPT ![c] = Tail(@)]
  /\ UNCHANGED <<conn, refs, connected, leaving, todo, thread, moving, disturbed, moves, frames>>

-----------------------------------------------------------------------------
\* Then its sessions, one after the other, found by handle.

StartLoop(c) ==
  /\ thread[c] = Idle /\ m_msgQueue[c] = <<>> /\ sessions[c] # {}
  /\ todo' = [todo EXCEPT ![c] = sessions[c]]
  /\ thread' = [thread EXCEPT ![c].at = "loop"]
  /\ UNCHANGED <<slotVars, m_msgQueue, sessions, m_sessionCount, moving, inside, disturbed, moves, frames>>

FindNext(c) ==
  /\ thread[c].at = "loop"
  /\ \E h \in todo[c] :
       /\ todo' = [todo EXCEPT ![c] = @ \ {h}]
       /\ IF Found(h)
            THEN /\ refs' = [refs EXCEPT ![h[1]] = @ + 1]
                 /\ thread' = [thread EXCEPT ![c] = [at |-> "check", handle |-> h]]
            ELSE UNCHANGED <<refs, thread>>
  /\ UNCHANGED <<life, conn, connected, m_content, IsMoving, ring, leaving, m_msgQueue, sessions,
                 m_sessionCount, moving, inside, disturbed, moves, frames>>

EndLoop(c) ==
  /\ thread[c].at = "loop" /\ todo[c] = {}
  /\ thread' = [thread EXCEPT ![c] = Idle]
  /\ UNCHANGED <<slotVars, contentVars, moving, inside, disturbed, moves, frames>>

\* Faulty variant: the loop does not look whether the session is moving.
NoCheckMoving(c) ==
  /\ thread[c].at = "check"
  /\ thread' = [thread EXCEPT ![c].at = "take"]
  /\ UNCHANGED <<slotVars, contentVars, moving, inside, disturbed, moves, frames>>

CheckMoving(c) ==
  /\ thread[c].at = "check" /\ ~IsMoving[thread[c].handle[1]]
  /\ thread' = [thread EXCEPT ![c].at = "take"]
  /\ UNCHANGED <<slotVars, contentVars, moving, inside, disturbed, moves, frames>>

\* A whole frame is taken from the ring; OnRecv is about to run.
TakeFrame(c) ==
  /\ thread[c].at = "take" /\ ring[thread[c].handle[1]] > 0
  /\ ring' = [ring EXCEPT ![thread[c].handle[1]] = @ - 1]
  /\ thread' = [thread EXCEPT ![c].at = "receiving"]
  /\ UNCHANGED <<life, conn, refs, connected, m_content, IsMoving, leaving, contentVars, moving,
                 inside, disturbed, moves, frames>>

RecvReturns(c) ==
  /\ thread[c].at = "receiving" /\ moving[c].step = "none"
  /\ thread' = [thread EXCEPT ![c].at = "check"]
  /\ UNCHANGED <<slotVars, contentVars, moving, inside, disturbed, moves, frames>>

\* The session is moving, or there is nothing more to read: ReturnSession.
LeaveSession(c) ==
  /\ LET s == thread[c].handle[1]
     IN /\ \/ thread[c].at = "check" /\ IsMoving[s]
           \/ thread[c].at = "take" /\ ring[s] = 0
        /\ Dropped(s, m_msgQueue)
  /\ thread' = [thread EXCEPT ![c] = [at |-> "loop", handle |-> NoHandle]]
  /\ UNCHANGED <<conn, connected, m_content, sessions, m_sessionCount, todo, moving, inside, disturbed,
                 moves, frames>>

-----------------------------------------------------------------------------
Worker(s) == WorkerReturns(s) \/ ClientLeave(s) \/ MoveLeave(s) \/ MoveEnter(s)

Update(c) == HandleEnter(c) \/ EnterReturns(c) \/ HandleLeave(c) \/ HandleRelease(c)
               \/ StartLoop(c) \/ FindNext(c) \/ EndLoop(c) \/ CheckMoving(c) \/ TakeFrame(c)
               \/ RecvReturns(c) \/ LeaveSession(c) \/ MoveLeave(c) \/ MoveEnter(c)

Next ==
  \/ \E s \in Slots : Connect(s) \/ ReceiveFrame(s) \/ PeerCloses(s) \/ Worker(s)
  \/ \E c \in Contents : Update(c)
  \/ \E t \in Threads : MoveContent(t)

Spec == Init /\ [][Next]_vars

\* The workers run: they return from callbacks, serve the leave completion and
\* the update that every content posts again after each Update.
FairSpec == Spec /\ \A s \in Slots : WF_vars(Worker(s)) /\ \A c \in Contents : WF_vars(Update(c))

-----------------------------------------------------------------------------
\* NetLib_Content.cpp:58, NetLib_Server.cpp:834-846: a session's content ring
\* has one reader, although the session is in the maps of two contents while
\* it moves; unless IsMoving was reset by somebody else's message or move.
SingleReader ==
  disturbed \/ \A c, d \in Contents :
    thread[c].at = "take" /\ thread[d].at = "take" /\ thread[c].handle = thread[d].handle => c = d

\* NetLib_Content.cpp:22, 77, 113, 123: a content's OnRecv comes between its
\* OnEnter and its OnLeave or OnRelease of that handle.
OnRecvInside ==
  [][\A c \in Contents :
       thread[c].at = "take" /\ thread'[c].at = "receiving" =>
         disturbed \/ c \in inside[thread[c].handle]]_vars

\* NetLib_Content.cpp:20-31, 98: a content keeps a handle in its map as long as
\* the session is in it, or the message that takes it out is on its way; its
\* count agrees with the map.
NoGhosts ==
  disturbed \/ \A c \in Contents :
    /\ \A h \in sessions[c] :
         \/ Current(h[1]) = h /\ m_content[h[1]] = c /\ life[h[1]] # "free"
         \/ Pending(c, "LEAVE", h)
    /\ m_sessionCount[c] = Cardinality(sessions[c])

\* NetLib_Server.cpp:746-775, NetLib_Content.cpp:115-118: a released slot has
\* exactly one who gives its index back: the leave completion or one RELEASE.
ReleasedOnce ==
  \A s \in Slots :
    Cardinality(Posted("RELEASE", s, m_msgQueue)) + (IF leaving[s] THEN 1 ELSE 0)
    = (IF life[s] = "released" THEN 1 ELSE 0)

\* NetLib_Server.cpp:744-775, NetLib_Content.cpp:96-119: a session whose
\* connection has ended gives its slot back, wherever it was moved meanwhile.
ClosedReturns == \A s \in Slots : (life[s] # "free" /\ ~connected[s]) ~> life[s] = "free"
=============================================================================
