----------------------------- MODULE ChatServer -----------------------------
(***************************************************************************)
(* The login, the sectors and the leaving of ChatServer (main.cpp,         *)
(* SectorMap.cpp), as callbacks of the library: SessionLifecycle says when *)
(* a handle is joined and left, and a session's callbacks do not overlap.  *)
(* The callbacks of different sessions run on different workers, beside    *)
(* the content thread with its timeouts.                                   *)
(*                                                                         *)
(* A section under one of the three table locks waits for nothing inside   *)
(* and is one step.  The locks of the sectors are taken one at a time.     *)
(* A session has at most one Player, which is named by its handle.  Times  *)
(* are left out: a session may be found too old whenever it is looked at.  *)
(***************************************************************************)
EXTENDS Integers, FiniteSetsExt

CONSTANTS
    Slots, Ids,         \* of the library
    Accounts,           \* the account numbers
    NoAccount, NoHandle,
    SECTOR_MAX_X, SECTOR_MAX_Y,
    MaxCollected        \* bounds what one look of the content thread collects

VARIABLES
    live, joined, left, \* of the library
    closing,            \* the handles disconnected by either side
    waiting,            \* waiting: joined and not logged in
    sessions_accNo,     \* sessions_accNo: the session of an account
    players,            \* the keys of players_sessionHandle
    accNo,              \* the account a session logs in with, its Player's AccNo
    curSector,          \* the curSector of a session's Player
    members,            \* the list of players of a sector
    task,               \* where a session's callback is
    victim,             \* playerSessionHandle of a login under way
    target,             \* the sector of a move under way
    holds,              \* the sectors whose lock a session's callback holds
    gathered,           \* handlesForMulticast
    collected           \* handles the content thread is going to disconnect

libVars == <<live, joined, left>>
tableVars == <<waiting, sessions_accNo, players, accNo>>
sectorVars == <<curSector, members, target, holds, gathered>>
vars == <<libVars, closing, tableVars, sectorVars, task, victim, collected>>

Lib == INSTANCE SessionLifecycle
Handles == Lib!Handles

\* A sector of the map is its ID; voidSector, outside of it, was never given one.
Sectors == 0 .. (SECTOR_MAX_X * SECTOR_MAX_Y - 1)
voidSector == -1
AllSectors == Sectors \cup {voidSector}
ID(s) == IF s = voidSector THEN 0 ELSE s

\* What a client may ask for: one position is off the map.
Positions == 0 .. (SECTOR_MAX_X * SECTOR_MAX_Y)

onMap(s) == s \in Sectors

aroundSectors(s) ==
    IF s = voidSector THEN {}
    ELSE {r \in Sectors :
            /\ (r % SECTOR_MAX_X) - (s % SECTOR_MAX_X) \in -1 .. 1
            /\ (r \div SECTOR_MAX_X) - (s \div SECTOR_MAX_X) \in -1 .. 1}

ASSUME ConstantsAssumption ==
    /\ SECTOR_MAX_X \in Nat \ {0} /\ SECTOR_MAX_Y \in Nat \ {0} /\ MaxCollected \in Nat
    /\ NoHandle \notin Handles /\ NoAccount \notin Accounts

Init ==
    /\ Lib!Init
    /\ closing = {} /\ waiting = {} /\ players = {} /\ collected = {}
    /\ sessions_accNo = [a \in Accounts |-> NoHandle]
    /\ accNo = [h \in Handles |-> NoAccount]
    /\ curSector = [h \in Handles |-> voidSector]
    /\ members = [s \in AllSectors |-> {}]
    /\ task = [h \in Handles |-> "none"]
    /\ victim = [h \in Handles |-> NoHandle]
    /\ target = [h \in Handles |-> voidSector]
    /\ holds = [h \in Handles |-> {}]
    /\ gathered = [h \in Handles |-> {}]

GoTo(h, t) == task' = [task EXCEPT ![h] = t]

\* Disconnect finds the session until OnClientLeave.
Disconnect(h) == closing' = closing \cup ({h} \cap (joined \ left))

-----------------------------------------------------------------------------
(* The library and the peers.                                              *)

Accept(h) == Lib!Allocate(h) /\ UNCHANGED <<closing, tableVars, sectorVars, task, victim, collected>>

PeerCloses(h) ==
    /\ h \in (joined \ left) \ closing
    /\ Disconnect(h)
    /\ UNCHANGED <<libVars, tableVars, sectorVars, task, victim, collected>>

Recycle(h) ==
    /\ task[h] = "gone"
    /\ Lib!Recycle(h)
    /\ UNCHANGED <<closing, tableVars, sectorVars, task, victim, collected>>

OnClientJoin(h) ==
    /\ Lib!Join(h)
    /\ waiting' = waiting \cup {h}
    /\ UNCHANGED <<closing, sessions_accNo, players, accNo, sectorVars, task, victim, collected>>

\* A message of h is handed to OnRecv: no other callback of h is under way.
OnRecv(h) == h \in joined \ left /\ task[h] = "none"

\* An unknown type, another account, a text too long.
BadMessage(h) ==
    /\ OnRecv(h)
    /\ h \notin closing
    /\ Disconnect(h)
    /\ UNCHANGED <<libVars, tableVars, sectorVars, task, victim, collected>>

-----------------------------------------------------------------------------
(* en_PACKET_CS_CHAT_REQ_LOGIN.                                            *)

LoginStart(h, a) ==
    /\ OnRecv(h)
    /\ IF h \in waiting
         THEN /\ waiting' = waiting \ {h}
              /\ accNo' = [accNo EXCEPT ![h] = a]
              /\ GoTo(h, "redis")
              /\ UNCHANGED closing
         ELSE Disconnect(h) /\ UNCHANGED <<waiting, accNo, task>>
    /\ UNCHANGED <<libVars, sessions_accNo, players, sectorVars, victim, collected>>

\* No session key in Redis, or another one.
RedisRefuses(h) ==
    /\ task[h] = "redis"
    /\ Disconnect(h)
    /\ accNo' = [accNo EXCEPT ![h] = NoAccount]
    /\ GoTo(h, "none")
    /\ UNCHANGED <<libVars, waiting, sessions_accNo, players, sectorVars, victim, collected>>

RedisAgrees(h) ==
    /\ task[h] = "redis"
    /\ GoTo(h, "claim")
    /\ UNCHANGED <<libVars, closing, tableVars, sectorVars, victim, collected>>

\* Under lock_players_accNo: the account goes to h, whoever had it.
ClaimAccount(h) ==
    /\ task[h] = "claim"
    /\ victim' = [victim EXCEPT ![h] = sessions_accNo[accNo[h]]]
    /\ sessions_accNo' = [sessions_accNo EXCEPT ![accNo[h]] = h]
    /\ GoTo(h, IF sessions_accNo[accNo[h]] = NoHandle THEN "insert" ELSE "kick")
    /\ UNCHANGED <<libVars, closing, waiting, players, accNo, sectorVars, collected>>

KickDuplicate(h) ==
    /\ task[h] = "kick"
    /\ Disconnect(victim[h])
    /\ victim' = [victim EXCEPT ![h] = NoHandle]
    /\ GoTo(h, "insert")
    /\ UNCHANGED <<libVars, tableVars, sectorVars, collected>>

InsertPlayer(h) ==
    /\ task[h] = "insert"
    /\ players' = players \cup {h}
    /\ curSector' = [curSector EXCEPT ![h] = voidSector]
    /\ GoTo(h, "none")
    /\ UNCHANGED <<libVars, closing, waiting, sessions_accNo, accNo, members, target, holds,
                   gathered, victim, collected>>

-----------------------------------------------------------------------------
(* The locks of the sectors.  Who is in moveSecond holds its lock          *)
(* exclusively, who is in gather or read holds its locks shared.           *)

CanShare(s) == \A g \in Handles : s \in holds[g] => task[g] # "moveSecond"

\* Faulty variant: a move takes its locks shared.
CanLockShared(s) == CanShare(s)

CanLock(s) == \A g \in Handles : s \notin holds[g]

\* Faulty variant: the current sector first, whatever the IDs are.
firstLockCurrent(h) == curSector[h]

firstLock(h) == IF ID(target[h]) > ID(curSector[h]) THEN curSector[h] ELSE target[h]
secondLock(h) == IF firstLock(h) = curSector[h] THEN target[h] ELSE curSector[h]
nextShared(h) == Min(aroundSectors(curSector[h]) \ holds[h])

(* en_PACKET_CS_CHAT_REQ_SECTOR_MOVE.                                      *)

SectorMove(h, s) ==
    /\ OnRecv(h)
    /\ IF h \notin players \/ ~onMap(s)
         THEN Disconnect(h) /\ UNCHANGED <<task, target>>
         ELSE /\ s # curSector[h]       \* otherwise nothing changes
              /\ target' = [target EXCEPT ![h] = s]
              /\ GoTo(h, "moveFirst")
              /\ UNCHANGED closing
    /\ UNCHANGED <<libVars, tableVars, curSector, members, holds, gathered, victim, collected>>

MoveFirst(h) ==
    /\ task[h] = "moveFirst"
    /\ CanLock(firstLock(h))
    /\ holds' = [holds EXCEPT ![h] = {firstLock(h)}]
    /\ GoTo(h, "moveSecond")
    /\ UNCHANGED <<libVars, closing, tableVars, curSector, members, target, gathered, victim,
                   collected>>

\* The second lock, the move, and both locks released.
MoveSecond(h) ==
    /\ task[h] = "moveSecond"
    /\ CanLock(secondLock(h))
    /\ members' = [members EXCEPT ![curSector[h]] = @ \ {h}, ![target[h]] = @ \cup {h}]
    /\ curSector' = [curSector EXCEPT ![h] = target[h]]
    /\ target' = [target EXCEPT ![h] = voidSector]
    /\ holds' = [holds EXCEPT ![h] = {}]
    /\ GoTo(h, "none")
    /\ UNCHANGED <<libVars, closing, tableVars, gathered, victim, collected>>

(* en_PACKET_CS_CHAT_REQ_MESSAGE and SendAroundSector.                     *)

Chat(h) ==
    /\ OnRecv(h)
    /\ IF h \notin players
         THEN Disconnect(h) /\ UNCHANGED task
         ELSE /\ curSector[h] # voidSector      \* it has no sectors around it
              /\ GoTo(h, "gather")
              /\ UNCHANGED closing
    /\ UNCHANGED <<libVars, tableVars, sectorVars, victim, collected>>

\* AcquireAroundSectorsShared, in the order of the IDs.
AcquireShared(h) ==
    /\ task[h] = "gather"
    /\ CanShare(nextShared(h))
    /\ holds' = [holds EXCEPT ![h] = @ \cup {nextShared(h)}]
    /\ GoTo(h, IF holds'[h] = aroundSectors(curSector[h]) THEN "read" ELSE "gather")
    /\ UNCHANGED <<libVars, closing, tableVars, curSector, members, target, gathered, victim,
                   collected>>

\* The own sector first, as in aroundSectors; each is released once it is read.
ReadSector(h) ==
    /\ task[h] = "read"
    /\ LET s == IF curSector[h] \in holds[h] THEN curSector[h] ELSE Min(holds[h])
       IN  /\ gathered' = [gathered EXCEPT ![h] = @ \cup members[s]]
           /\ holds' = [holds EXCEPT ![h] = @ \ {s}]
    /\ GoTo(h, IF holds'[h] = {} THEN "multicast" ELSE "read")
    /\ UNCHANGED <<libVars, closing, tableVars, curSector, members, target, victim, collected>>

Multicast(h) ==
    /\ task[h] = "multicast"
    /\ gathered' = [gathered EXCEPT ![h] = {}]
    /\ GoTo(h, "none")
    /\ UNCHANGED <<libVars, closing, tableVars, curSector, members, target, holds, victim, collected>>

(* en_PACKET_CS_CHAT_REQ_HEARTBEAT searches players without its lock: what  *)
(* it finds while another worker inserts or erases is not determined.      *)

Heartbeat(h) ==
    /\ OnRecv(h)
    /\ \/ h \notin players
       \/ \E g \in Handles \ {h} : task[g] \in {"insert", "leavePlayers"}
    /\ Disconnect(h)
    /\ UNCHANGED <<libVars, tableVars, sectorVars, task, victim, collected>>

-----------------------------------------------------------------------------
(* OnClientLeave.                                                          *)

OnClientLeave(h) ==
    /\ task[h] = "none"
    /\ h \in closing
    /\ Lib!Leave(h)
    /\ waiting' = waiting \ {h}
    /\ GoTo(h, "leavePlayers")
    /\ UNCHANGED <<closing, sessions_accNo, players, accNo, sectorVars, victim, collected>>

\* Faulty variant: the Player stays in its sector's list.
LeavePlayersOnly(h) ==
    /\ task[h] = "leavePlayers"
    /\ players' = players \ {h}
    /\ GoTo(h, IF h \in players THEN "leaveAccount" ELSE "gone")
    /\ UNCHANGED <<libVars, closing, waiting, sessions_accNo, accNo, sectorVars, victim, collected>>

LeavePlayers(h) ==
    /\ task[h] = "leavePlayers"
    /\ players' = players \ {h}
    /\ GoTo(h, IF h \in players THEN "leaveSector" ELSE "gone")
    /\ UNCHANGED <<libVars, closing, waiting, sessions_accNo, accNo, sectorVars, victim, collected>>

LeaveSector(h) ==
    /\ task[h] = "leaveSector"
    /\ CanLock(curSector[h])
    /\ members' = [members EXCEPT ![curSector[h]] = @ \ {h}]
    /\ GoTo(h, "leaveAccount")
    /\ UNCHANGED <<libVars, closing, tableVars, curSector, target, holds, gathered, victim,
                   collected>>

\* Faulty variant: the account is given up whosever it is now.
LeaveAccountUnchecked(h) ==
    /\ task[h] = "leaveAccount"
    /\ sessions_accNo' = [sessions_accNo EXCEPT ![accNo[h]] = NoHandle]
    /\ accNo' = [accNo EXCEPT ![h] = NoAccount]
    /\ curSector' = [curSector EXCEPT ![h] = voidSector]
    /\ GoTo(h, "gone")
    /\ UNCHANGED <<libVars, closing, waiting, players, members, target, holds, gathered, victim,
                   collected>>

\* The account is given up if it is still this session's; the Player goes
\* back to its pool.
LeaveAccount(h) ==
    /\ task[h] = "leaveAccount"
    /\ sessions_accNo' = IF sessions_accNo[accNo[h]] = h
                           THEN [sessions_accNo EXCEPT ![accNo[h]] = NoHandle]
                           ELSE sessions_accNo
    /\ accNo' = [accNo EXCEPT ![h] = NoAccount]
    /\ curSector' = [curSector EXCEPT ![h] = voidSector]
    /\ GoTo(h, "gone")
    /\ UNCHANGED <<libVars, closing, waiting, players, members, target, holds, gathered, victim,
                   collected>>

-----------------------------------------------------------------------------
(* The content thread: who is too old is collected under a shared lock and *)
(* disconnected after it.                                                  *)

Batches(S) == {B \in SUBSET S : Cardinality(B) \in 1 .. MaxCollected}

Login_Timeout ==
    /\ collected = {}
    /\ collected' \in Batches(waiting)
    /\ UNCHANGED <<libVars, closing, tableVars, sectorVars, task, victim>>

Timeout ==
    /\ collected = {}
    /\ collected' \in Batches(players)
    /\ UNCHANGED <<libVars, closing, tableVars, sectorVars, task, victim>>

\* More messages or moves in a second than allowed, found by Timeout.
DisconnectBusy(h) ==
    /\ h \in players \ closing
    /\ Disconnect(h)
    /\ UNCHANGED <<libVars, tableVars, sectorVars, task, victim, collected>>

DisconnectCollected(h) ==
    /\ h \in collected
    /\ Disconnect(h)
    /\ collected' = collected \ {h}
    /\ UNCHANGED <<libVars, tableVars, sectorVars, task, victim>>

-----------------------------------------------------------------------------
Callback(h) ==
    \/ OnClientJoin(h) \/ BadMessage(h) \/ Heartbeat(h) \/ Chat(h)
    \/ \E a \in Accounts : LoginStart(h, a)
    \/ \E s \in Positions : SectorMove(h, s)
    \/ RedisRefuses(h) \/ RedisAgrees(h) \/ ClaimAccount(h) \/ KickDuplicate(h) \/ InsertPlayer(h)
    \/ MoveFirst(h) \/ MoveSecond(h)
    \/ AcquireShared(h) \/ ReadSector(h) \/ Multicast(h)
    \/ OnClientLeave(h) \/ LeavePlayers(h) \/ LeaveSector(h) \/ LeaveAccount(h)

Next ==
    \/ \E h \in Handles : \/ Callback(h) \/ DisconnectBusy(h) \/ DisconnectCollected(h)
                          \/ Accept(h) \/ PeerCloses(h) \/ Recycle(h)
    \/ Login_Timeout \/ Timeout

Spec == Init /\ [][Next]_vars

-----------------------------------------------------------------------------
(* One session per account: a player whose account now belongs to another  *)
(* session, or to none, has been disconnected, or the login that took the  *)
(* account over is about to do it (the duplicate branch of the login and   *)
(* the comparison in OnClientLeave).                                       *)
SupersededIsClosed ==
    \A h \in players \cup {g \in Handles : task[g] \in {"kick", "insert"}} :
        \/ sessions_accNo[accNo[h]] = h
        \/ h \in closing \cup {victim[g] : g \in Handles}

(* After OnClientLeave no table, no sector and no broadcast that has yet   *)
(* to read its sector reaches the session or the Player that was freed.    *)
NothingOutlivesLeave ==
    \A h \in Handles : task[h] = "gone" =>
        /\ h \notin waiting \cup players
        /\ \A a \in Accounts : sessions_accNo[a] # h
        /\ \A s \in AllSectors : h \notin members[s]

(* The locks of the sectors are taken in one order by moves, broadcasts    *)
(* and leaves: there is no circle of sessions each of which waits for the  *)
(* next.  A shared request also waits behind a queued exclusive one.       *)
WaitsExclusive(h, s) ==
    \/ task[h] = "moveFirst" /\ s = firstLock(h)
    \/ task[h] = "moveSecond" /\ s = secondLock(h)
    \/ task[h] = "leaveSector" /\ s = curSector[h]
WaitsShared(h, s) == task[h] = "gather" /\ s = nextShared(h)
WaitsFor(h, g) ==
    \E s \in AllSectors :
        \/ WaitsExclusive(h, s) /\ s \in holds[g]
        \/ WaitsShared(h, s) /\ WaitsExclusive(g, s)
        \/ WaitsShared(h, s) /\ s \in holds[g] /\ task[g] = "moveSecond"
NoLockCycle ==
    \A T \in (SUBSET Handles) \ {{}} : \E h \in T : \A g \in T : ~WaitsFor(h, g)

(* A broadcast goes to those who were around the speaker at one moment,    *)
(* when SendAroundSector had all its locks: what has been gathered and     *)
(* what is still to be read stay the same together while it releases them. *)
Heard(h) == gathered[h] \cup UNION {members[s] : s \in holds[h]}
ChatIsASnapshot ==
    [][\A h \in Handles : task[h] = "read" => Heard(h)' = Heard(h)]_vars
=============================================================================
