-------------------------- MODULE ChatServerProofs --------------------------
(***************************************************************************)
(* The safety properties of ChatServer hold for every number of sessions   *)
(* and accounts and on every map: an account has one session that is not   *)
(* being disconnected, nothing reaches a session that has left, the locks  *)
(* of the sectors are taken in one order, and a broadcast goes to those    *)
(* who were around the speaker at one moment.                              *)
(***************************************************************************)
EXTENDS ChatServer, WellFoundedInduction, TLAPS

LoginSteps  == {"redis", "claim", "kick", "insert"}
PlayerSteps == {"moveFirst", "moveSecond", "gather", "read", "multicast"}
LeaveSteps  == {"leavePlayers", "leaveSector", "leaveAccount", "gone"}

Typed ==
    /\ joined \subseteq Handles /\ left \subseteq Handles
    /\ waiting \subseteq Handles /\ players \subseteq Handles
    /\ sessions_accNo \in [Accounts -> Handles \cup {NoHandle}]
    /\ accNo \in [Handles -> Accounts \cup {NoAccount}]
    /\ curSector \in [Handles -> AllSectors]
    /\ target \in [Handles -> AllSectors]
    /\ members \in [AllSectors -> SUBSET Handles]
    /\ task \in [Handles -> {"none"} \cup LoginSteps \cup PlayerSteps \cup LeaveSteps]
    /\ victim \in [Handles -> Handles \cup {NoHandle}]
    /\ holds \in [Handles -> SUBSET AllSectors]
    /\ gathered \in [Handles -> SUBSET Handles]

\* Where a session is in its life: it waits, logs in, is a player, leaves.
Stage(h) ==
    /\ h \in waiting => task[h] = "none" /\ h \in joined /\ h \notin left /\ h \notin players
    /\ h \in left <=> task[h] \in LeaveSteps
    /\ h \in left => h \in closing
    /\ h \in players \/ task[h] # "none" => h \in joined
    /\ h \in players => task[h] \in {"none", "leavePlayers"} \cup PlayerSteps
    /\ task[h] \in PlayerSteps => h \in players
    /\ h \in players \/ task[h] \in LoginSteps \cup {"leaveSector", "leaveAccount"}
          => accNo[h] \in Accounts
    /\ victim[h] # NoHandle <=> task[h] = "kick"

\* An account leads to a session that has it and has yet to give it up.
AccountsOwned ==
    \A a \in Accounts, h \in Handles : sessions_accNo[a] = h =>
        /\ accNo[h] = a
        /\ h \in players \/ task[h] \in {"kick", "insert", "leaveSector", "leaveAccount"}

\* Only a player is in a sector's list, and in that of its own sector.
MembersPlaced ==
    \A s \in AllSectors : \A h \in members[s] :
        /\ curSector[h] = s
        /\ h \in players \/ task[h] = "leaveSector"

\* The locks a callback holds, in the order it takes them.
Locks(h) ==
    /\ task[h] \in {"moveFirst", "moveSecond"} => target[h] \in Sectors /\ target[h] # curSector[h]
    /\ task[h] = "moveSecond" => holds[h] = {firstLock(h)}
    /\ task[h] \in {"gather", "read"} => holds[h] \subseteq aroundSectors(curSector[h])
    /\ task[h] = "gather" =>
          /\ holds[h] # aroundSectors(curSector[h])
          /\ \A s \in holds[h], r \in aroundSectors(curSector[h]) \ holds[h] : s < r
    /\ task[h] = "read" => holds[h] # {}
    /\ task[h] \notin {"moveSecond", "gather", "read"} => holds[h] = {}

\* Who has locked a sector exclusively has it alone.
Exclusive ==
    \A g, h \in Handles : task[g] = "moveSecond" /\ g # h => holds[g] \cap holds[h] = {}

Stages == \A h \in Handles : Stage(h)
LocksOrdered == (\A h \in Handles : Locks(h)) /\ Exclusive

IInv == Typed /\ Stages /\ AccountsOwned /\ MembersPlaced /\ SupersededIsClosed /\ LocksOrdered

-----------------------------------------------------------------------------
(* The map.                                                                *)

LEMMA SectorFacts ==
    /\ Sectors \subseteq Nat /\ voidSector \in Int /\ voidSector = -1 /\ voidSector \notin Sectors
    /\ AllSectors = Sectors \cup {voidSector} /\ AllSectors \subseteq Int
    /\ \A s \in AllSectors : aroundSectors(s) \subseteq Sectors
BY ConstantsAssumption DEF Sectors, AllSectors, voidSector, aroundSectors

LEMMA AroundHasSelf ==
    ASSUME NEW s \in Sectors
    PROVE  s \in aroundSectors(s)
<1>1. s \in Nat /\ SECTOR_MAX_X \in Nat \ {0}
  BY ConstantsAssumption DEF Sectors
<1>2. s % SECTOR_MAX_X \in Int /\ s \div SECTOR_MAX_X \in Int
  BY <1>1
<1>3. s # voidSector
  BY <1>1 DEF voidSector
<1>. QED  BY <1>2, <1>3 DEF aroundSectors

LEMMA MinIsLeast ==
    ASSUME NEW S, S \subseteq Nat, S # {}
    PROVE  Min(S) \in S /\ \A x \in S : Min(S) <= x
<1>. DEFINE R == OpToRel(<, Nat)
<1>1. \A x, y \in Nat : x < y => <<x, y>> \in R
  BY Zenon DEF OpToRel
<1>2. IsWellFoundedOn(R, Nat)
  BY NatLessThanWellFounded
<1>. HIDE DEF R
<1>3. PICK m \in S : \A y \in S : ~(<<y, m>> \in R)
  BY <1>2, WFMin
<1>4. ASSUME NEW y \in S PROVE m <= y
  <2>1. m \in Nat /\ y \in Nat
    OBVIOUS
  <2>2. ~(y < m)
    BY <1>1, <1>3, <2>1
  <2>. QED  BY <2>1, <2>2
<1>. QED  BY <1>4 DEF Min

-----------------------------------------------------------------------------
(* What each step keeps.                                                   *)

\* The lock a broadcast takes next, and the sector it reads next.
LEMMA NextShared ==
    ASSUME IInv, NEW h \in Handles, task[h] = "gather"
    PROVE  /\ nextShared(h) \in aroundSectors(curSector[h]) \ holds[h]
           /\ \A r \in aroundSectors(curSector[h]) \ holds[h] : nextShared(h) <= r
<1>. DEFINE R == aroundSectors(curSector[h]) \ holds[h]
<1>1. Locks(h) /\ curSector[h] \in AllSectors
  BY DEF IInv, LocksOrdered, Typed
<1>2. R \subseteq Nat
  BY <1>1, SectorFacts
<1>3. R # {}
  BY <1>1 DEF Locks
<1>. HIDE DEF R
<1>4. Min(R) \in R /\ \A r \in R : Min(R) <= r
  BY <1>2, <1>3, MinIsLeast
<1>. QED  BY <1>4 DEF nextShared, R

LEMMA NextRead ==
    ASSUME IInv, NEW h \in Handles, task[h] = "read"
    PROVE  (IF curSector[h] \in holds[h] THEN curSector[h] ELSE Min(holds[h])) \in holds[h]
<1>1. Locks(h) /\ curSector[h] \in AllSectors
  BY DEF IInv, LocksOrdered, Typed
<1>2. holds[h] \subseteq Nat /\ holds[h] # {}
  BY <1>1, SectorFacts DEF Locks
<1>3. Min(holds[h]) \in holds[h]
  BY <1>2, MinIsLeast
<1>. QED  BY <1>3

LEMMA TypedStep == IInv /\ [Next]_vars => Typed'
<1>. SUFFICES ASSUME IInv /\ [Next]_vars PROVE Typed'
  OBVIOUS
<1>a. Typed /\ Stages
  BY DEF IInv
<1>. USE DEF libVars, tableVars, sectorVars
<1>1. ASSUME NEW h \in Handles, OnClientJoin(h) PROVE Typed'
  BY <1>1, <1>a DEF OnClientJoin, Lib!Join, Typed, LoginSteps, PlayerSteps, LeaveSteps,
     AllSectors, onMap
<1>2. ASSUME NEW h \in Handles, BadMessage(h) PROVE Typed'
  BY <1>2, <1>a DEF BadMessage, OnRecv, Disconnect, Typed, LoginSteps, PlayerSteps, LeaveSteps,
     AllSectors, onMap
<1>3. ASSUME NEW h \in Handles, Heartbeat(h) PROVE Typed'
  BY <1>3, <1>a DEF Heartbeat, OnRecv, Disconnect, Typed, LoginSteps, PlayerSteps, LeaveSteps,
     AllSectors, onMap
<1>4. ASSUME NEW h \in Handles, Chat(h) PROVE Typed'
  BY <1>4, <1>a DEF Chat, OnRecv, GoTo, Disconnect, Typed, LoginSteps, PlayerSteps, LeaveSteps,
     AllSectors, onMap
<1>5. ASSUME NEW h \in Handles, NEW a \in Accounts, LoginStart(h, a) PROVE Typed'
  BY <1>5, <1>a DEF LoginStart, OnRecv, GoTo, Disconnect, Typed, LoginSteps, PlayerSteps,
     LeaveSteps, AllSectors, onMap
<1>6. ASSUME NEW h \in Handles, NEW s \in Positions, SectorMove(h, s) PROVE Typed'
  BY <1>6, <1>a DEF SectorMove, OnRecv, GoTo, Disconnect, Typed, LoginSteps, PlayerSteps,
     LeaveSteps, AllSectors, onMap
<1>7. ASSUME NEW h \in Handles, RedisRefuses(h) PROVE Typed'
  BY <1>7, <1>a DEF RedisRefuses, GoTo, Disconnect, Typed, LoginSteps, PlayerSteps, LeaveSteps,
     AllSectors, onMap
<1>8. ASSUME NEW h \in Handles, RedisAgrees(h) PROVE Typed'
  BY <1>8, <1>a DEF RedisAgrees, GoTo, Typed, LoginSteps, PlayerSteps, LeaveSteps, AllSectors,
     onMap
<1>9. ASSUME NEW h \in Handles, ClaimAccount(h) PROVE Typed'
  <2>1. accNo[h] \in Accounts
    BY <1>9, <1>a DEF ClaimAccount, Stages, Stage, LoginSteps
  <2>. QED  BY <1>9, <1>a, <2>1 DEF ClaimAccount, GoTo, Typed, LoginSteps, PlayerSteps, LeaveSteps
<1>10. ASSUME NEW h \in Handles, KickDuplicate(h) PROVE Typed'
  BY <1>10, <1>a DEF KickDuplicate, GoTo, Disconnect, Typed, LoginSteps, PlayerSteps, LeaveSteps,
     AllSectors, onMap
<1>11. ASSUME NEW h \in Handles, InsertPlayer(h) PROVE Typed'
  BY <1>11, <1>a DEF InsertPlayer, GoTo, Typed, LoginSteps, PlayerSteps, LeaveSteps, AllSectors,
     onMap
<1>12. ASSUME NEW h \in Handles, MoveFirst(h) PROVE Typed'
  <2>1. firstLock(h) \in AllSectors
    BY <1>12, <1>a DEF firstLock, Typed
  <2>. QED  BY <1>12, <1>a, <2>1 DEF MoveFirst, GoTo, Typed, LoginSteps, PlayerSteps, LeaveSteps
<1>13. ASSUME NEW h \in Handles, MoveSecond(h) PROVE Typed'
  BY <1>13, <1>a DEF MoveSecond, GoTo, Typed, LoginSteps, PlayerSteps, LeaveSteps, AllSectors,
     onMap
<1>14. ASSUME NEW h \in Handles, AcquireShared(h) PROVE Typed'
  <2>1. nextShared(h) \in AllSectors
    <3>1. curSector[h] \in AllSectors /\ task[h] = "gather"
      BY <1>14, <1>a DEF AcquireShared, Typed
    <3>. QED  BY <3>1, NextShared, SectorFacts
  <2>. QED  BY <1>14, <1>a, <2>1 DEF AcquireShared, GoTo, Typed, LoginSteps, PlayerSteps,
               LeaveSteps
<1>15. ASSUME NEW h \in Handles, ReadSector(h) PROVE Typed'
  <2>. DEFINE s == IF curSector[h] \in holds[h] THEN curSector[h] ELSE Min(holds[h])
  <2>1. s \in holds[h]
    BY <1>15, NextRead DEF ReadSector
  <2>2. /\ gathered' = [gathered EXCEPT ![h] = @ \cup members[s]]
        /\ holds' = [holds EXCEPT ![h] = @ \ {s}]
    BY <1>15 DEF ReadSector
  <2>3. s \in AllSectors
    BY <1>a, <2>1 DEF Typed
  <2>. HIDE DEF s
  <2>4. gathered' \in [Handles -> SUBSET Handles]
    BY <1>a, <2>2, <2>3 DEF Typed
  <2>5. holds' \in [Handles -> SUBSET AllSectors]
    BY <1>a, <2>2 DEF Typed
  <2>6. task' \in [Handles -> {"none"} \cup LoginSteps \cup PlayerSteps \cup LeaveSteps]
    BY <1>15, <1>a DEF ReadSector, GoTo, Typed, PlayerSteps
  <2>. QED  BY <1>15, <1>a, <2>4, <2>5, <2>6 DEF ReadSector, Typed
<1>16. ASSUME NEW h \in Handles, Multicast(h) PROVE Typed'
  BY <1>16, <1>a DEF Multicast, GoTo, Typed, LoginSteps, PlayerSteps, LeaveSteps, AllSectors, onMap
<1>17. ASSUME NEW h \in Handles, OnClientLeave(h) PROVE Typed'
  BY <1>17, <1>a DEF OnClientLeave, GoTo, Lib!Leave, Typed, LoginSteps, PlayerSteps, LeaveSteps,
     AllSectors, onMap
<1>18. ASSUME NEW h \in Handles, LeavePlayers(h) PROVE Typed'
  BY <1>18, <1>a DEF LeavePlayers, GoTo, Typed, LoginSteps, PlayerSteps, LeaveSteps, AllSectors,
     onMap
<1>19. ASSUME NEW h \in Handles, LeaveSector(h) PROVE Typed'
  BY <1>19, <1>a DEF LeaveSector, GoTo, Typed, LoginSteps, PlayerSteps, LeaveSteps, AllSectors,
     onMap
<1>20. ASSUME NEW h \in Handles, LeaveAccount(h) PROVE Typed'
  BY <1>20, <1>a DEF LeaveAccount, GoTo, Typed, LoginSteps, PlayerSteps, LeaveSteps, AllSectors,
     onMap
<1>21. ASSUME NEW h \in Handles, DisconnectBusy(h) \/ DisconnectCollected(h) \/ PeerCloses(h)
       PROVE Typed'
  BY <1>21, <1>a DEF DisconnectBusy, DisconnectCollected, PeerCloses, Disconnect, Typed,
     LoginSteps, PlayerSteps, LeaveSteps, AllSectors, onMap
<1>22. ASSUME NEW h \in Handles, Accept(h) \/ Recycle(h) PROVE Typed'
  BY <1>22, <1>a DEF Accept, Recycle, Lib!Allocate, Lib!Recycle, Typed, LoginSteps, PlayerSteps,
     LeaveSteps, AllSectors, onMap
<1>23. CASE Login_Timeout \/ Timeout \/ UNCHANGED vars
  BY <1>23, <1>a DEF Login_Timeout, Timeout, vars, Typed, LoginSteps, PlayerSteps, LeaveSteps,
     AllSectors, onMap
<1>. QED
  BY <1>1, <1>2, <1>3, <1>4, <1>5, <1>6, <1>7, <1>8, <1>9, <1>10, <1>11, <1>12, <1>13, <1>14,
     <1>15, <1>16, <1>17, <1>18, <1>19, <1>20, <1>21, <1>22, <1>23
  DEF Next, Callback

LEMMA StageStep == IInv /\ [Next]_vars => Stages'
<1>. SUFFICES ASSUME IInv /\ [Next]_vars PROVE Stages'
  OBVIOUS
<1>a. Typed /\ Stages
  BY DEF IInv
<1>. USE DEF libVars, tableVars, sectorVars
<1>1. ASSUME NEW h \in Handles, OnClientJoin(h) PROVE Stages'
  BY <1>1, <1>a DEF OnClientJoin, Lib!Join, Typed, Stages, Stage, LoginSteps, PlayerSteps,
     LeaveSteps
<1>2. ASSUME NEW h \in Handles, BadMessage(h) PROVE Stages'
  BY <1>2, <1>a DEF BadMessage, OnRecv, Disconnect, Typed, Stages, Stage, LoginSteps, PlayerSteps,
     LeaveSteps
<1>3. ASSUME NEW h \in Handles, Heartbeat(h) PROVE Stages'
  BY <1>3, <1>a DEF Heartbeat, OnRecv, Disconnect, Typed, Stages, Stage, LoginSteps, PlayerSteps,
     LeaveSteps
<1>4. ASSUME NEW h \in Handles, Chat(h) PROVE Stages'
  BY <1>4, <1>a DEF Chat, OnRecv, GoTo, Disconnect, Typed, Stages, Stage, LoginSteps, PlayerSteps,
     LeaveSteps
<1>5. ASSUME NEW h \in Handles, NEW a \in Accounts, LoginStart(h, a) PROVE Stages'
  BY <1>5, <1>a DEF LoginStart, OnRecv, GoTo, Disconnect, Typed, Stages, Stage, LoginSteps,
     PlayerSteps, LeaveSteps
<1>6. ASSUME NEW h \in Handles, NEW s \in Positions, SectorMove(h, s) PROVE Stages'
  BY <1>6, <1>a DEF SectorMove, OnRecv, GoTo, Disconnect, Typed, Stages, Stage, LoginSteps,
     PlayerSteps, LeaveSteps
<1>7. ASSUME NEW h \in Handles, RedisRefuses(h) PROVE Stages'
  BY <1>7, <1>a DEF RedisRefuses, GoTo, Disconnect, Typed, Stages, Stage, LoginSteps, PlayerSteps,
     LeaveSteps
<1>8. ASSUME NEW h \in Handles, RedisAgrees(h) PROVE Stages'
  BY <1>8, <1>a DEF RedisAgrees, GoTo, Typed, Stages, Stage, LoginSteps, PlayerSteps, LeaveSteps
<1>9. ASSUME NEW h \in Handles, ClaimAccount(h) PROVE Stages'
  BY <1>9, <1>a DEF ClaimAccount, GoTo, Typed, Stages, Stage, LoginSteps, PlayerSteps, LeaveSteps
<1>10. ASSUME NEW h \in Handles, KickDuplicate(h) PROVE Stages'
  BY <1>10, <1>a DEF KickDuplicate, GoTo, Disconnect, Typed, Stages, Stage, LoginSteps,
     PlayerSteps, LeaveSteps
<1>11. ASSUME NEW h \in Handles, InsertPlayer(h) PROVE Stages'
  BY <1>11, <1>a DEF InsertPlayer, GoTo, Typed, Stages, Stage, LoginSteps, PlayerSteps, LeaveSteps
<1>12. ASSUME NEW h \in Handles, MoveFirst(h) PROVE Stages'
  BY <1>12, <1>a DEF MoveFirst, GoTo, Typed, Stages, Stage, LoginSteps, PlayerSteps, LeaveSteps
<1>13. ASSUME NEW h \in Handles, MoveSecond(h) PROVE Stages'
  BY <1>13, <1>a DEF MoveSecond, GoTo, Typed, Stages, Stage, LoginSteps, PlayerSteps, LeaveSteps
<1>14. ASSUME NEW h \in Handles, AcquireShared(h) PROVE Stages'
  BY <1>14, <1>a DEF AcquireShared, GoTo, Typed, Stages, Stage, LoginSteps, PlayerSteps, LeaveSteps
<1>15. ASSUME NEW h \in Handles, ReadSector(h) PROVE Stages'
  BY <1>15, <1>a DEF ReadSector, GoTo, Typed, Stages, Stage, LoginSteps, PlayerSteps, LeaveSteps
<1>16. ASSUME NEW h \in Handles, Multicast(h) PROVE Stages'
  BY <1>16, <1>a DEF Multicast, GoTo, Typed, Stages, Stage, LoginSteps, PlayerSteps, LeaveSteps
<1>17. ASSUME NEW h \in Handles, OnClientLeave(h) PROVE Stages'
  BY <1>17, <1>a DEF OnClientLeave, GoTo, Lib!Leave, Typed, Stages, Stage, LoginSteps,
     PlayerSteps, LeaveSteps
<1>18. ASSUME NEW h \in Handles, LeavePlayers(h) PROVE Stages'
  BY <1>18, <1>a DEF LeavePlayers, GoTo, Typed, Stages, Stage, LoginSteps, PlayerSteps, LeaveSteps
<1>19. ASSUME NEW h \in Handles, LeaveSector(h) PROVE Stages'
  BY <1>19, <1>a DEF LeaveSector, GoTo, Typed, Stages, Stage, LoginSteps, PlayerSteps, LeaveSteps
<1>20. ASSUME NEW h \in Handles, LeaveAccount(h) PROVE Stages'
  BY <1>20, <1>a DEF LeaveAccount, GoTo, Typed, Stages, Stage, LoginSteps, PlayerSteps, LeaveSteps
<1>21. ASSUME NEW h \in Handles, DisconnectBusy(h) \/ DisconnectCollected(h) \/ PeerCloses(h)
       PROVE Stages'
  BY <1>21, <1>a DEF DisconnectBusy, DisconnectCollected, PeerCloses, Disconnect, Typed, Stages,
     Stage, LoginSteps, PlayerSteps, LeaveSteps
<1>22. ASSUME NEW h \in Handles, Accept(h) \/ Recycle(h) PROVE Stages'
  BY <1>22, <1>a DEF Accept, Recycle, Lib!Allocate, Lib!Recycle, Typed, Stages, Stage, LoginSteps,
     PlayerSteps, LeaveSteps
<1>23. CASE Login_Timeout \/ Timeout \/ UNCHANGED vars
  BY <1>23, <1>a DEF Login_Timeout, Timeout, vars, Typed, Stages, Stage, LoginSteps, PlayerSteps,
     LeaveSteps
<1>. QED
  BY <1>1, <1>2, <1>3, <1>4, <1>5, <1>6, <1>7, <1>8, <1>9, <1>10, <1>11, <1>12, <1>13, <1>14,
     <1>15, <1>16, <1>17, <1>18, <1>19, <1>20, <1>21, <1>22, <1>23
  DEF Next, Callback

\* The tables and lists.
LEMMA AccountsStep == IInv /\ [Next]_vars => AccountsOwned'
<1>. SUFFICES ASSUME IInv /\ [Next]_vars PROVE AccountsOwned'
  OBVIOUS
<1>a. Typed /\ Stages /\ AccountsOwned
  BY DEF IInv
<1>. USE DEF libVars, tableVars, sectorVars
<1>1. ASSUME NEW h \in Handles, OnClientJoin(h) PROVE AccountsOwned'
  BY <1>1, <1>a DEF OnClientJoin, Lib!Join, Typed, Stages, Stage, AccountsOwned, LoginSteps,
     PlayerSteps, LeaveSteps
<1>2. ASSUME NEW h \in Handles, BadMessage(h) PROVE AccountsOwned'
  BY <1>2, <1>a DEF BadMessage, OnRecv, Disconnect, Typed, Stages, Stage, AccountsOwned,
     LoginSteps, PlayerSteps, LeaveSteps
<1>3. ASSUME NEW h \in Handles, Heartbeat(h) PROVE AccountsOwned'
  BY <1>3, <1>a DEF Heartbeat, OnRecv, Disconnect, Typed, Stages, Stage, AccountsOwned,
     LoginSteps, PlayerSteps, LeaveSteps
<1>4. ASSUME NEW h \in Handles, Chat(h) PROVE AccountsOwned'
  BY <1>4, <1>a DEF Chat, OnRecv, GoTo, Disconnect, Typed, Stages, Stage, AccountsOwned,
     LoginSteps, PlayerSteps, LeaveSteps
<1>5. ASSUME NEW h \in Handles, NEW a \in Accounts, LoginStart(h, a) PROVE AccountsOwned'
  BY <1>5, <1>a DEF LoginStart, OnRecv, GoTo, Disconnect, Typed, Stages, Stage, AccountsOwned,
     LoginSteps, PlayerSteps, LeaveSteps
<1>6. ASSUME NEW h \in Handles, NEW s \in Positions, SectorMove(h, s) PROVE AccountsOwned'
  BY <1>6, <1>a DEF SectorMove, OnRecv, GoTo, Disconnect, Typed, Stages, Stage, AccountsOwned,
     LoginSteps, PlayerSteps, LeaveSteps
<1>7. ASSUME NEW h \in Handles, RedisRefuses(h) PROVE AccountsOwned'
  BY <1>7, <1>a DEF RedisRefuses, GoTo, Disconnect, Typed, Stages, Stage, AccountsOwned,
     LoginSteps, PlayerSteps, LeaveSteps
<1>8. ASSUME NEW h \in Handles, RedisAgrees(h) PROVE AccountsOwned'
  BY <1>8, <1>a DEF RedisAgrees, GoTo, Typed, Stages, Stage, AccountsOwned, LoginSteps,
     PlayerSteps, LeaveSteps
<1>9. ASSUME NEW h \in Handles, ClaimAccount(h) PROVE AccountsOwned'
  BY <1>9, <1>a DEF ClaimAccount, GoTo, Typed, Stages, Stage, AccountsOwned, LoginSteps,
     PlayerSteps, LeaveSteps
<1>10. ASSUME NEW h \in Handles, KickDuplicate(h) PROVE AccountsOwned'
  BY <1>10, <1>a DEF KickDuplicate, GoTo, Disconnect, Typed, Stages, Stage, AccountsOwned,
     LoginSteps, PlayerSteps, LeaveSteps
<1>11. ASSUME NEW h \in Handles, InsertPlayer(h) PROVE AccountsOwned'
  BY <1>11, <1>a DEF InsertPlayer, GoTo, Typed, Stages, Stage, AccountsOwned, LoginSteps,
     PlayerSteps, LeaveSteps
<1>12. ASSUME NEW h \in Handles, MoveFirst(h) PROVE AccountsOwned'
  BY <1>12, <1>a DEF MoveFirst, GoTo, Typed, Stages, Stage, AccountsOwned, LoginSteps,
     PlayerSteps, LeaveSteps
<1>13. ASSUME NEW h \in Handles, MoveSecond(h) PROVE AccountsOwned'
  BY <1>13, <1>a DEF MoveSecond, GoTo, Typed, Stages, Stage, AccountsOwned, LoginSteps,
     PlayerSteps, LeaveSteps
<1>14. ASSUME NEW h \in Handles, AcquireShared(h) PROVE AccountsOwned'
  BY <1>14, <1>a DEF AcquireShared, GoTo, Typed, Stages, Stage, AccountsOwned, LoginSteps,
     PlayerSteps, LeaveSteps
<1>15. ASSUME NEW h \in Handles, ReadSector(h) PROVE AccountsOwned'
  BY <1>15, <1>a DEF ReadSector, GoTo, Typed, Stages, Stage, AccountsOwned, LoginSteps,
     PlayerSteps, LeaveSteps
<1>16. ASSUME NEW h \in Handles, Multicast(h) PROVE AccountsOwned'
  BY <1>16, <1>a DEF Multicast, GoTo, Typed, Stages, Stage, AccountsOwned, LoginSteps,
     PlayerSteps, LeaveSteps
<1>17. ASSUME NEW h \in Handles, OnClientLeave(h) PROVE AccountsOwned'
  BY <1>17, <1>a DEF OnClientLeave, GoTo, Lib!Leave, Typed, Stages, Stage, AccountsOwned,
     LoginSteps, PlayerSteps, LeaveSteps
<1>18. ASSUME NEW h \in Handles, LeavePlayers(h) PROVE AccountsOwned'
  BY <1>18, <1>a DEF LeavePlayers, GoTo, Typed, Stages, Stage, AccountsOwned, LoginSteps,
     PlayerSteps, LeaveSteps
<1>19. ASSUME NEW h \in Handles, LeaveSector(h) PROVE AccountsOwned'
  BY <1>19, <1>a DEF LeaveSector, GoTo, Typed, Stages, Stage, AccountsOwned, LoginSteps,
     PlayerSteps, LeaveSteps
<1>20. ASSUME NEW h \in Handles, LeaveAccount(h) PROVE AccountsOwned'
  <2>1. accNo[h] \in Accounts /\ task[h] = "leaveAccount" /\ h \in Handles
    BY <1>20, <1>a DEF LeaveAccount, Stages, Stage
  <2>. SUFFICES ASSUME NEW a \in Accounts, NEW g \in Handles, sessions_accNo'[a] = g
               PROVE  /\ accNo'[g] = a
                      /\ g \in players' \/ task'[g] \in {"kick", "insert", "leaveSector", "leaveAccount"}
    BY DEF AccountsOwned
  <2>2. sessions_accNo[a] = g
    BY <1>20, <2>1, <1>a, ConstantsAssumption DEF LeaveAccount, Typed
  <2>3. g # h
    BY <1>20, <2>1, <2>2, <1>a, ConstantsAssumption DEF LeaveAccount, Typed, AccountsOwned
  <2>. QED
    BY <1>20, <2>2, <2>3, <1>a DEF LeaveAccount, GoTo, Typed, AccountsOwned
<1>21. ASSUME NEW h \in Handles, DisconnectBusy(h) \/ DisconnectCollected(h) \/ PeerCloses(h)
       PROVE AccountsOwned'
  BY <1>21, <1>a DEF DisconnectBusy, DisconnectCollected, PeerCloses, Disconnect, Typed, Stages,
     Stage, AccountsOwned, LoginSteps, PlayerSteps, LeaveSteps
<1>22. ASSUME NEW h \in Handles, Accept(h) \/ Recycle(h) PROVE AccountsOwned'
  BY <1>22, <1>a DEF Accept, Recycle, Lib!Allocate, Lib!Recycle, Typed, Stages, Stage,
     AccountsOwned, LoginSteps, PlayerSteps, LeaveSteps
<1>23. CASE Login_Timeout \/ Timeout \/ UNCHANGED vars
  BY <1>23, <1>a DEF Login_Timeout, Timeout, vars, Typed, Stages, Stage, AccountsOwned,
     LoginSteps, PlayerSteps, LeaveSteps
<1>. QED
  BY <1>1, <1>2, <1>3, <1>4, <1>5, <1>6, <1>7, <1>8, <1>9, <1>10, <1>11, <1>12, <1>13, <1>14,
     <1>15, <1>16, <1>17, <1>18, <1>19, <1>20, <1>21, <1>22, <1>23
  DEF Next, Callback

LEMMA MembersStep == IInv /\ [Next]_vars => MembersPlaced'
<1>. SUFFICES ASSUME IInv /\ [Next]_vars PROVE MembersPlaced'
  OBVIOUS
<1>a. Typed /\ Stages /\ MembersPlaced
  BY DEF IInv
<1>. USE DEF libVars, tableVars, sectorVars
<1>1. ASSUME NEW h \in Handles, OnClientJoin(h) PROVE MembersPlaced'
  BY <1>1, <1>a DEF OnClientJoin, Lib!Join, Typed, Stages, Stage, MembersPlaced, AllSectors,
     onMap, LoginSteps, PlayerSteps, LeaveSteps
<1>2. ASSUME NEW h \in Handles, BadMessage(h) PROVE MembersPlaced'
  BY <1>2, <1>a DEF BadMessage, OnRecv, Disconnect, Typed, Stages, Stage, MembersPlaced,
     AllSectors, onMap, LoginSteps, PlayerSteps, LeaveSteps
<1>3. ASSUME NEW h \in Handles, Heartbeat(h) PROVE MembersPlaced'
  BY <1>3, <1>a DEF Heartbeat, OnRecv, Disconnect, Typed, Stages, Stage, MembersPlaced,
     AllSectors, onMap, LoginSteps, PlayerSteps, LeaveSteps
<1>4. ASSUME NEW h \in Handles, Chat(h) PROVE MembersPlaced'
  BY <1>4, <1>a DEF Chat, OnRecv, GoTo, Disconnect, Typed, Stages, Stage, MembersPlaced,
     AllSectors, onMap, LoginSteps, PlayerSteps, LeaveSteps
<1>5. ASSUME NEW h \in Handles, NEW a \in Accounts, LoginStart(h, a) PROVE MembersPlaced'
  BY <1>5, <1>a DEF LoginStart, OnRecv, GoTo, Disconnect, Typed, Stages, Stage, MembersPlaced,
     AllSectors, onMap, LoginSteps, PlayerSteps, LeaveSteps
<1>6. ASSUME NEW h \in Handles, NEW s \in Positions, SectorMove(h, s) PROVE MembersPlaced'
  BY <1>6, <1>a DEF SectorMove, OnRecv, GoTo, Disconnect, Typed, Stages, Stage, MembersPlaced,
     AllSectors, onMap, LoginSteps, PlayerSteps, LeaveSteps
<1>7. ASSUME NEW h \in Handles, RedisRefuses(h) PROVE MembersPlaced'
  BY <1>7, <1>a DEF RedisRefuses, GoTo, Disconnect, Typed, Stages, Stage, MembersPlaced,
     AllSectors, onMap, LoginSteps, PlayerSteps, LeaveSteps
<1>8. ASSUME NEW h \in Handles, RedisAgrees(h) PROVE MembersPlaced'
  BY <1>8, <1>a DEF RedisAgrees, GoTo, Typed, Stages, Stage, MembersPlaced, AllSectors, onMap,
     LoginSteps, PlayerSteps, LeaveSteps
<1>9. ASSUME NEW h \in Handles, ClaimAccount(h) PROVE MembersPlaced'
  BY <1>9, <1>a DEF ClaimAccount, GoTo, Typed, Stages, Stage, MembersPlaced, AllSectors, onMap,
     LoginSteps, PlayerSteps, LeaveSteps
<1>10. ASSUME NEW h \in Handles, KickDuplicate(h) PROVE MembersPlaced'
  BY <1>10, <1>a DEF KickDuplicate, GoTo, Disconnect, Typed, Stages, Stage, MembersPlaced,
     AllSectors, onMap, LoginSteps, PlayerSteps, LeaveSteps
<1>11. ASSUME NEW h \in Handles, InsertPlayer(h) PROVE MembersPlaced'
  BY <1>11, <1>a DEF InsertPlayer, GoTo, Typed, Stages, Stage, MembersPlaced, AllSectors, onMap,
     LoginSteps, PlayerSteps, LeaveSteps
<1>12. ASSUME NEW h \in Handles, MoveFirst(h) PROVE MembersPlaced'
  BY <1>12, <1>a DEF MoveFirst, GoTo, Typed, Stages, Stage, MembersPlaced, AllSectors, onMap,
     LoginSteps, PlayerSteps, LeaveSteps
<1>13. ASSUME NEW h \in Handles, MoveSecond(h) PROVE MembersPlaced'
  BY <1>13, <1>a DEF MoveSecond, GoTo, Typed, Stages, Stage, MembersPlaced, AllSectors, onMap,
     LoginSteps, PlayerSteps, LeaveSteps
<1>14. ASSUME NEW h \in Handles, AcquireShared(h) PROVE MembersPlaced'
  BY <1>14, <1>a DEF AcquireShared, GoTo, Typed, Stages, Stage, MembersPlaced, AllSectors, onMap,
     LoginSteps, PlayerSteps, LeaveSteps
<1>15. ASSUME NEW h \in Handles, ReadSector(h) PROVE MembersPlaced'
  BY <1>15, <1>a DEF ReadSector, GoTo, Typed, Stages, Stage, MembersPlaced, AllSectors, onMap,
     LoginSteps, PlayerSteps, LeaveSteps
<1>16. ASSUME NEW h \in Handles, Multicast(h) PROVE MembersPlaced'
  BY <1>16, <1>a DEF Multicast, GoTo, Typed, Stages, Stage, MembersPlaced, AllSectors, onMap,
     LoginSteps, PlayerSteps, LeaveSteps
<1>17. ASSUME NEW h \in Handles, OnClientLeave(h) PROVE MembersPlaced'
  BY <1>17, <1>a DEF OnClientLeave, GoTo, Lib!Leave, Typed, Stages, Stage, MembersPlaced,
     AllSectors, onMap, LoginSteps, PlayerSteps, LeaveSteps
<1>18. ASSUME NEW h \in Handles, LeavePlayers(h) PROVE MembersPlaced'
  BY <1>18, <1>a DEF LeavePlayers, GoTo, Typed, Stages, Stage, MembersPlaced, AllSectors, onMap,
     LoginSteps, PlayerSteps, LeaveSteps
<1>19. ASSUME NEW h \in Handles, LeaveSector(h) PROVE MembersPlaced'
  BY <1>19, <1>a DEF LeaveSector, GoTo, Typed, Stages, Stage, MembersPlaced, AllSectors, onMap,
     LoginSteps, PlayerSteps, LeaveSteps
<1>20. ASSUME NEW h \in Handles, LeaveAccount(h) PROVE MembersPlaced'
  BY <1>20, <1>a DEF LeaveAccount, GoTo, Typed, Stages, Stage, MembersPlaced, AllSectors, onMap,
     LoginSteps, PlayerSteps, LeaveSteps
<1>21. ASSUME NEW h \in Handles, DisconnectBusy(h) \/ DisconnectCollected(h) \/ PeerCloses(h)
       PROVE MembersPlaced'
  BY <1>21, <1>a DEF DisconnectBusy, DisconnectCollected, PeerCloses, Disconnect, Typed, Stages,
     Stage, MembersPlaced, AllSectors, onMap, LoginSteps, PlayerSteps, LeaveSteps
<1>22. ASSUME NEW h \in Handles, Accept(h) \/ Recycle(h) PROVE MembersPlaced'
  BY <1>22, <1>a DEF Accept, Recycle, Lib!Allocate, Lib!Recycle, Typed, Stages, Stage,
     MembersPlaced, AllSectors, onMap, LoginSteps, PlayerSteps, LeaveSteps
<1>23. CASE Login_Timeout \/ Timeout \/ UNCHANGED vars
  BY <1>23, <1>a DEF Login_Timeout, Timeout, vars, Typed, Stages, Stage, MembersPlaced,
     AllSectors, onMap, LoginSteps, PlayerSteps, LeaveSteps
<1>. QED
  BY <1>1, <1>2, <1>3, <1>4, <1>5, <1>6, <1>7, <1>8, <1>9, <1>10, <1>11, <1>12, <1>13, <1>14,
     <1>15, <1>16, <1>17, <1>18, <1>19, <1>20, <1>21, <1>22, <1>23
  DEF Next, Callback

LEMMA SupersededStep == IInv /\ [Next]_vars => SupersededIsClosed'
<1>. SUFFICES ASSUME IInv /\ [Next]_vars PROVE SupersededIsClosed'
  OBVIOUS
<1>a. Typed /\ Stages /\ AccountsOwned /\ SupersededIsClosed
  BY DEF IInv
<1>. USE DEF libVars, tableVars, sectorVars
<1>1. ASSUME NEW h \in Handles, OnClientJoin(h) PROVE SupersededIsClosed'
  BY <1>1, <1>a DEF OnClientJoin, Lib!Join, Typed, Stages, Stage, SupersededIsClosed, LoginSteps,
     PlayerSteps, LeaveSteps
<1>2. ASSUME NEW h \in Handles, BadMessage(h) PROVE SupersededIsClosed'
  BY <1>2, <1>a DEF BadMessage, OnRecv, Disconnect, Typed, Stages, Stage, SupersededIsClosed,
     LoginSteps, PlayerSteps, LeaveSteps
<1>3. ASSUME NEW h \in Handles, Heartbeat(h) PROVE SupersededIsClosed'
  BY <1>3, <1>a DEF Heartbeat, OnRecv, Disconnect, Typed, Stages, Stage, SupersededIsClosed,
     LoginSteps, PlayerSteps, LeaveSteps
<1>4. ASSUME NEW h \in Handles, Chat(h) PROVE SupersededIsClosed'
  BY <1>4, <1>a DEF Chat, OnRecv, GoTo, Disconnect, Typed, Stages, Stage, SupersededIsClosed,
     LoginSteps, PlayerSteps, LeaveSteps
<1>5. ASSUME NEW h \in Handles, NEW a \in Accounts, LoginStart(h, a) PROVE SupersededIsClosed'
  BY <1>5, <1>a DEF LoginStart, OnRecv, GoTo, Disconnect, Typed, Stages, Stage,
     SupersededIsClosed, LoginSteps, PlayerSteps, LeaveSteps
<1>6. ASSUME NEW h \in Handles, NEW s \in Positions, SectorMove(h, s) PROVE SupersededIsClosed'
  BY <1>6, <1>a DEF SectorMove, OnRecv, GoTo, Disconnect, Typed, Stages, Stage,
     SupersededIsClosed, LoginSteps, PlayerSteps, LeaveSteps
<1>7. ASSUME NEW h \in Handles, RedisRefuses(h) PROVE SupersededIsClosed'
  BY <1>7, <1>a DEF RedisRefuses, GoTo, Disconnect, Typed, Stages, Stage, SupersededIsClosed,
     LoginSteps, PlayerSteps, LeaveSteps
<1>8. ASSUME NEW h \in Handles, RedisAgrees(h) PROVE SupersededIsClosed'
  BY <1>8, <1>a DEF RedisAgrees, GoTo, Typed, Stages, Stage, SupersededIsClosed, LoginSteps,
     PlayerSteps, LeaveSteps
<1>9. ASSUME NEW h \in Handles, ClaimAccount(h) PROVE SupersededIsClosed'
  <2>1. accNo[h] \in Accounts /\ task[h] = "claim" /\ victim[h] = NoHandle
    BY <1>9, <1>a DEF ClaimAccount, Stages, Stage, LoginSteps
  <2>2. /\ victim'[h] = sessions_accNo[accNo[h]]
        /\ \A g \in Handles \ {h} : victim'[g] = victim[g] /\ task'[g] = task[g]
        /\ sessions_accNo'[accNo[h]] = h
        /\ \A a \in Accounts \ {accNo[h]} : sessions_accNo'[a] = sessions_accNo[a]
    BY <1>9, <2>1, <1>a DEF ClaimAccount, GoTo, Typed
  <2>3. closing' = closing /\ players' = players /\ accNo' = accNo
    BY <1>9 DEF ClaimAccount
  <2>. SUFFICES ASSUME NEW g \in Handles,
                      g \in players \/ task'[g] \in {"kick", "insert"}
               PROVE  \/ sessions_accNo'[accNo[g]] = g
                      \/ g \in closing \/ \E k \in Handles : victim'[k] = g
    BY <2>3, <1>a DEF SupersededIsClosed, Typed
  <2>4. CASE g = h
    BY <2>2, <2>4
  <2>5. CASE g # h
    <3>1. g \in players \/ task[g] \in {"kick", "insert"}
      BY <2>2, <2>5
    <3>2. accNo[g] \in Accounts
      BY <3>1, <1>a DEF Stages, Stage, LoginSteps
    <3>3. \/ sessions_accNo[accNo[g]] = g
          \/ g \in closing \/ \E k \in Handles : victim[k] = g
      BY <3>1, <1>a DEF SupersededIsClosed
    <3>4. CASE sessions_accNo[accNo[g]] = g
      BY <2>2, <3>2, <3>4
    <3>5. CASE \E k \in Handles : victim[k] = g
      BY <2>1, <2>2, <3>5, ConstantsAssumption
    <3>. QED  BY <3>3, <3>4, <3>5
  <2>. QED  BY <2>4, <2>5
<1>10. ASSUME NEW h \in Handles, KickDuplicate(h) PROVE SupersededIsClosed'
  BY <1>10, <1>a DEF KickDuplicate, GoTo, Disconnect, Typed, Stages, Stage, SupersededIsClosed,
     LoginSteps, PlayerSteps, LeaveSteps
<1>11. ASSUME NEW h \in Handles, InsertPlayer(h) PROVE SupersededIsClosed'
  BY <1>11, <1>a DEF InsertPlayer, GoTo, Typed, Stages, Stage, SupersededIsClosed, LoginSteps,
     PlayerSteps, LeaveSteps
<1>12. ASSUME NEW h \in Handles, MoveFirst(h) PROVE SupersededIsClosed'
  BY <1>12, <1>a DEF MoveFirst, GoTo, Typed, Stages, Stage, SupersededIsClosed, LoginSteps,
     PlayerSteps, LeaveSteps
<1>13. ASSUME NEW h \in Handles, MoveSecond(h) PROVE SupersededIsClosed'
  BY <1>13, <1>a DEF MoveSecond, GoTo, Typed, Stages, Stage, SupersededIsClosed, LoginSteps,
     PlayerSteps, LeaveSteps
<1>14. ASSUME NEW h \in Handles, AcquireShared(h) PROVE SupersededIsClosed'
  BY <1>14, <1>a DEF AcquireShared, GoTo, Typed, Stages, Stage, SupersededIsClosed, LoginSteps,
     PlayerSteps, LeaveSteps
<1>15. ASSUME NEW h \in Handles, ReadSector(h) PROVE SupersededIsClosed'
  BY <1>15, <1>a DEF ReadSector, GoTo, Typed, Stages, Stage, SupersededIsClosed, LoginSteps,
     PlayerSteps, LeaveSteps
<1>16. ASSUME NEW h \in Handles, Multicast(h) PROVE SupersededIsClosed'
  BY <1>16, <1>a DEF Multicast, GoTo, Typed, Stages, Stage, SupersededIsClosed, LoginSteps,
     PlayerSteps, LeaveSteps
<1>17. ASSUME NEW h \in Handles, OnClientLeave(h) PROVE SupersededIsClosed'
  BY <1>17, <1>a DEF OnClientLeave, GoTo, Lib!Leave, Typed, Stages, Stage, SupersededIsClosed,
     LoginSteps, PlayerSteps, LeaveSteps
<1>18. ASSUME NEW h \in Handles, LeavePlayers(h) PROVE SupersededIsClosed'
  BY <1>18, <1>a DEF LeavePlayers, GoTo, Typed, Stages, Stage, SupersededIsClosed, LoginSteps,
     PlayerSteps, LeaveSteps
<1>19. ASSUME NEW h \in Handles, LeaveSector(h) PROVE SupersededIsClosed'
  BY <1>19, <1>a DEF LeaveSector, GoTo, Typed, Stages, Stage, SupersededIsClosed, LoginSteps,
     PlayerSteps, LeaveSteps
<1>20. ASSUME NEW h \in Handles, LeaveAccount(h) PROVE SupersededIsClosed'
  BY <1>20, <1>a DEF LeaveAccount, GoTo, Typed, Stages, Stage, SupersededIsClosed, LoginSteps,
     PlayerSteps, LeaveSteps
<1>21. ASSUME NEW h \in Handles, DisconnectBusy(h) \/ DisconnectCollected(h) \/ PeerCloses(h)
       PROVE SupersededIsClosed'
  BY <1>21, <1>a DEF DisconnectBusy, DisconnectCollected, PeerCloses, Disconnect, Typed, Stages,
     Stage, SupersededIsClosed, LoginSteps, PlayerSteps, LeaveSteps
<1>22. ASSUME NEW h \in Handles, Accept(h) \/ Recycle(h) PROVE SupersededIsClosed'
  BY <1>22, <1>a DEF Accept, Recycle, Lib!Allocate, Lib!Recycle, Typed, Stages, Stage,
     SupersededIsClosed, LoginSteps, PlayerSteps, LeaveSteps
<1>23. CASE Login_Timeout \/ Timeout \/ UNCHANGED vars
  BY <1>23, <1>a DEF Login_Timeout, Timeout, vars, Typed, Stages, Stage, SupersededIsClosed,
     LoginSteps, PlayerSteps, LeaveSteps
<1>. QED
  BY <1>1, <1>2, <1>3, <1>4, <1>5, <1>6, <1>7, <1>8, <1>9, <1>10, <1>11, <1>12, <1>13, <1>14,
     <1>15, <1>16, <1>17, <1>18, <1>19, <1>20, <1>21, <1>22, <1>23
  DEF Next, Callback

\* The locks.  They depend on these fields of their own session only.
LEMMA LocksKept ==
    ASSUME NEW g \in Handles, Locks(g), UNCHANGED <<task[g], target[g], curSector[g], holds[g]>>
    PROVE  Locks(g)'
BY DEF Locks, firstLock

LEMMA LocksIdle ==
    ASSUME NEW g \in Handles, holds'[g] = {}, task'[g] \notin {"moveFirst", "moveSecond", "gather", "read"}
    PROVE  Locks(g)'
BY DEF Locks

LEMMA LocksByOne ==
    ASSUME IInv, NEW h \in Handles, Locks(h)',
           \A g \in Handles \ {h} : UNCHANGED <<task[g], target[g], curSector[g], holds[g]>>,
           \/ holds'[h] \subseteq holds[h] /\ (task'[h] = "moveSecond" => task[h] = "moveSecond")
           \/ /\ task'[h] # "moveSecond"
              /\ \E s : holds'[h] \subseteq holds[h] \cup {s} /\ CanShare(s)
           \/ \E s : holds'[h] \subseteq {s} /\ CanLock(s)
    PROVE  LocksOrdered'
<1>1. (\A g \in Handles : Locks(g)) /\ Exclusive
  BY DEF IInv, LocksOrdered
<1>2. \A g \in Handles : Locks(g)'
  BY <1>1, LocksKept
<1>3. CASE holds'[h] \subseteq holds[h] /\ (task'[h] = "moveSecond" => task[h] = "moveSecond")
  BY <1>1, <1>2, <1>3 DEF Exclusive, LocksOrdered
<1>4. ASSUME task'[h] # "moveSecond", NEW s, holds'[h] \subseteq holds[h] \cup {s}, CanShare(s)
      PROVE  Exclusive'
  BY <1>1, <1>4 DEF Exclusive, CanShare
<1>5. ASSUME NEW s, holds'[h] \subseteq {s}, CanLock(s)
      PROVE  Exclusive'
  BY <1>1, <1>5 DEF Exclusive, CanLock
<1>. QED  BY <1>2, <1>3, <1>4, <1>5 DEF LocksOrdered

LEMMA LocksStep == IInv /\ [Next]_vars => LocksOrdered'
<1>. SUFFICES ASSUME IInv /\ [Next]_vars PROVE LocksOrdered'
  OBVIOUS
<1>a. IInv /\ Typed /\ (\A h \in Handles : Stage(h) /\ Locks(h)) /\ Exclusive
  BY DEF IInv, Stages, LocksOrdered
<1>. USE DEF libVars, tableVars, sectorVars
<1>1. ASSUME NEW h \in Handles, OnClientJoin(h) PROVE LocksOrdered'
  BY <1>1, <1>a, LocksKept DEF OnClientJoin, Lib!Join, Exclusive, LocksOrdered
<1>2. ASSUME NEW h \in Handles, BadMessage(h) PROVE LocksOrdered'
  BY <1>2, <1>a, LocksKept DEF BadMessage, OnRecv, Disconnect, Exclusive, LocksOrdered
<1>3. ASSUME NEW h \in Handles, Heartbeat(h) PROVE LocksOrdered'
  BY <1>3, <1>a, LocksKept DEF Heartbeat, OnRecv, Disconnect, Exclusive, LocksOrdered
<1>4. ASSUME NEW h \in Handles, Chat(h) PROVE LocksOrdered'
  <2>1. \A g \in Handles \ {h} : UNCHANGED <<task[g], target[g], curSector[g], holds[g]>>
    BY <1>4, <1>a DEF Chat, OnRecv, GoTo, Disconnect, Typed
  <2>2. holds'[h] \subseteq holds[h] /\ (task'[h] = "moveSecond" => task[h] = "moveSecond")
    BY <1>4, <1>a DEF Chat, OnRecv, GoTo, Disconnect, Typed, Locks, LoginSteps, PlayerSteps,
       LeaveSteps
  <2>3. Locks(h)'
    <3>1. CASE task'[h] = task[h]
      BY <3>1, <1>4, <1>a, LocksKept DEF Chat, OnRecv, GoTo, Disconnect
    <3>2. CASE task'[h] = "gather" /\ curSector[h] # voidSector
      <4>1. holds'[h] = {} /\ curSector'[h] = curSector[h] /\ curSector[h] \in Sectors
        BY <3>2, <1>4, <1>a, SectorFacts DEF Chat, OnRecv, GoTo, Disconnect, Locks, Typed
      <4>2. aroundSectors(curSector[h]) # {}
        BY <4>1, AroundHasSelf
      <4>. QED  BY <3>2, <4>1, <4>2 DEF Locks
    <3>. QED  BY <3>1, <3>2, <1>4, <1>a DEF Chat, OnRecv, GoTo, Disconnect, Typed
  <2>. QED  BY <1>a, <2>1, <2>2, <2>3, LocksByOne
<1>5. ASSUME NEW h \in Handles, NEW a \in Accounts, LoginStart(h, a) PROVE LocksOrdered'
  <2>1. \A g \in Handles \ {h} : UNCHANGED <<task[g], target[g], curSector[g], holds[g]>>
    BY <1>5, <1>a DEF LoginStart, OnRecv, GoTo, Disconnect, Typed
  <2>2. holds'[h] \subseteq holds[h] /\ (task'[h] = "moveSecond" => task[h] = "moveSecond")
    BY <1>5, <1>a DEF LoginStart, OnRecv, GoTo, Disconnect, Typed, Locks, LoginSteps, PlayerSteps,
       LeaveSteps
  <2>3. Locks(h)'
    <3>1. CASE task'[h] = task[h]
      BY <3>1, <1>5, <1>a, LocksKept DEF LoginStart, OnRecv, GoTo, Disconnect
    <3>2. CASE task'[h] # task[h]
      <4>1. holds'[h] = {} /\ task'[h] \notin {"moveFirst", "moveSecond", "gather", "read"}
        BY <3>2, <1>5, <1>a DEF LoginStart, OnRecv, GoTo, Disconnect, Typed, Locks, LoginSteps,
           PlayerSteps, LeaveSteps
      <4>. QED  BY <4>1, LocksIdle
    <3>. QED  BY <3>1, <3>2
  <2>. QED  BY <1>a, <2>1, <2>2, <2>3, LocksByOne
<1>6. ASSUME NEW h \in Handles, NEW s \in Positions, SectorMove(h, s) PROVE LocksOrdered'
  <2>1. \A g \in Handles \ {h} : UNCHANGED <<task[g], target[g], curSector[g], holds[g]>>
    BY <1>6, <1>a DEF SectorMove, OnRecv, GoTo, Disconnect, Typed
  <2>2. holds'[h] \subseteq holds[h] /\ (task'[h] = "moveSecond" => task[h] = "moveSecond")
    BY <1>6, <1>a DEF SectorMove, OnRecv, GoTo, Disconnect, Typed, Locks, LoginSteps, PlayerSteps,
       LeaveSteps
  <2>3. Locks(h)'
    <3>1. CASE task'[h] = task[h] /\ target'[h] = target[h]
      BY <3>1, <1>6, <1>a, LocksKept DEF SectorMove, OnRecv, GoTo, Disconnect
    <3>2. CASE s \in Sectors /\ s # curSector[h] /\ task'[h] = "moveFirst" /\ target'[h] = s
      <4>1. holds'[h] = {} /\ curSector'[h] = curSector[h]
        BY <3>2, <1>6, <1>a DEF SectorMove, OnRecv, GoTo, Disconnect, Locks
      <4>. QED  BY <3>2, <4>1 DEF Locks
    <3>. QED  BY <3>1, <3>2, <1>6, <1>a DEF SectorMove, OnRecv, GoTo, Disconnect, onMap, Typed
  <2>. QED  BY <1>a, <2>1, <2>2, <2>3, LocksByOne
<1>7. ASSUME NEW h \in Handles, RedisRefuses(h) PROVE LocksOrdered'
  <2>1. \A g \in Handles \ {h} : UNCHANGED <<task[g], target[g], curSector[g], holds[g]>>
    BY <1>7, <1>a DEF RedisRefuses, GoTo, Disconnect, Typed
  <2>2. holds'[h] \subseteq holds[h] /\ (task'[h] = "moveSecond" => task[h] = "moveSecond")
    BY <1>7, <1>a DEF RedisRefuses, GoTo, Disconnect, Typed, Locks, LoginSteps, PlayerSteps,
       LeaveSteps
  <2>3. Locks(h)'
    <3>1. holds'[h] = {} /\ task'[h] \notin {"moveFirst", "moveSecond", "gather", "read"}
      BY <1>7, <1>a DEF RedisRefuses, GoTo, Disconnect, Typed, Locks, LoginSteps, PlayerSteps,
         LeaveSteps
    <3>. QED  BY <3>1, LocksIdle
  <2>. QED  BY <1>a, <2>1, <2>2, <2>3, LocksByOne
<1>8. ASSUME NEW h \in Handles, RedisAgrees(h) PROVE LocksOrdered'
  <2>1. \A g \in Handles \ {h} : UNCHANGED <<task[g], target[g], curSector[g], holds[g]>>
    BY <1>8, <1>a DEF RedisAgrees, GoTo, Typed
  <2>2. holds'[h] \subseteq holds[h] /\ (task'[h] = "moveSecond" => task[h] = "moveSecond")
    BY <1>8, <1>a DEF RedisAgrees, GoTo, Typed, Locks, LoginSteps, PlayerSteps, LeaveSteps
  <2>3. Locks(h)'
    <3>1. holds'[h] = {} /\ task'[h] \notin {"moveFirst", "moveSecond", "gather", "read"}
      BY <1>8, <1>a DEF RedisAgrees, GoTo, Typed, Locks, LoginSteps, PlayerSteps, LeaveSteps
    <3>. QED  BY <3>1, LocksIdle
  <2>. QED  BY <1>a, <2>1, <2>2, <2>3, LocksByOne
<1>9. ASSUME NEW h \in Handles, ClaimAccount(h) PROVE LocksOrdered'
  <2>1. \A g \in Handles \ {h} : UNCHANGED <<task[g], target[g], curSector[g], holds[g]>>
    BY <1>9, <1>a DEF ClaimAccount, GoTo, Typed
  <2>2. holds'[h] \subseteq holds[h] /\ (task'[h] = "moveSecond" => task[h] = "moveSecond")
    BY <1>9, <1>a DEF ClaimAccount, GoTo, Typed, Locks, LoginSteps, PlayerSteps, LeaveSteps
  <2>3. Locks(h)'
    <3>1. holds'[h] = {} /\ task'[h] \notin {"moveFirst", "moveSecond", "gather", "read"}
      BY <1>9, <1>a DEF ClaimAccount, GoTo, Typed, Locks, LoginSteps, PlayerSteps, LeaveSteps
    <3>. QED  BY <3>1, LocksIdle
  <2>. QED  BY <1>a, <2>1, <2>2, <2>3, LocksByOne
<1>10. ASSUME NEW h \in Handles, KickDuplicate(h) PROVE LocksOrdered'
  <2>1. \A g \in Handles \ {h} : UNCHANGED <<task[g], target[g], curSector[g], holds[g]>>
    BY <1>10, <1>a DEF KickDuplicate, GoTo, Disconnect, Typed
  <2>2. holds'[h] \subseteq holds[h] /\ (task'[h] = "moveSecond" => task[h] = "moveSecond")
    BY <1>10, <1>a DEF KickDuplicate, GoTo, Disconnect, Typed, Locks, LoginSteps, PlayerSteps,
       LeaveSteps
  <2>3. Locks(h)'
    <3>1. holds'[h] = {} /\ task'[h] \notin {"moveFirst", "moveSecond", "gather", "read"}
      BY <1>10, <1>a DEF KickDuplicate, GoTo, Disconnect, Typed, Locks, LoginSteps, PlayerSteps,
         LeaveSteps
    <3>. QED  BY <3>1, LocksIdle
  <2>. QED  BY <1>a, <2>1, <2>2, <2>3, LocksByOne
<1>11. ASSUME NEW h \in Handles, InsertPlayer(h) PROVE LocksOrdered'
  <2>1. \A g \in Handles \ {h} : UNCHANGED <<task[g], target[g], curSector[g], holds[g]>>
    BY <1>11, <1>a DEF InsertPlayer, GoTo, Typed
  <2>2. holds'[h] \subseteq holds[h] /\ (task'[h] = "moveSecond" => task[h] = "moveSecond")
    BY <1>11, <1>a DEF InsertPlayer, GoTo, Typed, Locks, LoginSteps, PlayerSteps, LeaveSteps
  <2>3. Locks(h)'
    <3>1. holds'[h] = {} /\ task'[h] \notin {"moveFirst", "moveSecond", "gather", "read"}
      BY <1>11, <1>a DEF InsertPlayer, GoTo, Typed, Locks, LoginSteps, PlayerSteps, LeaveSteps
    <3>. QED  BY <3>1, LocksIdle
  <2>. QED  BY <1>a, <2>1, <2>2, <2>3, LocksByOne
<1>12. ASSUME NEW h \in Handles, MoveFirst(h) PROVE LocksOrdered'
  <2>1. \A g \in Handles \ {h} : UNCHANGED <<task[g], target[g], curSector[g], holds[g]>>
    BY <1>12, <1>a DEF MoveFirst, GoTo, Typed
  <2>2. \E s : holds'[h] \subseteq {s} /\ CanLock(s)
    BY <1>12, <1>a DEF MoveFirst, GoTo, Typed, Locks, LoginSteps, PlayerSteps, LeaveSteps
  <2>3. Locks(h)'
    <3>1. /\ task[h] = "moveFirst" /\ task'[h] = "moveSecond" /\ holds'[h] = {firstLock(h)}
          /\ target'[h] = target[h] /\ curSector'[h] = curSector[h]
      BY <1>12, <1>a DEF MoveFirst, GoTo, Typed
    <3>2. firstLock(h)' = firstLock(h)
      BY <3>1 DEF firstLock
    <3>. QED  BY <1>a, <3>1, <3>2 DEF Locks
  <2>. QED  BY <1>a, <2>1, <2>2, <2>3, LocksByOne
<1>13. ASSUME NEW h \in Handles, MoveSecond(h) PROVE LocksOrdered'
  <2>1. \A g \in Handles \ {h} : UNCHANGED <<task[g], target[g], curSector[g], holds[g]>>
    BY <1>13, <1>a DEF MoveSecond, GoTo, Typed
  <2>2. holds'[h] \subseteq holds[h] /\ (task'[h] = "moveSecond" => task[h] = "moveSecond")
    BY <1>13, <1>a DEF MoveSecond, GoTo, Typed, Locks, LoginSteps, PlayerSteps, LeaveSteps
  <2>3. Locks(h)'
    <3>1. holds'[h] = {} /\ task'[h] \notin {"moveFirst", "moveSecond", "gather", "read"}
      BY <1>13, <1>a DEF MoveSecond, GoTo, Typed, Locks, LoginSteps, PlayerSteps, LeaveSteps
    <3>. QED  BY <3>1, LocksIdle
  <2>. QED  BY <1>a, <2>1, <2>2, <2>3, LocksByOne
<1>14. ASSUME NEW h \in Handles, AcquireShared(h) PROVE LocksOrdered'
  <2>1. \A g \in Handles \ {h} : UNCHANGED <<task[g], target[g], curSector[g], holds[g]>>
    BY <1>14, <1>a DEF AcquireShared, GoTo, Typed
  <2>2. task'[h] # "moveSecond" /\ \E s : holds'[h] \subseteq holds[h] \cup {s} /\ CanShare(s)
    BY <1>14, <1>a DEF AcquireShared, GoTo, Typed, Locks, LoginSteps, PlayerSteps, LeaveSteps
  <2>3. Locks(h)'
    <3>. DEFINE R == aroundSectors(curSector[h])  n == nextShared(h)
    <3>1. /\ task[h] = "gather" /\ holds'[h] = holds[h] \cup {n}
          /\ task'[h] = IF holds'[h] = R THEN "read" ELSE "gather"
          /\ curSector'[h] = curSector[h]
      BY <1>14, <1>a DEF AcquireShared, GoTo, Typed
    <3>2. /\ n \in R \ holds[h] /\ holds[h] \subseteq R
          /\ \A r \in R \ holds[h] : n <= r
          /\ \A s \in holds[h], r \in R \ holds[h] : s < r
      BY <1>a, <3>1, NextShared DEF Locks
    <3>3. R \subseteq Nat
      BY <1>a, SectorFacts DEF Typed
    <3>. HIDE DEF R, n
    <3>4. \A s \in holds'[h], r \in R \ holds'[h] : s < r
      BY <3>1, <3>2, <3>3
    <3>5. R = aroundSectors(curSector'[h])
      BY <3>1 DEF R
    <3>6. holds'[h] \subseteq R /\ holds'[h] # {}
      BY <3>1, <3>2
    <3>. QED  BY <3>1, <3>4, <3>5, <3>6 DEF Locks
  <2>. QED  BY <1>a, <2>1, <2>2, <2>3, LocksByOne
<1>15. ASSUME NEW h \in Handles, ReadSector(h) PROVE LocksOrdered'
  <2>1. \A g \in Handles \ {h} : UNCHANGED <<task[g], target[g], curSector[g], holds[g]>>
    BY <1>15, <1>a DEF ReadSector, GoTo, Typed
  <2>2. holds'[h] \subseteq holds[h] /\ (task'[h] = "moveSecond" => task[h] = "moveSecond")
    BY <1>15, <1>a DEF ReadSector, GoTo, Typed, Locks, LoginSteps, PlayerSteps, LeaveSteps
  <2>3. Locks(h)'
    <3>1. /\ task[h] = "read" /\ holds'[h] \subseteq holds[h] /\ curSector'[h] = curSector[h]
          /\ task'[h] = IF holds'[h] = {} THEN "multicast" ELSE "read"
      BY <1>15, <1>a DEF ReadSector, GoTo, Typed
    <3>. QED  BY <1>a, <3>1 DEF Locks
  <2>. QED  BY <1>a, <2>1, <2>2, <2>3, LocksByOne
<1>16. ASSUME NEW h \in Handles, Multicast(h) PROVE LocksOrdered'
  <2>1. \A g \in Handles \ {h} : UNCHANGED <<task[g], target[g], curSector[g], holds[g]>>
    BY <1>16, <1>a DEF Multicast, GoTo, Typed
  <2>2. holds'[h] \subseteq holds[h] /\ (task'[h] = "moveSecond" => task[h] = "moveSecond")
    BY <1>16, <1>a DEF Multicast, GoTo, Typed, Locks, LoginSteps, PlayerSteps, LeaveSteps
  <2>3. Locks(h)'
    <3>1. holds'[h] = {} /\ task'[h] \notin {"moveFirst", "moveSecond", "gather", "read"}
      BY <1>16, <1>a DEF Multicast, GoTo, Typed, Locks, LoginSteps, PlayerSteps, LeaveSteps
    <3>. QED  BY <3>1, LocksIdle
  <2>. QED  BY <1>a, <2>1, <2>2, <2>3, LocksByOne
<1>17. ASSUME NEW h \in Handles, OnClientLeave(h) PROVE LocksOrdered'
  <2>1. \A g \in Handles \ {h} : UNCHANGED <<task[g], target[g], curSector[g], holds[g]>>
    BY <1>17, <1>a DEF OnClientLeave, GoTo, Lib!Leave, Typed
  <2>2. holds'[h] \subseteq holds[h] /\ (task'[h] = "moveSecond" => task[h] = "moveSecond")
    BY <1>17, <1>a DEF OnClientLeave, GoTo, Lib!Leave, Typed, Locks, LoginSteps, PlayerSteps,
       LeaveSteps
  <2>3. Locks(h)'
    <3>1. holds'[h] = {} /\ task'[h] \notin {"moveFirst", "moveSecond", "gather", "read"}
      BY <1>17, <1>a DEF OnClientLeave, GoTo, Lib!Leave, Typed, Locks, LoginSteps, PlayerSteps,
         LeaveSteps
    <3>. QED  BY <3>1, LocksIdle
  <2>. QED  BY <1>a, <2>1, <2>2, <2>3, LocksByOne
<1>18. ASSUME NEW h \in Handles, LeavePlayers(h) PROVE LocksOrdered'
  <2>1. \A g \in Handles \ {h} : UNCHANGED <<task[g], target[g], curSector[g], holds[g]>>
    BY <1>18, <1>a DEF LeavePlayers, GoTo, Typed
  <2>2. holds'[h] \subseteq holds[h] /\ (task'[h] = "moveSecond" => task[h] = "moveSecond")
    BY <1>18, <1>a DEF LeavePlayers, GoTo, Typed, Locks, LoginSteps, PlayerSteps, LeaveSteps
  <2>3. Locks(h)'
    <3>1. holds'[h] = {} /\ task'[h] \notin {"moveFirst", "moveSecond", "gather", "read"}
      BY <1>18, <1>a DEF LeavePlayers, GoTo, Typed, Locks, LoginSteps, PlayerSteps, LeaveSteps
    <3>. QED  BY <3>1, LocksIdle
  <2>. QED  BY <1>a, <2>1, <2>2, <2>3, LocksByOne
<1>19. ASSUME NEW h \in Handles, LeaveSector(h) PROVE LocksOrdered'
  <2>1. \A g \in Handles \ {h} : UNCHANGED <<task[g], target[g], curSector[g], holds[g]>>
    BY <1>19, <1>a DEF LeaveSector, GoTo, Typed
  <2>2. holds'[h] \subseteq holds[h] /\ (task'[h] = "moveSecond" => task[h] = "moveSecond")
    BY <1>19, <1>a DEF LeaveSector, GoTo, Typed, Locks, LoginSteps, PlayerSteps, LeaveSteps
  <2>3. Locks(h)'
    <3>1. holds'[h] = {} /\ task'[h] \notin {"moveFirst", "moveSecond", "gather", "read"}
      BY <1>19, <1>a DEF LeaveSector, GoTo, Typed, Locks, LoginSteps, PlayerSteps, LeaveSteps
    <3>. QED  BY <3>1, LocksIdle
  <2>. QED  BY <1>a, <2>1, <2>2, <2>3, LocksByOne
<1>20. ASSUME NEW h \in Handles, LeaveAccount(h) PROVE LocksOrdered'
  <2>1. \A g \in Handles \ {h} : UNCHANGED <<task[g], target[g], curSector[g], holds[g]>>
    BY <1>20, <1>a DEF LeaveAccount, GoTo, Typed
  <2>2. holds'[h] \subseteq holds[h] /\ (task'[h] = "moveSecond" => task[h] = "moveSecond")
    BY <1>20, <1>a DEF LeaveAccount, GoTo, Typed, Locks, LoginSteps, PlayerSteps, LeaveSteps
  <2>3. Locks(h)'
    <3>1. holds'[h] = {} /\ task'[h] \notin {"moveFirst", "moveSecond", "gather", "read"}
      BY <1>20, <1>a DEF LeaveAccount, GoTo, Typed, Locks, LoginSteps, PlayerSteps, LeaveSteps
    <3>. QED  BY <3>1, LocksIdle
  <2>. QED  BY <1>a, <2>1, <2>2, <2>3, LocksByOne
<1>21. ASSUME NEW h \in Handles, DisconnectBusy(h) \/ DisconnectCollected(h) \/ PeerCloses(h)
       PROVE LocksOrdered'
  BY <1>21, <1>a, LocksKept DEF DisconnectBusy, DisconnectCollected, PeerCloses, Disconnect,
     Exclusive, LocksOrdered
<1>22. ASSUME NEW h \in Handles, Accept(h) \/ Recycle(h) PROVE LocksOrdered'
  BY <1>22, <1>a, LocksKept DEF Accept, Recycle, Lib!Allocate, Lib!Recycle, Exclusive, LocksOrdered
<1>23. CASE Login_Timeout \/ Timeout \/ UNCHANGED vars
  BY <1>23, <1>a, LocksKept DEF Login_Timeout, Timeout, vars, Exclusive, LocksOrdered
<1>. QED
  BY <1>1, <1>2, <1>3, <1>4, <1>5, <1>6, <1>7, <1>8, <1>9, <1>10, <1>11, <1>12, <1>13, <1>14,
     <1>15, <1>16, <1>17, <1>18, <1>19, <1>20, <1>21, <1>22, <1>23
  DEF Next, Callback

LEMMA InitIInv == Init => IInv
<1>. SUFFICES ASSUME Init PROVE IInv
  OBVIOUS
<1>. USE ConstantsAssumption DEF Init, Lib!Init
<1>1. Typed
  BY SectorFacts DEF Typed
<1>2. Stages
  BY DEF Stages, Stage, LoginSteps, PlayerSteps, LeaveSteps
<1>3. AccountsOwned /\ MembersPlaced /\ SupersededIsClosed
  BY DEF AccountsOwned, MembersPlaced, SupersededIsClosed
<1>4. LocksOrdered
  BY DEF LocksOrdered, Locks, Exclusive
<1>. QED  BY <1>1, <1>2, <1>3, <1>4 DEF IInv

LEMMA NextIInv == IInv /\ [Next]_vars => IInv'
BY TypedStep, StageStep, AccountsStep, MembersStep, SupersededStep, LocksStep DEF IInv

-----------------------------------------------------------------------------
(* No circle of waiting.  A session that waits gets a rank: twice the      *)
(* place of its sector in the order of the locks, and one more for an      *)
(* exclusive lock.  Whom it waits for, if that one waits too, ranks above. *)

\* The order of the locks: void, whose ID is 0, comes right after sector 0.
Place(s) == IF s = voidSector THEN 1 ELSE IF s = 0 THEN 0 ELSE s + 1

Awaited(h) ==
    CASE task[h] = "moveFirst" -> firstLock(h)
      [] task[h] = "moveSecond" -> secondLock(h)
      [] task[h] = "leaveSector" -> curSector[h]
      [] OTHER -> nextShared(h)
Rank(h) == 2 * Place(Awaited(h)) + IF task[h] = "gather" THEN 0 ELSE 1
Waits(h) == task[h] \in {"moveFirst", "moveSecond", "leaveSector", "gather"}

LEMMA PlaceBound ==
    ASSUME NEW s \in AllSectors
    PROVE  Place(s) \in 0 .. (SECTOR_MAX_X * SECTOR_MAX_Y + 1)
<1>. DEFINE N == SECTOR_MAX_X * SECTOR_MAX_Y
<1>1. N \in Nat
  BY ConstantsAssumption
<1>2. s = voidSector \/ s \in 0 .. (N - 1)
  BY DEF AllSectors, Sectors
<1>. HIDE DEF N
<1>3. Place(s) \in 0 .. (N + 1)
  BY <1>1, <1>2 DEF Place, voidSector
<1>. QED  BY <1>3 DEF N

LEMMA AwaitedInMap ==
    ASSUME IInv, NEW h \in Handles, Waits(h)
    PROVE  Awaited(h) \in AllSectors
<1>1. target[h] \in AllSectors /\ curSector[h] \in AllSectors
  BY DEF IInv, Typed
<1>2. firstLock(h) \in AllSectors /\ secondLock(h) \in AllSectors
  BY <1>1 DEF firstLock, secondLock
<1>3. task[h] = "gather" => nextShared(h) \in AllSectors
  BY <1>1, NextShared, SectorFacts
<1>. QED  BY <1>1, <1>2, <1>3 DEF Waits, Awaited

\* What a session holds comes before what it waits for.
LEMMA HeldBeforeAwaited ==
    ASSUME IInv, NEW g \in Handles, Waits(g), NEW s \in holds[g]
    PROVE  /\ Place(s) < Place(Awaited(g))
           /\ task[g] \in {"moveSecond", "gather"}
<1>1. Locks(g) /\ curSector[g] \in AllSectors /\ target[g] \in AllSectors
  BY DEF IInv, LocksOrdered, Typed
<1>2. task[g] \in {"moveSecond", "gather"}
  BY <1>1 DEF Locks, Waits
<1>3. CASE task[g] = "moveSecond"
  <2>1. s = firstLock(g) /\ Awaited(g) = secondLock(g)
    BY <1>1, <1>3 DEF Locks, Awaited
  <2>2. target[g] \in Sectors /\ target[g] # curSector[g]
    BY <1>1, <1>3 DEF Locks
  <2>3. target[g] \in Nat /\ (curSector[g] = -1 \/ curSector[g] \in Nat)
    BY <1>1, <2>2, SectorFacts
  <2>4. Place(firstLock(g)) < Place(secondLock(g))
    BY <2>2, <2>3 DEF Place, firstLock, secondLock, ID, voidSector
  <2>. QED  BY <1>2, <2>1, <2>4
<1>4. CASE task[g] = "gather"
  <2>1. s < nextShared(g) /\ s \in Sectors /\ nextShared(g) \in Sectors
    BY <1>1, <1>4, NextShared, SectorFacts DEF Locks
  <2>. DEFINE n == nextShared(g)
  <2>2. s \in Nat /\ n \in Nat /\ s < n
    BY <2>1, SectorFacts
  <2>. HIDE DEF n
  <2>3. Place(s) < Place(n)
    BY <2>2 DEF Place, voidSector
  <2>4. Place(s) < Place(nextShared(g))
    BY <2>3 DEF n
  <2>. QED  BY <1>2, <1>4, <2>4 DEF Awaited
<1>. QED  BY <1>2, <1>3, <1>4

LEMMA WaitsForHigher ==
    ASSUME IInv, NEW h \in Handles, NEW g \in Handles, WaitsFor(h, g), Waits(g)
    PROVE  Waits(h) /\ Rank(h) < Rank(g)
<1>1. PICK s \in AllSectors :
        \/ WaitsExclusive(h, s) /\ s \in holds[g]
        \/ WaitsShared(h, s) /\ WaitsExclusive(g, s)
        \/ WaitsShared(h, s) /\ s \in holds[g] /\ task[g] = "moveSecond"
  BY DEF WaitsFor
<1>2. Waits(h) /\ Awaited(h) = s
  BY <1>1 DEF WaitsExclusive, WaitsShared, Waits, Awaited
<1>3. Place(s) \in Nat /\ Place(Awaited(g)) \in Nat
  BY PlaceBound, AwaitedInMap
<1>4. CASE s \in holds[g]
  <2>1. Place(s) < Place(Awaited(g))
    BY <1>4, HeldBeforeAwaited
  <2>. QED  BY <1>2, <1>3, <2>1 DEF Rank
<1>5. CASE WaitsShared(h, s) /\ WaitsExclusive(g, s)
  <2>1. task[h] = "gather" /\ task[g] # "gather" /\ Awaited(g) = s
    BY <1>5 DEF WaitsShared, WaitsExclusive, Awaited
  <2>. QED  BY <1>2, <1>3, <2>1 DEF Rank
<1>. QED  BY <1>1, <1>4, <1>5

LEMMA Acyclic == IInv => NoLockCycle
<1>. SUFFICES ASSUME IInv, NEW T \in SUBSET Handles, T # {},
                    \A h \in T : \E g \in T : WaitsFor(h, g)
             PROVE  FALSE
  BY DEF NoLockCycle
<1>1. \A h \in T : Waits(h)
  BY DEF WaitsFor, WaitsExclusive, WaitsShared, Waits
<1>. DEFINE B == 2 * (SECTOR_MAX_X * SECTOR_MAX_Y + 1) + 1
            D == {B - Rank(h) : h \in T}
<1>2. B \in Nat /\ \A h \in T : Rank(h) \in 0 .. B
  <2>. DEFINE N == SECTOR_MAX_X * SECTOR_MAX_Y
  <2>1. N \in Nat
    BY ConstantsAssumption
  <2>2. \A h \in T : Place(Awaited(h)) \in 0 .. (N + 1)
    BY <1>1, AwaitedInMap, PlaceBound
  <2>. HIDE DEF N
  <2>3. 2 * (N + 1) + 1 \in Nat /\ \A h \in T : Rank(h) \in 0 .. (2 * (N + 1) + 1)
    BY <2>1, <2>2 DEF Rank
  <2>. QED  BY <2>3 DEF N
<1>. HIDE DEF B
<1>3. D \subseteq Nat /\ D # {}
  BY <1>2
<1>4. Min(D) \in D /\ \A x \in D : Min(D) <= x
  BY <1>3, MinIsLeast
<1>5. PICK h \in T : Min(D) = B - Rank(h)
  BY <1>4
<1>6. \A g \in T : B - Rank(h) <= B - Rank(g)
  BY <1>4, <1>5
<1>7. PICK g \in T : WaitsFor(h, g)
  OBVIOUS
<1>8. Rank(h) < Rank(g)
  BY <1>1, <1>7, WaitsForHigher
<1>. QED  BY <1>2, <1>6, <1>8

-----------------------------------------------------------------------------
(* The broadcast.                                                          *)

LEMMA HeardKept ==
    ASSUME NEW r \in Handles, UNCHANGED <<gathered[r], holds[r]>>,
           \A s \in holds[r] : members'[s] = members[s]
    PROVE  Heard(r)' = Heard(r)
BY DEF Heard

LEMMA SnapshotStep ==
    ASSUME IInv, [Next]_vars, NEW r \in Handles, task[r] = "read"
    PROVE  Heard(r)' = Heard(r)
<1>a. IInv /\ Typed /\ r \in Handles /\ task[r] = "read"
  BY DEF IInv
<1>. USE DEF libVars, tableVars, sectorVars
<1>1. ASSUME NEW h \in Handles, OnClientJoin(h) PROVE Heard(r)' = Heard(r)
  BY <1>1, <1>a, HeardKept DEF OnClientJoin, Lib!Join, Typed
<1>2. ASSUME NEW h \in Handles, BadMessage(h) PROVE Heard(r)' = Heard(r)
  BY <1>2, <1>a, HeardKept DEF BadMessage, OnRecv, Disconnect, Typed
<1>3. ASSUME NEW h \in Handles, Heartbeat(h) PROVE Heard(r)' = Heard(r)
  BY <1>3, <1>a, HeardKept DEF Heartbeat, OnRecv, Disconnect, Typed
<1>4. ASSUME NEW h \in Handles, Chat(h) PROVE Heard(r)' = Heard(r)
  BY <1>4, <1>a, HeardKept DEF Chat, OnRecv, GoTo, Disconnect, Typed
<1>5. ASSUME NEW h \in Handles, NEW a \in Accounts, LoginStart(h, a) PROVE Heard(r)' = Heard(r)
  BY <1>5, <1>a, HeardKept DEF LoginStart, OnRecv, GoTo, Disconnect, Typed
<1>6. ASSUME NEW h \in Handles, NEW s \in Positions, SectorMove(h, s) PROVE Heard(r)' = Heard(r)
  BY <1>6, <1>a, HeardKept DEF SectorMove, OnRecv, GoTo, Disconnect, Typed
<1>7. ASSUME NEW h \in Handles, RedisRefuses(h) PROVE Heard(r)' = Heard(r)
  BY <1>7, <1>a, HeardKept DEF RedisRefuses, GoTo, Disconnect, Typed
<1>8. ASSUME NEW h \in Handles, RedisAgrees(h) PROVE Heard(r)' = Heard(r)
  BY <1>8, <1>a, HeardKept DEF RedisAgrees, GoTo, Typed
<1>9. ASSUME NEW h \in Handles, ClaimAccount(h) PROVE Heard(r)' = Heard(r)
  BY <1>9, <1>a, HeardKept DEF ClaimAccount, GoTo, Typed
<1>10. ASSUME NEW h \in Handles, KickDuplicate(h) PROVE Heard(r)' = Heard(r)
  BY <1>10, <1>a, HeardKept DEF KickDuplicate, GoTo, Disconnect, Typed
<1>11. ASSUME NEW h \in Handles, InsertPlayer(h) PROVE Heard(r)' = Heard(r)
  BY <1>11, <1>a, HeardKept DEF InsertPlayer, GoTo, Typed
<1>12. ASSUME NEW h \in Handles, MoveFirst(h) PROVE Heard(r)' = Heard(r)
  BY <1>12, <1>a, HeardKept DEF MoveFirst, GoTo, Typed
<1>13. ASSUME NEW h \in Handles, MoveSecond(h) PROVE Heard(r)' = Heard(r)
  <2>1. h # r /\ task[h] = "moveSecond" /\ holds[h] = {firstLock(h)}
    BY <1>13, <1>a DEF MoveSecond, IInv, LocksOrdered, Locks
  <2>2. firstLock(h) \notin holds[r] /\ secondLock(h) \notin holds[r]
    BY <1>13, <1>a, <2>1 DEF MoveSecond, CanLock, IInv, LocksOrdered, Exclusive
  <2>3. curSector[h] \notin holds[r] /\ target[h] \notin holds[r]
    BY <2>2 DEF firstLock, secondLock
  <2>4. \A s \in holds[r] : members'[s] = members[s]
    BY <1>13, <1>a, <2>3 DEF MoveSecond, Typed
  <2>. QED  BY <1>13, <1>a, <2>1, <2>4, HeardKept DEF MoveSecond, Typed
<1>14. ASSUME NEW h \in Handles, AcquireShared(h) PROVE Heard(r)' = Heard(r)
  BY <1>14, <1>a, HeardKept DEF AcquireShared, GoTo, Typed
<1>15. ASSUME NEW h \in Handles, ReadSector(h) PROVE Heard(r)' = Heard(r)
  <2>1. CASE h # r
    BY <1>15, <1>a, <2>1, HeardKept DEF ReadSector, Typed
  <2>2. CASE h = r
    <3>. DEFINE s == IF curSector[r] \in holds[r] THEN curSector[r] ELSE Min(holds[r])
    <3>1. s \in holds[r]
      BY <1>a, NextRead
    <3>2. /\ gathered'[r] = gathered[r] \cup members[s] /\ members' = members
          /\ holds'[r] = holds[r] \ {s}
      BY <1>15, <1>a, <2>2 DEF ReadSector, Typed
    <3>. HIDE DEF s
    <3>3. UNION {members[q] : q \in holds[r]}
          = members[s] \cup UNION {members[q] : q \in holds[r] \ {s}}
      BY <3>1
    <3>. QED  BY <3>2, <3>3 DEF Heard
  <2>. QED  BY <2>1, <2>2
<1>16. ASSUME NEW h \in Handles, Multicast(h) PROVE Heard(r)' = Heard(r)
  BY <1>16, <1>a, HeardKept DEF Multicast, GoTo, Typed
<1>17. ASSUME NEW h \in Handles, OnClientLeave(h) PROVE Heard(r)' = Heard(r)
  BY <1>17, <1>a, HeardKept DEF OnClientLeave, GoTo, Lib!Leave, Typed
<1>18. ASSUME NEW h \in Handles, LeavePlayers(h) PROVE Heard(r)' = Heard(r)
  BY <1>18, <1>a, HeardKept DEF LeavePlayers, GoTo, Typed
<1>19. ASSUME NEW h \in Handles, LeaveSector(h) PROVE Heard(r)' = Heard(r)
  <2>1. \A s \in holds[r] : members'[s] = members[s]
    BY <1>19, <1>a DEF LeaveSector, CanLock, Typed
  <2>. QED  BY <1>19, <1>a, <2>1, HeardKept DEF LeaveSector
<1>20. ASSUME NEW h \in Handles, LeaveAccount(h) PROVE Heard(r)' = Heard(r)
  BY <1>20, <1>a, HeardKept DEF LeaveAccount, GoTo, Typed
<1>21. ASSUME NEW h \in Handles, DisconnectBusy(h) \/ DisconnectCollected(h) \/ PeerCloses(h)
       PROVE Heard(r)' = Heard(r)
  BY <1>21, <1>a, HeardKept DEF DisconnectBusy, DisconnectCollected, PeerCloses, Disconnect, Typed
<1>22. ASSUME NEW h \in Handles, Accept(h) \/ Recycle(h) PROVE Heard(r)' = Heard(r)
  BY <1>22, <1>a, HeardKept DEF Accept, Recycle, Lib!Allocate, Lib!Recycle, Typed
<1>23. CASE Login_Timeout \/ Timeout \/ UNCHANGED vars
  BY <1>23, <1>a, HeardKept DEF Login_Timeout, Timeout, vars, Typed
<1>. QED
  BY <1>1, <1>2, <1>3, <1>4, <1>5, <1>6, <1>7, <1>8, <1>9, <1>10, <1>11, <1>12, <1>13, <1>14,
     <1>15, <1>16, <1>17, <1>18, <1>19, <1>20, <1>21, <1>22, <1>23
  DEF Next, Callback

-----------------------------------------------------------------------------
(* In every state: the fields have their types, a session is in one stage  *)
(* of its life, the accounts and the lists of the sectors lead to sessions *)
(* that have them, and the locks are held in their order.                  *)
THEOREM ChatInvariant == Spec => []IInv
BY InitIInv, NextIInv, PTL DEF Spec

(* An account has one session: a player whose account was taken over, or   *)
(* given up, is disconnected or the login that took it over is about to do *)
(* it, whatever the order of logins, leaves and timeouts.                  *)
THEOREM SupersededPlayers == Spec => []SupersededIsClosed
<1>1. IInv => SupersededIsClosed
  BY DEF IInv
<1>. QED  BY <1>1, ChatInvariant, PTL

(* When OnClientLeave is through, no table and no sector's list leads to   *)
(* the session or to the Player that went back to its pool.                *)
THEOREM LeavesNothing == Spec => []NothingOutlivesLeave
<1>1. IInv => NothingOutlivesLeave
  <2>. SUFFICES ASSUME IInv, NEW h \in Handles, task[h] = "gone"
               PROVE  /\ h \notin waiting \cup players
                      /\ \A a \in Accounts : sessions_accNo[a] # h
                      /\ \A s \in AllSectors : h \notin members[s]
    BY DEF NothingOutlivesLeave
  <2>1. h \notin waiting \cup players
    BY DEF IInv, Stages, Stage, PlayerSteps
  <2>. QED  BY <2>1 DEF IInv, AccountsOwned, MembersPlaced
<1>. QED  BY <1>1, ChatInvariant, PTL

(* Moves, broadcasts and leaves never wait for each other in a circle,     *)
(* though void, outside of the map, has the ID of sector 0.                *)
THEOREM SectorsDoNotDeadlock == Spec => []NoLockCycle
BY Acyclic, ChatInvariant, PTL

(* SendAroundSector reaches those who were around the speaker when it had  *)
(* its last lock, although it releases the locks one by one.               *)
THEOREM BroadcastIsASnapshot == Spec => ChatIsASnapshot
<1>1. IInv /\ [Next]_vars => [\A h \in Handles : task[h] = "read" => Heard(h)' = Heard(h)]_vars
  BY SnapshotStep
<1>. QED  BY <1>1, ChatInvariant, PTL DEF ChatIsASnapshot, Spec
=============================================================================
