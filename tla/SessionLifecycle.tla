-------------------------- MODULE SessionLifecycle --------------------------
(***************************************************************************)
(* What NetLib_Server promises an application about its session handles,   *)
(* whatever the threads inside the library do: a handle names one          *)
(* connection, an index of the session array belongs to one handle at a    *)
(* time, OnClientJoin happens once per handle, OnClientLeave once and only *)
(* after it, and the index is given out again only after OnClientLeave.    *)
(*                                                                         *)
(* A handle is the pair <<index, id>> that CreateSessionHandle packs into  *)
(* 8 bytes (2 bytes of index, 6 bytes of identifier).                      *)
(***************************************************************************)
CONSTANTS
    Slots,              \* the indexes of the session array m_sessions
    Ids                 \* the identifiers m_idPool gives out

VARIABLES
    live,               \* the handles that own their index
    joined,             \* the handles whose OnClientJoin has been called
    left                \* the handles whose OnClientLeave has been called

lifecycleVars == <<live, joined, left>>

Handles == Slots \X Ids

Init == live = {} /\ joined = {} /\ left = {}

\* AcceptThread gives an index no handle owns to a handle never seen before.
Allocate(h) ==
    /\ h \notin live \cup joined
    /\ \A g \in live : g[1] # h[1]
    /\ live' = live \cup {h}
    /\ UNCHANGED <<joined, left>>

Join(h) ==
    /\ h \in live \ joined
    /\ joined' = joined \cup {h}
    /\ UNCHANGED <<live, left>>

Leave(h) ==
    /\ h \in (live \cap joined) \ left
    /\ left' = left \cup {h}
    /\ UNCHANGED <<live, joined>>

\* The index goes back to m_sessionIndexPool.
Recycle(h) ==
    /\ h \in live \cap left
    /\ live' = live \ {h}
    /\ UNCHANGED <<joined, left>>

Next == \E h \in Handles : Allocate(h) \/ Join(h) \/ Leave(h) \/ Recycle(h)

Spec == Init /\ [][Next]_lifecycleVars
=============================================================================
