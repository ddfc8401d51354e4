--------------------------- MODULE TLSObjectPool ---------------------------
(***************************************************************************)
(* The pool that the nodes of the lock-free containers come from. A thread *)
(* takes from a list of its own (m_top), gives back to another (m_rtop),   *)
(* and exchanges whole lists with the other threads through m_freeSets. A  *)
(* node goes back to the heap only with the process, so an address held    *)
(* too long is that of a node, though perhaps of one in use again. Only    *)
(* m_freeSets is shared, in one locked section of a call: each call is a   *)
(* step. The counters for monitoring (m_useSize) are left out.             *)
(***************************************************************************)
EXTENDS Naturals, Sequences, FiniteSets

CONSTANTS
    Threads,            \* the threads that use the pool
    ChunkSize           \* m_chunkSize

ASSUME PoolAssumption == ChunkSize \in Nat \ {0} /\ IsFiniteSet(Threads)

VARIABLES
    top,                \* m_top of each thread's component, as a sequence
    rtop,               \* its m_rtop; its m_freeCnt is the length
    freeSets,           \* m_freeSets, the top first
    created             \* the nodes made with new so far are 1..created

poolVars == <<top, rtop, freeSets, created>>

\* The pool after the constructors of its users took the first n nodes.
PoolInit(n) ==
    /\ top = [t \in Threads |-> <<>>]
    /\ rtop = [t \in Threads |-> <<>>]
    /\ freeSets = <<>>
    /\ created = n

\* Thread t is given node n.
Alloc(t, n) ==
    /\ UNCHANGED rtop
    /\ \/ /\ top[t] # <<>>
          /\ n = Head(top[t])
          /\ top' = [top EXCEPT ![t] = Tail(@)]
          /\ UNCHANGED <<freeSets, created>>
       \/ /\ top[t] = <<>> /\ freeSets # <<>>
          /\ n = Head(Head(freeSets))
          /\ top' = [top EXCEPT ![t] = Tail(Head(freeSets))]
          /\ freeSets' = Tail(freeSets)
          /\ UNCHANGED created
       \/ /\ top[t] = <<>> /\ freeSets = <<>>
          /\ n = created + 1
          /\ created' = n
          /\ UNCHANGED <<top, freeSets>>

\* Thread t gives back node n.
Free(t, n) ==
    LET freed == <<n>> \o rtop[t]
    IN  /\ IF ChunkSize <= Len(freed)
           THEN /\ freeSets' = <<freed>> \o freeSets
                /\ rtop' = [rtop EXCEPT ![t] = <<>>]
           ELSE /\ rtop' = [rtop EXCEPT ![t] = freed]
                /\ UNCHANGED freeSets
        /\ UNCHANGED <<top, created>>

\* How often node n is in the pool.
TimesPooled(n) ==
    LET In(list) == {i \in DOMAIN list : list[i] = n}
    IN  Cardinality(UNION {{<<t, i>> : i \in In(top[t])} : t \in Threads})
        + Cardinality(UNION {{<<t, i>> : i \in In(rtop[t])} : t \in Threads})
        + Cardinality(UNION {{<<s, i>> : i \in In(freeSets[s])} :
                             s \in DOMAIN freeSets})
=============================================================================
