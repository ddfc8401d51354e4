------------------------ MODULE SessionLifetimeProofs ------------------------
(***************************************************************************)
(* The safety properties of SessionLifetime hold for every number of       *)
(* slots, workers, callers and connections, provided that released         *)
(* sessions are not looked up so often that the 16-bit count wraps.        *)
(***************************************************************************)
EXTENDS SessionLifetime, FiniteSetTheorems, TLAPS

\* 0xEE00 plus the leftovers of late FindSession calls stays below 0x10000.
NoWrap == ReleaseCount + MaxDrift < 65536

-----------------------------------------------------------------------------
(* Counting threads.                                                       *)

\* A set of threads is finite and has at most 126 elements.
LEMMA ThreadSets ==
    ASSUME NEW S, S \subseteq Threads
    PROVE  /\ IsFiniteSet(S)
           /\ Cardinality(S) \in 0..126
           /\ Cardinality(S) = 0 <=> S = {}
<1>1. IsFiniteSet(Threads) /\ Cardinality(Threads) <= 126
  BY ThreadsAssumption
<1>2. IsFiniteSet(S) /\ Cardinality(S) <= Cardinality(Threads)
  BY <1>1, FS_Subset
<1>3. Cardinality(S) \in Nat /\ Cardinality(Threads) \in Nat
  BY <1>1, <1>2, FS_CardinalityType
<1>4. Cardinality(S) = 0 <=> S = {}
  BY <1>2, FS_EmptySet
<1>. QED  BY <1>1, <1>2, <1>3, <1>4

\* Thread t moves, the others stay: how many threads are at the labels of L
\* in session s afterwards.
LEMMA OneMoves ==
    ASSUME NEW t \in Threads, NEW L, NEW s,
           \A u \in Threads \ {t} : pc'[u] = pc[u] /\ slot'[u] = slot[u]
    PROVE  Cardinality(At(L, s)') + B(slot[t] = s /\ pc[t] \in L)
             = Cardinality(At(L, s)) + B(slot'[t] = s /\ pc'[t] \in L)
<1>. DEFINE X == At(L, s) \ {t}
<1>1. X \subseteq Threads /\ At(L, s) \subseteq Threads /\ At(L, s)' \subseteq Threads
  BY DEF At
<1>2. /\ IsFiniteSet(X) /\ Cardinality(X) \in Nat
  BY <1>1, ThreadSets
<1>3. t \notin X
  OBVIOUS
<1>4. Cardinality(X \cup {t}) = Cardinality(X) + 1
  BY <1>2, <1>3, FS_AddElement
<1>5. At(L, s) = IF slot[t] = s /\ pc[t] \in L THEN X \cup {t} ELSE X
  BY DEF At
<1>6. At(L, s)' = IF slot'[t] = s /\ pc'[t] \in L THEN X \cup {t} ELSE X
  BY DEF At
<1>. HIDE DEF X
<1>7. CASE slot[t] = s /\ pc[t] \in L
  BY <1>2, <1>4, <1>5, <1>6, <1>7, SMTT(30) DEF B
<1>8. CASE ~(slot[t] = s /\ pc[t] \in L)
  BY <1>2, <1>4, <1>5, <1>6, <1>8, SMTT(30) DEF B
<1>. QED  BY <1>7, <1>8

-----------------------------------------------------------------------------
(* Type correctness.                                                       *)

\* The counts the code stores are words.
LEMMA WordFacts ==
    /\ 0 \in Word /\ 1 \in Word /\ ReleaseCount \in Word
    /\ \A n \in Nat : Wrap(n) \in Word
    /\ \A n \in Word : n \in Nat
<1>1. MaxWord \in Nat /\ 60928 <= MaxWord /\ MaxWord + 1 = 65536
  BY DEF MaxWord
<1>2. 0 \in Word /\ 1 \in Word /\ ReleaseCount \in Word /\ \A n \in Word : n \in Nat
  BY <1>1 DEF Word, ReleaseCount
<1>3. ASSUME NEW n \in Nat PROVE Wrap(n) \in Word
  <2>1. n % 65536 \in Int /\ 0 <= n % 65536 /\ n % 65536 < 65536
    OBVIOUS
  <2>. QED  BY <1>1, <2>1 DEF Word, Wrap
<1>. QED  BY <1>2, <1>3

\* A thread that goes on stays within its own labels.
LEMMA GoThreadsOK ==
    ASSUME ThreadsOK, NEW t \in Threads, NEW label \in LabelsOf(t),
           pc[t] # "idle", Go(t, label)
    PROVE  ThreadsOK'
BY SlotsAssumption DEF ThreadsOK, Go, LabelsOf

\* A thread that begins stays within its own labels.
LEMMA BeginThreadsOK ==
    ASSUME ThreadsOK, NEW t \in Threads, NEW label \in LabelsOf(t), label # "idle",
           NEW s \in Slots, NEW id \in Nat, Begin(t, label, s, id)
    PROVE  ThreadsOK'
BY SlotsAssumption DEF ThreadsOK, Begin, LabelsOf

\* Every step preserves type correctness.
LEMMA TypeStep == TypeOK /\ CountedIndexes /\ [Next]_vars => TypeOK'
<1>. SUFFICES ASSUME TypeOK, CountedIndexes, [Next]_vars PROVE TypeOK'
  OBVIOUS
<1>. USE DEF TypeOK, sessionVars, queueVars, poolVars, acceptVars, threadVars, appVars
<1>a. Workers \subseteq Threads /\ Callers \subseteq Threads /\ Workers \cap Callers = {}
  BY ThreadsAssumption DEF Threads
<1>b. \A t \in Threads : pc[t] # "idle" => slot[t] \in Slots
  BY DEF ThreadsOK
<1>1. ASSUME AcceptConnection PROVE TypeOK'
  BY <1>1, WordFacts DEF AcceptConnection, ThreadsOK, Pending
<1>2. ASSUME PopIndex PROVE TypeOK'
  BY <1>2, WordFacts DEF PopIndex, ThreadsOK, Pending
<1>3. ASSUME ConnectHandle PROVE TypeOK'
  BY <1>3, WordFacts DEF ConnectHandle, ThreadsOK, Pending
<1>4. ASSUME ConnectCount PROVE TypeOK'
  BY <1>4, WordFacts DEF ConnectCount, ThreadsOK, Pending
<1>5. ASSUME ConnectReset PROVE TypeOK'
  BY <1>5, WordFacts DEF ConnectReset, ThreadsOK, Pending
<1>6. ASSUME PostEnter PROVE TypeOK'
  BY <1>6, WordFacts DEF PostEnter, ThreadsOK, Pending
<1>7. ASSUME NEW s \in Slots, KernelReceives(s) PROVE TypeOK'
  BY <1>7, WordFacts DEF KernelReceives, ThreadsOK, Pending
<1>8. ASSUME NEW s \in Slots, KernelCloses(s) PROVE TypeOK'
  BY <1>8, WordFacts DEF KernelCloses, ThreadsOK, Pending
<1>9. ASSUME NEW w \in Workers, NEW s \in Slots, GetEnter(w, s) PROVE TypeOK'
  <2>1. ThreadsOK'
    BY <1>9, <1>a, BeginThreadsOK DEF GetEnter, LabelsOf, SharedLabels, CallerLabels, WorkerLabels
  <2>. QED  BY <1>9, <1>a, <1>b, <2>1, WordFacts DEF GetEnter, Pending, Cancelled, HandleOf
<1>10. ASSUME NEW w \in Workers, NEW s \in Slots, GetRecv(w, s) PROVE TypeOK'
  <2>1. ThreadsOK'
    BY <1>10, <1>a, BeginThreadsOK DEF GetRecv, LabelsOf, SharedLabels, CallerLabels, WorkerLabels
  <2>. QED  BY <1>10, <1>a, <1>b, <2>1, WordFacts DEF GetRecv, Pending, Cancelled, HandleOf
<1>11. ASSUME NEW w \in Workers, NEW s \in Slots, GetLeave(w, s) PROVE TypeOK'
  <2>1. ThreadsOK'
    BY <1>11, <1>a, BeginThreadsOK DEF GetLeave, LabelsOf, SharedLabels, CallerLabels, WorkerLabels
  <2>. QED  BY <1>11, <1>a, <1>b, <2>1, WordFacts DEF GetLeave, Pending, Cancelled, HandleOf
<1>12. ASSUME NEW w \in Workers, OnClientJoin(w) PROVE TypeOK'
  <2>1. ThreadsOK'
    BY <1>12, <1>a, GoThreadsOK DEF OnClientJoin, LabelsOf, SharedLabels, CallerLabels, WorkerLabels
  <2>. QED  BY <1>12, <1>a, <1>b, <2>1, WordFacts DEF OnClientJoin, Pending, Cancelled, HandleOf
<1>13. ASSUME NEW w \in Workers, FirstRecvPost(w) PROVE TypeOK'
  <2>1. ThreadsOK'
    BY <1>13, <1>a, GoThreadsOK DEF FirstRecvPost, LabelsOf, SharedLabels, CallerLabels, WorkerLabels
  <2>. QED  BY <1>13, <1>a, <1>b, <2>1, WordFacts DEF FirstRecvPost, Pending, Cancelled, HandleOf
<1>14. ASSUME NEW w \in Workers, Parse(w) PROVE TypeOK'
  <2>1. ThreadsOK'
    BY <1>14, <1>a, GoThreadsOK DEF Parse, LabelsOf, SharedLabels, CallerLabels, WorkerLabels
  <2>. QED  BY <1>14, <1>a, <1>b, <2>1, WordFacts DEF Parse, Pending, Cancelled, HandleOf
<1>15. ASSUME NEW w \in Workers, IncrementForRecv(w) PROVE TypeOK'
  <2>1. ThreadsOK'
    BY <1>15, <1>a, GoThreadsOK DEF IncrementForRecv, LabelsOf, SharedLabels, CallerLabels, WorkerLabels
  <2>2. slot[w] \in Slots /\ Incremented(slot[w]) \in Word
    BY <1>15, <1>a, <1>b, WordFacts DEF IncrementForRecv, Incremented
  <2>. QED  BY <1>15, <1>a, <1>b, <2>1, <2>2, WordFacts DEF IncrementForRecv, Pending, Cancelled, HandleOf
<1>16. ASSUME NEW w \in Workers, RecvPost(w) PROVE TypeOK'
  <2>1. ThreadsOK'
    BY <1>16, <1>a, GoThreadsOK DEF RecvPost, LabelsOf, SharedLabels, CallerLabels, WorkerLabels
  <2>. QED  BY <1>16, <1>a, <1>b, <2>1, WordFacts DEF RecvPost, Pending, Cancelled, HandleOf
<1>17. ASSUME NEW w \in Workers, CheckRequest(w) PROVE TypeOK'
  <2>1. ThreadsOK'
    BY <1>17, <1>a, GoThreadsOK DEF CheckRequest, LabelsOf, SharedLabels, CallerLabels, WorkerLabels
  <2>. QED  BY <1>17, <1>a, <1>b, <2>1, WordFacts DEF CheckRequest, Pending, Cancelled, HandleOf
<1>18. ASSUME NEW w \in Workers, OnClientLeave(w) PROVE TypeOK'
  <2>1. ThreadsOK'
    BY <1>18, <1>a, GoThreadsOK DEF OnClientLeave, AfterLeave, LabelsOf, SharedLabels, CallerLabels, WorkerLabels
  <2>. QED  BY <1>18, <1>a, <1>b, <2>1, WordFacts DEF OnClientLeave, AfterLeave, Pending, Cancelled, HandleOf
<1>19. ASSUME NEW w \in Workers, PushIndex(w) PROVE TypeOK'
  <2>1. ThreadsOK'
    BY <1>19, <1>a, GoThreadsOK DEF PushIndex, AfterLeave, LabelsOf, SharedLabels, CallerLabels, WorkerLabels
  <2>. QED  BY <1>19, <1>a, <1>b, <2>1, WordFacts DEF PushIndex, AfterLeave, Pending, Cancelled, HandleOf
<1>20. ASSUME NEW w \in Workers, DecrementSessionCount(w) PROVE TypeOK'
  <2>1. ThreadsOK'
    BY <1>20, <1>a, GoThreadsOK DEF DecrementSessionCount, AfterLeave, LabelsOf, SharedLabels, CallerLabels, WorkerLabels
  <2>2. sessionCount >= 1
    <3>. DEFINE U == {t \in Threads : pc[t] = "uncount"}
    <3>1. U \subseteq Threads /\ w \in U /\ Slots \ free \subseteq Slots
      BY <1>20, <1>a DEF DecrementSessionCount, AfterLeave
    <3>2. Cardinality(U) \in Nat /\ Cardinality(U) # 0
      BY <3>1, ThreadSets, SMTT(30)
    <3>3. Cardinality(Slots \ free) \in Nat
      BY <3>1, SlotsAssumption, FS_Subset, FS_CardinalityType
    <3>. QED  BY <3>2, <3>3 DEF CountedIndexes, B
  <2>. QED  BY <1>20, <1>a, <1>b, <2>1, <2>2, WordFacts DEF DecrementSessionCount, AfterLeave, Pending, Cancelled, HandleOf
<1>21. ASSUME NEW c \in Callers, NEW h \in joined, FindSession(c, h) PROVE TypeOK'
  <2>1. h[1] \in Slots /\ h[2] \in Nat
    BY <1>21
  <2>2. ThreadsOK'
    <3>1. CASE UNCHANGED threadVars
      BY <3>1 DEF ThreadsOK
    <3>2. CASE Begin(c, "compare", h[1], h[2])
      BY <3>2, <1>a, <2>1, BeginThreadsOK DEF LabelsOf, CallerLabels
    <3>. QED  BY <1>21, <3>1, <3>2 DEF FindSession
  <2>3. Incremented(h[1]) \in Word
    BY <2>1, WordFacts DEF Incremented
  <2>. QED  BY <1>21, <2>1, <2>2, <2>3 DEF FindSession
<1>22. ASSUME NEW c \in Callers, CompareHandle(c) PROVE TypeOK'
  <2>1. ThreadsOK'
    BY <1>22, <1>a, GoThreadsOK DEF CompareHandle, LabelsOf, SharedLabels, CallerLabels, WorkerLabels
  <2>. QED  BY <1>22, <1>a, <1>b, <2>1, WordFacts DEF CompareHandle, Pending, Cancelled, HandleOf
<1>23. ASSUME NEW c \in Callers, UseSession(c) PROVE TypeOK'
  <2>1. ThreadsOK'
    BY <1>23, <1>a, GoThreadsOK DEF UseSession, LabelsOf, SharedLabels, CallerLabels, WorkerLabels
  <2>. QED  BY <1>23, <1>a, <1>b, <2>1, WordFacts DEF UseSession, Pending, Cancelled, HandleOf
<1>24. ASSUME NEW c \in Callers, RequestDisconnect(c) PROVE TypeOK'
  <2>1. ThreadsOK'
    BY <1>24, <1>a, GoThreadsOK DEF RequestDisconnect, LabelsOf, SharedLabels, CallerLabels, WorkerLabels
  <2>. QED  BY <1>24, <1>a, <1>b, <2>1, WordFacts DEF RequestDisconnect, Pending, Cancelled, HandleOf
<1>25. ASSUME NEW c \in Callers, CancelIo(c) PROVE TypeOK'
  <2>1. ThreadsOK'
    BY <1>25, <1>a, GoThreadsOK DEF CancelIo, LabelsOf, SharedLabels, CallerLabels, WorkerLabels
  <2>. QED  BY <1>25, <1>a, <1>b, <2>1, WordFacts DEF CancelIo, Pending, Cancelled, HandleOf
<1>26. ASSUME NEW t \in Threads, DecrementIOCount(t) PROVE TypeOK'
  <2>. DEFINE label == IF Decremented(slot[t]) # 0 THEN Resume(pc[t])
                  ELSE IF pc[t] = "dec" THEN "release" ELSE "releaseio"
  <2>1. label \in LabelsOf(t) /\ pc[t] # "idle"
    BY <1>26 DEF DecrementIOCount, ThreadsOK, Resume, LabelsOf, SharedLabels, CallerLabels, WorkerLabels
  <2>2. Go(t, label)
    BY <1>26 DEF DecrementIOCount
  <2>. HIDE DEF label
  <2>3. slot[t] \in Slots /\ ioCount[slot[t]] \in Word
    BY <1>26, <1>b DEF DecrementIOCount
  <2>4. Decremented(slot[t]) \in Word
    BY <2>3, WordFacts DEF Decremented
  <2>5. ThreadsOK'
    BY <2>1, <2>2, GoThreadsOK
  <2>. QED  BY <1>26, <2>3, <2>4, <2>5, WordFacts DEF DecrementIOCount
<1>27. ASSUME NEW t \in Threads, ReleaseSession(t) PROVE TypeOK'
  <2>. DEFINE label == IF ioCount[slot[t]] = 0
                  THEN IF pc[t] = "release" THEN "close" ELSE "closeio"
                  ELSE Resume(pc[t])
  <2>1. label \in LabelsOf(t) /\ pc[t] # "idle"
    BY <1>27 DEF ReleaseSession, ThreadsOK, Resume, LabelsOf, SharedLabels, CallerLabels, WorkerLabels
  <2>2. Go(t, label)
    BY <1>27 DEF ReleaseSession
  <2>. HIDE DEF label
  <2>3. slot[t] \in Slots /\ ioCount[slot[t]] \in Word
    BY <1>27, <1>b DEF ReleaseSession
  <2>4. Decremented(slot[t]) \in Word
    BY <2>3, WordFacts DEF Decremented
  <2>5. ThreadsOK'
    BY <2>1, <2>2, GoThreadsOK
  <2>. QED  BY <1>27, <2>3, <2>4, <2>5, WordFacts DEF ReleaseSession
<1>28. ASSUME NEW t \in Threads, CloseSession(t) PROVE TypeOK'
  <2>1. ThreadsOK'
    BY <1>28, <1>a, GoThreadsOK DEF CloseSession, LabelsOf, SharedLabels, CallerLabels, WorkerLabels, Resume
  <2>. QED  BY <1>28, <1>a, <1>b, <2>1, WordFacts DEF CloseSession, Pending, Cancelled, HandleOf
<1>29. CASE UNCHANGED vars
  BY <1>29 DEF vars, ThreadsOK
<1>. QED
  BY <1>1, <1>2, <1>3, <1>4, <1>5, <1>6, <1>7, <1>8, <1>9, <1>10, <1>11, <1>12, <1>13, <1>14, <1>15, <1>16, <1>17, <1>18, <1>19, <1>20, <1>21, <1>22, <1>23, <1>24, <1>25, <1>26, <1>27, <1>28, <1>29
  DEF Next, Accept, Kernel, Dequeue, Handle, Operate, Return

-----------------------------------------------------------------------------
(* What the exact count says thread by thread.                             *)

InUse(s) == ~Vacant(s) /\ ioCount[s] \in 0..255
Gone(s)  == ~Vacant(s) /\ ioCount[s] \notin 0..255

\* The ranges of what RefCount and LeaveCount add up.
LEMMA Counts ==
    ASSUME TypeOK, NEW s \in Slots
    PROVE  /\ Cardinality(At(UseLabels, s)) \in 0..126
           /\ Cardinality(At(RearmLabels, s)) \in 0..126
           /\ Cardinality(At(LeaveLabels, s)) \in 0..126
           /\ enterPosted[s] \in Nat /\ leavePosted[s] \in Nat
           /\ B(AcceptHolds(s)) \in 0..1 /\ B(recvIO[s] # "none") \in 0..1
           /\ RefCount(s) \in Nat /\ LeaveCount(s) \in Nat
<1>1. At(UseLabels, s) \subseteq Threads /\ At(RearmLabels, s) \subseteq Threads
      /\ At(LeaveLabels, s) \subseteq Threads
  BY DEF At
<1>2. /\ Cardinality(At(UseLabels, s)) \in 0..126
      /\ Cardinality(At(RearmLabels, s)) \in 0..126
      /\ Cardinality(At(LeaveLabels, s)) \in 0..126
  BY <1>1, ThreadSets
<1>3. enterPosted[s] \in Nat /\ leavePosted[s] \in Nat
  BY DEF TypeOK
<1>4. B(AcceptHolds(s)) \in 0..1 /\ B(recvIO[s] # "none") \in 0..1
  BY DEF B
<1>5. RefCount(s) \in Nat
  <2>. DEFINE u == Cardinality(At(UseLabels, s))
              r == Cardinality(At(RearmLabels, s))
              x == B(AcceptHolds(s))
              y == B(recvIO[s] # "none")
  <2>1. u \in Nat /\ r \in Nat /\ x \in Nat /\ y \in Nat
    BY <1>2, <1>4
  <2>. HIDE DEF u, r, x, y
  <2>2. u + r + x + enterPosted[s] + y \in Nat
    BY <1>3, <2>1
  <2>. QED  BY <2>2 DEF RefCount, u, r, x, y
<1>6. LeaveCount(s) \in Nat
  BY <1>2, <1>3 DEF LeaveCount
<1>. QED  BY <1>2, <1>3, <1>4, <1>5, <1>6

\* A session with a reference of any kind is in use.
LEMMA Referenced ==
    ASSUME TypeOK, CountExact
    PROVE  /\ \A t \in Threads : pc[t] \in UseLabels =>
                InUse(slot[t]) /\ ioCount[slot[t]] > 0
           /\ \A s \in Slots :
                recvIO[s] # "none" \/ enterPosted[s] > 0 \/ AcceptHolds(s) =>
                    InUse(s) /\ ioCount[s] > 0
<1>1. ASSUME NEW s \in Slots, RefCount(s) # 0
      PROVE  InUse(s) /\ ioCount[s] > 0
  <2>1. RefCount(s) \in Nat
    BY Counts
  <2>. QED  BY <1>1, <2>1 DEF CountExact, InUse
<1>2. ASSUME NEW t \in Threads, pc[t] \in UseLabels
      PROVE  InUse(slot[t]) /\ ioCount[slot[t]] > 0
  <2>1. slot[t] \in Slots
    BY <1>2 DEF TypeOK, ThreadsOK, UseLabels, CallerLabels
  <2>2. t \in At(UseLabels, slot[t]) /\ At(UseLabels, slot[t]) \subseteq Threads
    BY <1>2 DEF At
  <2>3. Cardinality(At(UseLabels, slot[t])) # 0
    BY <2>2, ThreadSets
  <2>4. RefCount(slot[t]) # 0
    <3>. DEFINE u == Cardinality(At(UseLabels, slot[t]))
                r == Cardinality(At(RearmLabels, slot[t]))
    <3>1. u \in 1..126 /\ r \in 0..126 /\ enterPosted[slot[t]] \in Nat
      BY <2>1, <2>3, Counts
    <3>. HIDE DEF u, r
    <3>2. u + r + B(AcceptHolds(slot[t])) + enterPosted[slot[t]] + B(recvIO[slot[t]] # "none") # 0
      BY <3>1 DEF B
    <3>. QED  BY <3>2 DEF RefCount, u, r
  <2>. QED  BY <1>1, <2>1, <2>4
<1>3. ASSUME NEW s \in Slots,
             recvIO[s] # "none" \/ enterPosted[s] > 0 \/ AcceptHolds(s)
      PROVE  InUse(s) /\ ioCount[s] > 0
  <2>1. RefCount(s) # 0
    <3>. DEFINE u == Cardinality(At(UseLabels, s))
                r == Cardinality(At(RearmLabels, s))
    <3>1. u \in 0..126 /\ r \in 0..126 /\ enterPosted[s] \in Nat
      BY Counts
    <3>. HIDE DEF u, r
    <3>2. u + r + B(AcceptHolds(s)) + enterPosted[s] + B(recvIO[s] # "none") # 0
      BY <1>3, <3>1 DEF B
    <3>. QED  BY <3>2 DEF RefCount, u, r
  <2>. QED  BY <1>1, <2>1
<1>. QED  BY <1>2, <1>3

\* A session that is leaving has nothing but one leave under way.
LEMMA Leaving ==
    ASSUME TypeOK, CountExact
    PROVE  /\ \A t \in Threads : pc[t] \in LeaveLabels =>
                /\ Gone(slot[t]) /\ leavePosted[slot[t]] = 0
                /\ \A u \in Threads : pc[u] \in LeaveLabels /\ slot[u] = slot[t] => u = t
           /\ \A s \in Slots : leavePosted[s] > 0 =>
                /\ Gone(s) /\ leavePosted[s] = 1
                /\ \A t \in Threads : pc[t] \in LeaveLabels => slot[t] # s
<1>1. ASSUME NEW s \in Slots, LeaveCount(s) # 0
      PROVE  Gone(s) /\ LeaveCount(s) = 1
  BY <1>1 DEF CountExact, Gone
<1>2. ASSUME NEW t \in Threads, pc[t] \in LeaveLabels
      PROVE  /\ Gone(slot[t]) /\ leavePosted[slot[t]] = 0
             /\ \A u \in Threads : pc[u] \in LeaveLabels /\ slot[u] = slot[t] => u = t
  <2>1. slot[t] \in Slots
    BY <1>2 DEF TypeOK, ThreadsOK, LeaveLabels
  <2>. DEFINE A == At(LeaveLabels, slot[t])
  <2>2. t \in A /\ A \subseteq Threads
    BY <1>2 DEF At
  <2>3. Cardinality(A) # 0 /\ IsFiniteSet(A)
    BY <2>2, ThreadSets
  <2>4. LeaveCount(slot[t]) # 0
    BY <2>1, <2>3, Counts DEF LeaveCount
  <2>5. Gone(slot[t]) /\ Cardinality(A) = 1 /\ leavePosted[slot[t]] = 0
    BY <1>1, <2>1, <2>3, <2>4, Counts DEF LeaveCount
  <2>6. PICK x : A = {x}
    BY <2>3, <2>5, FS_Singleton
  <2>. QED  BY <2>2, <2>5, <2>6 DEF At
<1>3. ASSUME NEW s \in Slots, leavePosted[s] > 0
      PROVE  /\ Gone(s) /\ leavePosted[s] = 1
             /\ \A t \in Threads : pc[t] \in LeaveLabels => slot[t] # s
  <2>1. Gone(s) /\ leavePosted[s] = 1 /\ Cardinality(At(LeaveLabels, s)) = 0
    BY <1>1, <1>3, Counts DEF LeaveCount
  <2>2. At(LeaveLabels, s) \subseteq Threads
    BY DEF At
  <2>3. At(LeaveLabels, s) = {}
    BY <2>1, <2>2, ThreadSets
  <2>. QED  BY <2>1, <2>3 DEF At
<1>. QED  BY <1>2, <1>3

\* The low byte has room for one more reference.
LEMMA RoomForOne ==
    ASSUME TypeOK, OneDriver, NEW s \in Slots, NEW t \in Threads,
           pc[t] \notin RearmLabels
    PROVE  RefCount(s) \in 0..254
<1>1. IsFiniteSet(Threads) /\ Cardinality(Threads) \in 0..126
  BY ThreadSets
<1>2. /\ IsFiniteSet(Threads \ {t})
      /\ Cardinality(Threads \ {t}) = Cardinality(Threads) - 1
  BY <1>1, FS_RemoveElement
<1>3. At(RearmLabels, s) \subseteq Threads \ {t}
  BY DEF At
<1>4. Cardinality(At(RearmLabels, s)) <= Cardinality(Threads \ {t})
  BY <1>2, <1>3, FS_Subset
<1>5. enterPosted[s] \in 0..1
  BY DEF TypeOK, OneDriver
<1>. QED  BY <1>1, <1>2, <1>4, <1>5, Counts, SMTT(40) DEF RefCount, B

-----------------------------------------------------------------------------
(* One step of a thread.                                                   *)

\* Go moves one thread and keeps its session until it is idle.
LEMMA GoFrame ==
    ASSUME ThreadsOK, NEW t \in Threads, NEW label, Go(t, label)
    PROVE  /\ \A u \in Threads \ {t} :
                pc'[u] = pc[u] /\ slot'[u] = slot[u] /\ want'[u] = want[u]
           /\ pc'[t] = label
           /\ label # "idle" => slot'[t] = slot[t] /\ want'[t] = want[t]
           /\ label = "idle" => slot'[t] = NoSlot
BY DEF ThreadsOK, Go

\* Begin moves one thread and gives it a session.
LEMMA BeginFrame ==
    ASSUME ThreadsOK, NEW t \in Threads, NEW label, NEW s, NEW id, Begin(t, label, s, id)
    PROVE  /\ \A u \in Threads \ {t} :
                pc'[u] = pc[u] /\ slot'[u] = slot[u] /\ want'[u] = want[u]
           /\ pc'[t] = label /\ slot'[t] = s /\ want'[t] = id
BY DEF ThreadsOK, Begin

\* Workers and callers are different threads.
LEMMA WorkersAndCallers ==
    /\ Workers \subseteq Threads /\ Callers \subseteq Threads
    /\ Workers \cap Callers = {}
BY ThreadsAssumption DEF Threads

-----------------------------------------------------------------------------
(* One driver.                                                             *)

\* Every step preserves OneDriver.
LEMMA DriverStep == IInv /\ TypeOK' /\ [Next]_vars => OneDriver'
<1>. SUFFICES ASSUME IInv, TypeOK', [Next]_vars PROVE OneDriver'
  OBVIOUS
<1>. USE DEF sessionVars, queueVars, poolVars, acceptVars, threadVars, appVars,
             DriveLabels, AcceptHolds
<1>a. TypeOK /\ OneDriver /\ ThreadsOK /\ CountedIndexes /\ CountExact
  BY DEF IInv, TypeOK
<1>b. \A t \in Threads : pc[t] # "idle" => slot[t] \in Slots
  BY <1>a DEF ThreadsOK
<1>c. /\ \A s \in Slots : enterPosted[s] \in Nat
      /\ recvIO \in [Slots -> {"first", "rearmed", "none", "zero", "data"}]
      /\ enterPosted \in [Slots -> Nat]
  BY <1>a DEF TypeOK, Pending
<1>1. ASSUME AcceptConnection PROVE OneDriver'
  BY <1>1, <1>a, <1>b, <1>c, SlotsAssumption DEF OneDriver, AcceptConnection, Pending
<1>2. ASSUME PopIndex PROVE OneDriver'
  BY <1>2, <1>a, <1>b, <1>c, SlotsAssumption DEF OneDriver, PopIndex, Pending
<1>3. ASSUME ConnectHandle PROVE OneDriver'
  BY <1>3, <1>a, <1>b, <1>c, SlotsAssumption DEF OneDriver, ConnectHandle, Pending
<1>4. ASSUME ConnectCount PROVE OneDriver'
  <2>1. Vacant(acceptSlot) /\ acceptSlot \in Slots
    BY <1>4, <1>a DEF ConnectCount, Vacant, TypeOK
  <2>2. /\ recvIO[acceptSlot] = "none" /\ ~(enterPosted[acceptSlot] > 0)
        /\ \A t \in Threads : pc[t] \in UseLabels => slot[t] # acceptSlot
    BY <1>a, <2>1, Referenced DEF InUse
  <2>. QED  BY <1>4, <1>a, <1>b, <1>c, <2>1, <2>2 DEF OneDriver, ConnectCount, UseLabels
<1>5. ASSUME ConnectReset PROVE OneDriver'
  BY <1>5, <1>a, <1>b, <1>c, SlotsAssumption DEF OneDriver, ConnectReset, Pending
<1>6. ASSUME PostEnter PROVE OneDriver'
  BY <1>6, <1>a, <1>b, <1>c, SlotsAssumption DEF OneDriver, PostEnter, Pending
<1>7. ASSUME NEW s \in Slots, KernelReceives(s) PROVE OneDriver'
  BY <1>7, <1>a, <1>b, <1>c, SlotsAssumption DEF OneDriver, KernelReceives, Pending
<1>8. ASSUME NEW s \in Slots, KernelCloses(s) PROVE OneDriver'
  BY <1>8, <1>a, <1>b, <1>c, SlotsAssumption DEF OneDriver, KernelCloses, Pending
<1>9. ASSUME NEW w \in Workers, NEW s \in Slots, GetEnter(w, s) PROVE OneDriver'
  <2>0. w \in Threads
    BY WorkersAndCallers
  <2>. QED  BY <1>9, <1>a, <1>b, <1>c, <2>0, BeginFrame DEF OneDriver, GetEnter
<1>10. ASSUME NEW w \in Workers, NEW s \in Slots, GetRecv(w, s) PROVE OneDriver'
  <2>0. w \in Threads
    BY WorkersAndCallers
  <2>. QED  BY <1>10, <1>a, <1>b, <1>c, <2>0, BeginFrame DEF OneDriver, GetRecv
<1>11. ASSUME NEW w \in Workers, NEW s \in Slots, GetLeave(w, s) PROVE OneDriver'
  <2>0. w \in Threads
    BY WorkersAndCallers
  <2>. QED  BY <1>11, <1>a, <1>b, <1>c, <2>0, BeginFrame DEF OneDriver, GetLeave
<1>12. ASSUME NEW w \in Workers, OnClientJoin(w) PROVE OneDriver'
  <2>0. w \in Threads
    BY WorkersAndCallers
  <2>. QED  BY <1>12, <1>a, <1>b, <1>c, <2>0, GoFrame DEF OneDriver, OnClientJoin
<1>13. ASSUME NEW w \in Workers, FirstRecvPost(w) PROVE OneDriver'
  <2>0. w \in Threads
    BY WorkersAndCallers
  <2>. QED  BY <1>13, <1>a, <1>b, <1>c, <2>0, GoFrame DEF OneDriver, FirstRecvPost
<1>14. ASSUME NEW w \in Workers, Parse(w) PROVE OneDriver'
  <2>0. w \in Threads
    BY WorkersAndCallers
  <2>. QED  BY <1>14, <1>a, <1>b, <1>c, <2>0, GoFrame DEF OneDriver, Parse, Cancelled, Pending
<1>15. ASSUME NEW w \in Workers, IncrementForRecv(w) PROVE OneDriver'
  <2>0. w \in Threads
    BY WorkersAndCallers
  <2>. QED  BY <1>15, <1>a, <1>b, <1>c, <2>0, GoFrame DEF OneDriver, IncrementForRecv
<1>16. ASSUME NEW w \in Workers, RecvPost(w) PROVE OneDriver'
  <2>0. w \in Threads
    BY WorkersAndCallers
  <2>. QED  BY <1>16, <1>a, <1>b, <1>c, <2>0, GoFrame DEF OneDriver, RecvPost
<1>17. ASSUME NEW w \in Workers, CheckRequest(w) PROVE OneDriver'
  <2>0. w \in Threads
    BY WorkersAndCallers
  <2>. QED  BY <1>17, <1>a, <1>b, <1>c, <2>0, GoFrame DEF OneDriver, CheckRequest, Cancelled, Pending
<1>18. ASSUME NEW w \in Workers, OnClientLeave(w) PROVE OneDriver'
  <2>0. w \in Threads
    BY WorkersAndCallers
  <2>. QED  BY <1>18, <1>a, <1>b, <1>c, <2>0, GoFrame DEF OneDriver, OnClientLeave, AfterLeave
<1>19. ASSUME NEW w \in Workers, PushIndex(w) PROVE OneDriver'
  <2>0. w \in Threads
    BY WorkersAndCallers
  <2>. QED  BY <1>19, <1>a, <1>b, <1>c, <2>0, GoFrame DEF OneDriver, PushIndex, AfterLeave
<1>20. ASSUME NEW w \in Workers, DecrementSessionCount(w) PROVE OneDriver'
  <2>0. w \in Threads
    BY WorkersAndCallers
  <2>. QED  BY <1>20, <1>a, <1>b, <1>c, <2>0, GoFrame DEF OneDriver, DecrementSessionCount, AfterLeave
<1>21. ASSUME NEW c \in Callers, NEW h \in joined, FindSession(c, h) PROVE OneDriver'
  <2>0. c \in Threads
    BY WorkersAndCallers
  <2>. QED  BY <1>21, <1>a, <1>b, <1>c, <2>0, BeginFrame DEF OneDriver, FindSession
<1>22. ASSUME NEW c \in Callers, CompareHandle(c) PROVE OneDriver'
  <2>0. c \in Threads
    BY WorkersAndCallers
  <2>. QED  BY <1>22, <1>a, <1>b, <1>c, <2>0, GoFrame DEF OneDriver, CompareHandle
<1>23. ASSUME NEW c \in Callers, UseSession(c) PROVE OneDriver'
  <2>0. c \in Threads
    BY WorkersAndCallers
  <2>. QED  BY <1>23, <1>a, <1>b, <1>c, <2>0, GoFrame DEF OneDriver, UseSession
<1>24. ASSUME NEW c \in Callers, RequestDisconnect(c) PROVE OneDriver'
  <2>0. c \in Threads
    BY WorkersAndCallers
  <2>. QED  BY <1>24, <1>a, <1>b, <1>c, <2>0, GoFrame DEF OneDriver, RequestDisconnect
<1>25. ASSUME NEW c \in Callers, CancelIo(c) PROVE OneDriver'
  <2>0. c \in Threads
    BY WorkersAndCallers
  <2>. QED  BY <1>25, <1>a, <1>b, <1>c, <2>0, GoFrame DEF OneDriver, CancelIo, Cancelled, Pending
<1>26. ASSUME NEW t \in Threads, DecrementIOCount(t) PROVE OneDriver'
  <2>0. t \in Threads
    BY WorkersAndCallers
  <2>. QED  BY <1>26, <1>a, <1>b, <1>c, <2>0, GoFrame DEF OneDriver, DecrementIOCount, Resume
<1>27. ASSUME NEW t \in Threads, ReleaseSession(t) PROVE OneDriver'
  <2>0. t \in Threads
    BY WorkersAndCallers
  <2>. QED  BY <1>27, <1>a, <1>b, <1>c, <2>0, GoFrame DEF OneDriver, ReleaseSession, Resume
<1>28. ASSUME NEW t \in Threads, CloseSession(t) PROVE OneDriver'
  <2>0. t \in Threads
    BY WorkersAndCallers
  <2>. QED  BY <1>28, <1>a, <1>b, <1>c, <2>0, GoFrame DEF OneDriver, CloseSession, Resume
<1>29. CASE UNCHANGED vars
  BY <1>29, <1>a DEF OneDriver, vars
<1>. QED
  BY <1>1, <1>2, <1>3, <1>4, <1>5, <1>6, <1>7, <1>8, <1>9, <1>10, <1>11, <1>12, <1>13, <1>14, <1>15, <1>16, <1>17, <1>18, <1>19, <1>20, <1>21, <1>22, <1>23, <1>24, <1>25, <1>26, <1>27, <1>28, <1>29
  DEF Next, Accept, Kernel, Dequeue, Handle, Operate, Return

-----------------------------------------------------------------------------
(* The references of one session, before and after a step.                 *)

\* The references thread t holds in session s; whether it is taking it away.
Weight(t, s) ==
    IF slot[t] # s THEN 0
    ELSE IF pc[t] \in RearmLabels THEN 2 ELSE IF pc[t] \in UseLabels THEN 1 ELSE 0
Departing(t, s) == IF slot[t] = s /\ pc[t] \in LeaveLabels THEN 1 ELSE 0

\* The references that no thread holds.
Held(s) == B(AcceptHolds(s)) + enterPosted[s] + B(recvIO[s] # "none")

\* The references no thread holds are a number.
LEMMA HeldNat == ASSUME TypeOK, NEW s \in Slots PROVE Held(s) \in Nat
<1>1. B(AcceptHolds(s)) \in 0..1 /\ B(recvIO[s] # "none") \in 0..1
  BY DEF B
<1>2. enterPosted[s] \in Nat
  BY DEF TypeOK
<1>. QED  BY <1>1, <1>2 DEF Held

\* The two counts as threads plus queues.
LEMMA CountsAreSums ==
    ASSUME TypeOK, NEW s \in Slots
    PROVE  /\ RefCount(s) = Cardinality(At(UseLabels, s)) + Cardinality(At(RearmLabels, s)) + Held(s)
           /\ LeaveCount(s) = Cardinality(At(LeaveLabels, s)) + leavePosted[s]
<1>. DEFINE u == Cardinality(At(UseLabels, s))
            r == Cardinality(At(RearmLabels, s))
            x == B(AcceptHolds(s))
            y == B(recvIO[s] # "none")
            e == enterPosted[s]
<1>1. u \in Nat /\ r \in Nat /\ x \in Nat /\ y \in Nat /\ e \in Nat
  BY Counts
<1>. HIDE DEF u, r, x, y, e
<1>2. u + r + x + e + y = u + r + (x + e + y)
  BY <1>1
<1>. QED  BY <1>2 DEF RefCount, LeaveCount, Held, u, r, x, y, e

\* The same counts, by label set.
UseCount(s)   == Cardinality(At(UseLabels, s))
RearmCount(s) == Cardinality(At(RearmLabels, s))
Uses(t, s)    == IF slot[t] = s /\ pc[t] \in UseLabels THEN 1 ELSE 0
Rearms(t, s)  == IF slot[t] = s /\ pc[t] \in RearmLabels THEN 1 ELSE 0

\* Thread t moves: the two label sets of RefCount, one at a time.
LEMMA LabelsMove ==
    ASSUME NEW t \in Threads, NEW s \in Slots,
           \A u \in Threads \ {t} : pc'[u] = pc[u] /\ slot'[u] = slot[u]
    PROVE  /\ UseCount(s)' + Uses(t, s) = UseCount(s) + Uses(t, s)'
           /\ RearmCount(s)' + Rearms(t, s) = RearmCount(s) + Rearms(t, s)'
           /\ Cardinality(At(LeaveLabels, s)') + Departing(t, s)
                = Cardinality(At(LeaveLabels, s)) + Departing(t, s)'
           /\ UseCount(s) \in Nat /\ UseCount(s)' \in Nat
           /\ RearmCount(s) \in Nat /\ RearmCount(s)' \in Nat
           /\ Cardinality(At(LeaveLabels, s)) \in Nat /\ Cardinality(At(LeaveLabels, s)') \in Nat
<1>1. /\ UseCount(s)' + Uses(t, s) = UseCount(s) + Uses(t, s)'
      /\ RearmCount(s)' + Rearms(t, s) = RearmCount(s) + Rearms(t, s)'
      /\ Cardinality(At(LeaveLabels, s)') + Departing(t, s)
           = Cardinality(At(LeaveLabels, s)) + Departing(t, s)'
  BY OneMoves DEF UseCount, RearmCount, Uses, Rearms, Departing, B
<1>2. /\ At(UseLabels, s) \subseteq Threads /\ At(UseLabels, s)' \subseteq Threads
      /\ At(RearmLabels, s) \subseteq Threads /\ At(RearmLabels, s)' \subseteq Threads
      /\ At(LeaveLabels, s) \subseteq Threads /\ At(LeaveLabels, s)' \subseteq Threads
  BY DEF At
<1>. QED  BY <1>1, <1>2, ThreadSets DEF UseCount, RearmCount

\* A step of thread t: both counts change by what t and the queues do.
LEMMA ThreadMoves ==
    ASSUME TypeOK, TypeOK', NEW t \in Threads, NEW s \in Slots,
           \A u \in Threads \ {t} : pc'[u] = pc[u] /\ slot'[u] = slot[u]
    PROVE  /\ RefCount(s)' + Weight(t, s) + Held(s)
                = RefCount(s) + Weight(t, s)' + Held(s)'
           /\ LeaveCount(s)' + Departing(t, s) + leavePosted[s]
                = LeaveCount(s) + Departing(t, s)' + leavePosted'[s]
           /\ RefCount(s) \in Nat /\ RefCount(s)' \in Nat
           /\ LeaveCount(s) \in Nat /\ LeaveCount(s)' \in Nat
<1>1. Held(s) \in Nat /\ Held(s)' \in Nat
  <2>1. (TypeOK => Held(s) \in Nat)'
    BY HeldNat, PTL
  <2>. QED  BY <2>1, HeldNat
<1>2. /\ RefCount(s) = UseCount(s) + RearmCount(s) + Held(s)
      /\ LeaveCount(s) = Cardinality(At(LeaveLabels, s)) + leavePosted[s]
  BY CountsAreSums DEF UseCount, RearmCount
<1>3. /\ RefCount(s)' = UseCount(s)' + RearmCount(s)' + Held(s)'
      /\ LeaveCount(s)' = Cardinality(At(LeaveLabels, s)') + leavePosted'[s]
  <2>1. (TypeOK =>
           /\ RefCount(s) = Cardinality(At(UseLabels, s)) + Cardinality(At(RearmLabels, s)) + Held(s)
           /\ LeaveCount(s) = Cardinality(At(LeaveLabels, s)) + leavePosted[s])'
    BY CountsAreSums, PTL
  <2>. QED  BY <2>1 DEF UseCount, RearmCount
<1>4. Uses(t, s) \in Nat /\ Rearms(t, s) \in Nat /\ Uses(t, s)' \in Nat /\ Rearms(t, s)' \in Nat
      /\ Departing(t, s) \in Nat /\ Departing(t, s)' \in Nat
  BY DEF Uses, Rearms, Departing
<1>5. Weight(t, s) = Uses(t, s) + Rearms(t, s) /\ Weight(t, s)' = Uses(t, s)' + Rearms(t, s)'
  BY DEF Weight, Uses, Rearms, UseLabels, RearmLabels
<1>6. leavePosted[s] \in Nat /\ leavePosted'[s] \in Nat
  BY DEF TypeOK
<1>7. RefCount(s)' + Weight(t, s) + Held(s)
        = (UseCount(s)' + Uses(t, s)) + (RearmCount(s)' + Rearms(t, s)) + (Held(s)' + Held(s))
  BY <1>1, <1>3, <1>4, <1>5, LabelsMove
<1>8. RefCount(s) + Weight(t, s)' + Held(s)'
        = (UseCount(s) + Uses(t, s)') + (RearmCount(s) + Rearms(t, s)') + (Held(s)' + Held(s))
  BY <1>1, <1>2, <1>4, <1>5, LabelsMove
<1>9. RefCount(s)' + Weight(t, s) + Held(s) = RefCount(s) + Weight(t, s)' + Held(s)'
  BY <1>7, <1>8, LabelsMove
<1>10. LeaveCount(s)' + Departing(t, s) + leavePosted[s]
         = LeaveCount(s) + Departing(t, s)' + leavePosted'[s]
  BY <1>2, <1>3, <1>4, <1>6, LabelsMove
<1>11. /\ RefCount(s) \in Nat /\ RefCount(s)' \in Nat
       /\ LeaveCount(s) \in Nat /\ LeaveCount(s)' \in Nat
  BY <1>1, <1>2, <1>3, <1>6, LabelsMove
<1>. QED  BY <1>9, <1>10, <1>11

-----------------------------------------------------------------------------
(* The exact count.                                                        *)

\* CountExact for one session.
Exact(s) ==
    /\ Vacant(s) =>
          /\ RefCount(s) = 0 /\ LeaveCount(s) = 0
          /\ ioCount[s] \in 0..255 => ioCount[s] = 0 /\ \A h \in joined : h[1] # s
    /\ ~Vacant(s) /\ ioCount[s] \in 0..255 =>
          ioCount[s] = RefCount(s) /\ LeaveCount(s) = 0
    /\ ~Vacant(s) /\ ioCount[s] \notin 0..255 =>
          RefCount(s) = 0 /\ LeaveCount(s) = 1
    /\ ioCount[s] \in 0..255 \cup ReleaseCount..(ReleaseCount + MaxDrift)

\* CountExact session by session.
LEMMA CountIsExact == CountExact <=> \A s \in Slots : Exact(s)
BY DEF CountExact, Exact

\* A step that changes neither the counts nor who the slot belongs to.
LEMMA StillExact ==
    ASSUME NEW s \in Slots, Exact(s),
           RefCount(s)' = RefCount(s), LeaveCount(s)' = LeaveCount(s),
           ioCount'[s] = ioCount[s], Vacant(s)' <=> Vacant(s),
           Vacant(s) => \A h \in joined' : h \in joined \/ h[1] # s
    PROVE  Exact(s)'
BY DEF Exact

\* Nobody moves.
LEMMA SameCounts ==
    ASSUME UNCHANGED <<pc, slot>>, NEW s \in Slots, enterPosted'[s] = enterPosted[s],
           leavePosted'[s] = leavePosted[s], AcceptHolds(s)' <=> AcceptHolds(s),
           recvIO'[s] # "none" <=> recvIO[s] # "none"
    PROVE  RefCount(s)' = RefCount(s) /\ LeaveCount(s)' = LeaveCount(s)
<1>1. \A L : At(L, s)' = At(L, s)
  BY DEF At
<1>2. B(AcceptHolds(s))' = B(AcceptHolds(s)) /\ B(recvIO[s] # "none")' = B(recvIO[s] # "none")
  BY DEF B
<1>. QED  BY <1>1, <1>2 DEF RefCount, LeaveCount

\* The word arithmetic of the count.
LEMMA WrapUp == ASSUME NEW n \in Nat, n < 65535 PROVE Wrap(n + 1) = n + 1
<1>1. n + 1 \in Nat /\ n + 1 < 65536
  OBVIOUS
<1>2. \A m \in Nat : m < 65536 => m % 65536 = m
  OBVIOUS
<1>. QED  BY <1>1, <1>2 DEF Wrap

\* Decrementing a word above 0.
LEMMA WrapDown == ASSUME NEW n \in Nat, 0 < n, n < 65536 PROVE Wrap(n + 65535) = n - 1
<1>1. n - 1 \in Nat /\ n - 1 < 65536 /\ n + 65535 = (n - 1) + 65536
  OBVIOUS
<1>2. \A m \in Nat : m < 65536 => (m + 65536) % 65536 = m
  OBVIOUS
<1>. QED  BY <1>1, <1>2 DEF Wrap

\* DecodeIOCount tests whether the count exceeds its low byte.
LEMMA FlagIsUpperByte ==
    ASSUME NEW n \in Nat, n < 65536 PROVE Flagged(n) <=> n \notin 0..255
<1>1. n \div 256 # 0 <=> n >= 256
  BY SMTT(30)
<1>. QED  BY <1>1, SMTT(30) DEF Flagged

\* The range of a word.
LEMMA WordRange == \A n \in Word : n \in Nat /\ n < 65536
<1>1. MaxWord \in Nat /\ MaxWord + 1 = 65536
  BY DEF MaxWord
<1>. QED  BY <1>1 DEF Word

-----------------------------------------------------------------------------
\* Thread t moves its references without changing their number.
LEMMA ThreadKeeps ==
    ASSUME TypeOK, TypeOK', NEW t \in Threads, NEW s \in Slots, Exact(s),
           \A u \in Threads \ {t} : pc'[u] = pc[u] /\ slot'[u] = slot[u],
           Weight(t, s)' + Held(s)' = Weight(t, s) + Held(s),
           Departing(t, s)' + leavePosted'[s] = Departing(t, s) + leavePosted[s],
           ioCount'[s] = ioCount[s], Vacant(s)' <=> Vacant(s),
           Vacant(s) => \A h \in joined' : h \in joined \/ h[1] # s
    PROVE  Exact(s)'
<1>1. /\ RefCount(s)' + Weight(t, s) + Held(s) = RefCount(s) + Weight(t, s)' + Held(s)'
      /\ LeaveCount(s)' + Departing(t, s) + leavePosted[s]
           = LeaveCount(s) + Departing(t, s)' + leavePosted'[s]
      /\ RefCount(s) \in Nat /\ RefCount(s)' \in Nat
      /\ LeaveCount(s) \in Nat /\ LeaveCount(s)' \in Nat
  BY ThreadMoves
<1>2. Held(s) \in Nat /\ Held(s)' \in Nat
  <2>1. (TypeOK => Held(s) \in Nat)'
    BY HeldNat, PTL
  <2>. QED  BY <2>1, HeldNat
<1>3. /\ Weight(t, s) \in Nat /\ Weight(t, s)' \in Nat
      /\ Departing(t, s) \in Nat /\ Departing(t, s)' \in Nat
  BY DEF Weight, Departing
<1>4. leavePosted[s] \in Nat /\ leavePosted'[s] \in Nat
  BY DEF TypeOK
<1>5. RefCount(s)' = RefCount(s)
  <2>. SUFFICES ASSUME RefCount(s) \in Nat, RefCount(s)' \in Nat, Weight(t, s) \in Nat, Weight(t, s)' \in Nat, Held(s) \in Nat, Held(s)' \in Nat
       PROVE RefCount(s)' = RefCount(s)
    BY <1>1, <1>2, <1>3
  <2>1. RefCount(s)' + Weight(t, s) + Held(s) = RefCount(s)' + (Weight(t, s) + Held(s))
    OBVIOUS
  <2>2. RefCount(s) + Weight(t, s)' + Held(s)' = RefCount(s) + (Weight(t, s)' + Held(s)')
    OBVIOUS
  <2>3. RefCount(s)' + (Weight(t, s) + Held(s)) = RefCount(s) + (Weight(t, s) + Held(s))
    BY <1>1, <2>1, <2>2
  <2>4. Weight(t, s) + Held(s) \in Nat
    OBVIOUS
  <2>. QED  BY <2>3, <2>4
<1>6. LeaveCount(s)' = LeaveCount(s)
  BY <1>1, <1>3, <1>4
<1>. QED  BY <1>5, <1>6, StillExact

\* The accept thread does not pop from an empty pool.
LEMMA PoolNotEmpty == TypeOK /\ CountedIndexes /\ acceptPc = "pop" => free # {}
<1>. SUFFICES ASSUME TypeOK, CountedIndexes, acceptPc = "pop", free = {} PROVE FALSE
  OBVIOUS
<1>1. Slots \ free = Slots
  OBVIOUS
<1>2. Cardinality(Slots) \in Nat
  BY SlotsAssumption, FS_CardinalityType
<1>3. Cardinality({t \in Threads : pc[t] = "uncount"}) \in Nat
  <2>1. {t \in Threads : pc[t] = "uncount"} \subseteq Threads
    OBVIOUS
  <2>. QED  BY <2>1, ThreadSets
<1>. QED  BY <1>1, <1>2, <1>3 DEF CountedIndexes, B

\* Thread t takes "more" references of session s and drops "less" of them; the
\* leaves under way likewise.
LEMMA CountsMove ==
    ASSUME TypeOK, TypeOK', NEW t \in Threads, NEW s \in Slots,
           NEW more \in Nat, NEW less \in Nat, NEW more2 \in Nat, NEW less2 \in Nat,
           \A u \in Threads \ {t} : pc'[u] = pc[u] /\ slot'[u] = slot[u],
           Held(s)' = Held(s), leavePosted'[s] = leavePosted[s],
           Weight(t, s)' + less = Weight(t, s) + more,
           Departing(t, s)' + less2 = Departing(t, s) + more2
    PROVE  /\ RefCount(s)' + less = RefCount(s) + more
           /\ LeaveCount(s)' + less2 = LeaveCount(s) + more2
           /\ RefCount(s) \in Nat /\ RefCount(s)' \in Nat
           /\ LeaveCount(s) \in Nat /\ LeaveCount(s)' \in Nat
<1>1. /\ RefCount(s)' + Weight(t, s) + Held(s) = RefCount(s) + Weight(t, s)' + Held(s)'
      /\ LeaveCount(s)' + Departing(t, s) + leavePosted[s]
           = LeaveCount(s) + Departing(t, s)' + leavePosted'[s]
      /\ RefCount(s) \in Nat /\ RefCount(s)' \in Nat
      /\ LeaveCount(s) \in Nat /\ LeaveCount(s)' \in Nat
  BY ThreadMoves
<1>2. Held(s) \in Nat
  BY HeldNat
<1>3. /\ Weight(t, s) \in Nat /\ Weight(t, s)' \in Nat
      /\ Departing(t, s) \in Nat /\ Departing(t, s)' \in Nat
  BY DEF Weight, Departing
<1>4. leavePosted[s] \in Nat
  BY DEF TypeOK
<1>5. RefCount(s)' + Weight(t, s) = RefCount(s) + Weight(t, s)'
  BY <1>1, <1>2, <1>3
<1>6. LeaveCount(s)' + Departing(t, s) = LeaveCount(s) + Departing(t, s)'
  BY <1>1, <1>3, <1>4
<1>7. RefCount(s)' + less = RefCount(s) + more
  <2>1. RefCount(s)' + Weight(t, s) + less = RefCount(s) + (Weight(t, s)' + less)
    BY <1>1, <1>3, <1>5
  <2>2. RefCount(s)' + Weight(t, s) + less = RefCount(s) + Weight(t, s) + more
    BY <2>1, <1>1, <1>3
  <2>. QED  BY <1>1, <1>3, <2>2
<1>8. LeaveCount(s)' + less2 = LeaveCount(s) + more2
  BY <1>1, <1>3, <1>6
<1>. QED  BY <1>1, <1>7, <1>8

\* The accept thread moves a reference.
LEMMA HeldMoves ==
    ASSUME TypeOK, TypeOK', UNCHANGED <<pc, slot>>, NEW s \in Slots,
           leavePosted'[s] = leavePosted[s], NEW more \in Nat, Held(s)' = Held(s) + more
    PROVE  RefCount(s)' = RefCount(s) + more /\ LeaveCount(s)' = LeaveCount(s)
<1>1. \A L : At(L, s)' = At(L, s)
  BY DEF At
<1>2. /\ RefCount(s) = Cardinality(At(UseLabels, s)) + Cardinality(At(RearmLabels, s)) + Held(s)
      /\ LeaveCount(s) = Cardinality(At(LeaveLabels, s)) + leavePosted[s]
  BY CountsAreSums
<1>3. (TypeOK => /\ RefCount(s) = Cardinality(At(UseLabels, s)) + Cardinality(At(RearmLabels, s)) + Held(s)
                 /\ LeaveCount(s) = Cardinality(At(LeaveLabels, s)) + leavePosted[s])'
  BY CountsAreSums, PTL
<1>4. /\ RefCount(s)' = Cardinality(At(UseLabels, s)) + Cardinality(At(RearmLabels, s)) + Held(s)'
      /\ LeaveCount(s)' = Cardinality(At(LeaveLabels, s)) + leavePosted'[s]
  BY <1>1, <1>3
<1>5. /\ Cardinality(At(UseLabels, s)) \in Nat /\ Cardinality(At(RearmLabels, s)) \in Nat
      /\ Held(s) \in Nat
  BY Counts, HeldNat
<1>. QED  BY <1>2, <1>4, <1>5

\* Every step preserves CountExact.
LEMMA CountStep == IInv /\ NoWrap /\ TypeOK' /\ [Next]_vars => CountExact'
<1>. SUFFICES ASSUME IInv, NoWrap, TypeOK', [Next]_vars PROVE \A x \in Slots : Exact(x)'
  BY DEF CountExact, Exact
<1>. USE DEF sessionVars, queueVars, poolVars, acceptVars, threadVars, appVars
<1>a. /\ TypeOK /\ OneDriver /\ ThreadsOK /\ CountedIndexes /\ CountExact /\ HandlesInOrder
      /\ \A s \in Slots : Exact(s)
  BY CountIsExact DEF IInv, TypeOK
<1>b. \A t \in Threads : pc[t] # "idle" => slot[t] \in Slots
  BY <1>a DEF ThreadsOK
<1>c. /\ recvIO \in [Slots -> {"first", "rearmed", "none", "zero", "data"}]
      /\ enterPosted \in [Slots -> Nat] /\ leavePosted \in [Slots -> Nat]
      /\ ioCount \in [Slots -> Word]
  BY <1>a DEF TypeOK, Pending
<1>1. ASSUME AcceptConnection PROVE (\A x \in Slots : Exact(x)')
  <2>. SUFFICES ASSUME NEW x \in Slots PROVE Exact(x)'
    OBVIOUS
  <2>1. RefCount(x)' = RefCount(x) /\ LeaveCount(x)' = LeaveCount(x)
    BY <1>1, <1>c, SameCounts, SlotsAssumption DEF AcceptConnection, AcceptHolds, Pending
  <2>2. ioCount'[x] = ioCount[x] /\ joined' = joined /\ (Vacant(x)' <=> Vacant(x))
    BY <1>1, <1>a, SlotsAssumption, PoolNotEmpty DEF AcceptConnection, Vacant, TypeOK
  <2>. QED  BY <1>a, <2>1, <2>2, StillExact
<1>2. ASSUME PopIndex PROVE (\A x \in Slots : Exact(x)')
  <2>. SUFFICES ASSUME NEW x \in Slots PROVE Exact(x)'
    OBVIOUS
  <2>1. RefCount(x)' = RefCount(x) /\ LeaveCount(x)' = LeaveCount(x)
    BY <1>2, <1>c, SameCounts, SlotsAssumption DEF PopIndex, AcceptHolds, Pending
  <2>2. ioCount'[x] = ioCount[x] /\ joined' = joined /\ (Vacant(x)' <=> Vacant(x))
    BY <1>2, <1>a, SlotsAssumption, PoolNotEmpty DEF PopIndex, Vacant, TypeOK
  <2>. QED  BY <1>a, <2>1, <2>2, StillExact
<1>3. ASSUME ConnectHandle PROVE (\A x \in Slots : Exact(x)')
  <2>. SUFFICES ASSUME NEW x \in Slots PROVE Exact(x)'
    OBVIOUS
  <2>1. RefCount(x)' = RefCount(x) /\ LeaveCount(x)' = LeaveCount(x)
    BY <1>3, <1>c, SameCounts, SlotsAssumption DEF ConnectHandle, AcceptHolds, Pending
  <2>2. ioCount'[x] = ioCount[x] /\ joined' = joined /\ (Vacant(x)' <=> Vacant(x))
    BY <1>3, <1>a, SlotsAssumption, PoolNotEmpty DEF ConnectHandle, Vacant, TypeOK
  <2>. QED  BY <1>a, <2>1, <2>2, StillExact
<1>4. ASSUME ConnectCount PROVE (\A x \in Slots : Exact(x)')
  <2>0. acceptSlot \in Slots /\ Vacant(acceptSlot) /\ acceptSlot \notin free
    BY <1>4, <1>a DEF ConnectCount, Vacant, TypeOK, CountedIndexes
  <2>. SUFFICES ASSUME NEW x \in Slots PROVE Exact(x)'
    OBVIOUS
  <2>1. CASE x # acceptSlot
    <3>1. RefCount(x)' = RefCount(x) /\ LeaveCount(x)' = LeaveCount(x)
      BY <1>4, <2>1, SameCounts DEF ConnectCount, AcceptHolds
    <3>. QED  BY <1>4, <1>a, <1>c, <2>1, <3>1, StillExact DEF ConnectCount, Vacant
  <2>2. CASE x = acceptSlot
    <3>1. Held(x)' = Held(x) + 1
      BY <1>4, <1>c, <2>2 DEF ConnectCount, Held, AcceptHolds, B
    <3>2. RefCount(x)' = RefCount(x) + 1 /\ LeaveCount(x)' = LeaveCount(x)
      BY <1>4, <1>a, <3>1, HeldMoves DEF ConnectCount
    <3>3. RefCount(x) = 0 /\ LeaveCount(x) = 0
      BY <1>a, <2>0, <2>2 DEF Exact
    <3>4. ioCount'[x] = 1 /\ ~Vacant(x)'
      BY <1>4, <1>c, <2>0, <2>2 DEF ConnectCount, Vacant
    <3>5. RefCount(x)' = 1 /\ LeaveCount(x)' = 0
      BY <3>2, <3>3
    <3>. QED  BY <3>4, <3>5 DEF Exact
  <2>. QED  BY <2>1, <2>2
<1>5. ASSUME ConnectReset PROVE (\A x \in Slots : Exact(x)')
  <2>. SUFFICES ASSUME NEW x \in Slots PROVE Exact(x)'
    OBVIOUS
  <2>1. RefCount(x)' = RefCount(x) /\ LeaveCount(x)' = LeaveCount(x)
    BY <1>5, <1>c, SameCounts, SlotsAssumption DEF ConnectReset, AcceptHolds, Pending
  <2>2. ioCount'[x] = ioCount[x] /\ joined' = joined /\ (Vacant(x)' <=> Vacant(x))
    BY <1>5, <1>a, SlotsAssumption, PoolNotEmpty DEF ConnectReset, Vacant, TypeOK
  <2>. QED  BY <1>a, <2>1, <2>2, StillExact
<1>6. ASSUME PostEnter PROVE (\A x \in Slots : Exact(x)')
  <2>0. acceptSlot \in Slots
    BY <1>6, <1>a DEF PostEnter, TypeOK
  <2>1. ASSUME NEW x \in Slots PROVE Exact(x)'
    <3>1. Held(x)' = Held(x) + 0
      BY <1>6, <1>a, <1>c, <2>0, SlotsAssumption DEF PostEnter, Held, AcceptHolds, B, OneDriver
    <3>2. RefCount(x)' = RefCount(x) + 0 /\ LeaveCount(x)' = LeaveCount(x)
      BY ONLY <1>6, <1>a, <2>0, <3>1, HeldMoves, 0 \in Nat, TypeOK', x \in Slots
      DEF PostEnter, sessionVars, queueVars, poolVars, acceptVars, threadVars, appVars
    <3>3. RefCount(x) \in Nat
      BY <1>a, Counts
    <3>4. Vacant(x)' <=> Vacant(x)
      BY <1>6, <2>0, SlotsAssumption DEF PostEnter, Vacant
    <3>. QED  BY <1>6, <1>a, <3>2, <3>3, <3>4, StillExact DEF PostEnter
  <2>. QED  BY <2>1
<1>7. ASSUME NEW s \in Slots, KernelReceives(s) PROVE (\A x \in Slots : Exact(x)')
  <2>. SUFFICES ASSUME NEW x \in Slots PROVE Exact(x)'
    OBVIOUS
  <2>1. RefCount(x)' = RefCount(x) /\ LeaveCount(x)' = LeaveCount(x)
    BY <1>7, <1>c, SameCounts, SlotsAssumption DEF KernelReceives, AcceptHolds, Pending
  <2>2. ioCount'[x] = ioCount[x] /\ joined' = joined /\ (Vacant(x)' <=> Vacant(x))
    BY <1>7, <1>a, SlotsAssumption, PoolNotEmpty DEF KernelReceives, Vacant, TypeOK
  <2>. QED  BY <1>a, <2>1, <2>2, StillExact
<1>8. ASSUME NEW s \in Slots, KernelCloses(s) PROVE (\A x \in Slots : Exact(x)')
  <2>. SUFFICES ASSUME NEW x \in Slots PROVE Exact(x)'
    OBVIOUS
  <2>1. RefCount(x)' = RefCount(x) /\ LeaveCount(x)' = LeaveCount(x)
    BY <1>8, <1>c, SameCounts, SlotsAssumption DEF KernelCloses, AcceptHolds, Pending
  <2>2. ioCount'[x] = ioCount[x] /\ joined' = joined /\ (Vacant(x)' <=> Vacant(x))
    BY <1>8, <1>a, SlotsAssumption, PoolNotEmpty DEF KernelCloses, Vacant, TypeOK
  <2>. QED  BY <1>a, <2>1, <2>2, StillExact
<1>9. ASSUME NEW w \in Workers, NEW s \in Slots, GetEnter(w, s) PROVE (\A x \in Slots : Exact(x)')
  <2>0. w \in Threads
    BY WorkersAndCallers
  <2>. SUFFICES ASSUME NEW x \in Slots PROVE Exact(x)'
    OBVIOUS
  <2>1. \A u \in Threads \ {w} : pc'[u] = pc[u] /\ slot'[u] = slot[u]
    BY <1>9, <1>a, <2>0, BeginFrame DEF GetEnter
  <2>2. /\ Weight(w, x)' + Held(x)' = Weight(w, x) + Held(x)
        /\ Departing(w, x)' + leavePosted'[x] = Departing(w, x) + leavePosted[x]
    BY <1>9, <1>a, <1>b, <1>c, <2>0, BeginFrame, SlotsAssumption
    DEF GetEnter, Weight, Held, Departing, B, AcceptHolds, UseLabels, RearmLabels, LeaveLabels, CallerLabels
  <2>. QED  BY <1>9, <1>a, <2>0, <2>1, <2>2, ThreadKeeps DEF GetEnter, Vacant, HandleOf
<1>10. ASSUME NEW w \in Workers, NEW s \in Slots, GetRecv(w, s) PROVE (\A x \in Slots : Exact(x)')
  <2>0. w \in Threads
    BY WorkersAndCallers
  <2>. SUFFICES ASSUME NEW x \in Slots PROVE Exact(x)'
    OBVIOUS
  <2>1. \A u \in Threads \ {w} : pc'[u] = pc[u] /\ slot'[u] = slot[u]
    BY <1>10, <1>a, <2>0, BeginFrame DEF GetRecv
  <2>2. /\ Weight(w, x)' + Held(x)' = Weight(w, x) + Held(x)
        /\ Departing(w, x)' + leavePosted'[x] = Departing(w, x) + leavePosted[x]
    BY <1>10, <1>a, <1>b, <1>c, <2>0, BeginFrame, SlotsAssumption
    DEF GetRecv, Weight, Held, Departing, B, AcceptHolds, UseLabels, RearmLabels, LeaveLabels, CallerLabels
  <2>. QED  BY <1>10, <1>a, <2>0, <2>1, <2>2, ThreadKeeps DEF GetRecv, Vacant, HandleOf
<1>11. ASSUME NEW w \in Workers, NEW s \in Slots, GetLeave(w, s) PROVE (\A x \in Slots : Exact(x)')
  <2>0. w \in Threads
    BY WorkersAndCallers
  <2>. SUFFICES ASSUME NEW x \in Slots PROVE Exact(x)'
    OBVIOUS
  <2>1. \A u \in Threads \ {w} : pc'[u] = pc[u] /\ slot'[u] = slot[u]
    BY <1>11, <1>a, <2>0, BeginFrame DEF GetLeave
  <2>2. /\ Weight(w, x)' + Held(x)' = Weight(w, x) + Held(x)
        /\ Departing(w, x)' + leavePosted'[x] = Departing(w, x) + leavePosted[x]
    BY <1>11, <1>a, <1>b, <1>c, <2>0, BeginFrame, SlotsAssumption
    DEF GetLeave, Weight, Held, Departing, B, AcceptHolds, UseLabels, RearmLabels, LeaveLabels, CallerLabels
  <2>. QED  BY <1>11, <1>a, <2>0, <2>1, <2>2, ThreadKeeps DEF GetLeave, Vacant, HandleOf
<1>12. ASSUME NEW w \in Workers, OnClientJoin(w) PROVE (\A x \in Slots : Exact(x)')
  <2>0. w \in Threads
    BY WorkersAndCallers
  <2>. SUFFICES ASSUME NEW x \in Slots PROVE Exact(x)'
    OBVIOUS
  <2>1. \A u \in Threads \ {w} : pc'[u] = pc[u] /\ slot'[u] = slot[u]
    BY <1>12, <1>a, <2>0, GoFrame DEF OnClientJoin
  <2>2. /\ Weight(w, x)' + Held(x)' = Weight(w, x) + Held(x)
        /\ Departing(w, x)' + leavePosted'[x] = Departing(w, x) + leavePosted[x]
    BY <1>12, <1>a, <1>b, <1>c, <2>0, GoFrame, SlotsAssumption
    DEF OnClientJoin, Weight, Held, Departing, B, AcceptHolds, UseLabels, RearmLabels, LeaveLabels, CallerLabels
  <2>3. ~Vacant(slot[w])
    BY <1>12, <1>a, <2>0, Referenced DEF OnClientJoin, UseLabels, InUse
  <2>. QED  BY <1>12, <1>a, <2>0, <2>1, <2>2, <2>3, ThreadKeeps DEF OnClientJoin, Vacant, HandleOf
<1>13. ASSUME NEW w \in Workers, FirstRecvPost(w) PROVE (\A x \in Slots : Exact(x)')
  <2>0. w \in Threads
    BY WorkersAndCallers
  <2>a. recvIO[slot[w]] = "none"
    BY <1>13, <1>a, <2>0 DEF FirstRecvPost, OneDriver, DriveLabels
  <2>. SUFFICES ASSUME NEW x \in Slots PROVE Exact(x)'
    OBVIOUS
  <2>1. \A u \in Threads \ {w} : pc'[u] = pc[u] /\ slot'[u] = slot[u]
    BY <1>13, <1>a, <2>0, GoFrame DEF FirstRecvPost
  <2>2. /\ Weight(w, x)' + Held(x)' = Weight(w, x) + Held(x)
        /\ Departing(w, x)' + leavePosted'[x] = Departing(w, x) + leavePosted[x]
    BY <1>13, <1>a, <1>b, <1>c, <2>0, <2>a, GoFrame, SlotsAssumption
    DEF FirstRecvPost, Weight, Held, Departing, B, AcceptHolds, UseLabels, RearmLabels, LeaveLabels, CallerLabels
  <2>. QED  BY <1>13, <1>a, <2>0, <2>1, <2>2, ThreadKeeps DEF FirstRecvPost, Vacant, HandleOf
<1>14. ASSUME NEW w \in Workers, Parse(w) PROVE (\A x \in Slots : Exact(x)')
  <2>0. w \in Threads
    BY WorkersAndCallers
  <2>. SUFFICES ASSUME NEW x \in Slots PROVE Exact(x)'
    OBVIOUS
  <2>1. \A u \in Threads \ {w} : pc'[u] = pc[u] /\ slot'[u] = slot[u]
    BY <1>14, <1>a, <2>0, GoFrame DEF Parse
  <2>2. /\ Weight(w, x)' + Held(x)' = Weight(w, x) + Held(x)
        /\ Departing(w, x)' + leavePosted'[x] = Departing(w, x) + leavePosted[x]
    BY <1>14, <1>a, <1>b, <1>c, <2>0, GoFrame, SlotsAssumption
    DEF Parse, Weight, Held, Departing, B, AcceptHolds, UseLabels, RearmLabels, LeaveLabels, CallerLabels, Cancelled, Pending
  <2>. QED  BY <1>14, <1>a, <2>0, <2>1, <2>2, ThreadKeeps DEF Parse, Vacant, HandleOf
<1>15. ASSUME NEW w \in Workers, IncrementForRecv(w) PROVE (\A x \in Slots : Exact(x)')
  <2>. SUFFICES ASSUME NEW x \in Slots PROVE Exact(x)'
    OBVIOUS
  <2>0. w \in Threads
    BY WorkersAndCallers
  <2>1. CASE x = slot[w]
    <3>1. InUse(x) /\ ioCount[x] = RefCount(x) /\ LeaveCount(x) = 0
      BY <1>15, <1>a, <2>0, <2>1, Referenced DEF IncrementForRecv, UseLabels, InUse, Exact
    <3>2. RefCount(x) \in 0..254
      BY <1>15, <1>a, <2>0, RoomForOne DEF IncrementForRecv, RearmLabels
    <3>3. RefCount(x) \in Nat /\ RefCount(x) < 65535 /\ RefCount(x) + 1 \in 0..255
          /\ RefCount(x) + 1 \in Nat /\ RefCount(x) + 1 < 65536
      BY <3>2
    <3>4. Incremented(x) = RefCount(x) + 1
      BY <3>1, <3>3, WrapUp DEF Incremented
    <3>5. ~Flagged(Incremented(x))
      BY <3>3, <3>4, FlagIsUpperByte
    <3>6. /\ \A u \in Threads \ {w} : pc'[u] = pc[u] /\ slot'[u] = slot[u]
          /\ pc'[w] = "repost" /\ slot'[w] = x
      BY <1>15, <1>a, <2>0, <2>1, <3>5, GoFrame DEF IncrementForRecv
    <3>7. Held(x)' = Held(x) /\ leavePosted'[x] = leavePosted[x]
      BY <1>15, <3>6 DEF IncrementForRecv, Held, B, AcceptHolds
    <3>8. Weight(w, x)' + 0 = Weight(w, x) + 1 /\ Departing(w, x)' + 0 = Departing(w, x) + 0
      BY <1>15, <1>a, <2>0, <2>1, <3>6, SlotsAssumption DEF IncrementForRecv, ThreadsOK, Weight, Departing, UseLabels, RearmLabels, LeaveLabels, CallerLabels
    <3>9. RefCount(x)' + 0 = RefCount(x) + 1 /\ LeaveCount(x)' + 0 = LeaveCount(x) + 0
          /\ RefCount(x)' \in Nat /\ LeaveCount(x)' \in Nat
      BY <1>a, <2>0, <3>6, <3>7, <3>8, CountsMove
    <3>10. RefCount(x)' = RefCount(x) + 1 /\ LeaveCount(x)' = 0
      BY <3>1, <3>3, <3>9
    <3>11. ioCount'[x] = RefCount(x)' /\ ioCount'[x] \in 0..255
      BY <1>15, <1>c, <2>1, <3>3, <3>4, <3>10 DEF IncrementForRecv
    <3>12. ~Vacant(x)'
      BY <1>15, <3>1, <3>6 DEF IncrementForRecv, InUse, Vacant
    <3>. QED  BY <3>10, <3>11, <3>12 DEF Exact
  <2>2. CASE x # slot[w]
    <3>1. /\ \A u \in Threads \ {w} : pc'[u] = pc[u] /\ slot'[u] = slot[u]
          /\ slot'[w] # x
      BY <1>15, <1>a, <2>0, <2>2, GoFrame, SlotsAssumption DEF IncrementForRecv
    <3>2. /\ Weight(w, x)' + Held(x)' = Weight(w, x) + Held(x)
          /\ Departing(w, x)' + leavePosted'[x] = Departing(w, x) + leavePosted[x]
      BY <1>15, <2>2, <3>1 DEF IncrementForRecv, Weight, Held, Departing, B, AcceptHolds
    <3>. QED  BY <1>15, <1>a, <1>c, <2>0, <2>2, <3>1, <3>2, ThreadKeeps DEF IncrementForRecv, Vacant
  <2>. QED  BY <2>1, <2>2
<1>16. ASSUME NEW w \in Workers, RecvPost(w) PROVE (\A x \in Slots : Exact(x)')
  <2>0. w \in Threads
    BY WorkersAndCallers
  <2>a. recvIO[slot[w]] = "none"
    BY <1>16, <1>a, <2>0 DEF RecvPost, OneDriver, DriveLabels
  <2>. SUFFICES ASSUME NEW x \in Slots PROVE Exact(x)'
    OBVIOUS
  <2>1. \A u \in Threads \ {w} : pc'[u] = pc[u] /\ slot'[u] = slot[u]
    BY <1>16, <1>a, <2>0, GoFrame DEF RecvPost
  <2>2. /\ Weight(w, x)' + Held(x)' = Weight(w, x) + Held(x)
        /\ Departing(w, x)' + leavePosted'[x] = Departing(w, x) + leavePosted[x]
    BY <1>16, <1>a, <1>b, <1>c, <2>0, <2>a, GoFrame, SlotsAssumption
    DEF RecvPost, Weight, Held, Departing, B, AcceptHolds, UseLabels, RearmLabels, LeaveLabels, CallerLabels
  <2>. QED  BY <1>16, <1>a, <2>0, <2>1, <2>2, ThreadKeeps DEF RecvPost, Vacant, HandleOf
<1>17. ASSUME NEW w \in Workers, CheckRequest(w) PROVE (\A x \in Slots : Exact(x)')
  <2>0. w \in Threads
    BY WorkersAndCallers
  <2>. SUFFICES ASSUME NEW x \in Slots PROVE Exact(x)'
    OBVIOUS
  <2>1. \A u \in Threads \ {w} : pc'[u] = pc[u] /\ slot'[u] = slot[u]
    BY <1>17, <1>a, <2>0, GoFrame DEF CheckRequest
  <2>2. /\ Weight(w, x)' + Held(x)' = Weight(w, x) + Held(x)
        /\ Departing(w, x)' + leavePosted'[x] = Departing(w, x) + leavePosted[x]
    BY <1>17, <1>a, <1>b, <1>c, <2>0, GoFrame, SlotsAssumption
    DEF CheckRequest, Weight, Held, Departing, B, AcceptHolds, UseLabels, RearmLabels, LeaveLabels, CallerLabels, Cancelled, Pending
  <2>. QED  BY <1>17, <1>a, <2>0, <2>1, <2>2, ThreadKeeps DEF CheckRequest, Vacant, HandleOf
<1>18. ASSUME NEW w \in Workers, OnClientLeave(w) PROVE (\A x \in Slots : Exact(x)')
  <2>0. w \in Threads
    BY WorkersAndCallers
  <2>. SUFFICES ASSUME NEW x \in Slots PROVE Exact(x)'
    OBVIOUS
  <2>1. \A u \in Threads \ {w} : pc'[u] = pc[u] /\ slot'[u] = slot[u]
    BY <1>18, <1>a, <2>0, GoFrame DEF OnClientLeave, AfterLeave
  <2>2. /\ Weight(w, x)' + Held(x)' = Weight(w, x) + Held(x)
        /\ Departing(w, x)' + leavePosted'[x] = Departing(w, x) + leavePosted[x]
    BY <1>18, <1>a, <1>b, <1>c, <2>0, GoFrame, SlotsAssumption
    DEF OnClientLeave, AfterLeave, Weight, Held, Departing, B, AcceptHolds, UseLabels, RearmLabels, LeaveLabels, CallerLabels
  <2>. QED  BY <1>18, <1>a, <2>0, <2>1, <2>2, ThreadKeeps DEF OnClientLeave, AfterLeave, Vacant, HandleOf
<1>19. ASSUME NEW w \in Workers, PushIndex(w) PROVE (\A x \in Slots : Exact(x)')
  <2>. SUFFICES ASSUME NEW x \in Slots PROVE Exact(x)'
    OBVIOUS
  <2>0. w \in Threads
    BY WorkersAndCallers
  <2>1. /\ \A u \in Threads \ {w} : pc'[u] = pc[u] /\ slot'[u] = slot[u]
        /\ pc'[w] = "uncount" /\ slot'[w] = slot[w]
    BY <1>19, <1>a, <2>0, GoFrame DEF PushIndex, AfterLeave
  <2>2. CASE x = slot[w]
    <3>1. Gone(x) /\ RefCount(x) = 0 /\ LeaveCount(x) = 1
      BY <1>19, <1>a, <2>0, <2>2, Leaving DEF PushIndex, AfterLeave, LeaveLabels, Gone, Exact
    <3>2. /\ Held(x)' = Held(x) /\ leavePosted'[x] = leavePosted[x]
          /\ Weight(w, x)' + 0 = Weight(w, x) + 0 /\ Departing(w, x)' + 1 = Departing(w, x) + 0
      BY <1>19, <2>1, <2>2 DEF PushIndex, AfterLeave, Held, B, AcceptHolds, Weight, Departing,
         UseLabels, RearmLabels, LeaveLabels, CallerLabels
    <3>3. RefCount(x)' + 0 = RefCount(x) + 0 /\ LeaveCount(x)' + 1 = LeaveCount(x) + 0
          /\ RefCount(x)' \in Nat /\ LeaveCount(x)' \in Nat
      BY <1>a, <2>0, <2>1, <3>2, CountsMove
    <3>4. RefCount(x)' = 0 /\ LeaveCount(x)' = 0
      BY <3>1, <3>3
    <3>5. Vacant(x)' /\ ioCount'[x] = ioCount[x]
      BY <1>19, <2>2 DEF PushIndex, AfterLeave, Vacant
    <3>. QED  BY <1>a, <3>1, <3>4, <3>5 DEF Exact, Gone
  <2>3. CASE x # slot[w]
    <3>1. /\ Weight(w, x)' + Held(x)' = Weight(w, x) + Held(x)
          /\ Departing(w, x)' + leavePosted'[x] = Departing(w, x) + leavePosted[x]
      BY <1>19, <2>1, <2>3 DEF PushIndex, AfterLeave, Weight, Held, Departing, B, AcceptHolds
    <3>. QED  BY <1>19, <1>a, <2>0, <2>1, <2>3, <3>1, ThreadKeeps DEF PushIndex, AfterLeave, Vacant
  <2>. QED  BY <2>2, <2>3
<1>20. ASSUME NEW w \in Workers, DecrementSessionCount(w) PROVE (\A x \in Slots : Exact(x)')
  <2>0. w \in Threads
    BY WorkersAndCallers
  <2>. SUFFICES ASSUME NEW x \in Slots PROVE Exact(x)'
    OBVIOUS
  <2>1. \A u \in Threads \ {w} : pc'[u] = pc[u] /\ slot'[u] = slot[u]
    BY <1>20, <1>a, <2>0, GoFrame DEF DecrementSessionCount, AfterLeave
  <2>2. /\ Weight(w, x)' + Held(x)' = Weight(w, x) + Held(x)
        /\ Departing(w, x)' + leavePosted'[x] = Departing(w, x) + leavePosted[x]
    BY <1>20, <1>a, <1>b, <1>c, <2>0, GoFrame, SlotsAssumption
    DEF DecrementSessionCount, AfterLeave, Weight, Held, Departing, B, AcceptHolds, UseLabels, RearmLabels, LeaveLabels, CallerLabels
  <2>. QED  BY <1>20, <1>a, <2>0, <2>1, <2>2, ThreadKeeps DEF DecrementSessionCount, AfterLeave, Vacant, HandleOf
<1>21. ASSUME NEW c \in Callers, NEW h \in joined, FindSession(c, h) PROVE (\A x \in Slots : Exact(x)')
  <2>. SUFFICES ASSUME NEW x \in Slots PROVE Exact(x)'
    OBVIOUS
  <2>0. c \in Threads
    BY WorkersAndCallers
  <2>1. CASE x = h[1] /\ ioCount[x] \in 0..255
    <3>0. ~Vacant(x)
      BY <1>a, <2>1 DEF Exact
    <3>1. InUse(x) /\ ioCount[x] = RefCount(x) /\ LeaveCount(x) = 0
      BY <1>a, <2>1, <3>0 DEF InUse, Exact
    <3>2. RefCount(x) \in 0..254
      BY <1>21, <1>a, <2>0, RoomForOne DEF FindSession, RearmLabels
    <3>3. RefCount(x) \in Nat /\ RefCount(x) < 65535 /\ RefCount(x) + 1 \in 0..255
          /\ RefCount(x) + 1 \in Nat /\ RefCount(x) + 1 < 65536
      BY <3>2
    <3>4. Incremented(x) = RefCount(x) + 1
      BY <3>1, <3>3, WrapUp DEF Incremented
    <3>5. ~Flagged(Incremented(x))
      BY <3>3, <3>4, FlagIsUpperByte
    <3>6. /\ \A u \in Threads \ {c} : pc'[u] = pc[u] /\ slot'[u] = slot[u]
          /\ pc'[c] = "compare" /\ slot'[c] = x
      BY <1>21, <1>a, <2>0, <2>1, <3>5, BeginFrame DEF FindSession
    <3>7. Held(x)' = Held(x) /\ leavePosted'[x] = leavePosted[x]
      BY <1>21, <3>6 DEF FindSession, Held, B, AcceptHolds
    <3>8. Weight(c, x)' + 0 = Weight(c, x) + 1 /\ Departing(c, x)' + 0 = Departing(c, x) + 0
      BY <1>21, <1>a, <2>0, <2>1, <3>6, SlotsAssumption DEF FindSession, ThreadsOK, Weight, Departing, UseLabels, RearmLabels, LeaveLabels, CallerLabels
    <3>9. RefCount(x)' + 0 = RefCount(x) + 1 /\ LeaveCount(x)' + 0 = LeaveCount(x) + 0
          /\ RefCount(x)' \in Nat /\ LeaveCount(x)' \in Nat
      BY <1>a, <2>0, <3>6, <3>7, <3>8, CountsMove
    <3>10. RefCount(x)' = RefCount(x) + 1 /\ LeaveCount(x)' = 0
      BY <3>1, <3>3, <3>9
    <3>11. ioCount'[x] = RefCount(x)' /\ ioCount'[x] \in 0..255
      BY <1>21, <1>c, <2>1, <3>3, <3>4, <3>10 DEF FindSession
    <3>12. ~Vacant(x)'
      BY <1>21, <3>1, <3>6, SMTT(30) DEF FindSession, InUse, Vacant
    <3>. QED  BY <3>10, <3>11, <3>12 DEF Exact
  <2>2. CASE x = h[1] /\ ioCount[x] \notin 0..255
    <3>1. ioCount[x] \in ReleaseCount..(ReleaseCount + MaxDrift) /\ ioCount[x] < ReleaseCount + MaxDrift
      BY <1>21, <1>a, <2>2 DEF Exact, FindSession
    <3>2. ReleaseCount + MaxDrift < 65536 /\ MaxDrift \in Nat
      BY BoundsAssumption DEF NoWrap
    <3>3. /\ ioCount[x] \in Nat /\ ioCount[x] < 65535 /\ ioCount[x] + 1 \in Nat /\ ioCount[x] + 1 < 65536
          /\ ioCount[x] + 1 \in ReleaseCount..(ReleaseCount + MaxDrift) /\ ioCount[x] + 1 \notin 0..255
      BY <3>1, <3>2 DEF ReleaseCount
    <3>4. Incremented(x) = ioCount[x] + 1
      BY <3>3, WrapUp DEF Incremented
    <3>5. Flagged(Incremented(x))
      BY <3>3, <3>4, FlagIsUpperByte
    <3>6. UNCHANGED threadVars /\ ioCount'[x] = ioCount[x] + 1
      BY <1>21, <1>c, <2>2, <3>4, <3>5 DEF FindSession
    <3>7. RefCount(x)' = RefCount(x) /\ LeaveCount(x)' = LeaveCount(x)
      BY <1>21, <3>6, SameCounts DEF FindSession, AcceptHolds
    <3>8. Vacant(x)' <=> Vacant(x)
      BY <1>21, <3>6 DEF FindSession, Vacant
    <3>9. joined' = joined
      BY <1>21 DEF FindSession, appVars
    <3>10. Exact(x) /\ ioCount[x] \notin 0..255 /\ ioCount'[x] \notin 0..255
           /\ ioCount'[x] \in ReleaseCount..(ReleaseCount + MaxDrift)
      BY <1>a, <2>2, <3>3, <3>6
    <3>. QED  BY <3>7, <3>8, <3>9, <3>10, SMTT(30) DEF Exact
  <2>3. CASE x # h[1]
    <3>1. /\ \A u \in Threads \ {c} : pc'[u] = pc[u] /\ slot'[u] = slot[u]
          /\ Weight(c, x)' = Weight(c, x) /\ Departing(c, x)' = Departing(c, x)
      <4>1. CASE UNCHANGED threadVars
        BY <4>1 DEF Weight, Departing
      <4>2. CASE Begin(c, "compare", h[1], h[2])
        BY <1>21, <1>a, <2>0, <2>3, <4>2, BeginFrame, SlotsAssumption DEF FindSession, Weight, Departing, ThreadsOK
      <4>. QED  BY <1>21, <4>1, <4>2 DEF FindSession
    <3>2. Held(x)' = Held(x) /\ leavePosted'[x] = leavePosted[x]
      BY <1>21 DEF FindSession, Held, B, AcceptHolds
    <3>3. ioCount'[x] = ioCount[x] /\ (Vacant(x)' <=> Vacant(x)) /\ joined' = joined
      BY <1>21, <1>c, <2>3 DEF FindSession, Vacant
    <3>. QED  BY <1>a, <2>0, <3>1, <3>2, <3>3, ThreadKeeps
  <2>. QED  BY <2>1, <2>2, <2>3
<1>22. ASSUME NEW c \in Callers, CompareHandle(c) PROVE (\A x \in Slots : Exact(x)')
  <2>0. c \in Threads
    BY WorkersAndCallers
  <2>. SUFFICES ASSUME NEW x \in Slots PROVE Exact(x)'
    OBVIOUS
  <2>1. \A u \in Threads \ {c} : pc'[u] = pc[u] /\ slot'[u] = slot[u]
    BY <1>22, <1>a, <2>0, GoFrame DEF CompareHandle
  <2>2. /\ Weight(c, x)' + Held(x)' = Weight(c, x) + Held(x)
        /\ Departing(c, x)' + leavePosted'[x] = Departing(c, x) + leavePosted[x]
    BY <1>22, <1>a, <1>b, <1>c, <2>0, GoFrame, SlotsAssumption
    DEF CompareHandle, Weight, Held, Departing, B, AcceptHolds, UseLabels, RearmLabels, LeaveLabels, CallerLabels
  <2>. QED  BY <1>22, <1>a, <2>0, <2>1, <2>2, ThreadKeeps DEF CompareHandle, Vacant, HandleOf
<1>23. ASSUME NEW c \in Callers, UseSession(c) PROVE (\A x \in Slots : Exact(x)')
  <2>0. c \in Threads
    BY WorkersAndCallers
  <2>. SUFFICES ASSUME NEW x \in Slots PROVE Exact(x)'
    OBVIOUS
  <2>1. \A u \in Threads \ {c} : pc'[u] = pc[u] /\ slot'[u] = slot[u]
    BY <1>23, <1>a, <2>0, GoFrame DEF UseSession
  <2>2. /\ Weight(c, x)' + Held(x)' = Weight(c, x) + Held(x)
        /\ Departing(c, x)' + leavePosted'[x] = Departing(c, x) + leavePosted[x]
    BY <1>23, <1>a, <1>b, <1>c, <2>0, GoFrame, SlotsAssumption
    DEF UseSession, Weight, Held, Departing, B, AcceptHolds, UseLabels, RearmLabels, LeaveLabels, CallerLabels
  <2>. QED  BY <1>23, <1>a, <2>0, <2>1, <2>2, ThreadKeeps DEF UseSession, Vacant, HandleOf
<1>24. ASSUME NEW c \in Callers, RequestDisconnect(c) PROVE (\A x \in Slots : Exact(x)')
  <2>0. c \in Threads
    BY WorkersAndCallers
  <2>. SUFFICES ASSUME NEW x \in Slots PROVE Exact(x)'
    OBVIOUS
  <2>1. \A u \in Threads \ {c} : pc'[u] = pc[u] /\ slot'[u] = slot[u]
    BY <1>24, <1>a, <2>0, GoFrame DEF RequestDisconnect
  <2>2. /\ Weight(c, x)' + Held(x)' = Weight(c, x) + Held(x)
        /\ Departing(c, x)' + leavePosted'[x] = Departing(c, x) + leavePosted[x]
    BY <1>24, <1>a, <1>b, <1>c, <2>0, GoFrame, SlotsAssumption
    DEF RequestDisconnect, Weight, Held, Departing, B, AcceptHolds, UseLabels, RearmLabels, LeaveLabels, CallerLabels
  <2>. QED  BY <1>24, <1>a, <2>0, <2>1, <2>2, ThreadKeeps DEF RequestDisconnect, Vacant, HandleOf
<1>25. ASSUME NEW c \in Callers, CancelIo(c) PROVE (\A x \in Slots : Exact(x)')
  <2>0. c \in Threads
    BY WorkersAndCallers
  <2>. SUFFICES ASSUME NEW x \in Slots PROVE Exact(x)'
    OBVIOUS
  <2>1. \A u \in Threads \ {c} : pc'[u] = pc[u] /\ slot'[u] = slot[u]
    BY <1>25, <1>a, <2>0, GoFrame DEF CancelIo
  <2>2. /\ Weight(c, x)' + Held(x)' = Weight(c, x) + Held(x)
        /\ Departing(c, x)' + leavePosted'[x] = Departing(c, x) + leavePosted[x]
    BY <1>25, <1>a, <1>b, <1>c, <2>0, GoFrame, SlotsAssumption
    DEF CancelIo, Weight, Held, Departing, B, AcceptHolds, UseLabels, RearmLabels, LeaveLabels, CallerLabels, Cancelled, Pending
  <2>. QED  BY <1>25, <1>a, <2>0, <2>1, <2>2, ThreadKeeps DEF CancelIo, Vacant, HandleOf
<1>26. ASSUME NEW t \in Threads, DecrementIOCount(t) PROVE (\A x \in Slots : Exact(x)')
  <2>. SUFFICES ASSUME NEW x \in Slots PROVE Exact(x)'
    OBVIOUS
  <2>. DEFINE label == IF Decremented(slot[t]) # 0 THEN Resume(pc[t])
                       ELSE IF pc[t] = "dec" THEN "release" ELSE "releaseio"
  <2>1. /\ \A u \in Threads \ {t} : pc'[u] = pc[u] /\ slot'[u] = slot[u]
        /\ pc'[t] = label /\ slot'[t] \in {slot[t], NoSlot}
        /\ label # "idle" => slot'[t] = slot[t]
    BY <1>26, <1>a, GoFrame DEF DecrementIOCount
  <2>2. CASE x = slot[t]
    <3>1. InUse(x) /\ ioCount[x] = RefCount(x) /\ LeaveCount(x) = 0 /\ RefCount(x) > 0
      BY <1>26, <1>a, <2>2, Referenced DEF DecrementIOCount, UseLabels, InUse, Exact
    <3>2. RefCount(x) \in Nat /\ RefCount(x) < 65536 /\ ioCount[x] \in 0..255
      BY <3>1 DEF InUse
    <3>3. Decremented(x) = RefCount(x) - 1
      BY <3>1, <3>2, WrapDown DEF Decremented
    <3>4. Held(x)' = Held(x) /\ leavePosted'[x] = leavePosted[x]
      BY <1>26 DEF DecrementIOCount, Held, B, AcceptHolds
    <3>5. Departing(t, x)' + 0 = Departing(t, x) + 0
      BY <1>26, <2>1, <2>2, SlotsAssumption DEF DecrementIOCount, Departing, Resume, LeaveLabels
    <3>6. RefCount(x)' + 1 = RefCount(x) + 0 /\ LeaveCount(x)' + 0 = LeaveCount(x) + 0
          /\ RefCount(x)' \in Nat /\ LeaveCount(x)' \in Nat
      <4>1. CASE pc[t] = "dec" \/ Decremented(x) # 0
        <5>1. Weight(t, x)' + 1 = Weight(t, x) + 0
          BY <1>26, <2>1, <2>2, <4>1, SlotsAssumption
          DEF DecrementIOCount, Weight, Resume, UseLabels, RearmLabels, CallerLabels
        <5>. QED  BY <1>a, <2>1, <3>4, <3>5, <5>1, CountsMove
      <4>2. CASE pc[t] = "decio" /\ Decremented(x) = 0
        <5>1. Weight(t, x)' + 2 = Weight(t, x) + 0
          BY <1>26, <2>1, <2>2, <4>2, SlotsAssumption
          DEF DecrementIOCount, Weight, Resume, UseLabels, RearmLabels, CallerLabels
        <5>2. RefCount(x)' + 2 = RefCount(x) + 0 /\ RefCount(x)' \in Nat
          BY <1>a, <2>1, <3>4, <3>5, <5>1, CountsMove
        <5>3. RefCount(x) = 1
          BY <3>1, <3>2, <3>3, <4>2
        <5>. QED  BY <5>2, <5>3
      <4>. QED  BY <1>26, <4>1, <4>2 DEF DecrementIOCount
    <3>7. RefCount(x)' = RefCount(x) - 1 /\ LeaveCount(x)' = 0
      BY <3>1, <3>2, <3>6
    <3>8. ioCount'[x] = RefCount(x)' /\ ioCount'[x] \in 0..255
      BY <1>26, <1>c, <2>2, <3>1, <3>2, <3>3, <3>6, <3>7 DEF DecrementIOCount
    <3>9. ~Vacant(x)'
      BY <1>26, <3>1 DEF DecrementIOCount, InUse, Vacant
    <3>. QED  BY <3>7, <3>8, <3>9 DEF Exact
  <2>3. CASE x # slot[t]
    <3>1. /\ Weight(t, x)' + Held(x)' = Weight(t, x) + Held(x)
          /\ Departing(t, x)' + leavePosted'[x] = Departing(t, x) + leavePosted[x]
      BY <1>26, <2>1, <2>3, SlotsAssumption DEF DecrementIOCount, Weight, Held, Departing, B, AcceptHolds
    <3>. QED  BY <1>26, <1>a, <1>c, <2>1, <2>3, <3>1, ThreadKeeps DEF DecrementIOCount, Vacant
  <2>. QED  BY <2>2, <2>3
<1>27. ASSUME NEW t \in Threads, ReleaseSession(t) PROVE (\A x \in Slots : Exact(x)')
  <2>. SUFFICES ASSUME NEW x \in Slots PROVE Exact(x)'
    OBVIOUS
  <2>1. pc[t] = "release"
    BY <1>27 DEF ReleaseSession, IInv, OwnReferenceLeft
  <2>2. /\ \A u \in Threads \ {t} : pc'[u] = pc[u] /\ slot'[u] = slot[u]
        /\ pc'[t] = IF ioCount[slot[t]] = 0 THEN "close" ELSE "idle"
        /\ ioCount[slot[t]] = 0 => slot'[t] = slot[t]
        /\ slot'[t] \in {slot[t], NoSlot}
    BY <1>27, <1>a, <2>1, GoFrame DEF ReleaseSession, Resume
  <2>3. CASE x = slot[t] /\ ioCount[x] = 0
    <3>1. \E h \in joined : h[1] = x
      BY <1>a, <2>1, <2>3 DEF HandlesInOrder
    <3>2. ~Vacant(x) /\ RefCount(x) = 0 /\ LeaveCount(x) = 0
      BY <1>a, <2>3, <3>1 DEF Exact
    <3>3. /\ Held(x)' = Held(x) /\ leavePosted'[x] = leavePosted[x]
          /\ Weight(t, x)' + 0 = Weight(t, x) + 0 /\ Departing(t, x)' + 0 = Departing(t, x) + 1
      BY <1>27, <2>1, <2>2, <2>3 DEF ReleaseSession, Held, B, AcceptHolds, Weight, Departing,
         UseLabels, RearmLabels, LeaveLabels, CallerLabels
    <3>4. RefCount(x)' + 0 = RefCount(x) + 0 /\ LeaveCount(x)' + 0 = LeaveCount(x) + 1
          /\ RefCount(x)' \in Nat /\ LeaveCount(x)' \in Nat
      BY <1>a, <2>2, <3>3, CountsMove
    <3>5. RefCount(x)' = 0 /\ LeaveCount(x)' = 1
      BY <3>2, <3>4
    <3>6. ioCount'[x] = ReleaseCount /\ ~Vacant(x)'
      BY <1>27, <1>c, <2>3, <3>2 DEF ReleaseSession, Vacant
    <3>7. ReleaseCount \in ReleaseCount..(ReleaseCount + MaxDrift) /\ ReleaseCount \notin 0..255
      BY BoundsAssumption DEF ReleaseCount
    <3>. QED  BY <3>5, <3>6, <3>7 DEF Exact
  <2>4. CASE ~(x = slot[t] /\ ioCount[x] = 0)
    <3>1. /\ Weight(t, x)' + Held(x)' = Weight(t, x) + Held(x)
          /\ Departing(t, x)' + leavePosted'[x] = Departing(t, x) + leavePosted[x]
      BY <1>27, <2>1, <2>2, <2>4, SlotsAssumption DEF ReleaseSession, Weight, Held, Departing, B, AcceptHolds,
         UseLabels, RearmLabels, LeaveLabels, CallerLabels
    <3>. QED  BY <1>27, <1>a, <1>c, <2>2, <2>4, <3>1, ThreadKeeps DEF ReleaseSession, Vacant
  <2>. QED  BY <2>3, <2>4
<1>28. ASSUME NEW t \in Threads, CloseSession(t) PROVE (\A x \in Slots : Exact(x)')
  <2>0. t \in Threads
    BY WorkersAndCallers
  <2>a. pc[t] = "close"
    BY <1>28 DEF CloseSession, IInv, OwnReferenceLeft
  <2>. SUFFICES ASSUME NEW x \in Slots PROVE Exact(x)'
    OBVIOUS
  <2>1. \A u \in Threads \ {t} : pc'[u] = pc[u] /\ slot'[u] = slot[u]
    BY <1>28, <1>a, <2>0, GoFrame DEF CloseSession
  <2>2. /\ Weight(t, x)' + Held(x)' = Weight(t, x) + Held(x)
        /\ Departing(t, x)' + leavePosted'[x] = Departing(t, x) + leavePosted[x]
    BY <1>28, <1>a, <1>b, <1>c, <2>0, <2>a, GoFrame, SlotsAssumption
    DEF CloseSession, Weight, Held, Departing, B, AcceptHolds, UseLabels, RearmLabels, LeaveLabels, CallerLabels, Resume
  <2>. QED  BY <1>28, <1>a, <2>0, <2>1, <2>2, ThreadKeeps DEF CloseSession, Vacant, HandleOf
<1>29. CASE UNCHANGED vars
  <2>. SUFFICES ASSUME NEW x \in Slots PROVE Exact(x)'
    OBVIOUS
  <2>. QED  BY <1>29, <1>a, SameCounts, StillExact DEF vars, Vacant, AcceptHolds
<1>. QED
  BY <1>1, <1>2, <1>3, <1>4, <1>5, <1>6, <1>7, <1>8, <1>9, <1>10, <1>11, <1>12, <1>13, <1>14, <1>15, <1>16, <1>17, <1>18, <1>19, <1>20, <1>21, <1>22, <1>23, <1>24, <1>25, <1>26, <1>27, <1>28, <1>29
  DEF Next, Accept, Kernel, Dequeue, Handle, Operate, Return

-----------------------------------------------------------------------------
(* The other parts of the invariant.                                       *)

\* Every step preserves OwnReferenceLeft.
LEMMA OwnReferenceStep ==
    IInv /\ NoWrap /\ TypeOK' /\ [Next]_vars => OwnReferenceLeft'
<1>. SUFFICES ASSUME IInv, NoWrap, TypeOK', [Next]_vars PROVE OwnReferenceLeft'
  OBVIOUS
<1>. USE DEF sessionVars, queueVars, poolVars, acceptVars, threadVars, appVars
<1>a. TypeOK /\ ThreadsOK /\ CountExact /\ OwnReferenceLeft
  BY DEF IInv, TypeOK
<1>1. ASSUME AcceptConnection PROVE OwnReferenceLeft'
  BY <1>1, <1>a DEF OwnReferenceLeft, AcceptConnection
<1>2. ASSUME PopIndex PROVE OwnReferenceLeft'
  BY <1>2, <1>a DEF OwnReferenceLeft, PopIndex
<1>3. ASSUME ConnectHandle PROVE OwnReferenceLeft'
  BY <1>3, <1>a DEF OwnReferenceLeft, ConnectHandle
<1>4. ASSUME ConnectCount PROVE OwnReferenceLeft'
  BY <1>4, <1>a DEF OwnReferenceLeft, ConnectCount
<1>5. ASSUME ConnectReset PROVE OwnReferenceLeft'
  BY <1>5, <1>a DEF OwnReferenceLeft, ConnectReset
<1>6. ASSUME PostEnter PROVE OwnReferenceLeft'
  BY <1>6, <1>a DEF OwnReferenceLeft, PostEnter
<1>7. ASSUME NEW s \in Slots, KernelReceives(s) PROVE OwnReferenceLeft'
  BY <1>7, <1>a DEF OwnReferenceLeft, KernelReceives
<1>8. ASSUME NEW s \in Slots, KernelCloses(s) PROVE OwnReferenceLeft'
  BY <1>8, <1>a DEF OwnReferenceLeft, KernelCloses
<1>9. ASSUME NEW w \in Workers, NEW s \in Slots, GetEnter(w, s) PROVE OwnReferenceLeft'
  BY <1>9, <1>a, WorkersAndCallers, BeginFrame DEF OwnReferenceLeft, GetEnter, Resume
<1>10. ASSUME NEW w \in Workers, NEW s \in Slots, GetRecv(w, s) PROVE OwnReferenceLeft'
  BY <1>10, <1>a, WorkersAndCallers, BeginFrame DEF OwnReferenceLeft, GetRecv, Resume
<1>11. ASSUME NEW w \in Workers, NEW s \in Slots, GetLeave(w, s) PROVE OwnReferenceLeft'
  BY <1>11, <1>a, WorkersAndCallers, BeginFrame DEF OwnReferenceLeft, GetLeave, Resume
<1>12. ASSUME NEW w \in Workers, OnClientJoin(w) PROVE OwnReferenceLeft'
  BY <1>12, <1>a, WorkersAndCallers, GoFrame DEF OwnReferenceLeft, OnClientJoin, Resume
<1>13. ASSUME NEW w \in Workers, FirstRecvPost(w) PROVE OwnReferenceLeft'
  BY <1>13, <1>a, WorkersAndCallers, GoFrame DEF OwnReferenceLeft, FirstRecvPost, Resume
<1>14. ASSUME NEW w \in Workers, Parse(w) PROVE OwnReferenceLeft'
  BY <1>14, <1>a, WorkersAndCallers, GoFrame DEF OwnReferenceLeft, Parse, Resume
<1>15. ASSUME NEW w \in Workers, IncrementForRecv(w) PROVE OwnReferenceLeft'
  BY <1>15, <1>a, WorkersAndCallers, GoFrame DEF OwnReferenceLeft, IncrementForRecv, Resume
<1>16. ASSUME NEW w \in Workers, RecvPost(w) PROVE OwnReferenceLeft'
  BY <1>16, <1>a, WorkersAndCallers, GoFrame DEF OwnReferenceLeft, RecvPost, Resume
<1>17. ASSUME NEW w \in Workers, CheckRequest(w) PROVE OwnReferenceLeft'
  BY <1>17, <1>a, WorkersAndCallers, GoFrame DEF OwnReferenceLeft, CheckRequest, Resume
<1>18. ASSUME NEW w \in Workers, OnClientLeave(w) PROVE OwnReferenceLeft'
  BY <1>18, <1>a, WorkersAndCallers, GoFrame DEF OwnReferenceLeft, OnClientLeave, AfterLeave, Resume
<1>19. ASSUME NEW w \in Workers, PushIndex(w) PROVE OwnReferenceLeft'
  BY <1>19, <1>a, WorkersAndCallers, GoFrame DEF OwnReferenceLeft, PushIndex, AfterLeave, Resume
<1>20. ASSUME NEW w \in Workers, DecrementSessionCount(w) PROVE OwnReferenceLeft'
  BY <1>20, <1>a, WorkersAndCallers, GoFrame DEF OwnReferenceLeft, DecrementSessionCount, AfterLeave, Resume
<1>21. ASSUME NEW c \in Callers, NEW h \in joined, FindSession(c, h) PROVE OwnReferenceLeft'
  BY <1>21, <1>a, WorkersAndCallers, BeginFrame DEF OwnReferenceLeft, FindSession, Resume
<1>22. ASSUME NEW c \in Callers, CompareHandle(c) PROVE OwnReferenceLeft'
  BY <1>22, <1>a, WorkersAndCallers, GoFrame DEF OwnReferenceLeft, CompareHandle, Resume
<1>23. ASSUME NEW c \in Callers, UseSession(c) PROVE OwnReferenceLeft'
  BY <1>23, <1>a, WorkersAndCallers, GoFrame DEF OwnReferenceLeft, UseSession, Resume
<1>24. ASSUME NEW c \in Callers, RequestDisconnect(c) PROVE OwnReferenceLeft'
  BY <1>24, <1>a, WorkersAndCallers, GoFrame DEF OwnReferenceLeft, RequestDisconnect, Resume
<1>25. ASSUME NEW c \in Callers, CancelIo(c) PROVE OwnReferenceLeft'
  BY <1>25, <1>a, WorkersAndCallers, GoFrame DEF OwnReferenceLeft, CancelIo, Resume
<1>26. ASSUME NEW t \in Threads, DecrementIOCount(t) PROVE OwnReferenceLeft'
  <2>1. ASSUME pc[t] = "decio" PROVE Decremented(slot[t]) # 0
    <3>1. InUse(slot[t]) /\ slot[t] \in Slots
      BY <2>1, <1>a, Referenced DEF ThreadsOK, UseLabels
    <3>2. ioCount[slot[t]] = RefCount(slot[t]) /\ ioCount[slot[t]] \in 0..255
      BY <1>a, <3>1 DEF CountExact, InUse
    <3>3. Cardinality(At(UseLabels, slot[t])) # 0 /\ Cardinality(At(RearmLabels, slot[t])) # 0
      <4>1. /\ t \in At(UseLabels, slot[t]) /\ t \in At(RearmLabels, slot[t])
            /\ At(UseLabels, slot[t]) \subseteq Threads /\ At(RearmLabels, slot[t]) \subseteq Threads
        BY <2>1 DEF At, UseLabels, RearmLabels
      <4>. QED  BY <4>1, ThreadSets
    <3>4. RefCount(slot[t]) # 0 /\ RefCount(slot[t]) # 1 /\ RefCount(slot[t]) \in Nat
      <4>1. RefCount(slot[t]) = Cardinality(At(UseLabels, slot[t]))
                                + Cardinality(At(RearmLabels, slot[t])) + Held(slot[t])
        BY <1>a, <3>1, CountsAreSums
      <4>2. Held(slot[t]) \in Nat
        BY <1>a, <3>1, HeldNat
      <4>3. /\ Cardinality(At(UseLabels, slot[t])) \in 0..126
            /\ Cardinality(At(RearmLabels, slot[t])) \in 0..126
            /\ RefCount(slot[t]) \in Nat
        BY <1>a, <3>1, Counts
      <4>. QED  BY <3>3, <4>1, <4>2, <4>3, SMTT(30)
    <3>5. RefCount(slot[t]) < 65536 /\ 0 < RefCount(slot[t])
      BY <3>2, <3>4
    <3>6. Wrap(RefCount(slot[t]) + 65535) = RefCount(slot[t]) - 1
      BY <3>4, <3>5, WrapDown
    <3>. QED  BY <3>2, <3>4, <3>6 DEF Decremented
  <2>. QED  BY <1>26, <1>a, <2>1, GoFrame DEF OwnReferenceLeft, DecrementIOCount, Resume
<1>27. ASSUME NEW t \in Threads, ReleaseSession(t) PROVE OwnReferenceLeft'
  BY <1>27, <1>a, WorkersAndCallers, GoFrame DEF OwnReferenceLeft, ReleaseSession, Resume
<1>28. ASSUME NEW t \in Threads, CloseSession(t) PROVE OwnReferenceLeft'
  BY <1>28, <1>a, WorkersAndCallers, GoFrame DEF OwnReferenceLeft, CloseSession, Resume
<1>29. CASE UNCHANGED vars
  BY <1>29, <1>a DEF OwnReferenceLeft, vars
<1>. QED
  BY <1>1, <1>2, <1>3, <1>4, <1>5, <1>6, <1>7, <1>8, <1>9, <1>10, <1>11, <1>12, <1>13, <1>14, <1>15, <1>16, <1>17, <1>18, <1>19, <1>20, <1>21, <1>22, <1>23, <1>24, <1>25, <1>26, <1>27, <1>28, <1>29
  DEF Next, Accept, Kernel, Dequeue, Handle, Operate, Return

\* Every step preserves OpenWhileUsed.
LEMMA OpenStep ==
    IInv /\ NoWrap /\ TypeOK' /\ [Next]_vars => OpenWhileUsed'
<1>. SUFFICES ASSUME IInv, NoWrap, TypeOK', [Next]_vars PROVE OpenWhileUsed'
  OBVIOUS
<1>. USE DEF sessionVars, queueVars, poolVars, acceptVars, threadVars, appVars
<1>a. TypeOK /\ ThreadsOK /\ CountExact /\ OpenWhileUsed /\ CountedIndexes
  BY DEF IInv, TypeOK
<1>b. \A t \in Threads : pc[t] # "idle" => slot[t] \in Slots
  BY <1>a DEF ThreadsOK
<1>c. /\ open \in [Slots -> BOOLEAN] /\ leavePosted \in [Slots -> Nat]
      /\ acceptPc \in {"handle", "count", "reset", "post"} => acceptSlot \in Slots
      /\ acceptPc \in {"accept", "pop"} => acceptSlot = NoSlot
  BY <1>a DEF TypeOK
<1>1. ASSUME AcceptConnection PROVE OpenWhileUsed'
  BY <1>1, <1>a, <1>b, <1>c, SlotsAssumption DEF OpenWhileUsed, Vacant, AcceptConnection
<1>2. ASSUME PopIndex PROVE OpenWhileUsed'
  BY <1>2, <1>a, <1>b, <1>c, SlotsAssumption, PoolNotEmpty DEF OpenWhileUsed, Vacant, PopIndex
<1>3. ASSUME ConnectHandle PROVE OpenWhileUsed'
  BY <1>3, <1>a, <1>b, <1>c, SlotsAssumption DEF OpenWhileUsed, Vacant, ConnectHandle
<1>4. ASSUME ConnectCount PROVE OpenWhileUsed'
  BY <1>4, <1>a, <1>b, <1>c, SlotsAssumption DEF OpenWhileUsed, Vacant, ConnectCount
<1>5. ASSUME ConnectReset PROVE OpenWhileUsed'
  BY <1>5, <1>a, <1>b, <1>c, SlotsAssumption DEF OpenWhileUsed, Vacant, ConnectReset
<1>6. ASSUME PostEnter PROVE OpenWhileUsed'
  BY <1>6, <1>a, <1>b, <1>c, SlotsAssumption DEF OpenWhileUsed, Vacant, PostEnter
<1>7. ASSUME NEW s \in Slots, KernelReceives(s) PROVE OpenWhileUsed'
  BY <1>7, <1>a, <1>b, <1>c, SlotsAssumption DEF OpenWhileUsed, Vacant, KernelReceives
<1>8. ASSUME NEW s \in Slots, KernelCloses(s) PROVE OpenWhileUsed'
  BY <1>8, <1>a, <1>b, <1>c, SlotsAssumption DEF OpenWhileUsed, Vacant, KernelCloses
<1>9. ASSUME NEW w \in Workers, NEW s \in Slots, GetEnter(w, s) PROVE OpenWhileUsed'
  BY <1>9, <1>a, <1>b, <1>c, WorkersAndCallers, BeginFrame, SlotsAssumption DEF OpenWhileUsed, Vacant, GetEnter, Resume
<1>10. ASSUME NEW w \in Workers, NEW s \in Slots, GetRecv(w, s) PROVE OpenWhileUsed'
  BY <1>10, <1>a, <1>b, <1>c, WorkersAndCallers, BeginFrame, SlotsAssumption DEF OpenWhileUsed, Vacant, GetRecv, Resume
<1>11. ASSUME NEW w \in Workers, NEW s \in Slots, GetLeave(w, s) PROVE OpenWhileUsed'
  BY <1>11, <1>a, <1>b, <1>c, WorkersAndCallers, BeginFrame, SlotsAssumption DEF OpenWhileUsed, Vacant, GetLeave, Resume
<1>12. ASSUME NEW w \in Workers, OnClientJoin(w) PROVE OpenWhileUsed'
  BY <1>12, <1>a, <1>b, <1>c, WorkersAndCallers, GoFrame, SlotsAssumption DEF OpenWhileUsed, Vacant, OnClientJoin, Resume
<1>13. ASSUME NEW w \in Workers, FirstRecvPost(w) PROVE OpenWhileUsed'
  BY <1>13, <1>a, <1>b, <1>c, WorkersAndCallers, GoFrame, SlotsAssumption DEF OpenWhileUsed, Vacant, FirstRecvPost, Resume
<1>14. ASSUME NEW w \in Workers, Parse(w) PROVE OpenWhileUsed'
  BY <1>14, <1>a, <1>b, <1>c, WorkersAndCallers, GoFrame, SlotsAssumption DEF OpenWhileUsed, Vacant, Parse, Resume
<1>15. ASSUME NEW w \in Workers, IncrementForRecv(w) PROVE OpenWhileUsed'
  BY <1>15, <1>a, <1>b, <1>c, WorkersAndCallers, GoFrame, SlotsAssumption DEF OpenWhileUsed, Vacant, IncrementForRecv, Resume
<1>16. ASSUME NEW w \in Workers, RecvPost(w) PROVE OpenWhileUsed'
  BY <1>16, <1>a, <1>b, <1>c, WorkersAndCallers, GoFrame, SlotsAssumption DEF OpenWhileUsed, Vacant, RecvPost, Resume
<1>17. ASSUME NEW w \in Workers, CheckRequest(w) PROVE OpenWhileUsed'
  BY <1>17, <1>a, <1>b, <1>c, WorkersAndCallers, GoFrame, SlotsAssumption DEF OpenWhileUsed, Vacant, CheckRequest, Resume
<1>18. ASSUME NEW w \in Workers, OnClientLeave(w) PROVE OpenWhileUsed'
  BY <1>18, <1>a, <1>b, <1>c, WorkersAndCallers, GoFrame, SlotsAssumption DEF OpenWhileUsed, Vacant, OnClientLeave, AfterLeave, Resume
<1>19. ASSUME NEW w \in Workers, PushIndex(w) PROVE OpenWhileUsed'
  BY <1>19, <1>a, <1>b, <1>c, WorkersAndCallers, GoFrame, SlotsAssumption DEF OpenWhileUsed, Vacant, PushIndex, AfterLeave, Resume
<1>20. ASSUME NEW w \in Workers, DecrementSessionCount(w) PROVE OpenWhileUsed'
  BY <1>20, <1>a, <1>b, <1>c, WorkersAndCallers, GoFrame, SlotsAssumption DEF OpenWhileUsed, Vacant, DecrementSessionCount, AfterLeave, Resume
<1>21. ASSUME NEW c \in Callers, NEW h \in joined, FindSession(c, h) PROVE OpenWhileUsed'
  BY <1>21, <1>a, <1>b, <1>c, WorkersAndCallers, BeginFrame, SlotsAssumption DEF OpenWhileUsed, Vacant, FindSession, Resume
<1>22. ASSUME NEW c \in Callers, CompareHandle(c) PROVE OpenWhileUsed'
  BY <1>22, <1>a, <1>b, <1>c, WorkersAndCallers, GoFrame, SlotsAssumption DEF OpenWhileUsed, Vacant, CompareHandle, Resume
<1>23. ASSUME NEW c \in Callers, UseSession(c) PROVE OpenWhileUsed'
  BY <1>23, <1>a, <1>b, <1>c, WorkersAndCallers, GoFrame, SlotsAssumption DEF OpenWhileUsed, Vacant, UseSession, Resume
<1>24. ASSUME NEW c \in Callers, RequestDisconnect(c) PROVE OpenWhileUsed'
  BY <1>24, <1>a, <1>b, <1>c, WorkersAndCallers, GoFrame, SlotsAssumption DEF OpenWhileUsed, Vacant, RequestDisconnect, Resume
<1>25. ASSUME NEW c \in Callers, CancelIo(c) PROVE OpenWhileUsed'
  BY <1>25, <1>a, <1>b, <1>c, WorkersAndCallers, GoFrame, SlotsAssumption DEF OpenWhileUsed, Vacant, CancelIo, Resume
<1>26. ASSUME NEW t \in Threads, DecrementIOCount(t) PROVE OpenWhileUsed'
  BY <1>26, <1>a, <1>b, <1>c, WorkersAndCallers, GoFrame, SlotsAssumption DEF OpenWhileUsed, Vacant, DecrementIOCount, Resume
<1>27. ASSUME NEW t \in Threads, ReleaseSession(t) PROVE OpenWhileUsed'
  BY <1>27, <1>a, <1>b, <1>c, WorkersAndCallers, GoFrame, SlotsAssumption DEF OpenWhileUsed, Vacant, ReleaseSession, Resume
<1>28. ASSUME NEW t \in Threads, CloseSession(t) PROVE OpenWhileUsed'
  <2>1. Gone(slot[t])
    BY <1>28, <1>a, Leaving DEF CloseSession, LeaveLabels
  <2>2. ~Vacant(slot[t])
    BY <2>1 DEF Gone
  <2>. QED  BY <1>28, <1>a, <1>b, <1>c, <2>2, GoFrame, SlotsAssumption DEF OpenWhileUsed, Vacant, CloseSession, Resume
<1>29. CASE UNCHANGED vars
  BY <1>29, <1>a, <1>b, <1>c, SlotsAssumption DEF OpenWhileUsed, Vacant, vars
<1>. QED
  BY <1>1, <1>2, <1>3, <1>4, <1>5, <1>6, <1>7, <1>8, <1>9, <1>10, <1>11, <1>12, <1>13, <1>14, <1>15, <1>16, <1>17, <1>18, <1>19, <1>20, <1>21, <1>22, <1>23, <1>24, <1>25, <1>26, <1>27, <1>28, <1>29
  DEF Next, Accept, Kernel, Dequeue, Handle, Operate, Return

-----------------------------------------------------------------------------
\* Where a connection is once it has been announced.
LEMMA Announced ==
    ASSUME TypeOK, CountExact, OneDriver, HandlesInOrder, NEW s \in Slots
    PROVE  /\ Gone(s) \/ recvIO[s] # "none" \/ (\E t \in Threads : slot[t] = s
                 /\ pc[t] \in {"firstrecv", "parse", "inc", "repost"})
              => ~Vacant(s) /\ ~Entering(s) /\ HandleOf(s) \in joined
<1>. SUFFICES ASSUME Gone(s) \/ recvIO[s] # "none" \/ (\E t \in Threads : slot[t] = s
                        /\ pc[t] \in {"firstrecv", "parse", "inc", "repost"})
              PROVE  ~Vacant(s) /\ ~Entering(s)
  BY DEF HandlesInOrder
<1>1. Gone(s) \/ InUse(s)
  BY Referenced DEF UseLabels
<1>2. ~Vacant(s)
  BY <1>1 DEF Gone, InUse
<1>3. ~(acceptSlot = s /\ acceptPc = "count")
  BY <1>2 DEF Vacant
<1>4. ~(acceptSlot = s /\ acceptPc \in {"reset", "post"})
  <2>1. AcceptHolds(s) => InUse(s) /\ recvIO[s] = "none" /\ \A t \in Threads :
          slot[t] = s => pc[t] \notin DriveLabels
    BY Referenced DEF OneDriver
  <2>. QED  BY <2>1 DEF AcceptHolds, DriveLabels, Gone, InUse
<1>5. enterPosted[s] = 0
  <2>1. enterPosted[s] > 0 => InUse(s) /\ recvIO[s] = "none" /\ \A t \in Threads :
          slot[t] = s => pc[t] \notin DriveLabels
    BY Referenced DEF OneDriver
  <2>2. enterPosted[s] \in Nat
    BY DEF TypeOK
  <2>. QED  BY <2>1, <2>2 DEF DriveLabels, Gone, InUse
<1>6. ~\E t \in Threads : slot[t] = s /\ pc[t] = "join"
  <2>1. \A t \in Threads : slot[t] = s /\ pc[t] = "join" =>
          InUse(s) /\ recvIO[s] = "none" /\ \A u \in Threads :
             slot[u] = s /\ pc[u] \in DriveLabels => u = t
    BY Referenced DEF OneDriver, DriveLabels, UseLabels
  <2>. QED  BY <2>1 DEF DriveLabels, Gone, InUse
<1>. QED  BY <1>2, <1>3, <1>4, <1>5, <1>6 DEF Entering

\* Every step preserves HandlesInOrder.
LEMMA HandlesStep ==
    IInv /\ NoWrap /\ TypeOK' /\ OneDriver' /\ [Next]_vars => HandlesInOrder'
<1>. SUFFICES ASSUME IInv, NoWrap, TypeOK', OneDriver', [Next]_vars PROVE HandlesInOrder'
  OBVIOUS
<1>. USE DEF sessionVars, queueVars, poolVars, acceptVars, threadVars, appVars, HandleOf
<1>a. /\ TypeOK /\ ThreadsOK /\ CountExact /\ OneDriver /\ HandlesInOrder /\ CountedIndexes
      /\ OwnReferenceLeft
  BY DEF IInv, TypeOK
<1>b. \A t \in Threads : pc[t] # "idle" => slot[t] \in Slots
  BY <1>a DEF ThreadsOK
<1>c. /\ sessionId \in [Slots -> Nat] /\ idPool \in Nat
      /\ enterPosted \in [Slots -> Nat] /\ leavePosted \in [Slots -> Nat]
      /\ joined \subseteq Slots \X Nat /\ left \subseteq Slots \X Nat
      /\ acceptPc \in {"handle", "count", "reset", "post"} => acceptSlot \in Slots
      /\ acceptPc \in {"accept", "pop"} => acceptSlot = NoSlot
  BY <1>a DEF TypeOK
<1>d. /\ \A t \in Threads : pc[t] \in UseLabels => InUse(slot[t])
      /\ \A t \in Threads : pc[t] \in LeaveLabels => Gone(slot[t])
      /\ \A s \in Slots : recvIO[s] # "none" \/ enterPosted[s] > 0 \/ AcceptHolds(s) => InUse(s)
      /\ \A s \in Slots : leavePosted[s] > 0 => Gone(s)
      /\ \A s \in Slots : InUse(s) \/ Gone(s) => ~Vacant(s)
  BY <1>a, Referenced, Leaving DEF InUse, Gone
<1>1. ASSUME AcceptConnection PROVE HandlesInOrder'
  BY <1>1, <1>a, <1>b, <1>c, <1>d, SlotsAssumption, BoundsAssumption DEF HandlesInOrder, Vacant, Entering, AcceptConnection, UseLabels, LeaveLabels, CallerLabels
<1>2. ASSUME PopIndex PROVE HandlesInOrder'
  BY <1>2, <1>a, <1>b, <1>c, <1>d, SlotsAssumption, BoundsAssumption, PoolNotEmpty DEF HandlesInOrder, Vacant, Entering, PopIndex, UseLabels, LeaveLabels, CallerLabels
<1>3. ASSUME ConnectHandle PROVE HandlesInOrder'
  BY <1>3, <1>a, <1>b, <1>c, <1>d, SlotsAssumption, BoundsAssumption DEF HandlesInOrder, Vacant, Entering, ConnectHandle, UseLabels, LeaveLabels, CallerLabels
<1>4. ASSUME ConnectCount PROVE HandlesInOrder'
  BY <1>4, <1>a, <1>b, <1>c, <1>d, SlotsAssumption, BoundsAssumption DEF HandlesInOrder, Vacant, Entering, ConnectCount, UseLabels, LeaveLabels, CallerLabels
<1>5. ASSUME ConnectReset PROVE HandlesInOrder'
  BY <1>5, <1>a, <1>b, <1>c, <1>d, SlotsAssumption, BoundsAssumption DEF HandlesInOrder, Vacant, Entering, ConnectReset, UseLabels, LeaveLabels, CallerLabels
<1>6. ASSUME PostEnter PROVE HandlesInOrder'
  BY <1>6, <1>a, <1>b, <1>c, <1>d, SlotsAssumption, BoundsAssumption DEF HandlesInOrder, Vacant, Entering, PostEnter, UseLabels, LeaveLabels, CallerLabels
<1>7. ASSUME NEW s \in Slots, KernelReceives(s) PROVE HandlesInOrder'
  BY <1>7, <1>a, <1>b, <1>c, <1>d, SlotsAssumption, BoundsAssumption DEF HandlesInOrder, Vacant, Entering, KernelReceives, UseLabels, LeaveLabels, CallerLabels
<1>8. ASSUME NEW s \in Slots, KernelCloses(s) PROVE HandlesInOrder'
  BY <1>8, <1>a, <1>b, <1>c, <1>d, SlotsAssumption, BoundsAssumption DEF HandlesInOrder, Vacant, Entering, KernelCloses, UseLabels, LeaveLabels, CallerLabels
<1>9. ASSUME NEW w \in Workers, NEW s \in Slots, GetEnter(w, s) PROVE HandlesInOrder'
  BY <1>9, <1>a, <1>b, <1>c, <1>d, WorkersAndCallers, BeginFrame, SlotsAssumption, Announced DEF HandlesInOrder, Vacant, Entering, GetEnter, Resume, UseLabels, LeaveLabels, CallerLabels
<1>10. ASSUME NEW w \in Workers, NEW s \in Slots, GetRecv(w, s) PROVE HandlesInOrder'
  <2>0. w \in Threads
    BY WorkersAndCallers
  <2>1. ~Vacant(s) /\ ~Entering(s) /\ HandleOf(s) \in joined
    BY <1>10, <1>a, <1>c, <1>d, Announced DEF GetRecv
  <2>2. /\ \A u \in Threads \ {w} : pc'[u] = pc[u] /\ slot'[u] = slot[u] /\ want'[u] = want[u]
        /\ pc[w] = "idle" /\ slot[w] = NoSlot /\ slot'[w] = s
        /\ pc'[w] \in {"dec", "parse", "leave"}
    BY <1>10, <1>a, <2>0, BeginFrame DEF GetRecv, ThreadsOK
  <2>3. \A x \in Slots : (Entering(x)' <=> Entering(x)) /\ (Vacant(x)' <=> Vacant(x))
    BY <1>10, <2>0, <2>2, SlotsAssumption DEF GetRecv, Entering, Vacant
  <2>4. \A x \in Slots : (\E t \in Threads : slot[t] = x /\ pc[t] = "push") =>
           \E t \in Threads : slot'[t] = x /\ pc'[t] = "push"
    BY <2>2
  <2>. QED  BY <1>10, <1>a, <2>0, <2>1, <2>2, <2>3, <2>4 DEF GetRecv, HandlesInOrder, CallerLabels
<1>11. ASSUME NEW w \in Workers, NEW s \in Slots, GetLeave(w, s) PROVE HandlesInOrder'
  <2>0. w \in Threads
    BY WorkersAndCallers
  <2>1. ~Vacant(s) /\ ~Entering(s) /\ HandleOf(s) \in joined
    BY <1>11, <1>a, <1>c, <1>d, Announced DEF GetLeave
  <2>2. /\ \A u \in Threads \ {w} : pc'[u] = pc[u] /\ slot'[u] = slot[u] /\ want'[u] = want[u]
        /\ pc[w] = "idle" /\ slot[w] = NoSlot /\ slot'[w] = s
        /\ pc'[w] \in {"dec", "parse", "leave"}
    BY <1>11, <1>a, <2>0, BeginFrame DEF GetLeave, ThreadsOK
  <2>3. \A x \in Slots : (Entering(x)' <=> Entering(x)) /\ (Vacant(x)' <=> Vacant(x))
    BY <1>11, <2>0, <2>2, SlotsAssumption DEF GetLeave, Entering, Vacant
  <2>4. \A x \in Slots : (\E t \in Threads : slot[t] = x /\ pc[t] = "push") =>
           \E t \in Threads : slot'[t] = x /\ pc'[t] = "push"
    BY <2>2
  <2>. QED  BY <1>11, <1>a, <2>0, <2>1, <2>2, <2>3, <2>4 DEF GetLeave, HandlesInOrder, CallerLabels
<1>12. ASSUME NEW w \in Workers, OnClientJoin(w) PROVE HandlesInOrder'
  <2>0. w \in Threads /\ slot[w] \in Slots
    BY <1>12, <1>b, WorkersAndCallers DEF OnClientJoin
  <2>. PICK x \in Slots : x = slot[w]
    BY <2>0
  <2>1. /\ \A u \in Threads \ {w} : pc'[u] = pc[u] /\ slot'[u] = slot[u] /\ want'[u] = want[u]
        /\ pc[w] = "join" /\ slot'[w] = x /\ pc'[w] = "firstrecv"
    BY <1>12, <1>a, <2>0, GoFrame DEF OnClientJoin
  <2>2. Entering(x) /\ ~Vacant(x) /\ 0 < sessionId[x] /\ HandleOf(x) \notin joined
    BY <1>a, <1>d, <2>0, <2>1 DEF Entering, HandlesInOrder, UseLabels
  <2>3. ~Entering(x)'
    <3>1. ~AcceptHolds(x) /\ enterPosted[x] = 0
          /\ \A u \in Threads : slot[u] = x /\ pc[u] = "join" => u = w
      BY <1>a, <2>0, <2>1 DEF OneDriver, DriveLabels
    <3>. QED  BY <1>12, <2>0, <2>1, <2>2, <3>1 DEF OnClientJoin, Entering, AcceptHolds, Vacant
  <2>4. \A y \in Slots : /\ Vacant(y)' <=> Vacant(y)
                         /\ y # x => (Entering(y)' <=> Entering(y))
    BY <1>12, <2>0, <2>1 DEF OnClientJoin, Entering, Vacant
  <2>5. joined' = joined \cup {<<x, sessionId[x]>>} /\ left' = left /\ sessionId' = sessionId
        /\ idPool' = idPool
    BY <1>12 DEF OnClientJoin
  <2>6. \A y \in Slots : (\E t \in Threads : slot[t] = y /\ pc[t] = "push") =>
           \E t \in Threads : slot'[t] = y /\ pc'[t] = "push"
    BY <2>1
  <2>7. HandleOf(x) \notin left
    BY <1>a, <2>2 DEF HandlesInOrder
  <2>8. /\ idPool' <= MaxId /\ (acceptPc' \in {"pop", "handle"} => idPool' < MaxId)
        /\ \A s \in Slots : sessionId'[s] <= idPool'
        /\ left' \subseteq joined'
        /\ \A h \in joined' : 0 < h[2] /\ h[2] <= sessionId'[h[1]]
    BY <1>12, <1>a, <1>c, <2>0, <2>2, <2>5 DEF HandlesInOrder, OnClientJoin
  <2>9. \A s \in Slots :
          /\ Entering(s)' => 0 < sessionId'[s] /\ <<s, sessionId'[s]>> \notin joined'
          /\ ~Vacant(s)' /\ ~Entering(s)' => <<s, sessionId'[s]>> \in joined'
          /\ ~Vacant(s)' /\ <<s, sessionId'[s]>> \in left' =>
                \E t \in Threads : slot'[t] = s /\ pc'[t] = "push"
    BY <1>a, <2>0, <2>2, <2>3, <2>4, <2>5, <2>6, <2>7 DEF HandlesInOrder
  <2>10. \A t \in Threads :
           /\ pc'[t] \in CallerLabels => <<slot'[t], want'[t]>> \in joined'
           /\ pc'[t] \in {"found", "cancel"} => sessionId'[slot'[t]] = want'[t]
           /\ pc'[t] = "push" => <<slot'[t], sessionId'[slot'[t]]>> \in left'
           /\ pc'[t] \notin {"idle", "join"} => \E h \in joined' : h[1] = slot'[t]
    BY <1>a, <2>0, <2>1, <2>5 DEF HandlesInOrder, CallerLabels
  <2>. QED  BY <2>8, <2>9, <2>10 DEF HandlesInOrder
<1>13. ASSUME NEW w \in Workers, FirstRecvPost(w) PROVE HandlesInOrder'
  BY <1>13, <1>a, <1>b, <1>c, <1>d, WorkersAndCallers, GoFrame, SlotsAssumption, Announced DEF HandlesInOrder, Vacant, Entering, FirstRecvPost, Resume, UseLabels, LeaveLabels, CallerLabels
<1>14. ASSUME NEW w \in Workers, Parse(w) PROVE HandlesInOrder'
  BY <1>14, <1>a, <1>b, <1>c, <1>d, WorkersAndCallers, GoFrame, SlotsAssumption, Announced DEF HandlesInOrder, Vacant, Entering, Parse, Resume, UseLabels, LeaveLabels, CallerLabels
<1>15. ASSUME NEW w \in Workers, IncrementForRecv(w) PROVE HandlesInOrder'
  BY <1>15, <1>a, <1>b, <1>c, <1>d, WorkersAndCallers, GoFrame, SlotsAssumption, Announced DEF HandlesInOrder, Vacant, Entering, IncrementForRecv, Resume, UseLabels, LeaveLabels, CallerLabels
<1>16. ASSUME NEW w \in Workers, RecvPost(w) PROVE HandlesInOrder'
  BY <1>16, <1>a, <1>b, <1>c, <1>d, WorkersAndCallers, GoFrame, SlotsAssumption, Announced DEF HandlesInOrder, Vacant, Entering, RecvPost, Resume, UseLabels, LeaveLabels, CallerLabels
<1>17. ASSUME NEW w \in Workers, CheckRequest(w) PROVE HandlesInOrder'
  BY <1>17, <1>a, <1>b, <1>c, <1>d, WorkersAndCallers, GoFrame, SlotsAssumption, Announced, SMTT(30)
     DEF HandlesInOrder, Vacant, Entering, CheckRequest, Resume, UseLabels, LeaveLabels, CallerLabels
<1>18. ASSUME NEW w \in Workers, OnClientLeave(w) PROVE HandlesInOrder'
  BY <1>18, <1>a, <1>b, <1>c, <1>d, WorkersAndCallers, GoFrame, SlotsAssumption, Announced DEF HandlesInOrder, Vacant, Entering, OnClientLeave, AfterLeave, Resume, UseLabels, LeaveLabels, CallerLabels
<1>19. ASSUME NEW w \in Workers, PushIndex(w) PROVE HandlesInOrder'
  BY <1>19, <1>a, <1>b, <1>c, <1>d, WorkersAndCallers, GoFrame, SlotsAssumption, Announced DEF HandlesInOrder, Vacant, Entering, PushIndex, AfterLeave, Resume, UseLabels, LeaveLabels, CallerLabels
<1>20. ASSUME NEW w \in Workers, DecrementSessionCount(w) PROVE HandlesInOrder'
  BY <1>20, <1>a, <1>b, <1>c, <1>d, WorkersAndCallers, GoFrame, SlotsAssumption, Announced DEF HandlesInOrder, Vacant, Entering, DecrementSessionCount, AfterLeave, Resume, UseLabels, LeaveLabels, CallerLabels
<1>21. ASSUME NEW c \in Callers, NEW h \in joined, FindSession(c, h) PROVE HandlesInOrder'
  BY <1>21, <1>a, <1>b, <1>c, <1>d, WorkersAndCallers, BeginFrame, SlotsAssumption, Announced DEF HandlesInOrder, Vacant, Entering, FindSession, Resume, UseLabels, LeaveLabels, CallerLabels
<1>22. ASSUME NEW c \in Callers, CompareHandle(c) PROVE HandlesInOrder'
  BY <1>22, <1>a, <1>b, <1>c, <1>d, WorkersAndCallers, GoFrame, SlotsAssumption, Announced DEF HandlesInOrder, Vacant, Entering, CompareHandle, Resume, UseLabels, LeaveLabels, CallerLabels
<1>23. ASSUME NEW c \in Callers, UseSession(c) PROVE HandlesInOrder'
  BY <1>23, <1>a, <1>b, <1>c, <1>d, WorkersAndCallers, GoFrame, SlotsAssumption, Announced DEF HandlesInOrder, Vacant, Entering, UseSession, Resume, UseLabels, LeaveLabels, CallerLabels
<1>24. ASSUME NEW c \in Callers, RequestDisconnect(c) PROVE HandlesInOrder'
  BY <1>24, <1>a, <1>b, <1>c, <1>d, WorkersAndCallers, GoFrame, SlotsAssumption, Announced DEF HandlesInOrder, Vacant, Entering, RequestDisconnect, Resume, UseLabels, LeaveLabels, CallerLabels
<1>25. ASSUME NEW c \in Callers, CancelIo(c) PROVE HandlesInOrder'
  BY <1>25, <1>a, <1>b, <1>c, <1>d, WorkersAndCallers, GoFrame, SlotsAssumption, Announced DEF HandlesInOrder, Vacant, Entering, CancelIo, Resume, UseLabels, LeaveLabels, CallerLabels
<1>26. ASSUME NEW t \in Threads, DecrementIOCount(t) PROVE HandlesInOrder'
  BY <1>26, <1>a, <1>b, <1>c, <1>d, WorkersAndCallers, GoFrame, SlotsAssumption, Announced DEF HandlesInOrder, Vacant, Entering, DecrementIOCount, Resume, UseLabels, LeaveLabels, CallerLabels
<1>27. ASSUME NEW t \in Threads, ReleaseSession(t) PROVE HandlesInOrder'
  BY <1>27, <1>a, <1>b, <1>c, <1>d, WorkersAndCallers, GoFrame, SlotsAssumption, Announced DEF HandlesInOrder, Vacant, Entering, ReleaseSession, Resume, UseLabels, LeaveLabels, CallerLabels
<1>28. ASSUME NEW t \in Threads, CloseSession(t) PROVE HandlesInOrder'
  BY <1>28, <1>a, <1>b, <1>c, <1>d, WorkersAndCallers, GoFrame, SlotsAssumption, Announced DEF HandlesInOrder, Vacant, Entering, CloseSession, Resume, UseLabels, LeaveLabels, CallerLabels
<1>29. CASE UNCHANGED vars
  BY <1>29, <1>a, <1>b, <1>c, <1>d, SlotsAssumption, BoundsAssumption DEF HandlesInOrder, Vacant, Entering, vars, UseLabels, LeaveLabels, CallerLabels
<1>. QED
  BY <1>1, <1>2, <1>3, <1>4, <1>5, <1>6, <1>7, <1>8, <1>9, <1>10, <1>11, <1>12, <1>13, <1>14, <1>15, <1>16, <1>17, <1>18, <1>19, <1>20, <1>21, <1>22, <1>23, <1>24, <1>25, <1>26, <1>27, <1>28, <1>29
  DEF Next, Accept, Kernel, Dequeue, Handle, Operate, Return

-----------------------------------------------------------------------------
(* The session count against the pool.                                     *)

\* Workers between PushIndex and DecrementSessionCount.
Uncounting == {t \in Threads : pc[t] = "uncount"}

IndexesExact ==
    /\ sessionCount = Cardinality(Slots \ free) + B(acceptPc = "pop") + Cardinality(Uncounting)
    /\ sessionCount <= Cardinality(Slots) /\ acceptSlot \notin free

\* One thread moves: how many workers are about to decrement m_sessionCount.
LEMMA UncountingMoves ==
    ASSUME NEW t \in Threads, \A u \in Threads \ {t} : pc'[u] = pc[u]
    PROVE  /\ Cardinality(Uncounting') + B(pc[t] = "uncount")
                = Cardinality(Uncounting) + B(pc'[t] = "uncount")
           /\ Cardinality(Uncounting) \in Nat /\ Cardinality(Uncounting') \in Nat
<1>1. /\ Uncounting \ {t} \subseteq Threads /\ Uncounting \subseteq Threads
      /\ Uncounting' \subseteq Threads
  BY DEF Uncounting
<1>2. /\ IsFiniteSet(Uncounting \ {t}) /\ Cardinality(Uncounting \ {t}) \in Nat
      /\ Cardinality(Uncounting) \in Nat /\ Cardinality(Uncounting') \in Nat
  BY <1>1, ThreadSets
<1>3. t \notin Uncounting \ {t}
  OBVIOUS
<1>4. Cardinality((Uncounting \ {t}) \cup {t}) = Cardinality(Uncounting \ {t}) + 1
  BY <1>2, <1>3, FS_AddElement
<1>5. Uncounting = IF pc[t] = "uncount" THEN (Uncounting \ {t}) \cup {t} ELSE Uncounting \ {t}
  BY DEF Uncounting
<1>6. Uncounting' = IF pc'[t] = "uncount" THEN (Uncounting \ {t}) \cup {t} ELSE Uncounting \ {t}
  BY DEF Uncounting
<1>7. Cardinality(Uncounting) = Cardinality(Uncounting \ {t}) + B(pc[t] = "uncount")
  BY <1>2, <1>4, <1>5 DEF B
<1>8. Cardinality(Uncounting') = Cardinality(Uncounting \ {t}) + B(pc'[t] = "uncount")
  BY <1>2, <1>4, <1>6 DEF B
<1>9. B(pc[t] = "uncount") \in Nat /\ B(pc'[t] = "uncount") \in Nat
  BY DEF B
<1>. QED  BY <1>2, <1>7, <1>8, <1>9

\* Taking one index out of the pool.
LEMMA UsedIndexes ==
    ASSUME NEW F, NEW x \in Slots, x \notin F
    PROVE  /\ Cardinality(Slots \ F) \in Nat /\ Cardinality(Slots \ (F \cup {x})) \in Nat
           /\ Cardinality(Slots \ F) = Cardinality(Slots \ (F \cup {x})) + 1
<1>1. IsFiniteSet(Slots \ F) /\ IsFiniteSet(Slots \ (F \cup {x}))
  BY SlotsAssumption, FS_Subset
<1>2. Slots \ F = (Slots \ (F \cup {x})) \cup {x} /\ x \notin Slots \ (F \cup {x})
  OBVIOUS
<1>. QED  BY <1>1, <1>2, FS_AddElement, FS_CardinalityType

\* Every step preserves CountedIndexes.
LEMMA IndexStep ==
    IInv /\ NoWrap /\ TypeOK' /\ [Next]_vars => CountedIndexes'
<1>. SUFFICES ASSUME IInv, NoWrap, TypeOK', [Next]_vars PROVE CountedIndexes'
  OBVIOUS
<1>. USE DEF sessionVars, queueVars, poolVars, acceptVars, threadVars, appVars
<1>a. TypeOK /\ ThreadsOK /\ CountExact /\ CountedIndexes /\ OwnReferenceLeft
  BY DEF IInv, TypeOK
<1>b. \A t \in Threads : pc[t] # "idle" => slot[t] \in Slots
  BY <1>a DEF ThreadsOK
<1>c. /\ acceptPc \in {"accept", "pop", "handle", "count", "reset", "post"}
      /\ acceptPc \in {"handle", "count", "reset", "post"} => acceptSlot \in Slots
      /\ acceptPc \in {"accept", "pop"} => acceptSlot = NoSlot
      /\ free \subseteq Slots /\ sessionCount \in Nat
  BY <1>a DEF TypeOK
<1>d. /\ sessionCount = Cardinality(Slots \ free) + B(acceptPc = "pop") + Cardinality(Uncounting)
      /\ sessionCount <= Cardinality(Slots) /\ acceptSlot \notin free
  BY <1>a DEF CountedIndexes, Uncounting
<1>e. /\ Cardinality(Slots \ free) \in Nat /\ Cardinality(Slots) \in Nat
      /\ Cardinality(Uncounting) \in Nat
  <2>1. Uncounting \subseteq Threads /\ Slots \ free \subseteq Slots
    BY DEF Uncounting
  <2>. QED  BY <2>1, ThreadSets, SlotsAssumption, FS_Subset, FS_CardinalityType
<1>. SUFFICES IndexesExact'
  BY DEF IndexesExact, CountedIndexes, Uncounting
<1>1. ASSUME AcceptConnection PROVE IndexesExact'
  <2>1. Uncounting' = Uncounting
    BY <1>1 DEF Uncounting, AcceptConnection
  <2>. QED  BY <1>1, <1>c, <1>d, <1>e, <2>1, SlotsAssumption DEF AcceptConnection, B, IndexesExact
<1>2. ASSUME PopIndex PROVE IndexesExact'
  <2>0. acceptPc = "pop" /\ acceptPc' = "handle" /\ sessionCount' = sessionCount
        /\ pc' = pc /\ acceptSlot' \in free /\ acceptSlot' \in Slots /\ free' = free \ {acceptSlot'}
    BY <1>2, <1>a, <1>c, PoolNotEmpty DEF PopIndex
  <2>. PICK x \in free : x = acceptSlot'
    BY <2>0
  <2>1. free = (free \ {x}) \cup {x} /\ x \notin free \ {x} /\ x \in Slots
    BY <2>0
  <2>2. Cardinality(Slots \ (free \ {x})) = Cardinality(Slots \ free) + 1
    <3>1. Cardinality(Slots \ (free \ {x})) = Cardinality(Slots \ ((free \ {x}) \cup {x})) + 1
      BY <2>1, UsedIndexes
    <3>2. (free \ {x}) \cup {x} = free
      BY <2>1
    <3>. QED  BY <3>1, <3>2
  <2>3. Uncounting' = Uncounting
    BY <2>0 DEF Uncounting
  <2>. QED  BY <1>d, <1>e, <2>0, <2>2, <2>3 DEF B, IndexesExact
<1>3. ASSUME ConnectHandle PROVE IndexesExact'
  <2>1. Uncounting' = Uncounting
    BY <1>3 DEF Uncounting, ConnectHandle
  <2>. QED  BY <1>3, <1>c, <1>d, <1>e, <2>1, SlotsAssumption DEF ConnectHandle, B, IndexesExact
<1>4. ASSUME ConnectCount PROVE IndexesExact'
  <2>1. Uncounting' = Uncounting
    BY <1>4 DEF Uncounting, ConnectCount
  <2>. QED  BY <1>4, <1>c, <1>d, <1>e, <2>1, SlotsAssumption DEF ConnectCount, B, IndexesExact
<1>5. ASSUME ConnectReset PROVE IndexesExact'
  <2>1. Uncounting' = Uncounting
    BY <1>5 DEF Uncounting, ConnectReset
  <2>. QED  BY <1>5, <1>c, <1>d, <1>e, <2>1, SlotsAssumption DEF ConnectReset, B, IndexesExact
<1>6. ASSUME PostEnter PROVE IndexesExact'
  <2>1. Uncounting' = Uncounting
    BY <1>6 DEF Uncounting, PostEnter
  <2>. QED  BY <1>6, <1>c, <1>d, <1>e, <2>1, SlotsAssumption DEF PostEnter, B, IndexesExact
<1>7. ASSUME NEW s \in Slots, KernelReceives(s) PROVE IndexesExact'
  <2>1. Uncounting' = Uncounting
    BY <1>7 DEF Uncounting, KernelReceives
  <2>. QED  BY <1>7, <1>c, <1>d, <1>e, <2>1, SlotsAssumption DEF KernelReceives, B, IndexesExact
<1>8. ASSUME NEW s \in Slots, KernelCloses(s) PROVE IndexesExact'
  <2>1. Uncounting' = Uncounting
    BY <1>8 DEF Uncounting, KernelCloses
  <2>. QED  BY <1>8, <1>c, <1>d, <1>e, <2>1, SlotsAssumption DEF KernelCloses, B, IndexesExact
<1>9. ASSUME NEW w \in Workers, NEW s \in Slots, GetEnter(w, s) PROVE IndexesExact'
  <2>1. \A u \in Threads : pc[u] = "uncount" <=> pc'[u] = "uncount"
    BY <1>9, <1>a, WorkersAndCallers, BeginFrame DEF GetEnter, Resume, ThreadsOK
  <2>2. Uncounting' = Uncounting
    BY <2>1 DEF Uncounting
  <2>. QED  BY <1>9, <1>d, <2>2 DEF GetEnter, IndexesExact
<1>10. ASSUME NEW w \in Workers, NEW s \in Slots, GetRecv(w, s) PROVE IndexesExact'
  <2>1. \A u \in Threads : pc[u] = "uncount" <=> pc'[u] = "uncount"
    BY <1>10, <1>a, WorkersAndCallers, BeginFrame DEF GetRecv, Resume, ThreadsOK
  <2>2. Uncounting' = Uncounting
    BY <2>1 DEF Uncounting
  <2>. QED  BY <1>10, <1>d, <2>2 DEF GetRecv, IndexesExact
<1>11. ASSUME NEW w \in Workers, NEW s \in Slots, GetLeave(w, s) PROVE IndexesExact'
  <2>1. \A u \in Threads : pc[u] = "uncount" <=> pc'[u] = "uncount"
    BY <1>11, <1>a, WorkersAndCallers, BeginFrame DEF GetLeave, Resume, ThreadsOK
  <2>2. Uncounting' = Uncounting
    BY <2>1 DEF Uncounting
  <2>. QED  BY <1>11, <1>d, <2>2 DEF GetLeave, IndexesExact
<1>12. ASSUME NEW w \in Workers, OnClientJoin(w) PROVE IndexesExact'
  <2>1. \A u \in Threads : pc[u] = "uncount" <=> pc'[u] = "uncount"
    BY <1>12, <1>a, WorkersAndCallers, GoFrame DEF OnClientJoin, Resume, ThreadsOK
  <2>2. Uncounting' = Uncounting
    BY <2>1 DEF Uncounting
  <2>. QED  BY <1>12, <1>d, <2>2 DEF OnClientJoin, IndexesExact
<1>13. ASSUME NEW w \in Workers, FirstRecvPost(w) PROVE IndexesExact'
  <2>1. \A u \in Threads : pc[u] = "uncount" <=> pc'[u] = "uncount"
    BY <1>13, <1>a, WorkersAndCallers, GoFrame DEF FirstRecvPost, Resume, ThreadsOK
  <2>2. Uncounting' = Uncounting
    BY <2>1 DEF Uncounting
  <2>. QED  BY <1>13, <1>d, <2>2 DEF FirstRecvPost, IndexesExact
<1>14. ASSUME NEW w \in Workers, Parse(w) PROVE IndexesExact'
  <2>1. \A u \in Threads : pc[u] = "uncount" <=> pc'[u] = "uncount"
    BY <1>14, <1>a, WorkersAndCallers, GoFrame DEF Parse, Resume, ThreadsOK
  <2>2. Uncounting' = Uncounting
    BY <2>1 DEF Uncounting
  <2>. QED  BY <1>14, <1>d, <2>2 DEF Parse, IndexesExact
<1>15. ASSUME NEW w \in Workers, IncrementForRecv(w) PROVE IndexesExact'
  <2>1. \A u \in Threads : pc[u] = "uncount" <=> pc'[u] = "uncount"
    BY <1>15, <1>a, WorkersAndCallers, GoFrame DEF IncrementForRecv, Resume, ThreadsOK
  <2>2. Uncounting' = Uncounting
    BY <2>1 DEF Uncounting
  <2>. QED  BY <1>15, <1>d, <2>2 DEF IncrementForRecv, IndexesExact
<1>16. ASSUME NEW w \in Workers, RecvPost(w) PROVE IndexesExact'
  <2>1. \A u \in Threads : pc[u] = "uncount" <=> pc'[u] = "uncount"
    BY <1>16, <1>a, WorkersAndCallers, GoFrame DEF RecvPost, Resume, ThreadsOK
  <2>2. Uncounting' = Uncounting
    BY <2>1 DEF Uncounting
  <2>. QED  BY <1>16, <1>d, <2>2 DEF RecvPost, IndexesExact
<1>17. ASSUME NEW w \in Workers, CheckRequest(w) PROVE IndexesExact'
  <2>1. \A u \in Threads : pc[u] = "uncount" <=> pc'[u] = "uncount"
    BY <1>17, <1>a, WorkersAndCallers, GoFrame DEF CheckRequest, Resume, ThreadsOK
  <2>2. Uncounting' = Uncounting
    BY <2>1 DEF Uncounting
  <2>. QED  BY <1>17, <1>d, <2>2 DEF CheckRequest, IndexesExact
<1>18. ASSUME NEW w \in Workers, OnClientLeave(w) PROVE IndexesExact'
  <2>1. \A u \in Threads : pc[u] = "uncount" <=> pc'[u] = "uncount"
    BY <1>18, <1>a, WorkersAndCallers, GoFrame DEF OnClientLeave, AfterLeave, Resume, ThreadsOK
  <2>2. Uncounting' = Uncounting
    BY <2>1 DEF Uncounting
  <2>. QED  BY <1>18, <1>d, <2>2 DEF OnClientLeave, AfterLeave, IndexesExact
<1>19. ASSUME NEW w \in Workers, PushIndex(w) PROVE IndexesExact'
  <2>0. w \in Threads /\ slot[w] \in Slots /\ pc[w] = "push"
    BY <1>19, <1>b, WorkersAndCallers DEF PushIndex, AfterLeave
  <2>1. Gone(slot[w])
    BY <1>a, <2>0, Leaving DEF LeaveLabels
  <2>2. slot[w] \notin free /\ slot[w] # acceptSlot
    <3>1. ~Vacant(slot[w]) /\ ~AcceptHolds(slot[w])
      BY <1>a, <2>0, <2>1, Referenced DEF Gone, InUse
    <3>. QED  BY <1>c, <2>0, <3>1, SlotsAssumption DEF Vacant, AcceptHolds
  <2>3. /\ free' = free \cup {slot[w]} /\ sessionCount' = sessionCount
        /\ acceptPc' = acceptPc /\ acceptSlot' = acceptSlot
        /\ \A u \in Threads \ {w} : pc'[u] = pc[u]
        /\ pc'[w] = "uncount"
    BY <1>19, <1>a, <2>0, GoFrame DEF PushIndex, AfterLeave
  <2>4. Cardinality(Slots \ free) = Cardinality(Slots \ free') + 1
        /\ Cardinality(Slots \ free') \in Nat
    BY <2>0, <2>2, <2>3, UsedIndexes
  <2>5. Cardinality(Uncounting') = Cardinality(Uncounting) + 1
    BY <1>e, <2>0, <2>3, UncountingMoves DEF B
  <2>. QED  BY <1>d, <1>e, <2>2, <2>3, <2>4, <2>5 DEF B, IndexesExact
<1>20. ASSUME NEW w \in Workers, DecrementSessionCount(w) PROVE IndexesExact'
  <2>0. w \in Threads /\ pc[w] = "uncount"
    BY <1>20, WorkersAndCallers DEF DecrementSessionCount, AfterLeave
  <2>1. /\ free' = free /\ sessionCount' = sessionCount - 1
        /\ acceptPc' = acceptPc /\ acceptSlot' = acceptSlot
        /\ \A u \in Threads \ {w} : pc'[u] = pc[u]
        /\ pc'[w] = "idle"
    BY <1>20, <1>a, <2>0, GoFrame DEF DecrementSessionCount, AfterLeave
  <2>2. Cardinality(Uncounting') + 1 = Cardinality(Uncounting) /\ Cardinality(Uncounting') \in Nat
    BY <1>e, <2>0, <2>1, UncountingMoves DEF B
  <2>. QED  BY <1>c, <1>d, <1>e, <2>1, <2>2 DEF B, IndexesExact
<1>21. ASSUME NEW c \in Callers, NEW h \in joined, FindSession(c, h) PROVE IndexesExact'
  <2>1. \A u \in Threads : pc[u] = "uncount" <=> pc'[u] = "uncount"
    BY <1>21, <1>a, WorkersAndCallers, BeginFrame DEF FindSession, ThreadsOK
  <2>2. Uncounting' = Uncounting
    BY <2>1 DEF Uncounting
  <2>. QED  BY <1>21, <1>d, <2>2 DEF FindSession, IndexesExact
<1>22. ASSUME NEW c \in Callers, CompareHandle(c) PROVE IndexesExact'
  <2>1. \A u \in Threads : pc[u] = "uncount" <=> pc'[u] = "uncount"
    BY <1>22, <1>a, WorkersAndCallers, GoFrame DEF CompareHandle, Resume, ThreadsOK
  <2>2. Uncounting' = Uncounting
    BY <2>1 DEF Uncounting
  <2>. QED  BY <1>22, <1>d, <2>2 DEF CompareHandle, IndexesExact
<1>23. ASSUME NEW c \in Callers, UseSession(c) PROVE IndexesExact'
  <2>1. \A u \in Threads : pc[u] = "uncount" <=> pc'[u] = "uncount"
    BY <1>23, <1>a, WorkersAndCallers, GoFrame DEF UseSession, Resume, ThreadsOK
  <2>2. Uncounting' = Uncounting
    BY <2>1 DEF Uncounting
  <2>. QED  BY <1>23, <1>d, <2>2 DEF UseSession, IndexesExact
<1>24. ASSUME NEW c \in Callers, RequestDisconnect(c) PROVE IndexesExact'
  <2>1. \A u \in Threads : pc[u] = "uncount" <=> pc'[u] = "uncount"
    BY <1>24, <1>a, WorkersAndCallers, GoFrame DEF RequestDisconnect, Resume, ThreadsOK
  <2>2. Uncounting' = Uncounting
    BY <2>1 DEF Uncounting
  <2>. QED  BY <1>24, <1>d, <2>2 DEF RequestDisconnect, IndexesExact
<1>25. ASSUME NEW c \in Callers, CancelIo(c) PROVE IndexesExact'
  <2>1. \A u \in Threads : pc[u] = "uncount" <=> pc'[u] = "uncount"
    BY <1>25, <1>a, WorkersAndCallers, GoFrame DEF CancelIo, Resume, ThreadsOK
  <2>2. Uncounting' = Uncounting
    BY <2>1 DEF Uncounting
  <2>. QED  BY <1>25, <1>d, <2>2 DEF CancelIo, IndexesExact
<1>26. ASSUME NEW t \in Threads, DecrementIOCount(t) PROVE IndexesExact'
  <2>1. \A u \in Threads : pc[u] = "uncount" <=> pc'[u] = "uncount"
    BY <1>26, <1>a, WorkersAndCallers, GoFrame DEF DecrementIOCount, Resume, ThreadsOK
  <2>2. Uncounting' = Uncounting
    BY <2>1 DEF Uncounting
  <2>. QED  BY <1>26, <1>d, <2>2 DEF DecrementIOCount, IndexesExact
<1>27. ASSUME NEW t \in Threads, ReleaseSession(t) PROVE IndexesExact'
  <2>1. \A u \in Threads : pc[u] = "uncount" <=> pc'[u] = "uncount"
    BY <1>27, <1>a, WorkersAndCallers, GoFrame DEF ReleaseSession, Resume, ThreadsOK
  <2>2. Uncounting' = Uncounting
    BY <2>1 DEF Uncounting
  <2>. QED  BY <1>27, <1>d, <2>2 DEF ReleaseSession, IndexesExact
<1>28. ASSUME NEW t \in Threads, CloseSession(t) PROVE IndexesExact'
  <2>1. \A u \in Threads : pc[u] = "uncount" <=> pc'[u] = "uncount"
    BY <1>28, <1>a, WorkersAndCallers, GoFrame DEF CloseSession, Resume, ThreadsOK
  <2>2. Uncounting' = Uncounting
    BY <2>1 DEF Uncounting
  <2>. QED  BY <1>28, <1>d, <2>2 DEF CloseSession, IndexesExact
<1>29. CASE UNCHANGED vars
  <2>1. Uncounting' = Uncounting
    BY <1>29 DEF Uncounting, vars
  <2>. QED  BY <1>29, <1>c, <1>d, <1>e, <2>1, SlotsAssumption DEF vars, B, IndexesExact
<1>. QED
  BY <1>1, <1>2, <1>3, <1>4, <1>5, <1>6, <1>7, <1>8, <1>9, <1>10, <1>11, <1>12, <1>13, <1>14, <1>15, <1>16, <1>17, <1>18, <1>19, <1>20, <1>21, <1>22, <1>23, <1>24, <1>25, <1>26, <1>27, <1>28, <1>29
  DEF Next, Accept, Kernel, Dequeue, Handle, Operate, Return

-----------------------------------------------------------------------------
(* The theorems.                                                           *)

\* The invariant holds initially.
LEMMA InitOK == Init => IInv
<1>. SUFFICES ASSUME Init PROVE IInv
  OBVIOUS
<1>. USE DEF Init
<1>1. TypeOK
  BY WordFacts, SlotsAssumption DEF TypeOK, ThreadsOK, LabelsOf, SharedLabels, Pending
<1>2. \A L, s : At(L, s) = {} \/ "idle" \in L
  BY DEF At
<1>3. \A s \in Slots : RefCount(s) = 0 /\ LeaveCount(s) = 0 /\ Vacant(s)
  <2>. SUFFICES ASSUME NEW s \in Slots PROVE RefCount(s) = 0 /\ LeaveCount(s) = 0 /\ Vacant(s)
    OBVIOUS
  <2>1. At(UseLabels, s) = {} /\ At(RearmLabels, s) = {} /\ At(LeaveLabels, s) = {}
    BY <1>2 DEF UseLabels, CallerLabels, RearmLabels, LeaveLabels
  <2>2. Cardinality({}) = 0
    BY FS_EmptySet
  <2>. QED  BY <2>1, <2>2 DEF RefCount, LeaveCount, B, AcceptHolds, Vacant
<1>4. CountExact
  BY <1>3 DEF CountExact
<1>5. OneDriver
  BY DEF OneDriver, DriveLabels, AcceptHolds
<1>6. HandlesInOrder
  BY <1>3, BoundsAssumption DEF HandlesInOrder, Entering, CallerLabels
<1>7. OpenWhileUsed
  BY <1>3 DEF OpenWhileUsed
<1>8. CountedIndexes
  <2>1. Slots \ free = {} /\ {t \in Threads : pc[t] = "uncount"} = {}
    BY SlotsAssumption
  <2>2. Cardinality({}) = 0 /\ Cardinality(Slots) \in Nat
    BY FS_EmptySet, FS_CardinalityType, SlotsAssumption
  <2>. QED  BY <2>1, <2>2, SlotsAssumption DEF CountedIndexes, B
<1>9. OwnReferenceLeft
  BY DEF OwnReferenceLeft
<1>. QED  BY <1>1, <1>4, <1>5, <1>6, <1>7, <1>8, <1>9 DEF IInv

\* The inductive invariant: type correctness, the exact reference count, one
\* driver per connection, the order of the handles, sockets that are open
\* while they are used, and the session count against the index pool hold in
\* every reachable state, for every number of slots, workers and callers.
THEOREM InvariantHolds == ASSUME NoWrap PROVE Spec => []IInv
<1>1. IInv /\ [Next]_vars => IInv'
  <2>. SUFFICES ASSUME IInv, [Next]_vars PROVE IInv'
    OBVIOUS
  <2>1. TypeOK'
    BY TypeStep DEF IInv
  <2>2. OneDriver'
    BY <2>1, DriverStep
  <2>3. CountExact' /\ HandlesInOrder' /\ OpenWhileUsed' /\ CountedIndexes' /\ OwnReferenceLeft'
    BY <2>1, <2>2, CountStep, HandlesStep, OpenStep, IndexStep, OwnReferenceStep
  <2>. QED  BY <2>1, <2>2, <2>3 DEF IInv
<1>. QED  BY InitOK, <1>1, PTL DEF Spec

\* Type correctness: fields of the sessions, of the pool and of the threads
\* have values their C++ types admit.
THEOREM TypeCorrect == ASSUME NoWrap PROVE Spec => []TypeOK
<1>1. IInv => TypeOK
  BY DEF IInv
<1>. QED  BY InvariantHolds, <1>1, PTL

\* FindSession and what follows it work on the connection of the handle: it
\* is not released, recycled or reconnected under the caller.
THEOREM FoundIsOwned == ASSUME NoWrap PROVE Spec => []FoundSessionIsOwned
<1>1. IInv => FoundSessionIsOwned
  <2>. SUFFICES ASSUME IInv, NEW c \in Callers, pc[c] \in {"found", "cancel"}
                PROVE  /\ sessionId[slot[c]] = want[c]
                       /\ open[slot[c]]
                       /\ slot[c] \notin free
                       /\ <<slot[c], want[c]>> \in joined \ left
    BY DEF FoundSessionIsOwned
  <2>1. c \in Threads /\ slot[c] \in Slots
    BY WorkersAndCallers DEF IInv, TypeOK, ThreadsOK
  <2>2. InUse(slot[c])
    BY <2>1, Referenced DEF IInv, UseLabels, CallerLabels
  <2>3. sessionId[slot[c]] = want[c] /\ <<slot[c], want[c]>> \in joined
    BY <2>1 DEF IInv, HandlesInOrder, CallerLabels
  <2>4. /\ \A t \in Threads : slot[t] = slot[c] => pc[t] \notin LeaveLabels
        /\ ~(leavePosted[slot[c]] > 0)
    BY <2>1, <2>2, Leaving DEF IInv, InUse, Gone
  <2>5. open[slot[c]]
    BY <2>1, <2>2, <2>4 DEF IInv, OpenWhileUsed, InUse, LeaveLabels
  <2>6. <<slot[c], want[c]>> \notin left
    BY <2>1, <2>2, <2>3, <2>4 DEF IInv, HandlesInOrder, HandleOf, InUse, LeaveLabels
  <2>. QED  BY <2>2, <2>3, <2>5, <2>6 DEF InUse, Vacant
<1>. QED  BY InvariantHolds, <1>1, PTL

\* OnClientJoin, OnRecv and OnClientLeave of a connection are called in order,
\* and OnClientLeave when nothing else of the connection is being handled.
THEOREM CallbacksInOrder == ASSUME NoWrap PROVE Spec => []CallbackOrder
<1>1. IInv => CallbackOrder
  <2>. SUFFICES ASSUME IInv, NEW w \in Workers
                PROVE  /\ pc[w] = "join" => HandleOf(slot[w]) \notin joined
                       /\ pc[w] = "parse" => HandleOf(slot[w]) \in joined \ left
                       /\ pc[w] = "leave" =>
                             /\ HandleOf(slot[w]) \in joined \ left
                             /\ \A v \in Workers \ {w} : slot[v] = slot[w] =>
                                   pc[v] \in {"uncount", "release", "releaseio"}
    BY DEF CallbackOrder
  <2>0. w \in Threads /\ (pc[w] # "idle" => slot[w] \in Slots)
        /\ TypeOK /\ CountExact /\ OneDriver /\ HandlesInOrder
    BY WorkersAndCallers DEF IInv, TypeOK, ThreadsOK
  <2>1. pc[w] = "join" => HandleOf(slot[w]) \notin joined
    BY <2>0 DEF HandlesInOrder, Entering
  <2>2. ASSUME pc[w] = "parse" PROVE HandleOf(slot[w]) \in joined \ left
    <3>1. ~Vacant(slot[w]) /\ HandleOf(slot[w]) \in joined
      BY <2>0, <2>2, Announced
    <3>2. \A t \in Threads : pc[t] \in LeaveLabels => slot[t] # slot[w]
      BY <2>0, <2>2, Referenced, Leaving DEF UseLabels, InUse, Gone
    <3>. QED  BY <2>0, <2>2, <3>1, <3>2 DEF HandlesInOrder, LeaveLabels
  <2>3. ASSUME pc[w] = "leave"
        PROVE  /\ HandleOf(slot[w]) \in joined \ left
               /\ \A v \in Workers \ {w} : slot[v] = slot[w] =>
                     pc[v] \in {"uncount", "release", "releaseio"}
    <3>1. Gone(slot[w]) /\ \A t \in Threads : pc[t] \in LeaveLabels /\ slot[t] = slot[w] => t = w
      BY <2>0, <2>3, Leaving DEF LeaveLabels
    <3>2. HandleOf(slot[w]) \in joined /\ ~Vacant(slot[w])
      BY <2>0, <2>3, <3>1, Announced
    <3>3. HandleOf(slot[w]) \notin left
      BY <2>0, <2>3, <3>1, <3>2 DEF HandlesInOrder, LeaveLabels
    <3>4. \A v \in Threads : slot[v] = slot[w] => pc[v] \notin UseLabels
      BY <2>0, <3>1, Referenced DEF InUse, Gone
    <3>5. \A v \in Workers \ {w} : slot[v] = slot[w] =>
             pc[v] \in {"uncount", "release", "releaseio"}
      BY <2>0, <2>3, <3>1, <3>4, WorkersAndCallers
      DEF TypeOK, ThreadsOK, LabelsOf, SharedLabels, WorkerLabels, UseLabels, LeaveLabels, CallerLabels
    <3>. QED  BY <3>2, <3>3, <3>5
  <2>. QED  BY <2>1, <2>2, <2>3
<1>. QED  BY InvariantHolds, <1>1, PTL

\* At most one receive of a connection is posted, queued or being handled.
THEOREM OneReceive == ASSUME NoWrap PROVE Spec => []SingleReceive
<1>1. IInv => SingleReceive
  <2>. SUFFICES ASSUME IInv, NEW w \in Workers, pc[w] \in {"firstrecv", "repost"}
                PROVE  /\ open[slot[w]]
                       /\ recvIO[slot[w]] = "none"
                       /\ \A v \in Workers \ {w} :
                             pc[v] \in {"join", "firstrecv", "parse", "inc", "repost"} =>
                                 slot[v] # slot[w]
    BY DEF SingleReceive
  <2>1. w \in Threads /\ slot[w] \in Slots
    BY WorkersAndCallers DEF IInv, TypeOK, ThreadsOK
  <2>2. InUse(slot[w])
    BY <2>1, Referenced DEF IInv, UseLabels
  <2>3. /\ \A t \in Threads : slot[t] = slot[w] => pc[t] \notin LeaveLabels
        /\ ~(leavePosted[slot[w]] > 0)
    BY <2>1, <2>2, Leaving DEF IInv, InUse, Gone
  <2>4. open[slot[w]]
    BY <2>1, <2>2, <2>3 DEF IInv, OpenWhileUsed, InUse, LeaveLabels
  <2>. QED  BY <2>1, <2>4, WorkersAndCallers DEF IInv, OneDriver, DriveLabels
<1>. QED  BY InvariantHolds, <1>1, PTL

\* The index pool is never empty when the accept thread pops from it.
THEOREM PopFindsIndex == ASSUME NoWrap PROVE Spec => []PopNeverEmpty
<1>1. IInv => PopNeverEmpty
  BY PoolNotEmpty DEF IInv, PopNeverEmpty
<1>. QED  BY InvariantHolds, <1>1, PTL

\* Every step preserves RequestReachesReceive.
LEMMA RequestStep == IInv /\ RequestReachesReceive /\ [Next]_vars => RequestReachesReceive'
<1>. SUFFICES ASSUME IInv, RequestReachesReceive, [Next]_vars PROVE RequestReachesReceive'
  OBVIOUS
<1>. USE DEF sessionVars, queueVars, poolVars, acceptVars, threadVars, appVars, Pending
<1>a. TypeOK /\ ThreadsOK /\ OwnReferenceLeft
  BY DEF IInv, TypeOK
<1>b. \A t \in Threads : pc[t] # "idle" => slot[t] \in Slots
  BY <1>a DEF ThreadsOK
<1>c. /\ recvIO \in [Slots -> {"first", "rearmed", "none", "zero", "data"}]
      /\ requestDisconnect \in [Slots -> BOOLEAN]
  BY <1>a DEF TypeOK
<1>1. ASSUME AcceptConnection PROVE RequestReachesReceive'
  BY <1>1, <1>a, <1>c DEF RequestReachesReceive, AcceptConnection
<1>2. ASSUME PopIndex PROVE RequestReachesReceive'
  BY <1>2, <1>a, <1>c DEF RequestReachesReceive, PopIndex
<1>3. ASSUME ConnectHandle PROVE RequestReachesReceive'
  BY <1>3, <1>a, <1>c DEF RequestReachesReceive, ConnectHandle
<1>4. ASSUME ConnectCount PROVE RequestReachesReceive'
  BY <1>4, <1>a, <1>c DEF RequestReachesReceive, ConnectCount
<1>5. ASSUME ConnectReset PROVE RequestReachesReceive'
  BY <1>5, <1>a, <1>c DEF RequestReachesReceive, ConnectReset
<1>6. ASSUME PostEnter PROVE RequestReachesReceive'
  BY <1>6, <1>a, <1>c DEF RequestReachesReceive, PostEnter
<1>7. ASSUME NEW s \in Slots, KernelReceives(s) PROVE RequestReachesReceive'
  BY <1>7, <1>a, <1>c DEF RequestReachesReceive, KernelReceives
<1>8. ASSUME NEW s \in Slots, KernelCloses(s) PROVE RequestReachesReceive'
  BY <1>8, <1>a, <1>c DEF RequestReachesReceive, KernelCloses
<1>9. ASSUME NEW w \in Workers, NEW s \in Slots, GetEnter(w, s) PROVE RequestReachesReceive'
  BY <1>9, <1>a, <1>b, <1>c, WorkersAndCallers, BeginFrame DEF RequestReachesReceive, GetEnter
<1>10. ASSUME NEW w \in Workers, NEW s \in Slots, GetRecv(w, s) PROVE RequestReachesReceive'
  BY <1>10, <1>a, <1>b, <1>c, WorkersAndCallers, BeginFrame DEF RequestReachesReceive, GetRecv
<1>11. ASSUME NEW w \in Workers, NEW s \in Slots, GetLeave(w, s) PROVE RequestReachesReceive'
  BY <1>11, <1>a, <1>b, <1>c, WorkersAndCallers, BeginFrame DEF RequestReachesReceive, GetLeave
<1>12. ASSUME NEW w \in Workers, OnClientJoin(w) PROVE RequestReachesReceive'
  BY <1>12, <1>a, <1>b, <1>c, WorkersAndCallers, GoFrame DEF RequestReachesReceive, OnClientJoin
<1>13. ASSUME NEW w \in Workers, FirstRecvPost(w) PROVE RequestReachesReceive'
  BY <1>13, <1>a, <1>b, <1>c, WorkersAndCallers, GoFrame DEF RequestReachesReceive, FirstRecvPost
<1>14. ASSUME NEW w \in Workers, Parse(w) PROVE RequestReachesReceive'
  BY <1>14, <1>a, <1>b, <1>c, WorkersAndCallers, GoFrame DEF RequestReachesReceive, Parse, Cancelled
<1>15. ASSUME NEW w \in Workers, IncrementForRecv(w) PROVE RequestReachesReceive'
  BY <1>15, <1>a, <1>b, <1>c, WorkersAndCallers, GoFrame DEF RequestReachesReceive, IncrementForRecv
<1>16. ASSUME NEW w \in Workers, RecvPost(w) PROVE RequestReachesReceive'
  BY <1>16, <1>a, <1>b, <1>c, WorkersAndCallers, GoFrame DEF RequestReachesReceive, RecvPost
<1>17. ASSUME NEW w \in Workers, CheckRequest(w) PROVE RequestReachesReceive'
  BY <1>17, <1>a, <1>b, <1>c, WorkersAndCallers, GoFrame DEF RequestReachesReceive, CheckRequest, Cancelled
<1>18. ASSUME NEW w \in Workers, OnClientLeave(w) PROVE RequestReachesReceive'
  BY <1>18, <1>a, <1>b, <1>c, WorkersAndCallers, GoFrame DEF RequestReachesReceive, OnClientLeave, AfterLeave
<1>19. ASSUME NEW w \in Workers, PushIndex(w) PROVE RequestReachesReceive'
  BY <1>19, <1>a, <1>b, <1>c, WorkersAndCallers, GoFrame DEF RequestReachesReceive, PushIndex, AfterLeave
<1>20. ASSUME NEW w \in Workers, DecrementSessionCount(w) PROVE RequestReachesReceive'
  BY <1>20, <1>a, <1>b, <1>c, WorkersAndCallers, GoFrame DEF RequestReachesReceive, DecrementSessionCount, AfterLeave
<1>21. ASSUME NEW c \in Callers, NEW h \in joined, FindSession(c, h) PROVE RequestReachesReceive'
  BY <1>21, <1>a, <1>b, <1>c, WorkersAndCallers, BeginFrame DEF RequestReachesReceive, FindSession
<1>22. ASSUME NEW c \in Callers, CompareHandle(c) PROVE RequestReachesReceive'
  BY <1>22, <1>a, <1>b, <1>c, WorkersAndCallers, GoFrame DEF RequestReachesReceive, CompareHandle
<1>23. ASSUME NEW c \in Callers, UseSession(c) PROVE RequestReachesReceive'
  BY <1>23, <1>a, <1>b, <1>c, WorkersAndCallers, GoFrame DEF RequestReachesReceive, UseSession
<1>24. ASSUME NEW c \in Callers, RequestDisconnect(c) PROVE RequestReachesReceive'
  BY <1>24, <1>a, <1>b, <1>c, WorkersAndCallers, GoFrame DEF RequestReachesReceive, RequestDisconnect
<1>25. ASSUME NEW c \in Callers, CancelIo(c) PROVE RequestReachesReceive'
  BY <1>25, <1>a, <1>b, <1>c, WorkersAndCallers, GoFrame DEF RequestReachesReceive, CancelIo, Cancelled
<1>26. ASSUME NEW t \in Threads, DecrementIOCount(t) PROVE RequestReachesReceive'
  BY <1>26, <1>a, <1>b, <1>c, WorkersAndCallers, GoFrame DEF RequestReachesReceive, DecrementIOCount, Resume
<1>27. ASSUME NEW t \in Threads, ReleaseSession(t) PROVE RequestReachesReceive'
  BY <1>27, <1>a, <1>b, <1>c, WorkersAndCallers, GoFrame DEF RequestReachesReceive, ReleaseSession, Resume
<1>28. ASSUME NEW t \in Threads, CloseSession(t) PROVE RequestReachesReceive'
  BY <1>28, <1>a, <1>b, <1>c, WorkersAndCallers, GoFrame DEF RequestReachesReceive, CloseSession, Resume
<1>29. CASE UNCHANGED vars
  BY <1>29, <1>a, <1>c DEF RequestReachesReceive, vars
<1>. QED
  BY <1>1, <1>2, <1>3, <1>4, <1>5, <1>6, <1>7, <1>8, <1>9, <1>10, <1>11, <1>12, <1>13, <1>14, <1>15, <1>16, <1>17, <1>18, <1>19, <1>20, <1>21, <1>22, <1>23, <1>24, <1>25, <1>26, <1>27, <1>28, <1>29
  DEF Next, Accept, Kernel, Dequeue, Handle, Operate, Return

\* No disconnect is lost between RequestDisconnect and the receive handler.
THEOREM DisconnectReaches == ASSUME NoWrap PROVE Spec => []RequestReachesReceive
<1>1. Init => RequestReachesReceive
  BY DEF Init, RequestReachesReceive
<1>. QED  BY InvariantHolds, RequestStep, <1>1, PTL DEF Spec

-----------------------------------------------------------------------------
(* Refinement of SessionLifecycle.                                         *)

Refined ==
    \/ UNCHANGED <<Live, joined, left>>
    \/ \E h \in Slots \X (1..MaxId) :
          \/ Lifecycle!Allocate(h) \/ Lifecycle!Join(h)
          \/ Lifecycle!Leave(h) \/ Lifecycle!Recycle(h)

\* Every step is a step of SessionLifecycle or a stutter.
LEMMA LifecycleStep == IInv /\ [Next]_vars => [Lifecycle!Next]_(Lifecycle!lifecycleVars)
<1>. SUFFICES ASSUME IInv, [Next]_vars
              PROVE  Refined
  BY DEF Refined, Lifecycle!Next, Lifecycle!lifecycleVars, Lifecycle!Handles
<1>. USE DEF Refined, sessionVars, queueVars, poolVars, acceptVars, threadVars, appVars, HandleOf
<1>a. /\ TypeOK /\ ThreadsOK /\ CountExact /\ OneDriver /\ HandlesInOrder /\ CountedIndexes
      /\ OwnReferenceLeft
  BY DEF IInv, TypeOK
<1>b. \A t \in Threads : pc[t] # "idle" => slot[t] \in Slots
  BY <1>a DEF ThreadsOK
<1>c. /\ sessionId \in [Slots -> Nat] /\ idPool \in Nat /\ MaxId \in Nat
      /\ joined \subseteq Slots \X Nat
      /\ acceptPc \in {"handle", "count", "reset", "post"} => acceptSlot \in Slots
      /\ acceptPc \in {"accept", "pop"} => acceptSlot = NoSlot
  BY <1>a, BoundsAssumption DEF TypeOK
<1>d. \A s \in Slots : <<s, sessionId[s]>> \in Live <=>
          s \notin free /\ ~(acceptSlot = s /\ acceptPc = "handle")
  BY DEF Live
<1>e. \A s \in Slots : <<s, sessionId[s]>> \in joined =>
          <<s, sessionId[s]>> \in Slots \X (1..MaxId)
  <2>1. \A s \in Slots : sessionId[s] \in Nat /\ sessionId[s] <= MaxId
    BY <1>a, <1>c DEF HandlesInOrder
  <2>2. \A s \in Slots : <<s, sessionId[s]>> \in joined => 0 < sessionId[s]
    BY <1>a, <1>c DEF HandlesInOrder
  <2>. QED  BY <1>c, <2>1, <2>2
<1>1. ASSUME AcceptConnection PROVE Refined
  BY <1>1, <1>c, SlotsAssumption DEF Live, AcceptConnection
<1>2. ASSUME PopIndex PROVE Refined
  <2>1. /\ acceptSlot' \in free /\ free' = free \ {acceptSlot'} /\ acceptPc' = "handle"
        /\ sessionId' = sessionId /\ joined' = joined /\ left' = left /\ acceptPc = "pop"
    BY <1>2, <1>a, PoolNotEmpty DEF PopIndex
  <2>2. Live' = Live
    BY <2>1 DEF Live
  <2>. QED  BY <2>1, <2>2
<1>3. ASSUME ConnectHandle PROVE Refined
  <2>0. acceptSlot \in Slots /\ idPool < MaxId /\ idPool + 1 \in 1..MaxId
    BY <1>3, <1>a, <1>c DEF ConnectHandle, HandlesInOrder
  <2>. PICK x \in Slots : x = acceptSlot
    BY <2>0
  <2>. DEFINE g == <<x, idPool + 1>>
  <2>1. /\ sessionId' = [sessionId EXCEPT ![x] = idPool + 1] /\ acceptSlot' = x
        /\ acceptPc' = "count" /\ free' = free /\ joined' = joined /\ left' = left
        /\ acceptPc = "handle" /\ acceptSlot = x /\ x \notin free
    BY <1>3, <1>a DEF ConnectHandle, CountedIndexes
  <2>2. g \notin joined
    BY <1>a, <1>c DEF HandlesInOrder
  <2>3. \A k \in Live : k[1] # x
    BY <2>1 DEF Live
  <2>4. Live' = Live \cup {g}
    BY <1>c, <2>1 DEF Live
  <2>5. Lifecycle!Allocate(g)
    BY <2>1, <2>2, <2>3, <2>4 DEF Lifecycle!Allocate
  <2>. QED  BY <2>0, <2>5
<1>4. ASSUME ConnectCount PROVE Refined
  BY <1>4, <1>c, SlotsAssumption DEF Live, ConnectCount
<1>5. ASSUME ConnectReset PROVE Refined
  BY <1>5, <1>c, SlotsAssumption DEF Live, ConnectReset
<1>6. ASSUME PostEnter PROVE Refined
  BY <1>6, <1>c, SlotsAssumption DEF Live, PostEnter
<1>7. ASSUME NEW s \in Slots, KernelReceives(s) PROVE Refined
  BY <1>7, <1>c, SlotsAssumption DEF Live, KernelReceives
<1>8. ASSUME NEW s \in Slots, KernelCloses(s) PROVE Refined
  BY <1>8, <1>c, SlotsAssumption DEF Live, KernelCloses
<1>9. ASSUME NEW w \in Workers, NEW s \in Slots, GetEnter(w, s) PROVE Refined
  BY <1>9, <1>c, SlotsAssumption DEF Live, GetEnter
<1>10. ASSUME NEW w \in Workers, NEW s \in Slots, GetRecv(w, s) PROVE Refined
  BY <1>10, <1>c, SlotsAssumption DEF Live, GetRecv
<1>11. ASSUME NEW w \in Workers, NEW s \in Slots, GetLeave(w, s) PROVE Refined
  BY <1>11, <1>c, SlotsAssumption DEF Live, GetLeave
<1>12. ASSUME NEW w \in Workers, OnClientJoin(w) PROVE Refined
  <2>0. slot[w] \in Slots /\ w \in Threads
    BY <1>12, <1>b, WorkersAndCallers DEF OnClientJoin
  <2>. PICK x \in Slots : x = slot[w]
    BY <2>0
  <2>. DEFINE g == <<x, sessionId[x]>>
  <2>1. Entering(x) /\ ~Vacant(x) /\ 0 < sessionId[x] /\ g \notin joined
    BY <1>12, <1>a, <2>0, Referenced DEF OnClientJoin, Entering, HandlesInOrder, UseLabels, InUse
  <2>2. g \in Live
    BY <1>d, <2>1 DEF Vacant
  <2>3. sessionId[x] \in 1..MaxId
    BY <1>a, <1>c, <2>1 DEF HandlesInOrder
  <2>4. Live' = Live /\ joined' = joined \cup {g} /\ left' = left
    BY <1>12 DEF OnClientJoin, Live
  <2>5. Lifecycle!Join(g)
    BY <2>1, <2>2, <2>4 DEF Lifecycle!Join
  <2>. QED  BY <2>3, <2>5
<1>13. ASSUME NEW w \in Workers, FirstRecvPost(w) PROVE Refined
  BY <1>13, <1>c, SlotsAssumption DEF Live, FirstRecvPost
<1>14. ASSUME NEW w \in Workers, Parse(w) PROVE Refined
  BY <1>14, <1>c, SlotsAssumption DEF Live, Parse
<1>15. ASSUME NEW w \in Workers, IncrementForRecv(w) PROVE Refined
  BY <1>15, <1>c, SlotsAssumption DEF Live, IncrementForRecv
<1>16. ASSUME NEW w \in Workers, RecvPost(w) PROVE Refined
  BY <1>16, <1>c, SlotsAssumption DEF Live, RecvPost
<1>17. ASSUME NEW w \in Workers, CheckRequest(w) PROVE Refined
  BY <1>17, <1>c, SlotsAssumption DEF Live, CheckRequest
<1>18. ASSUME NEW w \in Workers, OnClientLeave(w) PROVE Refined
  <2>0. slot[w] \in Slots /\ w \in Threads
    BY <1>18, <1>b, WorkersAndCallers DEF OnClientLeave, AfterLeave
  <2>. PICK x \in Slots : x = slot[w]
    BY <2>0
  <2>. DEFINE g == <<x, sessionId[x]>>
  <2>1. Gone(x) /\ \A t \in Threads : pc[t] \in LeaveLabels /\ slot[t] = x => t = w
    BY <1>18, <1>a, <2>0, Leaving DEF OnClientLeave, AfterLeave, LeaveLabels
  <2>2. ~Vacant(x) /\ g \in joined
    BY <1>a, <2>1, Announced
  <2>3. g \in Live /\ g \in Slots \X (1..MaxId)
    BY <1>d, <1>e, <2>2 DEF Vacant
  <2>4. g \notin left
    BY <1>18, <1>a, <2>1, <2>2 DEF OnClientLeave, AfterLeave, HandlesInOrder, LeaveLabels
  <2>5. Live' = Live /\ joined' = joined /\ left' = left \cup {g}
    BY <1>18 DEF OnClientLeave, AfterLeave, Live
  <2>6. Lifecycle!Leave(g)
    BY <2>2, <2>3, <2>4, <2>5 DEF Lifecycle!Leave
  <2>. QED  BY <2>3, <2>6
<1>19. ASSUME NEW w \in Workers, PushIndex(w) PROVE Refined
  <2>0. slot[w] \in Slots /\ w \in Threads /\ pc[w] = "push"
    BY <1>19, <1>b, WorkersAndCallers DEF PushIndex, AfterLeave
  <2>. PICK x \in Slots : x = slot[w]
    BY <2>0
  <2>. DEFINE g == <<x, sessionId[x]>>
  <2>1. Gone(x)
    BY <1>a, <2>0, Leaving DEF LeaveLabels
  <2>2. g \in left /\ g \in joined /\ ~Vacant(x)
    BY <1>a, <2>0, <2>1 DEF HandlesInOrder, Gone
  <2>3. g \in Live /\ g \in Slots \X (1..MaxId)
    BY <1>d, <1>e, <2>2 DEF Vacant
  <2>4. /\ free' = free \cup {x} /\ sessionId' = sessionId /\ joined' = joined /\ left' = left
        /\ acceptSlot' = acceptSlot /\ acceptPc' = acceptPc
    BY <1>19 DEF PushIndex, AfterLeave
  <2>5. Live' = Live \ {g}
    BY <2>4 DEF Live
  <2>6. Lifecycle!Recycle(g)
    BY <2>2, <2>3, <2>4, <2>5 DEF Lifecycle!Recycle
  <2>. QED  BY <2>3, <2>6
<1>20. ASSUME NEW w \in Workers, DecrementSessionCount(w) PROVE Refined
  BY <1>20, <1>c, SlotsAssumption DEF Live, DecrementSessionCount, AfterLeave
<1>21. ASSUME NEW c \in Callers, NEW k \in joined, FindSession(c, k) PROVE Refined
  BY <1>21, <1>c, SlotsAssumption DEF Live, FindSession
<1>22. ASSUME NEW c \in Callers, CompareHandle(c) PROVE Refined
  BY <1>22, <1>c, SlotsAssumption DEF Live, CompareHandle
<1>23. ASSUME NEW c \in Callers, UseSession(c) PROVE Refined
  BY <1>23, <1>c, SlotsAssumption DEF Live, UseSession
<1>24. ASSUME NEW c \in Callers, RequestDisconnect(c) PROVE Refined
  BY <1>24, <1>c, SlotsAssumption DEF Live, RequestDisconnect
<1>25. ASSUME NEW c \in Callers, CancelIo(c) PROVE Refined
  BY <1>25, <1>c, SlotsAssumption DEF Live, CancelIo
<1>26. ASSUME NEW t \in Threads, DecrementIOCount(t) PROVE Refined
  BY <1>26, <1>c, SlotsAssumption DEF Live, DecrementIOCount
<1>27. ASSUME NEW t \in Threads, ReleaseSession(t) PROVE Refined
  BY <1>27, <1>c, SlotsAssumption DEF Live, ReleaseSession
<1>28. ASSUME NEW t \in Threads, CloseSession(t) PROVE Refined
  BY <1>28, <1>c, SlotsAssumption DEF Live, CloseSession
<1>29. CASE UNCHANGED vars
  BY <1>29, <1>c, SlotsAssumption DEF Live, vars
<1>. QED
  BY <1>1, <1>2, <1>3, <1>4, <1>5, <1>6, <1>7, <1>8, <1>9, <1>10, <1>11, <1>12, <1>13, <1>14, <1>15, <1>16, <1>17, <1>18, <1>19, <1>20, <1>21, <1>22, <1>23, <1>24, <1>25, <1>26, <1>27, <1>28, <1>29
  DEF Next, Accept, Kernel, Dequeue, Handle, Operate, Return

\* The library implements the contract of SessionLifecycle: one connection per
\* handle, one handle per index, join once, leave once and after join, and the
\* index is reused only after leave.
THEOREM ImplementsLifecycle == ASSUME NoWrap PROVE Spec => LifecycleSpec
<1>1. Init => Lifecycle!Init
  BY DEF Init, Lifecycle!Init, Live
<1>. QED  BY InvariantHolds, LifecycleStep, <1>1, PTL DEF Spec, LifecycleSpec, Lifecycle!Spec
=============================================================================
