--------------------------- MODULE SendPathProofs ---------------------------
(***************************************************************************)
(* The safety properties of SendPath hold for every number of sessions,    *)
(* workers, senders and packets: the reference counts are exact, a send    *)
(* has one owner, and no packet is left in a queue with nobody to wake.    *)
(* Then, for packets: their reference counts are exact, and SendPath       *)
(* implements SendChannel.                                                 *)
(***************************************************************************)
EXTENDS SendPath, FiniteSetTheorems, SequenceTheorems, TLAPS

SenderLabels == {"idle", "find", "size", "full", "link", "count", "trypost", "return",
                 "close", "closefull", "disconnect"}
WorkerLabels == {"idle", "pop", "take", "undo", "transmit", "clear", "flag", "recheck",
                 "again", "dec", "close"}
Completions  == {"sendpost", "sent", "zero", "check"}

SenderOK(c) ==
    /\ pc[c] \in SenderLabels /\ slot[c] \in Slots \cup {NoSlot}
    /\ pc[c] \in {"idle", "find"} <=> slot[c] = NoSlot

\* A handler ends with the decrements its label says.
WorkerOK(w) ==
    /\ pc[w] \in WorkerLabels /\ slot[w] \in Slots \cup {NoSlot}
    /\ pc[w] = "idle" <=> slot[w] = NoSlot
    /\ pc[w] = "idle" => owes[w] = 0
    /\ pc[w] = "dec" => owes[w] \in {1, 2}
    /\ pc[w] \in {"pop", "take", "undo", "transmit"} => owes[w] \in {0, 1}
    /\ pc[w] \in {"clear", "flag", "recheck", "again", "close"} => owes[w] = 1

ThreadsOK ==
    /\ pc \in [Threads -> SenderLabels \cup WorkerLabels]
    /\ slot \in [Threads -> Slots \cup {NoSlot}]
    /\ owes \in [Workers -> 0..2]
    /\ \A c \in Senders : SenderOK(c)
    /\ \A w \in Workers : WorkerOK(w)

SessionsTyped ==
    /\ state \in [Slots -> {"free", "live", "closing"}]
    /\ refs \in [Slots -> Int]
    /\ receiving \in [Slots -> BOOLEAN]
    /\ isSending \in [Slots -> BOOLEAN]
    /\ size \in [Slots -> Int]
    /\ posted \in [Slots -> [Completions -> Nat]]

BuffersTyped ==
    /\ queue \in [Slots -> Seq(Nat)]
    /\ sendPackets \in [Slots -> Seq(Nat)]
    /\ inFlight \in [Slots -> Seq(Seq(Nat))]
    /\ batch \in [Workers -> Seq(Nat)]
    /\ packet \in [Senders -> Nat]
    /\ nextPacket \in Nat
    /\ todo \in [Senders -> SUBSET (Slots \X Nat)]

Typed == ThreadsOK /\ SessionsTyped /\ BuffersTyped

-----------------------------------------------------------------------------
(* The invariant, one session at a time. What it says about threads is     *)
(* said with the numbers of threads at certain labels.                     *)

TakeLabels == {"take", "undo"}
WakeLabels == {"count", "trypost", "recheck", "again"}
CloseLabels == {"close", "closefull"}

Posts(s) == posted[s]["sendpost"] + posted[s]["sent"] + posted[s]["zero"] + posted[s]["check"]

Holding(s)  == Cardinality(At(HoldLabels, s))
Sending(s)  == Cardinality(At(SendLabels, s))
Counting(s) == Cardinality(At({"count"}, s))
Taking(s)   == Cardinality(At(TakeLabels, s))
Waking(s)   == Cardinality(At(WakeLabels, s))
Closing(s)  == Cardinality(At(CloseLabels, s))

\* The references workers have still to return.
Works(s)   == {w \in Workers : slot[w] = s /\ pc[w] # "close"}
Debts(s)   == UNION {{w} \X (1..Returns(w)) : w \in Works(s)}
Owed(s)    == Cardinality(Debts(s))
Load(t, s) == IF t \in Workers /\ slot[t] = s /\ pc[t] # "close" THEN Returns(t) ELSE 0

CountsExact(s) ==
    IF state[s] = "live"
    THEN refs[s] = (IF receiving[s] THEN 1 ELSE 0) + Len(inFlight[s]) + Posts(s) + Holding(s) + Owed(s)
    ELSE /\ refs[s] = 0 /\ ~receiving[s] /\ inFlight[s] = <<>> /\ Posts(s) = 0
         /\ Holding(s) = 0 /\ Owed(s) = 0 /\ Sending(s) = 0

Tokens(s) == Len(inFlight[s]) + Posts(s) + Sending(s)

OneSender(s) ==
    /\ state[s] = "live" /\ isSending[s] => Tokens(s) = 1 \/ (Tokens(s) = 0 /\ sendPackets[s] # <<>>)
    /\ state[s] = "live" /\ ~isSending[s] => Tokens(s) = 0
    /\ inFlight[s] # <<>> \/ posted[s]["sent"] > 0 \/ posted[s]["zero"] > 0 => sendPackets[s] # <<>>

\* m_size lags behind the list by those who linked and have not counted, and
\* is ahead by those who counted and have not taken.
SizeLags(s) == size[s] = Len(queue[s]) - Counting(s) - Taking(s)

OneCloser(s) == Closing(s) = IF state[s] = "closing" THEN 1 ELSE 0

Woken(s) == state[s] = "live" /\ ~isSending[s] /\ queue[s] # <<>> => Waking(s) > 0

SessionInv(s) == CountsExact(s) /\ OneSender(s) /\ SizeLags(s) /\ OneCloser(s) /\ Woken(s)

IInv == Typed /\ \A s \in Slots : SessionInv(s)

-----------------------------------------------------------------------------
(* Counting threads and debts.                                             *)

B(p) == IF p THEN 1 ELSE 0

LEMMA ThreadSets ==
    ASSUME NEW S, S \subseteq Threads
    PROVE  /\ IsFiniteSet(S) /\ Cardinality(S) \in Nat
           /\ Cardinality(S) = 0 <=> S = {}
<1>1. IsFiniteSet(S)
  BY SendThreadsAssumption, FS_Subset
<1>. QED  BY <1>1, FS_CardinalityType, FS_EmptySet

\* What the numbers of threads have to do with each other.
LEMMA Counts ==
    ASSUME NEW s
    PROVE  /\ Holding(s) \in Nat /\ Sending(s) \in Nat /\ Counting(s) \in Nat
           /\ Taking(s) \in Nat /\ Waking(s) \in Nat /\ Closing(s) \in Nat
           /\ Counting(s) <= Holding(s) /\ Counting(s) <= Waking(s) /\ Taking(s) <= Sending(s)
<1>1. \A L : At(L, s) \subseteq Threads
  BY DEF At
<1>2. \A L : Cardinality(At(L, s)) \in Nat /\ IsFiniteSet(At(L, s))
  BY <1>1, ThreadSets
<1>3. /\ At({"count"}, s) \subseteq At(HoldLabels, s)
      /\ At({"count"}, s) \subseteq At(WakeLabels, s)
      /\ At(TakeLabels, s) \subseteq At(SendLabels, s)
  BY DEF At, HoldLabels, WakeLabels, TakeLabels, SendLabels
<1>4. /\ Cardinality(At({"count"}, s)) <= Cardinality(At(HoldLabels, s))
      /\ Cardinality(At({"count"}, s)) <= Cardinality(At(WakeLabels, s))
      /\ Cardinality(At(TakeLabels, s)) <= Cardinality(At(SendLabels, s))
  BY <1>2, <1>3, FS_Subset
<1>. QED  BY <1>2, <1>4 DEF Holding, Sending, Counting, Taking, Waking, Closing

\* Thread t moves, the others stay: how many threads are at the labels of L
\* in session s afterwards.
LEMMA OneMoves ==
    ASSUME NEW t \in Threads, NEW L, NEW s,
           \A u \in Threads \ {t} : pc'[u] = pc[u] /\ slot'[u] = slot[u]
    PROVE  Cardinality(At(L, s)') + B(slot[t] = s /\ pc[t] \in L)
             = Cardinality(At(L, s)) + B(slot'[t] = s /\ pc'[t] \in L)
<1>. DEFINE X == At(L, s) \ {t}
<1>1. X \subseteq Threads
  BY DEF At
<1>2. IsFiniteSet(X) /\ Cardinality(X) \in Nat
  BY <1>1, ThreadSets
<1>3. Cardinality(X \cup {t}) = Cardinality(X) + 1
  BY <1>2, FS_AddElement
<1>4. At(L, s) = IF slot[t] = s /\ pc[t] \in L THEN X \cup {t} ELSE X
  BY DEF At
<1>5. At(L, s)' = IF slot'[t] = s /\ pc'[t] \in L THEN X \cup {t} ELSE X
  BY DEF At
<1>. HIDE DEF X
<1>6. CASE slot[t] = s /\ pc[t] \in L
  BY <1>2, <1>3, <1>4, <1>5, <1>6, SMTT(30) DEF B
<1>7. CASE ~(slot[t] = s /\ pc[t] \in L)
  BY <1>2, <1>3, <1>4, <1>5, <1>7, SMTT(30) DEF B
<1>. QED  BY <1>6, <1>7

\* The debts of one thread are added to those of the others.
LEMMA AddDebts ==
    ASSUME NEW R, IsFiniteSet(R), NEW t, NEW n \in Nat, \A d \in R : d[1] # t
    PROVE  Cardinality(R \cup ({t} \X (1..n))) = Cardinality(R) + n
<1>. DEFINE T == {t} \X (1..n)
<1>1. IsFiniteSet(1..n) /\ Cardinality(1..n) = n
  BY FS_Interval
<1>2. IsFiniteSet({t}) /\ Cardinality({t}) = 1
  BY FS_Singleton
<1>3. IsFiniteSet(T) /\ Cardinality(T) = 1 * n
  BY <1>1, <1>2, FS_Product
<1>4. R \cap T = {}
  OBVIOUS
<1>5. Cardinality(R \cap T) = 0
  BY <1>4, FS_EmptySet
<1>6. Cardinality(R \cup T) = Cardinality(R) + Cardinality(T) - Cardinality(R \cap T)
  BY <1>3, FS_Union
<1>7. Cardinality(R) \in Nat
  BY FS_CardinalityType
<1>. HIDE DEF T
<1>8. Cardinality(R \cup T) = Cardinality(R) + n
  BY <1>3, <1>5, <1>6, <1>7
<1>. QED  BY <1>8 DEF T

LEMMA DebtsFinite == IsFiniteSet(Workers \X (1..3))
<1>1. IsFiniteSet(Workers)
  BY SendThreadsAssumption, FS_Subset DEF Threads
<1>2. \A n \in Nat : IsFiniteSet(1..n)
  BY FS_Interval
<1>3. IsFiniteSet(1..3)
  BY <1>2
<1>. QED  BY <1>1, <1>3, FS_Product

LEMMA OneOwes ==
    ASSUME ThreadsOK, ThreadsOK', NEW t \in Threads, NEW s \in Slots,
           \A u \in Threads \ {t} : pc'[u] = pc[u] /\ slot'[u] = slot[u],
           \A w \in Workers \ {t} : owes'[w] = owes[w]
    PROVE  /\ Owed(s) \in Nat /\ Owed(s)' \in Nat /\ Load(t, s) \in Nat /\ Load(t, s)' \in Nat
           /\ Owed(s)' + Load(t, s) = Owed(s) + Load(t, s)'
<1>. DEFINE Others == {w \in Workers \ {t} : slot[w] = s /\ pc[w] # "close"}
            R == UNION {{w} \X (1..Returns(w)) : w \in Others}
<1>1. \A w \in Workers : Returns(w) \in 0..3 /\ Returns(w)' \in 0..3
  BY DEF ThreadsOK, WorkerOK, WorkerLabels, Returns
<1>2. Load(t, s) \in Nat /\ Load(t, s)' \in Nat
  BY <1>1 DEF Load
<1>3. IsFiniteSet(R) /\ Cardinality(R) \in Nat /\ \A d \in R : d[1] # t
  <2>1. R \subseteq Workers \X (1..3)
    BY <1>1
  <2>2. IsFiniteSet(R)
    BY <2>1, DebtsFinite, FS_Subset
  <2>. QED  BY <2>2, FS_CardinalityType
<1>4. R' = R
  <2>1. Others' = Others
    BY DEF Threads
  <2>2. \A w \in Others : Returns(w)' = Returns(w)
    BY DEF Returns, Threads
  <2>. QED  BY <2>1, <2>2
<1>5. Debts(s) = R \cup ({t} \X (1..Load(t, s)))
  <2>1. Works(s) = IF t \in Workers /\ slot[t] = s /\ pc[t] # "close" THEN Others \cup {t} ELSE Others
    BY DEF Works
  <2>. QED  BY <2>1 DEF Debts, Load
<1>6. Debts(s)' = R' \cup ({t} \X (1..Load(t, s)'))
  <2>1. Works(s)' = IF t \in Workers /\ slot'[t] = s /\ pc'[t] # "close" THEN Others' \cup {t} ELSE Others'
    BY DEF Works
  <2>. QED  BY <2>1 DEF Debts, Load
<1>. HIDE DEF R
<1>. DEFINE m == Load(t, s)
            n == Load(t, s)'
<1>. HIDE DEF m, n
<1>7. /\ Cardinality(R \cup ({t} \X (1..m))) = Cardinality(R) + m
      /\ Cardinality(R \cup ({t} \X (1..n))) = Cardinality(R) + n
  <2>1. m \in Nat /\ n \in Nat
    BY <1>2 DEF m, n
  <2>2. Cardinality(R \cup ({t} \X (1..m))) = Cardinality(R) + m
    BY <1>3, <2>1, AddDebts, ZenonT(60)
  <2>3. Cardinality(R \cup ({t} \X (1..n))) = Cardinality(R) + n
    BY <1>3, <2>1, AddDebts, ZenonT(60)
  <2>. QED  BY <2>2, <2>3
<1>8. Owed(s) = Cardinality(R) + Load(t, s) /\ Owed(s)' = Cardinality(R) + Load(t, s)'
  BY <1>4, <1>5, <1>6, <1>7 DEF Owed, m, n
<1>. QED  BY <1>2, <1>3, <1>8

-----------------------------------------------------------------------------
(* What a step of one thread changes.                                      *)

\* Thread t of session s moves: the numbers of threads afterwards.
LEMMA Moves ==
    ASSUME ThreadsOK, ThreadsOK', NEW t \in Threads, NEW s \in Slots,
           \A u \in Threads \ {t} : pc'[u] = pc[u] /\ slot'[u] = slot[u],
           \A w \in Workers \ {t} : owes'[w] = owes[w]
    PROVE  /\ Holding(s)' = Holding(s) + B(slot'[t] = s /\ pc'[t] \in HoldLabels)
                                       - B(slot[t] = s /\ pc[t] \in HoldLabels)
           /\ Sending(s)' = Sending(s) + B(slot'[t] = s /\ pc'[t] \in SendLabels)
                                       - B(slot[t] = s /\ pc[t] \in SendLabels)
           /\ Counting(s)' = Counting(s) + B(slot'[t] = s /\ pc'[t] = "count")
                                         - B(slot[t] = s /\ pc[t] = "count")
           /\ Taking(s)' = Taking(s) + B(slot'[t] = s /\ pc'[t] \in TakeLabels)
                                     - B(slot[t] = s /\ pc[t] \in TakeLabels)
           /\ Waking(s)' = Waking(s) + B(slot'[t] = s /\ pc'[t] \in WakeLabels)
                                     - B(slot[t] = s /\ pc[t] \in WakeLabels)
           /\ Closing(s)' = Closing(s) + B(slot'[t] = s /\ pc'[t] \in CloseLabels)
                                       - B(slot[t] = s /\ pc[t] \in CloseLabels)
           /\ Owed(s)' = Owed(s) + Load(t, s)' - Load(t, s)
           /\ Owed(s) \in Nat /\ Owed(s)' \in Nat
<1>1. \A L : Cardinality(At(L, s)') \in Nat /\ Cardinality(At(L, s)) \in Nat
  <2>1. \A L : At(L, s) \subseteq Threads /\ At(L, s)' \subseteq Threads
    BY DEF At
  <2>. QED  BY <2>1, ThreadSets
<1>2. \A L : Cardinality(At(L, s)') + B(slot[t] = s /\ pc[t] \in L)
             = Cardinality(At(L, s)) + B(slot'[t] = s /\ pc'[t] \in L)
  BY OneMoves
<1>3. \A p : B(p) \in 0..1
  BY DEF B
<1>4. \A L : Cardinality(At(L, s)') = Cardinality(At(L, s)) + B(slot'[t] = s /\ pc'[t] \in L)
                                       - B(slot[t] = s /\ pc[t] \in L)
  <2>. SUFFICES ASSUME NEW L
                PROVE  Cardinality(At(L, s)') = Cardinality(At(L, s))
                         + B(slot'[t] = s /\ pc'[t] \in L) - B(slot[t] = s /\ pc[t] \in L)
    OBVIOUS
  <2>. DEFINE m == Cardinality(At(L, s))
              n == Cardinality(At(L, s)')
              a == B(slot'[t] = s /\ pc'[t] \in L)
              b == B(slot[t] = s /\ pc[t] \in L)
  <2>1. m \in Nat /\ n \in Nat /\ a \in 0..1 /\ b \in 0..1 /\ n + b = m + a
    BY <1>1, <1>2, <1>3
  <2>. HIDE DEF m, n, a, b
  <2>2. n = m + a - b
    BY <2>1
  <2>. QED  BY <2>2 DEF m, n, a, b
<1>5. /\ B(slot'[t] = s /\ pc'[t] = "count") = B(slot'[t] = s /\ pc'[t] \in {"count"})
      /\ B(slot[t] = s /\ pc[t] = "count") = B(slot[t] = s /\ pc[t] \in {"count"})
  BY DEF B
<1>6. /\ Owed(s)' = Owed(s) + Load(t, s)' - Load(t, s)
      /\ Owed(s) \in Nat /\ Owed(s)' \in Nat
  <2>1. /\ Owed(s) \in Nat /\ Owed(s)' \in Nat /\ Load(t, s) \in Nat /\ Load(t, s)' \in Nat
        /\ Owed(s)' + Load(t, s) = Owed(s) + Load(t, s)'
    BY OneOwes
  <2>. QED  BY <2>1
<1>. QED  BY <1>4, <1>5, <1>6 DEF Holding, Sending, Counting, Taking, Waking, Closing

\* Nothing happens in session s.
LEMMA Untouched ==
    ASSUME ThreadsOK, ThreadsOK', NEW s \in Slots, SessionInv(s),
           \A u \in Threads : slot[u] = s \/ slot'[u] = s => pc'[u] = pc[u] /\ slot'[u] = slot[u],
           \A w \in Workers : slot[w] = s => owes'[w] = owes[w],
           state'[s] = state[s], refs'[s] = refs[s], receiving'[s] = receiving[s],
           isSending'[s] = isSending[s], queue'[s] = queue[s], size'[s] = size[s],
           sendPackets'[s] = sendPackets[s], inFlight'[s] = inFlight[s], posted'[s] = posted[s]
    PROVE  SessionInv(s)'
<1>1. \A L : At(L, s)' = At(L, s)
  BY DEF At
<1>2. Debts(s)' = Debts(s)
  <2>1. Works(s)' = Works(s)
    BY DEF Works, Threads
  <2>2. \A w \in Works(s) : Returns(w)' = Returns(w)
    BY DEF Works, Returns, Threads
  <2>. QED  BY <2>1, <2>2 DEF Debts
<1>3. /\ Holding(s)' = Holding(s) /\ Sending(s)' = Sending(s) /\ Counting(s)' = Counting(s)
      /\ Taking(s)' = Taking(s) /\ Waking(s)' = Waking(s) /\ Closing(s)' = Closing(s)
      /\ Owed(s)' = Owed(s)
  BY <1>1, <1>2 DEF Holding, Sending, Counting, Taking, Waking, Closing, Owed
<1>4. Posts(s)' = Posts(s)
  BY DEF Posts
<1>. QED  BY <1>3, <1>4 DEF SessionInv, CountsExact, OneSender, Tokens, SizeLags, OneCloser, Woken

\* What session r owns stays as it is.
Same(r) ==
    /\ state'[r] = state[r] /\ refs'[r] = refs[r] /\ receiving'[r] = receiving[r]
    /\ isSending'[r] = isSending[r] /\ queue'[r] = queue[r] /\ size'[r] = size[r]
    /\ sendPackets'[r] = sendPackets[r] /\ inFlight'[r] = inFlight[r] /\ posted'[r] = posted[r]

\* A step of thread t in session s.
LEMMA OneSession ==
    ASSUME ThreadsOK, ThreadsOK', NEW t \in Threads, NEW s \in Slots,
           \A r \in Slots : SessionInv(r),
           \A u \in Threads \ {t} : pc'[u] = pc[u] /\ slot'[u] = slot[u],
           \A w \in Workers \ {t} : owes'[w] = owes[w],
           slot[t] \in {s, NoSlot}, slot'[t] \in {s, NoSlot},
           \A r \in Slots \ {s} : Same(r),
           SessionInv(s)'
    PROVE  \A r \in Slots : SessionInv(r)'
<1>1. ASSUME NEW r \in Slots \ {s} PROVE SessionInv(r)'
  <2>1. slot[t] # r /\ slot'[t] # r
    BY SendThreadsAssumption
  <2>2. \A u \in Threads : slot[u] = r \/ slot'[u] = r => pc'[u] = pc[u] /\ slot'[u] = slot[u]
    BY <2>1
  <2>3. \A w \in Workers : slot[w] = r => owes'[w] = owes[w]
    BY <2>1
  <2>4. Same(r)
    OBVIOUS
  <2>. QED  BY <2>2, <2>3, <2>4, Untouched DEF Same
<1>. QED  BY <1>1

\* A step of no thread in session s.
LEMMA NoThread ==
    ASSUME ThreadsOK, ThreadsOK', NEW s \in Slots, \A r \in Slots : SessionInv(r),
           UNCHANGED <<pc, slot, owes>>, \A r \in Slots \ {s} : Same(r),
           SessionInv(s)'
    PROVE  \A r \in Slots : SessionInv(r)'
<1>1. ASSUME NEW r \in Slots \ {s} PROVE SessionInv(r)'
  <2>1. Same(r)
    OBVIOUS
  <2>. QED  BY <2>1, Untouched DEF Same
<1>. QED  BY <1>1

LEMMA NoThreadCounts ==
    ASSUME UNCHANGED <<pc, slot, owes>>, NEW s
    PROVE  /\ Holding(s)' = Holding(s) /\ Sending(s)' = Sending(s) /\ Counting(s)' = Counting(s)
           /\ Taking(s)' = Taking(s) /\ Waking(s)' = Waking(s) /\ Closing(s)' = Closing(s)
           /\ Owed(s)' = Owed(s)
BY DEF Holding, Sending, Counting, Taking, Waking, Closing, Owed, At, Debts, Works, Returns

-----------------------------------------------------------------------------
(* What the invariant says about a thread in a session.                    *)

LEMMA ThreadFacts ==
    /\ Workers \subseteq Threads /\ Senders \subseteq Threads /\ Workers \cap Senders = {}
    /\ NoSlot \notin Slots
BY SendThreadsAssumption DEF Threads

\* A thread counts among those at its label.
LEMMA Present ==
    ASSUME ThreadsOK, NEW t \in Threads, NEW s, slot[t] = s
    PROVE  /\ pc[t] \in HoldLabels => Holding(s) >= 1
           /\ pc[t] \in SendLabels => Sending(s) >= 1
           /\ pc[t] \in TakeLabels => Taking(s) >= 1
           /\ pc[t] = "count" => Counting(s) >= 1
           /\ pc[t] \in WakeLabels => Waking(s) >= 1
           /\ pc[t] \in CloseLabels => Closing(s) >= 1
           /\ t \in Workers /\ pc[t] # "close" => Owed(s) >= Returns(t)
<1>1. \A L : pc[t] \in L => Cardinality(At(L, s)) \in Nat /\ Cardinality(At(L, s)) >= 1
  <2>. SUFFICES ASSUME NEW L, pc[t] \in L
                PROVE  Cardinality(At(L, s)) \in Nat /\ Cardinality(At(L, s)) >= 1
    OBVIOUS
  <2>1. At(L, s) \subseteq Threads /\ At(L, s) # {}
    BY DEF At
  <2>2. Cardinality(At(L, s)) \in Nat /\ Cardinality(At(L, s)) # 0
    BY <2>1, ThreadSets
  <2>. QED  BY <2>2
<1>2. ASSUME t \in Workers, pc[t] # "close"
      PROVE  Owed(s) >= Returns(t)
  <2>1. \A w \in Workers : Returns(w) \in 0..3
    BY DEF ThreadsOK, WorkerOK, WorkerLabels, Returns
  <2>2. {t} \X (1..Returns(t)) \subseteq Debts(s) /\ Debts(s) \subseteq Workers \X (1..3)
    BY <1>2, <2>1 DEF Debts, Works
  <2>3. IsFiniteSet(Debts(s))
    BY <2>2, DebtsFinite, FS_Subset
  <2>4. Cardinality({t} \X (1..Returns(t))) <= Owed(s)
    BY <2>2, <2>3, FS_Subset DEF Owed
  <2>. DEFINE n == Returns(t)
  <2>. HIDE DEF n
  <2>5. Cardinality({} \cup ({t} \X (1..n))) = Cardinality({}) + n
    <3>1. n \in Nat
      BY <1>2, <2>1 DEF n
    <3>2. IsFiniteSet({})
      BY FS_EmptySet
    <3>. QED  BY <3>1, <3>2, AddDebts
  <2>6. Cardinality({}) = 0 /\ {} \cup ({t} \X (1..n)) = {t} \X (1..n)
    BY FS_EmptySet
  <2>7. n \in Nat
    BY <1>2, <2>1 DEF n
  <2>. QED  BY <2>4, <2>5, <2>6, <2>7 DEF n
<1>. QED  BY <1>1, <1>2 DEF Holding, Sending, Taking, Counting, Waking, Closing

\* Who has a reference has a live session; who closes one, a closing one.
LEMMA Referenced ==
    ASSUME IInv
    PROVE  /\ \A c \in Senders : pc[c] \in HoldLabels => slot[c] \in Slots /\ state[slot[c]] = "live"
           /\ \A w \in Workers : pc[w] # "idle" =>
                /\ slot[w] \in Slots
                /\ pc[w] # "close" => state[slot[w]] = "live" /\ refs[slot[w]] >= Returns(w)
           /\ \A t \in Threads : pc[t] \in CloseLabels =>
                slot[t] \in Slots /\ state[slot[t]] = "closing" /\ Closing(slot[t]) = 1
           /\ \A s \in Slots : receiving[s] \/ inFlight[s] # <<>> \/ Posts(s) # 0 => state[s] = "live"
<1>1. ASSUME NEW s \in Slots
      PROVE  /\ Posts(s) \in Nat /\ Len(inFlight[s]) \in Nat
             /\ Holding(s) \in Nat /\ Owed(s) \in Nat
             /\ state[s] = "live" => refs[s] >= Owed(s)
  <2>1. Posts(s) \in Nat /\ Len(inFlight[s]) \in Nat
    BY DEF IInv, Typed, SessionsTyped, BuffersTyped, Posts, Completions
  <2>2. Holding(s) \in Nat
    BY Counts
  <2>3. Owed(s) \in Nat
    <3>1. \A w \in Workers : Returns(w) \in 0..3
      BY DEF IInv, Typed, ThreadsOK, WorkerOK, WorkerLabels, Returns
    <3>2. Debts(s) \subseteq Workers \X (1..3)
      BY <3>1 DEF Debts, Works
    <3>3. IsFiniteSet(Debts(s))
      BY <3>2, DebtsFinite, FS_Subset
    <3>. QED  BY <3>3, FS_CardinalityType DEF Owed
  <2>4. state[s] = "live" => refs[s] >= Owed(s)
    <3>. DEFINE r == IF receiving[s] THEN 1 ELSE 0
                m == Len(inFlight[s])
    <3>1. r \in Nat /\ m \in Nat
      BY <2>1
    <3>2. CountsExact(s)
      BY DEF IInv, SessionInv
    <3>3. state[s] = "live" => refs[s] = r + m + Posts(s) + Holding(s) + Owed(s)
      BY <3>2 DEF CountsExact
    <3>. HIDE DEF r, m
    <3>. QED  BY <2>1, <2>2, <2>3, <3>1, <3>3
  <2>. QED  BY <2>1, <2>2, <2>3, <2>4
<1>2. ASSUME NEW c \in Senders, pc[c] \in HoldLabels
      PROVE  slot[c] \in Slots /\ state[slot[c]] = "live"
  <2>1. slot[c] \in Slots
    BY <1>2 DEF IInv, Typed, ThreadsOK, SenderOK, SenderLabels, HoldLabels
  <2>2. Holding(slot[c]) >= 1
    BY <1>2, Present, ThreadFacts DEF IInv, Typed
  <2>3. CountsExact(slot[c])
    BY <2>1 DEF IInv, SessionInv
  <2>4. Holding(slot[c]) # 0
    BY <2>2
  <2>. QED  BY <2>1, <2>3, <2>4 DEF CountsExact
<1>3. ASSUME NEW w \in Workers, pc[w] # "idle"
      PROVE  /\ slot[w] \in Slots
             /\ pc[w] # "close" => state[slot[w]] = "live" /\ refs[slot[w]] >= Returns(w)
  <2>1. slot[w] \in Slots /\ Returns(w) \in 0..3 /\ (pc[w] # "close" => Returns(w) >= 1)
    BY <1>3 DEF IInv, Typed, ThreadsOK, WorkerOK, WorkerLabels, Returns
  <2>2. pc[w] # "close" => Owed(slot[w]) >= Returns(w)
    BY <1>3, Present, ThreadFacts DEF IInv, Typed
  <2>3. CountsExact(slot[w])
    BY <2>1 DEF IInv, SessionInv
  <2>4. Owed(slot[w]) \in Nat /\ (state[slot[w]] = "live" => refs[slot[w]] >= Owed(slot[w]))
        /\ refs[slot[w]] \in Int
    BY <1>1, <2>1 DEF IInv, Typed, SessionsTyped
  <2>5. pc[w] # "close" => Owed(slot[w]) # 0
    BY <2>1, <2>2, <2>4
  <2>6. pc[w] # "close" => state[slot[w]] = "live"
    BY <2>3, <2>5 DEF CountsExact
  <2>. QED  BY <2>1, <2>2, <2>4, <2>6
<1>4. ASSUME NEW t \in Threads, pc[t] \in CloseLabels
      PROVE  slot[t] \in Slots /\ state[slot[t]] = "closing" /\ Closing(slot[t]) = 1
  <2>1. slot[t] \in Slots
    BY <1>4, ThreadFacts DEF IInv, Typed, ThreadsOK, SenderOK, WorkerOK, CloseLabels, Threads
  <2>2. Closing(slot[t]) >= 1
    BY <1>4, Present DEF IInv, Typed
  <2>3. OneCloser(slot[t])
    BY <2>1 DEF IInv, SessionInv
  <2>4. Closing(slot[t]) # 0
    BY <2>2
  <2>. QED  BY <2>1, <2>3, <2>4 DEF OneCloser
<1>5. ASSUME NEW s \in Slots, receiving[s] \/ inFlight[s] # <<>> \/ Posts(s) # 0
      PROVE  state[s] = "live"
  BY <1>5 DEF IInv, SessionInv, CountsExact
<1>. QED  BY <1>2, <1>3, <1>4, <1>5

-----------------------------------------------------------------------------
(* Type correctness.                                                       *)

\* What a thread at work has.
LEMMA Busy ==
    ASSUME ThreadsOK
    PROVE  /\ \A c \in Senders : pc[c] \notin {"idle", "find"} => slot[c] \in Slots
           /\ \A w \in Workers : pc[w] # "idle" => slot[w] \in Slots
           /\ pc \in [Threads -> SenderLabels \cup WorkerLabels]
           /\ slot \in [Threads -> Slots \cup {NoSlot}]
           /\ owes \in [Workers -> 0..2]
BY DEF ThreadsOK, SenderOK, WorkerOK

LEMMA SeqFacts ==
    ASSUME NEW q \in Seq(Nat), NEW n \in Nat
    PROVE  /\ Append(q, n) \in Seq(Nat) /\ Len(Append(q, n)) = Len(q) + 1 /\ Append(q, n) # <<>>
           /\ q # <<>> => /\ Head(q) \in Nat /\ Tail(q) \in Seq(Nat) /\ Len(Tail(q)) = Len(q) - 1
           /\ Len(q) \in Nat /\ (q = <<>> <=> Len(q) = 0)
OBVIOUS

LEMMA AnySeqFacts ==
    ASSUME NEW S, NEW f \in Seq(S), NEW q \in S
    PROVE  /\ Append(f, q) \in Seq(S) /\ Len(Append(f, q)) = Len(f) + 1 /\ Append(f, q) # <<>>
           /\ f # <<>> => /\ Head(f) \in S /\ Tail(f) \in Seq(S) /\ Len(Tail(f)) = Len(f) - 1
           /\ Len(f) \in Nat /\ (f = <<>> <=> Len(f) = 0)
<1>1. Append(f, q) \in Seq(S) /\ Len(Append(f, q)) = Len(f) + 1
  OBVIOUS
<1>2. Len(f) \in Nat /\ (f = <<>> <=> Len(f) = 0)
  OBVIOUS
<1>3. Append(f, q) # <<>>
  <2>1. Len(Append(f, q)) # 0
    BY <1>1, <1>2
  <2>2. Len(<<>>) = 0
    OBVIOUS
  <2>. QED  BY <2>1, <2>2
<1>4. ASSUME f # <<>> PROVE Head(f) \in S /\ Tail(f) \in Seq(S) /\ Len(Tail(f)) = Len(f) - 1
  BY <1>4
<1>. QED  BY <1>1, <1>2, <1>3, <1>4

LEMMA BatchFacts ==
    ASSUME NEW f \in Seq(Seq(Nat)), NEW q \in Seq(Nat)
    PROVE  /\ Append(f, q) \in Seq(Seq(Nat)) /\ Len(Append(f, q)) = Len(f) + 1 /\ Append(f, q) # <<>>
           /\ f # <<>> => /\ Head(f) \in Seq(Nat) /\ Tail(f) \in Seq(Seq(Nat)) /\ Len(Tail(f)) = Len(f) - 1
           /\ Len(f) \in Nat /\ (f = <<>> <=> Len(f) = 0)
<1>. DEFINE Batches == Seq(Nat)
<1>1. f \in Seq(Batches) /\ q \in Batches
  OBVIOUS
<1>. HIDE DEF Batches
<1>2. /\ Append(f, q) \in Seq(Batches) /\ Len(Append(f, q)) = Len(f) + 1 /\ Append(f, q) # <<>>
      /\ f # <<>> => /\ Head(f) \in Batches /\ Tail(f) \in Seq(Batches) /\ Len(Tail(f)) = Len(f) - 1
      /\ Len(f) \in Nat /\ (f = <<>> <=> Len(f) = 0)
  BY <1>1, AnySeqFacts
<1>. QED  BY <1>2 DEF Batches

\* A sender that is done with a packet or a target has no session any more.
LEMMA ServedOK ==
    ASSUME ThreadsOK, NEW c \in Senders, NEW from, Served(c, from), owes' = owes
    PROVE  ThreadsOK'
<1>. DEFINE target == IF todo'[c] = {} THEN "idle" ELSE "find"
<1>1. target \in {"idle", "find"}
  OBVIOUS
<1>2. pc' = [pc EXCEPT ![c] = target] /\ slot' = [slot EXCEPT ![c] = NoSlot]
  BY DEF Served, Step
<1>. HIDE DEF target
<1>3. c \in Threads /\ c \notin Workers /\ NoSlot \notin Slots
  BY ThreadFacts
<1>4. /\ pc' \in [Threads -> SenderLabels \cup WorkerLabels]
      /\ slot' \in [Threads -> Slots \cup {NoSlot}]
  BY <1>1, <1>2 DEF ThreadsOK, SenderLabels
<1>5. \A w \in Workers : WorkerOK(w)'
  BY <1>2, <1>3, ThreadFacts DEF ThreadsOK, WorkerOK
<1>6. \A d \in Senders : SenderOK(d)'
  BY <1>1, <1>2, <1>3, ThreadFacts DEF ThreadsOK, SenderOK, SenderLabels
<1>. QED  BY <1>4, <1>5, <1>6 DEF ThreadsOK

\* So has a worker whose completion is handled.
LEMMA FinishOK ==
    ASSUME ThreadsOK, NEW w \in Workers, NEW from, NEW n \in {0, 1, 2}, Finish(w, from, n),
           slot[w] \in Slots
    PROVE  ThreadsOK'
<1>. DEFINE target == IF n = 0 THEN "idle" ELSE "dec"
<1>1. (target = "idle" /\ n = 0) \/ (target = "dec" /\ n \in {1, 2})
  OBVIOUS
<1>2. /\ pc' = [pc EXCEPT ![w] = target] /\ owes' = [owes EXCEPT ![w] = n]
      /\ slot' = IF n = 0 THEN [slot EXCEPT ![w] = NoSlot] ELSE slot
  BY DEF Finish, Step
<1>. HIDE DEF target
<1>3. w \in Threads /\ w \notin Senders /\ NoSlot \notin Slots
  BY ThreadFacts
<1>4. /\ pc' \in [Threads -> SenderLabels \cup WorkerLabels]
      /\ slot' \in [Threads -> Slots \cup {NoSlot}]
      /\ owes' \in [Workers -> 0..2]
  <2>1. target \in WorkerLabels /\ n \in 0..2
    BY <1>1 DEF WorkerLabels
  <2>2. pc' \in [Threads -> SenderLabels \cup WorkerLabels]
    BY <1>2, <2>1 DEF ThreadsOK
  <2>3. slot' \in [Threads -> Slots \cup {NoSlot}]
    BY <1>2 DEF ThreadsOK
  <2>4. owes' \in [Workers -> 0..2]
    BY <1>2, <2>1 DEF ThreadsOK
  <2>. QED  BY <2>2, <2>3, <2>4
<1>5. \A x \in Workers : WorkerOK(x)'
  BY <1>1, <1>2, <1>3, ThreadFacts DEF ThreadsOK, WorkerOK, WorkerLabels
<1>6. \A d \in Senders : SenderOK(d)'
  BY <1>2, <1>3, ThreadFacts DEF ThreadsOK, SenderOK
<1>. QED  BY <1>4, <1>5, <1>6 DEF ThreadsOK

\* A queue whose count is right is emptied altogether.
LEMMA EmptiedAll ==
    ASSUME BuffersTyped, SessionsTyped, NEW s \in Slots, size[s] = Len(queue[s]), Emptied(s)
    PROVE  /\ queue' = [queue EXCEPT ![s] = <<>>]
           /\ size' = [size EXCEPT ![s] = 0]
           /\ sendPackets' = [sendPackets EXCEPT ![s] = <<>>]
<1>. DEFINE n == Cardinality({i \in DOMAIN queue[s] : i <= size[s]})
            l == Len(queue[s])
<1>1. queue[s] \in Seq(Nat) /\ l \in Nat
  BY DEF BuffersTyped
<1>2. {i \in DOMAIN queue[s] : i <= size[s]} = 1..l
  BY <1>1
<1>3. \A k \in Nat : Cardinality(1..k) = k
  BY FS_Interval
<1>4. n = l
  BY <1>1, <1>2, <1>3
<1>. HIDE DEF n
<1>5. /\ queue' = [queue EXCEPT ![s] = SubSeq(@, n + 1, Len(@))]
      /\ size' = [size EXCEPT ![s] = @ - n]
      /\ sendPackets' = [sendPackets EXCEPT ![s] = <<>>]
  BY DEF Emptied, n
<1>6. SubSeq(queue[s], n + 1, Len(queue[s])) = <<>>
  BY <1>1, <1>4
<1>7. size[s] - n = 0
  BY <1>1, <1>4
<1>. QED  BY <1>5, <1>6, <1>7 DEF BuffersTyped, SessionsTyped

\* Whoever empties a session finds its count right.
LEMMA NobodyAtQueue ==
    ASSUME IInv, NEW s \in Slots, state[s] # "live"
    PROVE  size[s] = Len(queue[s]) /\ Counting(s) = 0 /\ Taking(s) = 0
<1>1. Counting(s) = 0 /\ Taking(s) = 0
  <2>1. Holding(s) = 0 /\ Sending(s) = 0
    BY DEF IInv, SessionInv, CountsExact
  <2>. QED  BY <2>1, Counts
<1>2. queue[s] \in Seq(Nat)
  BY DEF IInv, Typed, BuffersTyped
<1>. QED  BY <1>1, <1>2 DEF IInv, SessionInv, SizeLags

LEMMA PostTyped ==
    ASSUME SessionsTyped, NEW s \in Slots, NEW k \in Completions
    PROVE  /\ Post(s, k) => posted' \in [Slots -> [Completions -> Nat]]
           /\ Taken(s, k) /\ posted[s][k] > 0 => posted' \in [Slots -> [Completions -> Nat]]
BY SMTT(30) DEF SessionsTyped, Post, Taken, Completions

LEMMA ServedTyped ==
    ASSUME BuffersTyped, NEW c \in Senders, NEW from, Served(c, from) \/ packet' = packet
    PROVE  packet' \in [Senders -> Nat]
<1>1. [packet EXCEPT ![c] = NoPacket] \in [Senders -> Nat]
  BY DEF BuffersTyped, NoPacket
<1>. QED  BY <1>1 DEF Served, BuffersTyped

LEMMA ReleasedTyped ==
    ASSUME SessionsTyped, NEW s \in Slots, Released(s)
    PROVE  refs' \in [Slots -> Int] /\ state' \in [Slots -> {"free", "live", "closing"}]
BY DEF SessionsTyped, Released

LEMMA TypeStep == IInv /\ [Next]_vars => Typed'
<1>. SUFFICES ASSUME IInv, [Next]_vars PROVE Typed'
  OBVIOUS
<1>a. Typed /\ ThreadsOK /\ SessionsTyped /\ BuffersTyped
  BY DEF IInv, Typed
<1>b. /\ \A c \in Senders : pc[c] \notin {"idle", "find"} => slot[c] \in Slots
      /\ \A w \in Workers : pc[w] # "idle" => slot[w] \in Slots
      /\ pc \in [Threads -> SenderLabels \cup WorkerLabels]
      /\ slot \in [Threads -> Slots \cup {NoSlot}]
      /\ owes \in [Workers -> 0..2]
      /\ NoSlot \notin Slots /\ Workers \subseteq Threads /\ Senders \subseteq Threads
      /\ Workers \cap Senders = {}
  BY <1>a, Busy, ThreadFacts
<1>. USE DEF lifeVars, bufferVars, ioVars, packetVars, callVars, workVars
<1>1. ASSUME NEW s \in Slots, Connect(s) PROVE Typed'
  <2>1. ThreadsOK'
    BY <1>1, <1>a DEF Connect, ThreadsOK, SenderOK, WorkerOK
  <2>2. /\ queue' = [queue EXCEPT ![s] = <<>>] /\ size' = [size EXCEPT ![s] = 0]
        /\ sendPackets' = [sendPackets EXCEPT ![s] = <<>>]
    BY <1>1, <1>a, NobodyAtQueue, EmptiedAll DEF Connect
  <2>3. <<>> \in Seq(Nat)
    OBVIOUS
  <2>. QED  BY <1>1, <1>a, <2>1, <2>2, <2>3 DEF Connect, Typed, SessionsTyped, BuffersTyped
<1>2. ASSUME NEW s \in Slots, KernelSends(s) \/ KernelFails(s) PROVE Typed'
  <2>1. ThreadsOK'
    BY <1>2, <1>a DEF KernelSends, KernelFails, ThreadsOK, SenderOK, WorkerOK
  <2>2. inFlight' \in [Slots -> Seq(Seq(Nat))]
    BY <1>2, <1>a, BatchFacts DEF KernelSends, KernelFails, BuffersTyped
  <2>3. posted' \in [Slots -> [Completions -> Nat]]
    BY <1>2, <1>a, PostTyped DEF KernelSends, KernelFails, Completions
  <2>. QED  BY <1>2, <1>a, <2>1, <2>2, <2>3 DEF KernelSends, KernelFails, Typed, SessionsTyped, BuffersTyped
<1>3. ASSUME NEW c \in Senders, NEW h \in Handles, SendPacket(c, h) PROVE Typed'
  <2>1. ThreadsOK'
    BY <1>3, <1>a, <1>b DEF SendPacket, Step, ThreadsOK, SenderOK, WorkerOK, SenderLabels
  <2>2. h \in Slots \X Nat
    BY SendBoundsAssumption DEF Handles
  <2>. QED  BY <1>3, <1>a, <2>1, <2>2 DEF SendPacket, Typed, SessionsTyped, BuffersTyped
<1>4. ASSUME NEW c \in Senders, NEW hs \in SUBSET Handles, SendPacketMulticast(c, hs) PROVE Typed'
  <2>1. ThreadsOK'
    BY <1>4, <1>a, <1>b DEF SendPacketMulticast, Step, ThreadsOK, SenderOK, WorkerOK, SenderLabels
  <2>2. hs \subseteq Slots \X Nat
    BY SendBoundsAssumption DEF Handles
  <2>. QED  BY <1>4, <1>a, <2>1, <2>2, SMTT(30)
               DEF SendPacketMulticast, Allocate, Typed, SessionsTyped, BuffersTyped
<1>5. ASSUME NEW c \in Senders, NEW h \in todo[c], FindSession(c, h) PROVE Typed'
  <2>0. todo' \in [Senders -> SUBSET (Slots \X Nat)]
    BY <1>5, <1>a DEF FindSession, BuffersTyped
  <2>1. h[1] \in Slots
    BY <1>5, <1>a DEF BuffersTyped
  <2>2. CASE Found(h)
    <3>1. ThreadsOK'
      BY <1>5, <1>a, <1>b, <2>1, <2>2 DEF FindSession, Step, ThreadsOK, SenderOK, WorkerOK, SenderLabels
    <3>2. refs' \in [Slots -> Int]
      BY <1>5, <1>a, <2>1, <2>2 DEF FindSession, SessionsTyped
    <3>3. packet' = packet
      BY <1>5, <2>2 DEF FindSession
    <3>. QED  BY <1>5, <1>a, <2>0, <3>1, <3>2, <3>3 DEF FindSession, Typed, SessionsTyped, BuffersTyped
  <2>3. CASE ~Found(h)
    <3>1. ThreadsOK'
      BY <1>5, <1>a, <2>3, ServedOK DEF FindSession
    <3>2. packet' \in [Senders -> Nat]
      BY <1>5, <1>a, <2>3, ServedTyped DEF FindSession
    <3>. QED  BY <1>5, <1>a, <2>0, <2>3, <3>1, <3>2 DEF FindSession, Served, Typed, SessionsTyped, BuffersTyped
  <2>. QED  BY <2>2, <2>3
<1>6. ASSUME NEW c \in Senders, CheckSize(c) PROVE Typed'
  <2>1. ThreadsOK'
    BY <1>6, <1>a, <1>b DEF CheckSize, Step, ThreadsOK, SenderOK, WorkerOK, SenderLabels
  <2>2. packet' \in [Senders -> Nat] /\ nextPacket' \in Nat
    <3>1. Allocate(c, 1, {handle[c]}) \/ UNCHANGED <<nextPacket, packet>>
      BY <1>6 DEF CheckSize
    <3>. QED  BY <1>a, <3>1 DEF Allocate, BuffersTyped
  <2>. QED  BY <1>6, <1>a, <2>1, <2>2 DEF CheckSize, Typed, SessionsTyped, BuffersTyped
<1>7. ASSUME NEW c \in Senders, EnqueueLink(c) PROVE Typed'
  <2>1. ThreadsOK'
    BY <1>7, <1>a, <1>b DEF EnqueueLink, Step, ThreadsOK, SenderOK, WorkerOK, SenderLabels
  <2>2. queue' \in [Slots -> Seq(Nat)]
    BY <1>7, <1>a, <1>b, SeqFacts DEF EnqueueLink, Step, BuffersTyped
  <2>. QED  BY <1>7, <1>a, <2>1, <2>2 DEF EnqueueLink, Typed, SessionsTyped, BuffersTyped
<1>8. ASSUME NEW c \in Senders, EnqueueCount(c) PROVE Typed'
  <2>1. ThreadsOK'
    BY <1>8, <1>a, <1>b DEF EnqueueCount, Step, ThreadsOK, SenderOK, WorkerOK, SenderLabels
  <2>2. slot[c] \in Slots
    BY <1>8, <1>b DEF EnqueueCount, Step
  <2>. QED  BY <1>8, <1>a, <2>1, <2>2, SMTT(30) DEF EnqueueCount, Typed, SessionsTyped, BuffersTyped
<1>9. ASSUME NEW c \in Senders, TrySendPost(c) PROVE Typed'
  <2>1. ThreadsOK'
    BY <1>9, <1>a, <1>b DEF TrySendPost, Step, ThreadsOK, SenderOK, WorkerOK, SenderLabels
  <2>2. posted' \in [Slots -> [Completions -> Nat]]
    BY <1>9, <1>a, <1>b, PostTyped DEF TrySendPost, Step, Completions, SessionsTyped
  <2>3. slot[c] \in Slots
    BY <1>9, <1>b DEF TrySendPost, Step
  <2>4. refs' \in [Slots -> Int] /\ isSending' \in [Slots -> BOOLEAN]
    <3>1. CASE UNCHANGED <<isSending, refs>>
      BY <1>a, <3>1 DEF SessionsTyped
    <3>2. CASE isSending' = [isSending EXCEPT ![slot[c]] = TRUE] /\ refs' = [refs EXCEPT ![slot[c]] = @ + 1]
      BY <1>a, <2>3, <3>2 DEF SessionsTyped
    <3>. QED  BY <1>9, <3>1, <3>2 DEF TrySendPost
  <2>. QED  BY <1>9, <1>a, <2>1, <2>2, <2>4 DEF TrySendPost, Typed, SessionsTyped, BuffersTyped
<1>10. ASSUME NEW c \in Senders, ReturnSession(c) PROVE Typed'
  <2>1. ThreadsOK'
    <3>1. CASE state'[slot[c]] = "closing"
      BY <1>10, <1>a, <1>b, <3>1 DEF ReturnSession, Step, ThreadsOK, SenderOK, WorkerOK, SenderLabels
    <3>2. CASE state'[slot[c]] # "closing"
      BY <1>10, <1>a, <3>2, ServedOK DEF ReturnSession
    <3>. QED  BY <3>1, <3>2
  <2>2. packet' \in [Senders -> Nat]
    BY <1>10, <1>a, ServedTyped DEF ReturnSession
  <2>3. slot[c] \in Slots
    BY <1>10, <1>b DEF ReturnSession
  <2>4. refs' \in [Slots -> Int] /\ state' \in [Slots -> {"free", "live", "closing"}]
    BY <1>10, <1>a, <2>3, ReleasedTyped DEF ReturnSession
  <2>. QED  BY <1>10, <1>a, <2>1, <2>2, <2>4 DEF ReturnSession, Typed, SessionsTyped, BuffersTyped
<1>11. ASSUME NEW c \in Senders, ReturnFull(c) PROVE Typed'
  <2>1. ThreadsOK'
    BY <1>11, <1>a, <1>b DEF ReturnFull, Step, ThreadsOK, SenderOK, WorkerOK, SenderLabels
  <2>2. slot[c] \in Slots
    BY <1>11, <1>b DEF ReturnFull
  <2>3. refs' \in [Slots -> Int] /\ state' \in [Slots -> {"free", "live", "closing"}]
    BY <1>11, <1>a, <2>2, ReleasedTyped DEF ReturnFull
  <2>. QED  BY <1>11, <1>a, <2>1, <2>3 DEF ReturnFull, Typed, SessionsTyped, BuffersTyped
<1>12. ASSUME NEW c \in Senders, Disconnect(c) PROVE Typed'
  <2>1. ThreadsOK'
    BY <1>12, <1>a, ServedOK DEF Disconnect
  <2>2. packet' \in [Senders -> Nat]
    BY <1>12, <1>a, ServedTyped DEF Disconnect
  <2>3. slot[c] \in Slots
    BY <1>12, <1>b DEF Disconnect, Served, Step
  <2>4. posted' \in [Slots -> [Completions -> Nat]]
    BY <1>12, <1>a, <2>3, PostTyped DEF Disconnect, Completions, SessionsTyped
  <2>5. inFlight' \in [Slots -> Seq(Seq(Nat))]
    BY <1>12, <1>a, <2>3, BatchFacts DEF Disconnect, BuffersTyped
  <2>. QED  BY <1>12, <1>a, <2>1, <2>2, <2>4, <2>5 DEF Disconnect, Typed, SessionsTyped, BuffersTyped
<1>13. ASSUME NEW w \in Workers, NEW s \in Slots, GetSendPost(w, s) PROVE Typed'
  <2>1. ThreadsOK'
    BY <1>13, <1>a, <1>b DEF GetSendPost, Handle, Step, ThreadsOK, SenderOK, WorkerOK, WorkerLabels
  <2>2. posted' \in [Slots -> [Completions -> Nat]]
    BY <1>13, <1>a, PostTyped DEF GetSendPost, Completions
  <2>. QED  BY <1>13, <1>a, <2>1, <2>2 DEF GetSendPost, Typed, SessionsTyped, BuffersTyped
<1>14. ASSUME NEW w \in Workers, NEW s \in Slots, NEW kind \in Kinds, GetSendCompletion(w, s, kind)
       PROVE  Typed'
  <2>1. ThreadsOK'
    <3>. DEFINE label == CASE kind = "sent" -> "clear" [] kind = "check" -> "flag" [] kind = "zero" -> "dec"
    <3>1. label \in {"clear", "flag", "dec"}
      BY DEF Kinds
    <3>2. Handle(w, s, label, 1)
      BY <1>14 DEF GetSendCompletion
    <3>. HIDE DEF label
    <3>. QED  BY <1>a, <1>b, <3>1, <3>2 DEF Handle, Step, ThreadsOK, SenderOK, WorkerOK, WorkerLabels
  <2>2. posted' \in [Slots -> [Completions -> Nat]]
    BY <1>14, <1>a, PostTyped DEF GetSendCompletion, Completions, Kinds
  <2>. QED  BY <1>14, <1>a, <2>1, <2>2 DEF GetSendCompletion, Typed, SessionsTyped, BuffersTyped
<1>15. ASSUME NEW w \in Workers, NEW s \in Slots, GetRecv(w, s) PROVE Typed'
  <2>1. ThreadsOK'
    BY <1>15, <1>a, <1>b DEF GetRecv, Handle, Step, ThreadsOK, SenderOK, WorkerOK, WorkerLabels
  <2>. QED  BY <1>15, <1>a, <2>1 DEF GetRecv, Typed, SessionsTyped, BuffersTyped
<1>16. ASSUME NEW w \in Workers, ClearSendPackets(w) PROVE Typed'
  <2>1. ThreadsOK'
    BY <1>16, <1>a, <1>b DEF ClearSendPackets, Step, ThreadsOK, SenderOK, WorkerOK, WorkerLabels
  <2>2. <<>> \in Seq(Nat)
    OBVIOUS
  <2>. QED  BY <1>16, <1>a, <2>1, <2>2 DEF ClearSendPackets, Typed, SessionsTyped, BuffersTyped
<1>17. ASSUME NEW w \in Workers, ClearIsSending(w) PROVE Typed'
  <2>1. ThreadsOK'
    BY <1>17, <1>a, <1>b DEF ClearIsSending, Step, ThreadsOK, SenderOK, WorkerOK, WorkerLabels
  <2>. QED  BY <1>17, <1>a, <2>1 DEF ClearIsSending, Typed, SessionsTyped, BuffersTyped
<1>18. ASSUME NEW w \in Workers, RecheckSize(w) PROVE Typed'
  <2>1. ThreadsOK'
    BY <1>18, <1>a, <1>b DEF RecheckSize, Step, ThreadsOK, SenderOK, WorkerOK, WorkerLabels
  <2>. QED  BY <1>18, <1>a, <2>1 DEF RecheckSize, Typed, SessionsTyped, BuffersTyped
<1>19. ASSUME NEW w \in Workers, TrySendPostInCompletion(w) PROVE Typed'
  <2>1. ThreadsOK'
    BY <1>19, <1>a, <1>b DEF TrySendPostInCompletion, Step, ThreadsOK, SenderOK, WorkerOK, WorkerLabels
  <2>2. slot[w] \in Slots
    BY <1>19, <1>b DEF TrySendPostInCompletion
  <2>3. refs' \in [Slots -> Int] /\ isSending' \in [Slots -> BOOLEAN]
    <3>1. CASE UNCHANGED <<isSending, refs>>
      BY <1>a, <3>1 DEF SessionsTyped
    <3>2. CASE isSending' = [isSending EXCEPT ![slot[w]] = TRUE] /\ refs' = [refs EXCEPT ![slot[w]] = @ + 1]
      BY <1>a, <2>2, <3>2 DEF SessionsTyped
    <3>. QED  BY <1>19, <3>1, <3>2 DEF TrySendPostInCompletion
  <2>. QED  BY <1>19, <1>a, <2>1, <2>3 DEF TrySendPostInCompletion, Typed, SessionsTyped, BuffersTyped
<1>20. ASSUME NEW w \in Workers, DequeueCount(w) \/ DequeueFails(w) PROVE Typed'
  <2>1. ThreadsOK'
    BY <1>20, <1>a, <1>b DEF DequeueCount, DequeueFails, Step, ThreadsOK, SenderOK, WorkerOK, WorkerLabels
  <2>. QED  BY <1>20, <1>a, <2>1, SMTT(30)
               DEF DequeueCount, DequeueFails, Typed, SessionsTyped, BuffersTyped
<1>21. ASSUME NEW w \in Workers, DequeueTake(w) PROVE Typed'
  <2>1. ThreadsOK'
    BY <1>21, <1>a, <1>b DEF DequeueTake, Step, ThreadsOK, SenderOK, WorkerOK, WorkerLabels
  <2>2. slot[w] \in Slots
    BY <1>21, <1>b DEF DequeueTake
  <2>3. /\ queue' \in [Slots -> Seq(Nat)]
        /\ batch' \in [Workers -> Seq(Nat)]
    BY <1>21, <1>a, <2>2, SeqFacts DEF DequeueTake, BuffersTyped
  <2>. QED  BY <1>21, <1>a, <2>1, <2>3 DEF DequeueTake, Typed, SessionsTyped, BuffersTyped
<1>22. ASSUME NEW w \in Workers, PostSendingCheck(w) PROVE Typed'
  <2>1. ThreadsOK'
    BY <1>22, <1>a, <1>b DEF PostSendingCheck, Finish, Step, ThreadsOK, SenderOK, WorkerOK, WorkerLabels
  <2>2. posted' \in [Slots -> [Completions -> Nat]]
    BY <1>22, <1>a, <1>b, PostTyped DEF PostSendingCheck, Finish, Step, Completions
  <2>. QED  BY <1>22, <1>a, <2>1, <2>2 DEF PostSendingCheck, Typed, SessionsTyped, BuffersTyped
<1>23. ASSUME NEW w \in Workers, NEW accepted \in BOOLEAN, WSASend(w, accepted) PROVE Typed'
  <2>1. ThreadsOK'
    BY <1>23, <1>a, <1>b DEF WSASend, Finish, Step, ThreadsOK, SenderOK, WorkerOK, WorkerLabels
  <2>2. slot[w] \in Slots /\ batch[w] \in Seq(Nat) /\ <<>> \in Seq(Nat)
    BY <1>23, <1>a, <1>b DEF WSASend, Finish, Step, BuffersTyped
  <2>3. inFlight' \in [Slots -> Seq(Seq(Nat))]
    BY <1>23, <1>a, <2>2, BatchFacts DEF WSASend, BuffersTyped
  <2>. QED  BY <1>23, <1>a, <2>1, <2>2, <2>3 DEF WSASend, Typed, SessionsTyped, BuffersTyped
<1>24. ASSUME NEW w \in Workers, DecrementIOCount(w) PROVE Typed'
  <2>1. slot[w] \in Slots /\ state[slot[w]] = "live" /\ refs[slot[w]] >= owes[w] /\ owes[w] \in {1, 2}
    BY <1>24, <1>a, Referenced DEF DecrementIOCount, Returns, ThreadsOK, WorkerOK
  <2>2. ThreadsOK'
    <3>1. CASE state'[slot[w]] = "closing"
      <4>1. refs[slot[w]] = 1
        BY <1>24, <2>1, <3>1 DEF DecrementIOCount, Released
      <4>2. owes[w] = 1
        BY <2>1, <4>1
      <4>. QED  BY <1>24, <1>a, <1>b, <3>1, <4>2
                DEF DecrementIOCount, Step, ThreadsOK, SenderOK, WorkerOK, WorkerLabels
    <3>2. CASE state'[slot[w]] # "closing"
      BY <1>24, <1>a, <1>b, <2>1, <3>2
         DEF DecrementIOCount, Finish, Step, ThreadsOK, SenderOK, WorkerOK, WorkerLabels
    <3>. QED  BY <3>1, <3>2
  <2>3. refs' \in [Slots -> Int] /\ state' \in [Slots -> {"free", "live", "closing"}]
    BY <1>24, <1>a, <2>1, ReleasedTyped DEF DecrementIOCount
  <2>. QED  BY <1>24, <1>a, <2>2, <2>3 DEF DecrementIOCount, Typed, SessionsTyped, BuffersTyped
<1>25. ASSUME NEW t \in Threads, CloseSession(t) PROVE Typed'
  <2>1. slot[t] \in Slots /\ state[slot[t]] = "closing"
    BY <1>25, Referenced DEF CloseSession, CloseLabels
  <2>2. ThreadsOK'
    <3>1. CASE t \in Workers
      <4>1. owes[t] - 1 \in {0, 1, 2}
        BY <1>25, <1>a, <1>b, <3>1 DEF CloseSession, Finish, Step, ThreadsOK, WorkerOK
      <4>. QED  BY <1>25, <1>a, <2>1, <3>1, <4>1, FinishOK DEF CloseSession
    <3>2. CASE t \in Senders /\ pc[t] = "close"
      BY <1>25, <1>a, <1>b, <3>2, ServedOK DEF CloseSession
    <3>3. CASE t \in Senders /\ pc[t] = "closefull"
      BY <1>25, <1>a, <1>b, <2>1, <3>3
         DEF CloseSession, Step, ThreadsOK, SenderOK, WorkerOK, SenderLabels
    <3>4. t \in Workers \/ (t \in Senders /\ (pc[t] = "close" \/ pc[t] = "closefull"))
      BY <1>25 DEF CloseSession, Threads
    <3>. QED  BY <3>1, <3>2, <3>3, <3>4
  <2>3. /\ queue' = [queue EXCEPT ![slot[t]] = <<>>] /\ size' = [size EXCEPT ![slot[t]] = 0]
        /\ sendPackets' = [sendPackets EXCEPT ![slot[t]] = <<>>]
    BY <1>25, <1>a, <2>1, NobodyAtQueue, EmptiedAll DEF CloseSession
  <2>4. packet' \in [Senders -> Nat]
    <3>1. CASE t \in Workers
      BY <1>25, <1>a, <3>1 DEF CloseSession, BuffersTyped
    <3>2. CASE t \in Senders
      BY <1>25, <1>a, <1>b, <3>2, ServedTyped DEF CloseSession
    <3>. QED  BY <3>1, <3>2 DEF Threads
  <2>5. <<>> \in Seq(Nat)
    OBVIOUS
  <2>6. todo' = todo
    BY <1>25 DEF CloseSession
  <2>. QED  BY <1>25, <1>a, <2>1, <2>2, <2>3, <2>4, <2>5, <2>6 DEF CloseSession, Typed, SessionsTyped, BuffersTyped
<1>26. CASE UNCHANGED vars
  BY <1>26, <1>a DEF vars, Typed, ThreadsOK, SenderOK, WorkerOK, SessionsTyped, BuffersTyped
<1>. QED
  BY <1>1, <1>2, <1>3, <1>4, <1>5, <1>6, <1>7, <1>8, <1>9, <1>10, <1>11, <1>12, <1>13, <1>14, <1>15,
     <1>16, <1>17, <1>18, <1>19, <1>20, <1>21, <1>22, <1>23, <1>24, <1>25, <1>26
  DEF Next, Send, FindsNext, Work

-----------------------------------------------------------------------------
(* The senders' steps.                                                     *)

LEMMA Numbers ==
    ASSUME Typed, NEW s \in Slots
    PROVE  /\ Holding(s) \in Nat /\ Sending(s) \in Nat /\ Counting(s) \in Nat /\ Taking(s) \in Nat
           /\ Waking(s) \in Nat /\ Closing(s) \in Nat /\ Owed(s) \in Nat
           /\ Counting(s) <= Holding(s) /\ Counting(s) <= Waking(s) /\ Taking(s) <= Sending(s)
           /\ refs[s] \in Int /\ size[s] \in Int /\ receiving[s] \in BOOLEAN /\ isSending[s] \in BOOLEAN
           /\ queue[s] \in Seq(Nat) /\ sendPackets[s] \in Seq(Nat) /\ inFlight[s] \in Seq(Seq(Nat))
           /\ Len(inFlight[s]) \in Nat /\ Len(queue[s]) \in Nat
           /\ \A k \in Completions : posted[s][k] \in Nat
           /\ Posts(s) \in Nat
           /\ Owed(s) = 0 => Sending(s) = 0
<1>1. Owed(s) \in Nat
  <2>1. \A w \in Workers : Returns(w) \in 0..3
    BY DEF Typed, ThreadsOK, WorkerOK, WorkerLabels, Returns
  <2>2. Debts(s) \subseteq Workers \X (1..3)
    BY <2>1 DEF Debts, Works
  <2>3. IsFiniteSet(Debts(s))
    BY <2>2, DebtsFinite, FS_Subset
  <2>. QED  BY <2>3, FS_CardinalityType DEF Owed
<1>2. /\ refs[s] \in Int /\ size[s] \in Int /\ receiving[s] \in BOOLEAN /\ isSending[s] \in BOOLEAN
      /\ \A k \in Completions : posted[s][k] \in Nat
  BY DEF Typed, SessionsTyped
<1>3. queue[s] \in Seq(Nat) /\ sendPackets[s] \in Seq(Nat) /\ inFlight[s] \in Seq(Seq(Nat))
  BY DEF Typed, BuffersTyped
<1>4. Posts(s) \in Nat
  BY <1>2 DEF Posts, Completions
<1>5. ASSUME Sending(s) # 0 PROVE Owed(s) # 0
  <2>1. At(SendLabels, s) \subseteq Threads /\ At(SendLabels, s) # {}
    BY <1>5, FS_EmptySet DEF At, Sending
  <2>2. PICK w \in Threads : slot[w] = s /\ pc[w] \in SendLabels
    BY <2>1 DEF At
  <2>3. w \in Workers
    BY <2>2, ThreadFacts DEF Typed, ThreadsOK, SenderOK, SenderLabels, SendLabels, Threads
  <2>4. Returns(w) \in Nat /\ Returns(w) >= 1 /\ pc[w] # "close"
    BY <2>2, <2>3 DEF Typed, ThreadsOK, WorkerOK, WorkerLabels, Returns, SendLabels
  <2>5. Owed(s) >= Returns(w)
    BY <2>2, <2>3, <2>4, Present DEF Typed
  <2>. QED  BY <1>1, <2>4, <2>5
<1>. QED  BY <1>1, <1>2, <1>3, <1>4, <1>5, Counts

\* The same after a step.
Numbered ==
    \A s \in Slots :
        /\ Holding(s) \in Nat /\ Sending(s) \in Nat /\ Counting(s) \in Nat /\ Taking(s) \in Nat
        /\ Waking(s) \in Nat /\ Closing(s) \in Nat /\ Owed(s) \in Nat /\ Posts(s) \in Nat
        /\ Len(inFlight[s]) \in Nat /\ Len(queue[s]) \in Nat /\ refs[s] \in Int /\ size[s] \in Int
        /\ Counting(s) <= Waking(s)
        /\ Owed(s) = 0 => Sending(s) = 0

LEMMA NumbersNow == Typed => Numbered
BY Numbers DEF Numbered

LEMMA NumbersNext == Typed' => Numbered'
BY NumbersNow, PTL

LEMMA SenderStep ==
    ASSUME IInv, Typed', NEW c \in Senders, NEW s \in Slots, owes' = owes,
           \A u \in Threads \ {c} : pc'[u] = pc[u] /\ slot'[u] = slot[u],
           slot[c] \in {s, NoSlot}, slot'[c] \in {s, NoSlot},
           \A r \in Slots \ {s} : Same(r),
           SessionInv(s)'
    PROVE  \A r \in Slots : SessionInv(r)'
<1>1. c \in Threads
  BY ThreadFacts
<1>. QED  BY <1>1, OneSession DEF IInv, Typed

LEMMA SenderCounts ==
    ASSUME IInv, Typed', NEW c \in Senders, NEW s \in Slots, owes' = owes,
           \A u \in Threads \ {c} : pc'[u] = pc[u] /\ slot'[u] = slot[u]
    PROVE  /\ Holding(s)' = Holding(s) + B(slot'[c] = s /\ pc'[c] \in HoldLabels)
                                       - B(slot[c] = s /\ pc[c] \in HoldLabels)
           /\ Counting(s)' = Counting(s) + B(slot'[c] = s /\ pc'[c] = "count")
                                         - B(slot[c] = s /\ pc[c] = "count")
           /\ Waking(s)' = Waking(s) + B(slot'[c] = s /\ pc'[c] \in WakeLabels)
                                     - B(slot[c] = s /\ pc[c] \in WakeLabels)
           /\ Closing(s)' = Closing(s) + B(slot'[c] = s /\ pc'[c] \in CloseLabels)
                                       - B(slot[c] = s /\ pc[c] \in CloseLabels)
           /\ Sending(s)' = Sending(s) /\ Taking(s)' = Taking(s) /\ Owed(s)' = Owed(s)
<1>1. c \in Threads /\ c \notin Workers
  BY ThreadFacts
<1>2. Load(c, s) = 0 /\ Load(c, s)' = 0
  BY <1>1 DEF Load
<1>3. /\ pc[c] \notin SendLabels /\ pc'[c] \notin SendLabels
      /\ pc[c] \notin TakeLabels /\ pc'[c] \notin TakeLabels
  BY DEF IInv, Typed, ThreadsOK, SenderOK, SenderLabels, SendLabels, TakeLabels
<1>4. ThreadsOK /\ ThreadsOK' /\ Sending(s) \in Nat /\ Taking(s) \in Nat /\ Owed(s) \in Nat
  BY Numbers DEF IInv, Typed
<1>5. /\ Sending(s)' = Sending(s)
      /\ Taking(s)' = Taking(s)
      /\ Owed(s)' = Owed(s)
  <2>1. /\ Sending(s)' = Sending(s) + B(slot'[c] = s /\ pc'[c] \in SendLabels)
                                    - B(slot[c] = s /\ pc[c] \in SendLabels)
        /\ Taking(s)' = Taking(s) + B(slot'[c] = s /\ pc'[c] \in TakeLabels)
                                  - B(slot[c] = s /\ pc[c] \in TakeLabels)
        /\ Owed(s)' = Owed(s) + Load(c, s)' - Load(c, s)
    BY <1>1, <1>4, Moves
  <2>2. /\ B(slot'[c] = s /\ pc'[c] \in SendLabels) = 0 /\ B(slot[c] = s /\ pc[c] \in SendLabels) = 0
        /\ B(slot'[c] = s /\ pc'[c] \in TakeLabels) = 0 /\ B(slot[c] = s /\ pc[c] \in TakeLabels) = 0
    BY <1>3 DEF B
  <2>. QED  BY <1>2, <1>4, <2>1, <2>2
<1>. QED  BY <1>1, <1>4, <1>5, Moves

Rcv(s) == IF receiving[s] THEN 1 ELSE 0

\* The three equations of SessionInv, as relations of numbers.
Sum(n, r, m, p, h, o) == n = r + m + p + h + o
Lag(n, q, c, t)       == n = q - c - t
Total(m, p, k)        == m + p + k

\* The same after a step: with names of their own the lemmas apply once.
NewSum(n, r, m, p, h, o) == n = r + m + p + h + o
NewLag(n, q, c, t)       == n = q - c - t
NewTotal(m, p, k)        == m + p + k

\* What a step may exchange.
LEMMA SumMoves ==
    ASSUME NEW n \in Int, NEW r \in Nat, NEW m \in Nat, NEW p \in Nat, NEW h \in Nat, NEW o \in Nat,
           Sum(n, r, m, p, h, o)
    PROVE  /\ NewSum(n + 1, r, m, p, h + 1, o)
           /\ NewSum(n + 1, r, m, p + 1, h, o)
           /\ NewSum(n + 1, r, m, p, h, o + 1)
           /\ NewSum(n, r, m - 1, p + 1, h, o)
           /\ NewSum(n, r, m, p - 1, h, o + 1)
           /\ NewSum(n, r, m, p + 1, h, o - 1)
           /\ NewSum(n, r, m + 1, p, h, o - 1)
           /\ r = 1 => NewSum(n, 0, m, p, h, o + 1)
BY DEF Sum, NewSum

LEMMA LagMoves ==
    ASSUME NEW n \in Int, NEW q \in Nat, NEW c \in Nat, NEW t \in Nat, Lag(n, q, c, t)
    PROVE  /\ NewLag(n, q + 1, c + 1, t)
           /\ NewLag(n + 1, q, c - 1, t)
           /\ NewLag(n - 1, q, c, t + 1)
           /\ NewLag(n + 1, q, c, t - 1)
           /\ NewLag(n, q - 1, c, t - 1)
BY DEF Lag, NewLag

LEMMA OneLess ==
    ASSUME NEW m \in Nat, NEW p \in Nat, NEW k \in Nat
    PROVE  NewTotal(m, p - 1, k) = Total(m, p, k) - 1
BY DEF Total, NewTotal

LEMMA TotalMoves ==
    ASSUME NEW m \in Nat, NEW p \in Nat, NEW k \in Nat
    PROVE  /\ Total(m, p, k) \in Nat
           /\ Total(m, p, k) = 0 <=> m = 0 /\ p = 0 /\ k = 0
           /\ Total(m, p, k) = 1 /\ k > 0 => m = 0 /\ p = 0 /\ k = 1
           /\ Total(m, p, k) = 1 /\ p > 0 => m = 0 /\ p = 1 /\ k = 0
           /\ NewTotal(m, p, k) = Total(m, p, k)
           /\ NewTotal(m, p + 1, k) = Total(m, p, k) + 1
           /\ NewTotal(m, p, k + 1) = Total(m, p, k) + 1
           /\ NewTotal(m - 1, p + 1, k) = Total(m, p, k)
           /\ NewTotal(m, p - 1, k + 1) = Total(m, p, k)
           /\ NewTotal(m, p + 1, k - 1) = Total(m, p, k)
           /\ NewTotal(m + 1, p, k - 1) = Total(m, p, k)
           /\ NewTotal(m, p, k - 1) = Total(m, p, k) - 1
           /\ NewTotal(m, p - 1, k) = Total(m, p, k) - 1
BY DEF Total, NewTotal

LEMMA TokensTotal ==
    ASSUME NEW s
    PROVE  /\ Tokens(s) = Total(Len(inFlight[s]), Posts(s), Sending(s))
           /\ Tokens(s)' = NewTotal(Len(inFlight'[s]), Posts(s)', Sending(s)')
BY DEF Tokens, Total, NewTotal

LEMMA TokensNow ==
    ASSUME Typed, NEW s \in Slots
    PROVE  /\ Tokens(s) \in Nat
           /\ Tokens(s) = 0 => inFlight[s] = <<>> /\ Posts(s) = 0 /\ Sending(s) = 0
           /\ Tokens(s) = 1 /\ Sending(s) > 0 => inFlight[s] = <<>> /\ Posts(s) = 0 /\ Sending(s) = 1
<1>1. Len(inFlight[s]) \in Nat /\ Posts(s) \in Nat /\ Sending(s) \in Nat
  BY Numbers
<1>2. Len(inFlight[s]) = 0 <=> inFlight[s] = <<>>
  BY BatchFacts DEF Typed, BuffersTyped
<1>3. Tokens(s) = Total(Len(inFlight[s]), Posts(s), Sending(s))
  BY TokensTotal
<1>. DEFINE m == Len(inFlight[s])
            p == Posts(s)
            k == Sending(s)
<1>. HIDE DEF m, p, k
<1>4. /\ Total(m, p, k) \in Nat
      /\ Total(m, p, k) = 0 => m = 0 /\ p = 0 /\ k = 0
      /\ Total(m, p, k) = 1 /\ k > 0 => m = 0 /\ p = 0 /\ k = 1
  BY <1>1 DEF m, p, k, Total
<1>. QED  BY <1>2, <1>3, <1>4 DEF m, p, k

\* What the invariant says of a live session.
LEMMA LiveNow ==
    ASSUME IInv, NEW s \in Slots, state[s] = "live"
    PROVE  /\ Sum(refs[s], Rcv(s), Len(inFlight[s]), Posts(s), Holding(s), Owed(s))
           /\ Lag(size[s], Len(queue[s]), Counting(s), Taking(s))
           /\ Closing(s) = 0 /\ OneSender(s) /\ Woken(s)
           /\ Rcv(s) \in Nat /\ (Rcv(s) = 0 <=> ~receiving[s])
           /\ Holding(s) \in Nat /\ Sending(s) \in Nat /\ Counting(s) \in Nat /\ Taking(s) \in Nat
           /\ Waking(s) \in Nat /\ Closing(s) \in Nat /\ Owed(s) \in Nat /\ Posts(s) \in Nat
           /\ Len(inFlight[s]) \in Nat /\ Len(queue[s]) \in Nat /\ refs[s] \in Int /\ size[s] \in Int
           /\ Len(inFlight[s]) = 0 <=> inFlight[s] = <<>>
<1>1. CountsExact(s) /\ SizeLags(s) /\ OneCloser(s) /\ OneSender(s) /\ Woken(s)
  BY DEF IInv, SessionInv
<1>2. Rcv(s) \in Nat /\ (Rcv(s) = 0 <=> ~receiving[s])
  BY DEF Rcv
<1>3. Len(inFlight[s]) = 0 <=> inFlight[s] = <<>>
  BY BatchFacts DEF IInv, Typed, BuffersTyped
<1>4. Sum(refs[s], Rcv(s), Len(inFlight[s]), Posts(s), Holding(s), Owed(s))
  BY <1>1 DEF CountsExact, Sum, Rcv
<1>5. Lag(size[s], Len(queue[s]), Counting(s), Taking(s)) /\ Closing(s) = 0
  BY <1>1 DEF SizeLags, Lag, OneCloser
<1>6. /\ Holding(s) \in Nat /\ Sending(s) \in Nat /\ Counting(s) \in Nat /\ Taking(s) \in Nat
      /\ Waking(s) \in Nat /\ Closing(s) \in Nat /\ Owed(s) \in Nat /\ Posts(s) \in Nat
      /\ Len(inFlight[s]) \in Nat /\ Len(queue[s]) \in Nat /\ refs[s] \in Int /\ size[s] \in Int
  BY Numbers DEF IInv
<1>. QED  BY <1>1, <1>2, <1>3, <1>4, <1>5, <1>6

\* And what has to be shown of one.
LEMMA LiveNext ==
    ASSUME NEW s, state'[s] = "live",
           NewSum(refs'[s], Rcv(s)', Len(inFlight'[s]), Posts(s)', Holding(s)', Owed(s)'),
           NewLag(size'[s], Len(queue'[s]), Counting(s)', Taking(s)'),
           Closing(s)' = 0, OneSender(s)', Woken(s)'
    PROVE  SessionInv(s)'
<1>1. CountsExact(s)'
  BY DEF CountsExact, NewSum, Rcv
<1>2. SizeLags(s)' /\ OneCloser(s)'
  BY DEF SizeLags, NewLag, OneCloser
<1>. QED  BY <1>1, <1>2 DEF SessionInv

\* One reference fewer, a holder's or a worker's.
Fewer(h, o, k, l) == k + l + 1 = h + o

LEMMA LastOne ==
    ASSUME NEW n \in Int, NEW r \in Nat, NEW m \in Nat, NEW p \in Nat, NEW h \in Nat, NEW o \in Nat,
           NEW k \in Nat, NEW l \in Nat, Sum(n, r, m, p, h, o), Fewer(h, o, k, l)
    PROVE  /\ n = 1 => r = 0 /\ m = 0 /\ p = 0 /\ k = 0 /\ l = 0
           /\ NewSum(n - 1, r, m, p, k, l)
BY DEF Sum, NewSum, Fewer

LEMMA FewerMoves ==
    ASSUME NEW h \in Nat, NEW o \in Nat
    PROVE  Fewer(h, o, h - 1, o) /\ Fewer(h, o, h, o - 1)
BY DEF Fewer

\* Whoever returns a reference leaves the session consistent: the last one
\* closes it.
LEMMA ReleasedInv ==
    ASSUME IInv, Typed', NEW s \in Slots, state[s] = "live", Released(s),
           Fewer(Holding(s), Owed(s), Holding(s)', Owed(s)'),
           Closing(s)' = IF refs[s] = 1 THEN 1 ELSE 0,
           Sending(s)' = Sending(s), Counting(s)' = Counting(s), Taking(s)' = Taking(s),
           Waking(s)' = Waking(s),
           UNCHANGED <<receiving, isSending, queue, size, sendPackets, inFlight, posted>>
    PROVE  SessionInv(s)'
<1>1. /\ Sum(refs[s], Rcv(s), Len(inFlight[s]), Posts(s), Holding(s), Owed(s))
      /\ Lag(size[s], Len(queue[s]), Counting(s), Taking(s)) /\ OneSender(s) /\ Woken(s)
      /\ Rcv(s) \in Nat /\ (Rcv(s) = 0 <=> ~receiving[s])
      /\ Holding(s) \in Nat /\ Owed(s) \in Nat /\ Posts(s) \in Nat /\ refs[s] \in Int
      /\ Len(inFlight[s]) \in Nat /\ (Len(inFlight[s]) = 0 <=> inFlight[s] = <<>>)
  BY LiveNow
<1>2. refs'[s] = refs[s] - 1 /\ state'[s] = IF refs[s] = 1 THEN "closing" ELSE "live"
  BY DEF Released, IInv, Typed, SessionsTyped
<1>3. /\ Holding(s)' \in Nat /\ Owed(s)' \in Nat
      /\ Owed(s)' = 0 => Sending(s)' = 0
  BY NumbersNext DEF Numbered
<1>4. Posts(s)' = Posts(s) /\ Rcv(s)' = Rcv(s)
  BY DEF Posts, Rcv
<1>5. /\ refs[s] = 1 => Rcv(s) = 0 /\ Len(inFlight[s]) = 0 /\ Posts(s) = 0
                          /\ Holding(s)' = 0 /\ Owed(s)' = 0
      /\ NewSum(refs[s] - 1, Rcv(s), Len(inFlight[s]), Posts(s), Holding(s)', Owed(s)')
  <2>. DEFINE n == refs[s]
              r == Rcv(s)
              m == Len(inFlight[s])
              p == Posts(s)
              h == Holding(s)
              o == Owed(s)
              k == Holding(s)'
              l == Owed(s)'
  <2>1. /\ n \in Int /\ r \in Nat /\ m \in Nat /\ p \in Nat /\ h \in Nat /\ o \in Nat
        /\ k \in Nat /\ l \in Nat
    BY <1>1, <1>3
  <2>2. Sum(n, r, m, p, h, o) /\ Fewer(h, o, k, l)
    BY <1>1
  <2>. HIDE DEF n, r, m, p, h, o, k, l
  <2>3. NewSum(n - 1, r, m, p, k, l)
    BY <2>1, <2>2, LastOne
  <2>4. n = 1 => r = 0 /\ m = 0 /\ p = 0 /\ k = 0 /\ l = 0
    BY <2>1, <2>2, LastOne
  <2>. QED  BY <2>3, <2>4 DEF n, r, m, p, h, o, k, l
<1>6. CASE refs[s] = 1
  <2>1. /\ Sending(s)' = 0 /\ state'[s] = "closing" /\ ~receiving'[s] /\ inFlight'[s] = <<>>
        /\ Posts(s)' = 0 /\ Holding(s)' = 0 /\ Owed(s)' = 0 /\ refs'[s] = 0
    BY <1>1, <1>2, <1>3, <1>4, <1>5, <1>6
  <2>2. CountsExact(s)'
    BY <2>1 DEF CountsExact
  <2>3. posted'[s] = posted[s] /\ inFlight'[s] = inFlight[s] /\ sendPackets'[s] = sendPackets[s]
    OBVIOUS
  <2>4. OneSender(s)' /\ OneCloser(s)' /\ Woken(s)'
    BY <1>1, <1>6, <2>1, <2>3 DEF OneSender, OneCloser, Woken
  <2>5. SizeLags(s)'
    BY <1>1 DEF SizeLags, Lag
  <2>. QED  BY <2>2, <2>4, <2>5 DEF SessionInv
<1>7. CASE refs[s] # 1
  <2>1. NewSum(refs'[s], Rcv(s)', Len(inFlight'[s]), Posts(s)', Holding(s)', Owed(s)')
    BY <1>2, <1>4, <1>5
  <2>2. Tokens(s)' = Tokens(s)
    BY <1>4 DEF Tokens
  <2>3. OneSender(s)' /\ Woken(s)'
    BY <1>1, <1>2, <1>7, <2>2 DEF OneSender, Woken
  <2>4. NewLag(size'[s], Len(queue'[s]), Counting(s)', Taking(s)') /\ state'[s] = "live" /\ Closing(s)' = 0
    BY <1>1, <1>2, <1>7 DEF Lag, NewLag
  <2>. QED  BY <2>1, <2>3, <2>4, LiveNext
<1>. QED  BY <1>6, <1>7

LEMMA EnqueueLinkStep ==
    ASSUME IInv, Typed', NEW c \in Senders, EnqueueLink(c)
    PROVE  \A r \in Slots : SessionInv(r)'
<1>1. PICK s \in Slots : slot[c] = s
  BY Busy DEF EnqueueLink, Step, IInv, Typed
<1>2. /\ pc[c] = "link" /\ pc'[c] = "count" /\ slot'[c] = s /\ owes' = owes
      /\ \A u \in Threads \ {c} : pc'[u] = pc[u] /\ slot'[u] = slot[u]
  BY <1>1, ThreadFacts, Busy DEF EnqueueLink, Step, IInv, Typed, workVars
<1>3. /\ Holding(s)' = Holding(s) + 1 - 1
      /\ Counting(s)' = Counting(s) + 1 - 0 /\ Waking(s)' = Waking(s) + 1 - 0
      /\ Closing(s)' = Closing(s) + 0 - 0
      /\ Sending(s)' = Sending(s) /\ Taking(s)' = Taking(s) /\ Owed(s)' = Owed(s)
  BY <1>1, <1>2, SenderCounts DEF B, HoldLabels, WakeLabels, CloseLabels
<1>4. /\ Same(s) \/ queue' = [queue EXCEPT ![s] = Append(@, packet[c])]
      /\ UNCHANGED <<state, refs, receiving, isSending, size, sendPackets, inFlight, posted>>
  BY <1>1, <1>2 DEF EnqueueLink, lifeVars, ioVars
<1>5. queue' = [queue EXCEPT ![s] = Append(@, packet[c])]
  BY <1>1 DEF EnqueueLink
<1>6. queue[s] \in Seq(Nat) /\ packet[c] \in Nat /\ queue \in [Slots -> Seq(Nat)]
  BY DEF IInv, Typed, BuffersTyped
<1>7. queue'[s] # <<>> /\ Len(queue'[s]) = Len(queue[s]) + 1
  BY <1>5, <1>6, SeqFacts
<1>8. Posts(s)' = Posts(s)
  BY <1>4 DEF Posts
<1>9. /\ CountsExact(s) /\ OneSender(s) /\ SizeLags(s) /\ OneCloser(s)
      /\ Holding(s) \in Nat /\ Counting(s) \in Nat /\ Taking(s) \in Nat /\ Waking(s) \in Nat
      /\ Closing(s) \in Nat /\ Len(queue[s]) \in Nat
  BY Numbers DEF IInv, SessionInv
<1>10. SessionInv(s)'
  <2>1. Holding(s)' = Holding(s) /\ Closing(s)' = Closing(s) /\ Waking(s)' > 0
    BY <1>3, <1>9
  <2>2. CountsExact(s)'
    BY <1>3, <1>4, <1>8, <1>9, <2>1 DEF CountsExact
  <2>3. OneSender(s)'
    BY <1>3, <1>4, <1>8, <1>9 DEF OneSender, Tokens
  <2>4. SizeLags(s)'
    BY <1>3, <1>4, <1>7, <1>9, SMTT(30) DEF SizeLags
  <2>5. OneCloser(s)' /\ Woken(s)'
    BY <1>4, <1>9, <2>1 DEF OneCloser, Woken
  <2>. QED  BY <2>2, <2>3, <2>4, <2>5 DEF SessionInv
<1>11. \A r \in Slots \ {s} : Same(r)
  BY <1>4, <1>5, <1>6 DEF Same
<1>. QED  BY <1>1, <1>2, <1>10, <1>11, SenderStep

\* A call that begins, or meets a handle nobody has any more.
LEMMA OutsideStep ==
    ASSUME IInv, Typed', NEW c \in Senders, slot[c] = NoSlot, slot' = slot, owes' = owes,
           \A u \in Threads \ {c} : pc'[u] = pc[u],
           \A r \in Slots : Same(r)
    PROVE  \A r \in Slots : SessionInv(r)'
<1>1. ASSUME NEW r \in Slots PROVE SessionInv(r)'
  <2>1. Same(r) /\ slot[c] # r
    BY ThreadFacts
  <2>. QED  BY <2>1, Untouched DEF Same, IInv, Typed
<1>. QED  BY <1>1

LEMMA BeginsStep ==
    ASSUME IInv, Typed', NEW c \in Senders,
           \/ \E h \in Handles : SendPacket(c, h)
           \/ \E hs \in (SUBSET Handles) \ {{}} : SendPacketMulticast(c, hs)
    PROVE  \A r \in Slots : SessionInv(r)'
<1>1. /\ Step(c, "idle", "find") /\ slot' = slot /\ owes' = owes
      /\ \A r \in Slots : Same(r)
  BY DEF SendPacket, SendPacketMulticast, Same, lifeVars, bufferVars, ioVars, workVars
<1>2. slot[c] = NoSlot /\ \A u \in Threads \ {c} : pc'[u] = pc[u]
  BY <1>1, Busy DEF Step, IInv, Typed, ThreadsOK, SenderOK
<1>. QED  BY <1>1, <1>2, OutsideStep

\* The numbers of a session a sender enters, or leaves.
LEMMA FindSessionStep ==
    ASSUME IInv, Typed', NEW c \in Senders, NEW h \in todo[c], FindSession(c, h)
    PROVE  \A r \in Slots : SessionInv(r)'
<1>0. h[1] \in Slots
  BY DEF IInv, Typed, BuffersTyped
<1>1. pc[c] = "find" /\ slot[c] = NoSlot
  BY DEF FindSession, Served, Step, IInv, Typed, ThreadsOK, SenderOK
<1>2. CASE ~Found(h)
  <2>1. \A r \in Slots : Same(r)
    BY <1>2 DEF FindSession, Same, bufferVars, ioVars
  <2>2. slot' = slot
    BY <1>1, <1>2, Busy DEF FindSession, Served, IInv, Typed
  <2>3. owes' = owes /\ \A u \in Threads \ {c} : pc'[u] = pc[u]
    BY <1>2, Busy DEF FindSession, Served, Step, workVars, IInv, Typed
  <2>. QED  BY <1>1, <2>1, <2>2, <2>3, OutsideStep
<1>3. CASE Found(h)
  <2>. DEFINE s == h[1]
  <2>1. /\ pc[c] = "find" /\ slot[c] = NoSlot /\ slot'[c] = s /\ pc'[c] = "size" /\ owes' = owes
        /\ \A u \in Threads \ {c} : pc'[u] = pc[u] /\ slot'[u] = slot[u]
    BY <1>1, <1>3, Busy, ThreadFacts DEF FindSession, Step, workVars, IInv, Typed
  <2>2. /\ UNCHANGED <<state, receiving, isSending, size, queue, sendPackets, inFlight, posted>>
        /\ refs' = [refs EXCEPT ![s] = @ + 1] /\ state[s] = "live"
    BY <1>3 DEF FindSession, bufferVars, ioVars, Found
  <2>3. s \in Slots /\ slot[c] # s
    BY <1>0, <2>1, ThreadFacts
  <2>. HIDE DEF s
  <2>4. /\ Holding(s)' = Holding(s) + 1 - 0
        /\ Counting(s)' = Counting(s) + 0 - 0 /\ Waking(s)' = Waking(s) + 0 - 0
        /\ Closing(s)' = Closing(s) + 0 - 0
        /\ Sending(s)' = Sending(s) /\ Taking(s)' = Taking(s) /\ Owed(s)' = Owed(s)
    BY <2>1, <2>3, SenderCounts DEF B, HoldLabels, WakeLabels, CloseLabels
  <2>5. /\ CountsExact(s) /\ OneSender(s) /\ SizeLags(s) /\ OneCloser(s) /\ Woken(s)
        /\ Holding(s) \in Nat /\ Counting(s) \in Nat /\ Waking(s) \in Nat /\ Closing(s) \in Nat
        /\ Owed(s) \in Nat /\ Posts(s) \in Nat /\ Len(inFlight[s]) \in Nat /\ refs[s] \in Int
    BY <2>3, Numbers DEF IInv, SessionInv
  <2>6. /\ Counting(s)' = Counting(s) /\ Waking(s)' = Waking(s) /\ Closing(s)' = Closing(s)
        /\ Holding(s)' = Holding(s) + 1 /\ Posts(s)' = Posts(s)
        /\ refs'[s] = refs[s] + 1
    BY <2>2, <2>3, <2>4, <2>5 DEF Posts, IInv, Typed, SessionsTyped
  <2>7. SessionInv(s)'
    <3>1. /\ NewSum(refs'[s], Rcv(s)', Len(inFlight'[s]), Posts(s)', Holding(s)', Owed(s)')
          /\ NewLag(size'[s], Len(queue'[s]), Counting(s)', Taking(s)') /\ Closing(s)' = 0
      <4>1. Rcv(s)' = Rcv(s)
        BY <2>2 DEF Rcv
      <4>2. NewSum(refs[s] + 1, Rcv(s), Len(inFlight[s]), Posts(s), Holding(s) + 1, Owed(s))
        BY <2>2, <2>3, LiveNow, SumMoves
      <4>3. NewLag(size[s], Len(queue[s]), Counting(s), Taking(s)) /\ Closing(s) = 0
        BY <2>2, <2>3, LiveNow DEF Lag, NewLag
      <4>. QED  BY <2>2, <2>4, <2>6, <4>1, <4>2, <4>3
    <3>2. OneSender(s)' /\ Woken(s)'
      BY <2>2, <2>4, <2>5, <2>6 DEF OneSender, Tokens, Woken
    <3>. QED  BY <2>2, <3>1, <3>2, LiveNext
  <2>8. \A r \in Slots \ {s} : Same(r)
    BY <2>2 DEF Same, IInv, Typed, SessionsTyped
  <2>. QED  BY <2>1, <2>3, <2>7, <2>8, SenderStep
<1>. QED  BY <1>2, <1>3

LEMMA CheckSizeStep ==
    ASSUME IInv, Typed', NEW c \in Senders, CheckSize(c)
    PROVE  \A r \in Slots : SessionInv(r)'
<1>1. PICK s \in Slots : slot[c] = s
  BY Busy DEF CheckSize, IInv, Typed
<1>2. /\ pc[c] = "size" /\ pc'[c] \in {"full", "link"} /\ slot'[c] = s /\ owes' = owes
      /\ \A u \in Threads \ {c} : pc'[u] = pc[u] /\ slot'[u] = slot[u]
  BY <1>1, ThreadFacts, Busy DEF CheckSize, Step, IInv, Typed, workVars
<1>3. /\ Holding(s)' = Holding(s) + 1 - 1
      /\ Counting(s)' = Counting(s) + 0 - 0 /\ Waking(s)' = Waking(s) + 0 - 0
      /\ Closing(s)' = Closing(s) + 0 - 0
      /\ Sending(s)' = Sending(s) /\ Taking(s)' = Taking(s) /\ Owed(s)' = Owed(s)
  BY <1>1, <1>2, SenderCounts DEF B, HoldLabels, WakeLabels, CloseLabels
<1>4. UNCHANGED <<state, refs, receiving, isSending, size, queue, sendPackets, inFlight, posted>>
  BY DEF CheckSize, lifeVars, bufferVars, ioVars
<1>5. /\ CountsExact(s) /\ OneSender(s) /\ SizeLags(s) /\ OneCloser(s) /\ Woken(s)
      /\ Holding(s) \in Nat /\ Counting(s) \in Nat /\ Waking(s) \in Nat /\ Closing(s) \in Nat
  BY Numbers DEF IInv, SessionInv
<1>6. /\ Counting(s)' = Counting(s) /\ Waking(s)' = Waking(s) /\ Closing(s)' = Closing(s)
      /\ Holding(s)' = Holding(s) /\ Posts(s)' = Posts(s)
  BY <1>3, <1>4, <1>5 DEF Posts
<1>7. SessionInv(s)'
  BY <1>3, <1>4, <1>5, <1>6
     DEF SessionInv, CountsExact, OneSender, Tokens, SizeLags, OneCloser, Woken
<1>8. \A r \in Slots \ {s} : Same(r)
  BY <1>4 DEF Same
<1>. QED  BY <1>1, <1>2, <1>7, <1>8, SenderStep

LEMMA EnqueueCountStep ==
    ASSUME IInv, Typed', NEW c \in Senders, EnqueueCount(c)
    PROVE  \A r \in Slots : SessionInv(r)'
<1>1. PICK s \in Slots : slot[c] = s
  BY Busy DEF EnqueueCount, Step, IInv, Typed
<1>2. /\ pc[c] = "count" /\ pc'[c] = "trypost" /\ slot'[c] = s /\ owes' = owes
      /\ \A u \in Threads \ {c} : pc'[u] = pc[u] /\ slot'[u] = slot[u]
  BY <1>1, ThreadFacts, Busy DEF EnqueueCount, Step, IInv, Typed, workVars
<1>3. /\ Holding(s)' = Holding(s) + 1 - 1
      /\ Counting(s)' = Counting(s) + 0 - 1 /\ Waking(s)' = Waking(s) + 1 - 1
      /\ Closing(s)' = Closing(s) + 0 - 0
      /\ Sending(s)' = Sending(s) /\ Taking(s)' = Taking(s) /\ Owed(s)' = Owed(s)
  BY <1>1, <1>2, SenderCounts DEF B, HoldLabels, WakeLabels, CloseLabels
<1>4. /\ UNCHANGED <<state, refs, receiving, isSending, queue, sendPackets, inFlight, posted>>
      /\ size' = [size EXCEPT ![s] = @ + 1]
  BY <1>1 DEF EnqueueCount, lifeVars, ioVars
<1>5. /\ CountsExact(s) /\ OneSender(s) /\ SizeLags(s) /\ OneCloser(s) /\ Woken(s)
      /\ Holding(s) \in Nat /\ Counting(s) \in Nat /\ Waking(s) \in Nat /\ Closing(s) \in Nat
      /\ Taking(s) \in Nat /\ Len(queue[s]) \in Nat /\ size[s] \in Int
  BY Numbers DEF IInv, SessionInv
<1>6. /\ Waking(s)' = Waking(s) /\ Closing(s)' = Closing(s) /\ Counting(s)' = Counting(s) - 1
      /\ Holding(s)' = Holding(s) /\ Posts(s)' = Posts(s) /\ size'[s] = size[s] + 1
  BY <1>3, <1>4, <1>5 DEF Posts, IInv, Typed, SessionsTyped
<1>7. SessionInv(s)'
  <2>1. CountsExact(s)' /\ OneSender(s)' /\ OneCloser(s)' /\ Woken(s)'
    BY <1>3, <1>4, <1>5, <1>6 DEF CountsExact, OneSender, Tokens, OneCloser, Woken
  <2>2. SizeLags(s)'
    <3>0. Lag(size[s], Len(queue[s]), Counting(s), Taking(s))
      BY <1>5 DEF SizeLags, Lag
    <3>1. NewLag(size[s] + 1, Len(queue[s]), Counting(s) - 1, Taking(s))
      BY <1>5, <3>0, LagMoves
    <3>. QED  BY <1>3, <1>4, <1>6, <3>1 DEF SizeLags, NewLag
  <2>. QED  BY <2>1, <2>2 DEF SessionInv
<1>8. \A r \in Slots \ {s} : Same(r)
  BY <1>4 DEF Same, IInv, Typed, SessionsTyped
<1>. QED  BY <1>1, <1>2, <1>7, <1>8, SenderStep

LEMMA TrySendPostStep ==
    ASSUME IInv, Typed', NEW c \in Senders, TrySendPost(c)
    PROVE  \A r \in Slots : SessionInv(r)'
<1>1. PICK s \in Slots : slot[c] = s
  BY Busy DEF TrySendPost, Step, IInv, Typed
<1>2. /\ pc[c] = "trypost" /\ pc'[c] = "return" /\ slot'[c] = s /\ owes' = owes
      /\ \A u \in Threads \ {c} : pc'[u] = pc[u] /\ slot'[u] = slot[u]
  BY <1>1, ThreadFacts, Busy DEF TrySendPost, Step, IInv, Typed, workVars
<1>3. /\ Holding(s)' = Holding(s) + 1 - 1
      /\ Counting(s)' = Counting(s) + 0 - 0
      /\ Closing(s)' = Closing(s) + 0 - 0
      /\ Sending(s)' = Sending(s) /\ Taking(s)' = Taking(s) /\ Owed(s)' = Owed(s)
  BY <1>1, <1>2, SenderCounts DEF B, HoldLabels, WakeLabels, CloseLabels
<1>4. UNCHANGED <<state, receiving, queue, size, sendPackets, inFlight>>
  BY DEF TrySendPost
<1>4a. /\ posted[s]["sendpost"] \in Nat /\ posted[s]["sent"] \in Nat
       /\ posted[s]["zero"] \in Nat /\ posted[s]["check"] \in Nat
  BY DEF IInv, Typed, SessionsTyped, Completions
<1>5. /\ CountsExact(s) /\ OneSender(s) /\ SizeLags(s) /\ OneCloser(s)
      /\ Holding(s) \in Nat /\ Counting(s) \in Nat /\ Closing(s) \in Nat /\ Owed(s) \in Nat
      /\ Sending(s) \in Nat /\ Len(inFlight[s]) \in Nat /\ Posts(s) \in Nat
      /\ \A k \in Completions : posted[s][k] \in Nat
      /\ refs[s] \in Int
  BY Numbers DEF IInv, SessionInv
<1>6. /\ Counting(s)' = Counting(s) /\ Closing(s)' = Closing(s) /\ Holding(s)' = Holding(s)
      /\ state[s] = "live"
  BY <1>1, <1>2, <1>3, <1>5, Referenced DEF HoldLabels
<1>7. CASE isSending[s]
  <2>1. UNCHANGED <<isSending, refs, posted>>
    BY <1>1, <1>7 DEF TrySendPost
  <2>2. SessionInv(s)'
    <3>1. Posts(s)' = Posts(s)
      BY <2>1 DEF Posts
    <3>. QED  BY <1>3, <1>4, <1>5, <1>6, <1>7, <2>1, <3>1
              DEF SessionInv, CountsExact, OneSender, Tokens, SizeLags, OneCloser, Woken
  <2>3. \A r \in Slots \ {s} : Same(r)
    BY <1>4, <2>1 DEF Same
  <2>. QED  BY <1>1, <1>2, <2>2, <2>3, SenderStep
<1>8. CASE ~isSending[s]
  <2>1. /\ isSending' = [isSending EXCEPT ![s] = TRUE] /\ refs' = [refs EXCEPT ![s] = @ + 1]
        /\ posted' = [posted EXCEPT ![s]["sendpost"] = @ + 1]
    BY <1>1, <1>8 DEF TrySendPost, Post
  <2>2. /\ isSending'[s] /\ refs'[s] = refs[s] + 1
        /\ posted'[s]["sendpost"] = posted[s]["sendpost"] + 1
        /\ posted'[s]["sent"] = posted[s]["sent"] /\ posted'[s]["zero"] = posted[s]["zero"]
        /\ posted'[s]["check"] = posted[s]["check"]
    BY <2>1 DEF IInv, Typed, SessionsTyped, Completions
  <2>3. Posts(s)' = Posts(s) + 1
    BY <1>4a, <2>2 DEF Posts
  <2>4. SessionInv(s)'
    <3>1. /\ NewSum(refs'[s], Rcv(s)', Len(inFlight'[s]), Posts(s)', Holding(s)', Owed(s)')
          /\ NewLag(size'[s], Len(queue'[s]), Counting(s)', Taking(s)') /\ Closing(s)' = 0
      <4>1. Rcv(s)' = Rcv(s)
        BY <1>4 DEF Rcv
      <4>2. NewSum(refs[s] + 1, Rcv(s), Len(inFlight[s]), Posts(s) + 1, Holding(s), Owed(s))
        BY <1>6, LiveNow, SumMoves
      <4>3. NewLag(size[s], Len(queue[s]), Counting(s), Taking(s)) /\ Closing(s) = 0
        BY <1>6, LiveNow DEF Lag, NewLag
      <4>. QED  BY <1>3, <1>4, <1>6, <2>2, <2>3, <4>1, <4>2, <4>3
    <3>2. OneSender(s)'
      <4>0. Tokens(s) = 0
        BY <1>5, <1>6, <1>8 DEF OneSender
      <4>1. Total(Len(inFlight[s]), Posts(s), Sending(s)) = 0
        BY <4>0, TokensTotal
      <4>2. Tokens(s)' = NewTotal(Len(inFlight[s]), Posts(s) + 1, Sending(s))
        BY <1>3, <1>4, <2>3, TokensTotal
      <4>3. NewTotal(Len(inFlight[s]), Posts(s) + 1, Sending(s))
              = Total(Len(inFlight[s]), Posts(s), Sending(s)) + 1
        BY <1>5, TotalMoves
      <4>4. Tokens(s)' = 1
        BY <4>1, <4>2, <4>3
      <4>. QED  BY <1>4, <1>5, <2>2, <4>4 DEF OneSender
    <3>3. Woken(s)' /\ state'[s] = "live"
      BY <1>4, <1>6, <2>2 DEF Woken
    <3>. QED  BY <3>1, <3>2, <3>3, LiveNext
  <2>5. \A r \in Slots \ {s} : Same(r)
    BY <1>4, <2>1 DEF Same, IInv, Typed, SessionsTyped
  <2>. QED  BY <1>1, <1>2, <2>4, <2>5, SenderStep
<1>. QED  BY <1>7, <1>8

\* A sender that found the session gives its reference back.
LEMMA SenderReturns ==
    ASSUME IInv, Typed', NEW c \in Senders, NEW s \in Slots, slot[c] = s, pc[c] \in {"return", "full"},
           Released(s),
           \/ state'[s] = "closing" /\ pc'[c] \in CloseLabels /\ slot'[c] = s
           \/ state'[s] # "closing" /\ pc'[c] \in {"idle", "find", "disconnect"} /\ slot'[c] \in {s, NoSlot},
           \A u \in Threads \ {c} : pc'[u] = pc[u] /\ slot'[u] = slot[u],
           UNCHANGED <<receiving, isSending, queue, size, sendPackets, inFlight, posted, owes>>
    PROVE  \A r \in Slots : SessionInv(r)'
<1>1. state[s] = "live"
  BY Referenced DEF HoldLabels
<1>2. /\ Closing(s) = 0 /\ Holding(s) \in Nat /\ Owed(s) \in Nat /\ Counting(s) \in Nat
      /\ Waking(s) \in Nat
  BY <1>1, LiveNow
<1>3. /\ Holding(s)' = Holding(s) + 0 - 1
      /\ Counting(s)' = Counting(s) + 0 - 0 /\ Waking(s)' = Waking(s) + 0 - 0
      /\ Closing(s)' = Closing(s) + B(state'[s] = "closing") - 0
      /\ Sending(s)' = Sending(s) /\ Taking(s)' = Taking(s) /\ Owed(s)' = Owed(s)
  <2>1. /\ Holding(s)' = Holding(s) + B(slot'[c] = s /\ pc'[c] \in HoldLabels)
                                    - B(slot[c] = s /\ pc[c] \in HoldLabels)
        /\ Counting(s)' = Counting(s) + B(slot'[c] = s /\ pc'[c] = "count")
                                      - B(slot[c] = s /\ pc[c] = "count")
        /\ Waking(s)' = Waking(s) + B(slot'[c] = s /\ pc'[c] \in WakeLabels)
                                  - B(slot[c] = s /\ pc[c] \in WakeLabels)
        /\ Closing(s)' = Closing(s) + B(slot'[c] = s /\ pc'[c] \in CloseLabels)
                                    - B(slot[c] = s /\ pc[c] \in CloseLabels)
        /\ Sending(s)' = Sending(s) /\ Taking(s)' = Taking(s) /\ Owed(s)' = Owed(s)
    BY SenderCounts
  <2>2. /\ B(slot'[c] = s /\ pc'[c] \in HoldLabels) = 0 /\ B(slot[c] = s /\ pc[c] \in HoldLabels) = 1
        /\ B(slot'[c] = s /\ pc'[c] = "count") = 0 /\ B(slot[c] = s /\ pc[c] = "count") = 0
        /\ B(slot'[c] = s /\ pc'[c] \in WakeLabels) = 0 /\ B(slot[c] = s /\ pc[c] \in WakeLabels) = 0
        /\ B(slot'[c] = s /\ pc'[c] \in CloseLabels) = B(state'[s] = "closing")
        /\ B(slot[c] = s /\ pc[c] \in CloseLabels) = 0
    BY DEF B, HoldLabels, WakeLabels, CloseLabels
  <2>. QED  BY <2>1, <2>2
<1>4. /\ Holding(s)' = Holding(s) - 1 /\ Counting(s)' = Counting(s) /\ Waking(s)' = Waking(s)
      /\ Closing(s)' = IF refs[s] = 1 THEN 1 ELSE 0
  <2>1. state'[s] = "closing" <=> refs[s] = 1
    BY <1>1 DEF Released, IInv, Typed, SessionsTyped
  <2>. QED  BY <1>2, <1>3, <2>1 DEF B
<1>5. Fewer(Holding(s), Owed(s), Holding(s)', Owed(s)')
  <2>1. Fewer(Holding(s), Owed(s), Holding(s) - 1, Owed(s))
    BY <1>2, FewerMoves
  <2>. QED  BY <1>3, <1>4, <2>1
<1>6. SessionInv(s)'
  BY <1>1, <1>3, <1>4, <1>5, ReleasedInv
<1>7. \A r \in Slots \ {s} : Same(r)
  BY DEF Same, Released, IInv, Typed, SessionsTyped
<1>. QED  BY <1>6, <1>7, SenderStep

LEMMA ReturnStep ==
    ASSUME IInv, Typed', NEW c \in Senders, ReturnSession(c) \/ ReturnFull(c)
    PROVE  \A r \in Slots : SessionInv(r)'
<1>1. PICK s \in Slots : slot[c] = s
  BY Busy DEF ReturnSession, ReturnFull, IInv, Typed
<1>2. /\ pc[c] \in {"return", "full"} /\ Released(s)
      /\ UNCHANGED <<receiving, isSending, queue, size, sendPackets, inFlight, posted, owes>>
  BY <1>1 DEF ReturnSession, ReturnFull, bufferVars, ioVars, workVars
<1>3. /\ \/ state'[s] = "closing" /\ pc'[c] \in CloseLabels /\ slot'[c] = s
         \/ state'[s] # "closing" /\ pc'[c] \in {"idle", "find", "disconnect"} /\ slot'[c] \in {s, NoSlot}
      /\ \A u \in Threads \ {c} : pc'[u] = pc[u] /\ slot'[u] = slot[u]
  <2>1. CASE ReturnSession(c)
    BY <1>1, <2>1, ThreadFacts, Busy DEF ReturnSession, Served, Step, CloseLabels, IInv, Typed
  <2>2. CASE ReturnFull(c)
    BY <1>1, <2>2, ThreadFacts, Busy DEF ReturnFull, Step, CloseLabels, IInv, Typed
  <2>. QED  BY <2>1, <2>2
<1>. QED  BY <1>1, <1>2, <1>3, SenderReturns

\* A completion is posted, or taken by a worker.
LEMMA PostsMove ==
    ASSUME SessionsTyped, NEW s \in Slots, NEW k \in Completions
    PROVE  /\ Post(s, k) => /\ Posts(s)' = Posts(s) + 1
                            /\ \A j \in Completions \ {k} : posted'[s][j] = posted[s][j]
                            /\ \A r \in Slots \ {s} : posted'[r] = posted[r]
           /\ Taken(s, k) /\ posted[s][k] > 0 =>
                /\ Posts(s)' = Posts(s) - 1 /\ Posts(s) > 0
                /\ \A j \in Completions \ {k} : posted'[s][j] = posted[s][j]
                /\ posted'[s][k] > 0 => posted[s][k] > 0
                /\ \A r \in Slots \ {s} : posted'[r] = posted[r]
<1>1. /\ posted[s]["sendpost"] \in Nat /\ posted[s]["sent"] \in Nat
      /\ posted[s]["zero"] \in Nat /\ posted[s]["check"] \in Nat
  BY DEF SessionsTyped, Completions
<1>2. ASSUME Post(s, k)
      PROVE  /\ posted'[s][k] = posted[s][k] + 1
             /\ \A j \in Completions \ {k} : posted'[s][j] = posted[s][j]
             /\ \A r \in Slots \ {s} : posted'[r] = posted[r]
  BY <1>2 DEF Post, SessionsTyped, Completions
<1>3. ASSUME Taken(s, k)
      PROVE  /\ posted'[s][k] = posted[s][k] - 1
             /\ \A j \in Completions \ {k} : posted'[s][j] = posted[s][j]
             /\ \A r \in Slots \ {s} : posted'[r] = posted[r]
  BY <1>3 DEF Taken, SessionsTyped, Completions
<1>. DEFINE a == posted[s]["sendpost"]
            b == posted[s]["sent"]
            c == posted[s]["zero"]
            d == posted[s]["check"]
            a1 == posted'[s]["sendpost"]
            b1 == posted'[s]["sent"]
            c1 == posted'[s]["zero"]
            d1 == posted'[s]["check"]
            e == posted[s][k]
            e1 == posted'[s][k]
<1>4. /\ Posts(s) = a + b + c + d /\ Posts(s)' = a1 + b1 + c1 + d1
      /\ a \in Nat /\ b \in Nat /\ c \in Nat /\ d \in Nat
  BY <1>1 DEF Posts
<1>5. \/ k = "sendpost" /\ e = a /\ e1 = a1
      \/ k = "sent" /\ e = b /\ e1 = b1
      \/ k = "zero" /\ e = c /\ e1 = c1
      \/ k = "check" /\ e = d /\ e1 = d1
  BY DEF Completions
<1>6. ASSUME \A j \in Completions \ {k} : posted'[s][j] = posted[s][j]
      PROVE  /\ k # "sendpost" => a1 = a
             /\ k # "sent" => b1 = b
             /\ k # "zero" => c1 = c
             /\ k # "check" => d1 = d
  BY <1>6 DEF Completions
<1>7. ASSUME Post(s, k) PROVE Posts(s)' = Posts(s) + 1
  <2>1. e1 = e + 1
    BY <1>2, <1>7
  <2>2. /\ k # "sendpost" => a1 = a
        /\ k # "sent" => b1 = b
        /\ k # "zero" => c1 = c
        /\ k # "check" => d1 = d
    BY <1>2, <1>6, <1>7
  <2>. HIDE DEF a, b, c, d, a1, b1, c1, d1, e, e1
  <2>. QED  BY <1>4, <1>5, <2>1, <2>2
<1>8. ASSUME Taken(s, k), posted[s][k] > 0
      PROVE  Posts(s)' = Posts(s) - 1 /\ Posts(s) > 0 /\ (posted'[s][k] > 0 => posted[s][k] > 0)
  <2>1. e1 = e - 1 /\ e > 0
    BY <1>3, <1>8
  <2>2. /\ k # "sendpost" => a1 = a
        /\ k # "sent" => b1 = b
        /\ k # "zero" => c1 = c
        /\ k # "check" => d1 = d
    BY <1>3, <1>6, <1>8
  <2>3. Posts(s)' = Posts(s) - 1 /\ Posts(s) > 0
    <3>. HIDE DEF a, b, c, d, a1, b1, c1, d1, e, e1
    <3>. QED  BY <1>4, <1>5, <2>1, <2>2
  <2>. QED  BY <1>8, <2>3
<1>. QED  BY <1>2, <1>3, <1>7, <1>8

\* A completion replaces a WSASend in flight: KernelSends, KernelFails, and
\* Disconnect, which cancels it.
LEMMA CompletedInv ==
    ASSUME IInv, Typed', NEW s \in Slots, NEW k \in {"sent", "zero"}, inFlight[s] # <<>>,
           inFlight' = [inFlight EXCEPT ![s] = Tail(@)], Post(s, k),
           UNCHANGED <<state, refs, receiving, isSending, queue, size, sendPackets>>,
           Holding(s)' = Holding(s), Counting(s)' = Counting(s), Waking(s)' = Waking(s),
           Closing(s)' = Closing(s), Sending(s)' = Sending(s), Taking(s)' = Taking(s),
           Owed(s)' = Owed(s)
    PROVE  SessionInv(s)' /\ \A r \in Slots \ {s} : Same(r)
<1>1. state[s] = "live"
  BY Referenced
<1>2. /\ Closing(s) = 0 /\ OneSender(s) /\ Woken(s)
      /\ Sending(s) \in Nat /\ Posts(s) \in Nat /\ Len(inFlight[s]) \in Nat
      /\ Lag(size[s], Len(queue[s]), Counting(s), Taking(s))
  BY <1>1, LiveNow
<1>3. \A r \in Slots \ {s} : posted'[r] = posted[r]
  BY PostsMove DEF IInv, Typed, Completions
<1>4. Posts(s)' = Posts(s) + 1
  BY PostsMove DEF IInv, Typed, Completions
<1>5. Len(inFlight'[s]) = Len(inFlight[s]) - 1 /\ \A r \in Slots \ {s} : inFlight'[r] = inFlight[r]
  BY BatchFacts DEF IInv, Typed, BuffersTyped
<1>6. NewSum(refs'[s], Rcv(s)', Len(inFlight'[s]), Posts(s)', Holding(s)', Owed(s)')
  <2>1. NewSum(refs[s], Rcv(s), Len(inFlight[s]) - 1, Posts(s) + 1, Holding(s), Owed(s))
    BY <1>1, LiveNow, SumMoves
  <2>2. Rcv(s)' = Rcv(s) /\ refs'[s] = refs[s]
    BY DEF Rcv
  <2>. QED  BY <1>4, <1>5, <2>1, <2>2
<1>7. OneSender(s)'
  <2>1. NewTotal(Len(inFlight[s]) - 1, Posts(s) + 1, Sending(s)) = Total(Len(inFlight[s]), Posts(s), Sending(s))
    BY <1>2, TotalMoves, ZenonT(60)
  <2>2. Tokens(s)' = NewTotal(Len(inFlight[s]) - 1, Posts(s) + 1, Sending(s))
    BY <1>4, <1>5, TokensTotal
  <2>3. Tokens(s)' = Tokens(s)
    BY <2>1, <2>2, TokensTotal
  <2>. QED  BY <1>2, <2>3 DEF OneSender
<1>8. Woken(s)' /\ NewLag(size'[s], Len(queue'[s]), Counting(s)', Taking(s)') /\ Closing(s)' = 0
  BY <1>2 DEF Woken, Lag, NewLag
<1>9. \A r \in Slots \ {s} : Same(r)
  BY <1>3, <1>5 DEF Same
<1>. QED  BY <1>1, <1>6, <1>7, <1>8, <1>9, LiveNext

LEMMA DisconnectStep ==
    ASSUME IInv, Typed', NEW c \in Senders, Disconnect(c)
    PROVE  \A r \in Slots : SessionInv(r)'
<1>1. PICK s \in Slots : slot[c] = s
  BY Busy DEF Disconnect, Served, Step, IInv, Typed
<1>2. /\ pc[c] = "disconnect" /\ pc'[c] \in {"idle", "find"} /\ slot'[c] = NoSlot /\ owes' = owes
      /\ \A u \in Threads \ {c} : pc'[u] = pc[u] /\ slot'[u] = slot[u]
      /\ UNCHANGED <<state, refs, receiving, isSending, queue, size, sendPackets>>
  BY ThreadFacts, Busy DEF Disconnect, Served, Step, IInv, Typed, workVars, lifeVars, bufferVars
<1>3. /\ Holding(s)' = Holding(s) + 0 - 0
      /\ Counting(s)' = Counting(s) + 0 - 0 /\ Waking(s)' = Waking(s) + 0 - 0
      /\ Closing(s)' = Closing(s) + 0 - 0
      /\ Sending(s)' = Sending(s) /\ Taking(s)' = Taking(s) /\ Owed(s)' = Owed(s)
  BY <1>1, <1>2, SenderCounts DEF B, HoldLabels, WakeLabels, CloseLabels
<1>4. /\ Holding(s)' = Holding(s) /\ Counting(s)' = Counting(s) /\ Waking(s)' = Waking(s)
      /\ Closing(s)' = Closing(s)
  BY <1>3, Counts
<1>5. SessionInv(s)' /\ \A r \in Slots \ {s} : Same(r)
  <2>1. CASE UNCHANGED <<posted, inFlight>>
    <3>1. Posts(s)' = Posts(s)
      BY <2>1 DEF Posts
    <3>2. SessionInv(s)
      BY DEF IInv
    <3>3. CountsExact(s)' /\ SizeLags(s)' /\ OneSender(s)' /\ OneCloser(s)' /\ Woken(s)'
      BY <1>2, <1>3, <1>4, <2>1, <3>1, <3>2
         DEF SessionInv, CountsExact, SizeLags, OneSender, Tokens, OneCloser, Woken
    <3>4. \A r \in Slots \ {s} : Same(r)
      BY <1>2, <2>1 DEF Same
    <3>. QED  BY <3>3, <3>4 DEF SessionInv
  <2>2. CASE /\ inFlight[s] # <<>> /\ Post(s, "zero")
             /\ inFlight' = [inFlight EXCEPT ![s] = Tail(@)]
    BY <1>2, <1>3, <1>4, <2>2, CompletedInv
  <2>. QED  BY <1>1, <2>1, <2>2 DEF Disconnect
<1>. QED  BY <1>1, <1>2, <1>5, SenderStep

-----------------------------------------------------------------------------
(* The workers' steps.                                                     *)

\* Only worker w moves.
Alone(w) ==
    /\ \A u \in Threads \ {w} : pc'[u] = pc[u] /\ slot'[u] = slot[u]
    /\ \A v \in Workers \ {w} : owes'[v] = owes[v]

LEMMA WorkerStep ==
    ASSUME IInv, Typed', NEW w \in Workers, NEW s \in Slots, Alone(w),
           slot[w] \in {s, NoSlot}, slot'[w] \in {s, NoSlot},
           \A r \in Slots \ {s} : Same(r),
           SessionInv(s)'
    PROVE  \A r \in Slots : SessionInv(r)'
<1>1. w \in Threads
  BY ThreadFacts
<1>. QED  BY <1>1, OneSession DEF IInv, Typed, Alone

LEMMA WorkerCounts ==
    ASSUME IInv, Typed', NEW w \in Workers, NEW s \in Slots, Alone(w)
    PROVE  /\ Sending(s)' = Sending(s) + B(slot'[w] = s /\ pc'[w] \in SendLabels)
                                       - B(slot[w] = s /\ pc[w] \in SendLabels)
           /\ Taking(s)' = Taking(s) + B(slot'[w] = s /\ pc'[w] \in TakeLabels)
                                     - B(slot[w] = s /\ pc[w] \in TakeLabels)
           /\ Waking(s)' = Waking(s) + B(slot'[w] = s /\ pc'[w] \in WakeLabels)
                                     - B(slot[w] = s /\ pc[w] \in WakeLabels)
           /\ Closing(s)' = Closing(s) + B(slot'[w] = s /\ pc'[w] \in CloseLabels)
                                       - B(slot[w] = s /\ pc[w] \in CloseLabels)
           /\ Owed(s)' = Owed(s) + Load(w, s)' - Load(w, s)
           /\ Holding(s)' = Holding(s) /\ Counting(s)' = Counting(s)
<1>1. w \in Threads
  BY ThreadFacts
<1>2. /\ pc[w] \notin HoldLabels /\ pc'[w] \notin HoldLabels
      /\ pc[w] # "count" /\ pc'[w] # "count"
  BY DEF IInv, Typed, ThreadsOK, WorkerOK, WorkerLabels, HoldLabels
<1>3. ThreadsOK /\ ThreadsOK' /\ Holding(s) \in Nat /\ Counting(s) \in Nat
  BY Numbers DEF IInv, Typed
<1>4. /\ Holding(s)' = Holding(s)
      /\ Counting(s)' = Counting(s)
  <2>1. /\ Holding(s)' = Holding(s) + B(slot'[w] = s /\ pc'[w] \in HoldLabels)
                                    - B(slot[w] = s /\ pc[w] \in HoldLabels)
        /\ Counting(s)' = Counting(s) + B(slot'[w] = s /\ pc'[w] = "count")
                                      - B(slot[w] = s /\ pc[w] = "count")
    BY <1>1, <1>3, Moves DEF Alone
  <2>2. /\ B(slot'[w] = s /\ pc'[w] \in HoldLabels) = 0 /\ B(slot[w] = s /\ pc[w] \in HoldLabels) = 0
        /\ B(slot'[w] = s /\ pc'[w] = "count") = 0 /\ B(slot[w] = s /\ pc[w] = "count") = 0
    BY <1>2 DEF B
  <2>. QED  BY <1>3, <2>1, <2>2
<1>. QED  BY <1>1, <1>3, <1>4, Moves DEF Alone

\* An idle worker takes over the reference of a posted completion.
LEMMA TakenOver ==
    ASSUME IInv, Typed', NEW w \in Workers, NEW s \in Slots, NEW k \in Completions, NEW label, NEW n,
           posted[s][k] > 0, Taken(s, k), Handle(w, s, label, n),
           \/ label = "pop" /\ n = 0 /\ k = "sendpost"
           \/ label \in {"clear", "flag"} /\ n = 1
           \/ label = "dec" /\ n = 1 /\ k = "zero",
           UNCHANGED <<state, refs, receiving, isSending, queue, size, sendPackets, inFlight>>
    PROVE  \A r \in Slots : SessionInv(r)'
<1>1. /\ pc[w] = "idle" /\ slot[w] = NoSlot /\ pc'[w] = label /\ slot'[w] = s /\ owes'[w] = n
      /\ slot[w] # s /\ Alone(w)
  BY ThreadFacts, Busy DEF Handle, Step, Alone, IInv, Typed, ThreadsOK, WorkerOK
<1>2. /\ Posts(s)' = Posts(s) - 1 /\ Posts(s) > 0
      /\ \A j \in Completions \ {k} : posted'[s][j] = posted[s][j]
      /\ \A r \in Slots \ {s} : posted'[r] = posted[r]
  BY PostsMove DEF IInv, Typed
<1>3. state[s] = "live"
  BY <1>2, Referenced
<1>4. /\ Closing(s) = 0 /\ OneSender(s) /\ Woken(s)
      /\ Sending(s) \in Nat /\ Posts(s) \in Nat /\ Len(inFlight[s]) \in Nat /\ Owed(s) \in Nat
      /\ Taking(s) \in Nat /\ Waking(s) \in Nat
      /\ Lag(size[s], Len(queue[s]), Counting(s), Taking(s))
  BY <1>3, LiveNow
<1>5. /\ Load(w, s) = 0 /\ Load(w, s)' = 1
  <2>1. w \in Workers /\ pc'[w] # "close" /\ Returns(w)' = 1
    BY <1>1 DEF Returns
  <2>. QED  BY <1>1, <2>1 DEF Load
<1>6. /\ Sending(s)' = Sending(s) + B(label # "dec") - 0 /\ Taking(s)' = Taking(s) + 0 - 0
      /\ Waking(s)' = Waking(s) + 0 - 0 /\ Closing(s)' = Closing(s) + 0 - 0
      /\ Owed(s)' = Owed(s) + 1 - 0
      /\ Holding(s)' = Holding(s) /\ Counting(s)' = Counting(s)
  <2>1. /\ B(slot'[w] = s /\ pc'[w] \in SendLabels) = B(label # "dec")
        /\ B(slot[w] = s /\ pc[w] \in SendLabels) = 0
        /\ B(slot'[w] = s /\ pc'[w] \in TakeLabels) = 0 /\ B(slot[w] = s /\ pc[w] \in TakeLabels) = 0
        /\ B(slot'[w] = s /\ pc'[w] \in WakeLabels) = 0 /\ B(slot[w] = s /\ pc[w] \in WakeLabels) = 0
        /\ B(slot'[w] = s /\ pc'[w] \in CloseLabels) = 0 /\ B(slot[w] = s /\ pc[w] \in CloseLabels) = 0
    BY <1>1 DEF B, SendLabels, TakeLabels, WakeLabels, CloseLabels
  <2>. QED  BY <1>1, <1>5, <2>1, WorkerCounts
<1>7. /\ Taking(s)' = Taking(s) /\ Waking(s)' = Waking(s) /\ Closing(s)' = 0
      /\ Owed(s)' = Owed(s) + 1
      /\ label # "dec" => Sending(s)' = Sending(s) + 1
      /\ label = "dec" => Sending(s)' = Sending(s)
  BY <1>4, <1>6 DEF B
<1>8. NewSum(refs'[s], Rcv(s)', Len(inFlight'[s]), Posts(s)', Holding(s)', Owed(s)')
  <2>1. NewSum(refs[s], Rcv(s), Len(inFlight[s]), Posts(s) - 1, Holding(s), Owed(s) + 1)
    BY <1>3, LiveNow, SumMoves
  <2>2. Rcv(s)' = Rcv(s)
    BY DEF Rcv
  <2>. QED  BY <1>2, <1>6, <1>7, <2>1, <2>2
<1>9. OneSender(s)'
  <2>1. posted'[s]["sent"] > 0 => posted[s]["sent"] > 0
    BY PostsMove, <1>2 DEF IInv, Typed, Completions
  <2>2. posted'[s]["zero"] > 0 => posted[s]["zero"] > 0
    BY PostsMove, <1>2 DEF IInv, Typed, Completions
  <2>3. Tokens(s) = 1 /\ isSending[s] /\ Tokens(s)' \in {0, 1}
        /\ (label # "dec" => Tokens(s)' = 1)
    <3>1. Tokens(s) = Total(Len(inFlight[s]), Posts(s), Sending(s)) /\ Tokens(s) # 0
      <4>1. Tokens(s) = Total(Len(inFlight[s]), Posts(s), Sending(s))
        BY TokensTotal
      <4>. QED  BY <1>2, <4>1, TokensNow DEF IInv
    <3>2. Tokens(s) = 1 /\ isSending[s]
      BY <1>3, <1>4, <3>1 DEF OneSender
    <3>3. ASSUME label # "dec" PROVE Tokens(s)' = 1
      <4>1. Tokens(s)' = NewTotal(Len(inFlight[s]), Posts(s) - 1, Sending(s) + 1)
        BY <1>2, <1>7, <3>3, TokensTotal
      <4>2. NewTotal(Len(inFlight[s]), Posts(s) - 1, Sending(s) + 1)
              = Total(Len(inFlight[s]), Posts(s), Sending(s))
        BY <1>4, TotalMoves, SMTT(30)
      <4>. QED  BY <3>1, <3>2, <4>1, <4>2
    <3>4. ASSUME label = "dec" PROVE Tokens(s)' = 0
      <4>1. Tokens(s)' = NewTotal(Len(inFlight[s]), Posts(s) - 1, Sending(s))
        BY <1>2, <1>7, <3>4, TokensTotal
      <4>2. NewTotal(Len(inFlight[s]), Posts(s) - 1, Sending(s))
              = Total(Len(inFlight[s]), Posts(s), Sending(s)) - 1
        BY <1>4, OneLess, SMTT(30)
      <4>3. Total(Len(inFlight[s]), Posts(s), Sending(s)) = 1
        BY <3>1, <3>2
      <4>. QED  BY <4>1, <4>2, <4>3
    <3>. QED  BY <3>2, <3>3, <3>4
  <2>4. label = "dec" => sendPackets[s] # <<>>
    BY <1>4 DEF OneSender
  <2>. QED  BY <1>4, <2>1, <2>2, <2>3, <2>4 DEF OneSender
<1>10. Woken(s)' /\ NewLag(size'[s], Len(queue'[s]), Counting(s)', Taking(s)')
  BY <1>4, <1>6, <1>7 DEF Woken, Lag, NewLag
<1>11. SessionInv(s)'
  BY <1>3, <1>7, <1>8, <1>9, <1>10, LiveNext
<1>12. \A r \in Slots \ {s} : Same(r)
  BY <1>2 DEF Same
<1>. QED  BY <1>1, <1>11, <1>12, WorkerStep

LEMMA GetCompletionStep ==
    ASSUME IInv, Typed', NEW w \in Workers, NEW s \in Slots,
           GetSendPost(w, s) \/ \E kind \in Kinds : GetSendCompletion(w, s, kind)
    PROVE  \A r \in Slots : SessionInv(r)'
<1>1. UNCHANGED <<state, refs, receiving, isSending, queue, size, sendPackets, inFlight>>
  BY DEF GetSendPost, GetSendCompletion, lifeVars, bufferVars
<1>2. CASE GetSendPost(w, s)
  <2>1. posted[s]["sendpost"] > 0 /\ Taken(s, "sendpost") /\ Handle(w, s, "pop", 0)
    BY <1>2 DEF GetSendPost
  <2>. QED  BY <1>1, <2>1, TakenOver DEF Completions
<1>3. ASSUME NEW kind \in Kinds, GetSendCompletion(w, s, kind)
      PROVE  \A r \in Slots : SessionInv(r)'
  <2>1. posted[s][kind] > 0 /\ Taken(s, kind) /\ kind \in Completions
    BY <1>3 DEF GetSendCompletion, Kinds, Completions
  <2>2. CASE kind = "sent"
    <3>1. Handle(w, s, "clear", 1)
      BY <1>3, <2>2 DEF GetSendCompletion
    <3>. QED  BY <1>1, <2>1, <3>1, TakenOver
  <2>3. CASE kind = "check"
    <3>1. Handle(w, s, "flag", 1)
      BY <1>3, <2>3 DEF GetSendCompletion
    <3>. QED  BY <1>1, <2>1, <3>1, TakenOver
  <2>4. CASE kind = "zero"
    <3>1. Handle(w, s, "dec", 1)
      BY <1>3, <2>4 DEF GetSendCompletion
    <3>. QED  BY <1>1, <2>1, <2>4, <3>1, TakenOver
  <2>. QED  BY <2>2, <2>3, <2>4 DEF Kinds
<1>. QED  BY <1>2, <1>3

LEMMA GetRecvStep ==
    ASSUME IInv, Typed', NEW w \in Workers, NEW s \in Slots, GetRecv(w, s)
    PROVE  \A r \in Slots : SessionInv(r)'
<1>1. /\ pc[w] = "idle" /\ slot[w] = NoSlot /\ pc'[w] = "dec" /\ slot'[w] = s /\ owes'[w] = 1
      /\ slot[w] # s /\ Alone(w)
  BY ThreadFacts, Busy DEF GetRecv, Handle, Step, Alone, IInv, Typed, ThreadsOK, WorkerOK
<1>2. /\ receiving[s] /\ receiving' = [receiving EXCEPT ![s] = FALSE]
      /\ UNCHANGED <<state, refs, isSending, queue, size, sendPackets, inFlight, posted>>
  BY DEF GetRecv, bufferVars, ioVars
<1>3. state[s] = "live"
  BY <1>2, Referenced
<1>4. /\ Closing(s) = 0 /\ OneSender(s) /\ Woken(s)
      /\ Sending(s) \in Nat /\ Owed(s) \in Nat /\ Taking(s) \in Nat /\ Waking(s) \in Nat
      /\ Lag(size[s], Len(queue[s]), Counting(s), Taking(s))
  BY <1>3, LiveNow
<1>5. /\ Load(w, s) = 0 /\ Load(w, s)' = 1
  <2>1. w \in Workers /\ pc'[w] # "close" /\ Returns(w)' = 1
    BY <1>1 DEF Returns
  <2>. QED  BY <1>1, <2>1 DEF Load
<1>6. /\ Sending(s)' = Sending(s) + 0 - 0 /\ Taking(s)' = Taking(s) + 0 - 0
      /\ Waking(s)' = Waking(s) + 0 - 0 /\ Closing(s)' = Closing(s) + 0 - 0
      /\ Owed(s)' = Owed(s) + 1 - 0
      /\ Holding(s)' = Holding(s) /\ Counting(s)' = Counting(s)
  BY <1>1, <1>5, WorkerCounts DEF B, SendLabels, TakeLabels, WakeLabels, CloseLabels
<1>7. /\ Taking(s)' = Taking(s) /\ Waking(s)' = Waking(s) /\ Closing(s)' = 0
      /\ Owed(s)' = Owed(s) + 1 /\ Sending(s)' = Sending(s)
  BY <1>4, <1>6
<1>8. Posts(s)' = Posts(s)
  BY <1>2 DEF Posts
<1>9. NewSum(refs'[s], Rcv(s)', Len(inFlight'[s]), Posts(s)', Holding(s)', Owed(s)')
  <2>1. Rcv(s) = 1 /\ Rcv(s)' = 0
    BY <1>2 DEF Rcv, IInv, Typed, SessionsTyped
  <2>2. NewSum(refs[s], 0, Len(inFlight[s]), Posts(s), Holding(s), Owed(s) + 1)
    BY <1>3, <2>1, LiveNow, SumMoves, ZenonT(60)
  <2>. QED  BY <1>2, <1>6, <1>7, <1>8, <2>1, <2>2
<1>10. OneSender(s)' /\ Woken(s)'
  BY <1>2, <1>4, <1>7, <1>8 DEF OneSender, Tokens, Woken
<1>11. NewLag(size'[s], Len(queue'[s]), Counting(s)', Taking(s)')
  BY <1>2, <1>4, <1>6, <1>7 DEF Lag, NewLag
<1>12. SessionInv(s)'
  BY <1>2, <1>3, <1>7, <1>9, <1>10, <1>11, LiveNext
<1>13. \A r \in Slots \ {s} : Same(r)
  BY <1>2 DEF Same
<1>. QED  BY <1>1, <1>12, <1>13, WorkerStep

\* A worker in SendPost, or in the completion before it clears the flag, is
\* the one sender of its session.
LEMMA Owner ==
    ASSUME IInv, NEW w \in Workers, pc[w] \in SendLabels
    PROVE  /\ slot[w] \in Slots /\ state[slot[w]] = "live" /\ isSending[slot[w]]
           /\ Tokens(slot[w]) = 1 /\ Sending(slot[w]) = 1
           /\ inFlight[slot[w]] = <<>> /\ Posts(slot[w]) = 0
           /\ \A k \in Completions : posted[slot[w]][k] = 0
<1>1. /\ pc[w] # "idle" /\ pc[w] # "close" /\ w \in Threads
  BY ThreadFacts DEF SendLabels
<1>2. slot[w] \in Slots /\ state[slot[w]] = "live"
  BY <1>1, Referenced
<1>3. Sending(slot[w]) >= 1
  BY <1>1, Present DEF IInv, Typed
<1>4. Sending(slot[w]) \in Nat /\ OneSender(slot[w])
  BY <1>2, LiveNow
<1>5. Tokens(slot[w]) # 0 /\ Sending(slot[w]) > 0
  BY <1>2, <1>3, <1>4, TokensNow DEF IInv
<1>6. Tokens(slot[w]) = 1 /\ isSending[slot[w]]
  <2>1. isSending[slot[w]] \in BOOLEAN
    BY <1>2 DEF IInv, Typed, SessionsTyped
  <2>. QED  BY <1>2, <1>4, <1>5, <2>1 DEF OneSender
<1>7. inFlight[slot[w]] = <<>> /\ Posts(slot[w]) = 0 /\ Sending(slot[w]) = 1
  BY <1>2, <1>5, <1>6, TokensNow DEF IInv
<1>8. \A k \in Completions : posted[slot[w]][k] = 0
  <2>1. /\ posted[slot[w]]["sendpost"] \in Nat /\ posted[slot[w]]["sent"] \in Nat
        /\ posted[slot[w]]["zero"] \in Nat /\ posted[slot[w]]["check"] \in Nat
    BY <1>2 DEF IInv, Typed, SessionsTyped, Completions
  <2>2. /\ posted[slot[w]]["sendpost"] = 0 /\ posted[slot[w]]["sent"] = 0
        /\ posted[slot[w]]["zero"] = 0 /\ posted[slot[w]]["check"] = 0
    <3>. DEFINE a == posted[slot[w]]["sendpost"]
                b == posted[slot[w]]["sent"]
                c == posted[slot[w]]["zero"]
                d == posted[slot[w]]["check"]
    <3>1. a \in Nat /\ b \in Nat /\ c \in Nat /\ d \in Nat /\ a + b + c + d = 0
      BY <1>7, <2>1 DEF Posts
    <3>. HIDE DEF a, b, c, d
    <3>2. a = 0 /\ b = 0 /\ c = 0 /\ d = 0
      BY <3>1
    <3>. QED  BY <3>2 DEF a, b, c, d
  <2>. QED  BY <2>2 DEF Completions
<1>. QED  BY <1>2, <1>6, <1>7, <1>8

\* The parts of a worker's step that only moves it inside its session.
LEMMA WorkerMoves ==
    ASSUME IInv, Typed', NEW w \in Workers, NEW s \in Slots, NEW from, NEW target,
           slot[w] = s, slot' = slot, Step(w, from, target), owes' = owes
    PROVE  /\ Alone(w) /\ pc[w] = from /\ pc'[w] = target /\ slot'[w] = s
           /\ owes[w] \in Nat /\ owes'[w] = owes[w]
BY ThreadFacts, Busy DEF Step, Alone, IInv, Typed

LEMMA ClearSendPacketsStep ==
    ASSUME IInv, Typed', NEW w \in Workers, ClearSendPackets(w)
    PROVE  \A r \in Slots : SessionInv(r)'
<1>1. PICK s \in Slots : slot[w] = s
  BY Busy DEF ClearSendPackets, Step, IInv, Typed
<1>2. /\ Alone(w) /\ pc[w] = "clear" /\ pc'[w] = "flag" /\ slot'[w] = s /\ owes[w] \in Nat /\ owes'[w] = owes[w]
  <2>1. slot' = slot /\ Step(w, "clear", "flag") /\ owes' = owes
    BY DEF ClearSendPackets, workVars
  <2>. QED  BY <1>1, <2>1, WorkerMoves
<1>3. /\ sendPackets' = [sendPackets EXCEPT ![s] = <<>>]
      /\ UNCHANGED <<state, refs, receiving, isSending, queue, size, inFlight, posted>>
  BY <1>1 DEF ClearSendPackets, lifeVars, ioVars
<1>4. /\ state[s] = "live" /\ isSending[s] /\ Tokens(s) = 1
      /\ inFlight[s] = <<>> /\ \A k \in Completions : posted[s][k] = 0
  BY <1>1, <1>2, Owner DEF SendLabels
<1>5. /\ SessionInv(s)
      /\ Sending(s) \in Nat /\ Taking(s) \in Nat /\ Waking(s) \in Nat /\ Closing(s) \in Nat /\ Owed(s) \in Nat
  BY <1>4, LiveNow DEF IInv
<1>6. Load(w, s) = owes[w] /\ Load(w, s)' = owes[w]
  BY <1>1, <1>2 DEF Load, Returns
<1>7. /\ Sending(s)' = Sending(s) + 1 - 1 /\ Taking(s)' = Taking(s) + 0 - 0
      /\ Waking(s)' = Waking(s) + 0 - 0 /\ Closing(s)' = Closing(s) + 0 - 0
      /\ Owed(s)' = Owed(s) + owes[w] - owes[w]
      /\ Holding(s)' = Holding(s) /\ Counting(s)' = Counting(s)
  BY <1>1, <1>2, <1>6, WorkerCounts DEF B, SendLabels, TakeLabels, WakeLabels, CloseLabels
<1>8. /\ Sending(s)' = Sending(s) /\ Taking(s)' = Taking(s) /\ Waking(s)' = Waking(s)
      /\ Closing(s)' = Closing(s) /\ Owed(s)' = Owed(s)
  BY <1>2, <1>5, <1>7
<1>9. Posts(s)' = Posts(s)
  BY <1>3 DEF Posts
<1>10. OneSender(s)'
  <2>1. Tokens(s)' = 1
    BY <1>3, <1>4, <1>8, <1>9 DEF Tokens
  <2>2. inFlight'[s] = <<>> /\ ~(posted'[s]["sent"] > 0) /\ ~(posted'[s]["zero"] > 0) /\ isSending'[s]
    BY <1>3, <1>4 DEF Completions
  <2>. QED  BY <2>1, <2>2 DEF OneSender
<1>11. CountsExact(s)' /\ SizeLags(s)' /\ OneCloser(s)' /\ Woken(s)'
  BY <1>3, <1>5, <1>7, <1>8, <1>9 DEF SessionInv, CountsExact, SizeLags, OneCloser, Woken
<1>12. SessionInv(s)'
  BY <1>10, <1>11 DEF SessionInv
<1>13. \A r \in Slots \ {s} : Same(r)
  BY <1>3 DEF Same
<1>. QED  BY <1>1, <1>2, <1>12, <1>13, WorkerStep

LEMMA ClearIsSendingStep ==
    ASSUME IInv, Typed', NEW w \in Workers, ClearIsSending(w)
    PROVE  \A r \in Slots : SessionInv(r)'
<1>1. PICK s \in Slots : slot[w] = s
  BY Busy DEF ClearIsSending, Step, IInv, Typed
<1>2. /\ Alone(w) /\ pc[w] = "flag" /\ pc'[w] = "recheck" /\ slot'[w] = s /\ owes[w] \in Nat /\ owes'[w] = owes[w]
  <2>1. slot' = slot /\ Step(w, "flag", "recheck") /\ owes' = owes
    BY DEF ClearIsSending, workVars
  <2>. QED  BY <1>1, <2>1, WorkerMoves
<1>3. /\ isSending' = [isSending EXCEPT ![s] = FALSE]
      /\ UNCHANGED <<state, refs, receiving, sendPackets, queue, size, inFlight, posted>>
  BY <1>1 DEF ClearIsSending, lifeVars, ioVars
<1>4. /\ state[s] = "live" /\ isSending[s] /\ Tokens(s) = 1 /\ Sending(s) = 1 /\ Posts(s) = 0
      /\ inFlight[s] = <<>> /\ \A k \in Completions : posted[s][k] = 0
  BY <1>1, <1>2, Owner DEF SendLabels
<1>5. /\ SessionInv(s)
      /\ Taking(s) \in Nat /\ Waking(s) \in Nat /\ Closing(s) \in Nat /\ Owed(s) \in Nat
  BY <1>4, LiveNow DEF IInv
<1>6. Load(w, s) = owes[w] /\ Load(w, s)' = owes[w]
  BY <1>1, <1>2 DEF Load, Returns
<1>7. /\ Sending(s)' = Sending(s) + 0 - 1 /\ Taking(s)' = Taking(s) + 0 - 0
      /\ Waking(s)' = Waking(s) + 1 - 0 /\ Closing(s)' = Closing(s) + 0 - 0
      /\ Owed(s)' = Owed(s) + owes[w] - owes[w]
      /\ Holding(s)' = Holding(s) /\ Counting(s)' = Counting(s)
  BY <1>1, <1>2, <1>6, WorkerCounts DEF B, SendLabels, TakeLabels, WakeLabels, CloseLabels
<1>8. /\ Sending(s)' = 0 /\ Taking(s)' = Taking(s) /\ Waking(s)' > 0
      /\ Closing(s)' = Closing(s) /\ Owed(s)' = Owed(s)
  BY <1>2, <1>4, <1>5, <1>7
<1>9. Posts(s)' = Posts(s)
  BY <1>3 DEF Posts
<1>10. OneSender(s)'
  <2>1. Len(inFlight[s]) = 0
    BY <1>4
  <2>2. Tokens(s)' = 0
    BY <1>3, <1>4, <1>8, <1>9, <2>1 DEF Tokens
  <2>3. inFlight'[s] = <<>> /\ ~(posted'[s]["sent"] > 0) /\ ~(posted'[s]["zero"] > 0)
    BY <1>3, <1>4 DEF Completions
  <2>4. ~isSending'[s]
    BY <1>3 DEF IInv, Typed, SessionsTyped
  <2>. QED  BY <2>2, <2>3, <2>4 DEF OneSender
<1>11. CountsExact(s)' /\ SizeLags(s)' /\ OneCloser(s)' /\ Woken(s)'
  BY <1>3, <1>4, <1>5, <1>7, <1>8, <1>9 DEF SessionInv, CountsExact, SizeLags, OneCloser, Woken
<1>12. SessionInv(s)'
  BY <1>10, <1>11 DEF SessionInv
<1>13. \A r \in Slots \ {s} : Same(r)
  BY <1>3 DEF Same, IInv, Typed, SessionsTyped
<1>. QED  BY <1>1, <1>2, <1>12, <1>13, WorkerStep

\* The size that is looked at again may be too small, but only by those who
\* linked a node and have still to test the flag.
LEMMA RecheckSizeStep ==
    ASSUME IInv, Typed', NEW w \in Workers, RecheckSize(w)
    PROVE  \A r \in Slots : SessionInv(r)'
<1>1. PICK s \in Slots : slot[w] = s
  BY Busy DEF RecheckSize, Step, IInv, Typed
<1>2. /\ Alone(w) /\ pc[w] = "recheck" /\ slot'[w] = s /\ owes[w] \in Nat /\ owes'[w] = owes[w]
      /\ \/ pc'[w] = "again"
         \/ pc'[w] = "dec" /\ ~(size[s] > 0)
  <2>1. slot' = slot /\ Step(w, "recheck", IF size[s] > 0 THEN "again" ELSE "dec") /\ owes' = owes
    BY <1>1 DEF RecheckSize, workVars
  <2>. QED  BY <1>1, <2>1, WorkerMoves
<1>3. UNCHANGED <<state, refs, receiving, sendPackets, isSending, queue, size, inFlight, posted>>
  BY <1>1 DEF RecheckSize, lifeVars, bufferVars, ioVars
<1>4. state[s] = "live"
  BY <1>1, <1>2, Referenced
<1>5. /\ SessionInv(s) /\ OneSender(s) /\ Woken(s) /\ Lag(size[s], Len(queue[s]), Counting(s), Taking(s))
      /\ Sending(s) \in Nat /\ Taking(s) \in Nat /\ Waking(s) \in Nat /\ Closing(s) \in Nat /\ Owed(s) \in Nat
      /\ Counting(s) \in Nat /\ Len(queue[s]) \in Nat /\ size[s] \in Int
  BY <1>4, LiveNow DEF IInv
<1>6. Load(w, s) = owes[w] /\ Load(w, s)' = owes[w]
  BY <1>1, <1>2 DEF Load, Returns
<1>7. /\ Sending(s)' = Sending(s) + 0 - 0 /\ Taking(s)' = Taking(s) + 0 - 0
      /\ Waking(s)' = Waking(s) + B(pc'[w] = "again") - 1 /\ Closing(s)' = Closing(s) + 0 - 0
      /\ Owed(s)' = Owed(s) + owes[w] - owes[w]
      /\ Holding(s)' = Holding(s) /\ Counting(s)' = Counting(s)
  BY <1>1, <1>2, <1>6, WorkerCounts DEF B, SendLabels, TakeLabels, WakeLabels, CloseLabels
<1>8. /\ Sending(s)' = Sending(s) /\ Taking(s)' = Taking(s)
      /\ Closing(s)' = Closing(s) /\ Owed(s)' = Owed(s)
      /\ pc'[w] = "again" => Waking(s)' = Waking(s)
  BY <1>2, <1>5, <1>7 DEF B
<1>9. Posts(s)' = Posts(s)
  BY <1>3 DEF Posts
<1>10. CountsExact(s)' /\ OneSender(s)' /\ SizeLags(s)' /\ OneCloser(s)'
  BY <1>3, <1>5, <1>7, <1>8, <1>9 DEF SessionInv, CountsExact, OneSender, Tokens, SizeLags, OneCloser
<1>11. Woken(s)'
  <2>1. CASE pc'[w] = "again"
    BY <1>3, <1>5, <1>8, <2>1 DEF Woken
  <2>2. CASE ~isSending[s] /\ queue[s] # <<>> /\ ~(size[s] > 0)
    <3>1. Tokens(s) = 0
      BY <1>4, <1>5, <2>2 DEF OneSender
    <3>2. Taking(s) = 0
      <4>1. Sending(s) = 0
        BY <3>1, TokensNow DEF IInv
      <4>. QED  BY <4>1, Numbers DEF IInv
    <3>3. Len(queue[s]) > 0
      BY <2>2, SeqFacts DEF IInv, Typed, BuffersTyped
    <3>4. Counting(s) > 0
      BY <1>5, <2>2, <3>2, <3>3 DEF Lag
    <3>5. Waking(s)' \in Nat /\ Counting(s)' <= Waking(s)' /\ Counting(s)' \in Nat
      BY NumbersNext DEF Numbered
    <3>6. Waking(s)' > 0
      BY <1>5, <1>7, <3>4, <3>5
    <3>. QED  BY <3>6 DEF Woken
  <2>3. CASE isSending[s] \/ queue[s] = <<>>
    BY <1>3, <2>3 DEF Woken
  <2>. QED  BY <1>2, <2>1, <2>2, <2>3
<1>12. SessionInv(s)'
  BY <1>10, <1>11 DEF SessionInv
<1>13. \A r \in Slots \ {s} : Same(r)
  BY <1>3 DEF Same
<1>. QED  BY <1>1, <1>2, <1>12, <1>13, WorkerStep

LEMMA TrySendPostInCompletionStep ==
    ASSUME IInv, Typed', NEW w \in Workers, TrySendPostInCompletion(w)
    PROVE  \A r \in Slots : SessionInv(r)'
<1>1. PICK s \in Slots : slot[w] = s
  BY Busy DEF TrySendPostInCompletion, IInv, Typed
<1>2. slot' = slot /\ owes' = owes
      /\ UNCHANGED <<state, receiving, queue, size, sendPackets, inFlight, posted>>
  BY DEF TrySendPostInCompletion, workVars, ioVars
<1>3. pc[w] = "again" /\ state[s] = "live"
  BY <1>1, Referenced DEF TrySendPostInCompletion
<1>4. /\ SessionInv(s) /\ OneSender(s) /\ Closing(s) = 0
      /\ Lag(size[s], Len(queue[s]), Counting(s), Taking(s))
      /\ Sending(s) \in Nat /\ Taking(s) \in Nat /\ Waking(s) \in Nat /\ Closing(s) \in Nat /\ Owed(s) \in Nat
      /\ Posts(s) \in Nat /\ Len(inFlight[s]) \in Nat
  BY <1>3, LiveNow DEF IInv
<1>5. Posts(s)' = Posts(s) /\ Rcv(s)' = Rcv(s)
  BY <1>2 DEF Posts, Rcv
<1>6. CASE isSending[s]
  <2>1. Step(w, "again", "dec") /\ UNCHANGED <<isSending, refs>>
    BY <1>1, <1>6 DEF TrySendPostInCompletion
  <2>2. /\ Alone(w) /\ pc[w] = "again" /\ pc'[w] = "dec" /\ slot'[w] = s /\ owes[w] \in Nat /\ owes'[w] = owes[w]
    BY <1>1, <1>2, <2>1, WorkerMoves
  <2>3. Load(w, s) = owes[w] /\ Load(w, s)' = owes[w]
    BY <1>1, <2>2 DEF Load, Returns
  <2>4. /\ Sending(s)' = Sending(s) + 0 - 0 /\ Taking(s)' = Taking(s) + 0 - 0
        /\ Closing(s)' = Closing(s) + 0 - 0
        /\ Owed(s)' = Owed(s) + owes[w] - owes[w]
        /\ Holding(s)' = Holding(s) /\ Counting(s)' = Counting(s)
    BY <1>1, <2>2, <2>3, WorkerCounts DEF B, SendLabels, TakeLabels, CloseLabels
  <2>5. /\ Sending(s)' = Sending(s) /\ Taking(s)' = Taking(s)
        /\ Closing(s)' = Closing(s) /\ Owed(s)' = Owed(s)
    BY <1>4, <2>2, <2>4
  <2>6. CountsExact(s)' /\ OneSender(s)' /\ SizeLags(s)' /\ OneCloser(s)' /\ Woken(s)'
    BY <1>2, <1>4, <1>5, <1>6, <2>1, <2>4, <2>5
       DEF SessionInv, CountsExact, OneSender, Tokens, SizeLags, OneCloser, Woken
  <2>7. \A r \in Slots \ {s} : Same(r)
    BY <1>2, <2>1 DEF Same
  <2>8. SessionInv(s)'
    BY <2>6 DEF SessionInv
  <2>. QED  BY <1>1, <2>2, <2>7, <2>8, WorkerStep
<1>7. CASE ~isSending[s]
  <2>1. /\ Step(w, "again", "pop") /\ isSending' = [isSending EXCEPT ![s] = TRUE]
        /\ refs' = [refs EXCEPT ![s] = @ + 1]
    BY <1>1, <1>7 DEF TrySendPostInCompletion
  <2>2. /\ Alone(w) /\ pc[w] = "again" /\ pc'[w] = "pop" /\ slot'[w] = s /\ owes[w] = 1 /\ owes'[w] = 1
    <3>1. Alone(w) /\ pc[w] = "again" /\ pc'[w] = "pop" /\ slot'[w] = s /\ owes'[w] = owes[w]
      BY <1>1, <1>2, <2>1, WorkerMoves
    <3>. QED  BY <3>1 DEF IInv, Typed, ThreadsOK, WorkerOK
  <2>3. Load(w, s) = 1 /\ Load(w, s)' = 2
    BY <1>1, <2>2 DEF Load, Returns
  <2>4. /\ Sending(s)' = Sending(s) + 1 - 0 /\ Taking(s)' = Taking(s) + 0 - 0
        /\ Closing(s)' = Closing(s) + 0 - 0
        /\ Owed(s)' = Owed(s) + 2 - 1
        /\ Holding(s)' = Holding(s) /\ Counting(s)' = Counting(s)
    BY <1>1, <2>2, <2>3, WorkerCounts DEF B, SendLabels, TakeLabels, CloseLabels
  <2>5. /\ Sending(s)' = Sending(s) + 1 /\ Taking(s)' = Taking(s)
        /\ Closing(s)' = 0 /\ Owed(s)' = Owed(s) + 1
    BY <1>4, <2>4
  <2>6. isSending'[s] /\ refs'[s] = refs[s] + 1
    BY <2>1 DEF IInv, Typed, SessionsTyped
  <2>7. NewSum(refs'[s], Rcv(s)', Len(inFlight'[s]), Posts(s)', Holding(s)', Owed(s)')
    <3>1. NewSum(refs[s] + 1, Rcv(s), Len(inFlight[s]), Posts(s), Holding(s), Owed(s) + 1)
      BY <1>3, LiveNow, SumMoves
    <3>. QED  BY <1>2, <1>5, <2>4, <2>5, <2>6, <3>1
  <2>8. OneSender(s)'
    <3>1. Tokens(s) = 0
      BY <1>3, <1>4, <1>7 DEF OneSender
    <3>2. Total(Len(inFlight[s]), Posts(s), Sending(s)) = 0
      BY <3>1, TokensTotal
    <3>3. NewTotal(Len(inFlight[s]), Posts(s), Sending(s) + 1) = Total(Len(inFlight[s]), Posts(s), Sending(s)) + 1
      BY <1>4, SMTT(30) DEF Total, NewTotal
    <3>4. Tokens(s)' = NewTotal(Len(inFlight[s]), Posts(s), Sending(s) + 1)
      BY <1>2, <1>5, <2>5, TokensTotal
    <3>5. Tokens(s)' = 1
      BY <3>2, <3>3, <3>4
    <3>. QED  BY <1>2, <1>4, <2>6, <3>5 DEF OneSender
  <2>9. Woken(s)' /\ NewLag(size'[s], Len(queue'[s]), Counting(s)', Taking(s)')
    BY <1>2, <1>4, <2>4, <2>5, <2>6 DEF Woken, Lag, NewLag
  <2>10. SessionInv(s)'
    BY <1>2, <1>3, <2>5, <2>7, <2>8, <2>9, LiveNext
  <2>11. \A r \in Slots \ {s} : Same(r)
    BY <1>2, <2>1 DEF Same, IInv, Typed, SessionsTyped
  <2>. QED  BY <1>1, <2>2, <2>10, <2>11, WorkerStep
<1>. QED  BY <1>6, <1>7

\* A step of Dequeue: the size is taken down, put back, or the node taken.
LEMMA DequeueInv ==
    ASSUME IInv, Typed', NEW w \in Workers, NEW s \in Slots, NEW from, NEW target,
           slot[w] = s, slot' = slot, owes' = owes, Step(w, from, target),
           \/ /\ from = "pop" /\ target \in TakeLabels
              /\ size' = [size EXCEPT ![s] = @ - 1] /\ queue' = queue
           \/ /\ from = "undo" /\ target = "transmit"
              /\ size' = [size EXCEPT ![s] = @ + 1] /\ queue' = queue
           \/ /\ from = "take" /\ target \in {"pop", "transmit"} /\ queue[s] # <<>>
              /\ queue' = [queue EXCEPT ![s] = Tail(@)] /\ size' = size,
           UNCHANGED <<state, refs, receiving, isSending, sendPackets, inFlight, posted>>
    PROVE  \A r \in Slots : SessionInv(r)'
<1>1. /\ Alone(w) /\ pc[w] = from /\ pc'[w] = target /\ slot'[w] = s /\ owes[w] \in Nat /\ owes'[w] = owes[w]
  BY WorkerMoves
<1>2. state[s] = "live" /\ isSending[s]
  BY <1>1, Owner DEF SendLabels, TakeLabels
<1>3. /\ SessionInv(s) /\ OneSender(s) /\ Closing(s) = 0
      /\ Lag(size[s], Len(queue[s]), Counting(s), Taking(s))
      /\ Sending(s) \in Nat /\ Taking(s) \in Nat /\ Closing(s) \in Nat /\ Owed(s) \in Nat
      /\ Counting(s) \in Nat /\ Len(queue[s]) \in Nat /\ size[s] \in Int
  BY <1>2, LiveNow DEF IInv
<1>4. Load(w, s) = owes[w] + 1 /\ Load(w, s)' = owes[w] + 1
  BY <1>1 DEF Load, Returns, TakeLabels
<1>5. /\ Sending(s)' = Sending(s) + 1 - 1
      /\ Taking(s)' = Taking(s) + B(target \in TakeLabels) - B(from \in TakeLabels)
      /\ Closing(s)' = Closing(s) + 0 - 0
      /\ Owed(s)' = Owed(s) + (owes[w] + 1) - (owes[w] + 1)
      /\ Holding(s)' = Holding(s) /\ Counting(s)' = Counting(s)
  <2>1. /\ B(slot'[w] = s /\ pc'[w] \in SendLabels) = 1 /\ B(slot[w] = s /\ pc[w] \in SendLabels) = 1
        /\ B(slot'[w] = s /\ pc'[w] \in TakeLabels) = B(target \in TakeLabels)
        /\ B(slot[w] = s /\ pc[w] \in TakeLabels) = B(from \in TakeLabels)
        /\ B(slot'[w] = s /\ pc'[w] \in CloseLabels) = 0 /\ B(slot[w] = s /\ pc[w] \in CloseLabels) = 0
    BY <1>1 DEF B, SendLabels, TakeLabels, CloseLabels
  <2>. QED  BY <1>1, <1>4, <2>1, WorkerCounts
<1>6. /\ Sending(s)' = Sending(s) /\ Closing(s)' = Closing(s) /\ Owed(s)' = Owed(s)
  BY <1>1, <1>3, <1>5
<1>7. Posts(s)' = Posts(s)
  BY DEF Posts
<1>8. CountsExact(s)' /\ OneSender(s)' /\ OneCloser(s)' /\ Woken(s)'
  BY <1>2, <1>3, <1>5, <1>6, <1>7 DEF SessionInv, CountsExact, OneSender, Tokens, OneCloser, Woken
<1>9. NewLag(size'[s], Len(queue'[s]), Counting(s)', Taking(s)')
  <2>1. CASE /\ from = "pop" /\ target \in TakeLabels
             /\ size' = [size EXCEPT ![s] = @ - 1] /\ queue' = queue
    <3>1. Taking(s)' = Taking(s) + 1 - 0
      BY <1>5, <2>1 DEF B, TakeLabels
    <3>2. Taking(s)' = Taking(s) + 1 /\ size'[s] = size[s] - 1
      BY <1>3, <2>1, <3>1 DEF IInv, Typed, SessionsTyped
    <3>3. NewLag(size[s] - 1, Len(queue[s]), Counting(s), Taking(s) + 1)
      BY <1>3, LagMoves
    <3>. QED  BY <1>5, <2>1, <3>2, <3>3
  <2>2. CASE /\ from = "undo" /\ target = "transmit"
             /\ size' = [size EXCEPT ![s] = @ + 1] /\ queue' = queue
    <3>1. Taking(s)' = Taking(s) + 0 - 1
      BY <1>5, <2>2 DEF B, TakeLabels
    <3>2. Taking(s)' = Taking(s) - 1 /\ size'[s] = size[s] + 1
      BY <1>3, <2>2, <3>1 DEF IInv, Typed, SessionsTyped
    <3>3. NewLag(size[s] + 1, Len(queue[s]), Counting(s), Taking(s) - 1)
      BY <1>3, LagMoves
    <3>. QED  BY <1>5, <2>2, <3>2, <3>3
  <2>3. CASE /\ from = "take" /\ target \in {"pop", "transmit"} /\ queue[s] # <<>>
             /\ queue' = [queue EXCEPT ![s] = Tail(@)] /\ size' = size
    <3>1. Taking(s)' = Taking(s) + 0 - 1
      BY <1>5, <2>3 DEF B, TakeLabels
    <3>2. Taking(s)' = Taking(s) - 1
      BY <1>3, <3>1
    <3>3. Len(queue'[s]) = Len(queue[s]) - 1
      BY <2>3, SeqFacts DEF IInv, Typed, BuffersTyped
    <3>4. NewLag(size[s], Len(queue[s]) - 1, Counting(s), Taking(s) - 1)
      BY <1>3, LagMoves
    <3>. QED  BY <1>5, <2>3, <3>2, <3>3, <3>4
  <2>. QED  BY <2>1, <2>2, <2>3
<1>10. SessionInv(s)'
  BY <1>8, <1>9 DEF SessionInv, SizeLags, NewLag
<1>11. \A r \in Slots \ {s} : Same(r)
  BY DEF Same, IInv, Typed, SessionsTyped, BuffersTyped
<1>. QED  BY <1>1, <1>10, <1>11, WorkerStep

LEMMA DequeueStep ==
    ASSUME IInv, Typed', NEW w \in Workers, DequeueCount(w) \/ DequeueFails(w) \/ DequeueTake(w)
    PROVE  \A r \in Slots : SessionInv(r)'
<1>1. PICK s \in Slots : slot[w] = s
  BY Busy DEF DequeueCount, DequeueFails, DequeueTake, Step, IInv, Typed
<1>2. UNCHANGED <<state, refs, receiving, isSending, sendPackets, inFlight, posted, slot, owes>>
  BY DEF DequeueCount, DequeueFails, DequeueTake, lifeVars, ioVars, workVars
<1>3. CASE DequeueCount(w)
  <2>. DEFINE target == IF size[s] > 0 THEN "take" ELSE "undo"
  <2>1. /\ Step(w, "pop", target)
        /\ size' = [size EXCEPT ![s] = @ - 1] /\ queue' = queue
    BY <1>1, <1>3 DEF DequeueCount
  <2>2. target \in TakeLabels
    BY DEF TakeLabels
  <2>. HIDE DEF target
  <2>. QED  BY <1>1, <1>2, <2>1, <2>2, DequeueInv
<1>4. CASE DequeueFails(w)
  <2>1. /\ Step(w, "undo", "transmit")
        /\ size' = [size EXCEPT ![s] = @ + 1] /\ queue' = queue
    BY <1>1, <1>4 DEF DequeueFails
  <2>. QED  BY <1>1, <1>2, <2>1, DequeueInv
<1>5. CASE DequeueTake(w)
  <2>. DEFINE target == IF Len(batch[w]) + 1 = SendPacketCount THEN "transmit" ELSE "pop"
  <2>1. /\ Step(w, "take", target) /\ queue[s] # <<>>
        /\ queue' = [queue EXCEPT ![s] = Tail(@)] /\ size' = size
    BY <1>1, <1>5 DEF DequeueTake
  <2>2. target \in {"pop", "transmit"}
    OBVIOUS
  <2>. HIDE DEF target
  <2>. QED  BY <1>1, <1>2, <2>1, <2>2, DequeueInv
<1>. QED  BY <1>3, <1>4, <1>5

\* A worker leaves SendPost and has n references to return.
LEMMA Leaves ==
    ASSUME IInv, Typed', NEW w \in Workers, NEW n \in Nat, Finish(w, "transmit", n)
    PROVE  /\ Alone(w) /\ pc[w] = "transmit" /\ pc'[w] \in {"idle", "dec"}
           /\ slot'[w] \in {slot[w], NoSlot} /\ owes[w] \in Nat
           /\ \A s \in Slots : slot[w] = s =>
                /\ Load(w, s) = owes[w] + 1 /\ Load(w, s)' = n
                /\ Sending(s)' = Sending(s) - 1 /\ Taking(s)' = Taking(s) /\ Closing(s)' = Closing(s)
                /\ n = owes[w] => Owed(s)' = Owed(s) - 1
                /\ n = owes[w] + 1 => Owed(s)' = Owed(s)
                /\ Holding(s)' = Holding(s) /\ Counting(s)' = Counting(s)
<1>1. /\ Alone(w) /\ pc[w] = "transmit" /\ pc'[w] = (IF n = 0 THEN "idle" ELSE "dec")
      /\ slot'[w] = (IF n = 0 THEN NoSlot ELSE slot[w]) /\ owes[w] \in Nat /\ owes'[w] = n
  BY ThreadFacts, Busy DEF Finish, Step, Alone, IInv, Typed
<1>2. ASSUME NEW s \in Slots, slot[w] = s
      PROVE  /\ Load(w, s) = owes[w] + 1 /\ Load(w, s)' = n
             /\ Sending(s)' = Sending(s) - 1 /\ Taking(s)' = Taking(s) /\ Closing(s)' = Closing(s)
             /\ n = owes[w] => Owed(s)' = Owed(s) - 1
             /\ n = owes[w] + 1 => Owed(s)' = Owed(s)
             /\ Holding(s)' = Holding(s) /\ Counting(s)' = Counting(s)
  <2>1. Load(w, s) = owes[w] + 1
    BY <1>1, <1>2 DEF Load, Returns
  <2>2. Load(w, s)' = n
    <3>1. CASE n = 0
      BY <1>1, <3>1, ThreadFacts DEF Load
    <3>2. CASE n # 0
      <4>1. Returns(w)' = n
        BY <1>1, <3>2 DEF Returns
      <4>. QED  BY <1>1, <1>2, <3>2, <4>1 DEF Load
    <3>. QED  BY <3>1, <3>2
  <2>3. /\ Sending(s)' = Sending(s) + 0 - 1 /\ Taking(s)' = Taking(s) + 0 - 0
        /\ Closing(s)' = Closing(s) + 0 - 0
        /\ Owed(s)' = Owed(s) + n - (owes[w] + 1)
        /\ Holding(s)' = Holding(s) /\ Counting(s)' = Counting(s)
    <3>1. /\ B(slot'[w] = s /\ pc'[w] \in SendLabels) = 0 /\ B(slot[w] = s /\ pc[w] \in SendLabels) = 1
          /\ B(slot'[w] = s /\ pc'[w] \in TakeLabels) = 0 /\ B(slot[w] = s /\ pc[w] \in TakeLabels) = 0
          /\ B(slot'[w] = s /\ pc'[w] \in CloseLabels) = 0 /\ B(slot[w] = s /\ pc[w] \in CloseLabels) = 0
      BY <1>1, <1>2 DEF B, SendLabels, TakeLabels, CloseLabels
    <3>. QED  BY <1>1, <2>1, <2>2, <3>1, WorkerCounts
  <2>4. /\ Sending(s) \in Nat /\ Taking(s) \in Nat /\ Closing(s) \in Nat /\ Owed(s) \in Nat
    BY Numbers DEF IInv
  <2>. DEFINE o == Owed(s)
              o1 == Owed(s)'
              k == owes[w]
  <2>5. o \in Nat /\ k \in Nat /\ o1 = o + n - (k + 1)
    BY <1>1, <2>3, <2>4
  <2>. HIDE DEF o, o1, k
  <2>6. (n = k => o1 = o - 1) /\ (n = k + 1 => o1 = o)
    BY <2>5
  <2>7. /\ Sending(s)' = Sending(s) - 1 /\ Taking(s)' = Taking(s) /\ Closing(s)' = Closing(s)
    BY <2>3, <2>4
  <2>. QED  BY <2>1, <2>2, <2>3, <2>6, <2>7 DEF o, o1, k
<1>. QED  BY <1>1, <1>2

LEMMA PostSendingCheckStep ==
    ASSUME IInv, Typed', NEW w \in Workers, PostSendingCheck(w)
    PROVE  \A r \in Slots : SessionInv(r)'
<1>0. pc[w] = "transmit"
  BY DEF PostSendingCheck, Finish, Step
<1>1. PICK s \in Slots : slot[w] = s
  BY <1>0, Busy DEF IInv, Typed
<1>2. /\ Finish(w, "transmit", owes[w]) /\ Post(s, "check") /\ owes[w] \in Nat
      /\ UNCHANGED <<state, refs, receiving, isSending, queue, size, sendPackets, inFlight>>
  BY <1>1, Busy DEF PostSendingCheck, lifeVars, bufferVars, IInv, Typed
<1>3. /\ Alone(w) /\ slot'[w] \in {s, NoSlot}
      /\ Sending(s)' = Sending(s) - 1 /\ Taking(s)' = Taking(s) /\ Closing(s)' = Closing(s)
      /\ Owed(s)' = Owed(s) - 1 /\ Holding(s)' = Holding(s) /\ Counting(s)' = Counting(s)
  BY <1>1, <1>2, Leaves
<1>4. /\ state[s] = "live" /\ isSending[s] /\ Tokens(s) = 1
      /\ inFlight[s] = <<>> /\ \A k \in Completions : posted[s][k] = 0
  BY <1>0, <1>1, Owner DEF SendLabels
<1>5. /\ Closing(s) = 0 /\ Lag(size[s], Len(queue[s]), Counting(s), Taking(s))
      /\ Sending(s) \in Nat /\ Posts(s) \in Nat /\ Len(inFlight[s]) \in Nat
  BY <1>4, LiveNow
<1>6. /\ Posts(s)' = Posts(s) + 1
      /\ \A j \in Completions \ {"check"} : posted'[s][j] = posted[s][j]
      /\ \A r \in Slots \ {s} : posted'[r] = posted[r]
  BY <1>2, PostsMove DEF IInv, Typed, Completions
<1>7. NewSum(refs'[s], Rcv(s)', Len(inFlight'[s]), Posts(s)', Holding(s)', Owed(s)')
  <2>1. NewSum(refs[s], Rcv(s), Len(inFlight[s]), Posts(s) + 1, Holding(s), Owed(s) - 1)
    BY <1>4, LiveNow, SumMoves
  <2>2. Rcv(s)' = Rcv(s)
    BY <1>2 DEF Rcv
  <2>. QED  BY <1>2, <1>3, <1>6, <2>1, <2>2
<1>8. OneSender(s)'
  <2>1. Total(Len(inFlight[s]), Posts(s), Sending(s)) = 1
    BY <1>4, TokensTotal
  <2>2. NewTotal(Len(inFlight[s]), Posts(s) + 1, Sending(s) - 1) = Total(Len(inFlight[s]), Posts(s), Sending(s))
    BY <1>5, TotalMoves
  <2>3. Tokens(s)' = NewTotal(Len(inFlight[s]), Posts(s) + 1, Sending(s) - 1)
    BY <1>2, <1>3, <1>6, TokensTotal
  <2>4. Tokens(s)' = 1
    BY <2>1, <2>2, <2>3
  <2>5. inFlight'[s] = <<>> /\ ~(posted'[s]["sent"] > 0) /\ ~(posted'[s]["zero"] > 0) /\ isSending'[s]
    BY <1>2, <1>4, <1>6 DEF Completions
  <2>. QED  BY <2>4, <2>5 DEF OneSender
<1>9. Woken(s)' /\ NewLag(size'[s], Len(queue'[s]), Counting(s)', Taking(s)')
  BY <1>2, <1>3, <1>4, <1>5 DEF Woken, Lag, NewLag
<1>10. SessionInv(s)'
  BY <1>2, <1>3, <1>4, <1>5, <1>7, <1>8, <1>9, LiveNext
<1>11. \A r \in Slots \ {s} : Same(r)
  BY <1>2, <1>6 DEF Same
<1>. QED  BY <1>1, <1>3, <1>10, <1>11, WorkerStep

LEMMA WSASendStep ==
    ASSUME IInv, Typed', NEW w \in Workers, NEW accepted \in BOOLEAN, WSASend(w, accepted)
    PROVE  \A r \in Slots : SessionInv(r)'
<1>0. pc[w] = "transmit"
  BY DEF WSASend, Finish, Step
<1>1. PICK s \in Slots : slot[w] = s
  BY <1>0, Busy DEF IInv, Typed
<1>2. /\ sendPackets' = [sendPackets EXCEPT ![s] = batch[w]] /\ batch[w] # <<>> /\ owes[w] \in Nat
      /\ UNCHANGED <<state, refs, receiving, isSending, queue, size, posted>>
      /\ batch[w] \in Seq(Nat)
  <2>1. /\ sendPackets' = [sendPackets EXCEPT ![s] = batch[w]] /\ batch[w] # <<>>
        /\ UNCHANGED <<state, refs, receiving, isSending, queue, size, posted>>
    BY <1>1 DEF WSASend, lifeVars
  <2>2. owes[w] \in Nat
    BY Busy DEF IInv, Typed
  <2>3. batch[w] \in Seq(Nat)
    BY DEF IInv, Typed, BuffersTyped
  <2>. QED  BY <2>1, <2>2, <2>3
<1>3. /\ Alone(w) /\ slot'[w] \in {s, NoSlot}
      /\ Sending(s)' = Sending(s) - 1 /\ Taking(s)' = Taking(s) /\ Closing(s)' = Closing(s)
      /\ accepted => Owed(s)' = Owed(s) - 1
      /\ ~accepted => Owed(s)' = Owed(s)
      /\ Holding(s)' = Holding(s) /\ Counting(s)' = Counting(s)
  <2>1. CASE accepted
    <3>1. Finish(w, "transmit", owes[w])
      BY <2>1 DEF WSASend
    <3>. QED  BY <1>1, <1>2, <2>1, <3>1, Leaves
  <2>2. CASE ~accepted
    <3>1. Finish(w, "transmit", owes[w] + 1) /\ owes[w] + 1 \in Nat
      BY <1>2, <2>2 DEF WSASend
    <3>. QED  BY <1>1, <2>2, <3>1, Leaves
  <2>. QED  BY <2>1, <2>2
<1>4. /\ state[s] = "live" /\ isSending[s] /\ Tokens(s) = 1
      /\ inFlight[s] = <<>> /\ \A k \in Completions : posted[s][k] = 0
  BY <1>0, <1>1, Owner DEF SendLabels
<1>5. /\ Closing(s) = 0 /\ Lag(size[s], Len(queue[s]), Counting(s), Taking(s))
      /\ Sending(s) \in Nat /\ Posts(s) \in Nat /\ Len(inFlight[s]) \in Nat
  BY <1>4, LiveNow
<1>6. Posts(s)' = Posts(s) /\ Rcv(s)' = Rcv(s)
  BY <1>2 DEF Posts, Rcv
<1>7. sendPackets'[s] # <<>> /\ \A r \in Slots \ {s} : sendPackets'[r] = sendPackets[r]
  BY <1>2 DEF IInv, Typed, BuffersTyped
<1>8. Woken(s)' /\ NewLag(size'[s], Len(queue'[s]), Counting(s)', Taking(s)')
  BY <1>2, <1>3, <1>4, <1>5 DEF Woken, Lag, NewLag
<1>9. Total(Len(inFlight[s]), Posts(s), Sending(s)) = 1
  BY <1>4, TokensTotal
<1>10. CASE accepted
  <2>1. /\ Len(inFlight'[s]) = Len(inFlight[s]) + 1
        /\ \A r \in Slots \ {s} : inFlight'[r] = inFlight[r]
    BY <1>1, <1>2, <1>10, BatchFacts DEF WSASend, IInv, Typed, BuffersTyped
  <2>2. NewSum(refs'[s], Rcv(s)', Len(inFlight'[s]), Posts(s)', Holding(s)', Owed(s)')
    <3>1. NewSum(refs[s], Rcv(s), Len(inFlight[s]) + 1, Posts(s), Holding(s), Owed(s) - 1)
      BY <1>4, LiveNow, SumMoves, ZenonT(60)
    <3>. QED  BY <1>2, <1>3, <1>6, <1>10, <2>1, <3>1
  <2>3. OneSender(s)'
    <3>1. NewTotal(Len(inFlight[s]) + 1, Posts(s), Sending(s) - 1) = Total(Len(inFlight[s]), Posts(s), Sending(s))
      BY <1>5, TotalMoves, ZenonT(60)
    <3>2. Tokens(s)' = NewTotal(Len(inFlight[s]) + 1, Posts(s), Sending(s) - 1)
      BY <1>3, <1>6, <2>1, TokensTotal
    <3>3. Tokens(s)' = 1
      BY <1>9, <3>1, <3>2
    <3>. QED  BY <1>2, <1>4, <1>7, <3>3 DEF OneSender
  <2>4. SessionInv(s)'
    BY <1>2, <1>3, <1>4, <1>5, <1>8, <2>2, <2>3, LiveNext
  <2>5. \A r \in Slots \ {s} : Same(r)
    BY <1>2, <1>7, <2>1 DEF Same
  <2>. QED  BY <1>1, <1>3, <2>4, <2>5, WorkerStep
<1>11. CASE ~accepted
  <2>1. inFlight' = inFlight
    BY <1>11 DEF WSASend
  <2>2. NewSum(refs'[s], Rcv(s)', Len(inFlight'[s]), Posts(s)', Holding(s)', Owed(s)')
    <3>1. Sum(refs[s], Rcv(s), Len(inFlight[s]), Posts(s), Holding(s), Owed(s))
      BY <1>4, LiveNow
    <3>2. NewSum(refs[s], Rcv(s), Len(inFlight[s]), Posts(s), Holding(s), Owed(s))
      BY <3>1 DEF Sum, NewSum
    <3>. QED  BY <1>2, <1>3, <1>6, <1>11, <2>1, <3>2
  <2>3. OneSender(s)'
    <3>1. NewTotal(Len(inFlight[s]), Posts(s), Sending(s) - 1) = Total(Len(inFlight[s]), Posts(s), Sending(s)) - 1
      BY <1>5, TotalMoves, ZenonT(60)
    <3>2. Tokens(s)' = NewTotal(Len(inFlight[s]), Posts(s), Sending(s) - 1)
      BY <1>3, <1>6, <2>1, TokensTotal
    <3>3. Tokens(s)' = 0
      BY <1>9, <3>1, <3>2
    <3>. QED  BY <1>2, <1>4, <1>7, <3>3 DEF OneSender
  <2>4. SessionInv(s)'
    BY <1>2, <1>3, <1>4, <1>5, <1>8, <2>2, <2>3, LiveNext
  <2>5. \A r \in Slots \ {s} : Same(r)
    BY <1>2, <1>7, <2>1 DEF Same
  <2>. QED  BY <1>1, <1>3, <2>4, <2>5, WorkerStep
<1>. QED  BY <1>10, <1>11

LEMMA DecrementIOCountStep ==
    ASSUME IInv, Typed', NEW w \in Workers, DecrementIOCount(w)
    PROVE  \A r \in Slots : SessionInv(r)'
<1>1. PICK s \in Slots : slot[w] = s
  BY Busy DEF DecrementIOCount, IInv, Typed
<1>2. /\ pc[w] = "dec" /\ Released(s)
      /\ UNCHANGED <<receiving, isSending, queue, size, sendPackets, inFlight, posted>>
  BY <1>1 DEF DecrementIOCount, bufferVars, ioVars
<1>3. state[s] = "live" /\ refs[s] >= owes[w] /\ owes[w] \in {1, 2}
  <2>1. owes[w] \in {1, 2}
    BY <1>2 DEF IInv, Typed, ThreadsOK, WorkerOK
  <2>2. state[s] = "live" /\ refs[s] >= Returns(w)
    BY <1>1, <1>2, Referenced
  <2>3. Returns(w) = owes[w]
    BY <1>2, <2>1 DEF Returns
  <2>. QED  BY <2>1, <2>2, <2>3
<1>4. state'[s] = "closing" <=> refs[s] = 1
  BY <1>2, <1>3 DEF Released, IInv, Typed, SessionsTyped
<1>5. /\ Closing(s) = 0 /\ Sending(s) \in Nat /\ Taking(s) \in Nat /\ Waking(s) \in Nat
      /\ Holding(s) \in Nat /\ Owed(s) \in Nat
  BY <1>3, LiveNow
<1>6. /\ Alone(w) /\ slot'[w] \in {s, NoSlot}
      /\ \/ /\ state'[s] = "closing" /\ pc'[w] = "close" /\ slot'[w] = s /\ owes[w] = 1
         \/ /\ state'[s] # "closing" /\ owes[w] = 1 /\ pc'[w] = "idle" /\ slot'[w] = NoSlot
         \/ /\ state'[s] # "closing" /\ owes[w] = 2 /\ pc'[w] = "dec" /\ slot'[w] = s /\ owes'[w] = 1
  <2>1. CASE state'[s] = "closing"
    <3>1. Step(w, "dec", "close") /\ UNCHANGED <<slot, owes>>
      BY <1>1, <2>1 DEF DecrementIOCount
    <3>2. owes[w] = 1
      BY <1>3, <1>4, <2>1
    <3>. QED  BY <1>1, <2>1, <3>1, <3>2, ThreadFacts, Busy DEF Step, Alone, IInv, Typed
  <2>2. CASE state'[s] # "closing"
    <3>1. Finish(w, "dec", owes[w] - 1)
      BY <1>1, <2>2 DEF DecrementIOCount
    <3>. QED  BY <1>1, <1>3, <2>2, <3>1, ThreadFacts, Busy DEF Finish, Step, Alone, IInv, Typed
  <2>. QED  BY <2>1, <2>2
<1>7. Load(w, s) = owes[w] /\ Load(w, s)' = owes[w] - 1
  <2>1. Load(w, s) = owes[w]
    BY <1>1, <1>2, <1>3 DEF Load, Returns
  <2>2. Load(w, s)' = IF owes[w] = 2 THEN 1 ELSE 0
    BY <1>6, ThreadFacts DEF Load, Returns
  <2>. QED  BY <1>3, <2>1, <2>2
<1>8. /\ Sending(s)' = Sending(s) + 0 - 0 /\ Taking(s)' = Taking(s) + 0 - 0
      /\ Waking(s)' = Waking(s) + 0 - 0
      /\ Closing(s)' = Closing(s) + B(state'[s] = "closing") - 0
      /\ Owed(s)' = Owed(s) + (owes[w] - 1) - owes[w]
      /\ Holding(s)' = Holding(s) /\ Counting(s)' = Counting(s)
  <2>1. /\ B(slot'[w] = s /\ pc'[w] \in SendLabels) = 0 /\ B(slot[w] = s /\ pc[w] \in SendLabels) = 0
        /\ B(slot'[w] = s /\ pc'[w] \in TakeLabels) = 0 /\ B(slot[w] = s /\ pc[w] \in TakeLabels) = 0
        /\ B(slot'[w] = s /\ pc'[w] \in WakeLabels) = 0 /\ B(slot[w] = s /\ pc[w] \in WakeLabels) = 0
        /\ B(slot'[w] = s /\ pc'[w] \in CloseLabels) = B(state'[s] = "closing")
        /\ B(slot[w] = s /\ pc[w] \in CloseLabels) = 0
    BY <1>2, <1>6, ThreadFacts DEF B, SendLabels, TakeLabels, WakeLabels, CloseLabels
  <2>. QED  BY <1>6, <1>7, <2>1, WorkerCounts
<1>9. /\ Sending(s)' = Sending(s) /\ Taking(s)' = Taking(s) /\ Waking(s)' = Waking(s)
      /\ Closing(s)' = (IF refs[s] = 1 THEN 1 ELSE 0) /\ Owed(s)' = Owed(s) - 1
  BY <1>3, <1>4, <1>5, <1>8 DEF B
<1>10. Fewer(Holding(s), Owed(s), Holding(s)', Owed(s)')
  <2>1. Fewer(Holding(s), Owed(s), Holding(s), Owed(s) - 1)
    BY <1>5, FewerMoves
  <2>. QED  BY <1>8, <1>9, <2>1
<1>11. SessionInv(s)'
  BY <1>2, <1>3, <1>8, <1>9, <1>10, ReleasedInv
<1>12. \A r \in Slots \ {s} : Same(r)
  BY <1>2 DEF Same, Released, IInv, Typed, SessionsTyped
<1>. QED  BY <1>1, <1>6, <1>11, <1>12, WorkerStep

-----------------------------------------------------------------------------
(* The rest of ReleaseSession, the kernel and the accept thread.           *)

\* The numbers of a session nobody works for, when it is closed or opened.
LEMMA Nobody ==
    ASSUME IInv, NEW s \in Slots, state[s] # "live"
    PROVE  /\ refs[s] = 0 /\ ~receiving[s] /\ inFlight[s] = <<>> /\ Posts(s) = 0
           /\ Holding(s) = 0 /\ Owed(s) = 0 /\ Sending(s) = 0 /\ Counting(s) = 0 /\ Taking(s) = 0
           /\ size[s] = Len(queue[s])
           /\ Closing(s) = IF state[s] = "closing" THEN 1 ELSE 0
           /\ \A k \in Completions : posted[s][k] = 0
<1>1. /\ CountsExact(s) /\ OneCloser(s) /\ size[s] = Len(queue[s]) /\ Counting(s) = 0 /\ Taking(s) = 0
  BY NobodyAtQueue DEF IInv, SessionInv
<1>2. \A k \in Completions : posted[s][k] = 0
  <2>. DEFINE a == posted[s]["sendpost"]
              b == posted[s]["sent"]
              c == posted[s]["zero"]
              d == posted[s]["check"]
  <2>1. /\ a \in Nat /\ b \in Nat /\ c \in Nat /\ d \in Nat
    BY DEF IInv, Typed, SessionsTyped, Completions
  <2>2. a + b + c + d = 0
    BY <1>1 DEF CountsExact, Posts
  <2>. HIDE DEF a, b, c, d
  <2>3. a = 0 /\ b = 0 /\ c = 0 /\ d = 0
    BY <2>1, <2>2
  <2>. QED  BY <2>3 DEF Completions, a, b, c, d
<1>. QED  BY <1>1, <1>2 DEF CountsExact, OneCloser

\* The emptied buffers of a session.
Cleared(s) ==
    /\ queue' = [queue EXCEPT ![s] = <<>>] /\ size' = [size EXCEPT ![s] = 0]
    /\ sendPackets' = [sendPackets EXCEPT ![s] = <<>>]
    /\ isSending' = [isSending EXCEPT ![s] = FALSE]

LEMMA ClosedInv ==
    ASSUME IInv, Typed', NEW s \in Slots, state[s] = "closing", Cleared(s),
           state' = [state EXCEPT ![s] = "free"], UNCHANGED <<refs, receiving, inFlight, posted>>,
           Holding(s)' = Holding(s), Owed(s)' = Owed(s), Sending(s)' = Sending(s),
           Counting(s)' = Counting(s), Taking(s)' = Taking(s), Closing(s)' = Closing(s) - 1
    PROVE  SessionInv(s)' /\ \A r \in Slots \ {s} : Same(r)
<1>1. /\ refs[s] = 0 /\ ~receiving[s] /\ inFlight[s] = <<>> /\ Posts(s) = 0
      /\ Holding(s) = 0 /\ Owed(s) = 0 /\ Sending(s) = 0 /\ Counting(s) = 0 /\ Taking(s) = 0
      /\ Closing(s) = 1 /\ \A k \in Completions : posted[s][k] = 0
  BY Nobody
<1>2. state'[s] = "free" /\ queue'[s] = <<>> /\ size'[s] = 0
  BY DEF Cleared, IInv, Typed, SessionsTyped, BuffersTyped
<1>3. Posts(s)' = Posts(s)
  BY DEF Posts
<1>4. CountsExact(s)' /\ Woken(s)'
  BY <1>1, <1>2, <1>3 DEF CountsExact, Woken
<1>5. OneSender(s)'
  BY <1>1, <1>2 DEF OneSender, Completions
<1>6. OneCloser(s)'
  BY <1>1, <1>2 DEF OneCloser
<1>7. SizeLags(s)'
  BY <1>1, <1>2 DEF SizeLags
<1>8. \A r \in Slots \ {s} : Same(r)
  BY DEF Same, Cleared, IInv, Typed, SessionsTyped, BuffersTyped
<1>. QED  BY <1>4, <1>5, <1>6, <1>7, <1>8 DEF SessionInv

LEMMA CloseSessionStep ==
    ASSUME IInv, Typed', NEW t \in Threads, CloseSession(t)
    PROVE  \A r \in Slots : SessionInv(r)'
<1>0. pc[t] \in CloseLabels
  BY DEF CloseSession, CloseLabels
<1>1. PICK s \in Slots : slot[t] = s /\ state[s] = "closing" /\ Closing(s) = 1
  BY <1>0, Referenced
<1>2. /\ state' = [state EXCEPT ![s] = "free"] /\ Emptied(s)
      /\ isSending' = [isSending EXCEPT ![s] = FALSE]
      /\ UNCHANGED <<refs, receiving, inFlight, posted>>
  BY <1>1 DEF CloseSession, ioVars
<1>3. Cleared(s)
  BY <1>1, <1>2, NobodyAtQueue, EmptiedAll DEF Cleared, IInv, Typed
<1>4. CASE t \in Workers
  <2>1. pc[t] = "close" /\ owes[t] = 1 /\ Finish(t, "close", 0)
    <3>1. Finish(t, "close", owes[t] - 1)
      BY <1>4 DEF CloseSession
    <3>2. pc[t] = "close" /\ owes[t] = 1
      BY <1>4, <3>1 DEF Finish, Step, IInv, Typed, ThreadsOK, WorkerOK
    <3>. QED  BY <3>1, <3>2
  <2>2. Alone(t) /\ pc'[t] = "idle" /\ slot'[t] = NoSlot /\ slot'[t] # s
    BY <1>4, <2>1, ThreadFacts, Busy DEF Finish, Step, Alone, IInv, Typed
  <2>3. Load(t, s) = 0 /\ Load(t, s)' = 0
    BY <2>1, <2>2 DEF Load
  <2>4. /\ Sending(s)' = Sending(s) + 0 - 0 /\ Taking(s)' = Taking(s) + 0 - 0
        /\ Closing(s)' = Closing(s) + 0 - 1
        /\ Owed(s)' = Owed(s) + 0 - 0
        /\ Holding(s)' = Holding(s) /\ Counting(s)' = Counting(s)
    BY <1>1, <1>4, <2>1, <2>2, <2>3, WorkerCounts DEF B, SendLabels, TakeLabels, CloseLabels
  <2>5. /\ Sending(s)' = Sending(s) /\ Taking(s)' = Taking(s) /\ Owed(s)' = Owed(s)
        /\ Closing(s)' = Closing(s) - 1
    BY <1>1, <2>4, Nobody
  <2>6. SessionInv(s)' /\ \A r \in Slots \ {s} : Same(r)
    BY <1>1, <1>2, <1>3, <2>4, <2>5, ClosedInv
  <2>. QED  BY <1>1, <1>4, <2>2, <2>6, WorkerStep
<1>5. CASE t \in Senders
  <2>1. t \notin Workers
    BY <1>5, ThreadFacts
  <2>2. /\ pc'[t] \in {"idle", "find", "disconnect"} /\ slot'[t] \in {s, NoSlot} /\ owes' = owes
        /\ \A u \in Threads \ {t} : pc'[u] = pc[u] /\ slot'[u] = slot[u]
    <3>1. CASE pc[t] = "close"
      <4>1. Served(t, "close") /\ owes' = owes
        BY <2>1, <3>1 DEF CloseSession
      <4>. QED  BY <4>1, ThreadFacts, Busy DEF Served, Step, IInv, Typed
    <3>2. CASE pc[t] # "close"
      <4>1. Step(t, "closefull", "disconnect") /\ slot' = slot /\ owes' = owes
        BY <2>1, <3>2 DEF CloseSession
      <4>. QED  BY <1>1, <4>1, ThreadFacts, Busy DEF Step, IInv, Typed
    <3>. QED  BY <3>1, <3>2
  <2>3. /\ Holding(s)' = Holding(s) + 0 - 0 /\ Counting(s)' = Counting(s) + 0 - 0
        /\ Closing(s)' = Closing(s) + 0 - 1
        /\ Sending(s)' = Sending(s) /\ Taking(s)' = Taking(s) /\ Owed(s)' = Owed(s)
    <3>1. /\ Holding(s)' = Holding(s) + B(slot'[t] = s /\ pc'[t] \in HoldLabels)
                                      - B(slot[t] = s /\ pc[t] \in HoldLabels)
          /\ Counting(s)' = Counting(s) + B(slot'[t] = s /\ pc'[t] = "count")
                                        - B(slot[t] = s /\ pc[t] = "count")
          /\ Closing(s)' = Closing(s) + B(slot'[t] = s /\ pc'[t] \in CloseLabels)
                                      - B(slot[t] = s /\ pc[t] \in CloseLabels)
          /\ Sending(s)' = Sending(s) /\ Taking(s)' = Taking(s) /\ Owed(s)' = Owed(s)
      BY <1>5, <2>2, SenderCounts
    <3>2. /\ B(slot'[t] = s /\ pc'[t] \in HoldLabels) = 0 /\ B(slot[t] = s /\ pc[t] \in HoldLabels) = 0
          /\ B(slot'[t] = s /\ pc'[t] = "count") = 0 /\ B(slot[t] = s /\ pc[t] = "count") = 0
          /\ B(slot'[t] = s /\ pc'[t] \in CloseLabels) = 0
          /\ B(slot[t] = s /\ pc[t] \in CloseLabels) = 1
      BY <1>0, <1>1, <2>2 DEF B, HoldLabels, CloseLabels
    <3>. QED  BY <3>1, <3>2
  <2>4. Holding(s)' = Holding(s) /\ Counting(s)' = Counting(s) /\ Closing(s)' = Closing(s) - 1
    BY <1>1, <2>3, Nobody
  <2>5. SessionInv(s)' /\ \A r \in Slots \ {s} : Same(r)
    BY <1>1, <1>2, <1>3, <2>3, <2>4, ClosedInv
  <2>. QED  BY <1>1, <1>5, <2>2, <2>5, SenderStep
<1>. QED  BY <1>4, <1>5 DEF Threads

LEMMA KernelStep ==
    ASSUME IInv, Typed', NEW s \in Slots, KernelSends(s) \/ KernelFails(s)
    PROVE  \A r \in Slots : SessionInv(r)'
<1>1. /\ UNCHANGED <<state, refs, receiving, isSending, queue, size, sendPackets>>
      /\ UNCHANGED <<pc, slot, owes>>
      /\ inFlight[s] # <<>> /\ inFlight' = [inFlight EXCEPT ![s] = Tail(@)]
      /\ Post(s, "sent") \/ Post(s, "zero")
  BY DEF KernelSends, KernelFails, lifeVars, bufferVars, workVars
<1>2. /\ Holding(s)' = Holding(s) /\ Sending(s)' = Sending(s) /\ Counting(s)' = Counting(s)
      /\ Taking(s)' = Taking(s) /\ Waking(s)' = Waking(s) /\ Closing(s)' = Closing(s)
      /\ Owed(s)' = Owed(s)
  BY <1>1, NoThreadCounts
<1>3. SessionInv(s)' /\ \A r \in Slots \ {s} : Same(r)
  BY <1>1, <1>2, CompletedInv
<1>. QED  BY <1>1, <1>3, NoThread DEF IInv, Typed

LEMMA ConnectStep ==
    ASSUME IInv, Typed', NEW s \in Slots, Connect(s)
    PROVE  \A r \in Slots : SessionInv(r)'
<1>1. /\ state[s] = "free" /\ state' = [state EXCEPT ![s] = "live"]
      /\ refs' = [refs EXCEPT ![s] = 1] /\ receiving' = [receiving EXCEPT ![s] = TRUE]
      /\ isSending' = [isSending EXCEPT ![s] = FALSE] /\ Emptied(s)
      /\ UNCHANGED <<inFlight, posted, pc, slot, owes>>
  BY DEF Connect, workVars
<1>2. Cleared(s)
  BY <1>1, NobodyAtQueue, EmptiedAll DEF Cleared, IInv, Typed
<1>3. /\ inFlight[s] = <<>> /\ Posts(s) = 0
      /\ Holding(s) = 0 /\ Owed(s) = 0 /\ Sending(s) = 0 /\ Counting(s) = 0 /\ Taking(s) = 0
      /\ Closing(s) = 0 /\ \A k \in Completions : posted[s][k] = 0
  BY <1>1, Nobody
<1>4. /\ Holding(s)' = 0 /\ Sending(s)' = 0 /\ Counting(s)' = 0
      /\ Taking(s)' = 0 /\ Closing(s)' = 0 /\ Owed(s)' = 0
  BY <1>1, <1>3, NoThreadCounts
<1>5. /\ state'[s] = "live" /\ refs'[s] = 1 /\ receiving'[s] /\ ~isSending'[s]
      /\ queue'[s] = <<>> /\ size'[s] = 0 /\ inFlight'[s] = <<>> /\ posted'[s] = posted[s]
  BY <1>1, <1>2, <1>3 DEF Cleared, IInv, Typed, SessionsTyped, BuffersTyped
<1>6. Posts(s)' = 0 /\ Rcv(s)' = 1 /\ Len(inFlight'[s]) = 0 /\ Len(queue'[s]) = 0
  BY <1>3, <1>5 DEF Posts, Rcv
<1>7. NewSum(refs'[s], Rcv(s)', Len(inFlight'[s]), Posts(s)', Holding(s)', Owed(s)')
  BY <1>4, <1>5, <1>6 DEF NewSum
<1>8. NewLag(size'[s], Len(queue'[s]), Counting(s)', Taking(s)')
  BY <1>4, <1>5, <1>6 DEF NewLag
<1>9. OneSender(s)'
  <2>1. Tokens(s)' = 0
    BY <1>4, <1>6 DEF Tokens
  <2>. QED  BY <1>3, <1>5, <2>1 DEF OneSender, Completions
<1>10. Woken(s)'
  BY <1>5 DEF Woken
<1>11. SessionInv(s)'
  BY <1>4, <1>5, <1>7, <1>8, <1>9, <1>10, LiveNext
<1>12. \A r \in Slots \ {s} : Same(r)
  BY <1>1, <1>2 DEF Same, Cleared, IInv, Typed, SessionsTyped, BuffersTyped
<1>. QED  BY <1>1, <1>11, <1>12, NoThread DEF IInv, Typed

-----------------------------------------------------------------------------
(* The theorems.                                                           *)

LEMMA InitIInv == Init => IInv
<1>. SUFFICES ASSUME Init PROVE IInv
  OBVIOUS
<1>1. Typed
  <2>1. <<>> \in Seq(Nat) /\ <<>> \in Seq(Seq(Nat))
    OBVIOUS
  <2>2. ThreadsOK
    BY ThreadFacts DEF Init, ThreadsOK, SenderOK, WorkerOK, SenderLabels, WorkerLabels
  <2>3. SessionsTyped
    BY DEF Init, SessionsTyped, Completions
  <2>4. BuffersTyped
    BY <2>1 DEF Init, BuffersTyped, NoPacket
  <2>. QED  BY <2>2, <2>3, <2>4 DEF Typed
<1>2. ASSUME NEW s \in Slots PROVE SessionInv(s)
  <2>1. \A t \in Threads : slot[t] # s
    BY ThreadFacts DEF Init
  <2>2. \A L : At(L, s) = {}
    BY <2>1 DEF At
  <2>3. Debts(s) = {}
    BY <2>1, ThreadFacts DEF Debts, Works
  <2>4. /\ Holding(s) = 0 /\ Sending(s) = 0 /\ Counting(s) = 0 /\ Taking(s) = 0 /\ Closing(s) = 0
        /\ Owed(s) = 0
    BY <2>2, <2>3, FS_EmptySet DEF Holding, Sending, Counting, Taking, Closing, Owed
  <2>5. /\ state[s] = "free" /\ refs[s] = 0 /\ ~receiving[s] /\ ~isSending[s] /\ queue[s] = <<>>
        /\ size[s] = 0 /\ inFlight[s] = <<>> /\ \A k \in Completions : posted[s][k] = 0
    BY DEF Init, Completions
  <2>6. Posts(s) = 0
    BY <2>5 DEF Posts, Completions
  <2>7. CountsExact(s) /\ OneSender(s) /\ SizeLags(s) /\ OneCloser(s) /\ Woken(s)
    BY <2>4, <2>5, <2>6 DEF CountsExact, OneSender, SizeLags, OneCloser, Woken, Completions
  <2>. QED  BY <2>7 DEF SessionInv
<1>. QED  BY <1>1, <1>2 DEF IInv

LEMMA NextIInv == IInv /\ [Next]_vars => IInv'
<1>. SUFFICES ASSUME IInv, [Next]_vars PROVE IInv'
  OBVIOUS
<1>1. Typed'
  BY TypeStep
<1>2. \A r \in Slots : SessionInv(r)'
  <2>1. ASSUME NEW s \in Slots, Connect(s) \/ KernelSends(s) \/ KernelFails(s)
        PROVE  \A r \in Slots : SessionInv(r)'
    BY <1>1, <2>1, ConnectStep, KernelStep
  <2>2. ASSUME NEW c \in Senders,
               \/ \E h \in Handles : SendPacket(c, h)
               \/ \E hs \in (SUBSET Handles) \ {{}} : SendPacketMulticast(c, hs)
        PROVE  \A r \in Slots : SessionInv(r)'
    BY <1>1, <2>2, BeginsStep
  <2>3. ASSUME NEW c \in Senders, Send(c)
        PROVE  \A r \in Slots : SessionInv(r)'
    <3>1. CASE FindsNext(c)
      BY <1>1, <3>1, FindSessionStep DEF FindsNext
    <3>2. CASE CheckSize(c) \/ EnqueueLink(c) \/ EnqueueCount(c)
      BY <1>1, <3>2, CheckSizeStep, EnqueueLinkStep, EnqueueCountStep
    <3>3. CASE TrySendPost(c) \/ ReturnSession(c) \/ ReturnFull(c) \/ Disconnect(c)
      BY <1>1, <3>3, TrySendPostStep, ReturnStep, DisconnectStep
    <3>. QED  BY <2>3, <3>1, <3>2, <3>3 DEF Send
  <2>4. ASSUME NEW w \in Workers, NEW s \in Slots,
               GetSendPost(w, s) \/ GetRecv(w, s) \/ \E kind \in Kinds : GetSendCompletion(w, s, kind)
        PROVE  \A r \in Slots : SessionInv(r)'
    BY <1>1, <2>4, GetCompletionStep, GetRecvStep
  <2>5. ASSUME NEW w \in Workers, Work(w)
        PROVE  \A r \in Slots : SessionInv(r)'
    <3>1. CASE ClearSendPackets(w) \/ ClearIsSending(w) \/ RecheckSize(w) \/ TrySendPostInCompletion(w)
      BY <1>1, <3>1, ClearSendPacketsStep, ClearIsSendingStep, RecheckSizeStep, TrySendPostInCompletionStep
    <3>2. CASE DequeueCount(w) \/ DequeueFails(w) \/ DequeueTake(w)
      BY <1>1, <3>2, DequeueStep
    <3>3. CASE PostSendingCheck(w) \/ DecrementIOCount(w)
      BY <1>1, <3>3, PostSendingCheckStep, DecrementIOCountStep
    <3>4. CASE \E accepted \in BOOLEAN : WSASend(w, accepted)
      BY <1>1, <3>4, WSASendStep
    <3>. QED  BY <2>5, <3>1, <3>2, <3>3, <3>4 DEF Work
  <2>6. ASSUME NEW t \in Threads, CloseSession(t)
        PROVE  \A r \in Slots : SessionInv(r)'
    BY <1>1, <2>6, CloseSessionStep
  <2>7. CASE UNCHANGED vars
    <3>1. /\ UNCHANGED <<pc, slot, owes>> /\ \A r \in Slots : Same(r)
      BY <2>7 DEF vars, lifeVars, bufferVars, ioVars, workVars, Same
    <3>2. ASSUME NEW r \in Slots PROVE SessionInv(r)'
      <4>1. Same(r)
        BY <3>1
      <4>. QED  BY <1>1, <3>1, <4>1, Untouched DEF Same, IInv, Typed
    <3>. QED  BY <3>2
  <2>. QED  BY <2>1, <2>2, <2>3, <2>4, <2>5, <2>6, <2>7 DEF Next
<1>. QED  BY <1>1, <1>2 DEF IInv

\* The inductive invariant: the numbers of threads at the labels of the send
\* path agree, in every session, with IOCount, IsSending and m_size.
THEOREM SendInvariant == Spec => []IInv
<1>. QED  BY InitIInv, NextIInv, PTL DEF Spec

\* IOCount is exactly the number of references held, and whoever holds one has
\* a session that is not released (FindSession, Decrement_IOCount, SendPost).
THEOREM ReferencesExact == Spec => []RefsExact
<1>1. IInv => RefsExact
  <2>. SUFFICES ASSUME IInv, NEW s \in Slots
                PROVE  LET posts == posted[s]["sendpost"] + posted[s]["sent"]
                                    + posted[s]["zero"] + posted[s]["check"]
                           works == {w \in Workers : slot[w] = s /\ pc[w] # "close"}
                       IN  IF state[s] = "live"
                           THEN refs[s] = (IF receiving[s] THEN 1 ELSE 0) + Len(inFlight[s]) + posts
                                          + Cardinality(At(HoldLabels, s))
                                          + Cardinality(UNION {{w} \X (1..Returns(w)) : w \in works})
                           ELSE /\ refs[s] = 0 /\ ~receiving[s] /\ inFlight[s] = <<>> /\ posts = 0
                                /\ At(HoldLabels, s) = {} /\ works = {}
    BY DEF RefsExact
  <2>1. CASE state[s] = "live"
    <3>1. CountsExact(s)
      BY DEF IInv, SessionInv
    <3>. QED  BY <2>1, <3>1 DEF CountsExact, Posts, Holding, Owed, Debts, Works
  <2>2. CASE state[s] # "live"
    <3>1. refs[s] = 0 /\ ~receiving[s] /\ inFlight[s] = <<>> /\ Posts(s) = 0 /\ Holding(s) = 0
      BY <2>2, Nobody
    <3>2. At(HoldLabels, s) = {}
      <4>1. At(HoldLabels, s) \subseteq Threads
        BY DEF At
      <4>. QED  BY <3>1, <4>1, ThreadSets DEF Holding
    <3>3. {w \in Workers : slot[w] = s /\ pc[w] # "close"} = {}
      <4>1. \A w \in Workers : slot[w] = s => pc[w] # "idle"
        BY ThreadFacts DEF IInv, Typed, ThreadsOK, WorkerOK
      <4>. QED  BY <2>2, <4>1, Referenced
    <3>. QED  BY <2>2, <3>1, <3>2, <3>3 DEF Posts
  <2>. QED  BY <2>1, <2>2
<1>. QED  BY <1>1, SendInvariant, PTL

\* While IsSending is set on a live session somebody is sending, or a WSASend
\* has failed (TrySendPost, SendPost, the completion of a send).
THEOREM FlagHasOwner == Spec => []SendingHasOwner
<1>1. IInv => SendingHasOwner
  <2>. SUFFICES ASSUME IInv, NEW s \in Slots, state[s] = "live", isSending[s]
                PROVE  SendTokens(s) = 1 \/ SendFailed(s)
    BY DEF SendingHasOwner
  <2>1. OneSender(s)
    BY DEF IInv, SessionInv
  <2>2. Tokens(s) = 1 \/ (Tokens(s) = 0 /\ sendPackets[s] # <<>>)
    BY <2>1 DEF OneSender
  <2>3. Tokens(s) = SendTokens(s)
    <3>. DEFINE m == Len(inFlight[s])
                a == posted[s]["sendpost"]
                b == posted[s]["sent"]
                c == posted[s]["zero"]
                d == posted[s]["check"]
                k == Cardinality(At(SendLabels, s))
    <3>1. m \in Nat /\ a \in Nat /\ b \in Nat /\ c \in Nat /\ d \in Nat /\ k \in Nat
      BY Numbers DEF IInv, Completions, Sending
    <3>2. Tokens(s) = m + (a + b + c + d) + k
      BY DEF Tokens, Posts, Sending
    <3>3. SendTokens(s) = m + a + b + c + d + k
      BY DEF SendTokens
    <3>. HIDE DEF m, a, b, c, d, k
    <3>. QED  BY <3>1, <3>2, <3>3
  <2>. QED  BY <2>2, <2>3 DEF SendFailed
<1>. QED  BY <1>1, SendInvariant, PTL

\* No packet is left in the queue of a live session with the flag clear and
\* nobody who is still going to test it (the race of Enqueue and TrySendPost
\* with the completion that clears IsSending and looks at m_size again).
THEOREM WakeupNotLost == Spec => []NoLostWakeup
<1>1. IInv => NoLostWakeup
  <2>. SUFFICES ASSUME IInv, NEW s \in Slots, state[s] = "live", ~isSending[s], queue[s] # <<>>
                PROVE  At({"count", "trypost", "recheck", "again"}, s) # {}
    BY DEF NoLostWakeup
  <2>1. Waking(s) > 0
    BY DEF IInv, SessionInv, Woken
  <2>2. At(WakeLabels, s) # {}
    <3>1. Cardinality(At(WakeLabels, s)) # 0
      BY <2>1, Counts DEF Waking
    <3>. QED  BY <3>1, FS_EmptySet
  <2>. QED  BY <2>2 DEF WakeLabels
<1>. QED  BY <1>1, SendInvariant, PTL

-----------------------------------------------------------------------------
(***************************************************************************)
(* The packets of the send path, for every number of sessions, workers,    *)
(* senders and packets. Packet::refCount is the number of places from      *)
(* which a packet can be reached, so no packet is freed twice, too early   *)
(* or never. And the send path implements SendChannel: the peer of a       *)
(* connection receives the packets addressed to its handle once, in order  *)
(* and without a gap.                                                      *)
(***************************************************************************)

ClaimLabels == {"size", "link", "full", "closefull", "disconnect"}
PostLabels == {"pop", "take", "undo", "transmit", "flag"}

CallsTyped ==
    /\ id \in [Slots -> Nat]
    /\ handle \in [Senders -> (Slots \cup {NoSlot}) \X Nat]
    /\ nextPacket \in Nat \ {0}

PacketsTyped == refCount \in [Packets -> Int] /\ freed \in [Packets -> Nat]

\* The call of a sender: a SendPacket has no packet before its only session is
\* found, a multicast has one reference for every handle it has not served.
CallOK(c) ==
    /\ packet[c] < nextPacket /\ todo[c] \subseteq Handles
    /\ pc[c] \in ClaimLabels => handle[c] \in Handles \ todo[c]
    /\ pc[c] = "idle" => packet[c] = NoPacket
    /\ pc[c] = "link" => packet[c] # NoPacket
    /\ packet[c] = NoPacket =>
         todo[c] = {} \/ (pc[c] = "find" /\ \E h \in Handles : todo[c] = {h})

\* The calls that have still to allocate find a packet.
Waiting == {c \in Senders : pc[c] # "idle" /\ packet[c] = NoPacket}
Reserved == nextPacket + Cardinality(Waiting) <= MaxPackets + 1

\* m_sendPackets is empty before a worker in SendPost fills it.
Ready(s) ==
    \/ state[s] = "live" /\ ~isSending[s]
    \/ posted[s]["sendpost"] > 0
    \/ posted[s]["check"] > 0
    \/ At(PostLabels, s) # {}

NothingKept(s) == Ready(s) => sendPackets[s] = <<>>

Claim(c, p) == IF packet[c] = p THEN Unused(c) ELSE {}
Claims(p) == {x \in Senders \X Handles : packet[x[1]] = p /\ x[2] \in Unused(x[1])}

\* The references of packet p, where they are.
InQueues(p)  == Cardinality(Places(queue, p))
InSends(p)   == Cardinality(Places(sendPackets, p))
InBatches(p) == Cardinality(Places(batch, p))
InCalls(p)   == Cardinality(Claims(p))
Held(p)      == InQueues(p) + InSends(p) + InBatches(p) + InCalls(p)

Exact(p) ==
    /\ refCount[p] = Held(p)
    /\ p >= nextPacket => refCount[p] = 0
    /\ freed[p] = IF p < nextPacket /\ refCount[p] = 0 THEN 1 ELSE 0

CallsOK == CallsTyped /\ Reserved /\ \A c \in Senders : CallOK(c)

PacketsExact == PacketsTyped /\ \A p \in Packets : Exact(p)

PInv == IInv /\ CallsOK /\ (\A s \in Slots : NothingKept(s)) /\ PacketsExact

-----------------------------------------------------------------------------
(* How often a packet is in a sequence.                                    *)

LEMMA CountCat ==
    ASSUME NEW f \in Seq(Nat), NEW g \in Seq(Nat), NEW p
    PROVE  /\ Count(f, p) \in Nat /\ Count(g, p) \in Nat
           /\ Count(f \o g, p) = Count(f, p) + Count(g, p)
<1>. DEFINE m == Len(f)
            n == Len(g)
            D == {i \in 1..m : f[i] = p}
            E == {i \in 1..n : g[i] = p}
            F == {i \in (m + 1)..(m + n) : (f \o g)[i] = p}
            C == {i \in 1..(m + n) : (f \o g)[i] = p}
<1>1. m \in Nat /\ n \in Nat /\ DOMAIN f = 1..m /\ DOMAIN g = 1..n
  OBVIOUS
<1>2. f \o g \in Seq(Nat) /\ Len(f \o g) = m + n /\ DOMAIN (f \o g) = 1..(m + n)
  BY <1>1
<1>3. /\ \A i \in 1..m : (f \o g)[i] = f[i]
      /\ \A i \in 1..n : (f \o g)[m + i] = g[i]
  BY <1>1, ConcatProperties
<1>4. IsFiniteSet(1..m) /\ IsFiniteSet(1..n)
  BY <1>1, FS_Interval
<1>5. IsFiniteSet(D) /\ IsFiniteSet(E) /\ Cardinality(D) \in Nat /\ Cardinality(E) \in Nat
  BY <1>4, FS_Subset, FS_CardinalityType
<1>6. IsFiniteSet(F) /\ Cardinality(F) = Cardinality(E)
  <2>. DEFINE b == [i \in E |-> m + i]
  <2>1. b \in [E -> F]
    <3>1. \A i \in E : m + i \in (m + 1)..(m + n) /\ (f \o g)[m + i] = p
      BY <1>1, <1>3
    <3>. QED  BY <3>1
  <2>2. \A i, j \in E : b[i] = b[j] => i = j
    BY <1>1
  <2>3. \A k \in F : \E i \in E : b[i] = k
    <3>. SUFFICES ASSUME NEW k \in F PROVE \E i \in E : b[i] = k
      OBVIOUS
    <3>1. k - m \in 1..n /\ m + (k - m) = k
      BY <1>1
    <3>2. k - m \in E
      BY <3>1, <1>3
    <3>. QED  BY <3>1, <3>2
  <2>. HIDE DEF b, E, F
  <2>4. b \in Bijection(E, F)
    BY <2>1, <2>2, <2>3 DEF Bijection, Injection, Surjection, IsInjective
  <2>. QED  BY <2>4, <1>5, FS_Bijection DEF ExistsBijection
<1>7. C = D \cup F /\ D \cap F = {}
  <2>1. \A i \in 1..(m + n) : i \in 1..m \/ i \in (m + 1)..(m + n)
    BY <1>1
  <2>2. \A i \in 1..m : i \in 1..(m + n) /\ i \notin (m + 1)..(m + n)
    BY <1>1
  <2>3. \A i \in (m + 1)..(m + n) : i \in 1..(m + n)
    BY <1>1
  <2>. QED  BY <2>1, <2>2, <2>3, <1>3
<1>8. Count(f, p) = Cardinality(D) /\ Count(g, p) = Cardinality(E) /\ Count(f \o g, p) = Cardinality(C)
  BY <1>1, <1>2 DEF Count
<1>. HIDE DEF C, D, E, F
<1>9. Cardinality(C) = Cardinality(D) + Cardinality(F)
  <2>1. Cardinality(D \cup F) = Cardinality(D) + Cardinality(F) - Cardinality(D \cap F)
    BY <1>5, <1>6, FS_Union
  <2>2. Cardinality(D \cap F) = 0
    BY <1>7, FS_EmptySet
  <2>. QED  BY <2>1, <2>2, <1>5, <1>6, <1>7
<1>. QED  BY <1>5, <1>6, <1>8, <1>9

LEMMA CountOne ==
    ASSUME NEW q, NEW p
    PROVE  Count(<<>>, p) = 0 /\ Count(<<q>>, p) = B(q = p)
<1>1. {i \in DOMAIN <<>> : <<>>[i] = p} = {}
  OBVIOUS
<1>2. {i \in DOMAIN <<q>> : <<q>>[i] = p} = IF q = p THEN {1} ELSE {}
  OBVIOUS
<1>3. Cardinality({1}) = 1 /\ Cardinality({}) = 0
  BY FS_Singleton, FS_EmptySet
<1>. QED  BY <1>1, <1>2, <1>3 DEF Count, B

LEMMA CountMoves ==
    ASSUME NEW f \in Seq(Nat), NEW p, NEW q \in Nat
    PROVE  /\ Count(f, p) \in Nat
           /\ Count(Append(f, q), p) = Count(f, p) + B(q = p)
           /\ f # <<>> => Count(Tail(f), p) = Count(f, p) - B(Head(f) = p)
<1>1. Append(f, q) = f \o <<q>> /\ <<q>> \in Seq(Nat)
  OBVIOUS
<1>2. Count(Append(f, q), p) = Count(f, p) + B(q = p) /\ Count(f, p) \in Nat
  <2>. DEFINE g == <<q>>
  <2>1. g \in Seq(Nat) /\ Append(f, q) = f \o g /\ Count(g, p) = B(q = p)
    BY <1>1, CountOne
  <2>. HIDE DEF g
  <2>2. Count(f \o g, p) = Count(f, p) + Count(g, p) /\ Count(f, p) \in Nat
    BY <2>1, CountCat
  <2>. QED  BY <2>1, <2>2
<1>3. ASSUME f # <<>> PROVE Count(Tail(f), p) = Count(f, p) - B(Head(f) = p)
  <2>1. /\ Tail(f) \in Seq(Nat) /\ Head(f) \in Nat /\ <<Head(f)>> \in Seq(Nat)
        /\ f = <<Head(f)>> \o Tail(f)
    BY <1>3
  <2>2. /\ Count(f, p) = Count(<<Head(f)>>, p) + Count(Tail(f), p)
        /\ Count(Tail(f), p) \in Nat
    <3>. DEFINE g == <<Head(f)>>
                r == Tail(f)
    <3>1. g \in Seq(Nat) /\ r \in Seq(Nat) /\ f = g \o r
      BY <2>1
    <3>. HIDE DEF g, r
    <3>2. Count(g \o r, p) = Count(g, p) + Count(r, p) /\ Count(r, p) \in Nat
      BY <3>1, CountCat
    <3>. QED  BY <3>1, <3>2 DEF g, r
  <2>3. Count(<<Head(f)>>, p) = B(Head(f) = p) /\ B(Head(f) = p) \in 0..1
    BY CountOne DEF B
  <2>. QED  BY <2>2, <2>3
<1>. QED  BY <1>2, <1>3

-----------------------------------------------------------------------------
(* The places of a packet.                                                 *)

LEMMA AddPairs ==
    ASSUME NEW R, IsFiniteSet(R), NEW z, \A d \in R : d[1] # z, NEW X, IsFiniteSet(X)
    PROVE  /\ IsFiniteSet(R \cup ({z} \X X))
           /\ Cardinality(R) \in Nat /\ Cardinality(X) \in Nat
           /\ Cardinality(R \cup ({z} \X X)) = Cardinality(R) + Cardinality(X)
<1>. DEFINE T == {z} \X X
<1>1. IsFiniteSet({z}) /\ Cardinality({z}) = 1
  BY FS_Singleton
<1>2. IsFiniteSet(T) /\ Cardinality(T) = 1 * Cardinality(X)
  BY <1>1, FS_Product
<1>3. Cardinality(R \cap T) = 0
  <2>1. R \cap T = {}
    OBVIOUS
  <2>. QED  BY <2>1, FS_EmptySet
<1>. HIDE DEF T
<1>4. Cardinality(R) \in Nat /\ Cardinality(X) \in Nat
  BY FS_CardinalityType
<1>5. /\ IsFiniteSet(R \cup T)
      /\ Cardinality(R \cup T) = Cardinality(R) + Cardinality(T) - Cardinality(R \cap T)
  BY <1>2, FS_Union
<1>6. Cardinality(R \cup T) = Cardinality(R) + Cardinality(X)
  BY <1>2, <1>3, <1>4, <1>5
<1>. QED  BY <1>4, <1>5, <1>6 DEF T

LEMMA PlacesFinite ==
    ASSUME NEW S, IsFiniteSet(S), NEW f \in [S -> Seq(Nat)], NEW p
    PROVE  IsFiniteSet(Places(f, p)) /\ Cardinality(Places(f, p)) \in Nat
<1>. DEFINE U == {{y} \X DOMAIN f[y] : y \in S}
<1>1. \A y \in S : IsFiniteSet({y} \X DOMAIN f[y])
  <2>. SUFFICES ASSUME NEW y \in S PROVE IsFiniteSet({y} \X DOMAIN f[y])
    OBVIOUS
  <2>1. DOMAIN f[y] = 1..Len(f[y]) /\ Len(f[y]) \in Nat
    OBVIOUS
  <2>2. IsFiniteSet({y})
    BY FS_Singleton
  <2>3. \A n \in Nat : IsFiniteSet(1..n)
    BY FS_Interval
  <2>4. IsFiniteSet(DOMAIN f[y])
    BY <2>1, <2>3
  <2>. QED  BY <2>2, <2>4, FS_Product
<1>2. IsFiniteSet(U)
  <2>. DEFINE g == [y \in S |-> {y} \X DOMAIN f[y]]
  <2>1. g \in Surjection(S, U)
    BY DEF Surjection
  <2>. QED  BY <2>1, FS_Surjection
<1>3. IsFiniteSet(UNION U)
  BY <1>1, <1>2, FS_UNION
<1>4. Places(f, p) \subseteq UNION U
  BY DEF Places
<1>. QED  BY <1>3, <1>4, FS_Subset, FS_CardinalityType

\* One sequence of the family changes.
ChangesAt(S, z, f, g) ==
    /\ f \in [S -> Seq(Nat)] /\ g \in [S -> Seq(Nat)] /\ z \in S
    /\ \A y \in S \ {z} : g[y] = f[y]

LEMMA PlacesChange ==
    ASSUME NEW S, IsFiniteSet(S), NEW f, NEW g, NEW p, NEW z, ChangesAt(S, z, f, g)
    PROVE  /\ Cardinality(Places(f, p)) \in Nat /\ Cardinality(Places(g, p)) \in Nat
           /\ Count(f[z], p) \in Nat /\ Count(g[z], p) \in Nat
           /\ Cardinality(Places(g, p)) + Count(f[z], p)
                = Cardinality(Places(f, p)) + Count(g[z], p)
<1>. DEFINE R == {x \in Places(f, p) : x[1] # z}
            X == {i \in DOMAIN f[z] : f[z][i] = p}
            Y == {i \in DOMAIN g[z] : g[z][i] = p}
<1>0. /\ f \in [S -> Seq(Nat)] /\ g \in [S -> Seq(Nat)] /\ z \in S
      /\ \A y \in S \ {z} : g[y] = f[y]
  BY DEF ChangesAt
<1>1. /\ \A x : x \in Places(f, p) <=> \E y \in S : \E i \in DOMAIN f[y] : x = <<y, i>> /\ f[y][i] = p
      /\ \A x : x \in Places(g, p) <=> \E y \in S : \E i \in DOMAIN g[y] : x = <<y, i>> /\ g[y][i] = p
  BY <1>0 DEF Places
<1>2. Places(f, p) = R \cup ({z} \X X)
  BY <1>0, <1>1
<1>3. Places(g, p) = R \cup ({z} \X Y)
  BY <1>0, <1>1
<1>4. IsFiniteSet(R) /\ \A d \in R : d[1] # z
  BY <1>0, PlacesFinite, FS_Subset
<1>5. IsFiniteSet(X) /\ IsFiniteSet(Y)
  <2>1. DOMAIN f[z] = 1..Len(f[z]) /\ DOMAIN g[z] = 1..Len(g[z]) /\ Len(f[z]) \in Nat /\ Len(g[z]) \in Nat
    BY <1>0
  <2>2. \A n \in Nat : IsFiniteSet(1..n)
    BY FS_Interval
  <2>3. IsFiniteSet(DOMAIN f[z]) /\ IsFiniteSet(DOMAIN g[z])
    BY <2>1, <2>2
  <2>. QED  BY <2>3, FS_Subset
<1>6. Count(f[z], p) = Cardinality(X) /\ Count(g[z], p) = Cardinality(Y)
  BY DEF Count
<1>. HIDE DEF R, X, Y
<1>7. /\ Cardinality(R \cup ({z} \X X)) = Cardinality(R) + Cardinality(X)
      /\ Cardinality(R) \in Nat /\ Cardinality(X) \in Nat
  BY <1>4, <1>5, AddPairs, ZenonT(60)
<1>8. Cardinality(R \cup ({z} \X Y)) = Cardinality(R) + Cardinality(Y) /\ Cardinality(Y) \in Nat
  BY <1>4, <1>5, AddPairs, ZenonT(60)
<1>. QED  BY <1>2, <1>3, <1>6, <1>7, <1>8


-----------------------------------------------------------------------------
(* Nothing is kept in m_sendPackets when a worker comes to fill it.        *)

LEMMA Undisturbed ==
    ASSUME NEW s \in Slots, NothingKept(s), NEW t \in Threads,
           \A u \in Threads \ {t} : pc'[u] = pc[u] /\ slot'[u] = slot[u],
           slot'[t] = s /\ pc'[t] \in PostLabels => Ready(s),
           state'[s] = "live" /\ ~isSending'[s] => Ready(s),
           posted'[s]["sendpost"] > 0 \/ posted'[s]["check"] > 0 => Ready(s),
           sendPackets'[s] = sendPackets[s]
    PROVE  NothingKept(s)'
<1>1. ASSUME At(PostLabels, s)' # {} PROVE Ready(s)
  <2>1. PICK u \in Threads : slot'[u] = s /\ pc'[u] \in PostLabels
    BY <1>1 DEF At
  <2>2. CASE u # t
    BY <2>1, <2>2 DEF Ready, At
  <2>. QED  BY <2>1, <2>2
<1>. QED  BY <1>1 DEF NothingKept, Ready

LEMMA NothingKeptStep ==
    ASSUME IInv, IInv', \A s \in Slots : NothingKept(s), [Next]_vars
    PROVE  \A s \in Slots : NothingKept(s)'
<1>a. ThreadsOK /\ SessionsTyped /\ BuffersTyped
  BY DEF IInv, Typed
<1>b. /\ \A c \in Senders : pc[c] \notin {"idle", "find"} => slot[c] \in Slots
      /\ \A w \in Workers : pc[w] # "idle" => slot[w] \in Slots
      /\ pc \in [Threads -> SenderLabels \cup WorkerLabels]
      /\ slot \in [Threads -> Slots \cup {NoSlot}]
      /\ NoSlot \notin Slots /\ Workers \subseteq Threads /\ Senders \subseteq Threads
      /\ Workers \cap Senders = {}
  BY <1>a, Busy, ThreadFacts
<1>. USE DEF lifeVars, bufferVars, ioVars
<1>1. ASSUME NEW s \in Slots, Connect(s), NEW r \in Slots PROVE NothingKept(r)'
  <2>1. state[s] # "live" /\ sendPackets' = [sendPackets EXCEPT ![s] = <<>>]
    BY <1>1, <1>a, NobodyAtQueue, EmptiedAll DEF Connect
  <2>2. CASE r = s
    BY <2>1, <2>2, <1>a DEF NothingKept, BuffersTyped
  <2>3. CASE r # s
    <3>1. /\ state'[r] = state[r] /\ isSending'[r] = isSending[r]
          /\ UNCHANGED <<posted, pc, slot>> /\ sendPackets'[r] = sendPackets[r]
      BY <1>1, <1>a, <2>1, <2>3 DEF Connect, SessionsTyped, BuffersTyped
    <3>. QED  BY <3>1 DEF NothingKept, Ready, At
  <2>. QED  BY <2>2, <2>3
<1>2. ASSUME NEW s \in Slots, KernelSends(s) \/ KernelFails(s), NEW r \in Slots
      PROVE  NothingKept(r)'
  <2>1. /\ UNCHANGED <<state, isSending, sendPackets, pc, slot>>
        /\ posted'[r]["sendpost"] = posted[r]["sendpost"] /\ posted'[r]["check"] = posted[r]["check"]
    <3>1. \E k \in {"sent", "zero"} : Post(s, k)
      BY <1>2 DEF KernelSends, KernelFails
    <3>2. UNCHANGED <<state, isSending, sendPackets, pc, slot>>
      BY <1>2 DEF KernelSends, KernelFails
    <3>. QED  BY <3>1, <3>2, <1>a DEF Post, SessionsTyped, Completions
  <2>. QED  BY <2>1 DEF NothingKept, Ready, At
<1>3. ASSUME NEW c \in Senders,
             \/ \E h \in Handles : SendPacket(c, h)
             \/ \E hs \in (SUBSET Handles) \ {{}} : SendPacketMulticast(c, hs)
             \/ Send(c),
             NEW r \in Slots
      PROVE  NothingKept(r)'
  <2>1. sendPackets' = sendPackets
    BY <1>3 DEF SendPacket, SendPacketMulticast, Send, FindsNext, FindSession, CheckSize,
       EnqueueLink,
                EnqueueCount, TrySendPost, ReturnSession, ReturnFull, Disconnect
  <2>2. /\ pc'[c] \notin PostLabels
        /\ \A u \in Threads \ {c} : pc'[u] = pc[u] /\ slot'[u] = slot[u]
    <3>1. \E t \in SenderLabels : pc' = [pc EXCEPT ![c] = t]
      BY <1>3 DEF SendPacket, SendPacketMulticast, Send, FindsNext, FindSession, CheckSize,
         EnqueueLink,
                  EnqueueCount, TrySendPost, ReturnSession, ReturnFull, Disconnect, Step, Served, SenderLabels
    <3>2. slot' = slot \/ (\E t : slot' = [slot EXCEPT ![c] = t])
      BY <1>3 DEF SendPacket, SendPacketMulticast, Send, FindsNext, FindSession, CheckSize,
         EnqueueLink,
                  EnqueueCount, TrySendPost, ReturnSession, ReturnFull, Disconnect, Served
    <3>. QED  BY <3>1, <3>2, <1>b DEF PostLabels, SenderLabels
  <2>3. CASE TrySendPost(c)
    <3>1. /\ pc[c] = "trypost" /\ state' = state
          /\ IF isSending[slot[c]] THEN UNCHANGED <<isSending, posted>>
             ELSE isSending' = [isSending EXCEPT ![slot[c]] = TRUE] /\ Post(slot[c], "sendpost")
      BY <2>3 DEF TrySendPost, Step
    <3>2. slot[c] \in Slots /\ state[slot[c]] = "live"
      BY <3>1, Referenced DEF HoldLabels
    <3>3. /\ posted'[r]["check"] = posted[r]["check"]
          /\ posted'[r]["sendpost"] > 0 => posted[r]["sendpost"] > 0 \/ (r = slot[c] /\ ~isSending[r])
          /\ ~isSending'[r] => ~isSending[r]
      BY <3>1, <3>2, <1>a DEF Post, SessionsTyped, Completions
    <3>. QED  BY <1>b, <2>1, <2>2, <3>1, <3>2, <3>3, Undisturbed DEF Ready
  <2>4. CASE ~TrySendPost(c)
    <3>1. isSending' = isSending /\ (state'[r] = "live" => state[r] = "live")
      <4>1. state' = state \/ (\E s : state' = [state EXCEPT ![s] = "closing"])
        BY <1>3, <2>4 DEF SendPacket, SendPacketMulticast, Send, FindsNext, FindSession, CheckSize,
                          EnqueueLink, EnqueueCount, ReturnSession, ReturnFull, Disconnect, Released
      <4>2. isSending' = isSending
        BY <1>3, <2>4 DEF SendPacket, SendPacketMulticast, Send, FindsNext, FindSession, CheckSize,
                          EnqueueLink, EnqueueCount, ReturnSession, ReturnFull, Disconnect
      <4>. QED  BY <4>1, <4>2, <1>a DEF SessionsTyped
    <3>2. posted'[r]["sendpost"] = posted[r]["sendpost"] /\ posted'[r]["check"] = posted[r]["check"]
      <4>1. posted' = posted \/ (\E s : Post(s, "zero"))
        BY <1>3, <2>4 DEF SendPacket, SendPacketMulticast, Send, FindsNext, FindSession, CheckSize,
                          EnqueueLink, EnqueueCount, ReturnSession, ReturnFull, Disconnect
      <4>. QED  BY <4>1, <1>a DEF Post, SessionsTyped, Completions
    <3>. QED  BY <1>b, <2>1, <2>2, <3>1, <3>2, Undisturbed DEF Ready
  <2>. QED  BY <2>3, <2>4
<1>4. ASSUME NEW w \in Workers, NEW s \in Slots,
             GetSendPost(w, s) \/ GetRecv(w, s) \/ \E kind \in Kinds : GetSendCompletion(w, s, kind),
             NEW r \in Slots
      PROVE  NothingKept(r)'
  <2>1. UNCHANGED <<state, isSending, sendPackets>>
    BY <1>4 DEF GetSendPost, GetRecv, GetSendCompletion
  <2>2. /\ \A u \in Threads \ {w} : pc'[u] = pc[u] /\ slot'[u] = slot[u]
        /\ slot'[w] = s
    BY <1>4, <1>b DEF GetSendPost, GetRecv, GetSendCompletion, Handle, Step
  <2>3. /\ posted'[r]["sendpost"] > 0 => posted[r]["sendpost"] > 0
        /\ posted'[r]["check"] > 0 => posted[r]["check"] > 0
    <3>1. posted' = posted \/ (\E k \in Completions : Taken(s, k))
      BY <1>4 DEF GetSendPost, GetRecv, GetSendCompletion, Completions
    <3>. QED  BY <3>1, <1>a, SMTT(30) DEF Taken, SessionsTyped, Completions
  <2>4. pc'[w] \in PostLabels => Ready(s)
    <3>1. CASE GetSendPost(w, s)
      BY <3>1 DEF GetSendPost, Ready
    <3>2. CASE GetRecv(w, s)
      BY <3>2, <1>b DEF GetRecv, Handle, Step, PostLabels
    <3>3. ASSUME NEW kind \in Kinds, GetSendCompletion(w, s, kind)
          PROVE  pc'[w] \in PostLabels => Ready(s)
      BY <3>3, <1>b DEF GetSendCompletion, Handle, Step, PostLabels, Ready, Kinds
    <3>. QED  BY <1>4, <3>1, <3>2, <3>3
  <2>. QED  BY <1>b, <2>1, <2>2, <2>3, <2>4, Undisturbed DEF Ready
<1>5. ASSUME NEW w \in Workers, Work(w), NEW r \in Slots PROVE NothingKept(r)'
  <2>1. pc[w] # "idle" /\ slot[w] \in Slots
    <3>1. pc[w] # "idle"
      BY <1>5 DEF Work, ClearSendPackets, ClearIsSending, RecheckSize, TrySendPostInCompletion,
         DequeueCount,
                  DequeueFails, DequeueTake, PostSendingCheck, WSASend, Finish, DecrementIOCount, Step
    <3>. QED  BY <3>1, <1>b
  <2>2. CASE ClearSendPackets(w)
    <3>1. /\ sendPackets' = [sendPackets EXCEPT ![slot[w]] = <<>>] /\ pc' = [pc EXCEPT ![w] = "flag"]
          /\ UNCHANGED <<state, isSending, posted, slot>>
      BY <2>2 DEF ClearSendPackets, Step
    <3>2. CASE r = slot[w]
      BY <3>1, <3>2, <1>a DEF NothingKept, BuffersTyped
    <3>3. CASE r # slot[w]
      <4>1. sendPackets'[r] = sendPackets[r]
        BY <3>1, <3>3, <1>a DEF BuffersTyped
      <4>. QED  BY <1>b, <3>1, <3>3, <4>1, Undisturbed DEF Ready
    <3>. QED  BY <3>2, <3>3
  <2>3. ASSUME NEW accepted \in BOOLEAN, WSASend(w, accepted) PROVE NothingKept(r)'
    <3>0. PICK s \in Slots : s = slot[w]
      BY <2>1
    <3>1. /\ sendPackets' = [sendPackets EXCEPT ![s] = batch[w]]
          /\ UNCHANGED <<state, isSending, posted>>
          /\ pc[w] = "transmit" /\ pc'[w] \in {"idle", "dec"}
          /\ \A u \in Threads \ {w} : pc'[u] = pc[u] /\ slot'[u] = slot[u]
      <4>1. \E n : Finish(w, "transmit", n)
        BY <2>3 DEF WSASend
      <4>. QED  BY <2>3, <3>0, <4>1, <1>b DEF WSASend, Finish, Step
    <3>2. CASE r # s
      <4>1. sendPackets'[r] = sendPackets[r]
        BY <3>1, <3>2, <1>a DEF BuffersTyped
      <4>. QED  BY <1>b, <3>0, <3>1, <4>1, Undisturbed DEF Ready, PostLabels
    <3>3. CASE r = s
      <4>1. /\ state[s] = "live" /\ isSending[s] /\ Sending(s) = 1
            /\ posted[s]["sendpost"] = 0 /\ posted[s]["check"] = 0
        BY <3>0, <3>1, Owner DEF SendLabels, Completions
      <4>2. \A u \in Threads \ {w} : ~(slot[u] = s /\ pc[u] \in SendLabels)
        <5>. SUFFICES ASSUME NEW u \in Threads \ {w}, slot[u] = s, pc[u] \in SendLabels PROVE FALSE
          OBVIOUS
        <5>1. {u, w} \subseteq At(SendLabels, s) /\ At(SendLabels, s) \subseteq Threads
          BY <1>b, <3>0, <3>1 DEF At, SendLabels
        <5>2. IsFiniteSet(At(SendLabels, s))
          BY <5>1, ThreadSets
        <5>3. Cardinality({u, w}) = 2
          <6>1. IsFiniteSet({w}) /\ Cardinality({w}) = 1
            BY FS_Singleton
          <6>2. Cardinality({w} \cup {u}) = Cardinality({w}) + 1
            BY <6>1, FS_AddElement
          <6>3. {u, w} = {w} \cup {u}
            OBVIOUS
          <6>. QED  BY <6>1, <6>2, <6>3
        <5>4. Cardinality({u, w}) <= Cardinality(At(SendLabels, s))
          BY <5>1, <5>2, FS_Subset
        <5>. QED  BY <4>1, <5>3, <5>4 DEF Sending
      <4>3. \A u \in Threads : ~(slot'[u] = s /\ pc'[u] \in PostLabels)
        BY <3>1, <4>2 DEF PostLabels, SendLabels
      <4>. QED  BY <3>1, <3>3, <4>1, <4>3 DEF NothingKept, Ready, At
    <3>. QED  BY <3>2, <3>3
  <2>4. CASE DecrementIOCount(w)
    <3>1. Released(slot[w]) /\ UNCHANGED <<isSending, posted, sendPackets>>
      BY <2>4 DEF DecrementIOCount
    <3>2. state'[r] = "live" => state[r] = "live"
      BY <3>1, <1>a DEF Released, SessionsTyped
    <3>3. /\ pc'[w] \notin PostLabels
          /\ \A u \in Threads \ {w} : pc'[u] = pc[u] /\ slot'[u] = slot[u]
      BY <2>4, <1>b DEF DecrementIOCount, Finish, Step, PostLabels
    <3>. QED  BY <1>b, <3>1, <3>2, <3>3, Undisturbed DEF Ready
  <2>5. CASE PostSendingCheck(w)
    <3>1. /\ pc[w] = "transmit" /\ Post(slot[w], "check") /\ UNCHANGED <<state, isSending, sendPackets>>
          /\ pc'[w] \notin PostLabels
          /\ \A u \in Threads \ {w} : pc'[u] = pc[u] /\ slot'[u] = slot[u]
      BY <2>5, <1>b DEF PostSendingCheck, Finish, Step, PostLabels
    <3>2. /\ posted'[r]["sendpost"] = posted[r]["sendpost"]
          /\ r # slot[w] => posted'[r]["check"] = posted[r]["check"]
      BY <3>1, <1>a DEF Post, SessionsTyped, Completions
    <3>3. Ready(slot[w])
      BY <1>b, <3>1 DEF Ready, At, PostLabels
    <3>. QED  BY <1>b, <3>1, <3>2, <3>3, Undisturbed DEF Ready
  <2>6. CASE ClearIsSending(w) \/ RecheckSize(w) \/ TrySendPostInCompletion(w)
    <3>1. /\ UNCHANGED <<state, posted, sendPackets, slot>>
          /\ \A u \in Threads \ {w} : pc'[u] = pc[u] /\ slot'[u] = slot[u]
      BY <2>6, <1>b DEF ClearIsSending, RecheckSize, TrySendPostInCompletion, Step
    <3>2. ~isSending'[r] => ~isSending[r] \/ (r = slot[w] /\ pc[w] = "flag")
      BY <2>6, <1>a DEF ClearIsSending, RecheckSize, TrySendPostInCompletion, Step, SessionsTyped
    <3>3. pc'[w] \in PostLabels => pc[w] = "again" /\ ~isSending[slot[w]]
      BY <2>6, <1>b DEF ClearIsSending, RecheckSize, TrySendPostInCompletion, Step, PostLabels
    <3>4. pc[w] = "again" => state[slot[w]] = "live"
      BY <2>1, Referenced
    <3>5. pc[w] = "flag" => Ready(slot[w])
      BY <1>b DEF Ready, At, PostLabels
    <3>. QED  BY <1>b, <3>1, <3>2, <3>3, <3>4, <3>5, Undisturbed DEF Ready
  <2>7. CASE DequeueCount(w) \/ DequeueFails(w) \/ DequeueTake(w)
    <3>1. /\ UNCHANGED <<state, isSending, posted, sendPackets, slot>> /\ pc[w] \in PostLabels
          /\ \A u \in Threads \ {w} : pc'[u] = pc[u] /\ slot'[u] = slot[u]
      BY <2>7, <1>b DEF DequeueCount, DequeueFails, DequeueTake, Step, PostLabels
    <3>2. Ready(slot[w])
      BY <1>b, <3>1 DEF Ready, At
    <3>. QED  BY <1>b, <3>1, <3>2, Undisturbed DEF Ready
  <2>. QED  BY <1>5, <2>2, <2>3, <2>4, <2>5, <2>6, <2>7 DEF Work
<1>6. ASSUME NEW t \in Threads, CloseSession(t), NEW r \in Slots PROVE NothingKept(r)'
  <2>1. pc[t] \in CloseLabels
    BY <1>6 DEF CloseSession, CloseLabels
  <2>2. slot[t] \in Slots /\ state[slot[t]] # "live"
    BY <2>1, Referenced
  <2>3. /\ sendPackets' = [sendPackets EXCEPT ![slot[t]] = <<>>]
        /\ state' = [state EXCEPT ![slot[t]] = "free"]
        /\ isSending' = [isSending EXCEPT ![slot[t]] = FALSE] /\ posted' = posted
    BY <1>6, <1>a, <2>2, NobodyAtQueue, EmptiedAll DEF CloseSession
  <2>4. CASE r = slot[t]
    BY <2>3, <2>4, <1>a DEF NothingKept, BuffersTyped
  <2>5. CASE r # slot[t]
    <3>1. /\ state'[r] = state[r] /\ isSending'[r] = isSending[r] /\ sendPackets'[r] = sendPackets[r]
      BY <2>3, <2>5, <1>a DEF SessionsTyped, BuffersTyped
    <3>2. /\ pc'[t] \notin PostLabels
          /\ \A u \in Threads \ {t} : pc'[u] = pc[u] /\ slot'[u] = slot[u]
      BY <1>6, <1>b DEF CloseSession, Finish, Served, Step, PostLabels
    <3>. QED  BY <2>3, <3>1, <3>2, Undisturbed DEF Ready
  <2>. QED  BY <2>4, <2>5
<1>7. CASE UNCHANGED vars
  BY <1>7 DEF vars, NothingKept, Ready, At
<1>. QED  BY <1>1, <1>2, <1>3, <1>4, <1>5, <1>6, <1>7 DEF Next

-----------------------------------------------------------------------------
(* The calls of the senders.                                               *)

LEMMA HandlesFinite ==
    /\ IsFiniteSet(Handles) /\ IsFiniteSet(Senders)
    /\ \A hs \in SUBSET Handles : IsFiniteSet(hs) /\ Cardinality(hs) \in Nat
    /\ \A C \in SUBSET Senders : IsFiniteSet(C) /\ Cardinality(C) \in Nat
<1>1. IsFiniteSet(1..MaxConnections)
  BY SendBoundsAssumption, FS_Interval
<1>2. IsFiniteSet(Slots \X (1..MaxConnections))
  BY <1>1, SendThreadsAssumption, FS_Product
<1>3. IsFiniteSet(Handles)
  BY <1>2, FS_Subset DEF Handles
<1>4. IsFiniteSet(Senders)
  BY SendThreadsAssumption, FS_Subset DEF Threads
<1>. QED  BY <1>3, <1>4, FS_Subset, FS_CardinalityType

LEMMA OneWaits ==
    ASSUME NEW C \in SUBSET Senders, NEW c \in Senders
    PROVE  /\ Cardinality(C) \in Nat
           /\ c \in C => Cardinality(C \ {c}) = Cardinality(C) - 1
           /\ c \notin C => Cardinality(C \cup {c}) = Cardinality(C) + 1
BY HandlesFinite, FS_AddElement, FS_RemoveElement

LEMMA FewerWait ==
    ASSUME Reserved, nextPacket' = nextPacket, nextPacket \in Nat, Waiting' \subseteq Waiting
    PROVE  Reserved'
<1>1. Waiting \in SUBSET Senders
  BY DEF Waiting
<1>2. /\ IsFiniteSet(Waiting) /\ Waiting' \in SUBSET Senders
      /\ Cardinality(Waiting) \in Nat /\ Cardinality(Waiting') \in Nat
  BY <1>1, HandlesFinite
<1>3. Cardinality(Waiting') <= Cardinality(Waiting)
  BY <1>2, FS_Subset
<1>. QED  BY <1>2, <1>3, SendBoundsAssumption DEF Reserved

\* The calls go on with their packets and handles.
LEMMA CallsKept ==
    ASSUME CallsOK, UNCHANGED <<id, todo, packet, handle, nextPacket>>,
           \A c \in Senders :
             /\ pc'[c] \in ClaimLabels => pc[c] \in ClaimLabels
             /\ pc'[c] = "idle" <=> pc[c] = "idle"
             /\ pc'[c] = "link" => packet[c] # NoPacket
             /\ pc[c] = "find" => pc'[c] = "find"
    PROVE  CallsOK'
<1>1. Reserved'
  BY FewerWait DEF CallsOK, Waiting, CallsTyped
<1>2. Handles' = Handles /\ CallsTyped'
  BY DEF Handles, CallsOK, CallsTyped
<1>3. ASSUME NEW c \in Senders PROVE CallOK(c)'
  BY <1>2 DEF CallsOK, CallOK
<1>. QED  BY <1>1, <1>2, <1>3 DEF CallsOK

\* A call goes on to its next handle, or returns.
LEMMA CallsServed ==
    ASSUME Typed, CallsOK, NEW c \in Senders, NEW from, Served(c, from), from # "idle",
           todo' \in [Senders -> SUBSET (Slots \X Nat)],
           todo'[c] \subseteq todo[c], \A d \in Senders \ {c} : todo'[d] = todo[d],
           UNCHANGED <<id, nextPacket>>
    PROVE  CallsOK'
<1>a. pc \in [Threads -> SenderLabels \cup WorkerLabels]
  BY Busy DEF Typed
<1>b. c \in Threads /\ Senders \subseteq Threads
  BY ThreadFacts
<1>1. /\ pc[c] = from /\ pc'[c] = IF todo'[c] = {} THEN "idle" ELSE "find"
      /\ \A d \in Senders \ {c} : pc'[d] = pc[d] /\ packet'[d] = packet[d] /\ handle'[d] = handle[d]
      /\ packet'[c] = IF todo'[c] = {} THEN NoPacket ELSE packet[c]
      /\ handle' \in [Senders -> (Slots \cup {NoSlot}) \X Nat]
  BY <1>a, <1>b DEF Served, Step, Typed, BuffersTyped, CallsOK, CallsTyped
<1>2. Reserved'
  <2>1. Waiting' \subseteq Waiting
    BY <1>1 DEF Waiting
  <2>. QED  BY <2>1, FewerWait DEF CallsOK, CallsTyped
<1>3. Handles' = Handles /\ CallsTyped'
  BY <1>1 DEF Handles, CallsOK, CallsTyped
<1>4. ASSUME NEW d \in Senders PROVE CallOK(d)'
  <2>1. CASE d = c
    <3>1. /\ packet[c] < nextPacket /\ todo[c] \subseteq Handles /\ nextPacket > NoPacket
          /\ packet[c] = NoPacket => todo[c] = {} \/ \E h \in Handles : todo[c] = {h}
      BY DEF CallsOK, CallOK, CallsTyped, NoPacket
    <3>2. /\ packet'[c] < nextPacket' /\ todo'[c] \subseteq Handles'
          /\ pc'[c] \notin ClaimLabels /\ pc'[c] # "link"
          /\ pc'[c] = "idle" => packet'[c] = NoPacket
      BY <1>1, <1>3, <3>1 DEF ClaimLabels
    <3>3. packet'[c] = NoPacket => todo'[c] = {} \/ (pc'[c] = "find" /\ todo'[c] = todo[c])
      BY <1>1, <3>1
    <3>. QED  BY <1>1, <1>3, <2>1, <3>1, <3>2, <3>3 DEF CallOK
  <2>2. CASE d # c
    BY <1>1, <1>3, <2>2 DEF CallsOK, CallOK
  <2>. QED  BY <2>1, <2>2
<1>. QED  BY <1>2, <1>3, <1>4 DEF CallsOK

LEMMA CallsBegin ==
    ASSUME IInv, CallsOK, NEW c \in Senders,
           \/ \E h \in Handles : SendPacket(c, h)
           \/ \E hs \in (SUBSET Handles) \ {{}} : SendPacketMulticast(c, hs)
    PROVE  CallsOK'
<1>. USE DEF lifeVars
<1>a. /\ pc \in [Threads -> SenderLabels \cup WorkerLabels] /\ c \in Threads /\ Senders \subseteq Threads
      /\ packet \in [Senders -> Nat] /\ todo \in [Senders -> SUBSET (Slots \X Nat)] /\ nextPacket \in Nat
  BY ThreadFacts, Busy DEF IInv, Typed, BuffersTyped
<1>b. Waiting \in SUBSET Senders /\ c \notin Waiting /\ pc[c] = "idle" /\ packet[c] = NoPacket
  BY DEF Waiting, SendPacket, SendPacketMulticast, Step, CallsOK, CallOK
<1>c. Cardinality(Waiting) \in Nat /\ Cardinality(Waiting \cup {c}) = Cardinality(Waiting) + 1
  BY <1>b, OneWaits
<1>d. nextPacket + Cardinality(Waiting) <= MaxPackets
  BY DEF SendPacket, SendPacketMulticast, Room, Waiting
<1>1. ASSUME NEW h \in Handles, SendPacket(c, h) PROVE CallsOK'
  <2>1. /\ pc'[c] = "find" /\ todo'[c] = {h} /\ UNCHANGED <<id, packet, handle, nextPacket>>
        /\ \A d \in Senders \ {c} : pc'[d] = pc[d] /\ todo'[d] = todo[d]
    BY <1>1, <1>a DEF SendPacket, Step, packetVars
  <2>2. Handles' = Handles /\ CallsTyped'
    BY <2>1 DEF Handles, CallsOK, CallsTyped
  <2>3. Reserved'
    <3>1. Waiting' = Waiting \cup {c}
      BY <1>b, <2>1 DEF Waiting
    <3>. QED  BY <1>a, <1>c, <1>d, <2>1, <3>1, SendBoundsAssumption DEF Reserved
  <2>4. ASSUME NEW d \in Senders PROVE CallOK(d)'
    BY <2>1, <2>2 DEF CallsOK, CallOK, ClaimLabels
  <2>. QED  BY <2>2, <2>3, <2>4 DEF CallsOK
<1>2. ASSUME NEW hs \in SUBSET Handles, SendPacketMulticast(c, hs) PROVE CallsOK'
  <2>1. /\ pc'[c] = "find" /\ todo'[c] = hs /\ UNCHANGED <<id, handle>>
        /\ packet'[c] = nextPacket /\ nextPacket' = nextPacket + 1
        /\ \A d \in Senders \ {c} : pc'[d] = pc[d] /\ todo'[d] = todo[d] /\ packet'[d] = packet[d]
    BY <1>2, <1>a DEF SendPacketMulticast, Allocate, Step
  <2>2. Handles' = Handles /\ CallsTyped'
    BY <2>1 DEF Handles, CallsOK, CallsTyped
  <2>3. nextPacket # NoPacket
    BY DEF CallsOK, CallsTyped, NoPacket
  <2>4. Reserved'
    <3>1. Waiting' = Waiting
      BY <1>b, <2>1, <2>3 DEF Waiting
    <3>. QED  BY <1>a, <1>c, <1>d, <2>1, <3>1, SendBoundsAssumption DEF Reserved
  <2>5. ASSUME NEW d \in Senders PROVE CallOK(d)'
    <3>1. CASE d = c
      BY <1>a, <2>1, <2>2, <2>3, <3>1 DEF CallOK, ClaimLabels
    <3>2. CASE d # c
      <4>1. CallOK(d) /\ packet[d] \in Nat
        BY <1>a DEF CallsOK
      <4>. QED  BY <1>a, <2>1, <2>2, <3>2, <4>1 DEF CallOK
    <3>. QED  BY <3>1, <3>2
  <2>. QED  BY <2>2, <2>4, <2>5 DEF CallsOK
<1>. QED  BY <1>1, <1>2

LEMMA CallsFind ==
    ASSUME IInv, CallsOK, Typed', NEW c \in Senders, NEW h \in todo[c], FindSession(c, h)
    PROVE  CallsOK'
<1>a. /\ pc \in [Threads -> SenderLabels \cup WorkerLabels] /\ c \in Threads /\ Senders \subseteq Threads
      /\ todo \in [Senders -> SUBSET (Slots \X Nat)] /\ todo' \in [Senders -> SUBSET (Slots \X Nat)]
  BY ThreadFacts, Busy DEF IInv, Typed, BuffersTyped
<1>1. /\ todo'[c] = todo[c] \ {h} /\ \A d \in Senders \ {c} : todo'[d] = todo[d]
      /\ UNCHANGED <<id, nextPacket>>
  BY <1>a DEF FindSession
<1>2. CASE ~Found(h)
  <2>1. Served(c, "find")
    BY <1>2 DEF FindSession
  <2>. QED  BY <1>a, <1>1, <2>1, CallsServed DEF IInv
<1>3. CASE Found(h)
  <2>1. h \in Handles /\ CallOK(c)
    BY DEF CallsOK, CallOK
  <2>2. /\ pc[c] = "find" /\ pc'[c] = "size" /\ handle'[c] = h /\ packet' = packet
        /\ \A d \in Senders \ {c} : pc'[d] = pc[d] /\ handle'[d] = handle[d]
        /\ handle' \in [Senders -> (Slots \cup {NoSlot}) \X Nat]
    BY <1>a, <1>3, <2>1, SendBoundsAssumption, SMTT(30)
       DEF FindSession, Step, CallsOK, CallsTyped, Handles
  <2>3. Handles' = Handles /\ CallsTyped'
    BY <1>1, <2>2 DEF Handles, CallsOK, CallsTyped
  <2>4. Reserved'
    <3>1. Waiting' \subseteq Waiting
      BY <2>2 DEF Waiting
    <3>. QED  BY <1>1, <3>1, FewerWait DEF CallsOK, CallsTyped
  <2>5. packet[c] = NoPacket => todo'[c] = {}
    <3>1. packet[c] = NoPacket => todo[c] = {h}
      BY <2>1 DEF CallOK
    <3>. QED  BY <1>1, <3>1
  <2>6. ASSUME NEW d \in Senders PROVE CallOK(d)'
    <3>1. CASE d = c
      BY <1>1, <2>1, <2>2, <2>3, <2>5, <3>1 DEF CallOK
    <3>2. CASE d # c
      BY <1>1, <2>2, <2>3, <3>2 DEF CallsOK, CallOK
    <3>. QED  BY <3>1, <3>2
  <2>. QED  BY <2>3, <2>4, <2>6 DEF CallsOK
<1>. QED  BY <1>2, <1>3

\* A packet is left for a SendPacket that comes to allocate.
LEMMA OneLeft ==
    ASSUME CallsOK, NEW c \in Waiting
    PROVE  /\ nextPacket \in Packets /\ nextPacket # NoPacket
           /\ Cardinality(Waiting \ {c}) = Cardinality(Waiting) - 1
           /\ nextPacket + 1 + Cardinality(Waiting \ {c}) <= MaxPackets + 1
<1>1. Waiting \in SUBSET Senders /\ c \in Senders
  BY DEF Waiting
<1>2. Cardinality(Waiting) \in Nat /\ Cardinality(Waiting \ {c}) = Cardinality(Waiting) - 1
  BY <1>1, OneWaits
<1>3. Cardinality(Waiting \ {c}) \in Nat
  BY <1>1, HandlesFinite
<1>4. /\ nextPacket \in Nat \ {0} /\ MaxPackets \in Nat
      /\ nextPacket + Cardinality(Waiting) <= MaxPackets + 1
  BY SendBoundsAssumption DEF CallsOK, CallsTyped, Reserved
<1>5. nextPacket <= MaxPackets /\ nextPacket >= 1
  BY <1>2, <1>3, <1>4
<1>. QED  BY <1>2, <1>3, <1>4, <1>5 DEF Packets, NoPacket

LEMMA CallsCheck ==
    ASSUME IInv, CallsOK, NEW c \in Senders, CheckSize(c)
    PROVE  CallsOK'
<1>. USE DEF lifeVars
<1>a. /\ pc \in [Threads -> SenderLabels \cup WorkerLabels] /\ c \in Threads /\ Senders \subseteq Threads
      /\ packet \in [Senders -> Nat] /\ nextPacket \in Nat
  BY ThreadFacts, Busy DEF IInv, Typed, BuffersTyped
<1>1. /\ pc[c] = "size" /\ pc'[c] \in {"full", "link"} /\ UNCHANGED <<id, todo, handle>>
      /\ \A d \in Senders \ {c} : pc'[d] = pc[d]
  BY <1>a DEF CheckSize, Step
<1>2. CASE UNCHANGED <<nextPacket, packet>> /\ (pc'[c] = "full" \/ packet[c] # NoPacket)
  <2>1. \A d \in Senders :
             /\ pc'[d] \in ClaimLabels => pc[d] \in ClaimLabels
             /\ pc'[d] = "idle" <=> pc[d] = "idle"
             /\ pc'[d] = "link" => packet[d] # NoPacket
             /\ pc[d] = "find" => pc'[d] = "find"
    BY <1>1, <1>2 DEF ClaimLabels, CallsOK, CallOK
  <2>. QED  BY <1>1, <1>2, <2>1, CallsKept
<1>3. CASE packet[c] = NoPacket /\ pc'[c] = "link" /\ Allocate(c, 1, {handle[c]})
  <2>1. /\ packet'[c] = nextPacket /\ nextPacket' = nextPacket + 1
        /\ \A d \in Senders \ {c} : packet'[d] = packet[d]
    BY <1>3, <1>a DEF Allocate
  <2>2. c \in Waiting
    BY <1>1, <1>3 DEF Waiting
  <2>3. Handles' = Handles /\ CallsTyped'
    BY <1>1, <2>1 DEF Handles, CallsOK, CallsTyped
  <2>4. Reserved'
    <3>1. Waiting' = Waiting \ {c}
      BY <1>1, <2>1, <2>2, OneLeft DEF Waiting
    <3>. QED  BY <1>a, <2>1, <2>2, <3>1, OneLeft DEF Reserved
  <2>5. ASSUME NEW d \in Senders PROVE CallOK(d)'
    <3>1. CASE d = c
      BY <1>a, <1>1, <1>3, <2>1, <2>2, <2>3, <3>1, OneLeft DEF CallsOK, CallOK, ClaimLabels
    <3>2. CASE d # c
      <4>1. CallOK(d) /\ packet[d] \in Nat
        BY <1>a DEF CallsOK
      <4>. QED  BY <1>a, <1>1, <2>1, <2>3, <3>2, <4>1 DEF CallOK
    <3>. QED  BY <3>1, <3>2
  <2>. QED  BY <2>3, <2>4, <2>5 DEF CallsOK
<1>4. \/ UNCHANGED <<nextPacket, packet>> /\ (pc'[c] = "full" \/ packet[c] # NoPacket)
      \/ packet[c] = NoPacket /\ pc'[c] = "link" /\ Allocate(c, 1, {handle[c]})
  BY <1>a DEF CheckSize, Step
<1>. QED  BY <1>2, <1>3, <1>4

\* The steps after the handle has been found.
LEMMA CallsGoOn ==
    ASSUME IInv, CallsOK, Typed', NEW c \in Senders,
           \/ EnqueueLink(c) \/ EnqueueCount(c) \/ TrySendPost(c) \/ ReturnSession(c)
           \/ ReturnFull(c) \/ Disconnect(c) \/ CloseSession(c)
    PROVE  CallsOK'
<1>. USE DEF lifeVars, callVars, packetVars
<1>a. /\ pc \in [Threads -> SenderLabels \cup WorkerLabels] /\ c \in Threads /\ Senders \subseteq Threads
      /\ c \notin Workers
      /\ todo' \in [Senders -> SUBSET (Slots \X Nat)] /\ todo \in [Senders -> SUBSET (Slots \X Nat)]
  BY ThreadFacts, Busy DEF IInv, Typed, BuffersTyped
<1>1. UNCHANGED <<id, todo, nextPacket>>
  BY <1>a DEF EnqueueLink, EnqueueCount, TrySendPost, ReturnSession, ReturnFull, Disconnect,
     CloseSession
<1>2. CASE \E from : Served(c, from) /\ from # "idle"
  BY <1>a, <1>1, <1>2, CallsServed DEF IInv
<1>3. CASE /\ UNCHANGED <<packet, handle>>
           /\ \/ Step(c, "link", "count") \/ Step(c, "count", "trypost") \/ Step(c, "trypost", "return")
              \/ Step(c, "return", "close") \/ Step(c, "full", "closefull")
              \/ Step(c, "full", "disconnect") \/ Step(c, "closefull", "disconnect")
  <2>1. \A d \in Senders :
             /\ pc'[d] \in ClaimLabels => pc[d] \in ClaimLabels
             /\ pc'[d] = "idle" <=> pc[d] = "idle"
             /\ pc'[d] = "link" => packet[d] # NoPacket
             /\ pc[d] = "find" => pc'[d] = "find"
    BY <1>a, <1>3 DEF Step, ClaimLabels, CallsOK, CallOK
  <2>. QED  BY <1>1, <1>3, <2>1, CallsKept
<1>4. \/ \E from : Served(c, from) /\ from # "idle"
      \/ /\ UNCHANGED <<packet, handle>>
         /\ \/ Step(c, "link", "count") \/ Step(c, "count", "trypost") \/ Step(c, "trypost", "return")
            \/ Step(c, "return", "close") \/ Step(c, "full", "closefull")
            \/ Step(c, "full", "disconnect") \/ Step(c, "closefull", "disconnect")
  <2>1. CASE EnqueueLink(c) \/ EnqueueCount(c) \/ TrySendPost(c)
    BY <2>1 DEF EnqueueLink, EnqueueCount, TrySendPost
  <2>2. CASE ReturnSession(c)
    BY <2>2 DEF ReturnSession
  <2>3. CASE ReturnFull(c)
    BY <2>3 DEF ReturnFull
  <2>4. CASE Disconnect(c)
    BY <2>4 DEF Disconnect
  <2>5. CASE CloseSession(c)
    BY <1>a, <2>5 DEF CloseSession, Step
  <2>. QED  BY <2>1, <2>2, <2>3, <2>4, <2>5
<1>. QED  BY <1>2, <1>3, <1>4

\* The steps of the workers and of the kernel.
LEMMA SendersStay ==
    ASSUME IInv,
           \/ \E s \in Slots : KernelSends(s) \/ KernelFails(s)
           \/ \E w \in Workers, s \in Slots :
                 \/ GetSendPost(w, s) \/ GetRecv(w, s)
                 \/ \E kind \in Kinds : GetSendCompletion(w, s, kind)
           \/ \E w \in Workers : Work(w) \/ CloseSession(w)
           \/ UNCHANGED vars
    PROVE  /\ UNCHANGED <<id, todo, packet, handle, nextPacket, to>>
           /\ \A d \in Senders : pc'[d] = pc[d] /\ slot'[d] = slot[d]
<1>. USE DEF lifeVars, callVars, packetVars
<1>1. /\ pc \in [Threads -> SenderLabels \cup WorkerLabels] /\ Workers \cap Senders = {}
      /\ slot \in [Threads -> Slots \cup {NoSlot}]
      /\ Senders \subseteq Threads
  BY ThreadFacts, Busy DEF IInv, Typed
<1>2. UNCHANGED <<id, todo, packet, handle, nextPacket, to>>
  <2>1. ASSUME NEW w \in Workers, Work(w) \/ CloseSession(w)
        PROVE  UNCHANGED <<id, todo, packet, handle, nextPacket, to>>
    BY <2>1 DEF Work, CloseSession, ClearSendPackets, ClearIsSending, RecheckSize,
       TrySendPostInCompletion,
                DequeueCount, DequeueFails, DequeueTake, PostSendingCheck, WSASend, DecrementIOCount
  <2>2. ASSUME NEW w \in Workers, NEW s \in Slots,
               GetSendPost(w, s) \/ GetRecv(w, s) \/ \E kind \in Kinds : GetSendCompletion(w, s, kind)
        PROVE  UNCHANGED <<id, todo, packet, handle, nextPacket, to>>
    BY <2>2 DEF GetSendPost, GetRecv, GetSendCompletion
  <2>. QED  BY <2>1, <2>2 DEF KernelSends, KernelFails, vars
<1>3. ASSUME NEW w \in Workers, Work(w) \/ CloseSession(w)
      PROVE  (\E x : pc' = [pc EXCEPT ![w] = x]) /\ (slot' = slot \/ \E y : slot' = [slot EXCEPT ![w] = y])
  <2>. DEFINE Moves1 == (\E x : pc' = [pc EXCEPT ![w] = x])
                        /\ (slot' = slot \/ \E y : slot' = [slot EXCEPT ![w] = y])
  <2>1. ASSUME NEW n, NEW from, Finish(w, from, n) PROVE Moves1
    BY <2>1 DEF Finish, Step
  <2>2. CASE ClearSendPackets(w) \/ ClearIsSending(w) \/ RecheckSize(w) \/ TrySendPostInCompletion(w)
    BY <1>1, <2>2 DEF ClearSendPackets, ClearIsSending, RecheckSize, TrySendPostInCompletion, Step
  <2>3. CASE DequeueCount(w) \/ DequeueFails(w) \/ DequeueTake(w)
    BY <2>3 DEF DequeueCount, DequeueFails, DequeueTake, Step
  <2>4. CASE PostSendingCheck(w) \/ \E accepted \in BOOLEAN : WSASend(w, accepted)
    BY <2>1, <2>4 DEF PostSendingCheck, WSASend
  <2>5. CASE DecrementIOCount(w) \/ CloseSession(w)
    BY <2>1, <2>5 DEF DecrementIOCount, CloseSession, Step
  <2>. QED  BY <1>3, <2>2, <2>3, <2>4, <2>5 DEF Work
<1>4. ASSUME NEW w \in Workers, NEW s \in Slots,
             GetSendPost(w, s) \/ GetRecv(w, s) \/ \E kind \in Kinds : GetSendCompletion(w, s, kind)
      PROVE  (\E x : pc' = [pc EXCEPT ![w] = x]) /\ (slot' = slot \/ \E y : slot' = [slot EXCEPT ![w] = y])
  BY <1>4 DEF GetSendPost, GetRecv, GetSendCompletion, Handle, Step
<1>5. /\ pc' = pc \/ \E w \in Workers : \E x : pc' = [pc EXCEPT ![w] = x]
      /\ slot' = slot \/ \E w \in Workers : \E y : slot' = [slot EXCEPT ![w] = y]
  BY <1>3, <1>4 DEF KernelSends, KernelFails, vars
<1>. QED  BY <1>1, <1>2, <1>5

LEMMA CallsElsewhere ==
    ASSUME IInv, CallsOK,
           \/ \E s \in Slots : KernelSends(s) \/ KernelFails(s)
           \/ \E w \in Workers, s \in Slots :
                 \/ GetSendPost(w, s) \/ GetRecv(w, s)
                 \/ \E kind \in Kinds : GetSendCompletion(w, s, kind)
           \/ \E w \in Workers : Work(w) \/ CloseSession(w)
           \/ UNCHANGED vars
    PROVE  CallsOK'
<1>1. UNCHANGED <<id, todo, packet, handle, nextPacket>> /\ \A d \in Senders : pc'[d] = pc[d]
  BY SendersStay
<1>2. \A c \in Senders :
             /\ pc'[c] \in ClaimLabels => pc[c] \in ClaimLabels
             /\ pc'[c] = "idle" <=> pc[c] = "idle"
             /\ pc'[c] = "link" => packet[c] # NoPacket
             /\ pc[c] = "find" => pc'[c] = "find"
  BY <1>1 DEF CallsOK, CallOK
<1>. QED  BY <1>1, <1>2, CallsKept

LEMMA CallsConnect ==
    ASSUME CallsOK, NEW s \in Slots, Connect(s)
    PROVE  CallsOK'
<1>1. UNCHANGED <<pc, todo, packet, handle, nextPacket>> /\ id' = [id EXCEPT ![s] = @ + 1]
  BY DEF Connect, callVars
<1>2. CallsTyped' /\ \A r \in Slots : id[r] \in Nat /\ id'[r] \in Nat /\ id[r] <= id'[r]
  BY <1>1 DEF CallsOK, CallsTyped
<1>3. Handles \subseteq Handles'
  <2>. SUFFICES ASSUME NEW h \in Handles PROVE h \in Handles'
    OBVIOUS
  <2>1. h \in Slots \X (1..MaxConnections) /\ h[2] <= id[h[1]] /\ h[1] \in Slots /\ h[2] \in Nat
    BY SendBoundsAssumption DEF Handles
  <2>2. h[2] <= id'[h[1]]
    BY <1>2, <2>1
  <2>. QED  BY <2>1, <2>2 DEF Handles
<1>4. Reserved'
  BY <1>1, FewerWait DEF CallsOK, CallsTyped, Waiting
<1>5. ASSUME NEW c \in Senders PROVE CallOK(c)'
  <2>1. CallOK(c)
    BY DEF CallsOK
  <2>. QED  BY <1>1, <1>3, <2>1 DEF CallOK
<1>. QED  BY <1>2, <1>4, <1>5 DEF CallsOK

LEMMA CallsStep ==
    ASSUME IInv, IInv', CallsOK, [Next]_vars
    PROVE  CallsOK'
<1>. Typed'
  BY DEF IInv
<1>1. ASSUME NEW c \in Senders, Send(c) PROVE CallsOK'
  BY <1>1, CallsFind, CallsCheck, CallsGoOn DEF Send, FindsNext
<1>. QED  BY <1>1, CallsConnect, CallsBegin, CallsGoOn, CallsElsewhere DEF Next, Threads

-----------------------------------------------------------------------------
(* The references of a packet: where they move.                            *)

HeldTyped == \A p \in Packets :
    InQueues(p) \in Nat /\ InSends(p) \in Nat /\ InBatches(p) \in Nat /\ InCalls(p) \in Nat

LEMMA HeldNow == BuffersTyped => HeldTyped
<1>. SUFFICES ASSUME BuffersTyped, NEW p \in Packets
              PROVE  /\ InQueues(p) \in Nat /\ InSends(p) \in Nat
                     /\ InBatches(p) \in Nat /\ InCalls(p) \in Nat
  BY DEF HeldTyped
<1>1. IsFiniteSet(Slots) /\ IsFiniteSet(Workers)
  BY SendThreadsAssumption, FS_Subset DEF Threads
<1>2. InQueues(p) \in Nat /\ InSends(p) \in Nat
  BY <1>1, PlacesFinite DEF BuffersTyped, InQueues, InSends
<1>3. InBatches(p) \in Nat
  BY <1>1, PlacesFinite DEF BuffersTyped, InBatches
<1>4. InCalls(p) \in Nat
  <2>1. IsFiniteSet(Senders \X Handles)
    BY HandlesFinite, FS_Product
  <2>2. IsFiniteSet(Claims(p))
    BY <2>1, FS_Subset DEF Claims
  <2>. QED  BY <2>2, FS_CardinalityType DEF InCalls
<1>. QED  BY <1>2, <1>3, <1>4

LEMMA HeldNext == BuffersTyped' => HeldTyped'
BY HeldNow, PTL

LEMMA QueueMoves ==
    ASSUME BuffersTyped, BuffersTyped', NEW s \in Slots, NEW p,
           \A r \in Slots \ {s} : queue'[r] = queue[r]
    PROVE  /\ InQueues(p)' + Count(queue[s], p) = InQueues(p) + Count(queue'[s], p)
           /\ InQueues(p) \in Nat /\ InQueues(p)' \in Nat
           /\ Count(queue[s], p) \in Nat /\ Count(queue'[s], p) \in Nat
<1>. DEFINE f == queue
            g == queue'
<1>2. ChangesAt(Slots, s, f, g)
  BY DEF BuffersTyped, ChangesAt
<1>3. InQueues(p) = Cardinality(Places(f, p)) /\ InQueues(p)' = Cardinality(Places(g, p))
  BY DEF InQueues, Places
<1>. HIDE DEF f, g
<1>4. /\ Cardinality(Places(f, p)) \in Nat /\ Cardinality(Places(g, p)) \in Nat
      /\ Count(f[s], p) \in Nat /\ Count(g[s], p) \in Nat
      /\ Cardinality(Places(g, p)) + Count(f[s], p) = Cardinality(Places(f, p)) + Count(g[s], p)
  BY <1>2, SendThreadsAssumption, PlacesChange
<1>. QED  BY <1>3, <1>4 DEF f, g

LEMMA SendsMove ==
    ASSUME BuffersTyped, BuffersTyped', NEW s \in Slots, NEW p,
           \A r \in Slots \ {s} : sendPackets'[r] = sendPackets[r]
    PROVE  /\ InSends(p)' + Count(sendPackets[s], p) = InSends(p) + Count(sendPackets'[s], p)
           /\ InSends(p) \in Nat /\ InSends(p)' \in Nat
           /\ Count(sendPackets[s], p) \in Nat /\ Count(sendPackets'[s], p) \in Nat
<1>. DEFINE f == sendPackets
            g == sendPackets'
<1>2. ChangesAt(Slots, s, f, g)
  BY DEF BuffersTyped, ChangesAt
<1>3. InSends(p) = Cardinality(Places(f, p)) /\ InSends(p)' = Cardinality(Places(g, p))
  BY DEF InSends, Places
<1>. HIDE DEF f, g
<1>4. /\ Cardinality(Places(f, p)) \in Nat /\ Cardinality(Places(g, p)) \in Nat
      /\ Count(f[s], p) \in Nat /\ Count(g[s], p) \in Nat
      /\ Cardinality(Places(g, p)) + Count(f[s], p) = Cardinality(Places(f, p)) + Count(g[s], p)
  BY <1>2, SendThreadsAssumption, PlacesChange
<1>. QED  BY <1>3, <1>4 DEF f, g

LEMMA BatchesMove ==
    ASSUME BuffersTyped, BuffersTyped', NEW w \in Workers, NEW p,
           \A v \in Workers \ {w} : batch'[v] = batch[v]
    PROVE  /\ InBatches(p)' + Count(batch[w], p) = InBatches(p) + Count(batch'[w], p)
           /\ InBatches(p) \in Nat /\ InBatches(p)' \in Nat
           /\ Count(batch[w], p) \in Nat /\ Count(batch'[w], p) \in Nat
<1>. DEFINE f == batch
            g == batch'
<1>1. IsFiniteSet(Workers)
  BY SendThreadsAssumption, FS_Subset DEF Threads
<1>2. ChangesAt(Workers, w, f, g)
  BY DEF BuffersTyped, ChangesAt
<1>3. InBatches(p) = Cardinality(Places(f, p)) /\ InBatches(p)' = Cardinality(Places(g, p))
  BY DEF InBatches, Places
<1>. HIDE DEF f, g
<1>4. /\ Cardinality(Places(f, p)) \in Nat /\ Cardinality(Places(g, p)) \in Nat
      /\ Count(f[w], p) \in Nat /\ Count(g[w], p) \in Nat
      /\ Cardinality(Places(g, p)) + Count(f[w], p) = Cardinality(Places(f, p)) + Count(g[w], p)
  BY <1>2, <1>1, PlacesChange
<1>. QED  BY <1>3, <1>4 DEF f, g

\* A call claims references for handles only.
ClaimsIn == \A c \in Senders, p \in Packets : Claim(c, p) \subseteq Handles

LEMMA ClaimsNow == CallsOK => ClaimsIn
BY DEF CallsOK, CallOK, ClaimsIn, Claim, Unused, ClaimLabels

LEMMA ClaimsNext == CallsOK' => ClaimsIn'
BY ClaimsNow, PTL

LEMMA CallsMove ==
    ASSUME CallsOK, CallsOK', Handles' = Handles, NEW c \in Senders, NEW p \in Packets,
           \A d \in Senders \ {c} : Claim(d, p)' = Claim(d, p)
    PROVE  /\ InCalls(p)' + Cardinality(Claim(c, p)) = InCalls(p) + Cardinality(Claim(c, p)')
           /\ InCalls(p) \in Nat /\ InCalls(p)' \in Nat
           /\ Cardinality(Claim(c, p)) \in Nat /\ Cardinality(Claim(c, p)') \in Nat
<1>. DEFINE R == {x \in Claims(p) : x[1] # c}
            X == Claim(c, p)
            Y == Claim(c, p)'
<1>1. /\ \A d \in Senders : Claim(d, p) \subseteq Handles /\ Claim(d, p)' \subseteq Handles
      /\ \A x : x \in Claims(p) <=> \E d \in Senders, h \in Handles : x = <<d, h>> /\ h \in Claim(d, p)
      /\ \A x : x \in Claims(p)' <=> \E d \in Senders, h \in Handles : x = <<d, h>> /\ h \in Claim(d, p)'
  <2>1. \A d \in Senders : Claim(d, p) \subseteq Handles /\ Claim(d, p)' \subseteq Handles
    BY ClaimsNow, ClaimsNext DEF ClaimsIn
  <2>2. \A x : x \in Claims(p) <=> \E d \in Senders, h \in Handles : x = <<d, h>> /\ h \in Claim(d, p)
    BY DEF Claims, Claim
  <2>3. \A x : x \in Claims(p)' <=> \E d \in Senders, h \in Handles : x = <<d, h>> /\ h \in Claim(d, p)'
    BY DEF Claims, Claim
  <2>. QED  BY <2>1, <2>2, <2>3
<1>2. Claims(p) = R \cup ({c} \X X)
  BY <1>1
<1>3. Claims(p)' = R \cup ({c} \X Y)
  BY <1>1
<1>4. IsFiniteSet(R) /\ \A d \in R : d[1] # c
  <2>1. IsFiniteSet(Senders \X Handles)
    BY HandlesFinite, FS_Product
  <2>2. R \subseteq Senders \X Handles
    BY DEF Claims
  <2>. QED  BY <2>1, <2>2, FS_Subset
<1>5. IsFiniteSet(X) /\ IsFiniteSet(Y)
  BY <1>1, HandlesFinite
<1>. HIDE DEF R, X, Y
<1>6. /\ Cardinality(R \cup ({c} \X X)) = Cardinality(R) + Cardinality(X)
      /\ Cardinality(R) \in Nat /\ Cardinality(X) \in Nat
  BY <1>4, <1>5, AddPairs, ZenonT(60)
<1>7. Cardinality(R \cup ({c} \X Y)) = Cardinality(R) + Cardinality(Y) /\ Cardinality(Y) \in Nat
  BY <1>4, <1>5, AddPairs
<1>8. InCalls(p) = Cardinality(R) + Cardinality(X) /\ InCalls(p)' = Cardinality(R) + Cardinality(Y)
  BY <1>2, <1>3, <1>6, <1>7 DEF InCalls
<1>. QED  BY <1>6, <1>7, <1>8 DEF X, Y

LEMMA CallsStay ==
    ASSUME CallsOK, CallsOK', Handles \subseteq Handles', NEW p \in Packets,
           \A d \in Senders : Claim(d, p)' = Claim(d, p)
    PROVE  InCalls(p)' = InCalls(p)
<1>1. \A d \in Senders : Claim(d, p) \subseteq Handles /\ Claim(d, p)' \subseteq Handles'
  BY ClaimsNow, ClaimsNext DEF ClaimsIn
<1>2. \A x : x \in Claims(p) <=> \E d \in Senders, h \in Handles : x = <<d, h>> /\ h \in Claim(d, p)
  BY DEF Claims, Claim
<1>3. \A x : x \in Claims(p)' <=> \E d \in Senders, h \in Handles' : x = <<d, h>> /\ h \in Claim(d, p)'
  BY DEF Claims, Claim
<1>4. Claims(p)' = Claims(p)
  BY <1>1, <1>2, <1>3
<1>. QED  BY <1>4 DEF InCalls

LEMMA OthersClaim ==
    ASSUME NEW c \in Senders, NEW p, UNCHANGED id,
           \A d \in Senders \ {c} : /\ pc'[d] = pc[d] /\ todo'[d] = todo[d]
                                    /\ packet'[d] = packet[d] /\ handle'[d] = handle[d]
    PROVE  /\ Handles' = Handles
           /\ \A d \in Senders \ {c} : Claim(d, p)' = Claim(d, p)
BY DEF Handles, Claim, Unused

-----------------------------------------------------------------------------
(* The reference count follows.                                            *)

LEMMA ExactKept ==
    ASSUME NEW p, Exact(p), UNCHANGED <<refCount, freed, nextPacket>>, Held(p)' = Held(p)
    PROVE  Exact(p)'
BY DEF Exact

LEMMA ExactDropped ==
    ASSUME NEW p \in Packets, Exact(p), PacketsTyped, NEW seq, Dropped(seq), nextPacket' = nextPacket,
           nextPacket \in Nat, Count(seq, p) \in Nat, Held(p)' \in Nat, Held(p) \in Nat,
           Held(p)' + Count(seq, p) = Held(p)
    PROVE  Exact(p)'
<1>1. /\ refCount'[p] = refCount[p] - Count(seq, p)
      /\ freed'[p] = IF Count(seq, p) > 0 /\ refCount[p] - Count(seq, p) = 0 THEN freed[p] + 1 ELSE freed[p]
  BY DEF Dropped
<1>2. refCount[p] = Held(p) /\ refCount'[p] = Held(p)'
  BY <1>1 DEF Exact
<1>3. p >= nextPacket => refCount[p] = 0
  BY DEF Exact
<1>4. p >= nextPacket => refCount'[p] = 0 /\ Count(seq, p) = 0
  BY <1>1, <1>2, <1>3
<1>5. freed[p] = IF p < nextPacket /\ refCount[p] = 0 THEN 1 ELSE 0
  BY DEF Exact
<1>. DEFINE n == Count(seq, p)
            i == Held(p)
            j == Held(p)'
<1>6. freed'[p] = IF p < nextPacket /\ refCount'[p] = 0 THEN 1 ELSE 0
  <2>1. i = j + n /\ n \in Nat /\ i \in Nat /\ j \in Nat
    OBVIOUS
  <2>2. freed'[p] = IF n > 0 /\ i - n = 0 THEN freed[p] + 1 ELSE freed[p]
    BY <1>1, <1>2
  <2>3. (p >= nextPacket => n = 0) /\ refCount[p] = i /\ refCount'[p] = j
    BY <1>2, <1>4
  <2>4. p < nextPacket \/ p >= nextPacket
    BY DEF Packets
  <2>. HIDE DEF n, i, j
  <2>5. CASE n = 0
    BY <1>5, <2>1, <2>2, <2>3, <2>5
  <2>6. CASE n > 0
    <3>1. i # 0 /\ freed[p] = 0 /\ i - n = j
      BY <1>5, <2>1, <2>3, <2>6
    <3>. QED  BY <2>1, <2>2, <2>3, <2>4, <2>6, <3>1
  <2>. QED  BY <2>1, <2>5, <2>6
<1>. QED  BY <1>2, <1>4, <1>6 DEF Exact

LEMMA ExactAllocated ==
    ASSUME NEW p \in Packets, Exact(p), PacketsTyped, NEW c, NEW hs, NEW n \in Nat \ {0}, Allocate(c, n, hs),
           nextPacket \in Nat, freed' = freed,
           Held(p)' = IF p = nextPacket THEN n ELSE Held(p)
    PROVE  Exact(p)'
<1>1. /\ refCount' = [refCount EXCEPT ![nextPacket] = n] /\ nextPacket' = nextPacket + 1
      /\ p \in Nat
  BY DEF Allocate, Packets
<1>2. CASE p = nextPacket
  BY <1>1, <1>2 DEF Exact, PacketsTyped
<1>3. CASE p # nextPacket
  BY <1>1, <1>3 DEF Exact, PacketsTyped
<1>. QED  BY <1>2, <1>3

LEMMA TypedDropped ==
    ASSUME PacketsTyped, NEW seq \in Seq(Nat), Dropped(seq)
    PROVE  PacketsTyped'
<1>1. \A p \in Packets : Count(seq, p) \in Nat
  BY CountCat
<1>. QED  BY <1>1 DEF PacketsTyped, Dropped

-----------------------------------------------------------------------------
(* Every step moves as many references as it counts.                       *)

LEMMA AllTyped ==
    ASSUME IInv, IInv', CallsOK
    PROVE  /\ BuffersTyped /\ BuffersTyped' /\ HeldTyped /\ HeldTyped' /\ SessionsTyped
           /\ nextPacket \in Nat /\ (\A p \in Packets : p \in Nat /\ p # NoPacket)
           /\ \A p \in Packets : Held(p) \in Nat /\ Held(p)' \in Nat
<1>1. BuffersTyped /\ BuffersTyped' /\ SessionsTyped
  BY DEF IInv, Typed
<1>2. HeldTyped /\ HeldTyped'
  BY <1>1, HeldNow, HeldNext
<1>3. \A p \in Packets : Held(p) \in Nat /\ Held(p)' \in Nat
  BY <1>2 DEF HeldTyped, Held
<1>. QED  BY <1>1, <1>2, <1>3 DEF BuffersTyped, Packets, NoPacket

LEMMA KeptAll ==
    ASSUME PacketsExact, UNCHANGED <<refCount, freed, nextPacket>>,
           \A p \in Packets : Held(p)' = Held(p)
    PROVE  PacketsExact'
<1>1. PacketsTyped'
  BY DEF PacketsExact, PacketsTyped
<1>2. \A p \in Packets : Exact(p)'
  BY ExactKept DEF PacketsExact
<1>. QED  BY <1>1, <1>2 DEF PacketsExact

LEMMA DroppedAll ==
    ASSUME IInv, IInv', CallsOK, PacketsExact, NEW seq \in Seq(Nat), Dropped(seq),
           nextPacket' = nextPacket,
           \A p \in Packets : Held(p)' + Count(seq, p) = Held(p)
    PROVE  PacketsExact'
<1>1. PacketsTyped /\ \A p \in Packets : Exact(p) /\ Count(seq, p) \in Nat
  BY CountCat DEF PacketsExact
<1>2. PacketsTyped'
  BY <1>1, TypedDropped
<1>3. \A p \in Packets : Exact(p)'
  BY <1>1, AllTyped, ExactDropped
<1>. QED  BY <1>2, <1>3 DEF PacketsExact

LEMMA AllocatedAll ==
    ASSUME IInv, IInv', CallsOK, PacketsExact, NEW c, NEW hs, NEW n \in Nat \ {0},
           Allocate(c, n, hs), freed' = freed,
           \A p \in Packets : Held(p)' = IF p = nextPacket THEN n ELSE Held(p)
    PROVE  PacketsExact'
<1>1. PacketsTyped /\ \A p \in Packets : Exact(p)
  BY DEF PacketsExact
<1>2. PacketsTyped'
  <2>1. refCount' = [refCount EXCEPT ![nextPacket] = n] /\ n \in Int
    BY DEF Allocate
  <2>2. refCount' \in [Packets -> Int]
    BY <1>1, <2>1 DEF PacketsTyped
  <2>. QED  BY <1>1, <2>2 DEF PacketsTyped
<1>3. \A p \in Packets : Exact(p)'
  BY <1>1, AllTyped, ExactAllocated
<1>. QED  BY <1>2, <1>3 DEF PacketsExact

\* The packets are where they were, and the calls have what they had.
LEMMA HeldSame ==
    ASSUME CallsOK, CallsOK', UNCHANGED <<queue, sendPackets, batch, id>>, NEW p \in Packets,
           \A d \in Senders : Claim(d, p)' = Claim(d, p)
    PROVE  Held(p)' = Held(p)
<1>1. InCalls(p)' = InCalls(p)
  BY CallsStay DEF Handles
<1>. QED  BY <1>1 DEF Held, InQueues, InSends, InBatches

\* Only the claims of call c change.
LEMMA HeldByCall ==
    ASSUME IInv, IInv', CallsOK, CallsOK', UNCHANGED <<queue, sendPackets, batch, id>>,
           NEW c \in Senders, NEW p \in Packets,
           \A d \in Senders \ {c} : /\ pc'[d] = pc[d] /\ todo'[d] = todo[d]
                                    /\ packet'[d] = packet[d] /\ handle'[d] = handle[d]
    PROVE  /\ Held(p)' + Cardinality(Claim(c, p)) = Held(p) + Cardinality(Claim(c, p)')
           /\ Cardinality(Claim(c, p)) \in Nat /\ Cardinality(Claim(c, p)') \in Nat
<1>1. /\ InCalls(p)' + Cardinality(Claim(c, p)) = InCalls(p) + Cardinality(Claim(c, p)')
      /\ Cardinality(Claim(c, p)) \in Nat /\ Cardinality(Claim(c, p)') \in Nat
      /\ InCalls(p) \in Nat /\ InCalls(p)' \in Nat
  BY OthersClaim, CallsMove
<1>2. InQueues(p)' = InQueues(p) /\ InSends(p)' = InSends(p) /\ InBatches(p)' = InBatches(p)
  BY DEF InQueues, InSends, InBatches
<1>3. InQueues(p) \in Nat /\ InSends(p) \in Nat /\ InBatches(p) \in Nat
  BY AllTyped DEF HeldTyped
<1>. QED  BY <1>1, <1>2, <1>3 DEF Held

\* What a call claims when it has gone on to its next handle.
LEMMA ServedClaim ==
    ASSUME IInv, CallsOK, NEW c \in Senders, NEW from, Served(c, from), NEW p \in Packets
    PROVE  /\ Claim(c, p)' = IF packet[c] = p THEN todo'[c] ELSE {}
           /\ \A d \in Senders \ {c} :
                 pc'[d] = pc[d] /\ packet'[d] = packet[d] /\ handle'[d] = handle[d]
<1>1. /\ pc \in [Threads -> SenderLabels \cup WorkerLabels] /\ Senders \subseteq Threads
      /\ packet \in [Senders -> Nat] /\ p # NoPacket
  BY Busy, ThreadFacts DEF IInv, Typed, BuffersTyped, Packets, NoPacket
<1>2. /\ pc'[c] \in {"idle", "find"}
      /\ packet'[c] = IF todo'[c] = {} THEN NoPacket ELSE packet[c]
      /\ \A d \in Senders \ {c} : pc'[d] = pc[d] /\ packet'[d] = packet[d] /\ handle'[d] = handle[d]
  BY <1>1 DEF Served, Step, CallsOK, CallsTyped
<1>3. Unused(c)' = todo'[c]
  BY <1>2 DEF Unused
<1>. QED  BY <1>1, <1>2, <1>3 DEF Claim

\* A handle is not served, and its reference, if it had one, is given up.
LEMMA ExactGivenUp ==
    ASSUME IInv, IInv', CallsOK, CallsOK', PacketsExact, NEW c \in Senders, NEW from, Served(c, from),
           GiveUp(c), UNCHANGED <<queue, sendPackets, batch, id, nextPacket>>,
           \A d \in Senders \ {c} : todo'[d] = todo[d],
           NEW h \in Handles, Unused(c) = todo'[c] \cup {h}, h \notin todo'[c],
           todo'[c] \subseteq Handles
    PROVE  PacketsExact'
<1>1. packet[c] \in Nat /\ \A p \in Packets : p # NoPacket
  BY AllTyped DEF BuffersTyped
<1>2. Cardinality(todo'[c] \cup {h}) = Cardinality(todo'[c]) + 1 /\ Cardinality(todo'[c]) \in Nat
  BY HandlesFinite, FS_AddElement
<1>3. Cardinality({}) = 0
  BY FS_EmptySet
<1>4. ASSUME NEW p \in Packets PROVE Held(p)' + B(packet[c] = p) = Held(p)
  <2>1. /\ Claim(c, p)' = IF packet[c] = p THEN todo'[c] ELSE {}
        /\ Claim(c, p) = IF packet[c] = p THEN todo'[c] \cup {h} ELSE {}
    BY ServedClaim DEF Claim
  <2>2. Cardinality(Claim(c, p)) = Cardinality(Claim(c, p)') + B(packet[c] = p)
    BY <1>2, <1>3, <2>1 DEF B
  <2>3. /\ Held(p)' + Cardinality(Claim(c, p)) = Held(p) + Cardinality(Claim(c, p)')
        /\ Cardinality(Claim(c, p)) \in Nat /\ Cardinality(Claim(c, p)') \in Nat
    BY ServedClaim, HeldByCall
  <2>4. Held(p) \in Nat /\ Held(p)' \in Nat /\ B(packet[c] = p) \in 0..1
    BY AllTyped DEF B
  <2>. DEFINE i == Held(p)
              j == Held(p)'
              m == Cardinality(Claim(c, p))
              n == Cardinality(Claim(c, p)')
              b == B(packet[c] = p)
  <2>5. i \in Nat /\ j \in Nat /\ m \in Nat /\ n \in Nat /\ b \in 0..1 /\ m = n + b /\ j + m = i + n
    BY <2>2, <2>3, <2>4
  <2>. HIDE DEF i, j, m, n, b
  <2>6. j + b = i
    BY <2>5
  <2>. QED  BY <2>6 DEF i, j, b
<1>5. CASE packet[c] = NoPacket
  <2>1. UNCHANGED <<refCount, freed, nextPacket>>
    BY <1>5 DEF GiveUp
  <2>2. \A p \in Packets : Held(p)' = Held(p)
    <3>. SUFFICES ASSUME NEW p \in Packets PROVE Held(p)' = Held(p)
      OBVIOUS
    <3>1. B(packet[c] = p) = 0 /\ Held(p)' \in Nat /\ Held(p) \in Nat
      BY <1>1, <1>5, AllTyped DEF B
    <3>2. Held(p)' + B(packet[c] = p) = Held(p)
      BY <1>4
    <3>. QED  BY <3>1, <3>2
  <2>. QED  BY <2>1, <2>2, KeptAll
<1>6. CASE packet[c] # NoPacket
  <2>1. Dropped(<<packet[c]>>) /\ <<packet[c]>> \in Seq(Nat)
    BY <1>1, <1>6 DEF GiveUp
  <2>2. \A p \in Packets : Count(<<packet[c]>>, p) = B(packet[c] = p)
    BY CountOne
  <2>3. \A p \in Packets : Held(p)' + Count(<<packet[c]>>, p) = Held(p)
    BY <1>4, <2>2
  <2>. QED  BY <2>1, <2>3, DroppedAll
<1>. QED  BY <1>5, <1>6

\* ClearSendPackets and ClearSendBuffer drop what they take out.
LEMMA ExactEmptied ==
    ASSUME IInv, IInv', CallsOK, PacketsExact, NEW s \in Slots, state[s] # "live", Emptied(s),
           UNCHANGED <<batch, nextPacket>>, \A p \in Packets : InCalls(p)' = InCalls(p)
    PROVE  PacketsExact'
<1>. DEFINE f == queue[s]
            g == sendPackets[s]
<1>1. f \in Seq(Nat) /\ g \in Seq(Nat) /\ size[s] = Len(f) /\ <<>> \in Seq(Nat)
  BY NobodyAtQueue, AllTyped DEF BuffersTyped
<1>2. queue'[s] = <<>> /\ sendPackets'[s] = <<>>
      /\ \A r \in Slots \ {s} : queue'[r] = queue[r] /\ sendPackets'[r] = sendPackets[r]
  BY <1>1, AllTyped, EmptiedAll, SMTT(30) DEF BuffersTyped
<1>3. Dropped(g \o f) /\ g \o f \in Seq(Nat)
  <2>. DEFINE n == Cardinality({i \in DOMAIN f : i <= size[s]})
              l == Len(f)
  <2>1. {i \in DOMAIN f : i <= size[s]} = 1..l /\ l \in Nat
    BY <1>1
  <2>2. \A k \in Nat : Cardinality(1..k) = k
    BY FS_Interval
  <2>3. n = l
    BY <2>1, <2>2
  <2>4. Dropped(g \o SubSeq(f, 1, n))
    BY DEF Emptied
  <2>5. SubSeq(f, 1, l) = f
    BY <1>1
  <2>6. Dropped(g \o f)
    <3>. HIDE DEF f, g, n, l
    <3>. QED  BY <2>3, <2>4, <2>5
  <2>7. g \o f \in Seq(Nat)
    <3>. HIDE DEF f, g
    <3>. QED  BY <1>1
  <2>. QED  BY <2>6, <2>7
<1>. HIDE DEF f, g
<1>4. ASSUME NEW p \in Packets PROVE Held(p)' + Count(g \o f, p) = Held(p)
  <2>1. Count(g \o f, p) = Count(g, p) + Count(f, p) /\ Count(g, p) \in Nat /\ Count(f, p) \in Nat
        /\ Count(<<>>, p) = 0
    <3>1. Count(g \o f, p) = Count(g, p) + Count(f, p) /\ Count(g, p) \in Nat /\ Count(f, p) \in Nat
      BY <1>1, CountCat
    <3>2. Count(<<>>, p) = 0
      BY CountOne
    <3>. QED  BY <3>1, <3>2
  <2>2. InQueues(p)' + Count(f, p) = InQueues(p) /\ InQueues(p) \in Nat /\ InQueues(p)' \in Nat
    BY <1>2, <2>1, AllTyped, QueueMoves DEF f
  <2>3. InSends(p)' + Count(g, p) = InSends(p) /\ InSends(p) \in Nat /\ InSends(p)' \in Nat
    BY <1>2, <2>1, AllTyped, SendsMove DEF g
  <2>4. InBatches(p)' = InBatches(p) /\ InBatches(p) \in Nat /\ InCalls(p) \in Nat
        /\ InCalls(p)' = InCalls(p)
    BY AllTyped DEF InBatches, HeldTyped
  <2>5. /\ Held(p) = InQueues(p) + InSends(p) + InBatches(p) + InCalls(p)
        /\ Held(p)' = InQueues(p)' + InSends(p)' + InBatches(p)' + InCalls(p)'
    BY DEF Held
  <2>6. Held(p)' = InQueues(p)' + InSends(p)' + InBatches(p) + InCalls(p)
    BY <2>4, <2>5
  <2>. QED  BY <2>1, <2>2, <2>3, <2>4, <2>5, <2>6, SMTT(30)
<1>. QED  BY <1>3, <1>4, DroppedAll

LEMMA ExactConnect ==
    ASSUME IInv, IInv', CallsOK, CallsOK', PacketsExact, NEW s \in Slots, Connect(s)
    PROVE  PacketsExact'
<1>1. state[s] # "live" /\ Emptied(s) /\ UNCHANGED <<batch, nextPacket, pc, todo, packet, handle>>
  BY DEF Connect, callVars, workVars
<1>2. Handles \subseteq Handles'
  <2>1. id' = [id EXCEPT ![s] = @ + 1]
    BY DEF Connect
  <2>2. \A r \in Slots : id[r] \in Nat /\ id'[r] \in Nat /\ id[r] <= id'[r]
    BY <2>1 DEF CallsOK, CallsTyped
  <2>. SUFFICES ASSUME NEW h \in Handles PROVE h \in Handles'
    OBVIOUS
  <2>3. h \in Slots \X (1..MaxConnections) /\ h[2] <= id[h[1]] /\ h[1] \in Slots /\ h[2] \in Nat
    BY SendBoundsAssumption DEF Handles
  <2>4. h[2] <= id'[h[1]]
    BY <2>2, <2>3
  <2>. QED  BY <2>3, <2>4 DEF Handles
<1>3. \A p \in Packets : InCalls(p)' = InCalls(p)
  BY <1>1, <1>2, CallsStay DEF Claim, Unused
<1>. QED  BY <1>1, <1>3, ExactEmptied

LEMMA ExactClose ==
    ASSUME IInv, IInv', CallsOK, CallsOK', PacketsExact, NEW t \in Threads, CloseSession(t)
    PROVE  PacketsExact'
<1>1. slot[t] \in Slots /\ state[slot[t]] # "live"
  <2>1. pc[t] \in CloseLabels
    BY DEF CloseSession, CloseLabels
  <2>. QED  BY <2>1, Referenced
<1>2. Emptied(slot[t]) /\ UNCHANGED <<batch, nextPacket, id, todo>> /\ Handles' = Handles
  <2>1. Emptied(slot[t]) /\ UNCHANGED <<batch, nextPacket, id>> /\ todo' = todo
    BY DEF CloseSession, callVars
  <2>. QED  BY <2>1 DEF Handles
<1>3. ASSUME NEW p \in Packets PROVE InCalls(p)' = InCalls(p)
  <2>1. CASE t \in Workers
    <3>1. UNCHANGED <<todo, packet, handle>> /\ \A d \in Senders : pc'[d] = pc[d]
      BY <2>1, SendersStay
    <3>. QED  BY <1>2, <3>1, CallsStay DEF Claim, Unused
  <2>2. CASE t \in Senders
    <3>1. t \notin Workers /\ t \in Threads
      BY <2>2, ThreadFacts
    <3>2. CASE Served(t, "close")
      <4>1. Claim(t, p)' = Claim(t, p)
        <5>1. pc[t] = "close" /\ Unused(t) = todo[t]
          BY <3>2 DEF Served, Step, Unused
        <5>. QED  BY <1>2, <2>2, <3>2, <5>1, ServedClaim DEF Claim
      <4>2. \A d \in Senders : Claim(d, p)' = Claim(d, p)
        BY <1>2, <2>2, <3>2, <4>1, ServedClaim, ZenonT(60) DEF Claim, Unused
      <4>. QED  BY <1>2, <4>2, CallsStay
    <3>3. CASE Step(t, "closefull", "disconnect") /\ UNCHANGED <<packet, handle>>
      <4>1. pc[t] = "closefull" /\ pc'[t] = "disconnect" /\ \A d \in Senders \ {t} : pc'[d] = pc[d]
        BY <2>2, <3>1, <3>3, ThreadFacts, Busy DEF Step, IInv, Typed
      <4>2. \A d \in Senders : Claim(d, p)' = Claim(d, p)
        BY <1>2, <3>3, <4>1 DEF Claim, Unused
      <4>. QED  BY <1>2, <4>2, CallsStay
    <3>. QED  BY <3>1, <3>2, <3>3 DEF CloseSession
  <2>. QED  BY <2>1, <2>2 DEF Threads
<1>. QED  BY <1>1, <1>2, <1>3, ExactEmptied

LEMMA ExactBegin ==
    ASSUME IInv, IInv', CallsOK, CallsOK', PacketsExact, NEW c \in Senders,
           \/ \E h \in Handles : SendPacket(c, h)
           \/ \E hs \in (SUBSET Handles) \ {{}} : SendPacketMulticast(c, hs)
    PROVE  PacketsExact'
<1>. USE DEF lifeVars, bufferVars, workVars, packetVars
<1>a. /\ pc \in [Threads -> SenderLabels \cup WorkerLabels] /\ c \in Threads /\ Senders \subseteq Threads
      /\ packet \in [Senders -> Nat] /\ todo \in [Senders -> SUBSET (Slots \X Nat)]
      /\ \A p \in Packets : p # NoPacket
  BY ThreadFacts, Busy, AllTyped DEF IInv, Typed, BuffersTyped
<1>b. pc[c] = "idle" /\ packet[c] = NoPacket
  BY DEF SendPacket, SendPacketMulticast, Step, CallsOK, CallOK
<1>c. /\ UNCHANGED <<queue, sendPackets, batch, id, handle, freed>>
      /\ \A d \in Senders \ {c} : pc'[d] = pc[d] /\ todo'[d] = todo[d] /\ packet'[d] = packet[d]
                                  /\ handle'[d] = handle[d]
  BY <1>a DEF SendPacket, SendPacketMulticast, Allocate, Step
<1>1. ASSUME NEW h \in Handles, SendPacket(c, h) PROVE PacketsExact'
  <2>1. UNCHANGED <<packet, refCount, freed, nextPacket>>
    BY <1>1 DEF SendPacket
  <2>2. ASSUME NEW p \in Packets PROVE Held(p)' = Held(p)
    <3>1. \A d \in Senders : Claim(d, p)' = Claim(d, p)
      BY <1>a, <1>b, <1>c, <2>1 DEF Claim, Unused
    <3>. QED  BY <1>c, <3>1, HeldSame
  <2>. QED  BY <2>1, <2>2, KeptAll
<1>2. ASSUME NEW hs \in (SUBSET Handles) \ {{}}, SendPacketMulticast(c, hs) PROVE PacketsExact'
  <2>1. /\ Allocate(c, Cardinality(hs), hs) /\ packet'[c] = nextPacket
        /\ pc'[c] = "find" /\ todo'[c] = hs
    BY <1>2, <1>a DEF SendPacketMulticast, Allocate, Step
  <2>2. IsFiniteSet(hs) /\ Cardinality(hs) \in Nat /\ Cardinality(hs) # 0 /\ Cardinality({}) = 0
    BY HandlesFinite, FS_EmptySet
  <2>3. ASSUME NEW p \in Packets PROVE Held(p)' = IF p = nextPacket THEN Cardinality(hs) ELSE Held(p)
    <3>1. Claim(c, p) = {} /\ Claim(c, p)' = IF p = nextPacket THEN hs ELSE {}
      BY <1>a, <1>b, <2>1 DEF Claim, Unused
    <3>2. Held(p)' + Cardinality(Claim(c, p)) = Held(p) + Cardinality(Claim(c, p)')
      BY <1>c, HeldByCall
    <3>3. Held(p) \in Nat /\ Held(p)' \in Nat /\ (p = nextPacket => Held(p) = 0)
      BY AllTyped DEF PacketsExact, Exact
    <3>4. CASE p = nextPacket
      <4>1. Held(p)' + 0 = 0 + Cardinality(hs)
        BY <2>2, <3>1, <3>2, <3>3, <3>4
      <4>. QED  BY <2>2, <3>3, <3>4, <4>1
    <3>5. CASE p # nextPacket
      <4>1. Held(p)' + 0 = Held(p) + 0
        BY <2>2, <3>1, <3>2, <3>5
      <4>. QED  BY <3>3, <3>5, <4>1
    <3>. QED  BY <3>4, <3>5
  <2>4. Cardinality(hs) \in Nat \ {0}
    BY <2>2
  <2>. QED  BY <1>c, <2>1, <2>3, <2>4, AllocatedAll
<1>. QED  BY <1>1, <1>2

LEMMA ExactFind ==
    ASSUME IInv, IInv', CallsOK, CallsOK', PacketsExact, NEW c \in Senders, NEW h \in todo[c],
           FindSession(c, h)
    PROVE  PacketsExact'
<1>. USE DEF lifeVars, bufferVars, workVars
<1>a. /\ pc \in [Threads -> SenderLabels \cup WorkerLabels] /\ c \in Threads /\ Senders \subseteq Threads
      /\ todo \in [Senders -> SUBSET (Slots \X Nat)]
      /\ handle \in [Senders -> (Slots \cup {NoSlot}) \X Nat]
  BY ThreadFacts, Busy DEF IInv, Typed, BuffersTyped, CallsOK, CallsTyped
<1>1. /\ todo'[c] = todo[c] \ {h} /\ \A d \in Senders \ {c} : todo'[d] = todo[d]
      /\ UNCHANGED <<queue, sendPackets, batch, id, nextPacket>>
  BY <1>a DEF FindSession
<1>2. todo[c] \subseteq Handles /\ pc[c] = "find" /\ Unused(c) = todo'[c] \cup {h}
  BY <1>1 DEF FindSession, Served, Step, CallsOK, CallOK, Unused
<1>3. CASE ~Found(h)
  <2>1. Served(c, "find") /\ GiveUp(c)
    BY <1>3 DEF FindSession
  <2>2. h \in Handles /\ h \notin todo'[c] /\ todo'[c] \subseteq Handles
    BY <1>1, <1>2
  <2>. QED  BY <1>1, <1>2, <2>1, <2>2, ExactGivenUp
<1>4. CASE Found(h)
  <2>1. /\ pc'[c] = "size" /\ handle'[c] = h /\ UNCHANGED <<refCount, freed, packet>>
        /\ \A d \in Senders \ {c} : pc'[d] = pc[d] /\ handle'[d] = handle[d]
    BY <1>4, <1>a, <1>2 DEF FindSession, Step
  <2>2. Unused(c)' = todo'[c] \cup {h}
    BY <2>1 DEF Unused
  <2>3. ASSUME NEW p \in Packets PROVE Held(p)' = Held(p)
    <3>1. Claim(c, p)' = Claim(c, p)
      BY <1>2, <2>1, <2>2 DEF Claim
    <3>2. \A d \in Senders : Claim(d, p)' = Claim(d, p)
      BY <1>1, <2>1, <3>1 DEF Claim, Unused
    <3>. QED  BY <1>1, <3>2, HeldSame
  <2>. QED  BY <1>1, <2>1, <2>3, KeptAll
<1>. QED  BY <1>3, <1>4

LEMMA ExactCheck ==
    ASSUME IInv, IInv', CallsOK, CallsOK', PacketsExact, NEW c \in Senders, CheckSize(c)
    PROVE  PacketsExact'
<1>. USE DEF lifeVars, bufferVars, workVars
<1>a. /\ pc \in [Threads -> SenderLabels \cup WorkerLabels] /\ c \in Threads /\ Senders \subseteq Threads
      /\ packet \in [Senders -> Nat] /\ \A p \in Packets : p # NoPacket
  BY ThreadFacts, Busy, AllTyped DEF IInv, Typed, BuffersTyped
<1>1. /\ pc[c] = "size" /\ pc'[c] \in {"full", "link"}
      /\ UNCHANGED <<queue, sendPackets, batch, id, todo, handle, freed>>
      /\ \A d \in Senders \ {c} : pc'[d] = pc[d]
  BY <1>a DEF CheckSize, Step
<1>2. Unused(c)' = Unused(c) /\ Unused(c) = todo[c] \cup {handle[c]}
  BY <1>1 DEF Unused
<1>3. CASE UNCHANGED <<refCount, nextPacket, packet>>
  <2>1. ASSUME NEW p \in Packets PROVE Held(p)' = Held(p)
    <3>1. \A d \in Senders : Claim(d, p)' = Claim(d, p)
      BY <1>1, <1>2, <1>3 DEF Claim, Unused
    <3>. QED  BY <1>1, <3>1, HeldSame
  <2>. QED  BY <1>1, <1>3, <2>1, KeptAll
<1>4. CASE packet[c] = NoPacket /\ Allocate(c, 1, {handle[c]})
  <2>1. packet'[c] = nextPacket /\ \A d \in Senders \ {c} : packet'[d] = packet[d]
    BY <1>4, <1>a DEF Allocate
  <2>2. todo[c] = {}
    BY <1>1, <1>4 DEF CallsOK, CallOK
  <2>3. Cardinality({handle[c]}) = 1 /\ Cardinality({}) = 0
    BY FS_Singleton, FS_EmptySet
  <2>4. ASSUME NEW p \in Packets PROVE Held(p)' = IF p = nextPacket THEN 1 ELSE Held(p)
    <3>1. Claim(c, p) = {} /\ Claim(c, p)' = IF p = nextPacket THEN {handle[c]} ELSE {}
      BY <1>a, <1>2, <1>4, <2>1, <2>2 DEF Claim
    <3>2. Held(p)' + Cardinality(Claim(c, p)) = Held(p) + Cardinality(Claim(c, p)')
      BY <1>1, <2>1, HeldByCall
    <3>3. Held(p) \in Nat /\ Held(p)' \in Nat /\ (p = nextPacket => Held(p) = 0)
      BY AllTyped DEF PacketsExact, Exact
    <3>4. CASE p = nextPacket
      <4>1. Held(p)' + 0 = 0 + 1
        BY <2>3, <3>1, <3>2, <3>3, <3>4
      <4>. QED  BY <3>3, <3>4, <4>1
    <3>5. CASE p # nextPacket
      <4>1. Held(p)' + 0 = Held(p) + 0
        BY <2>3, <3>1, <3>2, <3>5
      <4>. QED  BY <3>3, <3>5, <4>1
    <3>. QED  BY <3>4, <3>5
  <2>. QED  BY <1>1, <1>4, <2>4, AllocatedAll
<1>. QED  BY <1>3, <1>4 DEF CheckSize

LEMMA ExactLink ==
    ASSUME IInv, IInv', CallsOK, CallsOK', PacketsExact, NEW c \in Senders, EnqueueLink(c)
    PROVE  PacketsExact'
<1>. USE DEF lifeVars, bufferVars, workVars, packetVars, callVars
<1>a. /\ pc \in [Threads -> SenderLabels \cup WorkerLabels] /\ c \in Threads /\ Senders \subseteq Threads
      /\ packet[c] \in Nat /\ queue \in [Slots -> Seq(Nat)] /\ pc[c] = "link"
  BY ThreadFacts, Busy, AllTyped DEF IInv, Typed, BuffersTyped, EnqueueLink, Step
<1>1. slot[c] \in Slots
  BY <1>a, Busy DEF IInv, Typed
<1>2. /\ pc'[c] = "count" /\ \A d \in Senders \ {c} : pc'[d] = pc[d]
      /\ queue' = [queue EXCEPT ![slot[c]] = Append(@, packet[c])]
      /\ UNCHANGED <<sendPackets, batch, id, todo, packet, handle, refCount, freed, nextPacket>>
  BY <1>a DEF EnqueueLink, Step
<1>3. todo[c] \subseteq Handles /\ handle[c] \in Handles \ todo[c]
  BY <1>a DEF CallsOK, CallOK, ClaimLabels
<1>4. Cardinality(todo[c] \cup {handle[c]}) = Cardinality(todo[c]) + 1 /\ Cardinality(todo[c]) \in Nat
      /\ Cardinality({}) = 0
  BY <1>3, HandlesFinite, FS_AddElement, FS_EmptySet
<1>5. ASSUME NEW p \in Packets PROVE Held(p)' = Held(p)
  <2>1. /\ Claim(c, p) = IF packet[c] = p THEN todo[c] \cup {handle[c]} ELSE {}
        /\ Claim(c, p)' = IF packet[c] = p THEN todo[c] ELSE {}
    BY <1>a, <1>2 DEF Claim, Unused
  <2>2. Cardinality(Claim(c, p)) = Cardinality(Claim(c, p)') + B(packet[c] = p)
    BY <1>4, <2>1 DEF B
  <2>3. /\ InCalls(p)' + Cardinality(Claim(c, p)) = InCalls(p) + Cardinality(Claim(c, p)')
        /\ InCalls(p) \in Nat /\ InCalls(p)' \in Nat
        /\ Cardinality(Claim(c, p)) \in Nat /\ Cardinality(Claim(c, p)') \in Nat
    BY <1>2, OthersClaim, CallsMove
  <2>4. Count(queue'[slot[c]], p) = Count(queue[slot[c]], p) + B(packet[c] = p)
    <3>1. queue'[slot[c]] = Append(queue[slot[c]], packet[c]) /\ queue[slot[c]] \in Seq(Nat)
      BY <1>a, <1>1, <1>2
    <3>2. \A f \in Seq(Nat) : Count(Append(f, packet[c]), p) = Count(f, p) + B(packet[c] = p)
      BY <1>a, CountMoves
    <3>. QED  BY <3>1, <3>2
  <2>5. /\ InQueues(p)' + Count(queue[slot[c]], p) = InQueues(p) + Count(queue'[slot[c]], p)
        /\ InQueues(p) \in Nat /\ InQueues(p)' \in Nat
        /\ Count(queue[slot[c]], p) \in Nat /\ Count(queue'[slot[c]], p) \in Nat
    <3>1. \A r \in Slots \ {slot[c]} : queue'[r] = queue[r]
      BY <1>a, <1>2
    <3>. QED  BY <1>1, <3>1, AllTyped, QueueMoves
  <2>6. InSends(p)' = InSends(p) /\ InBatches(p)' = InBatches(p) /\ InSends(p) \in Nat /\ InBatches(p) \in Nat
    BY <1>2, AllTyped DEF InSends, InBatches, HeldTyped
  <2>7. B(packet[c] = p) \in 0..1
    BY DEF B
  <2>8. InQueues(p)' = InQueues(p) + B(packet[c] = p)
    <3>. DEFINE m == Count(queue[slot[c]], p)
                n == Count(queue'[slot[c]], p)
    <3>. HIDE DEF m, n
    <3>1. n = m + B(packet[c] = p) /\ m \in Nat /\ n \in Nat /\ InQueues(p)' + m = InQueues(p) + n
      BY <2>4, <2>5 DEF m, n
    <3>. QED  BY <2>5, <2>7, <3>1
  <2>9. InCalls(p)' + B(packet[c] = p) = InCalls(p)
    <3>. DEFINE m == Cardinality(Claim(c, p))
                n == Cardinality(Claim(c, p)')
    <3>. HIDE DEF m, n
    <3>1. m = n + B(packet[c] = p) /\ m \in Nat /\ n \in Nat /\ InCalls(p)' + m = InCalls(p) + n
      BY <2>2, <2>3 DEF m, n
    <3>. QED  BY <2>3, <2>7, <3>1
  <2>. QED  BY <2>3, <2>5, <2>6, <2>7, <2>8, <2>9 DEF Held
<1>. QED  BY <1>2, <1>5, KeptAll

\* The steps of a call that leave its references alone.
LEMMA ExactGoesOn ==
    ASSUME IInv, IInv', CallsOK, CallsOK', PacketsExact, NEW c \in Senders,
           EnqueueCount(c) \/ TrySendPost(c) \/ ReturnSession(c) \/ ReturnFull(c)
    PROVE  PacketsExact'
<1>. USE DEF lifeVars, bufferVars, workVars, packetVars, callVars
<1>a. pc \in [Threads -> SenderLabels \cup WorkerLabels] /\ c \in Threads /\ Senders \subseteq Threads
  BY ThreadFacts, Busy DEF IInv, Typed
<1>1. UNCHANGED <<queue, sendPackets, batch, id, todo, refCount, freed, nextPacket>>
  BY DEF EnqueueCount, TrySendPost, ReturnSession, ReturnFull
<1>2. ASSUME NEW p \in Packets PROVE Held(p)' = Held(p)
  <2>1. CASE Served(c, "return")
    <3>1. pc[c] = "return" /\ Unused(c) = todo[c]
      BY <2>1 DEF Served, Step, Unused
    <3>2. \A d \in Senders : Claim(d, p)' = Claim(d, p)
      BY <1>1, <2>1, <3>1, ServedClaim, ZenonT(60) DEF Claim, Unused
    <3>. QED  BY <1>1, <3>2, HeldSame
  <2>2. CASE /\ UNCHANGED <<packet, handle>>
             /\ \/ Step(c, "count", "trypost") \/ Step(c, "trypost", "return") \/ Step(c, "return", "close")
                \/ Step(c, "full", "closefull") \/ Step(c, "full", "disconnect")
    <3>1. \A d \in Senders \ {c} : pc'[d] = pc[d]
      BY <1>a, <2>2 DEF Step
    <3>2. Unused(c)' = Unused(c)
      BY <1>a, <1>1, <2>2 DEF Step, Unused
    <3>3. \A d \in Senders : Claim(d, p)' = Claim(d, p)
      BY <1>1, <2>2, <3>1, <3>2 DEF Claim, Unused
    <3>. QED  BY <1>1, <3>3, HeldSame
  <2>3. \/ Served(c, "return")
        \/ /\ UNCHANGED <<packet, handle>>
           /\ \/ Step(c, "count", "trypost") \/ Step(c, "trypost", "return") \/ Step(c, "return", "close")
              \/ Step(c, "full", "closefull") \/ Step(c, "full", "disconnect")
    BY DEF EnqueueCount, TrySendPost, ReturnSession, ReturnFull
  <2>. QED  BY <2>1, <2>2, <2>3
<1>. QED  BY <1>1, <1>2, KeptAll

LEMMA ExactDisconnect ==
    ASSUME IInv, IInv', CallsOK, CallsOK', PacketsExact, NEW c \in Senders, Disconnect(c)
    PROVE  PacketsExact'
<1>1. /\ Served(c, "disconnect") /\ GiveUp(c) /\ todo' = todo
      /\ UNCHANGED <<queue, sendPackets, batch, id, nextPacket>>
  BY DEF Disconnect, lifeVars, bufferVars, workVars
<1>2. pc[c] = "disconnect"
  BY <1>1 DEF Served, Step
<1>3. handle[c] \in Handles \ todo[c] /\ todo[c] \subseteq Handles /\ Unused(c) = todo[c] \cup {handle[c]}
  BY <1>2 DEF CallsOK, CallOK, ClaimLabels, Unused
<1>. QED  BY <1>1, <1>3, ExactGivenUp

LEMMA ExactClear ==
    ASSUME IInv, IInv', CallsOK, CallsOK', PacketsExact, NEW w \in Workers, ClearSendPackets(w)
    PROVE  PacketsExact'
<1>1. PICK s \in Slots : s = slot[w]
  BY Busy DEF ClearSendPackets, Step, IInv, Typed
<1>2. /\ Dropped(sendPackets[s]) /\ sendPackets' = [sendPackets EXCEPT ![s] = <<>>]
      /\ UNCHANGED <<queue, batch, id, nextPacket>>
  BY <1>1 DEF ClearSendPackets, lifeVars, workVars
<1>3. /\ sendPackets[s] \in Seq(Nat) /\ sendPackets'[s] = <<>>
      /\ \A r \in Slots \ {s} : sendPackets'[r] = sendPackets[r]
  BY <1>2, AllTyped DEF BuffersTyped
<1>4. UNCHANGED <<todo, packet, handle>> /\ \A d \in Senders : pc'[d] = pc[d]
  BY SendersStay DEF Work
<1>5. ASSUME NEW p \in Packets PROVE Held(p)' + Count(sendPackets[s], p) = Held(p)
  <2>1. /\ InSends(p)' + Count(sendPackets[s], p) = InSends(p) + Count(sendPackets'[s], p)
        /\ InSends(p) \in Nat /\ InSends(p)' \in Nat /\ Count(sendPackets[s], p) \in Nat
    BY <1>3, AllTyped, SendsMove
  <2>2. Count(sendPackets'[s], p) = 0
    BY <1>3, CountOne
  <2>3. InQueues(p)' = InQueues(p) /\ InBatches(p)' = InBatches(p)
    BY <1>2 DEF InQueues, InBatches
  <2>4. InQueues(p) \in Nat /\ InBatches(p) \in Nat /\ InCalls(p) \in Nat
    BY AllTyped DEF HeldTyped
  <2>5. InCalls(p)' = InCalls(p)
    BY <1>2, <1>4, CallsStay DEF Claim, Unused, Handles
  <2>. QED  BY <2>1, <2>2, <2>3, <2>4, <2>5 DEF Held
<1>. QED  BY <1>2, <1>3, <1>5, DroppedAll

LEMMA ExactTake ==
    ASSUME IInv, IInv', CallsOK, CallsOK', PacketsExact, NEW w \in Workers, DequeueTake(w)
    PROVE  PacketsExact'
<1>1. PICK s \in Slots : s = slot[w]
  BY Busy DEF DequeueTake, Step, IInv, Typed
<1>2. /\ queue[s] # <<>> /\ queue' = [queue EXCEPT ![s] = Tail(@)]
      /\ batch' = [batch EXCEPT ![w] = Append(@, Head(queue[s]))]
      /\ UNCHANGED <<sendPackets, id, refCount, freed, nextPacket>>
  BY <1>1 DEF DequeueTake, lifeVars, packetVars
<1>. DEFINE q == queue[s]
            b == batch[w]
<1>3. /\ q \in Seq(Nat) /\ b \in Seq(Nat) /\ Head(q) \in Nat
      /\ queue'[s] = Tail(q) /\ \A r \in Slots \ {s} : queue'[r] = queue[r]
      /\ batch'[w] = Append(b, Head(q)) /\ \A v \in Workers \ {w} : batch'[v] = batch[v]
  BY <1>2, AllTyped, SeqFacts DEF BuffersTyped
<1>4. UNCHANGED <<todo, packet, handle>> /\ \A d \in Senders : pc'[d] = pc[d]
  BY SendersStay DEF Work
<1>5. ASSUME NEW p \in Packets PROVE Held(p)' = Held(p)
  <2>. DEFINE e == B(Head(q) = p)
  <2>1. e \in 0..1
    BY DEF B
  <2>2. /\ Count(queue'[s], p) = Count(q, p) - e
        /\ Count(batch'[w], p) = Count(b, p) + e
    <3>0. \A f \in Seq(Nat) : f # <<>> => Count(Tail(f), p) = Count(f, p) - B(Head(f) = p)
      <4>. SUFFICES ASSUME NEW f \in Seq(Nat), f # <<>>
                    PROVE  Count(Tail(f), p) = Count(f, p) - B(Head(f) = p)
        OBVIOUS
      <4>1. 0 \in Nat
        OBVIOUS
      <4>. QED  BY <4>1, CountMoves
    <3>1. Count(Tail(q), p) = Count(q, p) - e
      BY <1>2, <1>3, <3>0
    <3>2. Count(Append(b, Head(q)), p) = Count(b, p) + e
      BY <1>3, CountMoves
    <3>. QED  BY <1>3, <3>1, <3>2
  <2>3. /\ InQueues(p)' + Count(q, p) = InQueues(p) + Count(queue'[s], p)
        /\ InQueues(p) \in Nat /\ InQueues(p)' \in Nat /\ Count(q, p) \in Nat
    BY <1>3, AllTyped, QueueMoves
  <2>4. /\ InBatches(p)' + Count(b, p) = InBatches(p) + Count(batch'[w], p)
        /\ InBatches(p) \in Nat /\ InBatches(p)' \in Nat /\ Count(b, p) \in Nat
    BY <1>3, AllTyped, BatchesMove
  <2>. HIDE DEF e, q, b
  <2>5. InQueues(p)' = InQueues(p) - e
    BY <2>1, <2>2, <2>3
  <2>6. InBatches(p)' = InBatches(p) + e
    BY <2>1, <2>2, <2>4
  <2>7. InSends(p)' = InSends(p) /\ InSends(p) \in Nat /\ InCalls(p) \in Nat
    BY <1>2, AllTyped DEF InSends, HeldTyped
  <2>8. InCalls(p)' = InCalls(p)
    BY <1>2, <1>4, CallsStay DEF Claim, Unused, Handles
  <2>. QED  BY <2>1, <2>3, <2>4, <2>5, <2>6, <2>7, <2>8 DEF Held
<1>. QED  BY <1>2, <1>5, KeptAll

LEMMA ExactSend ==
    ASSUME IInv, IInv', CallsOK, CallsOK', PacketsExact, \A s \in Slots : NothingKept(s),
           NEW w \in Workers, NEW accepted \in BOOLEAN, WSASend(w, accepted)
    PROVE  PacketsExact'
<1>0. pc[w] = "transmit"
  BY DEF WSASend, Finish, Step
<1>1. PICK s \in Slots : s = slot[w]
  BY <1>0, Busy DEF IInv, Typed
<1>2. /\ sendPackets' = [sendPackets EXCEPT ![s] = batch[w]]
      /\ batch' = [batch EXCEPT ![w] = <<>>]
      /\ UNCHANGED <<queue, id, refCount, freed, nextPacket>>
  BY <1>1 DEF WSASend, lifeVars, packetVars
<1>3. sendPackets[s] = <<>>
  BY <1>0, <1>1, ThreadFacts DEF NothingKept, Ready, At, PostLabels
<1>4. /\ sendPackets'[s] = batch[w] /\ \A r \in Slots \ {s} : sendPackets'[r] = sendPackets[r]
      /\ batch'[w] = <<>> /\ \A v \in Workers \ {w} : batch'[v] = batch[v]
  BY <1>2, AllTyped DEF BuffersTyped
<1>5. UNCHANGED <<todo, packet, handle>> /\ \A d \in Senders : pc'[d] = pc[d]
  BY SendersStay DEF Work
<1>6. ASSUME NEW p \in Packets PROVE Held(p)' = Held(p)
  <2>1. Count(<<>>, p) = 0
    BY CountOne
  <2>2. /\ InSends(p)' + Count(<<>>, p) = InSends(p) + Count(batch[w], p)
        /\ InSends(p) \in Nat /\ InSends(p)' \in Nat
    BY <1>3, <1>4, AllTyped, SendsMove
  <2>3. /\ InBatches(p)' + Count(batch[w], p) = InBatches(p) + Count(<<>>, p)
        /\ InBatches(p) \in Nat /\ InBatches(p)' \in Nat /\ Count(batch[w], p) \in Nat
    BY <1>4, AllTyped, BatchesMove
  <2>4. InQueues(p)' = InQueues(p) /\ InQueues(p) \in Nat /\ InCalls(p) \in Nat
    BY <1>2, AllTyped DEF InQueues, HeldTyped
  <2>5. InCalls(p)' = InCalls(p)
    BY <1>2, <1>5, CallsStay DEF Claim, Unused, Handles
  <2>. QED  BY <2>1, <2>2, <2>3, <2>4, <2>5 DEF Held
<1>. QED  BY <1>2, <1>6, KeptAll

\* The steps that touch no packet.
LEMMA ExactElsewhere ==
    ASSUME IInv, IInv', CallsOK, CallsOK', PacketsExact,
           \/ \E s \in Slots : KernelSends(s) \/ KernelFails(s)
           \/ \E w \in Workers, s \in Slots :
                 \/ GetSendPost(w, s) \/ GetRecv(w, s)
                 \/ \E kind \in Kinds : GetSendCompletion(w, s, kind)
           \/ \E w \in Workers :
                 \/ ClearIsSending(w) \/ RecheckSize(w) \/ TrySendPostInCompletion(w)
                 \/ DequeueCount(w) \/ DequeueFails(w) \/ PostSendingCheck(w) \/ DecrementIOCount(w)
           \/ UNCHANGED vars
    PROVE  PacketsExact'
<1>1. UNCHANGED <<id, todo, packet, handle, nextPacket>> /\ \A d \in Senders : pc'[d] = pc[d]
  BY SendersStay DEF Work
<1>2. UNCHANGED <<queue, sendPackets, batch, refCount, freed>>
  <2>. USE DEF bufferVars, workVars, packetVars
  <2>1. ASSUME NEW w \in Workers,
               \/ ClearIsSending(w) \/ RecheckSize(w) \/ TrySendPostInCompletion(w)
               \/ DequeueCount(w) \/ DequeueFails(w) \/ PostSendingCheck(w) \/ DecrementIOCount(w)
        PROVE  UNCHANGED <<queue, sendPackets, batch, refCount, freed>>
    BY <2>1 DEF ClearIsSending, RecheckSize, TrySendPostInCompletion, DequeueCount, DequeueFails,
                PostSendingCheck, DecrementIOCount
  <2>2. ASSUME NEW w \in Workers, NEW s \in Slots,
               GetSendPost(w, s) \/ GetRecv(w, s) \/ \E kind \in Kinds : GetSendCompletion(w, s, kind)
        PROVE  UNCHANGED <<queue, sendPackets, batch, refCount, freed>>
    BY <2>2 DEF GetSendPost, GetRecv, GetSendCompletion
  <2>. QED  BY <2>1, <2>2 DEF KernelSends, KernelFails, vars
<1>3. ASSUME NEW p \in Packets PROVE Held(p)' = Held(p)
  BY <1>1, <1>2, HeldSame DEF Claim, Unused
<1>. QED  BY <1>1, <1>2, <1>3, KeptAll

LEMMA ExactStep ==
    ASSUME IInv, IInv', CallsOK, CallsOK', PacketsExact, \A s \in Slots : NothingKept(s), [Next]_vars
    PROVE  PacketsExact'
<1>1. ASSUME NEW c \in Senders, Send(c) PROVE PacketsExact'
  BY <1>1, ExactFind, ExactCheck, ExactLink, ExactGoesOn, ExactDisconnect DEF Send, FindsNext
<1>2. ASSUME NEW w \in Workers, Work(w) PROVE PacketsExact'
  BY <1>2, ExactClear, ExactTake, ExactSend, ExactElsewhere DEF Work
<1>. QED  BY <1>1, <1>2, ExactConnect, ExactBegin, ExactClose, ExactElsewhere DEF Next

-----------------------------------------------------------------------------
(* The theorem.                                                            *)

LEMMA InitPInv == Init => PInv
<1>. SUFFICES ASSUME Init PROVE PInv
  OBVIOUS
<1>1. IInv
  BY InitIInv
<1>2. Cardinality({}) = 0
  BY FS_EmptySet
<1>3. CallsOK
  <2>1. Waiting = {} /\ nextPacket = 1
    BY ThreadFacts DEF Init, Waiting
  <2>2. Reserved
    BY <1>2, <2>1, SendBoundsAssumption DEF Reserved
  <2>3. CallsTyped
    BY DEF Init, CallsTyped
  <2>4. \A c \in Senders : CallOK(c)
    BY ThreadFacts DEF Init, CallOK, ClaimLabels, NoPacket
  <2>. QED  BY <2>2, <2>3, <2>4 DEF CallsOK
<1>4. \A s \in Slots : NothingKept(s)
  BY DEF Init, NothingKept
<1>5. PacketsTyped
  BY DEF Init, PacketsTyped
<1>6. ASSUME NEW p \in Packets PROVE Exact(p)
  <2>1. Places(queue, p) = {} /\ Places(sendPackets, p) = {} /\ Places(batch, p) = {}
    BY DEF Init, Places
  <2>2. Claims(p) = {}
    BY DEF Init, Claims, NoPacket, Packets
  <2>3. Held(p) = 0
    BY <1>2, <2>1, <2>2 DEF Held, InQueues, InSends, InBatches, InCalls
  <2>. QED  BY <2>3 DEF Init, Exact, Packets
<1>. QED  BY <1>1, <1>3, <1>4, <1>5, <1>6 DEF PInv, PacketsExact

LEMMA NextPInv == PInv /\ [Next]_vars => PInv'
<1>. SUFFICES ASSUME PInv, [Next]_vars PROVE PInv'
  OBVIOUS
<1>1. IInv /\ CallsOK /\ PacketsExact /\ \A s \in Slots : NothingKept(s)
  BY DEF PInv
<1>2. IInv'
  BY <1>1, NextIInv
<1>3. \A s \in Slots : NothingKept(s)'
  BY <1>1, <1>2, NothingKeptStep
<1>4. CallsOK'
  BY <1>1, <1>2, CallsStep
<1>5. PacketsExact'
  BY <1>1, <1>2, <1>4, ExactStep
<1>. QED  BY <1>2, <1>3, <1>4, <1>5 DEF PInv

\* Packet::refCount is the number of places the packet can be reached from, and
\* Packet::Free runs once, with the last of them: for any number of sessions,
\* workers, senders and packets (SendPacket, SendPacketMulticast, ClearSend*).
THEOREM PacketsCounted == Spec => []PacketRefs
<1>1. Spec => []PInv
  BY InitPInv, NextPInv, PTL DEF Spec
<1>2. PInv => PacketRefs
  <2>. SUFFICES ASSUME PInv, NEW p \in 1..(nextPacket - 1)
                PROVE  /\ refCount[p] =
                             Cardinality(Places(queue, p)) + Cardinality(Places(sendPackets, p))
                             + Cardinality(Places(batch, p))
                             + Cardinality({x \in Senders \X Handles :
                                               packet[x[1]] = p /\ x[2] \in Unused(x[1])})
                       /\ freed[p] = IF refCount[p] = 0 THEN 1 ELSE 0
    BY DEF PacketRefs
  <2>1. p \in Packets /\ p < nextPacket
    <3>0. Waiting \in SUBSET Senders
      BY DEF Waiting
    <3>1. Cardinality(Waiting) \in Nat
      BY <3>0, HandlesFinite
    <3>2. /\ nextPacket \in Nat /\ MaxPackets \in Nat
          /\ nextPacket + Cardinality(Waiting) <= MaxPackets + 1
      BY SendBoundsAssumption DEF PInv, CallsOK, CallsTyped, Reserved
    <3>. QED  BY <3>1, <3>2 DEF Packets
  <2>2. Exact(p)
    BY <2>1 DEF PInv, PacketsExact
  <2>. QED  BY <2>1, <2>2 DEF Exact, Held, InQueues, InSends, InBatches, InCalls, Claims
<1>. QED  BY <1>1, <1>2, PTL

-----------------------------------------------------------------------------
(* The order of the packets: the send path implements SendChannel.         *)

\* A worker in SendPost.
FillLabels == {"pop", "take", "undo", "transmit"}

\* A packet is where it was addressed to, and a call has a packet of its own.
CallAddressed(c) ==
    /\ pc[c] \in {"size", "link"} => handle[c] = <<slot[c], id[slot[c]]>>
    /\ packet[c] # NoPacket => Unused(c) \subseteq to[packet[c]]
    /\ \A d \in Senders \ {c} : packet[d] = packet[c] => packet[c] = NoPacket

Addressed ==
    /\ to \in [Packets -> SUBSET (Slots \X Nat)]
    /\ \A p \in Packets : p >= nextPacket => to[p] = {}
    /\ \A c \in Senders : CallAddressed(c)

\* Only a worker in SendPost has a batch, and what is in flight is what
\* m_sendPackets keeps until the completion.
BatchesHeld == \A w \in Workers : batch[w] # <<>> => pc[w] \in FillLabels

FlightKept(s) == inFlight[s] # <<>> => Head(inFlight[s]) = sendPackets[s]

\* The packets the present connection of s has had.
Seen(s) ==
    Elements(queue[s]) \cup Elements(sendPackets[s]) \cup Elements(delivered[s])
    \cup UNION {Elements(batch[w]) : w \in {v \in Workers : slot[v] = s}}

\* Nobody is going to put one of them into its queue again.
NotAgain(s) ==
    state[s] = "live" =>
        /\ id[s] > 0
        /\ \A p \in Seen(s) :
              /\ 0 < p /\ p < nextPacket
              /\ \A c \in Senders : packet[c] = p => <<s, id[s]>> \notin Unused(c)

Orderly ==
    /\ BatchesHeld
    /\ delivered \in [Slots -> Seq(Nat)]
    /\ \A s \in Slots : FlightKept(s) /\ NotAgain(s)

CInv == PInv /\ Addressed /\ Orderly

-----------------------------------------------------------------------------
(* Sequences of packets.                                                   *)

\* What the elements of a sequence become.
LEMMA ElementsOf ==
    ASSUME NEW f \in Seq(Nat), NEW g \in Seq(Nat), NEW n \in Nat
    PROVE  /\ Elements(<<>>) = {}
           /\ Elements(f) \subseteq Nat
           /\ Elements(f \o g) = Elements(f) \cup Elements(g)
           /\ Elements(Append(f, n)) = Elements(f) \cup {n}
           /\ f # <<>> => Head(f) \in Elements(f) /\ Elements(Tail(f)) \subseteq Elements(f)
<1>1. Elements(<<>>) = {} /\ Elements(f) \subseteq Nat
  BY DEF Elements
<1>2. ASSUME NEW h \in Seq(Nat) PROVE Elements(f \o h) = Elements(f) \cup Elements(h)
  <2>. DEFINE k == Len(f)
              l == Len(h)
  <2>1. k \in Nat /\ l \in Nat /\ DOMAIN f = 1..k /\ DOMAIN h = 1..l
    OBVIOUS
  <2>2. /\ f \o h \in Seq(Nat) /\ Len(f \o h) = k + l
        /\ \A i \in 1..(k + l) : (f \o h)[i] = IF i <= k THEN f[i] ELSE h[i - k]
    BY ConcatProperties
  <2>3. DOMAIN (f \o h) = 1..(k + l)
    BY <2>1, <2>2
  <2>4. ASSUME NEW i \in 1..(k + l) PROVE (f \o h)[i] \in Elements(f) \cup Elements(h)
    <3>1. CASE i <= k
      BY <2>1, <2>2, <3>1, SMTT(30) DEF Elements
    <3>2. CASE ~(i <= k)
      <4>1. i - k \in 1..l
        BY <2>1, <3>2
      <4>. QED  BY <2>1, <2>2, <3>2, <4>1 DEF Elements
    <3>. QED  BY <3>1, <3>2
  <2>5. ASSUME NEW i \in 1..k PROVE f[i] \in Elements(f \o h)
    <3>1. i \in 1..(k + l) /\ i <= k
      BY <2>1
    <3>. QED  BY <2>2, <2>3, <3>1 DEF Elements
  <2>6. ASSUME NEW i \in 1..l PROVE h[i] \in Elements(f \o h)
    <3>1. k + i \in 1..(k + l) /\ ~(k + i <= k) /\ (k + i) - k = i
      BY <2>1
    <3>2. (f \o h)[k + i] = h[i]
      BY <2>2, <3>1
    <3>. QED  BY <2>3, <3>1, <3>2 DEF Elements
  <2>. HIDE DEF k, l
  <2>. QED  BY <2>1, <2>3, <2>4, <2>5, <2>6 DEF Elements
<1>3. Elements(Append(f, n)) = Elements(f) \cup {n}
  <2>1. Append(f, n) = f \o <<n>> /\ <<n>> \in Seq(Nat) /\ Elements(<<n>>) = {n}
    BY DEF Elements
  <2>. QED  BY <1>2, <2>1
<1>4. ASSUME f # <<>> PROVE Head(f) \in Elements(f) /\ Elements(Tail(f)) \subseteq Elements(f)
  BY <1>4, SMTT(30) DEF Elements
<1>. QED  BY <1>1, <1>2, <1>3, <1>4

\* Taking the head of one sequence to the end of another, and cutting a
\* concatenation where it was made.
LEMMA Cuts ==
    ASSUME NEW f \in Seq(Nat), NEW g \in Seq(Nat)
    PROVE  /\ f \o g \in Seq(Nat) /\ <<>> \o g = g /\ f \o <<>> = f
           /\ g # <<>> => Append(f, Head(g)) \o Tail(g) = f \o g
           /\ Len(f) \in Nat /\ Len(f \o g) = Len(f) + Len(g)
           /\ SubSeq(f \o g, 1, Len(f)) = f
           /\ SubSeq(f \o g, Len(f) + 1, Len(f \o g)) = g
<1>1. /\ f \o g \in Seq(Nat) /\ <<>> \o g = g /\ f \o <<>> = f
      /\ Len(f) \in Nat /\ Len(g) \in Nat /\ Len(f \o g) = Len(f) + Len(g)
      /\ \A i \in 1..(Len(f) + Len(g)) : (f \o g)[i] = IF i <= Len(f) THEN f[i] ELSE g[i - Len(f)]
  BY ConcatProperties, ConcatEmptySeq
<1>2. ASSUME g # <<>> PROVE Append(f, Head(g)) \o Tail(g) = f \o g
  <2>. DEFINE h == <<Head(g)>>
              r == Tail(g)
  <2>1. /\ Head(g) \in Nat /\ h \in Seq(Nat) /\ r \in Seq(Nat)
        /\ Append(f, Head(g)) = f \o h /\ g = h \o r
    <3>1. Head(g) \in Nat /\ Tail(g) \in Seq(Nat) /\ <<Head(g)>> \in Seq(Nat)
      BY <1>2
    <3>2. g = <<Head(g)>> \o Tail(g)
      BY <1>2
    <3>3. Append(f, Head(g)) = f \o <<Head(g)>>
      BY <3>1, AppendIsConcat
    <3>. QED  BY <3>1, <3>2, <3>3
  <2>. HIDE DEF h, r
  <2>2. \A x, y, z \in Seq(Nat) : (x \o y) \o z = x \o (y \o z)
    BY ConcatAssociative, SMTT(30)
  <2>3. (f \o h) \o r = f \o (h \o r)
    BY <2>1, <2>2, ZenonT(60)
  <2>4. Append(f, Head(g)) \o r = f \o g
    BY <2>1, <2>3, Zenon
  <2>. QED  BY <2>4 DEF r
<1>. DEFINE c == f \o g
            k == Len(f)
            l == Len(g)
<1>3. SubSeq(c, 1, k) = f
  <2>1. \A i \in 1..k : c[i] = f[i] /\ c[i] \in Nat
    BY <1>1
  <2>2. SubSeq(c, 1, k) \in Seq(Nat) /\ Len(SubSeq(c, 1, k)) = k
        /\ \A i \in 1..k : SubSeq(c, 1, k)[i] = c[i]
    <3>. HIDE DEF c
    <3>. QED  BY <1>1, <2>1, SubSeqProperties
  <2>. QED  BY <1>1, <2>1, <2>2, SeqEqual
<1>4. SubSeq(c, k + 1, k + l) = g
  <2>1. \A i \in 1..l : c[k + i] = g[i]
    BY <1>1
  <2>2. \A i \in (k + 1)..(k + l) : c[i] \in Nat
    BY <1>1
  <2>3. SubSeq(c, k + 1, k + l) \in Seq(Nat) /\ Len(SubSeq(c, k + 1, k + l)) = l
        /\ \A i \in 1..l : SubSeq(c, k + 1, k + l)[i] = c[k + i]
    <3>. HIDE DEF c
    <3>. QED  BY <1>1, <2>2, SubSeqProperties
  <2>. QED  BY <1>1, <2>1, <2>3, SeqEqual
<1>. QED  BY <1>1, <1>2, <1>3, <1>4

-----------------------------------------------------------------------------
(* One send at a time.                                                     *)

\* Who sends for a live session is alone with it.
Exclusive(s) ==
    state[s] = "live" =>
      /\ \A w \in Workers : slot[w] = s /\ pc[w] \in SendLabels =>
            /\ inFlight[s] = <<>> /\ \A k \in Completions : posted[s][k] = 0
            /\ \A v \in Workers \ {w} : slot[v] = s => pc[v] \notin SendLabels
            /\ isSending[s]
      /\ inFlight[s] # <<>> =>
            /\ \A k \in Completions : posted[s][k] = 0
            /\ \A w \in Workers : slot[w] = s => pc[w] \notin SendLabels
            /\ Tail(inFlight[s]) = <<>> /\ sendPackets[s] # <<>>
      /\ \A k \in Completions : posted[s][k] > 0 =>
            /\ \A l \in Completions \ {k} : posted[s][l] = 0
            /\ \A w \in Workers : slot[w] = s => pc[w] \notin SendLabels
      /\ ~isSending[s] => \A k \in Completions : posted[s][k] = 0

OneAtATime == \A s \in Slots : Exclusive(s)

\* No completion is posted, or one, or more.
LEMMA PostsAre ==
    ASSUME NEW s, \A k \in Completions : posted[s][k] \in Nat
    PROVE  /\ Posts(s) \in Nat
           /\ Posts(s) = 0 <=> \A k \in Completions : posted[s][k] = 0
           /\ Posts(s) = 1 => \A k \in Completions : posted[s][k] > 0 =>
                                 \A l \in Completions \ {k} : posted[s][l] = 0
<1>. DEFINE i == posted[s]["sendpost"]
            j == posted[s]["sent"]
            m == posted[s]["zero"]
            n == posted[s]["check"]
<1>1. i \in Nat /\ j \in Nat /\ m \in Nat /\ n \in Nat /\ Posts(s) = i + j + m + n
  BY DEF Posts, Completions
<1>2. \A k : k \in Completions <=> k \in {"sendpost", "sent", "zero", "check"}
  BY DEF Completions
<1>. HIDE DEF i, j, m, n
<1>3. /\ Posts(s) \in Nat
      /\ Posts(s) = 0 <=> i = 0 /\ j = 0 /\ m = 0 /\ n = 0
      /\ Posts(s) = 1 => /\ i > 0 => j = 0 /\ m = 0 /\ n = 0
                         /\ j > 0 => i = 0 /\ m = 0 /\ n = 0
                         /\ m > 0 => i = 0 /\ j = 0 /\ n = 0
                         /\ n > 0 => i = 0 /\ j = 0 /\ m = 0
  BY <1>1
<1>. QED  BY <1>2, <1>3 DEF i, j, m, n

\* A sequence of batches, and what is left of it.
LEMMA BatchesEmpty ==
    ASSUME NEW f \in Seq(Seq(Nat))
    PROVE  /\ Len(f) \in Nat /\ (Len(f) = 0 <=> f = <<>>)
           /\ f # <<>> => Tail(f) \in Seq(Seq(Nat)) /\ Len(Tail(f)) = Len(f) - 1
<1>1. <<>> \in Seq(Nat)
  OBVIOUS
<1>. QED  BY <1>1, BatchFacts

\* Only one sends: there is one token at most (OneSender).
LEMMA ExclusiveNow == IInv => OneAtATime
<1>. SUFFICES ASSUME IInv, NEW s \in Slots, state[s] = "live" PROVE Exclusive(s)
  BY DEF OneAtATime, Exclusive
<1>1. /\ inFlight[s] \in Seq(Seq(Nat)) /\ \A k \in Completions : posted[s][k] \in Nat
  BY DEF IInv, Typed, BuffersTyped, SessionsTyped
<1>2. /\ ThreadsOK /\ OneSender(s) /\ isSending[s] \in BOOLEAN
  BY DEF IInv, Typed, SessionInv, SessionsTyped
<1>. DEFINE f == Len(inFlight[s])
<1>3. f \in Nat /\ (f = 0 <=> inFlight[s] = <<>>) /\ Sending(s) \in Nat /\ Posts(s) \in Nat
  BY <1>1, BatchesEmpty, Counts, PostsAre
<1>4. Tokens(s) = f + Posts(s) + Sending(s) /\ Tokens(s) \in 0..1 /\ (~isSending[s] => Tokens(s) = 0)
  BY <1>2, <1>3 DEF OneSender, Tokens
<1>5. \A w \in Workers : slot[w] = s /\ pc[w] \in SendLabels => Sending(s) >= 1
  BY <1>2, Present, ThreadFacts
<1>. HIDE DEF f
<1>6. /\ Sending(s) >= 1 => f = 0 /\ Posts(s) = 0 /\ isSending[s]
      /\ f # 0 => Sending(s) = 0 /\ Posts(s) = 0 /\ f = 1
      /\ Posts(s) # 0 => Sending(s) = 0 /\ Posts(s) = 1
      /\ ~isSending[s] => Posts(s) = 0
  BY <1>3, <1>4
<1>7. /\ Posts(s) = 0 => \A k \in Completions : posted[s][k] = 0
      /\ Posts(s) = 1 => \A k \in Completions : posted[s][k] > 0 =>
                            \A l \in Completions \ {k} : posted[s][l] = 0
      /\ \A k \in Completions : posted[s][k] > 0 => Posts(s) # 0
  <2>1. Posts(s) = 0 <=> \A k \in Completions : posted[s][k] = 0
    BY <1>1, PostsAre
  <2>2. Posts(s) = 1 => \A k \in Completions : posted[s][k] > 0 =>
                           \A l \in Completions \ {k} : posted[s][l] = 0
    BY <1>1, PostsAre
  <2>. QED  BY <1>1, <2>1, <2>2
<1>8. ASSUME NEW w \in Workers, slot[w] = s, pc[w] \in SendLabels,
             NEW v \in Workers \ {w}, slot[v] = s, pc[v] \in SendLabels
      PROVE  FALSE
  <2>1. {w, v} \subseteq At(SendLabels, s) /\ At(SendLabels, s) \subseteq Threads
    BY <1>8, ThreadFacts DEF At
  <2>2. Cardinality({w, v}) = 2
    <3>1. IsFiniteSet({w}) /\ Cardinality({w}) = 1
      BY FS_Singleton
    <3>2. Cardinality({w} \cup {v}) = Cardinality({w}) + 1
      BY <3>1, FS_AddElement
    <3>3. {w} \cup {v} = {w, v}
      OBVIOUS
    <3>. QED  BY <3>1, <3>2, <3>3
  <2>3. Cardinality({w, v}) <= Sending(s)
    BY <2>1, ThreadSets, FS_Subset DEF Sending
  <2>. QED  BY <1>3, <1>4, <2>2, <2>3
<1>9. inFlight[s] # <<>> => Tail(inFlight[s]) = <<>> /\ sendPackets[s] # <<>>
  <2>. SUFFICES ASSUME inFlight[s] # <<>> PROVE Tail(inFlight[s]) = <<>> /\ sendPackets[s] # <<>>
    OBVIOUS
  <2>1. f = 1
    BY <1>3, <1>6
  <2>2. Tail(inFlight[s]) \in Seq(Seq(Nat)) /\ Len(Tail(inFlight[s])) = 0
    BY <1>1, <2>1, BatchesEmpty DEF f
  <2>3. Tail(inFlight[s]) = <<>>
    BY <2>2, BatchesEmpty
  <2>. QED  BY <1>2, <2>3 DEF OneSender
<1>10. \A w \in Workers : slot[w] = s /\ pc[w] \in SendLabels =>
            /\ inFlight[s] = <<>> /\ \A k \in Completions : posted[s][k] = 0
            /\ \A v \in Workers \ {w} : slot[v] = s => pc[v] \notin SendLabels
            /\ isSending[s]
  BY <1>3, <1>5, <1>6, <1>7, <1>8
<1>11. /\ inFlight[s] # <<>> =>
            /\ \A k \in Completions : posted[s][k] = 0
            /\ \A w \in Workers : slot[w] = s => pc[w] \notin SendLabels
            /\ Tail(inFlight[s]) = <<>> /\ sendPackets[s] # <<>>
       /\ \A k \in Completions : posted[s][k] > 0 =>
            /\ \A l \in Completions \ {k} : posted[s][l] = 0
            /\ \A w \in Workers : slot[w] = s => pc[w] \notin SendLabels
       /\ ~isSending[s] => \A k \in Completions : posted[s][k] = 0
  BY <1>3, <1>5, <1>6, <1>7, <1>9
<1>. QED  BY <1>10, <1>11 DEF Exclusive

\* Nobody works for a session that is not live but who closes it.
LEMMA Abandoned ==
    ASSUME IInv, NEW s \in Slots, state[s] # "live"
    PROVE  /\ inFlight[s] = <<>> /\ \A k \in Completions : posted[s][k] = 0
           /\ \A w \in Workers : slot[w] = s => pc[w] = "close" /\ state[s] = "closing"
<1>1. /\ Posts(s) = 0 /\ inFlight[s] = <<>> /\ \A k \in Completions : posted[s][k] \in Nat
  BY DEF IInv, SessionInv, CountsExact, Typed, SessionsTyped
<1>2. \A k \in Completions : posted[s][k] = 0
  BY <1>1, PostsAre
<1>3. NoSlot \notin Slots
  BY ThreadFacts
<1>4. ASSUME NEW w \in Workers, slot[w] = s PROVE pc[w] = "close" /\ state[s] = "closing"
  <2>1. pc[w] # "idle"
    BY <1>3, <1>4 DEF IInv, Typed, ThreadsOK, WorkerOK
  <2>2. pc[w] = "close"
    BY <1>4, <2>1, Referenced
  <2>. QED  BY <1>4, <2>2, Referenced, ThreadFacts DEF CloseLabels
<1>. QED  BY <1>1, <1>2, <1>4

-----------------------------------------------------------------------------
(* What the channel of a session holds.                                    *)

Fills(w, s)  == slot[w] = s /\ pc[w] \in FillLabels
Clears(w, s) == slot[w] = s /\ pc[w] = "clear"

PendingIs(s) ==
    IF state[s] # "live" THEN Pending(s) = <<>>
    ELSE /\ \A w \in Workers : Fills(w, s) => Pending(s) = batch[w] \o queue[s]
         /\ posted[s]["sent"] > 0 \/ (\E w \in Workers : Clears(w, s)) => Pending(s) = queue[s]
         /\ posted[s]["sent"] = 0 /\ (\A w \in Workers : ~Fills(w, s) /\ ~Clears(w, s)) =>
               Pending(s) = sendPackets[s] \o queue[s]

PendingKnown == \A s \in Slots : PendingIs(s)

\* Pending, case by case.
LEMMA PendingNow == CInv => PendingKnown
<1>. SUFFICES ASSUME CInv, NEW s \in Slots PROVE PendingIs(s)
  BY DEF PendingKnown
<1>1. CASE state[s] # "live"
  BY <1>1 DEF PendingIs, Pending
<1>2. CASE state[s] = "live"
  <2>1. /\ queue[s] \in Seq(Nat) /\ sendPackets[s] \in Seq(Nat) /\ \A w \in Workers : batch[w] \in Seq(Nat)
        /\ posted[s]["sent"] \in Nat
    BY DEF CInv, PInv, IInv, Typed, BuffersTyped, SessionsTyped, Completions
  <2>2. Exclusive(s) /\ NothingKept(s) /\ BatchesHeld
    <3>1. IInv /\ NothingKept(s) /\ BatchesHeld
      BY DEF CInv, PInv, Orderly
    <3>2. OneAtATime
      BY <3>1, ExclusiveNow
    <3>. QED  BY <3>1, <3>2 DEF OneAtATime
  <2>3. Workers \subseteq Threads /\ \A c \in Senders : pc[c] # "clear"
    BY ThreadFacts DEF CInv, PInv, IInv, Typed, ThreadsOK, SenderOK, SenderLabels
  <2>4. At({"clear"}, s) # {} <=> \E w \in Workers : Clears(w, s)
    BY <2>3 DEF At, Clears, Threads
  <2>5. \A f \in Seq(Nat) : <<>> \o f = f /\ f \o <<>> = f
    BY ConcatEmptySeq
  <2>6. Pending(s) = Undelivered(s) \o InHands(s) \o queue[s]
    BY <1>2 DEF Pending
  <2>7. FillLabels \subseteq SendLabels /\ "clear" \in SendLabels /\ "clear" \notin FillLabels
        /\ FillLabels \subseteq PostLabels /\ "sent" \in Completions
    BY DEF FillLabels, SendLabels, PostLabels, Completions
  <2>8. (\A w \in Workers : ~Fills(w, s)) => InHands(s) = <<>>
    BY <2>2 DEF InHands, BatchesHeld, Fills
  <2>9. ASSUME NEW w \in Workers, Fills(w, s) PROVE Pending(s) = batch[w] \o queue[s]
    <3>1. /\ posted[s]["sent"] = 0 /\ \A v \in Workers \ {w} : slot[v] = s => pc[v] \notin SendLabels
      BY <1>2, <2>2, <2>7, <2>9 DEF Exclusive, Fills
    <3>2. Undelivered(s) = sendPackets[s]
      BY <2>4, <2>7, <2>9, <3>1 DEF Undelivered, Fills, Clears
    <3>3. sendPackets[s] = <<>>
      BY <2>2, <2>3, <2>7, <2>9 DEF NothingKept, Ready, At, Fills
    <3>4. \A v \in Workers : slot[v] = s /\ batch[v] # <<>> => v = w
      BY <2>2, <2>7, <3>1 DEF BatchesHeld
    <3>5. InHands(s) = batch[w]
      <4>1. CASE \E v \in Workers : slot[v] = s /\ batch[v] # <<>>
        <5>. DEFINE v == CHOOSE v \in Workers : slot[v] = s /\ batch[v] # <<>>
        <5>1. v \in Workers /\ slot[v] = s /\ batch[v] # <<>>
          BY <4>1
        <5>2. InHands(s) = batch[v]
          BY <4>1 DEF InHands
        <5>. QED  BY <3>4, <5>1, <5>2
      <4>2. CASE ~\E v \in Workers : slot[v] = s /\ batch[v] # <<>>
        BY <2>9, <4>2 DEF InHands, Fills
      <4>. QED  BY <4>1, <4>2
    <3>6. Pending(s) = (<<>> \o batch[w]) \o queue[s]
      BY <2>6, <3>2, <3>3, <3>5
    <3>. QED  BY <2>1, <2>5, <3>6
  <2>10. ASSUME posted[s]["sent"] > 0 \/ \E w \in Workers : Clears(w, s) PROVE Pending(s) = queue[s]
    <3>1. \A w \in Workers : ~Fills(w, s)
      BY <1>2, <2>1, <2>2, <2>7, <2>10 DEF Exclusive, Fills, Clears
    <3>2. Undelivered(s) = <<>> /\ InHands(s) = <<>>
      BY <2>4, <2>8, <2>10, <3>1 DEF Undelivered
    <3>3. Pending(s) = (<<>> \o <<>>) \o queue[s]
      BY <2>6, <3>2
    <3>4. <<>> \o <<>> = <<>>
      OBVIOUS
    <3>. QED  BY <2>1, <2>5, <3>3, <3>4
  <2>11. ASSUME posted[s]["sent"] = 0, \A w \in Workers : ~Fills(w, s) /\ ~Clears(w, s)
         PROVE  Pending(s) = sendPackets[s] \o queue[s]
    <3>1. Undelivered(s) = sendPackets[s] /\ InHands(s) = <<>>
      BY <2>4, <2>8, <2>11 DEF Undelivered
    <3>2. Pending(s) = (sendPackets[s] \o <<>>) \o queue[s]
      BY <2>6, <3>1
    <3>. QED  BY <2>1, <2>5, <3>2
  <2>. QED  BY <1>2, <2>9, <2>10, <2>11 DEF PendingIs
<1>. QED  BY <1>1, <1>2

\* The same of the next state.
LEMMA PendingNext == CInv' => PendingKnown'
BY PendingNow, PTL

\* Who works for session s stays where it is, as far as its channel goes.
LEMMA PendingSame ==
    ASSUME CInv, CInv', NEW s \in Slots, state'[s] = "live" <=> state[s] = "live",
           queue'[s] = queue[s], sendPackets'[s] = sendPackets[s],
           posted'[s]["sent"] = posted[s]["sent"],
           \A w \in Workers : /\ Fills(w, s)' <=> Fills(w, s)
                              /\ Clears(w, s)' <=> Clears(w, s)
                              /\ Fills(w, s) => batch'[w] = batch[w]
    PROVE  Pending(s)' = Pending(s)
<1>1. PendingIs(s) /\ PendingIs(s)'
  BY PendingNow, PendingNext DEF PendingKnown
<1>2. posted[s]["sent"] \in Nat
  BY DEF CInv, PInv, IInv, Typed, SessionsTyped, Completions
<1>3. CASE state[s] # "live"
  BY <1>1, <1>3 DEF PendingIs
<1>4. CASE state[s] = "live" /\ \E w \in Workers : Fills(w, s)
  <2>1. PICK w \in Workers : Fills(w, s)
    BY <1>4
  <2>2. Pending(s) = batch[w] \o queue[s]
    BY <1>1, <1>4, <2>1 DEF PendingIs
  <2>3. Fills(w, s)' /\ state'[s] = "live"
    BY <1>4, <2>1
  <2>4. Pending(s)' = batch'[w] \o queue'[s]
    BY <1>1, <2>3 DEF PendingIs
  <2>. QED  BY <2>1, <2>2, <2>4
<1>5. CASE state[s] = "live" /\ (posted[s]["sent"] > 0 \/ \E w \in Workers : Clears(w, s))
  <2>1. Pending(s) = queue[s]
    BY <1>1, <1>5 DEF PendingIs
  <2>2. state'[s] = "live" /\ (posted'[s]["sent"] > 0 \/ \E w \in Workers : Clears(w, s)')
    BY <1>5
  <2>3. Pending(s)' = queue'[s]
    BY <1>1, <2>2 DEF PendingIs
  <2>. QED  BY <2>1, <2>3
<1>6. CASE state[s] = "live" /\ posted[s]["sent"] = 0 /\ \A w \in Workers : ~Fills(w, s) /\ ~Clears(w, s)
  <2>1. Pending(s) = sendPackets[s] \o queue[s]
    BY <1>1, <1>6 DEF PendingIs
  <2>2. /\ state'[s] = "live" /\ posted'[s]["sent"] = 0
        /\ \A w \in Workers : ~Fills(w, s)' /\ ~Clears(w, s)'
    BY <1>6
  <2>3. Pending(s)' = sendPackets'[s] \o queue'[s]
    BY <1>1, <2>2 DEF PendingIs
  <2>. QED  BY <2>1, <2>3
<1>. QED  BY <1>2, <1>3, <1>4, <1>5, <1>6

-----------------------------------------------------------------------------
(* A packet goes where it was addressed to.                                *)

CallStep(c) ==
    \/ \E h \in Handles : SendPacket(c, h)
    \/ \E hs \in (SUBSET Handles) \ {{}} : SendPacketMulticast(c, hs)
    \/ Send(c)
    \/ CloseSession(c)

\* What a step of call c does: the other calls stay; it keeps its packet, lets
\* go of it, or allocates one for the handles it has to serve; and it works on
\* the session it has found.
CallMoves(c) ==
    /\ UNCHANGED id
    /\ \A d \in Threads \ {c} : pc'[d] = pc[d] /\ slot'[d] = slot[d]
    /\ \A d \in Senders \ {c} :
          todo'[d] = todo[d] /\ packet'[d] = packet[d] /\ handle'[d] = handle[d]

Keeps(c) ==
    /\ UNCHANGED <<to, nextPacket>>
    /\ packet'[c] # NoPacket => packet'[c] = packet[c] /\ Unused(c)' \subseteq Unused(c)

Allots(c) ==
    /\ nextPacket \in Packets /\ nextPacket' = nextPacket + 1
    /\ packet'[c] = nextPacket
    /\ Unused(c)' \subseteq Slots \X Nat
    /\ to' = [to EXCEPT ![nextPacket] = Unused(c)']

Aims(c) == pc'[c] \in {"size", "link"} => handle'[c] = <<slot'[c], id[slot'[c]]>>

\* A call that is done with a handle addresses nothing new.
LEMMA ServedKeeps ==
    ASSUME IInv, CallsOK, NEW c \in Senders, NEW from, Served(c, from),
           todo' \in [Senders -> SUBSET (Slots \X Nat)],
           todo'[c] \subseteq todo[c], \A d \in Senders \ {c} : todo'[d] = todo[d],
           UNCHANGED <<id, to, nextPacket>>
    PROVE  CallMoves(c) /\ Keeps(c) /\ Aims(c)
<1>1. /\ pc \in [Threads -> SenderLabels \cup WorkerLabels] /\ slot \in [Threads -> Slots \cup {NoSlot}]
      /\ packet \in [Senders -> Nat] /\ handle \in [Senders -> (Slots \cup {NoSlot}) \X Nat]
      /\ c \in Threads
  BY Busy, ThreadFacts DEF IInv, Typed, BuffersTyped, CallsOK, CallsTyped
<1>. DEFINE target == IF todo'[c] = {} THEN "idle" ELSE "find"
<1>2. target \in {"idle", "find"} /\ pc' = [pc EXCEPT ![c] = target]
  BY DEF Served, Step
<1>3. /\ slot' = [slot EXCEPT ![c] = NoSlot] /\ handle' = [handle EXCEPT ![c] = <<NoSlot, 0>>]
      /\ packet' = packet \/ packet' = [packet EXCEPT ![c] = NoPacket]
  BY DEF Served
<1>. HIDE DEF target
<1>4. CallMoves(c)
  BY <1>1, <1>2, <1>3 DEF CallMoves
<1>5. pc'[c] \in {"idle", "find"}
  BY <1>1, <1>2
<1>6. Unused(c)' = todo'[c] /\ Unused(c)' \subseteq Unused(c)
  BY <1>5 DEF Unused
<1>7. packet'[c] # NoPacket => packet'[c] = packet[c]
  BY <1>1, <1>3
<1>. QED  BY <1>4, <1>5, <1>6, <1>7 DEF Keeps, Aims

\* What a call does to addressees and claims, action by action.
LEMMA BeginEffect ==
    ASSUME IInv, CallsOK, CallsOK', NEW c \in Senders,
           \/ \E h \in Handles : SendPacket(c, h)
           \/ \E hs \in (SUBSET Handles) \ {{}} : SendPacketMulticast(c, hs)
    PROVE  CallMoves(c) /\ (Keeps(c) \/ Allots(c)) /\ Aims(c)
<1>. USE DEF lifeVars, callVars, packetVars
<1>1. /\ pc \in [Threads -> SenderLabels \cup WorkerLabels] /\ slot \in [Threads -> Slots \cup {NoSlot}]
      /\ packet \in [Senders -> Nat] /\ todo \in [Senders -> SUBSET (Slots \X Nat)]
      /\ c \in Threads /\ nextPacket \in Nat \ {0}
  BY Busy, ThreadFacts DEF IInv, Typed, BuffersTyped, CallsOK, CallsTyped
<1>2. pc[c] = "idle" /\ packet[c] = NoPacket /\ Unused(c) = todo[c] /\ todo[c] = {}
  BY DEF SendPacket, SendPacketMulticast, Step, CallsOK, CallOK, Unused
<1>3. CASE \E h \in Handles : SendPacket(c, h)
  <2>1. PICK h \in Handles : SendPacket(c, h)
    BY <1>3
  <2>2. /\ pc' = [pc EXCEPT ![c] = "find"] /\ todo' = [todo EXCEPT ![c] = {h}]
        /\ UNCHANGED <<id, slot, packet, handle, to, nextPacket>>
    BY <2>1 DEF SendPacket, Step
  <2>. QED  BY <1>1, <1>2, <2>2 DEF CallMoves, Keeps, Aims
<1>4. CASE \E hs \in (SUBSET Handles) \ {{}} : SendPacketMulticast(c, hs)
  <2>1. PICK hs \in (SUBSET Handles) \ {{}} : SendPacketMulticast(c, hs)
    BY <1>4
  <2>2. /\ pc' = [pc EXCEPT ![c] = "find"] /\ todo' = [todo EXCEPT ![c] = hs]
        /\ packet' = [packet EXCEPT ![c] = nextPacket] /\ to' = [to EXCEPT ![nextPacket] = hs]
        /\ nextPacket' = nextPacket + 1 /\ UNCHANGED <<id, slot, handle>> /\ Room
    BY <2>1 DEF SendPacketMulticast, Step, Allocate
  <2>3. nextPacket \in Packets
    <3>1. Cardinality({d \in Senders : pc[d] # "idle" /\ packet[d] = NoPacket}) \in Nat
      BY HandlesFinite
    <3>. QED  BY <1>1, <2>2, <3>1, SendBoundsAssumption DEF Room, Packets
  <2>4. pc'[c] = "find" /\ todo'[c] = hs /\ packet'[c] = nextPacket
    BY <1>1, <2>2
  <2>5. Unused(c)' = hs /\ hs \subseteq Slots \X Nat
    BY <2>4, SendBoundsAssumption DEF Unused, Handles
  <2>6. CallMoves(c)
    BY <1>1, <2>2 DEF CallMoves
  <2>. QED  BY <2>2, <2>3, <2>4, <2>5, <2>6 DEF Allots, Aims
<1>. QED  BY <1>3, <1>4

LEMMA FindEffect ==
    ASSUME IInv, IInv', CallsOK, NEW c \in Senders, NEW h \in todo[c], FindSession(c, h)
    PROVE  CallMoves(c) /\ Keeps(c) /\ Aims(c)
<1>. USE DEF lifeVars, callVars, packetVars
<1>1. /\ pc \in [Threads -> SenderLabels \cup WorkerLabels] /\ slot \in [Threads -> Slots \cup {NoSlot}]
      /\ packet \in [Senders -> Nat] /\ handle \in [Senders -> (Slots \cup {NoSlot}) \X Nat]
      /\ todo \in [Senders -> SUBSET (Slots \X Nat)] /\ todo' \in [Senders -> SUBSET (Slots \X Nat)]
      /\ c \in Threads
  BY Busy, ThreadFacts DEF IInv, Typed, BuffersTyped, CallsOK, CallsTyped
<1>2. todo' = [todo EXCEPT ![c] = @ \ {h}] /\ UNCHANGED <<id, to, nextPacket>>
  BY DEF FindSession
<1>3. todo'[c] = todo[c] \ {h} /\ \A d \in Senders \ {c} : todo'[d] = todo[d]
  BY <1>1, <1>2
<1>4. CASE Found(h)
  <2>1. /\ pc[c] = "find" /\ pc' = [pc EXCEPT ![c] = "size"] /\ slot' = [slot EXCEPT ![c] = h[1]]
        /\ handle' = [handle EXCEPT ![c] = h] /\ UNCHANGED packet
    BY <1>4 DEF FindSession, Step
  <2>2. h = <<h[1], h[2]>> /\ id[h[1]] = h[2]
    BY <1>1, <1>4 DEF Found
  <2>3. pc'[c] = "size" /\ slot'[c] = h[1] /\ handle'[c] = h
    BY <1>1, <2>1
  <2>4. Unused(c) = todo[c] /\ Unused(c)' = todo'[c] \cup {h}
    BY <2>1, <2>3 DEF Unused
  <2>5. CallMoves(c)
    BY <1>1, <1>2, <1>3, <2>1 DEF CallMoves
  <2>. QED  BY <1>2, <1>3, <2>1, <2>2, <2>3, <2>4, <2>5 DEF Keeps, Aims
<1>5. CASE ~Found(h)
  <2>1. Served(c, "find")
    BY <1>5 DEF FindSession
  <2>. QED  BY <1>1, <1>2, <1>3, <2>1, ServedKeeps
<1>. QED  BY <1>4, <1>5

LEMMA CheckEffect ==
    ASSUME IInv, CallsOK, CallsOK', NEW c \in Senders, CallAddressed(c), CheckSize(c)
    PROVE  CallMoves(c) /\ (Keeps(c) \/ Allots(c)) /\ Aims(c)
<1>. USE DEF lifeVars, callVars, packetVars
<1>1. /\ pc \in [Threads -> SenderLabels \cup WorkerLabels] /\ packet \in [Senders -> Nat]
      /\ handle \in [Senders -> (Slots \cup {NoSlot}) \X Nat]
      /\ c \in Threads /\ nextPacket \in Nat \ {0}
  BY Busy, ThreadFacts DEF IInv, Typed, BuffersTyped, CallsOK, CallsTyped
<1>2. pc[c] = "size" /\ UNCHANGED <<id, slot, todo, handle>>
      /\ (pc' = [pc EXCEPT ![c] = "full"] \/ pc' = [pc EXCEPT ![c] = "link"])
  BY DEF CheckSize, Step
<1>3. /\ pc'[c] \in {"full", "link"} /\ handle[c] = <<slot[c], id[slot[c]]>>
      /\ Unused(c) = todo[c] \cup {handle[c]} /\ Unused(c)' = todo[c] \cup {handle[c]}
  BY <1>1, <1>2 DEF CallAddressed, Unused
<1>4. Aims(c)
  BY <1>2, <1>3 DEF Aims
<1>5. CASE UNCHANGED <<to, nextPacket, packet>>
  BY <1>1, <1>2, <1>3, <1>4, <1>5 DEF CallMoves, Keeps
<1>6. CASE packet[c] = NoPacket /\ Allocate(c, 1, {handle[c]})
  <2>1. /\ packet' = [packet EXCEPT ![c] = nextPacket] /\ nextPacket' = nextPacket + 1
        /\ to' = [to EXCEPT ![nextPacket] = {handle[c]}]
    BY <1>6 DEF Allocate
  <2>2. todo[c] = {} /\ c \in Waiting
    BY <1>2, <1>6 DEF CallsOK, CallOK, Waiting
  <2>3. nextPacket \in Packets
    BY <2>2, OneLeft
  <2>4. Unused(c)' = {handle[c]}
    BY <1>3, <2>2
  <2>5. handle[c] \in Slots \X Nat
    <3>1. handle[c] \in Handles
      BY <1>2 DEF CallsOK, CallOK, ClaimLabels
    <3>. QED  BY <3>1, SendBoundsAssumption DEF Handles
  <2>6. packet'[c] = nextPacket
    BY <1>1, <2>1
  <2>7. CallMoves(c)
    BY <1>1, <1>2, <2>1 DEF CallMoves
  <2>. QED  BY <1>4, <2>1, <2>3, <2>4, <2>5, <2>6, <2>7 DEF Allots
<1>. QED  BY <1>5, <1>6 DEF CheckSize

LEMMA GoesOnEffect ==
    ASSUME IInv, IInv', CallsOK, NEW c \in Senders, CallAddressed(c),
           \/ EnqueueLink(c) \/ EnqueueCount(c) \/ TrySendPost(c) \/ ReturnSession(c)
           \/ ReturnFull(c) \/ Disconnect(c) \/ CloseSession(c)
    PROVE  CallMoves(c) /\ Keeps(c) /\ Aims(c)
<1>. USE DEF lifeVars, callVars, packetVars
<1>1. /\ pc \in [Threads -> SenderLabels \cup WorkerLabels] /\ slot \in [Threads -> Slots \cup {NoSlot}]
      /\ packet \in [Senders -> Nat] /\ handle \in [Senders -> (Slots \cup {NoSlot}) \X Nat]
      /\ todo' \in [Senders -> SUBSET (Slots \X Nat)] /\ c \in Threads /\ c \notin Workers
  BY Busy, ThreadFacts DEF IInv, Typed, BuffersTyped, CallsOK, CallsTyped
<1>2. UNCHANGED <<id, to, nextPacket, todo>>
  BY <1>1 DEF EnqueueLink, EnqueueCount, TrySendPost, ReturnSession, ReturnFull, Disconnect,
     CloseSession
<1>3. ASSUME UNCHANGED <<slot, packet, handle>>, NEW x \in {"count", "trypost", "return", "close"},
             pc' = [pc EXCEPT ![c] = x]
      PROVE  CallMoves(c) /\ Keeps(c) /\ Aims(c)
  <2>1. pc'[c] = x /\ Unused(c)' = todo[c] /\ Unused(c)' \subseteq Unused(c)
    BY <1>1, <1>2, <1>3 DEF Unused
  <2>. QED  BY <1>1, <1>2, <1>3, <2>1 DEF CallMoves, Keeps, Aims
<1>4. ASSUME UNCHANGED <<slot, packet, handle>>, pc[c] \in {"full", "closefull"},
             NEW x \in {"closefull", "disconnect"}, pc' = [pc EXCEPT ![c] = x]
      PROVE  CallMoves(c) /\ Keeps(c) /\ Aims(c)
  <2>1. pc'[c] = x /\ Unused(c)' = Unused(c)
    BY <1>1, <1>2, <1>4 DEF Unused
  <2>. QED  BY <1>1, <1>2, <1>4, <2>1 DEF CallMoves, Keeps, Aims
<1>5. ASSUME NEW from, Served(c, from) PROVE CallMoves(c) /\ Keeps(c) /\ Aims(c)
  BY <1>1, <1>2, <1>5, ServedKeeps
<1>6. CASE EnqueueLink(c)
  BY <1>3, <1>6 DEF EnqueueLink, Step
<1>7. CASE EnqueueCount(c)
  BY <1>3, <1>7 DEF EnqueueCount, Step
<1>8. CASE TrySendPost(c)
  BY <1>3, <1>8 DEF TrySendPost, Step
<1>9. CASE ReturnSession(c)
  BY <1>3, <1>5, <1>9 DEF ReturnSession, Step
<1>10. CASE ReturnFull(c)
  BY <1>4, <1>10 DEF ReturnFull, Step
<1>11. CASE Disconnect(c)
  BY <1>5, <1>11 DEF Disconnect
<1>12. CASE CloseSession(c)
  BY <1>1, <1>4, <1>5, <1>12 DEF CloseSession, Step
<1>. QED  BY <1>6, <1>7, <1>8, <1>9, <1>10, <1>11, <1>12

\* Every step of a call keeps its packet or allots one.
LEMMA CallEffect ==
    ASSUME IInv, IInv', CallsOK, CallsOK', NEW c \in Senders, CallAddressed(c), CallStep(c)
    PROVE  CallMoves(c) /\ (Keeps(c) \/ Allots(c)) /\ Aims(c)
BY BeginEffect, FindEffect, CheckEffect, GoesOnEffect DEF CallStep, Send, FindsNext

\* A step of a call leaves every packet where it was addressed to.
LEMMA AddressedByCall ==
    ASSUME IInv, CallsOK, CallsOK', Addressed, NEW c \in Senders,
           CallMoves(c), Keeps(c) \/ Allots(c), Aims(c)
    PROVE  Addressed'
<1>1. /\ to \in [Packets -> SUBSET (Slots \X Nat)] /\ \A p \in Packets : p >= nextPacket => to[p] = {}
      /\ \A d \in Senders : CallAddressed(d)
      /\ nextPacket \in Nat /\ nextPacket' \in Nat /\ \A p \in Packets : p \in Nat /\ p # NoPacket
      /\ \A d \in Senders : packet[d] \in Nat /\ packet[d] < nextPacket /\ id' = id
      /\ Senders \subseteq Threads
  BY ThreadFacts DEF Addressed, CallsOK, CallsTyped, CallOK, Packets, NoPacket, IInv, Typed,
     BuffersTyped, CallMoves
<1>2. /\ to' \in [Packets -> SUBSET (Slots \X Nat)]
      /\ \A p \in Packets : p >= nextPacket' => to'[p] = {}
      /\ \A p \in Packets : p # nextPacket => to'[p] = to[p]
  BY <1>1 DEF Keeps, Allots
<1>3. ASSUME NEW d \in Senders \ {c} PROVE CallAddressed(d)'
  <2>1. /\ pc'[d] = pc[d] /\ slot'[d] = slot[d] /\ packet'[d] = packet[d] /\ handle'[d] = handle[d]
        /\ Unused(d)' = Unused(d)
    BY <1>1 DEF CallMoves, Unused
  <2>2. /\ packet[d] # NoPacket => packet[d] \in Packets /\ to'[packet[d]] = to[packet[d]]
    <3>1. packet[d] # NoPacket => packet[d] \in Packets
      <4>1. Cardinality(Waiting) \in Nat
        BY HandlesFinite DEF Waiting
      <4>2. nextPacket <= MaxPackets + 1
        BY <1>1, <4>1, SendBoundsAssumption DEF CallsOK, Reserved
      <4>. QED  BY <1>1, <4>2, SendBoundsAssumption DEF Packets, NoPacket
    <3>. QED  BY <1>1, <1>2, <3>1
  <2>3. ASSUME NEW e \in Senders \ {d}, packet'[e] = packet'[d] PROVE packet'[d] = NoPacket
    <3>1. CASE e # c
      BY <1>1, <2>1, <2>3, <3>1 DEF CallAddressed, CallMoves
    <3>2. CASE e = c
      BY <1>1, <2>1, <2>3, <3>2 DEF CallAddressed, Keeps, Allots
    <3>. QED  BY <3>1, <3>2
  <2>. QED  BY <1>1, <2>1, <2>2, <2>3 DEF CallAddressed
<1>4. CallAddressed(c)'
  <2>1. ASSUME NEW e \in Senders \ {c}, packet'[e] = packet'[c] PROVE packet'[c] = NoPacket
    <3>1. packet'[e] = packet[e] /\ CallAddressed(c)
      BY <1>1, <2>1 DEF CallMoves
    <3>. QED  BY <1>1, <2>1, <3>1 DEF CallAddressed, Keeps, Allots
  <2>2. packet'[c] # NoPacket => Unused(c)' \subseteq to'[packet'[c]]
    BY <1>1, <1>2 DEF CallAddressed, Keeps, Allots
  <2>. QED  BY <1>1, <2>1, <2>2 DEF CallAddressed, Aims
<1>. QED  BY <1>2, <1>3, <1>4 DEF Addressed

-----------------------------------------------------------------------------
(* What has been in the channel of a connection does not come back.        *)

\* Nothing new is seen if every part comes from what was seen.
LEMMA SeenKept ==
    ASSUME NEW s, Elements(queue'[s]) \subseteq Seen(s), Elements(sendPackets'[s]) \subseteq Seen(s),
           Elements(delivered'[s]) \subseteq Seen(s),
           \A w \in Workers : slot'[w] = s => Elements(batch'[w]) \subseteq Seen(s)
    PROVE  Seen(s)' \subseteq Seen(s)
BY DEF Seen, Elements

\* Whatever the channel of s holds or held has been seen.
LEMMA SeenParts ==
    ASSUME NEW s
    PROVE  /\ Elements(queue[s]) \subseteq Seen(s) /\ Elements(sendPackets[s]) \subseteq Seen(s)
           /\ Elements(delivered[s]) \subseteq Seen(s)
           /\ \A w \in Workers : slot[w] = s => Elements(batch[w]) \subseteq Seen(s)
BY DEF Seen

\* What was seen is not sent again by a call that keeps or drops its packet.
LEMMA NotAgainKept ==
    ASSUME NEW s, NotAgain(s), state'[s] = "live" => state[s] = "live", id'[s] = id[s],
           Seen(s)' \subseteq Seen(s), nextPacket \in Nat, nextPacket' \in Nat,
           nextPacket <= nextPacket', Seen(s) \subseteq Nat,
           \A d \in Senders : \A p \in Seen(s) :
              p # NoPacket /\ p < nextPacket /\ packet'[d] = p =>
                 packet[d] = p /\ Unused(d)' \subseteq Unused(d)
    PROVE  NotAgain(s)'
<1>. SUFFICES ASSUME state'[s] = "live" PROVE NotAgain(s)'
  BY DEF NotAgain
<1>1. /\ id[s] > 0
      /\ \A p \in Seen(s) :
              /\ 0 < p /\ p < nextPacket
              /\ \A c \in Senders : packet[c] = p => <<s, id[s]>> \notin Unused(c)
  BY DEF NotAgain
<1>2. ASSUME NEW p \in Seen(s)'
      PROVE  /\ 0 < p /\ p < nextPacket'
             /\ \A c \in Senders : packet'[c] = p => <<s, id'[s]>> \notin Unused(c)'
  <2>1. p \in Seen(s) /\ p \in Nat /\ 0 < p /\ p < nextPacket /\ p # NoPacket
    BY <1>1 DEF NoPacket
  <2>2. p < nextPacket'
    BY <2>1
  <2>. QED  BY <1>1, <2>1, <2>2
<1>. QED  BY <1>1, <1>2 DEF NotAgain

\* The types the channel's proofs need.
LEMMA ChannelTyped ==
    ASSUME PInv, Orderly
    PROVE  /\ queue \in [Slots -> Seq(Nat)] /\ sendPackets \in [Slots -> Seq(Nat)]
           /\ batch \in [Workers -> Seq(Nat)] /\ inFlight \in [Slots -> Seq(Seq(Nat))]
           /\ delivered \in [Slots -> Seq(Nat)] /\ packet \in [Senders -> Nat]
           /\ posted \in [Slots -> [Completions -> Nat]]
           /\ state \in [Slots -> {"free", "live", "closing"}]
           /\ pc \in [Threads -> SenderLabels \cup WorkerLabels] /\ slot \in [Threads -> Slots \cup {NoSlot}]
           /\ nextPacket \in Nat \ {0} /\ id \in [Slots -> Nat]
           /\ \A s \in Slots : Seen(s) \subseteq Nat
<1>1. /\ queue \in [Slots -> Seq(Nat)] /\ sendPackets \in [Slots -> Seq(Nat)]
      /\ batch \in [Workers -> Seq(Nat)] /\ inFlight \in [Slots -> Seq(Seq(Nat))]
      /\ delivered \in [Slots -> Seq(Nat)] /\ packet \in [Senders -> Nat]
      /\ posted \in [Slots -> [Completions -> Nat]]
      /\ state \in [Slots -> {"free", "live", "closing"}]
      /\ pc \in [Threads -> SenderLabels \cup WorkerLabels] /\ slot \in [Threads -> Slots \cup {NoSlot}]
      /\ nextPacket \in Nat \ {0} /\ id \in [Slots -> Nat]
  BY DEF PInv, IInv, Typed, ThreadsOK, BuffersTyped, SessionsTyped, CallsOK, CallsTyped, Orderly
<1>2. \A f \in Seq(Nat) : Elements(f) \subseteq Nat
  BY DEF Elements
<1>. QED  BY <1>1, <1>2 DEF Seen

-----------------------------------------------------------------------------
(* The steps of the calls.                                                 *)

\* Post and Taken change one counter of one session.
LEMMA PostMoves ==
    ASSUME posted \in [Slots -> [Completions -> Nat]], NEW s \in Slots, NEW k \in Completions,
           Post(s, k) \/ Taken(s, k)
    PROVE  /\ \A r \in Slots \ {s} : posted'[r] = posted[r]
           /\ \A l \in Completions \ {k} : posted'[s][l] = posted[s][l]
           /\ Post(s, k) => posted'[s][k] = posted[s][k] + 1
           /\ Taken(s, k) => posted'[s][k] = posted[s][k] - 1
<1>1. PICK n : /\ posted' = [posted EXCEPT ![s] = [@ EXCEPT ![k] = n]]
               /\ Post(s, k) => n = posted[s][k] + 1
               /\ Taken(s, k) => n = posted[s][k] - 1
  <2>1. CASE Post(s, k) /\ ~Taken(s, k)
    BY <2>1 DEF Post
  <2>2. CASE Taken(s, k) /\ ~Post(s, k)
    BY <2>2 DEF Taken
  <2>3. CASE Taken(s, k) /\ Post(s, k)
    <3>1. [posted[s] EXCEPT ![k] = @ + 1] = [posted[s] EXCEPT ![k] = @ - 1]
      BY <2>3 DEF Post, Taken
    <3>2. posted[s][k] + 1 = posted[s][k] - 1
      BY <3>1
    <3>. QED  BY <3>2
  <2>. QED  BY <2>1, <2>2, <2>3
<1>. DEFINE f == [posted[s] EXCEPT ![k] = n]
<1>2. f[k] = n /\ \A l \in Completions \ {k} : f[l] = posted[s][l]
  OBVIOUS
<1>. HIDE DEF f
<1>3. posted' = [posted EXCEPT ![s] = f]
  BY <1>1 DEF f
<1>. QED  BY <1>1, <1>2, <1>3

\* What a call leaves alone: batches, m_sendPackets and what was delivered.
LEMMA CallFrame ==
    ASSUME PInv, NEW c \in Senders, CallStep(c)
    PROVE  /\ UNCHANGED <<batch, delivered>>
           /\ \A s \in Slots : s # slot[c] => state'[s] = state[s]
           /\ \A s \in Slots : state'[s] = "live" =>
                 /\ state[s] = "live" /\ sendPackets'[s] = sendPackets[s]
                 /\ posted'[s]["sent"] = posted[s]["sent"]
                 /\ \/ inFlight'[s] = inFlight[s]
                    \/ inFlight[s] # <<>> /\ inFlight'[s] = Tail(inFlight[s])
                 /\ \/ queue'[s] = queue[s]
                    \/ EnqueueLink(c) /\ slot[c] = s /\ queue'[s] = Append(queue[s], packet[c])
<1>. USE DEF lifeVars, callVars, packetVars, bufferVars, ioVars, workVars
<1>1. /\ posted \in [Slots -> [Completions -> Nat]] /\ inFlight \in [Slots -> Seq(Seq(Nat))]
      /\ queue \in [Slots -> Seq(Nat)] /\ state \in [Slots -> {"free", "live", "closing"}]
      /\ sendPackets \in [Slots -> Seq(Nat)]
      /\ c \notin Workers /\ c \in Threads
      /\ pc[c] \notin {"idle", "find"} => slot[c] \in Slots
  BY ThreadFacts, Busy DEF PInv, IInv, Typed, BuffersTyped, SessionsTyped
<1>2. CASE \/ \E h \in Handles : SendPacket(c, h)
           \/ \E hs \in (SUBSET Handles) \ {{}} : SendPacketMulticast(c, hs)
           \/ FindsNext(c) \/ CheckSize(c) \/ EnqueueCount(c)
  BY <1>2 DEF SendPacket, SendPacketMulticast, FindsNext, FindSession, CheckSize, EnqueueCount
<1>3. CASE EnqueueLink(c)
  BY <1>1, <1>3 DEF EnqueueLink
<1>4. CASE TrySendPost(c)
  <2>1. posted' = posted \/ Post(slot[c], "sendpost")
    BY <1>4 DEF TrySendPost
  <2>2. \A s \in Slots : posted'[s]["sent"] = posted[s]["sent"]
    <3>1. slot[c] \in Slots /\ "sent" \in Completions /\ "sendpost" \in Completions
      BY <1>1, <1>4 DEF TrySendPost, Step, Completions
    <3>2. "sent" # "sendpost"
      OBVIOUS
    <3>3. CASE Post(slot[c], "sendpost")
      <4>1. \A l \in Completions \ {"sendpost"} : posted'[slot[c]][l] = posted[slot[c]][l]
        BY <1>1, <3>1, <3>3, PostMoves
      <4>2. \A r \in Slots \ {slot[c]} : posted'[r] = posted[r]
        BY <1>1, <3>1, <3>3, PostMoves
      <4>. QED  BY <3>1, <3>2, <4>1, <4>2
    <3>. QED  BY <2>1, <3>3
  <2>. QED  BY <1>4, <2>2 DEF TrySendPost
<1>5. CASE ReturnSession(c) \/ ReturnFull(c)
  <2>1. state' = state \/ state' = [state EXCEPT ![slot[c]] = "closing"]
    BY <1>5 DEF ReturnSession, ReturnFull, Released
  <2>. QED  BY <1>1, <1>5, <2>1 DEF ReturnSession, ReturnFull
<1>6. CASE Disconnect(c)
  <2>1. \/ posted' = posted /\ inFlight' = inFlight
        \/ /\ inFlight[slot[c]] # <<>> /\ Post(slot[c], "zero")
           /\ inFlight' = [inFlight EXCEPT ![slot[c]] = Tail(@)]
    BY <1>6 DEF Disconnect
  <2>2. \A s \in Slots : posted'[s]["sent"] = posted[s]["sent"]
    <3>1. slot[c] \in Slots /\ "sent" \in Completions /\ "zero" \in Completions
      BY <1>1, <1>6 DEF Disconnect, Served, Step, Completions
    <3>2. "sent" # "zero"
      OBVIOUS
    <3>3. CASE Post(slot[c], "zero")
      <4>1. \A l \in Completions \ {"zero"} : posted'[slot[c]][l] = posted[slot[c]][l]
        BY <1>1, <3>1, <3>3, PostMoves
      <4>2. \A r \in Slots \ {slot[c]} : posted'[r] = posted[r]
        BY <1>1, <3>1, <3>3, PostMoves
      <4>. QED  BY <3>1, <3>2, <4>1, <4>2
    <3>. QED  BY <2>1, <3>3
  <2>3. \A s \in Slots : \/ inFlight'[s] = inFlight[s]
                         \/ inFlight[s] # <<>> /\ inFlight'[s] = Tail(inFlight[s])
    BY <1>1, <2>1
  <2>. QED  BY <1>6, <2>2, <2>3 DEF Disconnect
<1>7. CASE CloseSession(c)
  <2>1. /\ state' = [state EXCEPT ![slot[c]] = "free"] /\ UNCHANGED <<batch, delivered, inFlight, posted>>
        /\ \A s \in Slots : s # slot[c] => queue'[s] = queue[s] /\ sendPackets'[s] = sendPackets[s]
    BY <1>1, <1>7 DEF CloseSession, Emptied
  <2>. QED  BY <1>1, <2>1
<1>. QED  BY <1>2, <1>3, <1>4, <1>5, <1>6, <1>7 DEF CallStep, Send

\* A call puts only its own, new packet into a queue.
LEMMA OrderlyByCall ==
    ASSUME PInv, PInv', Addressed, Orderly, NEW c \in Senders, CallStep(c)
    PROVE  Orderly'
<1>1. /\ CallMoves(c) /\ (Keeps(c) \/ Allots(c)) /\ IInv /\ CallsOK
  BY CallEffect DEF PInv, Addressed
<1>2. /\ UNCHANGED <<batch, delivered>> /\ c \notin Workers /\ Workers \subseteq Threads /\ c \in Threads
      /\ \A w \in Workers : pc'[w] = pc[w] /\ slot'[w] = slot[w]
  BY <1>1, CallFrame, ThreadFacts DEF CallMoves
<1>3. BatchesHeld' /\ delivered' \in [Slots -> Seq(Nat)]
  BY <1>2 DEF Orderly, BatchesHeld
<1>4. ASSUME NEW s \in Slots PROVE FlightKept(s)'
  <2>1. CASE state'[s] = "live"
    <3>1. /\ state[s] = "live" /\ sendPackets'[s] = sendPackets[s]
          /\ \/ inFlight'[s] = inFlight[s]
             \/ inFlight[s] # <<>> /\ inFlight'[s] = Tail(inFlight[s])
      BY <2>1, CallFrame
    <3>2. inFlight[s] # <<>> => Tail(inFlight[s]) = <<>>
      BY <1>1, <3>1, ExclusiveNow DEF OneAtATime, Exclusive
    <3>. QED  BY <3>1, <3>2 DEF FlightKept, Orderly
  <2>2. CASE state'[s] # "live"
    <3>1. CountsExact(s)'
      BY DEF PInv, IInv, SessionInv
    <3>. QED  BY <2>2, <3>1 DEF CountsExact, FlightKept
  <2>. QED  BY <2>1, <2>2
<1>5. ASSUME NEW s \in Slots PROVE NotAgain(s)'
  <2>. SUFFICES ASSUME state'[s] = "live" PROVE NotAgain(s)'
    BY DEF NotAgain
  <2>1. /\ state[s] = "live" /\ sendPackets'[s] = sendPackets[s] /\ id' = id
        /\ \/ queue'[s] = queue[s]
           \/ EnqueueLink(c) /\ slot[c] = s /\ queue'[s] = Append(queue[s], packet[c])
    BY <1>1, CallFrame DEF CallMoves
  <2>2. NotAgain(s) /\ Seen(s) \subseteq Nat /\ queue[s] \in Seq(Nat) /\ packet \in [Senders -> Nat]
        /\ nextPacket \in Nat
    BY ChannelTyped DEF Orderly
  <2>3. nextPacket' \in Nat /\ nextPacket <= nextPacket'
    BY <1>1, <2>2 DEF Keeps, Allots
  <2>4. ASSUME NEW d \in Senders, NEW p \in Nat, p # NoPacket, p < nextPacket, packet'[d] = p
        PROVE  packet[d] = p /\ Unused(d)' \subseteq Unused(d)
    <3>1. CASE d # c
      <4>1. d \in Threads
        BY ThreadFacts
      <4>. QED  BY <1>1, <2>4, <3>1, <4>1 DEF CallMoves, Unused
    <3>2. CASE d = c
      BY <1>1, <2>2, <2>4, <3>2 DEF Keeps, Allots
    <3>. QED  BY <3>1, <3>2
  <2>5. CASE queue'[s] = queue[s]
    <3>1. Seen(s)' \subseteq Seen(s)
      BY <1>2, <2>1, <2>5, SeenParts, SeenKept
    <3>. QED  BY <2>1, <2>2, <2>3, <2>4, <3>1, NotAgainKept
  <2>6. CASE EnqueueLink(c) /\ slot[c] = s /\ queue'[s] = Append(queue[s], packet[c])
    <3>1. /\ pc[c] = "link" /\ pc'[c] = "count" /\ UNCHANGED <<packet, todo, handle, nextPacket>>
      BY <1>2, <2>6, Busy DEF EnqueueLink, Step, callVars, packetVars, PInv, IInv, Typed
    <3>2. /\ packet[c] # NoPacket /\ 0 < packet[c] /\ packet[c] < nextPacket /\ handle[c] \notin todo[c]
          /\ handle[c] = <<s, id[s]>> /\ CallAddressed(c)
      BY <1>1, <2>2, <2>6, <3>1 DEF CallsOK, CallOK, ClaimLabels, Addressed, CallAddressed,
         NoPacket
    <3>3. Unused(c)' = todo[c] /\ <<s, id[s]>> \notin Unused(c)'
      BY <3>1, <3>2 DEF Unused
    <3>4. Elements(queue'[s]) = Elements(queue[s]) \cup {packet[c]}
      BY <2>2, <2>6, ElementsOf
    <3>5. Seen(s)' \subseteq Seen(s) \cup {packet[c]}
      BY <1>2, <2>1, <3>4 DEF Seen, Elements
    <3>6. ASSUME NEW p \in Seen(s)'
          PROVE  /\ 0 < p /\ p < nextPacket'
                 /\ \A d \in Senders : packet'[d] = p => <<s, id'[s]>> \notin Unused(d)'
      <4>1. CASE p = packet[c]
        <5>1. \A d \in Senders \ {c} : packet[d] # p
          BY <3>2, <4>1 DEF CallAddressed
        <5>. QED  BY <2>1, <3>1, <3>2, <3>3, <4>1, <5>1
      <4>2. CASE p \in Seen(s)
        <5>1. /\ 0 < p /\ p < nextPacket /\ p \in Nat /\ p # NoPacket
              /\ \A d \in Senders : packet[d] = p => <<s, id[s]>> \notin Unused(d)
          BY <2>1, <2>2, <4>2 DEF NotAgain, NoPacket
        <5>. QED  BY <2>1, <2>4, <3>1, <5>1
      <4>. QED  BY <3>5, <4>1, <4>2
    <3>. QED  BY <2>1, <2>2, <3>6 DEF NotAgain
  <2>. QED  BY <2>1, <2>5, <2>6
<1>. QED  BY <1>3, <1>4, <1>5 DEF Orderly

-----------------------------------------------------------------------------
(* The steps of the workers.                                               *)

Gets(w, s) ==
    GetSendPost(w, s) \/ GetRecv(w, s) \/ \E kind \in Kinds : GetSendCompletion(w, s, kind)

WorkStep(w, s) ==
    \/ slot[w] = s /\ pc[w] # "idle" /\ (Work(w) \/ CloseSession(w))
    \/ Gets(w, s)

\* Worker w leaves the other threads, their batches and the other sessions as
\* they are.
WorkMoves(w, s) ==
    /\ \A u \in Threads \ {w} : pc'[u] = pc[u] /\ slot'[u] = slot[u]
    /\ \A v \in Workers \ {w} : batch'[v] = batch[v]
    /\ slot[w] \in {s, NoSlot} /\ slot'[w] \in {s, NoSlot}
    /\ \A r \in Slots \ {s} :
          /\ state'[r] = state[r] /\ queue'[r] = queue[r] /\ sendPackets'[r] = sendPackets[r]
          /\ inFlight'[r] = inFlight[r] /\ posted'[r] = posted[r]
    /\ UNCHANGED delivered

\* The end of a handler.
LEMMA FinishMoves ==
    ASSUME NEW w \in Workers, NEW s, slot[w] = s, ThreadsOK, NEW from, NEW n, Finish(w, from, n)
    PROVE  /\ \A u \in Threads \ {w} : pc'[u] = pc[u] /\ slot'[u] = slot[u]
           /\ slot'[w] \in {s, NoSlot}
           /\ pc[w] = from /\ pc'[w] \in {"idle", "dec"} /\ (slot'[w] = s => pc'[w] = "dec" \/ s = NoSlot)
<1>. DEFINE target == IF n = 0 THEN "idle" ELSE "dec"
<1>1. /\ pc[w] = from /\ pc' = [pc EXCEPT ![w] = target]
      /\ slot' = (IF n = 0 THEN [slot EXCEPT ![w] = NoSlot] ELSE slot)
  BY DEF Finish, Step
<1>2. target \in {"idle", "dec"} /\ (n # 0 => target = "dec")
  OBVIOUS
<1>3. /\ pc \in [Threads -> SenderLabels \cup WorkerLabels] /\ slot \in [Threads -> Slots \cup {NoSlot}]
      /\ w \in Threads
  BY Busy, ThreadFacts
<1>. HIDE DEF target
<1>. QED  BY <1>1, <1>2, <1>3

\* A worker changes its own session only.
LEMMA WorkFrame ==
    ASSUME PInv, NEW w \in Workers, NEW s \in Slots, WorkStep(w, s)
    PROVE  WorkMoves(w, s)
<1>. USE DEF lifeVars, callVars, packetVars, bufferVars, ioVars, workVars
<1>1. /\ posted \in [Slots -> [Completions -> Nat]] /\ inFlight \in [Slots -> Seq(Seq(Nat))]
      /\ queue \in [Slots -> Seq(Nat)] /\ state \in [Slots -> {"free", "live", "closing"}]
      /\ sendPackets \in [Slots -> Seq(Nat)] /\ batch \in [Workers -> Seq(Nat)]
      /\ w \notin Senders /\ w \in Threads /\ Workers \subseteq Threads
      /\ pc \in [Threads -> SenderLabels \cup WorkerLabels] /\ slot \in [Threads -> Slots \cup {NoSlot}]
      /\ pc[w] = "idle" <=> slot[w] = NoSlot
      /\ ThreadsOK
  BY ThreadFacts, Busy DEF PInv, IInv, Typed, ThreadsOK, WorkerOK, BuffersTyped, SessionsTyped
<1>2. CASE Gets(w, s)
  <2>1. /\ \E x : pc' = [pc EXCEPT ![w] = x]
        /\ pc[w] = "idle" /\ slot' = [slot EXCEPT ![w] = s]
        /\ UNCHANGED <<batch, state, queue, sendPackets, inFlight, delivered>>
    BY <1>2 DEF Gets, GetSendPost, GetRecv, GetSendCompletion, Handle, Step
  <2>2. \A r \in Slots \ {s} : posted'[r] = posted[r]
    BY <1>1, <1>2 DEF Gets, GetSendPost, GetRecv, GetSendCompletion, Taken
  <2>. QED  BY <1>1, <2>1, <2>2 DEF WorkMoves
<1>3. ASSUME slot[w] = s, slot' = slot, \E x : pc' = [pc EXCEPT ![w] = x]
      PROVE  /\ \A u \in Threads \ {w} : pc'[u] = pc[u] /\ slot'[u] = slot[u]
             /\ slot'[w] \in {s, NoSlot}
  BY <1>1, <1>3
<1>4. CASE slot[w] = s /\ (ClearSendPackets(w) \/ ClearIsSending(w) \/ RecheckSize(w)
                           \/ TrySendPostInCompletion(w) \/ DequeueCount(w) \/ DequeueFails(w))
  <2>1. slot' = slot /\ (\E x : pc' = [pc EXCEPT ![w] = x])
    BY <1>4 DEF ClearSendPackets, ClearIsSending, RecheckSize, TrySendPostInCompletion,
       DequeueCount,
                DequeueFails, Step
  <2>2. /\ UNCHANGED <<batch, state, queue, inFlight, posted, delivered>>
        /\ sendPackets' = sendPackets \/ sendPackets' = [sendPackets EXCEPT ![s] = <<>>]
    BY <1>4 DEF ClearSendPackets, ClearIsSending, RecheckSize, TrySendPostInCompletion,
       DequeueCount,
                DequeueFails
  <2>. QED  BY <1>1, <1>3, <1>4, <2>1, <2>2 DEF WorkMoves
<1>5. CASE slot[w] = s /\ DequeueTake(w)
  <2>1. slot' = slot /\ \E x : pc' = [pc EXCEPT ![w] = x]
    BY <1>5 DEF DequeueTake, Step
  <2>2. /\ UNCHANGED <<state, sendPackets, inFlight, posted, delivered>>
        /\ batch' = [batch EXCEPT ![w] = Append(@, Head(queue[s]))]
        /\ queue' = [queue EXCEPT ![s] = Tail(@)]
    BY <1>5 DEF DequeueTake
  <2>. QED  BY <1>1, <1>3, <1>5, <2>1, <2>2 DEF WorkMoves
<1>6. CASE slot[w] = s /\ PostSendingCheck(w)
  <2>1. \A r \in Slots \ {s} : posted'[r] = posted[r]
    BY <1>1, <1>6 DEF PostSendingCheck, Post
  <2>. QED  BY <1>1, <1>6, <2>1, FinishMoves DEF PostSendingCheck, WorkMoves
<1>7. CASE slot[w] = s /\ \E accepted \in BOOLEAN : WSASend(w, accepted)
  <2>1. PICK accepted \in BOOLEAN : WSASend(w, accepted)
    BY <1>7
  <2>2. /\ UNCHANGED <<state, queue, posted, delivered>>
        /\ batch' = [batch EXCEPT ![w] = <<>>]
        /\ sendPackets' = [sendPackets EXCEPT ![s] = batch[w]]
        /\ inFlight' = inFlight \/ inFlight' = [inFlight EXCEPT ![s] = Append(@, batch[w])]
    BY <1>7, <2>1 DEF WSASend
  <2>3. \E n : Finish(w, "transmit", n)
    BY <2>1 DEF WSASend
  <2>. QED  BY <1>1, <1>7, <2>2, <2>3, FinishMoves DEF WorkMoves
<1>8. CASE slot[w] = s /\ DecrementIOCount(w)
  <2>1. /\ UNCHANGED <<batch, queue, sendPackets, inFlight, posted, delivered>>
        /\ state' = state \/ state' = [state EXCEPT ![s] = "closing"]
    BY <1>8 DEF DecrementIOCount, Released
  <2>2. \/ slot' = slot /\ (\E x : pc' = [pc EXCEPT ![w] = x])
        \/ \E n : Finish(w, "dec", n)
    BY <1>8 DEF DecrementIOCount, Step
  <2>. QED  BY <1>1, <1>3, <1>8, <2>1, <2>2, FinishMoves DEF WorkMoves
<1>9. CASE slot[w] = s /\ CloseSession(w)
  <2>1. /\ UNCHANGED <<batch, inFlight, posted, delivered>> /\ state' = [state EXCEPT ![s] = "free"]
        /\ \A r \in Slots \ {s} : queue'[r] = queue[r] /\ sendPackets'[r] = sendPackets[r]
    BY <1>1, <1>9 DEF CloseSession, Emptied
  <2>2. \E n : Finish(w, "close", n)
    BY <1>1, <1>9 DEF CloseSession
  <2>. QED  BY <1>1, <1>9, <2>1, <2>2, FinishMoves DEF WorkMoves
<1>. QED  BY <1>2, <1>4, <1>5, <1>6, <1>7, <1>8, <1>9 DEF WorkStep, Work

\* What a worker moves was seen before.
LEMMA WorkOrder ==
    ASSUME PInv, PInv', Orderly, NEW w \in Workers, NEW s \in Slots, WorkStep(w, s)
    PROVE  /\ state'[s] = "live" => state[s] = "live"
           /\ batch'[w] # <<>> => pc'[w] \in FillLabels
           /\ FlightKept(s)'
           /\ Elements(queue'[s]) \subseteq Seen(s) /\ Elements(sendPackets'[s]) \subseteq Seen(s)
           /\ slot'[w] = s => Elements(batch'[w]) \subseteq Seen(s)
<1>. USE DEF lifeVars, callVars, packetVars, bufferVars, ioVars, workVars
<1>1. /\ queue \in [Slots -> Seq(Nat)] /\ sendPackets \in [Slots -> Seq(Nat)]
      /\ batch \in [Workers -> Seq(Nat)] /\ inFlight \in [Slots -> Seq(Seq(Nat))]
      /\ state \in [Slots -> {"free", "live", "closing"}]
      /\ pc \in [Threads -> SenderLabels \cup WorkerLabels] /\ slot \in [Threads -> Slots \cup {NoSlot}]
      /\ w \notin Senders /\ w \in Threads /\ IInv /\ ThreadsOK
      /\ pc[w] = "idle" <=> slot[w] = NoSlot
  BY ChannelTyped, ThreadFacts DEF PInv, IInv, Typed, ThreadsOK, WorkerOK
<1>2. /\ batch[w] # <<>> => pc[w] \in FillLabels
      /\ FlightKept(s) /\ Exclusive(s)
      /\ Elements(queue[s]) \subseteq Seen(s) /\ Elements(sendPackets[s]) \subseteq Seen(s)
      /\ slot[w] = s => Elements(batch[w]) \subseteq Seen(s)
      /\ Elements(<<>>) = {} /\ "idle" \notin FillLabels
  BY <1>1, SeenParts, ExclusiveNow DEF Orderly, BatchesHeld, OneAtATime, Elements, FillLabels
<1>3. slot[w] = s /\ pc[w] \notin {"idle", "close"} => state[s] = "live"
  BY <1>1, Referenced
<1>4. ASSUME UNCHANGED <<queue, sendPackets, inFlight, batch>>, state'[s] = "live" => state[s] = "live",
             batch[w] # <<>> => pc'[w] \in FillLabels, slot[w] = s \/ batch[w] = <<>>
      PROVE  /\ state'[s] = "live" => state[s] = "live"
             /\ batch'[w] # <<>> => pc'[w] \in FillLabels
             /\ FlightKept(s)'
             /\ Elements(queue'[s]) \subseteq Seen(s) /\ Elements(sendPackets'[s]) \subseteq Seen(s)
             /\ slot'[w] = s => Elements(batch'[w]) \subseteq Seen(s)
  BY <1>2, <1>4 DEF FlightKept
<1>5. CASE Gets(w, s)
  <2>1. UNCHANGED <<queue, sendPackets, inFlight, batch, state>> /\ pc[w] = "idle"
    BY <1>5 DEF Gets, GetSendPost, GetRecv, GetSendCompletion, Handle, Step
  <2>. QED  BY <1>2, <1>4, <2>1
<1>6. CASE slot[w] = s /\ (ClearIsSending(w) \/ RecheckSize(w) \/ TrySendPostInCompletion(w)
                           \/ DequeueCount(w) \/ DequeueFails(w))
  <2>1. UNCHANGED <<queue, sendPackets, inFlight, batch, state>>
    BY <1>6 DEF ClearIsSending, RecheckSize, TrySendPostInCompletion, DequeueCount, DequeueFails
  <2>2. pc[w] \in FillLabels => pc'[w] \in FillLabels
    BY <1>1, <1>6 DEF ClearIsSending, RecheckSize, TrySendPostInCompletion, DequeueCount,
       DequeueFails,
                      Step, FillLabels
  <2>. QED  BY <1>2, <1>4, <1>6, <2>1, <2>2
<1>7. CASE slot[w] = s /\ ClearSendPackets(w)
  <2>1. /\ UNCHANGED <<queue, inFlight, batch, state>> /\ sendPackets' = [sendPackets EXCEPT ![s] = <<>>]
        /\ pc[w] = "clear" /\ pc' = [pc EXCEPT ![w] = "flag"] /\ slot' = slot
    BY <1>7 DEF ClearSendPackets, Step
  <2>2. inFlight[s] = <<>> /\ batch[w] = <<>>
    BY <1>2, <1>3, <1>7, <2>1 DEF Exclusive, SendLabels, FillLabels
  <2>. QED  BY <1>1, <1>2, <2>1, <2>2 DEF FlightKept
<1>8. CASE slot[w] = s /\ DequeueTake(w)
  <2>1. /\ UNCHANGED <<sendPackets, inFlight, state>> /\ queue[s] # <<>> /\ slot' = slot
        /\ batch' = [batch EXCEPT ![w] = Append(@, Head(queue[s]))]
        /\ queue' = [queue EXCEPT ![s] = Tail(@)]
        /\ pc' = [pc EXCEPT ![w] = "transmit"] \/ pc' = [pc EXCEPT ![w] = "pop"]
    BY <1>8 DEF DequeueTake, Step
  <2>2. pc'[w] \in FillLabels
    BY <1>1, <2>1 DEF FillLabels
  <2>3. /\ queue[s] \in Seq(Nat) /\ batch[w] \in Seq(Nat) /\ Head(queue[s]) \in Nat
        /\ queue'[s] = Tail(queue[s]) /\ batch'[w] = Append(batch[w], Head(queue[s]))
    BY <1>1, <2>1, SeqFacts
  <2>4. /\ Elements(queue'[s]) \subseteq Elements(queue[s])
        /\ Elements(batch'[w]) \subseteq Elements(batch[w]) \cup Elements(queue[s])
    BY <2>1, <2>3, ElementsOf
  <2>. QED  BY <1>2, <1>8, <2>1, <2>2, <2>4 DEF FlightKept
<1>9. CASE slot[w] = s /\ PostSendingCheck(w)
  <2>1. UNCHANGED <<queue, sendPackets, inFlight, batch, state>> /\ batch[w] = <<>>
    BY <1>9 DEF PostSendingCheck
  <2>. QED  BY <1>4, <2>1
<1>10. CASE slot[w] = s /\ \E accepted \in BOOLEAN : WSASend(w, accepted)
  <2>1. PICK accepted \in BOOLEAN : WSASend(w, accepted)
    BY <1>10
  <2>2. /\ UNCHANGED <<queue, state>> /\ pc[w] = "transmit"
        /\ batch' = [batch EXCEPT ![w] = <<>>]
        /\ sendPackets' = [sendPackets EXCEPT ![s] = batch[w]]
        /\ inFlight' = inFlight \/ inFlight' = [inFlight EXCEPT ![s] = Append(@, batch[w])]
    BY <1>10, <2>1 DEF WSASend, Finish, Step
  <2>3. inFlight[s] = <<>>
    BY <1>2, <1>3, <1>10, <2>2 DEF Exclusive, SendLabels
  <2>4. batch'[w] = <<>> /\ sendPackets'[s] = batch[w]
    BY <1>1, <2>2
  <2>5. FlightKept(s)'
    <3>1. CASE inFlight' = inFlight
      BY <2>3, <3>1 DEF FlightKept
    <3>2. CASE inFlight' = [inFlight EXCEPT ![s] = Append(@, batch[w])]
      <4>1. inFlight'[s] = Append(<<>>, batch[w])
        BY <1>1, <2>3, <3>2
      <4>2. Head(Append(<<>>, batch[w])) = batch[w]
        OBVIOUS
      <4>. QED  BY <2>4, <4>1, <4>2 DEF FlightKept
    <3>. QED  BY <2>2, <3>1, <3>2
  <2>. QED  BY <1>2, <1>10, <2>2, <2>4, <2>5
<1>11. CASE slot[w] = s /\ DecrementIOCount(w)
  <2>1. /\ UNCHANGED <<queue, sendPackets, inFlight, batch>> /\ pc[w] = "dec"
        /\ state' = state \/ state' = [state EXCEPT ![s] = "closing"]
    BY <1>11 DEF DecrementIOCount, Released
  <2>2. batch[w] = <<>> /\ (state'[s] = "live" => state[s] = "live")
    BY <1>1, <1>2, <2>1 DEF FillLabels
  <2>. QED  BY <1>4, <2>1, <2>2
<1>12. CASE slot[w] = s /\ CloseSession(w)
  <2>1. /\ UNCHANGED <<inFlight, batch>> /\ state' = [state EXCEPT ![s] = "free"]
        /\ Emptied(s) /\ pc[w] \in {"close", "closefull"}
    BY <1>1, <1>12 DEF CloseSession
  <2>2. state[s] # "live"
    BY <1>1, <1>12, <2>1, Referenced DEF CloseLabels
  <2>3. inFlight[s] = <<>> /\ batch[w] = <<>>
    BY <1>1, <1>2, <2>1, <2>2, Abandoned DEF FillLabels
  <2>4. queue'[s] = <<>> /\ sendPackets'[s] = <<>>
    <3>1. size[s] = Len(queue[s]) /\ BuffersTyped /\ SessionsTyped
      BY <1>1, <2>2, NobodyAtQueue DEF IInv, Typed
    <3>. QED  BY <1>1, <2>1, <3>1, EmptiedAll
  <2>. QED  BY <1>1, <1>2, <2>1, <2>3, <2>4 DEF FlightKept
<1>. QED  BY <1>5, <1>6, <1>7, <1>8, <1>9, <1>10, <1>11, <1>12 DEF WorkStep, Work

\* A worker brings no packet back.
LEMMA OrderlyByWork ==
    ASSUME PInv, PInv', Orderly, NEW w \in Workers, NEW s \in Slots, WorkStep(w, s)
    PROVE  Orderly'
<1>1. WorkMoves(w, s) /\ IInv /\ w \in Threads /\ NoSlot \notin Slots /\ Workers \subseteq Threads
  BY WorkFrame, ThreadFacts DEF PInv
<1>2. UNCHANGED <<id, todo, packet, handle, nextPacket>>
      /\ \A d \in Senders : pc'[d] = pc[d] /\ slot'[d] = slot[d]
  BY <1>1, SendersStay DEF WorkStep, Gets
<1>3. BatchesHeld'
  BY <1>1, WorkOrder DEF BatchesHeld, WorkMoves, Orderly
<1>4. delivered' \in [Slots -> Seq(Nat)]
  BY <1>1 DEF WorkMoves, Orderly
<1>5. ASSUME NEW r \in Slots PROVE FlightKept(r)'
  <2>1. CASE r = s
    BY <2>1, WorkOrder
  <2>2. CASE r # s
    BY <1>1, <2>2 DEF WorkMoves, FlightKept, Orderly
  <2>. QED  BY <2>1, <2>2
<1>6. ASSUME NEW r \in Slots PROVE NotAgain(r)'
  <2>1. Seen(r)' \subseteq Seen(r)
    <3>1. CASE r = s
      <4>1. /\ Elements(queue'[s]) \subseteq Seen(s) /\ Elements(sendPackets'[s]) \subseteq Seen(s)
            /\ slot'[w] = s => Elements(batch'[w]) \subseteq Seen(s)
        BY WorkOrder
      <4>2. Elements(delivered'[s]) \subseteq Seen(s)
        BY <1>1, SeenParts DEF WorkMoves
      <4>3. \A v \in Workers \ {w} : slot'[v] = s => Elements(batch'[v]) \subseteq Seen(s)
        BY <1>1, SeenParts DEF WorkMoves
      <4>. QED  BY <3>1, <4>1, <4>2, <4>3, SeenKept
    <3>2. CASE r # s
      <4>1. \A v \in Workers : slot'[v] = r => v # w
        BY <1>1, <3>2 DEF WorkMoves
      <4>2. \A v \in Workers : slot'[v] = r => Elements(batch'[v]) \subseteq Seen(r)
        BY <1>1, <4>1, SeenParts DEF WorkMoves
      <4>. QED  BY <1>1, <3>2, <4>2, SeenParts, SeenKept DEF WorkMoves
    <3>. QED  BY <3>1, <3>2
  <2>2. state'[r] = "live" => state[r] = "live"
    BY <1>1, WorkOrder DEF WorkMoves
  <2>3. \A d \in Senders : packet'[d] = packet[d] /\ Unused(d)' = Unused(d)
    BY <1>2 DEF Unused
  <2>4. nextPacket \in Nat /\ nextPacket' = nextPacket /\ id' = id /\ NotAgain(r) /\ Seen(r) \subseteq Nat
    BY <1>2, ChannelTyped DEF Orderly
  <2>. QED  BY <2>1, <2>2, <2>3, <2>4, NotAgainKept
<1>. QED  BY <1>3, <1>4, <1>5, <1>6 DEF Orderly

-----------------------------------------------------------------------------
(* The kernel and the accept thread; the invariant.                        *)

\* Nor does the kernel.
LEMMA OrderlyByKernel ==
    ASSUME PInv, PInv', Orderly, NEW s \in Slots, KernelSends(s) \/ KernelFails(s)
    PROVE  Orderly'
<1>. USE DEF lifeVars, callVars, packetVars, bufferVars, ioVars, workVars
<1>1. /\ sendPackets \in [Slots -> Seq(Nat)] /\ inFlight \in [Slots -> Seq(Seq(Nat))]
      /\ delivered \in [Slots -> Seq(Nat)] /\ nextPacket \in Nat
      /\ \A r \in Slots : Seen(r) \subseteq Nat
  BY ChannelTyped
<1>2. /\ UNCHANGED <<state, id, queue, sendPackets, batch, pc, slot, todo, packet, handle, nextPacket>>
      /\ inFlight[s] # <<>> /\ inFlight' = [inFlight EXCEPT ![s] = Tail(@)]
      /\ \/ delivered' = delivered
         \/ delivered' = [delivered EXCEPT ![s] = @ \o Head(inFlight[s])]
  BY DEF KernelSends, KernelFails
<1>3. Tail(inFlight[s]) = <<>> /\ Head(inFlight[s]) = sendPackets[s]
  <2>1. state[s] = "live" /\ Exclusive(s)
    BY <1>2, Referenced, ExclusiveNow DEF PInv, OneAtATime
  <2>. QED  BY <1>2, <2>1 DEF Exclusive, Orderly, FlightKept
<1>4. BatchesHeld'
  BY <1>2 DEF Orderly, BatchesHeld
<1>5. /\ delivered' \in [Slots -> Seq(Nat)]
      /\ \A r \in Slots \ {s} : delivered'[r] = delivered[r]
      /\ Elements(delivered'[s]) \subseteq Elements(delivered[s]) \cup Elements(sendPackets[s])
  <2>1. /\ delivered[s] \o sendPackets[s] \in Seq(Nat)
        /\ Elements(delivered[s] \o sendPackets[s]) = Elements(delivered[s]) \cup Elements(sendPackets[s])
    <3>1. 0 \in Nat
      OBVIOUS
    <3>. QED  BY <1>1, <3>1, ElementsOf, Cuts
  <2>. QED  BY <1>1, <1>2, <1>3, <2>1
<1>6. ASSUME NEW r \in Slots PROVE FlightKept(r)'
  BY <1>1, <1>2, <1>3 DEF FlightKept, Orderly
<1>7. ASSUME NEW r \in Slots PROVE NotAgain(r)'
  <2>1. Elements(delivered'[r]) \subseteq Seen(r)
    BY <1>5, SeenParts
  <2>2. Seen(r)' \subseteq Seen(r)
    BY <1>2, <2>1, SeenParts, SeenKept
  <2>3. \A d \in Senders : packet'[d] = packet[d] /\ Unused(d)' = Unused(d)
    BY <1>2 DEF Unused
  <2>4. \A d \in Senders : \A p \in Seen(r) :
           p # NoPacket /\ p < nextPacket /\ packet'[d] = p =>
              packet[d] = p /\ Unused(d)' \subseteq Unused(d)
    BY <2>3
  <2>5. nextPacket' \in Nat /\ nextPacket <= nextPacket' /\ NotAgain(r) /\ Seen(r) \subseteq Nat
    BY <1>1, <1>2 DEF Orderly
  <2>6. state'[r] = state[r] /\ id'[r] = id[r]
    BY <1>2
  <2>. QED  BY <1>1, <2>2, <2>4, <2>5, <2>6, NotAgainKept
<1>. QED  BY <1>4, <1>5, <1>6, <1>7 DEF Orderly

\* A new connection starts with an empty channel and a new id.
LEMMA OrderlyByConnect ==
    ASSUME PInv, PInv', Orderly, NEW s \in Slots, Connect(s)
    PROVE  Orderly'
<1>. USE DEF lifeVars, callVars, packetVars, bufferVars, ioVars, workVars
<1>1. /\ delivered \in [Slots -> Seq(Nat)] /\ nextPacket \in Nat /\ id \in [Slots -> Nat]
      /\ state \in [Slots -> {"free", "live", "closing"}]
      /\ \A r \in Slots : Seen(r) \subseteq Nat
  BY ChannelTyped
<1>2. /\ UNCHANGED <<inFlight, batch, pc, slot, todo, packet, handle, nextPacket>>
      /\ state[s] = "free" /\ state' = [state EXCEPT ![s] = "live"] /\ id' = [id EXCEPT ![s] = @ + 1]
      /\ delivered' = [delivered EXCEPT ![s] = <<>>] /\ Emptied(s)
  BY DEF Connect
<1>3. queue' = [queue EXCEPT ![s] = <<>>] /\ sendPackets' = [sendPackets EXCEPT ![s] = <<>>]
  <2>1. size[s] = Len(queue[s]) /\ BuffersTyped /\ SessionsTyped
    BY <1>2, NobodyAtQueue DEF PInv, IInv, Typed
  <2>. QED  BY <1>2, <2>1, EmptiedAll
<1>4. inFlight[s] = <<>> /\ \A w \in Workers : slot[w] # s
  BY <1>2, Abandoned DEF PInv
<1>5. BatchesHeld' /\ delivered' \in [Slots -> Seq(Nat)]
  BY <1>1, <1>2 DEF Orderly, BatchesHeld
<1>6. ASSUME NEW r \in Slots PROVE FlightKept(r)'
  BY <1>2, <1>3, <1>4 DEF FlightKept, Orderly
<1>7. ASSUME NEW r \in Slots PROVE NotAgain(r)'
  <2>1. CASE r = s
    <3>1. queue'[s] = <<>> /\ sendPackets'[s] = <<>> /\ delivered'[s] = <<>>
      BY <1>1, <1>2, <1>3 DEF PInv, IInv, Typed, BuffersTyped
    <3>2. Seen(s)' = {}
      BY <1>2, <1>4, <3>1 DEF Seen, Elements
    <3>3. id'[s] > 0
      BY <1>1, <1>2
    <3>. QED  BY <2>1, <3>2, <3>3 DEF NotAgain
  <2>2. CASE r # s
    <3>1. /\ state'[r] = state[r] /\ id'[r] = id[r] /\ queue'[r] = queue[r]
          /\ sendPackets'[r] = sendPackets[r] /\ delivered'[r] = delivered[r]
      BY <1>2, <1>3, <2>2
    <3>2. Seen(r)' \subseteq Seen(r)
      BY <1>2, <3>1, SeenParts, SeenKept
    <3>3. \A d \in Senders : packet'[d] = packet[d] /\ Unused(d)' = Unused(d)
      BY <1>2 DEF Unused
    <3>4. \A d \in Senders : \A p \in Seen(r) :
             p # NoPacket /\ p < nextPacket /\ packet'[d] = p =>
                packet[d] = p /\ Unused(d)' \subseteq Unused(d)
      BY <3>3
    <3>5. nextPacket' \in Nat /\ nextPacket <= nextPacket' /\ NotAgain(r) /\ Seen(r) \subseteq Nat
      BY <1>1, <1>2 DEF Orderly
    <3>. QED  BY <1>1, <3>1, <3>2, <3>4, <3>5, NotAgainKept
  <2>. QED  BY <2>1, <2>2
<1>. QED  BY <1>5, <1>6, <1>7 DEF Orderly

\* No packet is addressed to the connection that begins.
LEMMA AddressedByConnect ==
    ASSUME PInv, Addressed, NEW s \in Slots, Connect(s)
    PROVE  Addressed'
<1>1. /\ UNCHANGED <<to, pc, slot, todo, packet, handle, nextPacket>>
      /\ state[s] = "free" /\ \A r \in Slots : r # s => id'[r] = id[r]
  BY DEF Connect, callVars
<1>2. ASSUME NEW c \in Senders PROVE CallAddressed(c)'
  <2>1. CallAddressed(c) /\ Unused(c)' = Unused(c)
    BY <1>1 DEF Addressed, Unused
  <2>2. pc[c] \in {"size", "link"} => slot[c] \in Slots /\ slot[c] # s
    BY <1>1, Referenced DEF PInv, HoldLabels
  <2>. QED  BY <1>1, <2>1, <2>2 DEF CallAddressed
<1>. QED  BY <1>1, <1>2 DEF Addressed

\* The invariant of the channel holds initially.
LEMMA InitCInv == Init => CInv
<1>. SUFFICES ASSUME Init PROVE CInv
  OBVIOUS
<1>1. PInv
  BY InitPInv
<1>2. Addressed
  <2>1. ASSUME NEW c \in Senders PROVE CallAddressed(c)
    BY ThreadFacts DEF Init, CallAddressed
  <2>. QED  BY <2>1 DEF Init, Addressed
<1>3. delivered \in [Slots -> Seq(Nat)]
  <2>1. <<>> \in Seq(Nat)
    OBVIOUS
  <2>. QED  BY <2>1 DEF Init
<1>4. Orderly
  BY <1>3 DEF Init, Orderly, BatchesHeld, FlightKept, NotAgain
<1>. QED  BY <1>1, <1>2, <1>4 DEF CInv

\* The actions, by who takes them.
LEMMA NextSteps ==
    ASSUME PInv, [Next]_vars
    PROVE  \/ \E c \in Senders : CallStep(c)
           \/ \E w \in Workers, s \in Slots : WorkStep(w, s)
           \/ \E s \in Slots : KernelSends(s) \/ KernelFails(s)
           \/ \E s \in Slots : Connect(s)
           \/ UNCHANGED vars
<1>1. ASSUME NEW w \in Workers, Work(w) \/ CloseSession(w) PROVE \E s \in Slots : WorkStep(w, s)
  <2>1. pc[w] # "idle"
    <3>1. CASE PostSendingCheck(w) \/ \E accepted \in BOOLEAN : WSASend(w, accepted)
      BY <3>1 DEF PostSendingCheck, WSASend, Finish, Step
    <3>2. CASE CloseSession(w)
      BY <3>2 DEF CloseSession
    <3>. QED  BY <1>1, <3>1, <3>2 DEF Work, ClearSendPackets, ClearIsSending, RecheckSize,
           TrySendPostInCompletion, DequeueCount, DequeueFails, DequeueTake, DecrementIOCount, Step
  <2>2. slot[w] \in Slots
    BY <2>1, Busy DEF PInv, IInv, Typed
  <2>. QED  BY <1>1, <2>1, <2>2 DEF WorkStep
<1>. QED  BY <1>1 DEF Next, Threads, CallStep, WorkStep, Gets

\* The invariant of the channel is kept by every step.
LEMMA CInvStep ==
    ASSUME CInv, PInv', [Next]_vars
    PROVE  CInv'
<1>1. PInv /\ Addressed /\ Orderly /\ IInv /\ CallsOK /\ IInv' /\ CallsOK'
  BY DEF CInv, PInv
<1>2. ASSUME NEW c \in Senders, CallStep(c) PROVE CInv'
  <2>1. CallMoves(c) /\ (Keeps(c) \/ Allots(c)) /\ Aims(c)
    BY <1>1, <1>2, CallEffect DEF Addressed
  <2>. QED  BY <1>1, <1>2, <2>1, AddressedByCall, OrderlyByCall DEF CInv
<1>3. ASSUME UNCHANGED <<id, todo, packet, handle, nextPacket, to>>,
             \A d \in Senders : pc'[d] = pc[d] /\ slot'[d] = slot[d]
      PROVE  Addressed'
  <2>1. ASSUME NEW c \in Senders PROVE CallAddressed(c)'
    BY <1>1, <1>3 DEF Addressed, CallAddressed, Unused
  <2>. QED  BY <1>1, <1>3, <2>1 DEF Addressed
<1>4. ASSUME NEW w \in Workers, NEW s \in Slots, WorkStep(w, s) PROVE CInv'
  <2>1. Addressed'
    BY <1>1, <1>3, <1>4, SendersStay DEF WorkStep, Gets
  <2>. QED  BY <1>1, <1>4, <2>1, OrderlyByWork DEF CInv
<1>5. ASSUME NEW s \in Slots, KernelSends(s) \/ KernelFails(s) PROVE CInv'
  <2>1. Addressed'
    BY <1>1, <1>3, <1>5, SendersStay
  <2>. QED  BY <1>1, <1>5, <2>1, OrderlyByKernel DEF CInv
<1>6. ASSUME NEW s \in Slots, Connect(s) PROVE CInv'
  BY <1>1, <1>6, OrderlyByConnect, AddressedByConnect DEF CInv
<1>7. ASSUME UNCHANGED vars PROVE CInv'
  <2>1. Addressed'
    BY <1>1, <1>3, <1>7, SendersStay
  <2>2. Orderly'
    <3>1. UNCHANGED <<state, id, queue, sendPackets, inFlight, batch, delivered, pc, slot, todo, packet,
                      handle, nextPacket>>
      BY <1>7 DEF vars, lifeVars, bufferVars, ioVars, packetVars, callVars, workVars
    <3>2. ASSUME NEW s \in Slots PROVE NotAgain(s)'
      <4>1. Seen(s)' = Seen(s) /\ \A c \in Senders : Unused(c)' = Unused(c)
        BY <3>1 DEF Seen, Unused
      <4>. QED  BY <1>1, <3>1, <4>1 DEF Orderly, NotAgain
    <3>. QED  BY <1>1, <3>1, <3>2 DEF Orderly, BatchesHeld, FlightKept
  <2>. QED  BY <2>1, <2>2 DEF CInv
<1>. QED  BY <1>1, <1>2, <1>4, <1>5, <1>6, <1>7, NextSteps

-----------------------------------------------------------------------------
(* Workers only move packets inside the channel.                           *)

\* The channels of the other sessions are not touched.
LEMMA WorkElsewhere ==
    ASSUME CInv, CInv', NEW w \in Workers, NEW s \in Slots, WorkStep(w, s), NEW r \in Slots \ {s}
    PROVE  Pending(r)' = Pending(r)
<1>1. WorkMoves(w, s) /\ Workers \subseteq Threads /\ NoSlot \notin Slots
  BY WorkFrame, ThreadFacts DEF CInv
<1>2. \A v \in Workers : /\ Fills(v, r)' <=> Fills(v, r)
                         /\ Clears(v, r)' <=> Clears(v, r)
                         /\ Fills(v, r) => batch'[v] = batch[v]
  BY <1>1 DEF WorkMoves, Fills, Clears
<1>. QED  BY <1>1, <1>2, PendingSame DEF WorkMoves

\* A worker moves packets from the queue to its hands, to m_sendPackets and into
\* the completion: the channel of its session holds the same.
LEMMA WorkPending ==
    ASSUME CInv, CInv', NEW w \in Workers, NEW s \in Slots, WorkStep(w, s), state'[s] = "live"
    PROVE  Pending(s)' = Pending(s)
<1>. USE DEF lifeVars, callVars, packetVars, bufferVars, ioVars, workVars
<1>1. /\ PInv /\ Orderly /\ IInv /\ ThreadsOK /\ NothingKept(s) /\ Exclusive(s)
      /\ PendingIs(s) /\ PendingIs(s)' /\ WorkMoves(w, s)
  BY PendingNow, PendingNext, WorkFrame, ExclusiveNow DEF CInv, PInv, IInv, Typed, PendingKnown,
     OneAtATime
<1>2. /\ queue \in [Slots -> Seq(Nat)] /\ sendPackets \in [Slots -> Seq(Nat)]
      /\ batch \in [Workers -> Seq(Nat)] /\ posted \in [Slots -> [Completions -> Nat]]
      /\ pc \in [Threads -> SenderLabels \cup WorkerLabels] /\ slot \in [Threads -> Slots \cup {NoSlot}]
      /\ w \notin Senders /\ w \in Threads /\ Workers \subseteq Threads
  BY <1>1, ChannelTyped, ThreadFacts
<1>3. state[s] = "live"
  BY <1>1, WorkOrder DEF CInv
<1>21. batch[w] # <<>> => pc[w] \in FillLabels
  BY <1>1 DEF Orderly, BatchesHeld
<1>4. /\ "sent" \in Completions /\ FillLabels \subseteq SendLabels /\ "clear" \in SendLabels
      /\ "clear" \notin FillLabels /\ FillLabels \subseteq PostLabels
      /\ \A f \in Seq(Nat) : <<>> \o f = f
      /\ NoSlot \notin Slots
  BY ConcatEmptySeq, ThreadFacts DEF Completions, FillLabels, SendLabels, PostLabels
<1>5. \A v \in Workers \ {w} : /\ Fills(v, s)' <=> Fills(v, s)
                               /\ Clears(v, s)' <=> Clears(v, s)
                               /\ batch'[v] = batch[v]
  BY <1>1, <1>2 DEF WorkMoves, Fills, Clears
<1>6. ASSUME UNCHANGED <<queue, sendPackets, batch>>, posted'[s]["sent"] = posted[s]["sent"],
             Fills(w, s)' <=> Fills(w, s), Clears(w, s)' <=> Clears(w, s)
      PROVE  Pending(s)' = Pending(s)
  <2>1. \A v \in Workers : /\ Fills(v, s)' <=> Fills(v, s)
                           /\ Clears(v, s)' <=> Clears(v, s)
                           /\ Fills(v, s) => batch'[v] = batch[v]
    BY <1>5, <1>6
  <2>. QED  BY <1>3, <1>6, <2>1, PendingSame
<1>7. ASSUME slot[w] = s, pc[w] \in SendLabels
      PROVE  /\ posted[s]["sent"] = 0
             /\ \A v \in Workers \ {w} : ~Fills(v, s) /\ ~Clears(v, s)
  BY <1>1, <1>4, <1>3, <1>7 DEF Exclusive, Fills, Clears
<1>8. ASSUME NEW k \in Completions, posted[s][k] > 0
      PROVE  /\ \A v \in Workers : ~Fills(v, s) /\ ~Clears(v, s)
             /\ k # "sent" => posted[s]["sent"] = 0
  BY <1>1, <1>4, <1>3, <1>8 DEF Exclusive, Fills, Clears
<1>9. ASSUME slot[w] = s, pc[w] \in PostLabels PROVE sendPackets[s] = <<>>
  BY <1>1, <1>2, <1>9 DEF NothingKept, Ready, At
<1>10. CASE GetSendPost(w, s)
  <2>1. /\ UNCHANGED <<queue, sendPackets, batch>> /\ posted[s]["sendpost"] > 0
        /\ pc[w] = "idle" /\ pc' = [pc EXCEPT ![w] = "pop"] /\ slot' = [slot EXCEPT ![w] = s]
    BY <1>10 DEF GetSendPost, Handle, Step
  <2>2. /\ \A v \in Workers : ~Fills(v, s) /\ ~Clears(v, s)
        /\ posted[s]["sent"] = 0
    BY <1>8, <2>1 DEF Completions
  <2>3. sendPackets[s] = <<>> /\ batch[w] = <<>>
    BY <1>1, <1>21, <2>1 DEF NothingKept, Ready, FillLabels
  <2>4. Pending(s) = <<>> \o queue[s]
    BY <1>1, <1>3, <2>2, <2>3 DEF PendingIs
  <2>5. Fills(w, s)'
    BY <1>2, <2>1 DEF Fills, FillLabels
  <2>6. Pending(s)' = batch'[w] \o queue'[s]
    BY <1>1, <2>5 DEF PendingIs
  <2>. QED  BY <2>1, <2>3, <2>4, <2>6
<1>11. ASSUME NEW kind \in Kinds, GetSendCompletion(w, s, kind) PROVE Pending(s)' = Pending(s)
  <2>1. /\ UNCHANGED <<queue, sendPackets, batch>> /\ posted[s][kind] > 0 /\ Taken(s, kind)
        /\ pc[w] = "idle" /\ slot' = [slot EXCEPT ![w] = s]
        /\ kind = "sent" => pc' = [pc EXCEPT ![w] = "clear"]
        /\ kind = "check" => pc' = [pc EXCEPT ![w] = "flag"]
        /\ kind = "zero" => pc' = [pc EXCEPT ![w] = "dec"]
    BY <1>11 DEF GetSendCompletion, Handle, Step
  <2>2. CASE kind = "sent"
    <3>1. Pending(s) = queue[s]
      BY <1>1, <1>3, <2>1, <2>2 DEF PendingIs
    <3>2. Clears(w, s)'
      BY <1>2, <2>1, <2>2 DEF Clears
    <3>3. Pending(s)' = queue'[s]
      BY <1>1, <3>2 DEF PendingIs
    <3>. QED  BY <2>1, <3>1, <3>3
  <2>3. CASE kind \in {"zero", "check"}
    <3>1. kind \in Completions /\ kind # "sent"
      BY <2>3 DEF Completions
    <3>2. posted'[s]["sent"] = posted[s]["sent"]
      BY <1>2, <1>4, <2>1, <3>1, PostMoves
    <3>3. ~Fills(w, s) /\ ~Clears(w, s) /\ ~Fills(w, s)' /\ ~Clears(w, s)'
      BY <1>2, <2>1, <2>3 DEF Fills, Clears, FillLabels
    <3>. QED  BY <1>6, <2>1, <3>2, <3>3
  <2>. QED  BY <2>2, <2>3 DEF Kinds
<1>12. CASE GetRecv(w, s)
  <2>1. /\ UNCHANGED <<queue, sendPackets, batch, posted>>
        /\ pc[w] = "idle" /\ pc' = [pc EXCEPT ![w] = "dec"]
    BY <1>12 DEF GetRecv, Handle, Step
  <2>2. ~Fills(w, s) /\ ~Clears(w, s) /\ ~Fills(w, s)' /\ ~Clears(w, s)'
    BY <1>2, <2>1 DEF Fills, Clears, FillLabels
  <2>. QED  BY <1>6, <2>1, <2>2
<1>13. CASE slot[w] = s /\ ClearSendPackets(w)
  <2>1. /\ UNCHANGED <<queue, posted, slot>> /\ sendPackets' = [sendPackets EXCEPT ![s] = <<>>]
        /\ pc[w] = "clear" /\ pc' = [pc EXCEPT ![w] = "flag"]
    BY <1>13 DEF ClearSendPackets, Step
  <2>2. Clears(w, s) /\ ~Fills(w, s)' /\ ~Clears(w, s)'
    BY <1>2, <1>13, <2>1 DEF Fills, Clears, FillLabels
  <2>3. Pending(s) = queue[s]
    BY <1>1, <1>3, <2>2 DEF PendingIs
  <2>4. posted'[s]["sent"] = 0 /\ \A v \in Workers : ~Fills(v, s)' /\ ~Clears(v, s)'
    BY <1>4, <1>5, <1>7, <1>13, <2>1, <2>2
  <2>5. Pending(s)' = sendPackets'[s] \o queue'[s]
    BY <1>1, <2>4 DEF PendingIs
  <2>6. sendPackets'[s] = <<>>
    BY <1>2, <2>1
  <2>. QED  BY <1>2, <1>4, <2>1, <2>3, <2>5, <2>6
<1>14. CASE slot[w] = s /\ (ClearIsSending(w) \/ RecheckSize(w) \/ DequeueCount(w) \/ DequeueFails(w))
  <2>1. UNCHANGED <<queue, sendPackets, batch, posted, slot>>
    BY <1>14 DEF ClearIsSending, RecheckSize, DequeueCount, DequeueFails
  <2>2. /\ pc[w] \in FillLabels <=> pc'[w] \in FillLabels
        /\ pc[w] # "clear" /\ pc'[w] # "clear"
    BY <1>2, <1>14 DEF ClearIsSending, RecheckSize, DequeueCount, DequeueFails, Step, FillLabels
  <2>. QED  BY <1>6, <2>1, <2>2 DEF Fills, Clears
<1>15. CASE slot[w] = s /\ TrySendPostInCompletion(w)
  <2>1. UNCHANGED <<queue, sendPackets, batch, posted, slot>> /\ pc[w] = "again"
    BY <1>15 DEF TrySendPostInCompletion
  <2>2. CASE isSending[s]
    <3>1. pc' = [pc EXCEPT ![w] = "dec"]
      BY <1>15, <2>2 DEF TrySendPostInCompletion, Step
    <3>2. ~Fills(w, s) /\ ~Clears(w, s) /\ ~Fills(w, s)' /\ ~Clears(w, s)'
      BY <1>2, <2>1, <3>1 DEF Fills, Clears, FillLabels
    <3>. QED  BY <1>6, <2>1, <3>2
  <2>3. CASE ~isSending[s]
    <3>1. pc' = [pc EXCEPT ![w] = "pop"]
      BY <1>15, <2>3 DEF TrySendPostInCompletion, Step
    <3>2. posted[s]["sent"] = 0 /\ \A v \in Workers : ~Fills(v, s) /\ ~Clears(v, s)
      BY <1>1, <1>4, <1>3, <2>3 DEF Exclusive, Fills, Clears
    <3>3. sendPackets[s] = <<>> /\ batch[w] = <<>>
      BY <1>1, <1>3, <1>21, <2>1, <2>3 DEF NothingKept, Ready, FillLabels
    <3>4. Pending(s) = <<>> \o queue[s]
      BY <1>1, <1>3, <3>2, <3>3 DEF PendingIs
    <3>5. Fills(w, s)'
      BY <1>2, <1>15, <2>1, <3>1 DEF Fills, FillLabels
    <3>6. Pending(s)' = batch'[w] \o queue'[s]
      BY <1>1, <3>5 DEF PendingIs
    <3>. QED  BY <2>1, <3>3, <3>4, <3>6
  <2>. QED  BY <2>2, <2>3
<1>16. CASE slot[w] = s /\ DequeueTake(w)
  <2>1. /\ queue[s] # <<>> /\ slot' = slot /\ pc[w] = "take"
        /\ batch' = [batch EXCEPT ![w] = Append(@, Head(queue[s]))]
        /\ queue' = [queue EXCEPT ![s] = Tail(@)]
        /\ pc' = [pc EXCEPT ![w] = "transmit"] \/ pc' = [pc EXCEPT ![w] = "pop"]
    BY <1>16 DEF DequeueTake, Step
  <2>2. Fills(w, s) /\ Fills(w, s)'
    BY <1>2, <1>16, <2>1 DEF Fills, FillLabels
  <2>3. Pending(s) = batch[w] \o queue[s]
    BY <1>1, <1>3, <2>2 DEF PendingIs
  <2>4. Pending(s)' = batch'[w] \o queue'[s]
    BY <1>1, <2>2 DEF PendingIs
  <2>5. batch'[w] = Append(batch[w], Head(queue[s])) /\ queue'[s] = Tail(queue[s])
    BY <1>2, <2>1
  <2>6. Append(batch[w], Head(queue[s])) \o Tail(queue[s]) = batch[w] \o queue[s]
    BY <1>2, <2>1, Cuts, SMTT(30)
  <2>. QED  BY <2>3, <2>4, <2>5, <2>6
<1>17. CASE slot[w] = s /\ PostSendingCheck(w)
  <2>1. /\ UNCHANGED <<queue, sendPackets, batch>> /\ batch[w] = <<>> /\ Post(s, "check")
        /\ \E n : Finish(w, "transmit", n)
    BY <1>17 DEF PostSendingCheck
  <2>2. pc[w] = "transmit" /\ pc'[w] \in {"idle", "dec"}
    BY <1>1, <1>17, <2>1, FinishMoves
  <2>3. Fills(w, s) /\ ~Fills(w, s)' /\ ~Clears(w, s)'
    BY <1>17, <2>2 DEF Fills, Clears, FillLabels
  <2>4. Pending(s) = <<>> \o queue[s]
    BY <1>1, <1>3, <2>1, <2>3 DEF PendingIs
  <2>5. posted[s]["sent"] = 0 /\ \A v \in Workers : ~Fills(v, s)' /\ ~Clears(v, s)'
    BY <1>4, <1>5, <1>7, <1>17, <2>3 DEF Fills
  <2>6. posted'[s]["sent"] = 0
    BY <1>2, <1>4, <2>1, <2>5, PostMoves DEF Completions
  <2>7. Pending(s)' = sendPackets'[s] \o queue'[s]
    BY <1>1, <2>5, <2>6 DEF PendingIs
  <2>8. sendPackets[s] = <<>>
    BY <1>4, <1>9, <1>17, <2>3 DEF Fills
  <2>. QED  BY <2>1, <2>4, <2>7, <2>8
<1>18. CASE slot[w] = s /\ \E accepted \in BOOLEAN : WSASend(w, accepted)
  <2>1. PICK accepted \in BOOLEAN : WSASend(w, accepted)
    BY <1>18
  <2>2. /\ UNCHANGED <<queue, posted>> /\ sendPackets' = [sendPackets EXCEPT ![s] = batch[w]]
        /\ \E n : Finish(w, "transmit", n)
    BY <1>18, <2>1 DEF WSASend
  <2>3. pc[w] = "transmit" /\ pc'[w] \in {"idle", "dec"}
    BY <1>1, <1>18, <2>2, FinishMoves
  <2>4. Fills(w, s) /\ ~Fills(w, s)' /\ ~Clears(w, s)'
    BY <1>18, <2>3 DEF Fills, Clears, FillLabels
  <2>5. Pending(s) = batch[w] \o queue[s]
    BY <1>1, <1>3, <2>4 DEF PendingIs
  <2>6. posted'[s]["sent"] = 0 /\ \A v \in Workers : ~Fills(v, s)' /\ ~Clears(v, s)'
    BY <1>4, <1>5, <1>7, <1>18, <2>2, <2>4 DEF Fills
  <2>7. Pending(s)' = sendPackets'[s] \o queue'[s]
    BY <1>1, <2>6 DEF PendingIs
  <2>8. sendPackets'[s] = batch[w]
    BY <1>2, <2>2
  <2>. QED  BY <2>2, <2>5, <2>7, <2>8
<1>19. CASE slot[w] = s /\ DecrementIOCount(w)
  <2>1. UNCHANGED <<queue, sendPackets, batch, posted>> /\ pc[w] = "dec"
    BY <1>19 DEF DecrementIOCount
  <2>2. pc'[w] \notin FillLabels /\ pc'[w] # "clear"
    <3>1. \/ pc' = [pc EXCEPT ![w] = "close"]
          \/ \E n : Finish(w, "dec", n)
      BY <1>19 DEF DecrementIOCount, Step
    <3>. QED  BY <1>1, <1>2, <1>19, <3>1, FinishMoves, ZenonT(60) DEF FillLabels
  <2>3. ~Fills(w, s) /\ ~Clears(w, s) /\ ~Fills(w, s)' /\ ~Clears(w, s)'
    BY <2>1, <2>2 DEF Fills, Clears, FillLabels
  <2>. QED  BY <1>6, <2>1, <2>3
<1>20. CASE slot[w] = s /\ CloseSession(w)
  BY <1>20, <1>1 DEF CloseSession, IInv, Typed, SessionsTyped
<1>. QED  BY <1>10, <1>11, <1>12, <1>13, <1>14, <1>15, <1>16, <1>17, <1>18, <1>19, <1>20
          DEF WorkStep, Work, Gets

-----------------------------------------------------------------------------
(* The steps of the channel.                                               *)

\* The id of the connection of s, 0 if there is none.
Conn(s) == IF state[s] = "live" THEN id[s] ELSE 0

SameChannel(r) == Conn(r)' = Conn(r) /\ Pending(r)' = Pending(r)

\* From facts about one slot at a time to the actions of SendChannel.
LEMMA Stutters ==
    ASSUME UNCHANGED <<to, delivered>>, \A r \in Slots : SameChannel(r)
    PROVE  UNCHANGED Channel!channelVars
BY DEF Channel!channelVars, SameChannel, Conn

LEMMA Opens ==
    ASSUME NEW s \in Slots, \A r \in Slots \ {s} : SameChannel(r),
           Conn(s) = 0, Conn(s)' > 0, Pending(s)' = Pending(s),
           delivered' = [delivered EXCEPT ![s] = <<>>], UNCHANGED to
    PROVE  Channel!Open(s)
<1>1. \A r \in Slots : Pending(r)' = Pending(r)
  BY DEF SameChannel
<1>2. UNCHANGED [r \in Slots |-> Pending(r)]
  BY <1>1
<1>3. [r \in Slots |-> Conn(r)]' = [[r \in Slots |-> Conn(r)] EXCEPT ![s] = Conn(s)']
  BY DEF SameChannel
<1>. QED  BY <1>2, <1>3 DEF Channel!Open, Conn

LEMMA Closes ==
    ASSUME NEW s \in Slots, \A r \in Slots \ {s} : SameChannel(r),
           Conn(s) > 0, Conn(s)' = 0, Pending(s)' = <<>>, UNCHANGED <<to, delivered>>
    PROVE  Channel!Close(s)
BY DEF Channel!Close, SameChannel, Conn

LEMMA Addresses ==
    ASSUME NEW p, to[p] = {}, to' = [to EXCEPT ![p] = to'[p]],
           \A r \in Slots : SameChannel(r), UNCHANGED delivered
    PROVE  Channel!Address(p)
BY DEF Channel!Address, SameChannel, Conn

LEMMA Appends ==
    ASSUME NEW s \in Slots, NEW p, \A r \in Slots \ {s} : SameChannel(r),
           Conn(s)' = Conn(s), <<s, Conn(s)>> \in to[p],
           p \notin Elements(Pending(s)) \cup Elements(delivered[s]),
           Pending(s)' = Append(Pending(s), p), UNCHANGED <<to, delivered>>
    PROVE  Channel!Append1(s, p)
<1>1. <<s, IF state[s] = "live" THEN id[s] ELSE 0>> \in to[p]
  BY DEF Conn
<1>2. p \notin Channel!Elements(Pending(s)) \cup Channel!Elements(delivered[s])
  BY DEF Elements, Channel!Elements
<1>. QED  BY <1>1, <1>2 DEF Channel!Append1, SameChannel, Conn

LEMMA Delivers ==
    ASSUME NEW s \in Slots, \A r \in Slots \ {s} : SameChannel(r),
           Conn(s) > 0, Conn(s)' = Conn(s), NEW n \in 1..Len(Pending(s)),
           delivered' = [delivered EXCEPT ![s] = @ \o SubSeq(Pending(s), 1, n)],
           Pending(s)' = SubSeq(Pending(s), n + 1, Len(Pending(s))), UNCHANGED to
    PROVE  Channel!Deliver(s)
BY DEF Channel!Deliver, SameChannel, Conn

\* What the channel holds has been seen.
LEMMA PendingSeen ==
    ASSUME CInv, NEW s \in Slots
    PROVE  Pending(s) \in Seq(Nat) /\ Elements(Pending(s)) \subseteq Seen(s)
<1>1. /\ queue[s] \in Seq(Nat) /\ sendPackets[s] \in Seq(Nat)
      /\ \A w \in Workers : batch[w] \in Seq(Nat)
      /\ posted[s]["sent"] \in Nat /\ 0 \in Nat
  BY ChannelTyped DEF CInv, Completions
<1>2. PendingIs(s)
  BY PendingNow DEF PendingKnown
<1>3. /\ Elements(queue[s]) \subseteq Seen(s) /\ Elements(sendPackets[s]) \subseteq Seen(s)
      /\ \A w \in Workers : slot[w] = s => Elements(batch[w]) \subseteq Seen(s)
  BY SeenParts
<1>4. \A f, g \in Seq(Nat) : f \o g \in Seq(Nat) /\ Elements(f \o g) = Elements(f) \cup Elements(g)
  BY <1>1, ElementsOf, Cuts
<1>5. Elements(<<>>) = {} /\ <<>> \in Seq(Nat)
  BY <1>1, ElementsOf
<1>6. CASE state[s] # "live"
  BY <1>2, <1>5, <1>6 DEF PendingIs
<1>7. CASE state[s] = "live" /\ \E w \in Workers : Fills(w, s)
  <2>1. PICK w \in Workers : Fills(w, s)
    BY <1>7
  <2>2. Pending(s) = batch[w] \o queue[s] /\ slot[w] = s
    BY <1>2, <1>7, <2>1 DEF PendingIs, Fills
  <2>. QED  BY <1>1, <1>3, <1>4, <2>2
<1>8. CASE state[s] = "live" /\ (posted[s]["sent"] > 0 \/ \E w \in Workers : Clears(w, s))
  <2>1. Pending(s) = queue[s]
    BY <1>2, <1>8 DEF PendingIs
  <2>. QED  BY <1>1, <1>3, <2>1
<1>9. CASE state[s] = "live" /\ posted[s]["sent"] = 0 /\ \A w \in Workers : ~Fills(w, s) /\ ~Clears(w, s)
  <2>1. Pending(s) = sendPackets[s] \o queue[s]
    BY <1>2, <1>9 DEF PendingIs
  <2>. QED  BY <1>1, <1>3, <1>4, <2>1
<1>. QED  BY <1>1, <1>6, <1>7, <1>8, <1>9

\* A live session has a connection.
LEMMA ConnOpen ==
    ASSUME CInv, NEW s \in Slots, state[s] = "live"
    PROVE  Conn(s) = id[s] /\ Conn(s) > 0
BY DEF CInv, Orderly, NotAgain, Conn

\* A worker's step is a stutter, or closes the connection.
LEMMA WorkRefines ==
    ASSUME CInv, CInv', NEW w \in Workers, NEW s \in Slots, WorkStep(w, s)
    PROVE  [Channel!Next]_(Channel!channelVars)
<1>1. UNCHANGED <<id, to>>
  <2>1. IInv
    BY DEF CInv, PInv
  <2>. QED  BY <2>1, SendersStay DEF WorkStep, Gets
<1>2. WorkMoves(w, s) /\ (state'[s] = "live" => state[s] = "live")
  BY WorkFrame, WorkOrder DEF CInv
<1>3. \A r \in Slots \ {s} : SameChannel(r)
  BY <1>1, <1>2, WorkElsewhere DEF SameChannel, Conn, WorkMoves
<1>4. UNCHANGED delivered
  BY <1>2 DEF WorkMoves
<1>5. CASE state'[s] = "live" \/ state[s] # "live"
  <2>1. Pending(s)' = Pending(s)
    <3>1. CASE state'[s] = "live"
      BY <3>1, WorkPending
    <3>2. CASE state[s] # "live"
      BY <1>2, <3>2 DEF Pending
    <3>. QED  BY <1>5, <3>1, <3>2
  <2>2. SameChannel(s)
    BY <1>1, <1>2, <1>5, <2>1 DEF SameChannel, Conn
  <2>3. \A r \in Slots : SameChannel(r)
    BY <1>3, <2>2
  <2>. QED  BY <1>1, <1>4, <2>3, Stutters
<1>6. CASE state'[s] # "live" /\ state[s] = "live"
  <2>1. Conn(s) > 0 /\ Conn(s)' = 0 /\ Pending(s)' = <<>>
    BY <1>6, ConnOpen DEF Conn, Pending
  <2>2. Channel!Close(s)
    BY <1>1, <1>3, <1>4, <2>1, Closes
  <2>. QED  BY <2>2 DEF Channel!Next
<1>. QED  BY <1>5, <1>6

\* A call changes the channel of a session by its Enqueue or by the end of it only.
LEMMA CallPending ==
    ASSUME CInv, CInv', NEW c \in Senders, CallStep(c), NEW s \in Slots,
           state'[s] = "live" <=> state[s] = "live", queue'[s] = queue[s]
    PROVE  Pending(s)' = Pending(s)
<1>1. CASE state[s] # "live"
  BY <1>1 DEF Pending
<1>2. CASE state[s] = "live"
  <2>1. /\ UNCHANGED batch /\ sendPackets'[s] = sendPackets[s]
        /\ posted'[s]["sent"] = posted[s]["sent"]
    BY <1>2, CallFrame DEF CInv
  <2>2. CallMoves(c)
    BY CallEffect DEF CInv, PInv, Addressed
  <2>3. \A w \in Workers : w \in Threads \ {c}
    BY ThreadFacts
  <2>4. \A w \in Workers : /\ Fills(w, s)' <=> Fills(w, s)
                           /\ Clears(w, s)' <=> Clears(w, s)
                           /\ Fills(w, s) => batch'[w] = batch[w]
    BY <2>1, <2>2, <2>3 DEF CallMoves, Fills, Clears
  <2>. QED  BY <1>2, <2>1, <2>4, PendingSame
<1>. QED  BY <1>1, <1>2

\* Appending to the second of two sequences.
LEMMA AppendToCat ==
    ASSUME NEW f \in Seq(Nat), NEW g \in Seq(Nat), NEW n \in Nat
    PROVE  f \o Append(g, n) = Append(f \o g, n)
<1>1. /\ <<n>> \in Seq(Nat) /\ f \o g \in Seq(Nat)
      /\ Append(g, n) = g \o <<n>> /\ Append(f \o g, n) = (f \o g) \o <<n>>
  BY Cuts, AppendIsConcat
<1>2. ASSUME NEW h \in Seq(Nat) PROVE (f \o g) \o h = f \o (g \o h)
  BY ConcatAssociative, SMTT(30)
<1>3. (f \o g) \o <<n>> = f \o (g \o <<n>>)
  BY <1>1, <1>2
<1>. QED  BY <1>1, <1>3, Zenon

\* The node Enqueue links is the last packet of the channel.
LEMMA LinkPending ==
    ASSUME CInv, CInv', NEW c \in Senders, EnqueueLink(c), NEW s \in Slots, slot[c] = s,
           state[s] = "live"
    PROVE  Pending(s)' = Append(Pending(s), packet[c])
<1>. USE DEF lifeVars, callVars, packetVars, bufferVars, ioVars, workVars
<1>1. /\ queue \in [Slots -> Seq(Nat)] /\ sendPackets[s] \in Seq(Nat)
      /\ \A w \in Workers : batch[w] \in Seq(Nat)
      /\ posted[s]["sent"] \in Nat /\ packet[c] \in Nat /\ pc \in [Threads -> SenderLabels \cup WorkerLabels]
  BY ChannelTyped DEF CInv, Completions
<1>2. PendingIs(s) /\ PendingIs(s)'
  BY PendingNow, PendingNext DEF PendingKnown
<1>3. /\ UNCHANGED <<state, slot, batch, sendPackets, posted>> /\ queue'[s] = Append(queue[s], packet[c])
      /\ pc' = [pc EXCEPT ![c] = "count"]
  BY <1>1 DEF EnqueueLink, Step
<1>4. \A w \in Workers : pc'[w] = pc[w]
  BY <1>1, <1>3, ThreadFacts
<1>5. \A w \in Workers : (Fills(w, s)' <=> Fills(w, s)) /\ (Clears(w, s)' <=> Clears(w, s))
  BY <1>3, <1>4 DEF Fills, Clears
<1>6. CASE \E w \in Workers : Fills(w, s)
  <2>1. PICK w \in Workers : Fills(w, s)
    BY <1>6
  <2>2. Fills(w, s)' /\ state'[s] = "live"
    BY <1>3, <1>5, <2>1
  <2>3. Pending(s) = batch[w] \o queue[s] /\ Pending(s)' = batch'[w] \o queue'[s]
    BY <1>2, <2>1, <2>2 DEF PendingIs
  <2>4. batch[w] \in Seq(Nat) /\ queue[s] \in Seq(Nat)
    BY <1>1
  <2>5. batch[w] \o Append(queue[s], packet[c]) = Append(batch[w] \o queue[s], packet[c])
    BY <1>1, <2>4, AppendToCat
  <2>. QED  BY <1>3, <2>3, <2>5
<1>7. CASE posted[s]["sent"] > 0 \/ \E w \in Workers : Clears(w, s)
  <2>1. state'[s] = "live" /\ (posted'[s]["sent"] > 0 \/ \E w \in Workers : Clears(w, s)')
    BY <1>3, <1>5, <1>7
  <2>2. Pending(s) = queue[s] /\ Pending(s)' = queue'[s]
    BY <1>2, <1>7, <2>1 DEF PendingIs
  <2>. QED  BY <1>3, <2>2
<1>8. CASE posted[s]["sent"] = 0 /\ \A w \in Workers : ~Fills(w, s) /\ ~Clears(w, s)
  <2>1. /\ state'[s] = "live" /\ posted'[s]["sent"] = 0
        /\ \A w \in Workers : ~Fills(w, s)' /\ ~Clears(w, s)'
    BY <1>3, <1>5, <1>8
  <2>2. /\ Pending(s) = sendPackets[s] \o queue[s]
        /\ Pending(s)' = sendPackets'[s] \o queue'[s]
    BY <1>2, <1>8, <2>1 DEF PendingIs
  <2>3. sendPackets[s] \o Append(queue[s], packet[c]) = Append(sendPackets[s] \o queue[s], packet[c])
    BY <1>1, AppendToCat, ZenonT(60)
  <2>. QED  BY <1>3, <2>2, <2>3
<1>. QED  BY <1>1, <1>6, <1>7, <1>8

\* EnqueueLink is Append1.
LEMMA LinkRefines ==
    ASSUME CInv, CInv', NEW c \in Senders, EnqueueLink(c)
    PROVE  [Channel!Next]_(Channel!channelVars)
<1>. USE DEF lifeVars, callVars, packetVars, bufferVars, ioVars, workVars
<1>. PICK s, p : s = slot[c] /\ p = packet[c]
  OBVIOUS
<1>1. /\ UNCHANGED <<state, id, to, delivered>> /\ queue' = [queue EXCEPT ![s] = Append(@, p)]
      /\ pc[c] = "link" /\ CallStep(c)
  BY DEF EnqueueLink, Step, CallStep, Send
<1>2. s \in Slots /\ state[s] = "live"
  BY <1>1, Referenced DEF CInv, PInv, HoldLabels
<1>3. p \in Packets
  <2>1. Cardinality(Waiting) \in Nat
    <3>1. Waiting \subseteq Threads
      BY ThreadFacts DEF Waiting
    <3>. QED  BY <3>1, ThreadSets
  <2>2. /\ nextPacket + Cardinality(Waiting) <= MaxPackets + 1 /\ p < nextPacket
        /\ nextPacket \in Nat /\ p \in Nat \ {0} /\ MaxPackets \in Nat
    BY <1>1, ChannelTyped, SendBoundsAssumption
       DEF CInv, PInv, CallsOK, CallsTyped, Reserved, CallOK, NoPacket
  <2>. QED  BY <2>1, <2>2 DEF Packets
<1>4. Conn(s) = id[s] /\ Conn(s)' = Conn(s)
  BY <1>1, <1>2, ConnOpen DEF Conn
<1>5. handle[c] = <<s, id[s]>> /\ <<s, id[s]>> \in Unused(c)
  BY <1>1 DEF CInv, Addressed, CallAddressed, Unused
<1>6. <<s, Conn(s)>> \in to[p]
  BY <1>1, <1>3, <1>4, <1>5 DEF CInv, Addressed, CallAddressed, Packets, NoPacket
<1>7. p \notin Elements(Pending(s)) \cup Elements(delivered[s])
  <2>1. p \notin Seen(s)
    BY <1>2, <1>5 DEF CInv, Orderly, NotAgain
  <2>. QED  BY <1>2, <2>1, PendingSeen, SeenParts
<1>8. Pending(s)' = Append(Pending(s), p)
  BY <1>2, LinkPending
<1>9. ASSUME NEW r \in Slots \ {s} PROVE SameChannel(r)
  <2>1. queue'[r] = queue[r]
    BY <1>1, ChannelTyped DEF CInv
  <2>. QED  BY <1>1, <2>1, CallPending DEF SameChannel, Conn
<1>10. Channel!Append1(s, p)
  BY <1>1, <1>2, <1>4, <1>6, <1>7, <1>8, <1>9, Appends
<1>. QED  BY <1>2, <1>3, <1>10 DEF Channel!Next

\* A call appends, addresses its packet, closes the connection or stutters.
LEMMA CallRefines ==
    ASSUME CInv, CInv', NEW c \in Senders, CallStep(c)
    PROVE  [Channel!Next]_(Channel!channelVars)
<1>. USE DEF lifeVars, callVars, packetVars, bufferVars, ioVars, workVars
<1>1. /\ CallMoves(c) /\ (Keeps(c) \/ Allots(c))
      /\ UNCHANGED <<id, delivered>>
  BY CallEffect, CallFrame DEF CInv, PInv, Addressed, CallMoves
<1>2. /\ to \in [Packets -> SUBSET (Slots \X Nat)] /\ nextPacket \in Nat
      /\ \A p \in Packets : p >= nextPacket => to[p] = {}
      /\ queue \in [Slots -> Seq(Nat)] /\ state \in [Slots -> {"free", "live", "closing"}]
  BY ChannelTyped DEF CInv, Addressed
<1>3. CASE EnqueueLink(c)
  BY <1>3, LinkRefines
<1>4. CASE UNCHANGED <<state, queue>>
  <2>1. \A r \in Slots : SameChannel(r)
    BY <1>1, <1>4, CallPending DEF SameChannel, Conn
  <2>2. CASE Keeps(c)
    BY <1>1, <2>1, <2>2, Stutters DEF Keeps
  <2>3. CASE Allots(c)
    <3>. PICK p : p = nextPacket
      OBVIOUS
    <3>1. p \in Packets /\ to[p] = {}
      <4>1. p \in Packets /\ p >= nextPacket
        BY <1>2, <2>3 DEF Allots
      <4>. QED  BY <1>2, <4>1
    <3>2. to' = [to EXCEPT ![p] = Unused(c)']
      BY <2>3 DEF Allots
    <3>3. to' = [to EXCEPT ![p] = to'[p]]
      BY <1>2, <3>1, <3>2
    <3>4. Channel!Address(p)
      BY <1>1, <2>1, <3>1, <3>3, Addresses
    <3>. QED  BY <3>1, <3>4 DEF Channel!Next
  <2>. QED  BY <1>1, <2>2, <2>3
<1>5. CASE ReturnSession(c) \/ ReturnFull(c) \/ CloseSession(c)
  <2>. PICK s : s = slot[c]
    OBVIOUS
  <2>1. /\ UNCHANGED to /\ s \in Slots
        /\ \A r \in Slots \ {s} : state'[r] = state[r] /\ queue'[r] = queue[r]
        /\ state'[s] = "live" => state[s] = "live" /\ queue'[s] = queue[s]
    <3>1. s \in Slots
      <4>1. pc[c] \in HoldLabels \cup CloseLabels /\ c \in Threads
        BY <1>5, ThreadFacts DEF ReturnSession, ReturnFull, CloseSession, HoldLabels, CloseLabels
      <4>. QED  BY <4>1, Referenced DEF CInv, PInv
    <3>2. UNCHANGED to
      BY <1>5 DEF ReturnSession, ReturnFull, CloseSession
    <3>3. \A r \in Slots \ {s} : state'[r] = state[r] /\ queue'[r] = queue[r]
      BY <1>2, <1>5, <3>1 DEF ReturnSession, ReturnFull, CloseSession, Released, Emptied
    <3>4. state'[s] = "live" => state[s] = "live" /\ queue'[s] = queue[s]
      <4>1. CASE ReturnSession(c) \/ ReturnFull(c)
        BY <1>2, <3>1, <4>1 DEF ReturnSession, ReturnFull, Released
      <4>2. CASE CloseSession(c)
        BY <1>2, <3>1, <4>2 DEF CloseSession
      <4>. QED  BY <1>5, <4>1, <4>2
    <3>. QED  BY <3>1, <3>2, <3>3, <3>4
  <2>2. \A r \in Slots \ {s} : SameChannel(r)
    BY <1>1, <2>1, CallPending DEF SameChannel, Conn
  <2>3. CASE state'[s] = "live" \/ state[s] # "live"
    <3>1. Pending(s)' = Pending(s)
      <4>1. CASE state'[s] = "live"
        BY <2>1, <4>1, CallPending
      <4>2. CASE state[s] # "live"
        BY <2>1, <4>2 DEF Pending
      <4>. QED  BY <2>3, <4>1, <4>2
    <3>2. SameChannel(s)
      BY <1>1, <2>1, <2>3, <3>1 DEF SameChannel, Conn
    <3>3. \A r \in Slots : SameChannel(r)
      BY <2>2, <3>2
    <3>. QED  BY <1>1, <2>1, <3>3, Stutters
  <2>4. CASE state'[s] # "live" /\ state[s] = "live"
    <3>1. Conn(s) > 0 /\ Conn(s)' = 0 /\ Pending(s)' = <<>>
      BY <2>1, <2>4, ConnOpen DEF Conn, Pending
    <3>2. Channel!Close(s)
      BY <1>1, <2>1, <2>2, <3>1, Closes
    <3>. QED  BY <2>1, <3>2 DEF Channel!Next
  <2>. QED  BY <2>3, <2>4
<1>6. \/ EnqueueLink(c) \/ UNCHANGED <<state, queue>>
      \/ ReturnSession(c) \/ ReturnFull(c) \/ CloseSession(c)
  BY DEF CallStep, Send, FindsNext, SendPacket, SendPacketMulticast, FindSession, CheckSize,
     EnqueueCount,
     TrySendPost, Disconnect
<1>. QED  BY <1>3, <1>4, <1>5, <1>6

\* A completed WSASend delivers what m_sendPackets holds; a failed one is a stutter.
LEMMA KernelRefines ==
    ASSUME CInv, CInv', NEW s \in Slots, KernelSends(s) \/ KernelFails(s)
    PROVE  [Channel!Next]_(Channel!channelVars)
<1>. USE DEF lifeVars, callVars, packetVars, bufferVars, ioVars, workVars
<1>1. /\ UNCHANGED <<state, id, to, queue, sendPackets, batch, pc, slot>>
      /\ inFlight[s] # <<>>
  BY DEF KernelSends, KernelFails
<1>2. /\ queue[s] \in Seq(Nat) /\ sendPackets[s] \in Seq(Nat) /\ delivered \in [Slots -> Seq(Nat)]
      /\ posted \in [Slots -> [Completions -> Nat]] /\ inFlight \in [Slots -> Seq(Seq(Nat))]
  BY ChannelTyped DEF CInv
<1>3. state[s] = "live" /\ Exclusive(s)
  BY <1>1, Referenced, ExclusiveNow DEF CInv, PInv, OneAtATime
<1>4. /\ \A w \in Workers : ~Fills(w, s) /\ ~Clears(w, s)
      /\ posted[s]["sent"] = 0 /\ sendPackets[s] # <<>>
      /\ Head(inFlight[s]) = sendPackets[s]
  BY <1>1, <1>3 DEF Exclusive, Fills, Clears, FillLabels, SendLabels, Completions, CInv, Orderly,
     FlightKept
<1>5. \A r \in Slots, w \in Workers :
         /\ Fills(w, r)' <=> Fills(w, r)
         /\ Clears(w, r)' <=> Clears(w, r)
         /\ Fills(w, r) => batch'[w] = batch[w]
  BY <1>1 DEF Fills, Clears
<1>6. \A r \in Slots : Conn(r)' = Conn(r)
  BY <1>1 DEF Conn
<1>7. PendingIs(s) /\ PendingIs(s)'
  BY PendingNow, PendingNext DEF PendingKnown
<1>8. \A r \in Slots \ {s} : SameChannel(r)
  <2>1. ASSUME NEW r \in Slots \ {s} PROVE posted'[r]["sent"] = posted[r]["sent"]
    <3>1. "sent" \in Completions /\ "zero" \in Completions
      BY DEF Completions
    <3>. QED  BY <1>2, <3>1, PostMoves DEF KernelSends, KernelFails
  <2>. QED  BY <1>1, <1>5, <1>6, <2>1, PendingSame DEF SameChannel
<1>9. CASE KernelSends(s)
  <2>. DEFINE n == Len(sendPackets[s])
  <2>1. /\ delivered' = [delivered EXCEPT ![s] = @ \o sendPackets[s]]
        /\ posted'[s]["sent"] > 0
    <3>1. "sent" \in Completions
      BY DEF Completions
    <3>2. posted'[s]["sent"] = posted[s]["sent"] + 1
      BY <1>2, <1>9, <3>1, PostMoves DEF KernelSends
    <3>3. posted'[s]["sent"] > 0
      BY <1>4, <3>2
    <3>. QED  BY <1>4, <1>9, <3>3 DEF KernelSends
  <2>2. Pending(s) = sendPackets[s] \o queue[s]
    BY <1>3, <1>4, <1>7 DEF PendingIs
  <2>3. Pending(s)' = queue[s]
    BY <1>1, <1>3, <1>7, <2>1 DEF PendingIs
  <2>4. /\ SubSeq(Pending(s), 1, n) = sendPackets[s]
        /\ SubSeq(Pending(s), n + 1, Len(Pending(s))) = queue[s]
    <3>. DEFINE a == sendPackets[s]
                b == queue[s]
    <3>1. a \in Seq(Nat) /\ b \in Seq(Nat) /\ Pending(s) = a \o b
      BY <1>2, <2>2
    <3>. HIDE DEF a, b
    <3>2. SubSeq(a \o b, 1, Len(a)) = a /\ SubSeq(a \o b, Len(a) + 1, Len(a \o b)) = b
      BY <3>1, Cuts
    <3>. QED  BY <3>1, <3>2, Zenon DEF a, b
  <2>5. n \in 1..Len(Pending(s))
    <3>1. n \in Nat /\ Len(queue[s]) \in Nat /\ n # 0
      BY <1>2, <1>4
    <3>2. Len(Pending(s)) = n + Len(queue[s])
      BY <1>2, <2>2, Cuts
    <3>. HIDE DEF n
    <3>. QED  BY <3>1, <3>2
  <2>. HIDE DEF n
  <2>6. PICK m : /\ m \in 1..Len(Pending(s)) /\ SubSeq(Pending(s), 1, m) = sendPackets[s]
                 /\ Pending(s)' = SubSeq(Pending(s), m + 1, Len(Pending(s)))
    BY <2>3, <2>4, <2>5
  <2>7. delivered' = [delivered EXCEPT ![s] = @ \o SubSeq(Pending(s), 1, m)]
    BY <2>1, <2>6
  <2>8. Conn(s) > 0 /\ Conn(s)' = Conn(s) /\ UNCHANGED to
    BY <1>1, <1>3, <1>6, ConnOpen
  <2>9. Channel!Deliver(s)
    BY <1>8, <2>6, <2>7, <2>8, Delivers
  <2>. QED  BY <2>9 DEF Channel!Next
<1>10. CASE KernelFails(s)
  <2>1. UNCHANGED delivered /\ posted'[s]["sent"] = posted[s]["sent"]
    <3>1. "sent" \in Completions /\ "zero" \in Completions /\ "sent" # "zero"
      BY DEF Completions
    <3>. QED  BY <1>2, <1>10, <3>1, PostMoves DEF KernelFails
  <2>2. Pending(s)' = Pending(s)
    BY <1>1, <1>5, <2>1, PendingSame
  <2>3. \A r \in Slots : SameChannel(r)
    BY <1>6, <1>8, <2>2 DEF SameChannel
  <2>. QED  BY <1>1, <2>1, <2>3, Stutters
<1>. QED  BY <1>9, <1>10

\* Connect opens the channel.
LEMMA ConnectRefines ==
    ASSUME CInv, CInv', NEW s \in Slots, Connect(s)
    PROVE  [Channel!Next]_(Channel!channelVars)
<1>. USE DEF lifeVars, callVars, packetVars, bufferVars, ioVars, workVars
<1>1. /\ UNCHANGED <<inFlight, posted, batch, pc, slot, to>>
      /\ state[s] = "free" /\ state' = [state EXCEPT ![s] = "live"] /\ id' = [id EXCEPT ![s] = @ + 1]
      /\ delivered' = [delivered EXCEPT ![s] = <<>>] /\ Emptied(s)
  BY DEF Connect
<1>2. /\ state \in [Slots -> {"free", "live", "closing"}] /\ id \in [Slots -> Nat]
      /\ queue \in [Slots -> Seq(Nat)] /\ sendPackets \in [Slots -> Seq(Nat)]
  BY ChannelTyped DEF CInv
<1>3. queue' = [queue EXCEPT ![s] = <<>>] /\ sendPackets' = [sendPackets EXCEPT ![s] = <<>>]
  <2>1. size[s] = Len(queue[s]) /\ BuffersTyped /\ SessionsTyped
    BY <1>1, NobodyAtQueue DEF CInv, PInv, IInv, Typed
  <2>. QED  BY <1>1, <2>1, EmptiedAll
<1>4. posted[s]["sent"] = 0 /\ \A w \in Workers : slot[w] # s
  BY <1>1, Abandoned DEF CInv, PInv, Completions
<1>5. \A r \in Slots \ {s} : SameChannel(r)
  <2>1. ASSUME NEW r \in Slots \ {s}
        PROVE  /\ state'[r] = state[r] /\ id'[r] = id[r]
               /\ queue'[r] = queue[r] /\ sendPackets'[r] = sendPackets[r]
    BY <1>1, <1>2, <1>3
  <2>2. \A r \in Slots, w \in Workers :
           /\ Fills(w, r)' <=> Fills(w, r)
           /\ Clears(w, r)' <=> Clears(w, r)
           /\ Fills(w, r) => batch'[w] = batch[w]
    BY <1>1 DEF Fills, Clears
  <2>. QED  BY <1>1, <2>1, <2>2, PendingSame DEF SameChannel, Conn
<1>6. Conn(s) = 0 /\ Conn(s)' > 0
  BY <1>1, <1>2 DEF Conn
<1>7. Pending(s)' = Pending(s)
  <2>1. Pending(s) = <<>>
    BY <1>1 DEF Pending
  <2>2. /\ state'[s] = "live" /\ posted'[s]["sent"] = 0
        /\ \A w \in Workers : ~Fills(w, s)' /\ ~Clears(w, s)'
    BY <1>1, <1>2, <1>4 DEF Fills, Clears
  <2>3. PendingIs(s)'
    BY PendingNext DEF PendingKnown
  <2>4. Pending(s)' = sendPackets'[s] \o queue'[s]
    BY <2>2, <2>3 DEF PendingIs
  <2>. QED  BY <1>2, <1>3, <2>1, <2>4
<1>8. Channel!Open(s)
  BY <1>1, <1>5, <1>6, <1>7, Opens
<1>. QED  BY <1>8 DEF Channel!Next

\* Every step is a step of the channel or leaves it as it is.
LEMMA ChannelStep ==
    ASSUME CInv, CInv', [Next]_vars
    PROVE  [Channel!Next]_(Channel!channelVars)
<1>1. CASE UNCHANGED vars
  <2>1. UNCHANGED <<state, id, to, delivered, queue, sendPackets, posted, slot, pc, batch>>
    BY <1>1 DEF vars, lifeVars, bufferVars, ioVars, packetVars, workVars
  <2>2. ASSUME NEW r \in Slots PROVE SameChannel(r)
    BY <2>1 DEF SameChannel, Conn, Pending, Undelivered, InHands, At
  <2>. QED  BY <2>1, <2>2, Stutters
<1>2. PInv
  BY DEF CInv
<1>. QED  BY <1>1, <1>2, NextSteps, CallRefines, WorkRefines, KernelRefines, ConnectRefines

\* The first states are first states of the channel.
LEMMA ChannelInit == Init => Channel!Init
BY DEF Init, Channel!Init, Pending, Conn

\* The peer of a connection receives the packets sent to its handle in order,
\* once and without a gap, whatever the threads of the server and the kernel
\* do (SendPacket, SendPacketMulticast, SendPost, the send completion).
THEOREM ChannelRefined == Spec => ChannelSpec
<1>1. CInv /\ PInv' /\ [Next]_vars => CInv'
  BY CInvStep
<1>2. Spec => []CInv
  <2>1. Spec => []PInv
    BY InitPInv, NextPInv, PTL DEF Spec
  <2>. QED  BY <1>1, <2>1, InitCInv, PTL DEF Spec
<1>3. CInv /\ CInv' /\ [Next]_vars => [Channel!Next]_(Channel!channelVars)
  BY ChannelStep
<1>. QED  BY <1>2, <1>3, ChannelInit, PTL DEF Spec, ChannelSpec, Channel!Spec
=============================================================================
