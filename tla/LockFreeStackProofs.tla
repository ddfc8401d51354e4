------------------------- MODULE LockFreeStackProofs -------------------------
(***************************************************************************)
(* The pool of session indexes keeps every index once, and LockFreeStack   *)
(* is a stack, for every number of threads and indexes, as long as no Pop  *)
(* finds the pointer it read pushed again with the same tag; and this does *)
(* not happen while the tags have not come round.                          *)
(***************************************************************************)
EXTENDS LockFreeStack, TLSObjectPoolProofs

Address == AllNodes \X Nat
Pointer == Address \cup {Null}
PopSteps == {"popRead", "popNext", "pop", "popFree"}
PushSteps == {"pushRead", "pushNext", "push"}

Typed ==
    /\ topNode \in Pointer /\ allocCnt \in Nat /\ out \subseteq Indexes
    /\ next \in [AllNodes -> Pointer] /\ data \in [AllNodes -> Nat]
    /\ pc \in [Threads -> {"idle"} \cup PushSteps \cup PopSteps]
    /\ node \in [Threads -> Pointer] /\ oldTop \in [Threads -> Pointer]
    /\ newTop \in [Threads -> Pointer]

\* The pointers from m_top on are L[1], ..., L[h].
Linked(h, L) ==
    /\ L \in [1..h -> Address]
    /\ topNode = IF h = 0 THEN Null ELSE L[1]
    /\ \A k \in 1..h : next[L[k][1]] = IF k = h THEN Null ELSE L[k + 1]
    /\ \A k, l \in 1..h : L[k][1] = L[l][1] => k = l

\* The node that is a call's alone: new in a Push, or taken by a Pop.
Own(t) == CASE Pushing(t) -> node[t][1]
            [] pc[t] = "popFree" -> oldTop[t][1]
            [] OTHER -> 0
Uses(h, L, n) == (\E k \in 1..h : L[k][1] = n) \/ (n # 0 /\ \E t \in Threads : Own(t) = n)

\* A node in use is in the stack or one call's, and not in the pool.
NodesOwned(h, L) ==
    /\ \A n : Uses(h, L, n) => n \in AllNodes /\ n \in 1..created /\ n \notin Pooled
    /\ \A t \in Threads : \A k \in 1..h : Own(t) # L[k][1]
    /\ \A t, u \in Threads : Own(t) = Own(u) /\ Own(t) # 0 => t = u

\* The nodes in use carry the indexes that are not out, each once.
IndexesCarried(h, L) ==
    /\ \A n : Uses(h, L, n) => data[n] \in Indexes \ out
    /\ \A m, n : Uses(h, L, m) /\ Uses(h, L, n) /\ data[m] = data[n] => m = n
    /\ \A i \in Indexes \ out : \E n : Uses(h, L, n) /\ data[n] = i

\* What a call has read: a Push has made its node lead to what it compares
\* m_top with; if what a Pop compares m_top with is in the stack, its Next
\* has not changed since.
ReadsHold(h, L, t) ==
    /\ Pushing(t) => node[t] \in Address
    /\ pc[t] = "push" => next[node[t][1]] = oldTop[t]
    /\ pc[t] \in {"popNext", "pop", "popFree"} => oldTop[t] \in Address
    /\ pc[t] = "pop" => \A k \in 1..h : oldTop[t] = L[k] => newTop[t] = next[L[k][1]]

Core(h, L) ==
    /\ h \in Nat /\ Linked(h, L) /\ NodesOwned(h, L) /\ IndexesCarried(h, L)
    /\ \A t \in Threads : ReadsHold(h, L, t)

IInv == Typed /\ PoolInv /\ \E h, L : Core(h, L)

\* The pointer on which a Pop is about to compare and swap is not pushed again.
NoTagReuse ==
    \A t, u \in Threads : pc[t] = "pop" /\ pc[u] = "push" => oldTop[t] # node[u]

-----------------------------------------------------------------------------
(* Nodes and pointers.                                                     *)

LEMMA NodeFacts ==
    /\ AllNodes \subseteq Nat \ {0} /\ Indexes \subseteq AllNodes /\ IsFiniteSet(AllNodes)
    /\ IndexCount \in Nat \ {0}
    /\ Cardinality(AllNodes) \in Nat
    /\ \A p \in Address : p[1] \in AllNodes /\ p[1] # 0 /\ p # Null
    /\ \A p \in Pointer : p[1] # 0 => p \in Address
    /\ Null \in Pointer /\ Null[1] = 0
<1>. DEFINE c == Cardinality(Threads)  d == ChunkSize - 1  e == 2 * d * c
<1>1. c \in Nat /\ d \in Nat /\ IndexCount \in Nat \ {0}
  BY FS_CardinalityType, PoolAssumption, StackAssumption
<1>2. e \in Nat
  <2>1. 2 * d \in Nat
    BY <1>1
  <2>. QED  BY <1>1, <2>1
<1>. HIDE DEF e
<1>3. AllNodes = 1..(IndexCount + e)
  BY DEF AllNodes, e
<1>4. AllNodes \subseteq Nat \ {0} /\ Indexes \subseteq AllNodes
  BY <1>1, <1>2, <1>3 DEF Indexes
<1>5. IsFiniteSet(AllNodes) /\ Cardinality(AllNodes) \in Nat
  BY <1>1, <1>2, <1>3, FS_Interval, FS_CardinalityType
<1>6. \A p \in Address : p[1] \in AllNodes /\ p[1] # 0 /\ p # Null
  BY <1>4 DEF Address, Null
<1>. QED  BY <1>1, <1>4, <1>5, <1>6 DEF Pointer, Null

LEMMA TaggedIsAddress ==
    ASSUME NEW n \in AllNodes, NEW c \in Nat
    PROVE  Tagged(n, c) \in Address /\ Tagged(n, c)[1] = n
<1>1. c % TagRange \in Nat
  BY StackAssumption
<1>. QED  BY <1>1 DEF Tagged, Address

-----------------------------------------------------------------------------
(* What the steps have in common.                                          *)

\* What the items of the stack are.
Items(h, L) == [k \in 1..h |-> data[L[k][1]]]

LEMMA SameUses ==
    ASSUME NEW h, NEW L, \A t \in Threads : Own(t)' = Own(t)
    PROVE  \A n : Uses(h, L, n)' <=> Uses(h, L, n)
BY DEF Uses

\* The reads of the calls that do not take a step.
LEMMA OthersReads ==
    ASSUME NEW h, NEW L, Core(h, L), NEW t \in Threads,
           \A u \in Threads \ {t} : UNCHANGED <<pc[u], node[u], oldTop[u], newTop[u]>>,
           \A u \in Threads \ {t} : Pushing(u) => next'[node[u][1]] = next[node[u][1]],
           \A k \in 1..h : next'[L[k][1]] = next[L[k][1]],
           ReadsHold(h, L, t)'
    PROVE  \A u \in Threads : ReadsHold(h, L, u)'
<1>. SUFFICES ASSUME NEW u \in Threads \ {t} PROVE ReadsHold(h, L, u)'
  OBVIOUS
<1>1. ReadsHold(h, L, u)
  BY DEF Core
<1>2. (Pushing(u)' <=> Pushing(u)) /\ (pc[u] = "push" => Pushing(u))
  BY DEF Pushing
<1>. QED  BY <1>1, <1>2 DEF ReadsHold

\* A step that leaves the stack, the pool and the owners alone.
LEMMA QuietStep ==
    ASSUME NEW h, NEW L, Core(h, L), UNCHANGED <<poolVars, topNode, data, out>>,
           \A t \in Threads : Own(t)' = Own(t),
           \A k \in 1..h : next'[L[k][1]] = next[L[k][1]],
           \A t \in Threads : ReadsHold(h, L, t)'
    PROVE  Core(h, L)' /\ Items(h, L)' = Items(h, L)
<1>1. \A n : Uses(h, L, n)' <=> Uses(h, L, n)
  BY SameUses
<1>2. Pooled' = Pooled /\ created' = created
  BY DEF poolVars, Pooled, InPool
<1>3. Linked(h, L)'
  BY DEF Core, Linked
<1>4. NodesOwned(h, L)'
  BY <1>1, <1>2 DEF Core, NodesOwned
<1>5. IndexesCarried(h, L)'
  BY <1>1 DEF Core, IndexesCarried
<1>. QED  BY <1>3, <1>4, <1>5 DEF Core, Items

\* The node of a Push is not in the stack nor another call's.
LEMMA OwnApart ==
    ASSUME NEW h, NEW L, Core(h, L), NEW t \in Threads, Pushing(t) \/ pc[t] = "popFree"
    PROVE  /\ Own(t) \in AllNodes /\ Own(t) # 0 /\ Uses(h, L, Own(t))
           /\ \A k \in 1..h : L[k][1] # Own(t)
           /\ \A u \in Threads \ {t} : Own(u) # Own(t)
<1>1. Own(t) \in AllNodes
  BY NodeFacts DEF Core, ReadsHold, Own, Pushing
<1>2. Own(t) # 0 /\ Uses(h, L, Own(t))
  BY <1>1, NodeFacts DEF Uses
<1>. QED  BY <1>1, <1>2 DEF Core, NodesOwned

-----------------------------------------------------------------------------
(* The steps of Push.                                                      *)

LEMMA PushReadTopStep ==
    ASSUME Typed, NEW h, NEW L, Core(h, L), NEW t \in Threads, PushReadTop(t)
    PROVE  Core(h, L)' /\ Items(h, L)' = Items(h, L)
<1>. USE DEF PushReadTop, Goto, stackVars
<1>1. \A u \in Threads \ {t} : UNCHANGED <<pc[u], node[u], oldTop[u], newTop[u]>>
  BY DEF Typed
<1>2. pc[t] = "pushRead" /\ pc'[t] = "pushNext" /\ node' = node
  BY DEF Typed
<1>3. \A u \in Threads : Own(u)' = Own(u)
  BY <1>1, <1>2 DEF Own, Pushing
<1>4. ReadsHold(h, L, t)'
  BY <1>2 DEF Core, ReadsHold, Pushing
<1>. QED  BY <1>1, <1>3, <1>4, OthersReads, QuietStep

LEMMA PushSetNextStep ==
    ASSUME Typed, NEW h, NEW L, Core(h, L), NEW t \in Threads, PushSetNext(t)
    PROVE  Core(h, L)' /\ Items(h, L)' = Items(h, L)
<1>. USE DEF PushSetNext, Goto
<1>1. \A u \in Threads \ {t} : UNCHANGED <<pc[u], node[u], oldTop[u], newTop[u]>>
  BY DEF Typed
<1>2. pc[t] = "pushNext" /\ pc'[t] = "push" /\ node' = node /\ oldTop' = oldTop
  BY DEF Typed
<1>3. \A u \in Threads : Own(u)' = Own(u)
  BY <1>1, <1>2 DEF Own, Pushing
<1>4. Pushing(t) /\ \A u \in Threads : Pushing(u) => Own(u) = node[u][1]
  BY <1>2 DEF Pushing, Own
<1>5. /\ node[t][1] \in AllNodes
      /\ \A k \in 1..h : L[k][1] # node[t][1]
      /\ \A u \in Threads \ {t} : Pushing(u) => node[u][1] # node[t][1]
  BY <1>4, OwnApart
<1>6. /\ next'[node[t][1]] = oldTop[t]
      /\ \A n \in AllNodes \ {node[t][1]} : next'[n] = next[n]
  BY <1>5 DEF Typed
<1>7. \A k \in 1..h : next'[L[k][1]] = next[L[k][1]]
  BY <1>5, <1>6, NodeFacts DEF Core, Linked
<1>8. \A u \in Threads \ {t} : Pushing(u) => next'[node[u][1]] = next[node[u][1]]
  BY <1>5, <1>6, NodeFacts DEF Core, ReadsHold
<1>9. ReadsHold(h, L, t)'
  BY <1>2, <1>4, <1>6 DEF Core, ReadsHold
<1>. QED  BY <1>1, <1>3, <1>7, <1>8, <1>9, OthersReads, QuietStep

LEMMA PushAgainStep ==
    ASSUME Typed, NEW h, NEW L, Core(h, L), NEW t \in Threads, Push(t), topNode # oldTop[t]
    PROVE  Core(h, L)' /\ Items(h, L)' = Items(h, L)
<1>. USE DEF Push, Goto, stackVars
<1>1. \A u \in Threads \ {t} : UNCHANGED <<pc[u], node[u], oldTop[u], newTop[u]>>
  BY DEF Typed
<1>2. pc[t] = "push" /\ pc'[t] = "pushRead" /\ node' = node
  BY DEF Typed
<1>3. \A u \in Threads : Own(u)' = Own(u)
  BY <1>1, <1>2 DEF Own, Pushing
<1>4. ReadsHold(h, L, t)'
  BY <1>2 DEF Core, ReadsHold, Pushing
<1>. QED  BY <1>1, <1>3, <1>4, OthersReads, QuietStep

\* The compare-and-swap: the node is on top, above what it leads to.
LEMMA PushStep ==
    ASSUME Typed, NoTagReuse, NEW h, NEW L, Core(h, L),
           NEW t \in Threads, Push(t), topNode = oldTop[t]
    PROVE  \E j, M : /\ j = h + 1 /\ Core(j, M)'
                     /\ \A k \in 1..h : Items(j, M)'[k + 1] = Items(h, L)[k]
                     /\ \E i \in Indexes : /\ Items(j, M)'[1] = i
                                           /\ \A k \in 1..h : Items(h, L)[k] # i
<1>j. PICK j : j = h + 1
  OBVIOUS
<1>M. PICK M : M = [k \in 1..j |-> IF k = 1 THEN node[t] ELSE L[k - 1]]
  OBVIOUS
<1>. USE DEF Goto, Return
<1>0. h \in Nat /\ j = h + 1 /\ L \in [1..h -> Address]
  BY <1>j DEF Core, Linked
<1>1. \A u \in Threads \ {t} : UNCHANGED <<pc[u], node[u], oldTop[u], newTop[u]>>
  BY DEF Typed, Push
<1>2. /\ pc[t] = "push" /\ pc'[t] = "idle" /\ topNode' = node[t]
      /\ UNCHANGED <<poolVars, next, data, out>>
  BY DEF Typed, Push
<1>3. Pushing(t) /\ Own(t) = node[t][1] /\ node[t] \in Address /\ next[node[t][1]] = topNode
  BY <1>2 DEF Pushing, Own, Core, ReadsHold
<1>4. Own(t)' = 0 /\ \A u \in Threads \ {t} : Own(u)' = Own(u)
  BY <1>1, <1>2 DEF Own, Pushing
<1>5. /\ node[t][1] \in AllNodes /\ node[t][1] # 0 /\ Uses(h, L, node[t][1])
      /\ \A k \in 1..h : L[k][1] # node[t][1]
      /\ \A u \in Threads \ {t} : Own(u) # node[t][1]
  BY <1>3, OwnApart
<1>6. /\ M \in [1..j -> Address] /\ 1 \in 1..j /\ M[1] = node[t]
      /\ \A k \in 1..j : k # 1 => k - 1 \in 1..h /\ M[k] = L[k - 1]
      /\ \A k \in 1..h : k + 1 \in 1..j /\ k + 1 # 1 /\ M[k + 1] = L[k]
  BY <1>0, <1>3, <1>M
<1>7. \A n : Uses(j, M, n)' <=> Uses(h, L, n)
  <2>1. \A n : (\E k \in 1..j : M[k][1] = n) <=> n = node[t][1] \/ \E k \in 1..h : L[k][1] = n
    BY <1>6
  <2>2. \A n : n # 0 => ((\E u \in Threads : Own(u) = n)
                           <=> n = node[t][1] \/ \E u \in Threads : Own(u)' = n)
    BY <1>3, <1>4
  <2>3. ASSUME NEW n PROVE Uses(j, M, n)' <=> Uses(h, L, n)
    <3>1. Uses(j, M, n)' <=> \/ \E k \in 1..j : M[k][1] = n
                             \/ n # 0 /\ \E u \in Threads : Own(u)' = n
      BY DEF Uses
    <3>. QED  BY <3>1, <2>1, <2>2, <1>5 DEF Uses
  <2>. QED  BY <2>3
<1>8. Linked(j, M)'
  <2>1. \A k \in 1..j : next[M[k][1]] = IF k = j THEN Null ELSE M[k + 1]
    <3>1. next[M[1][1]] = IF 1 = j THEN Null ELSE M[2]
      <4>1. CASE h = 0
        BY <4>1, <1>0, <1>3, <1>6 DEF Core, Linked
      <4>2. CASE h # 0
        <5>1. 1 \in 1..h /\ topNode = L[1]
          BY <4>2, <1>0 DEF Core, Linked
        <5>. QED  BY <5>1, <4>2, <1>0, <1>3, <1>6
      <4>. QED  BY <4>1, <4>2
    <3>2. ASSUME NEW k \in 1..j, k # 1
          PROVE  next[M[k][1]] = IF k = j THEN Null ELSE M[k + 1]
      <4>1. k - 1 \in 1..h /\ M[k] = L[k - 1]
        BY <3>2, <1>6
      <4>2. next[L[k - 1][1]] = IF k - 1 = h THEN Null ELSE L[(k - 1) + 1]
        BY <4>1 DEF Core, Linked
      <4>3. k # j => k \in 1..h /\ M[k + 1] = L[k] /\ (k - 1) + 1 = k
        BY <3>2, <1>0, <1>6
      <4>4. k - 1 = h <=> k = j
        BY <3>2, <1>0
      <4>. QED  BY <4>1, <4>2, <4>3, <4>4
    <3>. QED  BY <3>1, <3>2
  <2>2. \A k, l \in 1..j : M[k][1] = M[l][1] => k = l
    <3>1. \A k, l \in 1..j : k # 1 /\ l # 1 /\ k - 1 = l - 1 => k = l
      BY <1>0
    <3>2. \A k, l \in 1..h : L[k][1] = L[l][1] => k = l
      BY DEF Core, Linked
    <3>. QED  BY <3>1, <3>2, <1>5, <1>6
  <2>3. j # 0
    BY <1>0
  <2>. QED  BY <2>1, <2>2, <2>3, <1>2, <1>6 DEF Linked
<1>9. NodesOwned(j, M)'
  <2>1. Pooled' = Pooled /\ created' = created
    BY <1>2 DEF poolVars, Pooled, InPool
  <2>2. \A u \in Threads : \A k \in 1..j : Own(u)' # M[k][1]
    <3>1. \A u \in Threads \ {t} : \A k \in 1..j : Own(u)' # M[k][1]
      BY <1>4, <1>5, <1>6 DEF Core, NodesOwned
    <3>2. \A k \in 1..j : M[k][1] # 0
      BY <1>6, NodeFacts
    <3>. QED  BY <3>1, <3>2, <1>4
  <2>3. \A u, v \in Threads : Own(u)' = Own(v)' /\ Own(u)' # 0 => u = v
    BY <1>4 DEF Core, NodesOwned
  <2>4. \A n : Uses(h, L, n) => n \in AllNodes /\ n \in 1..created /\ n \notin Pooled
    BY DEF Core, NodesOwned
  <2>. QED  BY <2>1, <2>2, <2>3, <2>4, <1>7 DEF NodesOwned
<1>10. IndexesCarried(j, M)'
  BY <1>2, <1>7 DEF Core, IndexesCarried
<1>11. ASSUME NEW u \in Threads PROVE ReadsHold(j, M, u)'
  <2>1. CASE u = t
    BY <2>1, <1>2 DEF ReadsHold, Pushing
  <2>2. CASE u # t
    <3>1. ReadsHold(h, L, u) /\ (Pushing(u)' <=> Pushing(u))
      BY <2>2, <1>1 DEF Core, Pushing
    <3>2. ASSUME pc[u] = "pop", NEW k \in 1..j, oldTop[u] = M[k]
          PROVE  newTop[u] = next[M[k][1]]
      <4>1. k # 1
        BY <3>2, <1>2, <1>6 DEF NoTagReuse
      <4>2. k - 1 \in 1..h /\ oldTop[u] = L[k - 1]
        BY <3>2, <4>1, <1>6
      <4>. QED  BY <3>1, <3>2, <4>1, <4>2, <1>6 DEF ReadsHold
    <3>. QED  BY <2>2, <3>1, <3>2, <1>1, <1>2 DEF ReadsHold
  <2>. QED  BY <2>1, <2>2
<1>12. Core(j, M)'
  BY <1>0, <1>8, <1>9, <1>10, <1>11 DEF Core
<1>13. /\ \A k \in 1..j : Items(j, M)'[k] = data[M[k][1]]
       /\ \A k \in 1..h : Items(h, L)[k] = data[L[k][1]]
  BY <1>2 DEF Items
<1>14. /\ data[node[t][1]] \in Indexes
       /\ \A k \in 1..h : data[L[k][1]] # data[node[t][1]]
  <2>1. \A k \in 1..h : Uses(h, L, L[k][1])
    BY DEF Uses
  <2>2. \A m, n : Uses(h, L, m) /\ Uses(h, L, n) /\ data[m] = data[n] => m = n
    BY DEF Core, IndexesCarried
  <2>3. data[node[t][1]] \in Indexes
    BY <1>5 DEF Core, IndexesCarried
  <2>. QED  BY <2>1, <2>2, <2>3, <1>5
<1>15. Items(j, M)'[1] = data[node[t][1]]
  BY <1>6, <1>13
<1>16. \A k \in 1..h : /\ Items(j, M)'[k + 1] = Items(h, L)[k]
                       /\ Items(h, L)[k] # data[node[t][1]]
  BY <1>6, <1>13, <1>14
<1>. QED  BY <1>0, <1>12, <1>14, <1>15, <1>16

\* A new call takes a node out of the pool.
LEMMA BeginPushStep ==
    ASSUME Typed, PoolInv, NEW h, NEW L, Core(h, L),
           NEW t \in Threads, NEW index \in Indexes, BeginPush(t, index)
    PROVE  PoolInv' /\ Core(h, L)' /\ Items(h, L)' = Items(h, L)
<1>. USE DEF Goto
<1>1. \A u \in Threads \ {t} : UNCHANGED <<pc[u], node[u], oldTop[u], newTop[u]>>
  BY DEF Typed, BeginPush
<1>2. /\ pc[t] = "idle" /\ pc'[t] = "pushRead" /\ index \in out /\ out' = out \ {index}
      /\ UNCHANGED <<topNode, next>> /\ allocCnt' \in Nat
  BY DEF Typed, BeginPush
<1>3. PICK n \in AllNodes : /\ Alloc(t, n)
                            /\ data' = [data EXCEPT ![n] = index]
                            /\ node' = [node EXCEPT ![t] = Tagged(n, allocCnt')]
  BY DEF BeginPush
<1>4. /\ PoolInv' /\ Pooled' = Pooled \ {n}
      /\ \/ n \in Pooled /\ created' = created
         \/ n = created + 1 /\ created' = created + 1
  BY <1>3, AllocTakesOut
<1>5. created \in Nat /\ Pooled \subseteq 1..created
  BY DEF PoolInv, PoolTyped
<1>6. ~Uses(h, L, n)
  BY <1>4, <1>5 DEF Core, NodesOwned
<1>7. node'[t] \in Address /\ node'[t][1] = n
  <2>1. node'[t] = Tagged(n, allocCnt')
    BY <1>3 DEF Typed
  <2>. QED  BY <2>1, <1>2, TaggedIsAddress
<1>8. /\ Own(t) = 0 /\ Own(t)' = n /\ n # 0
      /\ \A u \in Threads \ {t} : Own(u)' = Own(u)
  BY <1>1, <1>2, <1>7, NodeFacts DEF Own, Pushing
<1>9. ASSUME NEW m PROVE Uses(h, L, m)' <=> Uses(h, L, m) \/ m = n
  BY <1>8 DEF Uses
<1>10. \A k \in 1..h : L[k][1] # n /\ Uses(h, L, L[k][1])
  BY <1>6 DEF Uses
<1>11. \A u \in Threads \ {t} : Own(u) # n
  BY <1>6, <1>8 DEF Uses
<1>12. data'[n] = index /\ \A m \in AllNodes \ {n} : data'[m] = data[m]
  BY <1>3 DEF Typed
<1>13. Linked(h, L)'
  BY <1>2 DEF Core, Linked
<1>14. NodesOwned(h, L)'
  <2>1. ASSUME NEW m, Uses(h, L, m) \/ m = n
        PROVE  m \in AllNodes /\ m \in 1..created' /\ m \notin Pooled'
    <3>1. CASE Uses(h, L, m)
      BY <3>1, <1>4, <1>5 DEF Core, NodesOwned
    <3>2. CASE m = n
      <4>1. n \in 1..created'
        <5>1. CASE n \in Pooled /\ created' = created
          BY <5>1, <1>5
        <5>2. CASE n = created + 1 /\ created' = created + 1
          BY <5>2, <1>5
        <5>. QED  BY <5>1, <5>2, <1>4
      <4>. QED  BY <3>2, <4>1, <1>4
    <3>. QED  BY <2>1, <3>1, <3>2
  <2>2. \A u \in Threads : \A k \in 1..h : Own(u)' # L[k][1]
    BY <1>8, <1>10 DEF Core, NodesOwned
  <2>3. \A u, v \in Threads : Own(u)' = Own(v)' /\ Own(u)' # 0 => u = v
    BY <1>8, <1>11 DEF Core, NodesOwned
  <2>. QED  BY <2>1, <2>2, <2>3, <1>9 DEF NodesOwned
<1>15. IndexesCarried(h, L)'
  <2>1. \A m : Uses(h, L, m) => m \in AllNodes \ {n} /\ data'[m] = data[m]
    BY <1>6, <1>12 DEF Core, NodesOwned
  <2>2. \A m : Uses(h, L, m) => data[m] \in Indexes \ out
    BY DEF Core, IndexesCarried
  <2>3. \A m : Uses(h, L, m)' => data'[m] \in Indexes \ out'
    BY <1>2, <1>9, <1>12, <2>1, <2>2
  <2>4. \A m, k : Uses(h, L, m)' /\ Uses(h, L, k)' /\ data'[m] = data'[k] => m = k
    <3>1. \A m, k : Uses(h, L, m) /\ Uses(h, L, k) /\ data[m] = data[k] => m = k
      BY DEF Core, IndexesCarried
    <3>2. \A m : Uses(h, L, m) => data'[m] # data'[n]
      BY <1>2, <1>12, <2>1, <2>2
    <3>. QED  BY <1>9, <2>1, <3>1, <3>2
  <2>5. \A i \in Indexes \ out' : \E m : Uses(h, L, m)' /\ data'[m] = i
    <3>1. \A i \in Indexes \ out : \E m : Uses(h, L, m) /\ data[m] = i
      BY DEF Core, IndexesCarried
    <3>. QED  BY <1>2, <1>9, <1>12, <2>1, <3>1
  <2>. QED  BY <2>3, <2>4, <2>5 DEF IndexesCarried
<1>16. ReadsHold(h, L, t)'
  BY <1>2, <1>7 DEF ReadsHold
<1>17. \A u \in Threads : ReadsHold(h, L, u)'
  BY <1>1, <1>2, <1>16, OthersReads
<1>18. Core(h, L)'
  BY <1>13, <1>14, <1>15, <1>17 DEF Core
<1>19. Items(h, L)' = Items(h, L)
  <2>1. \A k \in 1..h : data'[L[k][1]] = data[L[k][1]]
    BY <1>10, <1>12 DEF Core, NodesOwned
  <2>. QED  BY <2>1 DEF Items
<1>. QED  BY <1>4, <1>18, <1>19

-----------------------------------------------------------------------------
(* The steps of Pop.                                                       *)

LEMMA PopReadTopStep ==
    ASSUME Typed, NEW h, NEW L, Core(h, L), NEW t \in Threads, PopReadTop(t)
    PROVE  Core(h, L)' /\ Items(h, L)' = Items(h, L)
<1>. USE DEF PopReadTop, Goto, Return, stackVars
<1>1. \A u \in Threads \ {t} : UNCHANGED <<pc[u], node[u], oldTop[u], newTop[u]>>
  BY DEF Typed
<1>2. pc[t] \in {"idle", "popRead"} /\ pc'[t] \in {"idle", "popNext"}
  BY DEF Typed
<1>3. \A u \in Threads : Own(u)' = Own(u)
  BY <1>1, <1>2 DEF Own, Pushing
<1>4. pc'[t] = "popNext" => oldTop'[t] \in Address
  BY NodeFacts DEF Typed
<1>5. ReadsHold(h, L, t)'
  BY <1>2, <1>4 DEF ReadsHold, Pushing
<1>. QED  BY <1>1, <1>3, <1>5, OthersReads, QuietStep

LEMMA PopReadNextStep ==
    ASSUME Typed, NEW h, NEW L, Core(h, L), NEW t \in Threads, PopReadNext(t)
    PROVE  Core(h, L)' /\ Items(h, L)' = Items(h, L)
<1>. USE DEF PopReadNext, Goto, stackVars
<1>1. \A u \in Threads \ {t} : UNCHANGED <<pc[u], node[u], oldTop[u], newTop[u]>>
  BY DEF Typed
<1>2. /\ pc[t] = "popNext" /\ pc'[t] = "pop" /\ oldTop' = oldTop /\ node' = node
      /\ newTop'[t] = next[oldTop[t][1]] /\ next' = next
  BY DEF Typed
<1>3. \A u \in Threads : Own(u)' = Own(u)
  BY <1>1, <1>2 DEF Own, Pushing
<1>4. ReadsHold(h, L, t)'
  BY <1>2 DEF Core, ReadsHold, Pushing
<1>. QED  BY <1>1, <1>3, <1>4, OthersReads, QuietStep

LEMMA PopAgainStep ==
    ASSUME Typed, NEW h, NEW L, Core(h, L), NEW t \in Threads, Pop(t), topNode # oldTop[t]
    PROVE  Core(h, L)' /\ Items(h, L)' = Items(h, L)
<1>. USE DEF Pop, Goto, stackVars
<1>1. \A u \in Threads \ {t} : UNCHANGED <<pc[u], node[u], oldTop[u], newTop[u]>>
  BY DEF Typed
<1>2. pc[t] = "pop" /\ pc'[t] = "popRead"
  BY DEF Typed
<1>3. \A u \in Threads : Own(u)' = Own(u)
  BY <1>1, <1>2 DEF Own, Pushing
<1>4. ReadsHold(h, L, t)'
  BY <1>2 DEF ReadsHold, Pushing
<1>. QED  BY <1>1, <1>3, <1>4, OthersReads, QuietStep

\* The compare-and-swap: the top node is the call's alone.
LEMMA PopStep ==
    ASSUME Typed, NEW h, NEW L, Core(h, L), NEW t \in Threads, Pop(t), topNode = oldTop[t]
    PROVE  \E j, M : /\ h = j + 1 /\ Core(j, M)'
                     /\ \A k \in 1..j : Items(j, M)'[k] = Items(h, L)[k + 1]
<1>. USE DEF Goto
<1>1. \A u \in Threads \ {t} : UNCHANGED <<pc[u], node[u], oldTop[u], newTop[u]>>
  BY DEF Typed, Pop
<1>2. /\ pc[t] = "pop" /\ pc'[t] = "popFree" /\ topNode' = newTop[t]
      /\ UNCHANGED <<poolVars, next, data, out, oldTop, node>>
  BY DEF Typed, Pop
<1>3. /\ h \in Nat /\ L \in [1..h -> Address] /\ topNode = IF h = 0 THEN Null ELSE L[1]
      /\ \A k \in 1..h : next[L[k][1]] = IF k = h THEN Null ELSE L[k + 1]
      /\ \A k, l \in 1..h : L[k][1] = L[l][1] => k = l
  BY DEF Core, Linked
<1>4. oldTop[t] \in Address /\ oldTop[t] # Null
  BY <1>2, NodeFacts DEF Core, ReadsHold
<1>5. h # 0 /\ 1 \in 1..h /\ L[1] = oldTop[t] /\ newTop[t] = next[L[1][1]]
  <2>1. h # 0
    BY <1>3, <1>4
  <2>2. 1 \in 1..h /\ L[1] = oldTop[t]
    BY <2>1, <1>3
  <2>. QED  BY <2>1, <2>2, <1>2 DEF Core, ReadsHold
<1>j. PICK j : j = h - 1
  OBVIOUS
<1>M. PICK M : M = [k \in 1..j |-> L[k + 1]]
  OBVIOUS
<1>6. /\ j \in Nat /\ h = j + 1 /\ M \in [1..j -> Address]
      /\ \A k \in 1..j : k + 1 \in 1..h /\ k + 1 # 1 /\ M[k] = L[k + 1]
      /\ \A k \in 1..h : k # 1 => k - 1 \in 1..j /\ M[k - 1] = L[k]
  <2>1. j \in Nat /\ h = j + 1
    BY <1>j, <1>3, <1>5
  <2>2. \A k \in 1..j : k + 1 \in 1..h /\ k + 1 # 1 /\ M[k] = L[k + 1]
    BY <2>1, <1>M
  <2>3. \A k \in 1..h : k # 1 => k - 1 \in 1..j /\ (k - 1) + 1 = k
    BY <2>1
  <2>. QED  BY <2>1, <2>2, <2>3, <1>3, <1>M
<1>7. /\ Own(t) = 0 /\ Own(t)' = L[1][1] /\ L[1][1] # 0
      /\ \A u \in Threads \ {t} : Own(u)' = Own(u)
  BY <1>1, <1>2, <1>4, <1>5, NodeFacts DEF Own, Pushing
<1>8. ASSUME NEW n PROVE Uses(j, M, n)' <=> Uses(h, L, n)
  <2>1. (\E k \in 1..h : L[k][1] = n) <=> n = L[1][1] \/ \E k \in 1..j : M[k][1] = n
    <3>1. ASSUME NEW k \in 1..h, L[k][1] = n
          PROVE  n = L[1][1] \/ \E l \in 1..j : M[l][1] = n
      BY <3>1, <1>6
    <3>2. ASSUME NEW k \in 1..j, M[k][1] = n PROVE \E l \in 1..h : L[l][1] = n
      <4>1. k + 1 \in 1..h /\ L[k + 1][1] = n
        BY <3>2, <1>6
      <4>. QED  BY <4>1
    <3>. QED  BY <3>1, <3>2, <1>5
  <2>2. Uses(j, M, n)' <=> \/ \E k \in 1..j : M[k][1] = n
                           \/ n # 0 /\ \E u \in Threads : Own(u)' = n
    BY DEF Uses
  <2>. QED  BY <2>1, <2>2, <1>7 DEF Uses
<1>9. Linked(j, M)'
  <2>1. \A k \in 1..j : next[M[k][1]] = IF k = j THEN Null ELSE M[k + 1]
    <3>. SUFFICES ASSUME NEW k \in 1..j
                 PROVE  next[M[k][1]] = IF k = j THEN Null ELSE M[k + 1]
      OBVIOUS
    <3>1. k + 1 = h <=> k = j
      BY <1>6
    <3>2. k # j => k + 1 \in 1..j
      BY <1>6
    <3>. QED  BY <3>1, <3>2, <1>3, <1>6
  <2>2. \A k, l \in 1..j : M[k][1] = M[l][1] => k = l
    <3>1. \A k, l \in 1..j : k + 1 = l + 1 => k = l
      BY <1>6
    <3>. QED  BY <3>1, <1>3, <1>6
  <2>3. topNode' = IF j = 0 THEN Null ELSE M[1]
    <3>1. j = 0 <=> h = 1
      BY <1>6
    <3>2. j # 0 => 1 \in 1..j
      BY <1>6
    <3>. QED  BY <3>1, <3>2, <1>2, <1>3, <1>5, <1>6
  <2>. QED  BY <2>1, <2>2, <2>3, <1>2, <1>6 DEF Linked
<1>10. NodesOwned(j, M)'
  <2>1. Pooled' = Pooled /\ created' = created
    BY <1>2 DEF poolVars, Pooled, InPool
  <2>2. \A u \in Threads : \A k \in 1..j : Own(u)' # M[k][1]
    <3>1. \A u \in Threads \ {t} : \A k \in 1..j : Own(u)' # M[k][1]
      BY <1>6, <1>7 DEF Core, NodesOwned
    <3>2. ASSUME NEW k \in 1..j PROVE Own(t)' # M[k][1]
      <4>1. k + 1 \in 1..h /\ k + 1 # 1 /\ M[k] = L[k + 1]
        BY <1>6
      <4>2. L[k + 1][1] # L[1][1]
        BY <4>1, <1>3, <1>5
      <4>. QED  BY <4>1, <4>2, <1>7
    <3>. QED  BY <3>1, <3>2
  <2>3. \A u, v \in Threads : Own(u)' = Own(v)' /\ Own(u)' # 0 => u = v
    <3>1. \A u \in Threads : Own(u) # L[1][1]
      BY <1>5 DEF Core, NodesOwned
    <3>. QED  BY <3>1, <1>7 DEF Core, NodesOwned
  <2>4. \A n : Uses(h, L, n) => n \in AllNodes /\ n \in 1..created /\ n \notin Pooled
    BY DEF Core, NodesOwned
  <2>. QED  BY <2>1, <2>2, <2>3, <2>4, <1>8 DEF NodesOwned
<1>11. IndexesCarried(j, M)'
  BY <1>2, <1>8 DEF Core, IndexesCarried
<1>12. ASSUME NEW u \in Threads PROVE ReadsHold(j, M, u)'
  <2>1. CASE u = t
    BY <2>1, <1>2, <1>4 DEF ReadsHold, Pushing
  <2>2. CASE u # t
    <3>1. ReadsHold(h, L, u) /\ (Pushing(u)' <=> Pushing(u))
      BY <2>2, <1>1 DEF Core, Pushing
    <3>2. ASSUME pc[u] = "pop", NEW k \in 1..j, oldTop[u] = M[k]
          PROVE  newTop[u] = next[M[k][1]]
      BY <3>1, <3>2, <1>6 DEF ReadsHold
    <3>. QED  BY <2>2, <3>1, <3>2, <1>1, <1>2 DEF ReadsHold
  <2>. QED  BY <2>1, <2>2
<1>13. Core(j, M)'
  BY <1>6, <1>9, <1>10, <1>11, <1>12 DEF Core
<1>14. \A k \in 1..j : Items(j, M)'[k] = data[M[k][1]]
  BY <1>2 DEF Items
<1>15. \A k \in 1..j : Items(h, L)[k + 1] = data[L[k + 1][1]]
  BY <1>6 DEF Items
<1>. QED  BY <1>6, <1>13, <1>14, <1>15

\* The node goes back to the pool, its index to the caller.
LEMMA PopFreeStep ==
    ASSUME Typed, PoolInv, NEW h, NEW L, Core(h, L), NEW t \in Threads, PopFree(t)
    PROVE  PoolInv' /\ Core(h, L)' /\ Items(h, L)' = Items(h, L)
<1>. DEFINE n == oldTop[t][1]
<1>. USE DEF PopFree, Goto, Return, stackVars
<1>1. \A u \in Threads \ {t} : UNCHANGED <<pc[u], node[u], oldTop[u], newTop[u]>>
  BY DEF Typed
<1>2. /\ pc[t] = "popFree" /\ pc'[t] = "idle" /\ out' = out \cup {data[n]}
      /\ UNCHANGED <<topNode, next, data>> /\ Free(t, n)
  BY DEF Typed
<1>3. Own(t) = n
  BY <1>2 DEF Own, Pushing
<1>4. /\ n \in AllNodes /\ n # 0 /\ Uses(h, L, n)
      /\ \A k \in 1..h : L[k][1] # n
      /\ \A u \in Threads \ {t} : Own(u) # n
  BY <1>2, <1>3, OwnApart
<1>. HIDE DEF n
<1>5. n \in 1..created /\ n \notin Pooled
  BY <1>4 DEF Core, NodesOwned
<1>6. PoolInv' /\ Pooled' = Pooled \cup {n} /\ created' = created
  BY <1>2, <1>5, FreePutsIn
<1>7. Own(t)' = 0 /\ \A u \in Threads \ {t} : Own(u)' = Own(u)
  BY <1>1, <1>2 DEF Own, Pushing
<1>8. ASSUME NEW m PROVE Uses(h, L, m)' <=> Uses(h, L, m) /\ m # n
  BY <1>3, <1>4, <1>7 DEF Uses
<1>9. Linked(h, L)'
  BY <1>2 DEF Core, Linked
<1>10. NodesOwned(h, L)'
  <2>1. \A m : Uses(h, L, m) => m \in AllNodes /\ m \in 1..created /\ m \notin Pooled
    BY DEF Core, NodesOwned
  <2>2. \A u \in Threads : \A k \in 1..h : Own(u)' # L[k][1]
    <3>1. \A k \in 1..h : L[k][1] # 0
      BY NodeFacts DEF Core, Linked
    <3>. QED  BY <3>1, <1>7 DEF Core, NodesOwned
  <2>3. \A u, v \in Threads : Own(u)' = Own(v)' /\ Own(u)' # 0 => u = v
    BY <1>7 DEF Core, NodesOwned
  <2>. QED  BY <2>1, <2>2, <2>3, <1>6, <1>8 DEF NodesOwned
<1>11. IndexesCarried(h, L)'
  <2>1. /\ \A m : Uses(h, L, m) => data[m] \in Indexes \ out
        /\ \A m, k : Uses(h, L, m) /\ Uses(h, L, k) /\ data[m] = data[k] => m = k
        /\ \A i \in Indexes \ out : \E m : Uses(h, L, m) /\ data[m] = i
    BY DEF Core, IndexesCarried
  <2>2. \A m : Uses(h, L, m)' => data'[m] \in Indexes \ out'
    BY <2>1, <1>2, <1>4, <1>8
  <2>3. \A m, k : Uses(h, L, m)' /\ Uses(h, L, k)' /\ data'[m] = data'[k] => m = k
    BY <2>1, <1>2, <1>8
  <2>4. \A i \in Indexes \ out' : \E m : Uses(h, L, m)' /\ data'[m] = i
    BY <2>1, <1>2, <1>8
  <2>. QED  BY <2>2, <2>3, <2>4 DEF IndexesCarried
<1>12. ReadsHold(h, L, t)'
  BY <1>2 DEF ReadsHold, Pushing
<1>13. \A u \in Threads : ReadsHold(h, L, u)'
  BY <1>1, <1>2, <1>12, OthersReads
<1>14. Items(h, L)' = Items(h, L)
  BY <1>2 DEF Items
<1>. QED  BY <1>6, <1>9, <1>10, <1>11, <1>13, <1>14 DEF Core

-----------------------------------------------------------------------------
(* Every step.                                                             *)

\* What a step of the code does to the stack: nothing, a push or a pop.
Kept(h, L) == Core(h, L)' /\ Items(h, L)' = Items(h, L)
Pushed(h, L) ==
    \E j, M : /\ j = h + 1 /\ Core(j, M)'
              /\ \A k \in 1..h : Items(j, M)'[k + 1] = Items(h, L)[k]
              /\ \E i \in Indexes : /\ Items(j, M)'[1] = i
                                    /\ \A k \in 1..h : Items(h, L)[k] # i
Popped(h, L) ==
    \E j, M : /\ h = j + 1 /\ Core(j, M)'
              /\ \A k \in 1..j : Items(j, M)'[k] = Items(h, L)[k + 1]

LEMMA CoreNext ==
    ASSUME Typed, PoolInv, NoTagReuse, NEW h, NEW L, Core(h, L), [Next]_vars
    PROVE  PoolInv' /\ (Kept(h, L) \/ Pushed(h, L) \/ Popped(h, L))
<1>. DEFINE Goal == PoolInv' /\ (Kept(h, L) \/ Pushed(h, L) \/ Popped(h, L))
<1>0. UNCHANGED poolVars => PoolInv'
  BY DEF poolVars, PoolInv, PoolTyped, PoolApart, Pooled, InPool
<1>1. ASSUME NEW t \in Threads, NEW index \in Indexes, BeginPush(t, index) PROVE Goal
  BY <1>1, BeginPushStep DEF Kept
<1>2. ASSUME NEW t \in Threads, PushReadTop(t) PROVE Goal
  BY <1>0, <1>2, PushReadTopStep DEF Kept, PushReadTop
<1>3. ASSUME NEW t \in Threads, PushSetNext(t) PROVE Goal
  BY <1>0, <1>3, PushSetNextStep DEF Kept, PushSetNext
<1>4. ASSUME NEW t \in Threads, Push(t) PROVE Goal
  <2>1. PoolInv'
    BY <1>0, <1>4 DEF Push
  <2>2. CASE topNode = oldTop[t]
    BY <1>4, <2>1, <2>2, PushStep DEF Pushed
  <2>3. CASE topNode # oldTop[t]
    BY <1>4, <2>1, <2>3, PushAgainStep DEF Kept
  <2>. QED  BY <2>2, <2>3
<1>5. ASSUME NEW t \in Threads, PopReadTop(t) PROVE Goal
  BY <1>0, <1>5, PopReadTopStep DEF Kept, PopReadTop
<1>6. ASSUME NEW t \in Threads, PopReadNext(t) PROVE Goal
  BY <1>0, <1>6, PopReadNextStep DEF Kept, PopReadNext
<1>7. ASSUME NEW t \in Threads, Pop(t) PROVE Goal
  <2>1. PoolInv'
    BY <1>0, <1>7 DEF Pop
  <2>2. CASE topNode = oldTop[t]
    BY <1>7, <2>1, <2>2, PopStep DEF Popped
  <2>3. CASE topNode # oldTop[t]
    BY <1>7, <2>1, <2>3, PopAgainStep DEF Kept
  <2>. QED  BY <2>2, <2>3
<1>8. ASSUME NEW t \in Threads, PopFree(t) PROVE Goal
  BY <1>8, PopFreeStep DEF Kept
<1>9. ASSUME UNCHANGED vars PROVE Goal
  <2>. USE <1>9 DEF vars, stackVars
  <2>1. \A t \in Threads : Own(t)' = Own(t)
    BY DEF Own, Pushing
  <2>2. \A t \in Threads : ReadsHold(h, L, t)'
    BY DEF Core, ReadsHold, Pushing
  <2>. QED  BY <1>0, <2>1, <2>2, QuietStep DEF Kept
<1>. QED  BY <1>1, <1>2, <1>3, <1>4, <1>5, <1>6, <1>7, <1>8, <1>9 DEF Next

LEMMA TypedNext ==
    ASSUME Typed, NEW h, NEW L, Core(h, L), [Next]_vars
    PROVE  Typed'
<1>1. ASSUME NEW t \in Threads, NEW index \in Indexes, BeginPush(t, index) PROVE Typed'
  <2>1. PICK n \in AllNodes : /\ data' = [data EXCEPT ![n] = index]
                              /\ node' = [node EXCEPT ![t] = Tagged(n, allocCnt')]
    BY <1>1 DEF BeginPush
  <2>2. allocCnt' \in Nat /\ Tagged(n, allocCnt') \in Pointer
    BY <1>1, TaggedIsAddress DEF BeginPush, Typed, Pointer
  <2>3. data' \in [AllNodes -> Nat]
    BY <2>1 DEF Typed, Indexes
  <2>. QED  BY <1>1, <2>1, <2>2, <2>3 DEF BeginPush, Goto, Typed, PushSteps
<1>2. ASSUME NEW t \in Threads, PushReadTop(t) PROVE Typed'
  BY <1>2 DEF PushReadTop, Goto, Typed, PushSteps, stackVars
<1>3. ASSUME NEW t \in Threads, PushSetNext(t) PROVE Typed'
  BY <1>3 DEF PushSetNext, Goto, Typed, PushSteps
<1>4. ASSUME NEW t \in Threads, Push(t) PROVE Typed'
  <2>1. CASE topNode = oldTop[t]
    <3>1. /\ topNode' = node[t] /\ Return(t, "push")
          /\ UNCHANGED <<allocCnt, next, data, out>>
      BY <1>4, <2>1 DEF Push
    <3>. QED  BY <3>1, NodeFacts DEF Goto, Return, Typed
  <2>2. CASE topNode # oldTop[t]
    BY <1>4, <2>2 DEF Push, Goto, Typed, PushSteps, stackVars
  <2>. QED  BY <2>1, <2>2
<1>5. ASSUME NEW t \in Threads, PopReadTop(t) PROVE Typed'
  BY <1>5, NodeFacts DEF PopReadTop, Goto, Return, Typed, PopSteps, stackVars
<1>6. ASSUME NEW t \in Threads, PopReadNext(t) PROVE Typed'
  <2>1. oldTop[t][1] \in AllNodes
    BY <1>6, NodeFacts DEF PopReadNext, Goto, Core, ReadsHold
  <2>. QED  BY <1>6, <2>1 DEF PopReadNext, Goto, Typed, PopSteps, stackVars
<1>7. ASSUME NEW t \in Threads, Pop(t) PROVE Typed'
  BY <1>7 DEF Pop, Goto, Typed, PopSteps, stackVars
<1>8. ASSUME NEW t \in Threads, PopFree(t) PROVE Typed'
  <2>1. pc[t] = "popFree" /\ Own(t) = oldTop[t][1]
    BY <1>8 DEF PopFree, Return, Goto, Own, Pushing
  <2>2. data[oldTop[t][1]] \in Indexes
    BY <2>1, OwnApart DEF Core, IndexesCarried
  <2>. QED  BY <1>8, <2>2, NodeFacts DEF PopFree, Goto, Return, Typed, stackVars
<1>9. ASSUME UNCHANGED vars PROVE Typed'
  BY <1>9 DEF vars, stackVars, Typed
<1>. QED  BY <1>1, <1>2, <1>3, <1>4, <1>5, <1>6, <1>7, <1>8, <1>9 DEF Next

\* The indexes of the sessions, pushed by the constructor, the last first.
LEMMA CoreStart ==
    ASSUME Init
    PROVE  /\ Typed /\ PoolInv
           /\ \E L : Core(IndexCount, L) /\ \A k \in Indexes : Items(IndexCount, L)[k] = k
<1>. DEFINE I == IndexCount
<1>. USE DEF Init
<1>L. PICK L : L = [k \in 1..I |-> Tagged(I + 1 - k, I + 1 - k)]
  OBVIOUS
<1>1. I \in Nat \ {0} /\ Indexes = 1..I /\ Indexes \subseteq AllNodes
  BY NodeFacts DEF Indexes
<1>2. PoolInv /\ Pooled = {} /\ created = I
  BY <1>1, PoolStart
<1>3. \A k \in 1..I : I + 1 - k \in 1..I /\ I + 1 - (I + 1 - k) = k
  BY <1>1
<1>4. /\ L \in [1..I -> Address]
      /\ \A k \in 1..I : L[k][1] = I + 1 - k /\ L[k] = Tagged(I + 1 - k, I + 1 - k)
  <2>1. \A k \in 1..I : /\ Tagged(I + 1 - k, I + 1 - k) \in Address
                        /\ Tagged(I + 1 - k, I + 1 - k)[1] = I + 1 - k
    BY <1>1, <1>3, TaggedIsAddress
  <2>. QED  BY <2>1, <1>L
<1>5. \A k \in 1..I : next[L[k][1]] = IF k = I THEN Null ELSE L[k + 1]
  <2>. SUFFICES ASSUME NEW k \in 1..I PROVE next[L[k][1]] = IF k = I THEN Null ELSE L[k + 1]
    OBVIOUS
  <2>1. next[I + 1 - k] = IF I + 1 - k \in 2..I THEN Tagged(I - k, I - k) ELSE Null
    <3>1. I + 1 - k \in AllNodes /\ (I + 1 - k) - 1 = I - k
      BY <1>1, <1>3
    <3>. QED  BY <3>1
  <2>2. k # I => k + 1 \in 1..I /\ I + 1 - (k + 1) = I - k
    BY <1>1
  <2>3. I + 1 - k \in 2..I <=> k # I
    BY <1>1
  <2>. QED  BY <2>1, <2>2, <2>3, <1>4
<1>6. topNode = L[1] /\ I # 0
  <2>1. 1 \in 1..I /\ I + 1 - 1 = I
    BY <1>1
  <2>. QED  BY <2>1, <1>1, <1>4
<1>7. \A k, l \in 1..I : L[k][1] = L[l][1] => k = l
  <2>1. \A k, l \in 1..I : I + 1 - k = I + 1 - l => k = l
    BY <1>1
  <2>. QED  BY <2>1, <1>4
<1>8. Linked(I, L)
  BY <1>4, <1>5, <1>6, <1>7 DEF Linked
<1>9. \A t \in Threads : Own(t) = 0 /\ ~Pushing(t) /\ pc[t] = "idle"
  BY DEF Own, Pushing
<1>10. \A n : Uses(I, L, n) <=> n \in 1..I
  <2>1. \A n : (\E k \in 1..I : L[k][1] = n) <=> n \in 1..I
    BY <1>3, <1>4
  <2>. QED  BY <2>1, <1>9 DEF Uses
<1>11. NodesOwned(I, L)
  <2>1. \A k \in 1..I : L[k][1] # 0
    BY <1>4, NodeFacts
  <2>2. \A n : Uses(I, L, n) => n \in AllNodes /\ n \in 1..created /\ n \notin Pooled
    BY <1>1, <1>2, <1>10
  <2>. QED  BY <2>1, <2>2, <1>9 DEF NodesOwned
<1>12. \A n \in 1..I : data[n] = I + 1 - n
  BY <1>1
<1>13. IndexesCarried(I, L)
  <2>1. \A n : Uses(I, L, n) => data[n] \in Indexes \ out
    BY <1>1, <1>3, <1>10, <1>12
  <2>2. \A m, n : Uses(I, L, m) /\ Uses(I, L, n) /\ data[m] = data[n] => m = n
    <3>1. \A k, l \in 1..I : I + 1 - k = I + 1 - l => k = l
      BY <1>1
    <3>. QED  BY <3>1, <1>10, <1>12
  <2>3. \A i \in Indexes \ out : \E n : Uses(I, L, n) /\ data[n] = i
    BY <1>1, <1>3, <1>10, <1>12
  <2>. QED  BY <2>1, <2>2, <2>3 DEF IndexesCarried
<1>14. \A t \in Threads : ReadsHold(I, L, t)
  BY <1>9 DEF ReadsHold
<1>15. \A k \in Indexes : Items(I, L)[k] = k
  BY <1>1, <1>3, <1>4, <1>12 DEF Items
<1>16. Typed
  <2>1. topNode \in Pointer /\ allocCnt \in Nat
    BY <1>1, <1>4, <1>6 DEF Pointer
  <2>2. next \in [AllNodes -> Pointer]
    <3>1. \A n \in 2..I : n - 1 \in Nat /\ n - 1 \in AllNodes
      BY <1>1
    <3>2. \A n \in 2..I : Tagged(n - 1, n - 1) \in Pointer
      BY <3>1, TaggedIsAddress DEF Pointer
    <3>. QED  BY <3>2, NodeFacts
  <2>3. data \in [AllNodes -> Nat]
    <3>1. \A n \in Indexes : I + 1 - n \in Nat
      BY <1>1
    <3>. QED  BY <3>1
  <2>. QED  BY <2>1, <2>2, <2>3, NodeFacts DEF Typed
<1>. QED  BY <1>1, <1>2, <1>8, <1>11, <1>13, <1>14, <1>15, <1>16 DEF Core

LEMMA IInvStart == Init => IInv
BY CoreStart DEF IInv

LEMMA IInvNext == IInv /\ NoTagReuse /\ [Next]_vars => IInv'
<1>. SUFFICES ASSUME IInv, NoTagReuse, [Next]_vars PROVE IInv'
  OBVIOUS
<1>1. PICK h, L : Core(h, L)
  BY DEF IInv
<1>2. Typed' /\ PoolInv'
  BY <1>1, TypedNext, CoreNext DEF IInv
<1>3. Kept(h, L) \/ Pushed(h, L) \/ Popped(h, L)
  BY <1>1, CoreNext DEF IInv
<1>4. CASE Kept(h, L)
  BY <1>2, <1>4 DEF IInv, Kept
<1>5. CASE Pushed(h, L)
  <2>1. PICK j, M : Core(j, M)'
    BY <1>5 DEF Pushed
  <2>. QED  BY <1>2, <2>1 DEF IInv
<1>6. CASE Popped(h, L)
  <2>1. PICK j, M : Core(j, M)'
    BY <1>6 DEF Popped
  <2>. QED  BY <1>2, <2>1 DEF IInv
<1>. QED  BY <1>3, <1>4, <1>5, <1>6

\* The inductive invariant of the stack, as long as no Pop finds the pointer it
\* read pushed again with the same tag.
THEOREM SpecIInv == Spec /\ []NoTagReuse => []IInv
BY IInvStart, IInvNext, PTL DEF Spec

-----------------------------------------------------------------------------
(* What the invariant says of the contents.                                *)

LEMMA LeastOf ==
    ASSUME NEW S, S \subseteq Nat, S # {}
    PROVE  \E m \in S : \A x \in S : m <= x
<1>. DEFINE R == OpToRel(<, Nat)
<1>1. \A x, y \in Nat : x < y => <<x, y>> \in R
  BY Zenon DEF OpToRel
<1>2. IsWellFoundedOn(R, Nat)
  BY NatLessThanWellFounded
<1>. HIDE DEF R
<1>3. PICK m \in S : \A y \in S : ~(<<y, m>> \in R)
  BY <1>2, WFMin
<1>4. ASSUME NEW y \in S PROVE m <= y
  <2>1. m \in Nat /\ y \in Nat
    OBVIOUS
  <2>2. ~(y < m)
    BY <1>1, <1>3, <2>1
  <2>. QED  BY <2>1, <2>2
<1>. QED  BY <1>4

LEMMA FollowLinks ==
    ASSUME NEW h, NEW L, Core(h, L)
    PROVE  /\ DOMAIN Follow = 1..(Cardinality(AllNodes) + 1) /\ h <= Cardinality(AllNodes)
           /\ \A n \in DOMAIN Follow : Follow[n] = IF n <= h THEN L[n][1] ELSE 0
<1>. DEFINE C == Cardinality(AllNodes)
            S == 1..(C + 1)
            G(f) == [n \in S |-> IF n = 1 THEN topNode[1]
                                 ELSE LET m == f[n - 1] IN IF m = 0 THEN 0 ELSE next[m][1]]
            g == [n \in S |-> IF n <= h THEN L[n][1] ELSE 0]
<1>1. /\ h \in Nat /\ L \in [1..h -> Address] /\ topNode = IF h = 0 THEN Null ELSE L[1]
      /\ \A k \in 1..h : next[L[k][1]] = IF k = h THEN Null ELSE L[k + 1]
      /\ \A k, l \in 1..h : L[k][1] = L[l][1] => k = l
  BY DEF Core, Linked
<1>2. C \in Nat /\ IsFiniteSet(AllNodes) /\ 1 \in S
  BY NodeFacts
<1>3. h <= C
  <2>. DEFINE e == [k \in 1..h |-> L[k][1]]
  <2>1. e \in Injection(1..h, AllNodes)
    BY <1>1, NodeFacts DEF Injection, IsInjective
  <2>2. Cardinality(1..h) <= Cardinality(AllNodes)
    BY <2>1, <1>2, FS_Injection
  <2>3. Cardinality(1..h) = h
    BY <1>1, FS_Interval
  <2>. QED  BY <2>2, <2>3
<1>4. \A k \in 1..h : L[k][1] # 0
  BY <1>1, NodeFacts
<1>5. g = G(g)
  <2>. SUFFICES ASSUME NEW n \in S
               PROVE  g[n] = IF n = 1 THEN topNode[1]
                             ELSE IF g[n - 1] = 0 THEN 0 ELSE next[g[n - 1]][1]
    OBVIOUS
  <2>1. CASE n = 1
    <3>1. h = 0 => g[n] = 0 /\ topNode[1] = 0
      BY <2>1, <1>1, <1>2, NodeFacts
    <3>2. h # 0 => 1 \in 1..h /\ g[n] = L[1][1] /\ topNode = L[1]
      BY <2>1, <1>1, <1>2
    <3>. QED  BY <2>1, <3>1, <3>2
  <2>2. CASE n # 1
    <3>1. n - 1 \in S /\ (n - 1) + 1 = n
      BY <2>2, <1>2
    <3>2. CASE n - 1 <= h
      <4>1. n - 1 \in 1..h /\ g[n - 1] = L[n - 1][1]
        BY <3>1, <3>2, <1>1
      <4>2. next[g[n - 1]] = IF n - 1 = h THEN Null ELSE L[n]
        BY <4>1, <3>1, <1>1
      <4>3. n - 1 = h => g[n] = 0
        BY <3>1, <1>1, <1>2
      <4>4. n - 1 # h => g[n] = L[n][1]
        BY <3>1, <3>2, <1>1, <1>2
      <4>. QED  BY <2>2, <4>1, <4>2, <4>3, <4>4, <1>4, NodeFacts
    <3>3. CASE ~(n - 1 <= h)
      <4>1. ~(n <= h)
        BY <3>1, <3>3, <1>1, <1>2
      <4>. QED  BY <2>2, <3>1, <3>3, <4>1
    <3>. QED  BY <3>2, <3>3
  <2>. QED  BY <2>1, <2>2
<1>. HIDE DEF g
<1>6. Follow = G(Follow)
  <2>1. Follow = CHOOSE f : f = G(f)
    BY DEF Follow
  <2>. HIDE DEF G
  <2>. QED  BY <2>1, <1>5
<1>. DEFINE D == {n \in S : Follow[n] # g[n]}
<1>7. D = {}
  <2>. SUFFICES ASSUME D # {} PROVE FALSE
    OBVIOUS
  <2>1. PICK m \in D : \A x \in D : m <= x
    <3>1. D \subseteq Nat
      BY <1>2
    <3>. QED  BY <3>1, LeastOf
  <2>2. m \in S /\ Follow[m] # g[m]
    BY <2>1
  <2>3. CASE m = 1
    BY <2>2, <2>3, <1>5, <1>6
  <2>4. CASE m # 1
    <3>1. m - 1 \in S /\ ~(m <= m - 1)
      BY <2>2, <2>4, <1>2
    <3>2. Follow[m - 1] = g[m - 1]
      BY <2>1, <3>1
    <3>3. Follow[m] = G(Follow)[m] /\ g[m] = G(g)[m]
      BY <1>5, <1>6
    <3>. QED  BY <2>2, <2>4, <3>2, <3>3
  <2>. QED  BY <2>3, <2>4
<1>8. DOMAIN Follow = S
  BY <1>6
<1>. QED  BY <1>3, <1>7, <1>8 DEF g

\* The contents, given the pointers of the stack.
ContentsLinked ==
    \A h, L : Core(h, L) => /\ h \in Nat /\ Height = h /\ Len(Contents) = h
                            /\ Contents \in Seq(Indexes) /\ Contents = Items(h, L)
                            /\ \A k \in 1..h : Contents[k] = data[L[k][1]]

LEMMA ContentsAreItems == ContentsLinked
<1>. SUFFICES ASSUME NEW h, NEW L, Core(h, L)
     PROVE  /\ h \in Nat /\ Height = h /\ Len(Contents) = h
            /\ Contents \in Seq(Indexes) /\ Contents = Items(h, L)
            /\ \A k \in 1..h : Contents[k] = data[L[k][1]]
  BY DEF ContentsLinked
<1>1. /\ h \in Nat /\ L \in [1..h -> Address]
      /\ DOMAIN Follow = 1..(Cardinality(AllNodes) + 1) /\ h <= Cardinality(AllNodes)
      /\ \A n \in DOMAIN Follow : Follow[n] = IF n <= h THEN L[n][1] ELSE 0
  BY FollowLinks DEF Core, Linked
<1>2. \A k \in 1..h : k \in DOMAIN Follow /\ Follow[k] = L[k][1] /\ L[k][1] # 0
  BY <1>1, NodeFacts
<1>3. {n \in DOMAIN Follow : Follow[n] # 0} = 1..h
  BY <1>1, <1>2
<1>4. Height = h
  <2>1. Cardinality(1..h) = h
    BY <1>1, FS_Interval
  <2>. QED  BY <1>3, <2>1 DEF Height
<1>5. Contents = Items(h, L) /\ \A k \in 1..h : Contents[k] = data[L[k][1]]
  BY <1>1, <1>2, <1>4 DEF Contents, Items
<1>6. \A k \in 1..h : data[L[k][1]] \in Indexes
  BY DEF Core, IndexesCarried, Uses
<1>7. Items(h, L) \in [1..h -> Indexes]
  BY <1>6 DEF Items
<1>8. Items(h, L) \in Seq(Indexes) /\ Len(Items(h, L)) = h
  <2>. DEFINE s == Items(h, L)
  <2>. HIDE DEF s
  <2>1. s \in [1..h -> Indexes]
    BY <1>7 DEF s
  <2>. QED  BY <2>1, <1>1 DEF s
<1>. QED  BY <1>1, <1>4, <1>5, <1>8

LEMMA OneOf ==
    ASSUME NEW S
    PROVE  /\ S = {} => Cardinality(S) = 0
           /\ (\E x \in S : \A y \in S : y = x) => Cardinality(S) = 1
<1>1. ASSUME NEW x \in S, \A y \in S : y = x PROVE Cardinality(S) = 1
  <2>1. S = {x}
    BY <1>1
  <2>. QED  BY <2>1, FS_Singleton
<1>. QED  BY <1>1, FS_EmptySet

LEMMA IndexOnceHolds == IInv => IndexOnce
<1>. SUFFICES ASSUME IInv, NEW i \in Indexes
     PROVE  1 = Cardinality({k \in 1..Height : Contents[k] = i})
                + (IF i \in out THEN 1 ELSE 0)
                + Cardinality({t \in Threads : Pushing(t) /\ data[node[t][1]] = i})
                + Cardinality({t \in Threads : pc[t] = "popFree" /\ data[oldTop[t][1]] = i})
  BY DEF IndexOnce
<1>1. PICK h, L : Core(h, L)
  BY DEF IInv
<1>. DEFINE A == {k \in 1..Height : Contents[k] = i}
            B == {t \in Threads : Pushing(t) /\ data[node[t][1]] = i}
            E == {t \in Threads : pc[t] = "popFree" /\ data[oldTop[t][1]] = i}
<1>2. A = {k \in 1..h : data[L[k][1]] = i}
  BY <1>1, ContentsAreItems DEF ContentsLinked
<1>3. /\ \A k \in 1..h : Uses(h, L, L[k][1])
      /\ \A t \in B : Uses(h, L, Own(t)) /\ Own(t) = node[t][1] /\ Own(t) # 0
      /\ \A t \in E : Uses(h, L, Own(t)) /\ Own(t) = oldTop[t][1] /\ Own(t) # 0
  BY <1>1, OwnApart DEF Uses, Own, Pushing
<1>4. /\ \A n : Uses(h, L, n) => data[n] \in Indexes \ out
      /\ \A m, n : Uses(h, L, m) /\ Uses(h, L, n) /\ data[m] = data[n] => m = n
      /\ \A j \in Indexes \ out : \E n : Uses(h, L, n) /\ data[n] = j
  BY <1>1 DEF Core, IndexesCarried
<1>5. CASE i \in out
  <2>1. A = {} /\ B = {} /\ E = {}
    BY <1>2, <1>3, <1>4, <1>5
  <2>. HIDE DEF A, B, E
  <2>2. Cardinality(A) = 0 /\ Cardinality(B) = 0 /\ Cardinality(E) = 0
    BY <2>1, OneOf
  <2>. QED  BY <2>2, <1>5 DEF A, B, E
<1>6. CASE i \notin out
  <2>1. PICK n : Uses(h, L, n) /\ data[n] = i
    BY <1>4, <1>6
  <2>2. /\ \A k \in A : k \in 1..h /\ L[k][1] = n
        /\ \A t \in B : t \in Threads /\ Own(t) = n /\ n # 0 /\ Pushing(t)
        /\ \A t \in E : t \in Threads /\ Own(t) = n /\ n # 0 /\ pc[t] = "popFree"
    <3>1. \A k \in A : k \in 1..h /\ data[L[k][1]] = i
      BY <1>2
    <3>2. /\ \A t \in B : t \in Threads /\ Pushing(t) /\ data[Own(t)] = i
          /\ \A t \in E : t \in Threads /\ pc[t] = "popFree" /\ data[Own(t)] = i
      BY <1>3
    <3>3. /\ \A t \in B : Uses(h, L, Own(t)) /\ Own(t) # 0
          /\ \A t \in E : Uses(h, L, Own(t)) /\ Own(t) # 0
      BY <1>3
    <3>4. \A m : Uses(h, L, m) /\ data[m] = i => m = n
      BY <2>1, <1>4
    <3>5. \A k \in A : L[k][1] = n
      BY <3>1, <3>4, <1>3
    <3>. HIDE DEF A, B, E
    <3>. QED  BY <3>1, <3>2, <3>3, <3>4, <3>5
  <2>3. /\ \A k, l \in 1..h : L[k][1] = L[l][1] => k = l
        /\ \A t \in Threads : \A k \in 1..h : Own(t) # L[k][1]
        /\ \A t, u \in Threads : Own(t) = Own(u) /\ Own(t) # 0 => t = u
    BY <1>1 DEF Core, Linked, NodesOwned
  <2>4. \A t \in Threads : ~(Pushing(t) /\ pc[t] = "popFree")
    BY DEF Pushing
  <2>5. CASE \E k \in 1..h : L[k][1] = n
    <3>1. PICK k \in 1..h : L[k][1] = n
      BY <2>5
    <3>2. k \in A /\ \A l \in A : l = k
      BY <3>1, <2>1, <2>2, <2>3, <1>2
    <3>3. B = {} /\ E = {}
      BY <3>1, <2>2, <2>3
    <3>. HIDE DEF A, B, E
    <3>4. Cardinality(A) = 1 /\ Cardinality(B) = 0 /\ Cardinality(E) = 0
      BY <3>2, <3>3, OneOf
    <3>. QED  BY <3>4, <1>6 DEF A, B, E
  <2>6. CASE n # 0 /\ \E t \in Threads : Own(t) = n
    <3>1. PICK t \in Threads : Own(t) = n /\ n # 0
      BY <2>6
    <3>2. A = {}
      BY <3>1, <2>2, <2>3
    <3>3. CASE Pushing(t)
      <4>1. t \in B /\ (\A u \in B : u = t) /\ E = {}
        BY <3>1, <3>3, <2>1, <2>2, <2>3, <2>4 DEF Own
      <4>. HIDE DEF A, B, E
      <4>2. Cardinality(A) = 0 /\ Cardinality(B) = 1 /\ Cardinality(E) = 0
        BY <3>2, <4>1, OneOf
      <4>. QED  BY <4>2, <1>6 DEF A, B, E
    <3>4. CASE ~Pushing(t)
      <4>1. pc[t] = "popFree" /\ Own(t) = oldTop[t][1]
        BY <3>1, <3>4 DEF Own
      <4>2. t \in E /\ (\A u \in E : u = t) /\ B = {}
        BY <4>1, <3>1, <3>4, <2>1, <2>2, <2>3, ZenonT(60)
      <4>. HIDE DEF A, B, E
      <4>3. Cardinality(A) = 0 /\ Cardinality(B) = 0 /\ Cardinality(E) = 1
        BY <3>2, <4>2, OneOf
      <4>. QED  BY <4>3, <1>6 DEF A, B, E
    <3>. QED  BY <3>3, <3>4
  <2>. QED  BY <2>1, <2>5, <2>6 DEF Uses
<1>. QED  BY <1>5, <1>6

-----------------------------------------------------------------------------
(* The refinement of IndexStack.                                           *)

LEMMA ConsIs ==
    ASSUME NEW S, NEW s \in Seq(S), NEW m \in Seq(S), Len(m) = Len(s) + 1,
           \A k \in 1..Len(s) : m[k + 1] = s[k]
    PROVE  m = <<m[1]>> \o s
<1>. DEFINE c == <<m[1]>> \o s
<1>1. Len(s) \in Nat /\ m[1] \in S
  BY LenProperties, ElementOfSeq
<1>2. c \in Seq(S) /\ Len(c) = Len(s) + 1 /\ c[1] = m[1] /\ \A k \in 1..Len(s) : c[k + 1] = s[k]
  BY <1>1
<1>. HIDE DEF c
<1>3. \A k \in 1..Len(m) : k = 1 \/ (k - 1 \in 1..Len(s) /\ (k - 1) + 1 = k)
  BY <1>1
<1>4. ASSUME NEW k \in 1..Len(m) PROVE m[k] = c[k]
  <2>1. CASE k = 1
    BY <1>2, <2>1
  <2>2. CASE k # 1
    <3>1. PICK j \in 1..Len(s) : k = j + 1
      BY <1>3, <2>2
    <3>. QED  BY <1>2, <3>1
  <2>. QED  BY <2>1, <2>2
<1>5. m = c
  BY <1>2, <1>4, SeqEqual
<1>. QED  BY <1>5 DEF c

LEMMA TailIs ==
    ASSUME NEW S, NEW s \in Seq(S), NEW m \in Seq(S), Len(s) = Len(m) + 1,
           \A k \in 1..Len(m) : m[k] = s[k + 1]
    PROVE  s # <<>> /\ m = Tail(s)
<1>1. Len(m) \in Nat
  BY LenProperties
<1>2. s # <<>>
  BY <1>1
<1>3. Tail(s) \in Seq(S) /\ Len(Tail(s)) = Len(m) /\ \A k \in 1..Len(m) : Tail(s)[k] = s[k + 1]
  BY <1>1, <1>2, HeadTailProperties
<1>. QED  BY <1>2, <1>3, SeqEqual

LEMMA LifoStart == Init /\ ContentsLinked => Lifo!Init
<1>. SUFFICES ASSUME Init, ContentsLinked PROVE Lifo!Init
  OBVIOUS
<1>1. PICK L : Core(IndexCount, L) /\ \A k \in Indexes : Items(IndexCount, L)[k] = k
  BY CoreStart
<1>2. /\ Contents \in Seq(Indexes) /\ Len(Contents) = IndexCount
      /\ \A k \in Indexes : Contents[k] = k
  BY <1>1 DEF ContentsLinked
<1>3. DOMAIN Contents = Indexes
  BY <1>2, LenProperties DEF Indexes
<1>. QED  BY <1>2, <1>3 DEF Lifo!Init

LEMMA LifoStep ==
    IInv /\ NoTagReuse /\ ContentsLinked /\ ContentsLinked' /\ [Next]_vars => [Lifo!Next]_Contents
<1>. SUFFICES ASSUME IInv, NoTagReuse, ContentsLinked, ContentsLinked', [Next]_vars
     PROVE  [Lifo!Next]_Contents
  OBVIOUS
<1>1. PICK h, L : Core(h, L)
  BY DEF IInv
<1>2. /\ h \in Nat /\ Len(Contents) = h /\ Contents \in Seq(Indexes) /\ Contents = Items(h, L)
  BY <1>1 DEF ContentsLinked
<1>3. ASSUME NEW j, NEW M, Core(j, M)'
      PROVE  /\ j \in Nat /\ Len(Contents') = j /\ Contents' \in Seq(Indexes)
             /\ Contents' = Items(j, M)'
  BY <1>3 DEF ContentsLinked
<1>4. Kept(h, L) \/ Pushed(h, L) \/ Popped(h, L)
  BY <1>1, CoreNext DEF IInv
<1>5. CASE Kept(h, L)
  BY <1>2, <1>3, <1>5 DEF Kept
<1>6. CASE Pushed(h, L)
  <2>1. PICK j, M : /\ j = h + 1 /\ Core(j, M)'
                    /\ \A k \in 1..h : Items(j, M)'[k + 1] = Items(h, L)[k]
                    /\ \E i \in Indexes : /\ Items(j, M)'[1] = i
                                          /\ \A k \in 1..h : Items(h, L)[k] # i
    BY <1>6 DEF Pushed
  <2>2. PICK i \in Indexes : Items(j, M)'[1] = i /\ \A k \in 1..h : Items(h, L)[k] # i
    BY <2>1
  <2>3. /\ Len(Contents') = Len(Contents) + 1 /\ Contents' \in Seq(Indexes)
        /\ \A k \in 1..Len(Contents) : Contents'[k + 1] = Contents[k]
        /\ Contents'[1] = i
    BY <1>2, <1>3, <2>1, <2>2
  <2>4. Contents' = <<i>> \o Contents
    BY <2>3, <1>2, ConsIs
  <2>5. \A k \in DOMAIN Contents : Contents[k] # i
    BY <1>2, <2>2
  <2>. QED  BY <2>4, <2>5 DEF Lifo!Next, Lifo!Push
<1>7. CASE Popped(h, L)
  <2>1. PICK j, M : /\ h = j + 1 /\ Core(j, M)'
                    /\ \A k \in 1..j : Items(j, M)'[k] = Items(h, L)[k + 1]
    BY <1>7 DEF Popped
  <2>2. /\ Len(Contents) = Len(Contents') + 1 /\ Contents' \in Seq(Indexes)
        /\ \A k \in 1..Len(Contents') : Contents'[k] = Contents[k + 1]
    BY <1>2, <1>3, <2>1
  <2>3. Contents # <<>> /\ Contents' = Tail(Contents)
    BY <2>2, <1>2, TailIs
  <2>. QED  BY <2>3 DEF Lifo!Next, Lifo!Pop
<1>. QED  BY <1>4, <1>5, <1>6, <1>7

-----------------------------------------------------------------------------
(* While the tags have not come round, a pointer is pushed once.           *)

\* The pointers that a call can have read, and those still to be pushed.
Seen == {topNode, Null} \cup {next[n] : n \in AllNodes} \cup {oldTop[t] : t \in Threads}
          \cup {newTop[t] : t \in Threads}

TagsNew ==
    /\ allocCnt <= MaxPushes
    /\ \A p \in Seen : p[2] <= allocCnt
    /\ \A t \in Threads : Pushing(t) => node[t][2] <= allocCnt /\ node[t] \notin Seen
    /\ \A t, u \in Threads : Pushing(t) /\ Pushing(u) /\ node[t] = node[u] => t = u

LEMMA SeenTyped == Typed => \A p \in Seen : p \in Pointer /\ p[2] \in Nat
<1>1. \A p \in Pointer : p[2] \in Nat
  BY DEF Pointer, Address, Null
<1>2. Typed => \A p \in Seen : p \in Pointer
  BY NodeFacts DEF Typed, Seen
<1>. QED  BY <1>1, <1>2

LEMMA TagsNewReuse == TagsNew => NoTagReuse
BY DEF TagsNew, NoTagReuse, Pushing, Seen

LEMMA TagsNewStart ==
    ASSUME Init, MaxPushes \in Nat, IndexCount <= MaxPushes, MaxPushes < TagRange
    PROVE  TagsNew
<1>. USE DEF Init
<1>1. IndexCount \in Nat /\ TagRange \in Nat
  BY NodeFacts, StackAssumption
<1>2. \A c \in 0..IndexCount : \A n : Tagged(n, c)[2] <= IndexCount
  <2>1. \A c \in 0..IndexCount : c % TagRange = c
    BY <1>1
  <2>. QED  BY <2>1, <1>1 DEF Tagged
<1>3. Null[2] <= IndexCount
  BY <1>1 DEF Null
<1>4. \A n \in AllNodes : next[n][2] <= IndexCount
  <2>1. \A n \in 2..IndexCount : n - 1 \in 0..IndexCount
    BY <1>1
  <2>. QED  BY <2>1, <1>2, <1>3
<1>5. topNode[2] <= IndexCount
  BY <1>1, <1>2
<1>6. \A p \in Seen : p[2] <= allocCnt
  BY <1>3, <1>4, <1>5 DEF Seen
<1>7. \A t \in Threads : ~Pushing(t)
  BY DEF Pushing
<1>. QED  BY <1>6, <1>7 DEF TagsNew

\* A step that shows no pointer but those seen.
LEMMA SameSeen ==
    ASSUME TagsNew, Seen' \subseteq Seen, allocCnt' = allocCnt,
           \A t \in Threads : Pushing(t)' => Pushing(t) /\ node'[t] = node[t]
    PROVE  TagsNew'
BY DEF TagsNew

LEMMA TagsNewNext ==
    ASSUME IInv, TagsNew, [Next]_vars, MaxPushes \in Nat, MaxPushes < TagRange
    PROVE  TagsNew'
<1>. USE DEF Goto, stackVars
<1>0. Typed /\ \E h, L : Core(h, L)
  BY DEF IInv
<1>1. ASSUME NEW t \in Threads, NEW index \in Indexes, BeginPush(t, index) PROVE TagsNew'
  <2>1. PICK n \in AllNodes : node' = [node EXCEPT ![t] = Tagged(n, allocCnt')]
    BY <1>1 DEF BeginPush
  <2>2. allocCnt \in Nat /\ allocCnt' = allocCnt + 1 /\ allocCnt' <= MaxPushes
    BY <1>0, <1>1 DEF BeginPush, Typed
  <2>3. node'[t][2] = allocCnt'
    <3>1. allocCnt' % TagRange = allocCnt'
      BY <2>2, StackAssumption
    <3>. QED  BY <2>1, <3>1, <1>0 DEF Typed, Tagged
  <2>4. Seen' = Seen
    BY <1>1 DEF BeginPush, Seen
  <2>5. \A p \in Seen : p[2] \in Nat /\ p[2] <= allocCnt
    BY <1>0, SeenTyped DEF TagsNew
  <2>6. \A p \in Seen : p[2] <= allocCnt' /\ p # node'[t]
    BY <2>2, <2>3, <2>5
  <2>7. \A u \in Threads \ {t} : (Pushing(u)' <=> Pushing(u)) /\ node'[u] = node[u]
    BY <1>0, <1>1, <2>1 DEF BeginPush, Typed, Pushing
  <2>8. \A u \in Threads : Pushing(u) => node[u][2] \in Nat /\ node[u][2] <= allocCnt
    <3>1. \A p \in Address : p[2] \in Nat
      BY DEF Address
    <3>. QED  BY <3>1, <1>0 DEF Core, ReadsHold, TagsNew
  <2>9. \A u \in Threads : Pushing(u) => node[u][2] <= allocCnt' /\ node[u] # node'[t]
    BY <2>2, <2>3, <2>8
  <2>10. allocCnt' <= allocCnt'
    BY <2>2
  <2>. QED  BY <2>2, <2>3, <2>4, <2>6, <2>7, <2>9, <2>10 DEF TagsNew
<1>2. ASSUME NEW t \in Threads, PushReadTop(t) PROVE TagsNew'
  <2>1. Seen' \subseteq Seen
    BY <1>0, <1>2 DEF PushReadTop, Seen, Typed
  <2>. QED  BY <1>0, <1>2, <2>1, SameSeen DEF PushReadTop, Pushing, Typed
<1>3. ASSUME NEW t \in Threads, PushSetNext(t) PROVE TagsNew'
  <2>1. Seen' \subseteq Seen
    BY <1>0, <1>3 DEF PushSetNext, Seen, Typed
  <2>. QED  BY <1>0, <1>3, <2>1, SameSeen DEF PushSetNext, Pushing, Typed
<1>4. ASSUME NEW t \in Threads, Push(t) PROVE TagsNew'
  <2>1. CASE topNode = oldTop[t]
    <3>1. topNode' = node[t] /\ Return(t, "push") /\ UNCHANGED <<allocCnt, next>>
      BY <1>4, <2>1 DEF Push
    <3>2. Pushing(t) /\ ~Pushing(t)'
      BY <3>1, <1>0 DEF Return, Pushing, Typed
    <3>3. \A u \in Threads \ {t} : (Pushing(u)' <=> Pushing(u)) /\ node'[u] = node[u]
      BY <3>1, <1>0 DEF Return, Pushing, Typed
    <3>4. Seen' \subseteq Seen \cup {node[t]}
      <4>1. \A u \in Threads : oldTop'[u] \in {oldTop[u], Null} /\ newTop'[u] \in {newTop[u], Null}
        BY <3>1, <1>0 DEF Return, Typed
      <4>. QED  BY <3>1, <4>1 DEF Seen
    <3>5. node[t][2] <= allocCnt /\ \A u \in Threads \ {t} : Pushing(u) => node[u] # node[t]
      BY <3>2 DEF TagsNew
    <3>. QED  BY <3>1, <3>2, <3>3, <3>4, <3>5 DEF TagsNew
  <2>2. CASE topNode # oldTop[t]
    <3>1. Seen' \subseteq Seen
      BY <1>4, <2>2 DEF Push, Seen
    <3>. QED  BY <1>0, <1>4, <2>2, <3>1, SameSeen DEF Push, Pushing, Typed
  <2>. QED  BY <2>1, <2>2
<1>5. ASSUME NEW t \in Threads, PopReadTop(t) PROVE TagsNew'
  <2>1. \A u \in Threads : /\ oldTop'[u] \in {oldTop[u], topNode, Null}
                            /\ newTop'[u] \in {newTop[u], Null}
    BY <1>0, <1>5 DEF PopReadTop, Return, Typed
  <2>2. Seen' \subseteq Seen
    BY <1>5, <2>1 DEF PopReadTop, Seen
  <2>. QED  BY <1>0, <1>5, <2>2, SameSeen DEF PopReadTop, Return, Pushing, Typed
<1>6. ASSUME NEW t \in Threads, PopReadNext(t) PROVE TagsNew'
  <2>1. oldTop[t][1] \in AllNodes
    BY <1>0, <1>6, NodeFacts DEF PopReadNext, Core, ReadsHold
  <2>2. Seen' \subseteq Seen
    BY <1>0, <1>6, <2>1 DEF PopReadNext, Seen, Typed
  <2>. QED  BY <1>0, <1>6, <2>2, SameSeen DEF PopReadNext, Pushing, Typed
<1>7. ASSUME NEW t \in Threads, Pop(t) PROVE TagsNew'
  <2>1. Seen' \subseteq Seen
    BY <1>7 DEF Pop, Seen
  <2>. QED  BY <1>0, <1>7, <2>1, SameSeen DEF Pop, Pushing, Typed
<1>8. ASSUME NEW t \in Threads, PopFree(t) PROVE TagsNew'
  <2>1. \A u \in Threads : oldTop'[u] \in {oldTop[u], Null} /\ newTop'[u] \in {newTop[u], Null}
    BY <1>0, <1>8 DEF PopFree, Return, Typed
  <2>2. Seen' \subseteq Seen
    BY <1>8, <2>1 DEF PopFree, Seen
  <2>. QED  BY <1>0, <1>8, <2>2, SameSeen DEF PopFree, Return, Pushing, Typed
<1>9. ASSUME UNCHANGED vars PROVE TagsNew'
  BY <1>9, SameSeen DEF vars, Seen, Pushing
<1>. QED  BY <1>1, <1>2, <1>3, <1>4, <1>5, <1>6, <1>7, <1>8, <1>9 DEF Next

-----------------------------------------------------------------------------
(* The theorems.                                                           *)

\* As long as no Pop finds the pointer it read pushed again with the same tag,
\* no two connections get one session index and none is lost.
THEOREM IndexOnceIfTagsHold == Spec /\ []NoTagReuse => []IndexOnce
BY SpecIInv, IndexOnceHolds, PTL

\* And then m_top of LockFreeStack moves as a stack of the indexes does.
THEOREM LifoIfTagsHold == Spec /\ []NoTagReuse => LifoSpec
<1>1. Spec /\ []NoTagReuse => Lifo!Init
  BY LifoStart, ContentsAreItems DEF Spec
<1>2. Spec /\ []NoTagReuse => [][Lifo!Next]_Contents
  BY SpecIInv, LifoStep, ContentsAreItems, PTL DEF Spec
<1>. QED  BY <1>1, <1>2, PTL DEF LifoSpec, Lifo!Spec

\* In fewer pushes than there are tags (2^17) no pointer is pushed twice.
THEOREM TagsHold ==
    ASSUME MaxPushes \in Nat, IndexCount <= MaxPushes, MaxPushes < TagRange
    PROVE  Spec => []NoTagReuse
<1>1. Init => IInv /\ TagsNew
  BY IInvStart, TagsNewStart
<1>2. IInv /\ TagsNew /\ [Next]_vars => (IInv /\ TagsNew)'
  BY IInvNext, TagsNewNext, TagsNewReuse
<1>. QED  BY <1>1, <1>2, TagsNewReuse, PTL DEF Spec

\* So until then each index is in the stack once, out, or in one call's hands.
THEOREM IndexOnceInPushes ==
    ASSUME MaxPushes \in Nat, IndexCount <= MaxPushes, MaxPushes < TagRange
    PROVE  Spec => []IndexOnce
BY TagsHold, IndexOnceIfTagsHold, PTL

\* And until then LockFreeStack implements IndexStack.
THEOREM LifoInPushes ==
    ASSUME MaxPushes \in Nat, IndexCount <= MaxPushes, MaxPushes < TagRange
    PROVE  Spec => LifoSpec
BY TagsHold, LifoIfTagsHold, PTL
=============================================================================
