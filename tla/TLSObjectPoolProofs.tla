------------------------- MODULE TLSObjectPoolProofs -------------------------
(***************************************************************************)
(* What Alloc and Free of TLSObjectPool do to the set of pooled nodes, for *)
(* the proofs about the containers: no node is in the pool twice, so Alloc *)
(* takes a node out or makes a new one, and Free puts one in.              *)
(***************************************************************************)
EXTENDS TLSObjectPool, SequenceTheorems, FiniteSetTheorems, TLAPS

Listed(l) == {l[i] : i \in 1..Len(l)}
Distinct(l) == \A i, j \in 1..Len(l) : l[i] = l[j] => i = j

PoolTyped ==
    /\ top \in [Threads -> Seq(Nat)] /\ rtop \in [Threads -> Seq(Nat)]
    /\ freeSets \in Seq(Seq(Nat) \ {<<>>})
    /\ created \in Nat

Apart(l, m) == \A x \in Listed(l) : x \notin Listed(m)

\* The lists of the pool have no node in common, and no list has one twice.
PoolApart ==
    /\ \A t \in Threads : Distinct(top[t]) /\ Distinct(rtop[t])
    /\ \A s \in 1..Len(freeSets) : Distinct(freeSets[s])
    /\ \A t, u \in Threads : Apart(top[t], rtop[u])
    /\ \A t, u \in Threads : t # u => Apart(top[t], top[u]) /\ Apart(rtop[t], rtop[u])
    /\ \A t \in Threads, s \in 1..Len(freeSets) :
          Apart(top[t], freeSets[s]) /\ Apart(rtop[t], freeSets[s])
    /\ \A r, s \in 1..Len(freeSets) : r # s => Apart(freeSets[r], freeSets[s])

InPool(n) ==
    \/ \E t \in Threads : n \in Listed(top[t]) \/ n \in Listed(rtop[t])
    \/ \E s \in 1..Len(freeSets) : n \in Listed(freeSets[s])

Pooled == {n \in Nat : InPool(n)}

PoolInv == PoolTyped /\ PoolApart /\ Pooled \subseteq 1..created

-----------------------------------------------------------------------------
(* Lists without duplicates.                                               *)

LEMMA ListTail ==
    ASSUME NEW l \in Seq(Nat), l # <<>>, Distinct(l)
    PROVE  /\ Tail(l) \in Seq(Nat) /\ Distinct(Tail(l))
           /\ Head(l) \in Nat /\ Head(l) \in Listed(l)
           /\ Listed(Tail(l)) = Listed(l) \ {Head(l)}
<1>. DEFINE k == Len(l)  r == Tail(l)
<1>1. k \in Nat \ {0} /\ \A i \in 1..k : l[i] \in Nat
  BY EmptySeq, ElementOfSeq
<1>2. r \in Seq(Nat) /\ Len(r) = k - 1 /\ \A i \in 1..(k - 1) : r[i] = l[i + 1]
  BY HeadTailProperties
<1>3. Head(l) = l[1]
  OBVIOUS
<1>4. \A i, j \in 1..k : l[i] = l[j] => i = j
  BY DEF Distinct
<1>. HIDE DEF k, r
<1>5. Distinct(r)
  BY <1>1, <1>2, <1>4 DEF Distinct
<1>6. Listed(r) = {l[i] : i \in 2..k}
  <2>1. ASSUME NEW x \in Listed(r) PROVE x \in {l[i] : i \in 2..k}
    <3>1. PICK i \in 1..(k - 1) : x = r[i]
      BY <1>2 DEF Listed
    <3>2. i + 1 \in 2..k /\ x = l[i + 1]
      BY <3>1, <1>1, <1>2
    <3>. QED  BY <3>2
  <2>2. ASSUME NEW i \in 2..k PROVE l[i] \in Listed(r)
    <3>1. i - 1 \in 1..(k - 1) /\ r[i - 1] = l[i]
      BY <1>1, <1>2
    <3>. QED  BY <3>1, <1>2 DEF Listed
  <2>. QED  BY <2>1, <2>2
<1>7. Listed(l) = {l[i] : i \in 1..k}
  BY DEF Listed, k
<1>8. {l[i] : i \in 2..k} = {l[i] : i \in 1..k} \ {l[1]}
  BY <1>1, <1>4
<1>9. l[1] \in Listed(l) /\ l[1] \in Nat
  BY <1>1, <1>7
<1>. QED  BY <1>2, <1>3, <1>5, <1>6, <1>7, <1>8, <1>9 DEF r

LEMMA ListCons ==
    ASSUME NEW l \in Seq(Nat), NEW n \in Nat, Distinct(l), n \notin Listed(l)
    PROVE  /\ <<n>> \o l \in Seq(Nat) \ {<<>>} /\ Distinct(<<n>> \o l)
           /\ Listed(<<n>> \o l) = Listed(l) \cup {n}
<1>. DEFINE k == Len(l)  r == <<n>> \o l
<1>1. k \in Nat /\ \A i \in 1..k : l[i] \in Nat
  BY LenProperties, ElementOfSeq
<1>2. <<n>> \in Seq(Nat) /\ Len(<<n>>) = 1 /\ <<n>>[1] = n
  OBVIOUS
<1>3. /\ r \in Seq(Nat) /\ Len(r) = k + 1 /\ r[1] = n
      /\ \A i \in 2..(k + 1) : r[i] = l[i - 1]
  BY <1>1, <1>2, ConcatProperties
<1>4. (\A i, j \in 1..k : l[i] = l[j] => i = j) /\ (\A i \in 1..k : l[i] # n)
  BY DEF Distinct, Listed
<1>5. Listed(l) = {l[i] : i \in 1..k}
  BY DEF Listed
<1>. HIDE DEF k, r
<1>6. Distinct(r)
  <2>. SUFFICES ASSUME NEW i \in 1..(k + 1), NEW j \in 1..(k + 1), r[i] = r[j] PROVE i = j
    BY <1>3 DEF Distinct
  <2>1. \A a \in 1..(k + 1) : a = 1 \/ (a \in 2..(k + 1) /\ a - 1 \in 1..k)
    BY <1>1
  <2>2. CASE i = 1 \/ j = 1
    BY <2>1, <2>2, <1>3, <1>4, ZenonT(60)
  <2>3. CASE i \in 2..(k + 1) /\ i - 1 \in 1..k /\ j \in 2..(k + 1) /\ j - 1 \in 1..k
    <3>1. l[i - 1] = l[j - 1]
      BY <2>3, <1>3
    <3>2. i - 1 = j - 1
      BY <2>3, <3>1, <1>4
    <3>. QED  BY <3>2
  <2>. QED  BY <2>1, <2>2, <2>3
<1>7. \A x : x \in Listed(r) <=> x = n \/ \E i \in 1..k : x = l[i]
  <2>1. ASSUME NEW x \in Listed(r) PROVE x = n \/ \E i \in 1..k : x = l[i]
    <3>1. PICK i \in 1..(k + 1) : x = r[i]
      BY <1>3 DEF Listed
    <3>2. i = 1 \/ (i \in 2..(k + 1) /\ i - 1 \in 1..k)
      BY <1>1
    <3>. QED  BY <3>1, <3>2, <1>3
  <2>2. n \in Listed(r)
    BY <1>1, <1>3 DEF Listed
  <2>3. ASSUME NEW i \in 1..k PROVE l[i] \in Listed(r)
    <3>1. i + 1 \in 1..(k + 1) /\ r[i + 1] = l[i]
      BY <1>1, <1>3
    <3>. QED  BY <3>1, <1>3 DEF Listed
  <2>. QED  BY <2>1, <2>2, <2>3
<1>8. Len(r) # 0
  BY <1>1, <1>3
<1>. QED  BY <1>3, <1>5, <1>6, <1>7, <1>8, EmptySeq DEF r

LEMMA ListEmpty == <<>> \in Seq(Nat) /\ Distinct(<<>>) /\ Listed(<<>>) = {}
BY DEF Distinct, Listed

-----------------------------------------------------------------------------
(* The calls.                                                              *)

LEMMA PooledIsInPool ==
    ASSUME PoolTyped, NEW n
    PROVE  n \in Pooled <=> InPool(n)
<1>1. \A l \in Seq(Nat) : Listed(l) \subseteq Nat
  BY ElementOfSeq DEF Listed
<1>2. \A s \in 1..Len(freeSets) : freeSets[s] \in Seq(Nat)
  BY ElementOfSeq DEF PoolTyped
<1>. QED  BY <1>1, <1>2 DEF Pooled, InPool, PoolTyped

LEMMA PoolStart ==
    ASSUME NEW n \in Nat, PoolInit(n)
    PROVE  PoolInv /\ Pooled = {} /\ created = n
<1>1. PoolTyped
  BY EmptySeq DEF PoolInit, PoolTyped
<1>2. /\ \A t \in Threads : top[t] = <<>> /\ rtop[t] = <<>>
      /\ Len(freeSets) = 0 /\ created = n
  BY DEF PoolInit
<1>3. PoolApart
  BY <1>2, ListEmpty DEF PoolApart, Apart
<1>4. Pooled = {}
  BY <1>2, ListEmpty DEF Pooled, InPool
<1>. QED  BY <1>1, <1>2, <1>3, <1>4 DEF PoolInv

LEMMA AllocTakesOut ==
    ASSUME PoolInv, NEW t \in Threads, NEW n, Alloc(t, n)
    PROVE  /\ PoolInv' /\ Pooled' = Pooled \ {n}
           /\ \/ n \in Pooled /\ created' = created
              \/ n = created + 1 /\ created' = created + 1
<1>a. PoolTyped /\ PoolApart /\ Pooled \subseteq 1..created
  BY DEF PoolInv
<1>1. CASE top[t] # <<>>
  <2>1. /\ n = Head(top[t]) /\ top' = [top EXCEPT ![t] = Tail(top[t])]
        /\ rtop' = rtop /\ freeSets' = freeSets /\ created' = created
    BY <1>1 DEF Alloc
  <2>2. /\ Tail(top[t]) \in Seq(Nat) /\ Distinct(Tail(top[t]))
        /\ n \in Listed(top[t]) /\ Listed(Tail(top[t])) = Listed(top[t]) \ {n}
    BY <1>a, <1>1, <2>1, ListTail DEF PoolTyped, PoolApart
  <2>3. /\ Distinct(top'[t]) /\ Listed(top'[t]) = Listed(top[t]) \ {n}
        /\ \A u \in Threads \ {t} : top'[u] = top[u]
    BY <1>a, <2>1, <2>2 DEF PoolTyped
  <2>4. PoolTyped'
    BY <1>a, <2>1, <2>2 DEF PoolTyped
  <2>5. PoolApart'
    <3>1. \A u \in Threads : Distinct(top'[u]) /\ Listed(top'[u]) \subseteq Listed(top[u])
      BY <1>a, <2>3 DEF PoolApart
    <3>. QED  BY <1>a, <2>1, <3>1 DEF PoolApart, Apart
  <2>6. \A x : InPool(x)' <=> InPool(x) /\ x # n
    <3>1. ~InPool(n)'
      BY <1>a, <2>1, <2>2, <2>3 DEF InPool, PoolApart, Apart
    <3>2. \A x : x # n => (InPool(x)' <=> InPool(x))
      <4>. SUFFICES ASSUME NEW x, x # n
                   PROVE  \A u \in Threads : x \in Listed(top'[u]) <=> x \in Listed(top[u])
        BY <2>1 DEF InPool
      <4>. QED  BY <2>3
    <3>3. InPool(n)
      BY <2>2 DEF InPool
    <3>. QED  BY <3>1, <3>2, <3>3
  <2>7. InPool(n)
    BY <2>2 DEF InPool
  <2>. QED  BY <1>a, <2>1, <2>4, <2>5, <2>6, <2>7, PooledIsInPool DEF PoolInv, Pooled
<1>2. CASE top[t] = <<>> /\ freeSets # <<>>
  <2>. DEFINE f == Head(freeSets)  k == Len(freeSets)
  <2>1. /\ n = Head(f) /\ top' = [top EXCEPT ![t] = Tail(f)]
        /\ rtop' = rtop /\ freeSets' = Tail(freeSets) /\ created' = created
    BY <1>2 DEF Alloc
  <2>2. /\ k \in Nat \ {0} /\ f = freeSets[1] /\ f \in Seq(Nat) \ {<<>>}
        /\ freeSets' \in Seq(Seq(Nat) \ {<<>>}) /\ Len(freeSets') = k - 1
        /\ \A s \in 1..(k - 1) : freeSets'[s] = freeSets[s + 1]
    BY <1>a, <1>2, <2>1, HeadTailProperties, EmptySeq DEF PoolTyped
  <2>3. /\ 1 \in 1..k
        /\ \A s \in 1..(k - 1) : s + 1 \in 1..k /\ s + 1 # 1
        /\ \A s \in 1..k : s # 1 => s - 1 \in 1..(k - 1) /\ freeSets'[s - 1] = freeSets[s]
        /\ \A r, s \in 1..(k - 1) : r # s => r + 1 # s + 1
    BY <2>2, SMTT(30)
  <2>. HIDE DEF f, k
  <2>4. /\ Tail(f) \in Seq(Nat) /\ Distinct(Tail(f))
        /\ n \in Listed(f) /\ Listed(Tail(f)) = Listed(f) \ {n}
    BY <1>a, <2>1, <2>2, <2>3, ListTail DEF PoolApart, k
  <2>5. /\ Distinct(top'[t]) /\ Listed(top'[t]) = Listed(f) \ {n} /\ Listed(top[t]) = {}
        /\ \A u \in Threads \ {t} : top'[u] = top[u]
    BY <1>a, <1>2, <2>1, <2>4, ListEmpty DEF PoolTyped
  <2>6. PoolTyped'
    BY <1>a, <2>1, <2>2, <2>4 DEF PoolTyped
  <2>7. /\ \A u \in Threads : Apart(f, rtop[u]) /\ Apart(rtop[u], f)
        /\ \A u \in Threads : Apart(f, top[u]) /\ Apart(top[u], f)
        /\ \A s \in 1..(k - 1) : Apart(f, freeSets'[s])
    BY <1>a, <2>2, <2>3 DEF PoolApart, Apart, k
  <2>8. PoolApart'
    <3>1. \A u \in Threads : Distinct(top'[u]) /\ Distinct(rtop'[u])
      BY <1>a, <2>1, <2>5 DEF PoolApart
    <3>2. \A s \in 1..Len(freeSets') : Distinct(freeSets'[s])
      BY <1>a, <2>2, <2>3 DEF PoolApart, k
    <3>3. \A u, v \in Threads : Apart(top'[u], rtop'[v])
      BY <1>a, <2>1, <2>5, <2>7 DEF PoolApart, Apart
    <3>4. \A u, v \in Threads : u # v => Apart(top'[u], top'[v]) /\ Apart(rtop'[u], rtop'[v])
      BY <1>a, <2>1, <2>5, <2>7, ZenonT(60) DEF PoolApart, Apart
    <3>5. \A u \in Threads, s \in 1..Len(freeSets') :
              Apart(top'[u], freeSets'[s]) /\ Apart(rtop'[u], freeSets'[s])
      <4>1. \A u \in Threads, s \in 1..(k - 1) :
                Apart(top[u], freeSets'[s]) /\ Apart(rtop[u], freeSets'[s])
        BY <1>a, <2>2, <2>3 DEF PoolApart, k
      <4>2. \A s \in 1..(k - 1) : Apart(top'[t], freeSets'[s])
        BY <2>5, <2>7 DEF Apart
      <4>. QED  BY <4>1, <4>2, <2>1, <2>2, <2>5
    <3>6. ASSUME NEW r \in 1..(k - 1), NEW s \in 1..(k - 1), r # s
          PROVE  Apart(freeSets'[r], freeSets'[s])
      <4>1. r + 1 \in 1..k /\ s + 1 \in 1..k /\ r + 1 # s + 1
        BY <2>3, <3>6
      <4>2. freeSets'[r] = freeSets[r + 1] /\ freeSets'[s] = freeSets[s + 1]
        BY <2>2
      <4>. QED  BY <1>a, <4>1, <4>2 DEF PoolApart, k
    <3>. QED  BY <3>1, <3>2, <3>3, <3>4, <3>5, <3>6, <2>2 DEF PoolApart
  <2>9. \A x : InPool(x)' <=> InPool(x) /\ x # n
    <3>1. \A x : InPool(x) <=> \/ \E u \in Threads \ {t} : x \in Listed(top[u])
                               \/ \E u \in Threads : x \in Listed(rtop[u])
                               \/ x \in Listed(f)
                               \/ \E s \in 1..(k - 1) : x \in Listed(freeSets'[s])
      BY <2>2, <2>3, <2>5 DEF InPool, k
    <3>2. \A x : InPool(x)' <=> \/ \E u \in Threads \ {t} : x \in Listed(top[u])
                                \/ \E u \in Threads : x \in Listed(rtop[u])
                                \/ x \in Listed(f) /\ x # n
                                \/ \E s \in 1..(k - 1) : x \in Listed(freeSets'[s])
      BY <2>1, <2>2, <2>5 DEF InPool
    <3>3. ~InPool(n)'
      BY <3>2, <2>4, <2>7 DEF Apart
    <3>. QED  BY <3>1, <3>2, <3>3
  <2>10. InPool(n)
    BY <2>2, <2>3, <2>4 DEF InPool, k
  <2>. QED  BY <1>a, <2>1, <2>6, <2>8, <2>9, <2>10, PooledIsInPool DEF PoolInv, Pooled
<1>3. CASE top[t] = <<>> /\ freeSets = <<>>
  <2>1. /\ n = created + 1 /\ created' = n
        /\ top' = top /\ rtop' = rtop /\ freeSets' = freeSets
    BY <1>3 DEF Alloc
  <2>2. PoolTyped' /\ PoolApart' /\ Pooled' = Pooled
    BY <1>a, <2>1 DEF PoolTyped, PoolApart, Pooled, InPool
  <2>. QED  BY <1>a, <2>1, <2>2 DEF PoolTyped, PoolInv
<1>. QED  BY <1>1, <1>2, <1>3

LEMMA FreePutsIn ==
    ASSUME PoolInv, NEW t \in Threads, NEW n \in 1..created, n \notin Pooled, Free(t, n)
    PROVE  PoolInv' /\ Pooled' = Pooled \cup {n} /\ created' = created
<1>. DEFINE freed == <<n>> \o rtop[t]
<1>a. PoolTyped /\ PoolApart /\ Pooled \subseteq 1..created
  BY DEF PoolInv
<1>1. /\ \A u \in Threads : n \notin Listed(top[u]) /\ n \notin Listed(rtop[u])
      /\ \A s \in 1..Len(freeSets) : n \notin Listed(freeSets[s])
      /\ n \in Nat
  BY <1>a, PooledIsInPool DEF InPool, PoolTyped
<1>2. /\ freed \in Seq(Nat) \ {<<>>} /\ Distinct(freed)
      /\ Listed(freed) = Listed(rtop[t]) \cup {n}
  BY <1>a, <1>1, ListCons DEF PoolTyped, PoolApart
<1>3. top' = top /\ created' = created
  BY DEF Free
<1>4. CASE ChunkSize <= Len(freed)
  <2>1. freeSets' = <<freed>> \o freeSets /\ rtop' = [rtop EXCEPT ![t] = <<>>]
    BY <1>4 DEF Free
  <2>. HIDE DEF freed
  <2>. DEFINE k == Len(freeSets)
  <2>2. /\ k \in Nat /\ freeSets' \in Seq(Seq(Nat) \ {<<>>}) /\ Len(freeSets') = k + 1
        /\ freeSets'[1] = freed /\ \A s \in 2..(k + 1) : freeSets'[s] = freeSets[s - 1]
    <3>1. <<freed>> \in Seq(Seq(Nat) \ {<<>>}) /\ Len(<<freed>>) = 1 /\ <<freed>>[1] = freed
      BY <1>2
    <3>. QED  BY <1>a, <2>1, <3>1, ConcatProperties DEF PoolTyped
  <2>. HIDE DEF k
  <2>3. /\ 1 \in 1..(k + 1)
        /\ \A s \in 1..(k + 1) : s # 1 => s - 1 \in 1..k /\ freeSets'[s] = freeSets[s - 1]
        /\ \A s \in 1..k : s + 1 \in 1..(k + 1) /\ freeSets'[s + 1] = freeSets[s]
        /\ \A r, s \in 1..(k + 1) : r # s => r - 1 # s - 1
    <3>1. \A s \in 1..(k + 1) : s # 1 => s - 1 \in 1..k /\ s \in 2..(k + 1)
      BY <2>2
    <3>2. \A s \in 1..k : s + 1 \in 2..(k + 1) /\ s + 1 \in 1..(k + 1) /\ (s + 1) - 1 = s
      BY <2>2
    <3>3. 1 \in 1..(k + 1) /\ \A r, s \in 1..(k + 1) : r # s => r - 1 # s - 1
      BY <2>2
    <3>. QED  BY <3>1, <3>2, <3>3, <2>2
  <2>4. /\ Distinct(rtop'[t]) /\ Listed(rtop'[t]) = {}
        /\ \A u \in Threads \ {t} : rtop'[u] = rtop[u]
    BY <1>a, <2>1, ListEmpty DEF PoolTyped
  <2>5. PoolTyped'
    BY <1>a, <1>3, <2>1, <2>2, ListEmpty DEF PoolTyped
  <2>6. /\ \A u \in Threads : Apart(top[u], freed) /\ Apart(rtop'[u], freed)
        /\ \A s \in 1..k : Apart(freed, freeSets[s]) /\ Apart(freeSets[s], freed)
    BY <1>a, <1>1, <1>2, <2>4 DEF PoolApart, Apart, k
  <2>7. PoolApart'
    <3>1. \A u \in Threads : Distinct(top'[u]) /\ Distinct(rtop'[u])
      BY <1>a, <1>3, <2>4 DEF PoolApart
    <3>2. \A s \in 1..Len(freeSets') : Distinct(freeSets'[s])
      BY <1>a, <1>2, <2>2, <2>3 DEF PoolApart, k
    <3>3. \A u, v \in Threads : Apart(top'[u], rtop'[v])
      BY <1>a, <1>3, <2>4 DEF PoolApart, Apart
    <3>4. \A u, v \in Threads : u # v => Apart(top'[u], top'[v]) /\ Apart(rtop'[u], rtop'[v])
      BY <1>a, <1>3, <2>4 DEF PoolApart, Apart
    <3>5. \A u \in Threads, s \in 1..Len(freeSets') :
              Apart(top'[u], freeSets'[s]) /\ Apart(rtop'[u], freeSets'[s])
      <4>1. \A u \in Threads, s \in 1..k : Apart(top[u], freeSets[s]) /\ Apart(rtop'[u], freeSets[s])
        BY <1>a, <2>4 DEF PoolApart, Apart, k
      <4>. QED  BY <4>1, <1>3, <2>2, <2>3, <2>6
    <3>6. ASSUME NEW r \in 1..(k + 1), NEW s \in 1..(k + 1), r # s
          PROVE  Apart(freeSets'[r], freeSets'[s])
      <4>1. CASE r = 1
        BY <4>1, <3>6, <2>2, <2>3, <2>6
      <4>2. CASE s = 1
        BY <4>2, <3>6, <2>2, <2>3, <2>6
      <4>3. CASE r # 1 /\ s # 1
        BY <4>3, <3>6, <1>a, <2>3 DEF PoolApart, k
      <4>. QED  BY <4>1, <4>2, <4>3
    <3>. QED  BY <3>1, <3>2, <3>3, <3>4, <3>5, <3>6, <2>2 DEF PoolApart
  <2>8. \A x : InPool(x)' <=> InPool(x) \/ x = n
    <3>1. \A x : InPool(x)' <=> \/ \E u \in Threads : x \in Listed(top[u]) \/ x \in Listed(rtop'[u])
                                \/ \E s \in 1..(k + 1) : x \in Listed(freeSets'[s])
      BY <1>3, <2>2 DEF InPool
    <3>2. \A x : (\E s \in 1..(k + 1) : x \in Listed(freeSets'[s]))
                   <=> x \in Listed(freed) \/ \E s \in 1..k : x \in Listed(freeSets[s])
      BY <2>2, <2>3
    <3>3. \A x : (\E u \in Threads : x \in Listed(rtop[u]))
                   <=> x \in Listed(rtop[t]) \/ \E u \in Threads : x \in Listed(rtop'[u])
      BY <2>4
    <3>. QED  BY <3>1, <3>2, <3>3, <1>2 DEF InPool, k
  <2>. QED  BY <1>a, <1>1, <1>3, <2>5, <2>7, <2>8, PooledIsInPool DEF PoolInv, Pooled
<1>5. CASE ~(ChunkSize <= Len(freed))
  <2>1. rtop' = [rtop EXCEPT ![t] = freed] /\ freeSets' = freeSets
    BY <1>5 DEF Free
  <2>. HIDE DEF freed
  <2>2. rtop'[t] = freed /\ \A u \in Threads \ {t} : rtop'[u] = rtop[u]
    BY <1>a, <2>1 DEF PoolTyped
  <2>3. PoolTyped'
    BY <1>a, <1>2, <1>3, <2>1 DEF PoolTyped
  <2>4. PoolApart'
    <3>1. \A u \in Threads : /\ Distinct(rtop'[u])
                             /\ \A x : x \in Listed(rtop'[u]) <=> x \in Listed(rtop[u]) \/ (u = t /\ x = n)
      BY <1>a, <1>2, <2>2 DEF PoolApart
    <3>2. \A u, v \in Threads : Apart(top'[u], rtop'[v])
      BY <1>a, <1>1, <1>3, <3>1 DEF PoolApart, Apart
    <3>3. ASSUME NEW u \in Threads, NEW v \in Threads, u # v, NEW x \in Listed(rtop'[u])
          PROVE  x \notin Listed(rtop'[v])
      <4>1. x = n => u = t /\ v # t
        BY <1>1, <3>1, <3>3
      <4>2. x # n => x \in Listed(rtop[u]) /\ x \notin Listed(rtop[v])
        BY <1>a, <3>1, <3>3, SMTT(30) DEF PoolApart, Apart
      <4>. QED  BY <1>1, <3>1, <3>3, <4>1, <4>2
    <3>4. \A u \in Threads, s \in 1..Len(freeSets) : Apart(rtop'[u], freeSets[s])
      BY <1>a, <1>1, <3>1 DEF PoolApart, Apart
    <3>. QED  BY <1>a, <1>3, <2>1, <3>1, <3>2, <3>3, <3>4, ZenonT(60) DEF PoolApart, Apart
  <2>5. \A x : InPool(x)' <=> InPool(x) \/ x = n
    <3>1. \A u \in Threads : \A x : x \in Listed(rtop'[u]) <=> x \in Listed(rtop[u]) \/ (u = t /\ x = n)
      BY <1>2, <2>2
    <3>. QED  BY <1>3, <2>1, <3>1 DEF InPool
  <2>. QED  BY <1>a, <1>1, <1>3, <2>3, <2>4, <2>5, PooledIsInPool DEF PoolInv, Pooled
<1>. QED  BY <1>4, <1>5

-----------------------------------------------------------------------------
(* The places of a node in the pool.                                       *)

\* The places of node n in the lists l[x] of a set of them.
Places(l, S, n) == UNION {{<<x, i>> : i \in {i \in DOMAIN l[x] : l[x][i] = n}} : x \in S}

LEMMA PlacesOf ==
    ASSUME NEW S, NEW l, NEW n, \A x \in S : l[x] \in Seq(Nat) /\ Distinct(l[x]),
           \A x, y \in S : n \in Listed(l[x]) /\ n \in Listed(l[y]) => x = y
    PROVE  Cardinality(Places(l, S, n)) = IF \E x \in S : n \in Listed(l[x]) THEN 1 ELSE 0
<1>1. \A p : p \in Places(l, S, n) <=> \E x \in S : \E i \in DOMAIN l[x] : p = <<x, i>> /\ l[x][i] = n
  BY DEF Places
<1>2. \A x \in S : DOMAIN l[x] = 1..Len(l[x])
  BY LenProperties
<1>3. CASE \E x \in S : n \in Listed(l[x])
  <2>a. PICK x \in S : n \in Listed(l[x])
    BY <1>3
  <2>1. PICK i \in 1..Len(l[x]) : l[x][i] = n
    BY <2>a DEF Listed
  <2>2. <<x, i>> \in Places(l, S, n)
    BY <1>1, <1>2, <2>1
  <2>3. ASSUME NEW p \in Places(l, S, n) PROVE p = <<x, i>>
    <3>1. PICK y \in S : \E j \in DOMAIN l[y] : p = <<y, j>> /\ l[y][j] = n
      BY <1>1
    <3>2. PICK j \in 1..Len(l[y]) : p = <<y, j>> /\ l[y][j] = n
      BY <1>2, <3>1
    <3>3. y = x
      BY <2>a, <3>2 DEF Listed
    <3>4. j = i
      BY <2>1, <3>2, <3>3 DEF Distinct
    <3>. QED  BY <3>2, <3>3, <3>4
  <2>4. Places(l, S, n) = {<<x, i>>}
    BY <2>2, <2>3
  <2>. QED  BY <1>3, <2>4, FS_Singleton
<1>4. CASE ~\E x \in S : n \in Listed(l[x])
  <2>1. Places(l, S, n) = {}
    BY <1>1, <1>2, <1>4 DEF Listed
  <2>. QED  BY <1>4, <2>1, FS_EmptySet
<1>. QED  BY <1>3, <1>4

\* No node is in the pool twice.
LEMMA PooledOnce ==
    ASSUME PoolInv, NEW n
    PROVE  TimesPooled(n) = IF n \in Pooled THEN 1 ELSE 0
<1>. DEFINE T == \E t \in Threads : n \in Listed(top[t])
            R == \E t \in Threads : n \in Listed(rtop[t])
            F == \E s \in 1..Len(freeSets) : n \in Listed(freeSets[s])
<1>0. PoolTyped /\ PoolApart
  BY DEF PoolInv
<1>1. Cardinality(Places(top, Threads, n)) = IF T THEN 1 ELSE 0
  BY <1>0, PlacesOf DEF PoolTyped, PoolApart, Apart
<1>2. Cardinality(Places(rtop, Threads, n)) = IF R THEN 1 ELSE 0
  BY <1>0, PlacesOf DEF PoolTyped, PoolApart, Apart
<1>3. Cardinality(Places(freeSets, DOMAIN freeSets, n)) = IF F THEN 1 ELSE 0
  <2>1. DOMAIN freeSets = 1..Len(freeSets)
    BY <1>0 DEF PoolTyped
  <2>2. \A s \in 1..Len(freeSets) : freeSets[s] \in Seq(Nat)
    BY <1>0, ElementOfSeq DEF PoolTyped
  <2>. QED  BY <1>0, <2>1, <2>2, PlacesOf DEF PoolApart, Apart
<1>4. n \in Pooled <=> T \/ R \/ F
  BY <1>0, PooledIsInPool DEF InPool
<1>5. ~(T /\ R) /\ ~(T /\ F) /\ ~(R /\ F)
  BY <1>0 DEF PoolApart, Apart
<1>6. TimesPooled(n) = Cardinality(Places(top, Threads, n)) + Cardinality(Places(rtop, Threads, n))
                       + Cardinality(Places(freeSets, DOMAIN freeSets, n))
  BY DEF TimesPooled, Places
<1>. HIDE DEF T, R, F
<1>. QED  BY <1>1, <1>2, <1>3, <1>4, <1>5, <1>6
=============================================================================
