------------------------- MODULE ContentMoveProofs -------------------------
(***************************************************************************)
(* The safety properties of ContentMove, for every number of slots,        *)
(* contents, connections, moves and frames.                                *)
(***************************************************************************)
EXTENDS ContentMove, FiniteSetTheorems, SequenceTheorems, TLAPS

-----------------------------------------------------------------------------
\* The inductive invariant.

MessageSet ==
  {m \in [type : {"ENTER", "LEAVE", "RELEASE"}, session : Slots, sent : Handles] :
     m.session = m.sent[1]}

SlotsTyped ==
  /\ life \in [Slots -> {"free", "open", "released"}]
  /\ conn \in [Slots -> 0..MaxConnections] /\ refs \in [Slots -> Int]
  /\ connected \in [Slots -> BOOLEAN]
  /\ m_content \in [Slots -> Contents \cup {NoContent}]
  /\ IsMoving \in [Slots -> BOOLEAN] /\ ring \in [Slots -> Nat]
  /\ leaving \in [Slots -> BOOLEAN]

ContentsTyped ==
  /\ m_msgQueue \in [Contents -> Seq(MessageSet)]
  /\ sessions \in [Contents -> SUBSET Handles] /\ todo \in [Contents -> SUBSET Handles]
  /\ m_sessionCount \in [Contents -> Int]

ThreadsTyped ==
  /\ thread \in [Threads -> [at : {"idle", "callback", "entering", "loop", "check", "take",
                                   "receiving"},
                             handle : Handles \cup {NoHandle}]]
  /\ moving \in [Threads -> [step : {"none", "leave", "enter"}, to : Contents \cup {NoContent},
                             handle : Handles \cup {NoHandle}]]

TypeInv ==
  /\ SlotsTyped /\ ContentsTyped /\ ThreadsTyped
  /\ inside \in [Handles -> SUBSET Contents]
  /\ disturbed \in BOOLEAN /\ moves \in Nat /\ frames \in Nat

\* The content a thread's callbacks belong to.
Own(t) == IF t \in Contents THEN t ELSE NoContent

\* A worker serves the connection of its slot while that is connected.
WorkerOK(s) ==
  \/ thread[s] = Idle
  \/ thread[s].at = "callback" /\ thread[s].handle = Current(s) /\ connected[s]
WorkerInv == \A s \in Slots : WorkerOK(s)

\* The handle a content serves is in its map, and it is of the present connection.
Serves(c) == thread[c].at \in {"entering", "check", "take", "receiving"}
UpdateOK(c) ==
  /\ \/ thread[c] = Idle
     \/ thread[c].at = "loop" /\ thread[c].handle = NoHandle
     \/ Serves(c) /\ thread[c].handle \in sessions[c]
          /\ thread[c].handle = Current(thread[c].handle[1])
  /\ todo[c] \subseteq sessions[c]
  /\ thread[c].at \in {"idle", "entering"} => todo[c] = {}
UpdateInv == \A c \in Contents : UpdateOK(c)

\* While a thread moves a session, the session stays where the thread's callbacks are.
MoverOK(t) ==
  IF moving[t].step = "none" THEN moving[t] = NotMoving
  ELSE /\ thread[t].at \in {"callback", "entering", "receiving"}
       /\ moving[t].handle = thread[t].handle
       /\ m_content[moving[t].handle[1]] = Own(t) /\ moving[t].to # Own(t)
MoverInv == \A t \in Threads : MoverOK(t)

\* Who holds a reference: a receive, an Update, a Move_Content, an ENTER.
Serving(s) == {c \in Contents : Serves(c) /\ thread[c].handle[1] = s}
Moving(s) == {t \in Threads : moving[t].step # "none" /\ moving[t].handle[1] = s}
RefOK(s) ==
  /\ refs[s] = (IF connected[s] THEN 1 ELSE 0) + Cardinality(Serving(s)) + Cardinality(Moving(s))
                 + Cardinality(Posted("ENTER", s, m_msgQueue))
  /\ life[s] = "open" <=> refs[s] > 0
RefInv == \A s \in Slots : RefOK(s)

MessageOK(c, msg) ==
  /\ msg.sent[2] <= conn[msg.session]
  /\ msg.type # "LEAVE" => msg.sent = Current(msg.session)
  /\ msg.type = "RELEASE" => m_content[msg.session] = c
MessageInv ==
  \A c \in Contents : \A i \in DOMAIN m_msgQueue[c] : MessageOK(c, m_msgQueue[c][i])

LifeOK(s) ==
  /\ m_content[s] # NoContent => life[s] # "free"
  /\ leaving[s] => m_content[s] = NoContent
  /\ life[s] # "free" => conn[s] > 0
LifeInv == \A s \in Slots : LifeOK(s)

\* The messages of queue q that take the handle h into a map, and out of it;
\* whether a map that was S has it after the first n of them.
TakesIn(q, i, h) == q[i].type = "ENTER" /\ q[i].sent = h
TakesOut(q, i, h) == q[i].type # "ENTER" /\ q[i].sent = h
HasAfter(q, S, h, n) ==
  \/ h \in S /\ \A i \in 1..n : ~TakesOut(q, i, h)
  \/ \E i \in 1..n : TakesIn(q, i, h) /\ \A k \in (i + 1)..n : ~TakesOut(q, k, h)
Alternates(q, S, h) ==
  \A i \in 1..Len(q) : /\ TakesIn(q, i, h) => ~HasAfter(q, S, h, i - 1)
                       /\ TakesOut(q, i, h) => HasAfter(q, S, h, i - 1)

\* The session of h is in content c and no message to take it out is posted.
Stays(c, h) ==
  /\ h = Current(h[1]) /\ m_content[h[1]] = c /\ life[h[1]] = "open"
  /\ \A t \in Threads : ~(moving[t].step = "enter" /\ moving[t].handle = h)

MapOK(c, h) ==
  /\ Alternates(m_msgQueue[c], sessions[c], h)
  /\ HasAfter(m_msgQueue[c], sessions[c], h, Len(m_msgQueue[c])) <=> Stays(c, h)
MapInv == \A c \in Contents : \A h \in Handles : MapOK(c, h)

CountInv == \A c \in Contents : m_sessionCount[c] = Cardinality(sessions[c])

InsideInv ==
  \A c \in Contents : \A h \in sessions[c] : c \in inside[h] \/ Pending(c, "LEAVE", h)

\* A move of an open session is marked.
MarkInv ==
  \A s \in Slots : life[s] = "open" /\ LeaveDue(Current(s), m_msgQueue) => IsMoving[s]

TakeInv ==
  \A c \in Contents : thread[c].at = "take" =>
    /\ m_content[thread[c].handle[1]] = c
    /\ ~Pending(c, "LEAVE", thread[c].handle)

Undisturbed == MapInv /\ CountInv /\ InsideInv /\ MarkInv /\ TakeInv

IInv ==
  /\ TypeInv /\ WorkerInv /\ UpdateInv /\ MoverInv /\ RefInv /\ MessageInv /\ LifeInv
  /\ ReleasedOnce
  /\ ~disturbed => Undisturbed

-----------------------------------------------------------------------------
\* Handles, and sequences.

LEMMA HandleIs ==
  ASSUME NEW h \in Handles
  PROVE  h[1] \in Slots /\ h[2] \in 1..MaxConnections /\ h = <<h[1], h[2]>>
BY DEF Handles

LEMMA CurrentIs ==
  ASSUME ContentAssumption, TypeInv, NEW s \in Slots
  PROVE  /\ Current(s) = <<s, conn[s]>> /\ Current(s)[1] = s /\ Current(s)[2] = conn[s]
         /\ conn[s] > 0 => Current(s) \in Handles
BY DEF Current, Handles, TypeInv, SlotsTyped, ContentAssumption

LEMMA FoundIsCurrent ==
  ASSUME TypeInv, NEW h \in Handles
  PROVE  Found(h) <=> life[h[1]] = "open" /\ h = Current(h[1])
BY HandleIs DEF Current, Found, Handles

LEMMA AppendIs ==
  ASSUME NEW M, NEW q \in Seq(M), NEW m \in M
  PROVE  /\ Append(q, m) \in Seq(M) /\ Len(Append(q, m)) = Len(q) + 1
         /\ DOMAIN Append(q, m) = 1..(Len(q) + 1) /\ DOMAIN q = 1..Len(q) /\ Len(q) \in Nat
         /\ \A i \in 1..Len(q) : Append(q, m)[i] = q[i] /\ q[i] \in M
         /\ Append(q, m)[Len(q) + 1] = m
OBVIOUS

LEMMA TailIs ==
  ASSUME NEW M, NEW q \in Seq(M), q # <<>>
  PROVE  /\ Tail(q) \in Seq(M) /\ Len(Tail(q)) = Len(q) - 1 /\ Len(q) \in Nat \ {0}
         /\ DOMAIN Tail(q) = 1..(Len(q) - 1) /\ DOMAIN q = 1..Len(q)
         /\ \A i \in 1..(Len(q) - 1) : Tail(q)[i] = q[i + 1]
         /\ Head(q) = q[1] /\ \A i \in 1..Len(q) : q[i] \in M
OBVIOUS

LEMMA QueueIs ==
  ASSUME TypeInv, NEW c \in Contents
  PROVE  /\ m_msgQueue[c] \in Seq(MessageSet) /\ Len(m_msgQueue[c]) \in Nat
         /\ DOMAIN m_msgQueue[c] = 1..Len(m_msgQueue[c])
         /\ \A i \in DOMAIN m_msgQueue[c] :
              /\ m_msgQueue[c][i] \in MessageSet
              /\ m_msgQueue[c][i].type \in {"ENTER", "LEAVE", "RELEASE"}
              /\ m_msgQueue[c][i].session \in Slots /\ m_msgQueue[c][i].sent \in Handles
              /\ m_msgQueue[c][i].session = m_msgQueue[c][i].sent[1]
BY DEF TypeInv, ContentsTyped, MessageSet

LEMMA MsgIs ==
  ASSUME NEW h \in Handles, NEW type \in {"ENTER", "LEAVE", "RELEASE"}
  PROVE  /\ Msg(type, h) \in MessageSet /\ Msg(type, h).type = type
         /\ Msg(type, h).session = h[1] /\ Msg(type, h).sent = h
BY HandleIs DEF Msg, MessageSet

\* What a queue begins with.
LEMMA HeadIs ==
  ASSUME TypeInv, NEW c \in Contents, NEW type, Takes(c, type)
  PROVE  /\ m_msgQueue[c] # <<>> /\ 1 \in DOMAIN m_msgQueue[c] /\ thread[c] = Idle
         /\ Head(m_msgQueue[c]) = m_msgQueue[c][1] /\ m_msgQueue[c][1].type = type
         /\ m_msgQueue[c][1] \in MessageSet /\ m_msgQueue[c][1].session \in Slots
         /\ m_msgQueue[c][1].sent \in Handles
         /\ m_msgQueue[c][1].session = m_msgQueue[c][1].sent[1]
<1>1. m_msgQueue[c] # <<>> /\ Head(m_msgQueue[c]).type = type /\ thread[c] = Idle
  BY DEF Takes
<1>2. m_msgQueue[c] \in Seq(MessageSet) BY QueueIs
<1>3. 1 \in DOMAIN m_msgQueue[c] /\ Head(m_msgQueue[c]) = m_msgQueue[c][1]
  BY <1>1, <1>2, TailIs
<1> QED BY <1>1, <1>3, QueueIs

-----------------------------------------------------------------------------
\* Threads.

LEMMA ServerIs ==
  ASSUME ContentAssumption, TypeInv, WorkerInv, UpdateInv, NEW t \in Threads,
         thread[t].at \in {"callback", "entering", "check", "take", "receiving"}
  PROVE  /\ thread[t].handle \in Handles /\ thread[t].handle[1] \in Slots
         /\ thread[t].handle = Current(thread[t].handle[1])
         /\ \/ t \in Slots /\ t \notin Contents /\ thread[t].at = "callback"
                 /\ thread[t].handle[1] = t /\ connected[t]
            \/ t \in Contents /\ t \notin Slots /\ thread[t].at # "callback" /\ Serves(t)
                 /\ thread[t].handle \in sessions[t]
<1>1. CASE t \in Slots
  <2>1. thread[t].at = "callback" /\ thread[t].handle = Current(t) /\ connected[t]
    BY <1>1 DEF WorkerInv, WorkerOK, Idle
  <2>2. thread[t].handle # NoHandle BY <2>1 DEF Current, NoHandle
  <2>3. thread[t].handle \in Handles BY <2>2 DEF TypeInv, ThreadsTyped
  <2>4. thread[t].handle[1] = t BY <2>1, <1>1 DEF Current
  <2> QED BY <1>1, <2>1, <2>3, <2>4 DEF ContentAssumption
<1>2. CASE t \in Contents
  <2>1. /\ Serves(t) /\ thread[t].handle \in sessions[t]
        /\ thread[t].handle = Current(thread[t].handle[1])
    BY <1>2 DEF UpdateInv, UpdateOK, Idle
  <2>2. thread[t].handle \in Handles BY <1>2, <2>1 DEF TypeInv, ContentsTyped
  <2> QED BY <1>2, <2>1, <2>2, HandleIs DEF ContentAssumption, Serves
<1> QED BY <1>1, <1>2 DEF Threads

LEMMA MoverIs ==
  ASSUME ContentAssumption, TypeInv, WorkerInv, UpdateInv, MoverInv, NEW t \in Threads,
         moving[t].step # "none"
  PROVE  /\ thread[t].at \in {"callback", "entering", "receiving"}
         /\ moving[t].handle = thread[t].handle /\ moving[t].handle \in Handles
         /\ moving[t].handle[1] \in Slots /\ moving[t].handle = Current(moving[t].handle[1])
         /\ m_content[moving[t].handle[1]] = Own(t) /\ moving[t].to # Own(t)
         /\ moving[t].to \in Contents \cup {NoContent}
         /\ moving[t].step \in {"leave", "enter"}
<1>1. /\ thread[t].at \in {"callback", "entering", "receiving"}
      /\ moving[t].handle = thread[t].handle
      /\ m_content[moving[t].handle[1]] = Own(t) /\ moving[t].to # Own(t)
  BY DEF MoverInv, MoverOK
<1>2. moving[t].to \in Contents \cup {NoContent} /\ moving[t].step \in {"leave", "enter"}
  BY DEF TypeInv, ThreadsTyped
<1> QED BY <1>1, <1>2, ServerIs

\* A slot's session is moved by one thread at a time.
LEMMA OneMover ==
  ASSUME ContentAssumption, TypeInv, WorkerInv, UpdateInv, MoverInv,
         NEW t \in Threads, NEW u \in Threads,
         moving[t].step # "none", moving[u].step # "none",
         moving[t].handle[1] = moving[u].handle[1]
  PROVE  t = u
<1>1. Own(t) = Own(u) BY MoverIs
<1>2. CASE t \in Contents
  BY <1>1, <1>2 DEF Own, ContentAssumption
<1>3. CASE t \notin Contents
  <2>1. u \notin Contents BY <1>1, <1>3 DEF Own, ContentAssumption
  <2>2. moving[t].handle = thread[t].handle /\ moving[u].handle = thread[u].handle
        /\ thread[t].at \in {"callback", "entering", "receiving"}
        /\ thread[u].at \in {"callback", "entering", "receiving"}
    BY MoverIs
  <2>3. thread[t].handle[1] = t BY <2>2, <1>3, ServerIs
  <2>4. thread[u].handle[1] = u BY <2>2, <2>1, ServerIs
  <2> QED BY <2>2, <2>3, <2>4
<1> QED BY <1>2, <1>3

\* A callback may move a session: nobody else does.
LEMMA CallbackIs ==
  ASSUME ContentAssumption, TypeInv, WorkerInv, UpdateInv, NEW t \in Threads, InCallback(t)
  PROVE  /\ moving[t].step = "none" /\ thread[t].at \in {"callback", "entering", "receiving"}
         /\ thread[t].handle \in Handles /\ thread[t].handle[1] \in Slots
         /\ thread[t].handle = Current(thread[t].handle[1])
         /\ m_content[thread[t].handle[1]] = Own(t)
BY ServerIs DEF InCallback, Own


\* Whoever holds a reference to a session finds it open.
LEMMA CardOf ==
  ASSUME ContentAssumption, TypeInv, NEW s \in Slots
  PROVE  /\ IsFiniteSet(Serving(s)) /\ Cardinality(Serving(s)) \in Nat
         /\ IsFiniteSet(Moving(s)) /\ Cardinality(Moving(s)) \in Nat
         /\ IsFiniteSet(Posted("ENTER", s, m_msgQueue))
         /\ Cardinality(Posted("ENTER", s, m_msgQueue)) \in Nat
         /\ IsFiniteSet(Posted("RELEASE", s, m_msgQueue))
         /\ Cardinality(Posted("RELEASE", s, m_msgQueue)) \in Nat
<1>1. IsFiniteSet(Threads) BY FS_Union DEF Threads, ContentAssumption
<1>2. Serving(s) \subseteq Contents /\ Moving(s) \subseteq Threads BY DEF Serving, Moving
<1>3. IsFiniteSet(Serving(s)) /\ IsFiniteSet(Moving(s))
  BY <1>1, <1>2, FS_Subset DEF ContentAssumption
<1>4. \A type : IsFiniteSet(Posted(type, s, m_msgQueue))
  <2> DEFINE in(c) == {c} \X DOMAIN m_msgQueue[c]
  <2>1. \A c \in Contents : IsFiniteSet(in(c))
    <3> TAKE c \in Contents
    <3>1. IsFiniteSet(DOMAIN m_msgQueue[c]) BY QueueIs, FS_Interval
    <3> QED BY <3>1, FS_Product, FS_Singleton
  <2>2. IsFiniteSet({in(c) : c \in Contents})
    <3> DEFINE f == [c \in Contents |-> in(c)]
    <3>1. f \in Surjection(Contents, {in(c) : c \in Contents}) BY DEF Surjection
    <3> QED BY <3>1, FS_Surjection DEF ContentAssumption
  <2>3. IsFiniteSet(UNION {in(c) : c \in Contents}) BY <2>1, <2>2, FS_UNION
  <2> QED BY <2>3, FS_Subset DEF Posted
<1> QED BY <1>3, <1>4, FS_CardinalityType

LEMMA ConnectedIs ==
  ASSUME ContentAssumption, TypeInv, RefInv, LifeInv, NEW s \in Slots, connected[s]
  PROVE  refs[s] > 0 /\ life[s] = "open" /\ conn[s] > 0
<1>1. refs[s] > 0 BY CardOf DEF RefInv, RefOK
<1> QED BY <1>1 DEF RefInv, RefOK, LifeInv, LifeOK

LEMMA ServerConn ==
  ASSUME ContentAssumption, TypeInv, WorkerInv, UpdateInv, RefInv, LifeInv, NEW t \in Threads,
         thread[t].at \in {"callback", "entering", "check", "take", "receiving"}
  PROVE  LET s == thread[t].handle[1]
         IN s \in Slots /\ life[s] = "open" /\ refs[s] > 0 /\ conn[s] > 0
<1> DEFINE s == thread[t].handle[1]
<1>1. s \in Slots BY ServerIs
<1>2. CASE t \in Slots
  BY <1>2, ServerIs, ConnectedIs
<1>3. CASE t \in Contents
  <2>1. t \in Serving(s) BY <1>3, ServerIs DEF Serving
  <2>2. Cardinality(Serving(s)) # 0 BY <1>1, <2>1, CardOf, FS_EmptySet
  <2>3. refs[s] > 0 BY <1>1, <2>2, CardOf DEF RefInv, RefOK
  <2> QED BY <1>1, <2>3 DEF RefInv, RefOK, LifeInv, LifeOK
<1> QED BY <1>2, <1>3 DEF Threads

LEMMA EnterIs ==
  ASSUME ContentAssumption, TypeInv, RefInv, LifeInv, MessageInv, NEW c \in Contents,
         NEW i \in DOMAIN m_msgQueue[c], m_msgQueue[c][i].type = "ENTER"
  PROVE  LET s == m_msgQueue[c][i].session
         IN /\ s \in Slots /\ life[s] = "open" /\ refs[s] > 0 /\ conn[s] > 0
            /\ Current(s) \in Handles /\ m_msgQueue[c][i].sent = Current(s)
<1> DEFINE s == m_msgQueue[c][i].session
<1>1. s \in Slots BY QueueIs
<1>2. <<c, i>> \in Posted("ENTER", s, m_msgQueue) BY DEF Posted
<1>3. Cardinality(Posted("ENTER", s, m_msgQueue)) # 0 BY <1>1, <1>2, CardOf, FS_EmptySet
<1>4. refs[s] > 0 BY <1>1, <1>3, CardOf DEF RefInv, RefOK
<1>5. life[s] = "open" /\ conn[s] > 0 BY <1>1, <1>4 DEF RefInv, RefOK, LifeInv, LifeOK
<1>6. m_msgQueue[c][i].sent = Current(s) BY DEF MessageInv, MessageOK
<1> QED BY <1>1, <1>4, <1>5, <1>6, CurrentIs

LEMMA ReleaseIs ==
  ASSUME ContentAssumption, TypeInv, MessageInv, LifeInv, ReleasedOnce, NEW c \in Contents,
         NEW i \in DOMAIN m_msgQueue[c], m_msgQueue[c][i].type = "RELEASE"
  PROVE  LET s == m_msgQueue[c][i].session
         IN /\ s \in Slots /\ life[s] = "released" /\ ~leaving[s] /\ conn[s] > 0
            /\ Cardinality(Posted("RELEASE", s, m_msgQueue)) = 1
            /\ Current(s) \in Handles /\ m_msgQueue[c][i].sent = Current(s) /\ m_content[s] = c
            /\ \A d \in Contents : \A k \in DOMAIN m_msgQueue[d] :
                 m_msgQueue[d][k].type = "RELEASE" /\ m_msgQueue[d][k].session = s => d = c /\ k = i
<1> DEFINE s == m_msgQueue[c][i].session
<1>1. s \in Slots BY QueueIs
<1>2. <<c, i>> \in Posted("RELEASE", s, m_msgQueue) BY DEF Posted
<1>3. Cardinality(Posted("RELEASE", s, m_msgQueue)) # 0 BY <1>1, <1>2, CardOf, FS_EmptySet
<1>4. Cardinality(Posted("RELEASE", s, m_msgQueue)) + (IF leaving[s] THEN 1 ELSE 0)
        = (IF life[s] = "released" THEN 1 ELSE 0)
  BY <1>1 DEF ReleasedOnce
<1>5. /\ life[s] = "released" /\ ~leaving[s]
      /\ Cardinality(Posted("RELEASE", s, m_msgQueue)) = 1
  BY <1>1, <1>3, <1>4, CardOf
<1>6. conn[s] > 0 BY <1>1, <1>5 DEF LifeInv, LifeOK
<1>7. m_msgQueue[c][i].sent = Current(s) /\ m_content[s] = c BY DEF MessageInv, MessageOK
<1>8. ASSUME NEW d \in Contents, NEW k \in DOMAIN m_msgQueue[d],
             m_msgQueue[d][k].type = "RELEASE", m_msgQueue[d][k].session = s
      PROVE  d = c /\ k = i
  <2>1. <<d, k>> \in Posted("RELEASE", s, m_msgQueue) BY <1>8 DEF Posted
  <2>2. \E x : Posted("RELEASE", s, m_msgQueue) = {x} BY <1>1, <1>5, CardOf, FS_Singleton
  <2> QED BY <1>2, <2>1, <2>2
<1> QED BY <1>1, <1>5, <1>6, <1>7, <1>8, CurrentIs

LEMMA LeavingIs ==
  ASSUME ContentAssumption, TypeInv, ReleasedOnce, NEW s \in Slots, leaving[s]
  PROVE  life[s] = "released" /\ Cardinality(Posted("RELEASE", s, m_msgQueue)) = 0
<1>1. Cardinality(Posted("RELEASE", s, m_msgQueue)) + (IF leaving[s] THEN 1 ELSE 0)
        = (IF life[s] = "released" THEN 1 ELSE 0)
  BY DEF ReleasedOnce
<1> QED BY <1>1, CardOf

-----------------------------------------------------------------------------
\* Types.

LEMMA DroppedIs ==
  ASSUME ContentAssumption, TypeInv, NEW s \in Slots, Dropped(s, m_msgQueue)
  PROVE  \/ /\ refs[s] > 1 /\ refs' = [refs EXCEPT ![s] = refs[s] - 1]
            /\ UNCHANGED <<life, leaving, IsMoving, ring, m_msgQueue>>
         \/ /\ ~(refs[s] > 1) /\ m_content[s] = NoContent /\ m_content[s] \notin Contents
            /\ refs' = [refs EXCEPT ![s] = 0] /\ life' = [life EXCEPT ![s] = "released"]
            /\ leaving' = [leaving EXCEPT ![s] = TRUE]
            /\ IsMoving' = [IsMoving EXCEPT ![s] = FALSE] /\ ring' = [ring EXCEPT ![s] = 0]
            /\ UNCHANGED m_msgQueue
         \/ /\ ~(refs[s] > 1) /\ m_content[s] \in Contents /\ m_content[s] # NoContent
            /\ refs' = [refs EXCEPT ![s] = 0] /\ life' = [life EXCEPT ![s] = "released"]
            /\ m_msgQueue' = [m_msgQueue EXCEPT ![m_content[s]] =
                                Append(m_msgQueue[m_content[s]], Msg("RELEASE", Current(s)))]
            /\ UNCHANGED <<leaving, IsMoving, ring>>
<1>1. m_content[s] \in Contents \cup {NoContent} BY DEF TypeInv, SlotsTyped
<1> QED BY <1>1 DEF Dropped, ContentAssumption

LEMMA DroppedTyped ==
  ASSUME ContentAssumption, TypeInv, NEW s \in Slots, conn[s] > 0, Dropped(s, m_msgQueue)
  PROVE  /\ life' \in [Slots -> {"free", "open", "released"}] /\ refs' \in [Slots -> Int]
         /\ IsMoving' \in [Slots -> BOOLEAN] /\ ring' \in [Slots -> Nat]
         /\ leaving' \in [Slots -> BOOLEAN]
         /\ m_msgQueue' \in [Contents -> Seq(MessageSet)]
<1>1. /\ life \in [Slots -> {"free", "open", "released"}] /\ refs \in [Slots -> Int]
      /\ IsMoving \in [Slots -> BOOLEAN] /\ ring \in [Slots -> Nat]
      /\ leaving \in [Slots -> BOOLEAN]
      /\ m_msgQueue \in [Contents -> Seq(MessageSet)]
  BY DEF TypeInv, SlotsTyped, ContentsTyped
<1>2. CASE refs[s] > 1
  <2>1. refs' = [refs EXCEPT ![s] = refs[s] - 1] /\ UNCHANGED <<life, leaving, IsMoving, ring, m_msgQueue>>
    BY <1>2, DroppedIs
  <2> QED BY <1>1, <2>1
<1>3. CASE ~(refs[s] > 1) /\ m_content[s] = NoContent
  <2>1. /\ refs' = [refs EXCEPT ![s] = 0] /\ life' = [life EXCEPT ![s] = "released"]
        /\ leaving' = [leaving EXCEPT ![s] = TRUE]
        /\ IsMoving' = [IsMoving EXCEPT ![s] = FALSE] /\ ring' = [ring EXCEPT ![s] = 0]
        /\ UNCHANGED m_msgQueue
    BY <1>3, DroppedIs
  <2> QED BY <1>1, <2>1
<1>4. CASE ~(refs[s] > 1) /\ m_content[s] # NoContent
  <2> DEFINE c == m_content[s]
             m == Msg("RELEASE", Current(s))
  <2>1. /\ refs' = [refs EXCEPT ![s] = 0] /\ life' = [life EXCEPT ![s] = "released"] /\ c \in Contents
        /\ m_msgQueue' = [m_msgQueue EXCEPT ![c] = Append(m_msgQueue[c], m)]
        /\ UNCHANGED <<leaving, IsMoving, ring>>
    BY <1>4, DroppedIs
  <2>2. m \in MessageSet BY MsgIs, CurrentIs
  <2>3. Append(m_msgQueue[c], m) \in Seq(MessageSet) BY <2>1, <2>2, QueueIs, AppendIs
  <2> HIDE DEF c, m
  <2> QED BY <1>1, <2>1, <2>3
<1> QED BY <1>2, <1>3, <1>4

LEMMA TypeStep ==
  ASSUME ContentAssumption, IInv, [Next]_vars
  PROVE  TypeInv'
<1> USE DEF IInv
<1>1. CASE UNCHANGED vars
  BY <1>1 DEF TypeInv, SlotsTyped, ContentsTyped, ThreadsTyped, vars, slotVars, contentVars
<1>2. ASSUME NEW s \in Slots, Connect(s) PROVE TypeInv'
  <2> USE <1>2 DEF Connect
  <2>0. <<s, conn[s] + 1>> \in Handles BY DEF TypeInv, SlotsTyped, Handles, ContentAssumption
  <2>1. SlotsTyped' BY DEF TypeInv, SlotsTyped, slotVars
  <2>2. ContentsTyped' BY DEF TypeInv, ContentsTyped, contentVars
  <2>3. ThreadsTyped' BY <2>0 DEF TypeInv, ThreadsTyped, Threads
  <2>4. /\ inside' \in [Handles -> SUBSET Contents]
        /\ disturbed' \in BOOLEAN /\ moves' \in Nat /\ frames' \in Nat
    BY DEF TypeInv
  <2> QED BY <2>1, <2>2, <2>3, <2>4 DEF TypeInv
<1>3. ASSUME NEW s \in Slots, ReceiveFrame(s) PROVE TypeInv'
  <2> USE <1>3 DEF ReceiveFrame
  <2>0. Current(s) \in Handles BY CurrentIs, ConnectedIs
  <2>1. SlotsTyped' BY DEF TypeInv, SlotsTyped, slotVars
  <2>2. ContentsTyped' BY DEF TypeInv, ContentsTyped, contentVars
  <2>3. ThreadsTyped' BY <2>1, <2>0 DEF TypeInv, ThreadsTyped, Threads
  <2>4. /\ inside' \in [Handles -> SUBSET Contents]
        /\ disturbed' \in BOOLEAN /\ moves' \in Nat /\ frames' \in Nat
    BY DEF TypeInv
  <2> QED BY <2>1, <2>2, <2>3, <2>4 DEF TypeInv
<1>4. ASSUME NEW s \in Slots, PeerCloses(s) PROVE TypeInv'
  <2> USE <1>4 DEF PeerCloses
  <2>0. s \in Slots /\ conn[s] > 0
    BY ConnectedIs
  <2>01. Dropped(s, m_msgQueue) OBVIOUS
  <2>1. SlotsTyped' BY <2>0, <2>01, DroppedTyped DEF TypeInv, SlotsTyped
  <2>2. ContentsTyped' BY <2>0, <2>01, DroppedTyped DEF TypeInv, ContentsTyped
  <2>3. ThreadsTyped' BY DEF TypeInv, ThreadsTyped, Threads, Idle, NotMoving
  <2>4. /\ inside' \in [Handles -> SUBSET Contents]
        /\ disturbed' \in BOOLEAN /\ moves' \in Nat /\ frames' \in Nat
    BY DEF TypeInv
  <2> QED BY <2>1, <2>2, <2>3, <2>4 DEF TypeInv
<1>5. ASSUME NEW s \in Slots, WorkerReturns(s) PROVE TypeInv'
  <2> USE <1>5 DEF WorkerReturns
  <2>1. SlotsTyped' BY DEF TypeInv, SlotsTyped, slotVars
  <2>2. ContentsTyped' BY DEF TypeInv, ContentsTyped, contentVars
  <2>3. ThreadsTyped' BY DEF TypeInv, ThreadsTyped, Threads, Idle, NotMoving
  <2>4. /\ inside' \in [Handles -> SUBSET Contents]
        /\ disturbed' \in BOOLEAN /\ moves' \in Nat /\ frames' \in Nat
    BY DEF TypeInv
  <2> QED BY <2>1, <2>2, <2>3, <2>4 DEF TypeInv
<1>6. ASSUME NEW s \in Slots, ClientLeave(s) PROVE TypeInv'
  <2> USE <1>6 DEF ClientLeave
  <2>1. SlotsTyped' BY DEF TypeInv, SlotsTyped, slotVars
  <2>2. ContentsTyped' BY DEF TypeInv, ContentsTyped, contentVars
  <2>3. ThreadsTyped' BY DEF TypeInv, ThreadsTyped, Threads, Idle, NotMoving
  <2>4. /\ inside' \in [Handles -> SUBSET Contents]
        /\ disturbed' \in BOOLEAN /\ moves' \in Nat /\ frames' \in Nat
    BY DEF TypeInv
  <2> QED BY <2>1, <2>2, <2>3, <2>4 DEF TypeInv
<1>7. ASSUME NEW t \in Threads, MoveContent(t) PROVE TypeInv'
  <2> USE <1>7 DEF MoveContent
  <2>0. /\ thread[t].handle \in Handles /\ thread[t].handle[1] \in Slots 
        /\ \E to \in Contents \cup {NoContent} :
             moving' = [moving EXCEPT ![t] = [step |-> "leave", to |-> to, handle |-> thread[t].handle]]
    BY CallbackIs
  <2>00. /\ refs' = [refs EXCEPT ![thread[t].handle[1]] = @ + 1]
         /\ IsMoving' = [IsMoving EXCEPT ![thread[t].handle[1]] = TRUE]
         /\ UNCHANGED <<life, conn, connected, m_content, ring, leaving>>
    OBVIOUS
  <2>1. SlotsTyped' BY <2>0, <2>00 DEF TypeInv, SlotsTyped
  <2>2. ContentsTyped' BY DEF TypeInv, ContentsTyped, contentVars
  <2>3. ThreadsTyped' BY <2>0 DEF TypeInv, ThreadsTyped
  <2>4. /\ inside' \in [Handles -> SUBSET Contents]
        /\ disturbed' \in BOOLEAN /\ moves' \in Nat /\ frames' \in Nat
    BY DEF TypeInv
  <2> QED BY <2>1, <2>2, <2>3, <2>4 DEF TypeInv
<1>8. ASSUME NEW t \in Threads, MoveLeave(t) PROVE TypeInv'
  <2> USE <1>8 DEF MoveLeave
  <2> DEFINE h == moving[t].handle
  <2>0. h \in Handles /\ h[1] \in Slots /\ moving[t].to \in Contents \cup {NoContent}
        /\ m_content[h[1]] \in Contents \cup {NoContent}
    BY MoverIs DEF TypeInv, SlotsTyped
  <2> HIDE DEF h
  <2>02. m_msgQueue \in [Contents -> Seq(MessageSet)] /\ \A a \in Contents : m_msgQueue[a] \in Seq(MessageSet)
    BY DEF TypeInv, ContentsTyped
  <2>03. Msg("LEAVE", h) \in MessageSet BY <2>0, MsgIs
  <2>04. \A a \in Contents : Append(m_msgQueue[a], Msg("LEAVE", h)) \in Seq(MessageSet)
    BY <2>02, <2>03, AppendIs
  <2>1. SlotsTyped' BY <2>0 DEF TypeInv, SlotsTyped, h
  <2>2. m_msgQueue' \in [Contents -> Seq(MessageSet)]
    BY <2>0, <2>02, <2>04 DEF h
  <2>21. ContentsTyped' BY <2>2 DEF TypeInv, ContentsTyped
  <2>3. ThreadsTyped'
    <3>1. thread' = thread /\ moving' = [moving EXCEPT ![t] = [moving[t] EXCEPT !.step = "enter"]]
      OBVIOUS
    <3> HIDE DEF MoveLeave
    <3> QED BY <3>1 DEF TypeInv, ThreadsTyped
  <2>4. /\ inside' \in [Handles -> SUBSET Contents]
        /\ disturbed' \in BOOLEAN /\ moves' \in Nat /\ frames' \in Nat
    BY <2>0, ZenonT(60) DEF TypeInv, h
  <2> QED BY <2>1, <2>21, <2>3, <2>4 DEF TypeInv
<1>9. ASSUME NEW t \in Threads, MoveEnter(t) PROVE TypeInv'
  <2> USE <1>9 DEF MoveEnter
  <2> DEFINE h == moving[t].handle
  <2>0. h \in Handles /\ h[1] \in Slots /\ moving[t].to \in Contents \cup {NoContent}
        /\ m_content[h[1]] \in Contents \cup {NoContent}
    BY MoverIs DEF TypeInv, SlotsTyped
  <2> HIDE DEF h
  <2>02. m_msgQueue \in [Contents -> Seq(MessageSet)] /\ \A a \in Contents : m_msgQueue[a] \in Seq(MessageSet)
    BY DEF TypeInv, ContentsTyped
  <2>03. Msg("ENTER", h) \in MessageSet BY <2>0, MsgIs
  <2>04. \A a \in Contents : Append(m_msgQueue[a], Msg("ENTER", h)) \in Seq(MessageSet)
    BY <2>02, <2>03, AppendIs
  <2>1. SlotsTyped' BY <2>0, SMTT(30) DEF TypeInv, SlotsTyped, h
  <2>2. m_msgQueue' \in [Contents -> Seq(MessageSet)]
    BY <2>0, <2>02, <2>04 DEF h
  <2>21. ContentsTyped' BY <2>2 DEF TypeInv, ContentsTyped
  <2>3. ThreadsTyped' BY DEF TypeInv, ThreadsTyped, Threads, Idle, NotMoving
  <2>4. /\ inside' \in [Handles -> SUBSET Contents]
        /\ disturbed' \in BOOLEAN /\ moves' \in Nat /\ frames' \in Nat
    BY DEF TypeInv
  <2> QED BY <2>1, <2>21, <2>3, <2>4 DEF TypeInv
<1>10. ASSUME NEW c \in Contents, HandleEnter(c) PROVE TypeInv'
  <2> USE <1>10 DEF HandleEnter
  <2> DEFINE msg == m_msgQueue[c][1]
  <2>0. m_msgQueue[c] # <<>> /\ Head(m_msgQueue[c]) = msg /\ msg \in MessageSet /\ msg.session \in Slots
        /\ msg.sent \in Handles /\ msg.session = msg.sent[1]
    BY HeadIs
  <2>02. m_msgQueue \in [Contents -> Seq(MessageSet)] /\ \A a \in Contents : m_msgQueue[a] \in Seq(MessageSet)
    BY DEF TypeInv, ContentsTyped
  <2>03. Tail(m_msgQueue[c]) \in Seq(MessageSet) BY <2>0, <2>02, TailIs
  <2>04. Current(msg.session) \in Handles BY HeadIs, EnterIs
  <2> HIDE DEF msg
  <2>1. SlotsTyped' BY DEF TypeInv, SlotsTyped, slotVars
  <2>2. ContentsTyped' BY <2>0, <2>02, <2>03, <2>04 DEF TypeInv, ContentsTyped
  <2>3. ThreadsTyped' BY <2>0, <2>04 DEF TypeInv, ThreadsTyped, Threads
  <2>4. /\ inside' \in [Handles -> SUBSET Contents]
        /\ disturbed' \in BOOLEAN /\ moves' \in Nat /\ frames' \in Nat
    BY <2>0, <2>04 DEF TypeInv
  <2> QED BY <2>1, <2>2, <2>3, <2>4 DEF TypeInv
<1>11. ASSUME NEW c \in Contents, EnterReturns(c) PROVE TypeInv'
  <2> USE <1>11 DEF EnterReturns
  <2>0. thread[c].handle[1] \in Slots /\ conn[thread[c].handle[1]] > 0
    BY ServerConn DEF Threads
  <2>01. Dropped(thread[c].handle[1], m_msgQueue) OBVIOUS
  <2>1. SlotsTyped' BY <2>0, <2>01, DroppedTyped DEF TypeInv, SlotsTyped
  <2>2. ContentsTyped' BY <2>0, <2>01, DroppedTyped DEF TypeInv, ContentsTyped
  <2>3. ThreadsTyped' BY DEF TypeInv, ThreadsTyped, Threads, Idle, NotMoving
  <2>4. /\ inside' \in [Handles -> SUBSET Contents]
        /\ disturbed' \in BOOLEAN /\ moves' \in Nat /\ frames' \in Nat
    BY DEF TypeInv
  <2> QED BY <2>1, <2>2, <2>3, <2>4 DEF TypeInv
<1>12. ASSUME NEW c \in Contents, HandleLeave(c) PROVE TypeInv'
  <2> USE <1>12 DEF HandleLeave
  <2> DEFINE msg == m_msgQueue[c][1]
  <2>0. m_msgQueue[c] # <<>> /\ Head(m_msgQueue[c]) = msg /\ msg \in MessageSet /\ msg.session \in Slots
        /\ msg.sent \in Handles /\ msg.session = msg.sent[1]
    BY HeadIs
  <2>02. m_msgQueue \in [Contents -> Seq(MessageSet)] /\ \A a \in Contents : m_msgQueue[a] \in Seq(MessageSet)
    BY DEF TypeInv, ContentsTyped
  <2>03. Tail(m_msgQueue[c]) \in Seq(MessageSet) BY <2>0, <2>02, TailIs
  <2> HIDE DEF msg
  <2>1. SlotsTyped' BY <2>0 DEF TypeInv, SlotsTyped
  <2>2. ContentsTyped' BY <2>0, <2>02, <2>03 DEF TypeInv, ContentsTyped
  <2>3. ThreadsTyped' BY DEF TypeInv, ThreadsTyped, Threads, Idle, NotMoving
  <2>4. /\ inside' \in [Handles -> SUBSET Contents]
        /\ disturbed' \in BOOLEAN /\ moves' \in Nat /\ frames' \in Nat
    BY <2>0 DEF TypeInv
  <2> QED BY <2>1, <2>2, <2>3, <2>4 DEF TypeInv
<1>13. ASSUME NEW c \in Contents, HandleRelease(c) PROVE TypeInv'
  <2> USE <1>13 DEF HandleRelease
  <2> DEFINE msg == m_msgQueue[c][1]
  <2>0. m_msgQueue[c] # <<>> /\ Head(m_msgQueue[c]) = msg /\ msg \in MessageSet /\ msg.session \in Slots
        /\ msg.sent \in Handles /\ msg.session = msg.sent[1]
    BY HeadIs
  <2>02. m_msgQueue \in [Contents -> Seq(MessageSet)] /\ \A a \in Contents : m_msgQueue[a] \in Seq(MessageSet)
    BY DEF TypeInv, ContentsTyped
  <2>03. Tail(m_msgQueue[c]) \in Seq(MessageSet) BY <2>0, <2>02, TailIs
  <2> HIDE DEF msg
  <2>1. SlotsTyped' BY <2>0 DEF TypeInv, SlotsTyped
  <2>2. ContentsTyped' BY <2>0, <2>02, <2>03 DEF TypeInv, ContentsTyped
  <2>3. ThreadsTyped' BY DEF TypeInv, ThreadsTyped, Threads, Idle, NotMoving
  <2>4. /\ inside' \in [Handles -> SUBSET Contents]
        /\ disturbed' \in BOOLEAN /\ moves' \in Nat /\ frames' \in Nat
    BY <2>0 DEF TypeInv
  <2> QED BY <2>1, <2>2, <2>3, <2>4 DEF TypeInv
<1>14. ASSUME NEW c \in Contents, StartLoop(c) PROVE TypeInv'
  <2> USE <1>14 DEF StartLoop
  <2>1. SlotsTyped' BY DEF TypeInv, SlotsTyped, slotVars
  <2>2. ContentsTyped' BY DEF TypeInv, ContentsTyped, contentVars
  <2>3. ThreadsTyped' BY DEF TypeInv, ThreadsTyped, Threads, Idle, NotMoving
  <2>4. /\ inside' \in [Handles -> SUBSET Contents]
        /\ disturbed' \in BOOLEAN /\ moves' \in Nat /\ frames' \in Nat
    BY DEF TypeInv
  <2> QED BY <2>1, <2>2, <2>3, <2>4 DEF TypeInv
<1>15. ASSUME NEW c \in Contents, FindNext(c) PROVE TypeInv'
  <2> USE <1>15 DEF FindNext
  <2>0. todo[c] \subseteq Handles /\ \A h \in Handles : h[1] \in Slots
    BY HandleIs DEF TypeInv, ContentsTyped
  <2>1. SlotsTyped' BY <2>0 DEF TypeInv, SlotsTyped
  <2>2. ContentsTyped' BY DEF TypeInv, ContentsTyped, contentVars
  <2>3. ThreadsTyped' BY <2>0 DEF TypeInv, ThreadsTyped, Threads
  <2>4. /\ inside' \in [Handles -> SUBSET Contents]
        /\ disturbed' \in BOOLEAN /\ moves' \in Nat /\ frames' \in Nat
    BY DEF TypeInv
  <2> QED BY <2>1, <2>2, <2>3, <2>4 DEF TypeInv
<1>16. ASSUME NEW c \in Contents, EndLoop(c) PROVE TypeInv'
  <2> USE <1>16 DEF EndLoop
  <2>1. SlotsTyped' BY DEF TypeInv, SlotsTyped, slotVars
  <2>2. ContentsTyped' BY DEF TypeInv, ContentsTyped, contentVars
  <2>3. ThreadsTyped' BY DEF TypeInv, ThreadsTyped, Threads, Idle, NotMoving
  <2>4. /\ inside' \in [Handles -> SUBSET Contents]
        /\ disturbed' \in BOOLEAN /\ moves' \in Nat /\ frames' \in Nat
    BY DEF TypeInv
  <2> QED BY <2>1, <2>2, <2>3, <2>4 DEF TypeInv
<1>17. ASSUME NEW c \in Contents, CheckMoving(c) PROVE TypeInv'
  <2> USE <1>17 DEF CheckMoving
  <2>1. SlotsTyped' BY DEF TypeInv, SlotsTyped, slotVars
  <2>2. ContentsTyped' BY DEF TypeInv, ContentsTyped, contentVars
  <2>3. ThreadsTyped' BY DEF TypeInv, ThreadsTyped, Threads, Idle, NotMoving
  <2>4. /\ inside' \in [Handles -> SUBSET Contents]
        /\ disturbed' \in BOOLEAN /\ moves' \in Nat /\ frames' \in Nat
    BY DEF TypeInv
  <2> QED BY <2>1, <2>2, <2>3, <2>4 DEF TypeInv
<1>18. ASSUME NEW c \in Contents, TakeFrame(c) PROVE TypeInv'
  <2> USE <1>18 DEF TakeFrame
  <2>0. thread[c].handle[1] \in Slots BY ServerIs DEF Threads
  <2>1. SlotsTyped' BY <2>0 DEF TypeInv, SlotsTyped
  <2>2. ContentsTyped' BY DEF TypeInv, ContentsTyped, contentVars
  <2>3. ThreadsTyped' BY DEF TypeInv, ThreadsTyped, Threads, Idle, NotMoving
  <2>4. /\ inside' \in [Handles -> SUBSET Contents]
        /\ disturbed' \in BOOLEAN /\ moves' \in Nat /\ frames' \in Nat
    BY DEF TypeInv
  <2> QED BY <2>1, <2>2, <2>3, <2>4 DEF TypeInv
<1>19. ASSUME NEW c \in Contents, RecvReturns(c) PROVE TypeInv'
  <2> USE <1>19 DEF RecvReturns
  <2>1. SlotsTyped' BY DEF TypeInv, SlotsTyped, slotVars
  <2>2. ContentsTyped' BY DEF TypeInv, ContentsTyped, contentVars
  <2>3. ThreadsTyped' BY DEF TypeInv, ThreadsTyped, Threads, Idle, NotMoving
  <2>4. /\ inside' \in [Handles -> SUBSET Contents]
        /\ disturbed' \in BOOLEAN /\ moves' \in Nat /\ frames' \in Nat
    BY DEF TypeInv
  <2> QED BY <2>1, <2>2, <2>3, <2>4 DEF TypeInv
<1>20. ASSUME NEW c \in Contents, LeaveSession(c) PROVE TypeInv'
  <2> USE <1>20 DEF LeaveSession
  <2>0. thread[c].handle[1] \in Slots /\ conn[thread[c].handle[1]] > 0
    BY ServerConn DEF Threads
  <2>01. Dropped(thread[c].handle[1], m_msgQueue) OBVIOUS
  <2>1. SlotsTyped' BY <2>0, <2>01, DroppedTyped DEF TypeInv, SlotsTyped
  <2>2. ContentsTyped' BY <2>0, <2>01, DroppedTyped DEF TypeInv, ContentsTyped
  <2>3. ThreadsTyped' BY DEF TypeInv, ThreadsTyped, Threads, Idle, NotMoving
  <2>4. /\ inside' \in [Handles -> SUBSET Contents]
        /\ disturbed' \in BOOLEAN /\ moves' \in Nat /\ frames' \in Nat
    BY DEF TypeInv
  <2> QED BY <2>1, <2>2, <2>3, <2>4 DEF TypeInv
<1> QED BY <1>1, <1>2, <1>3, <1>4, <1>5, <1>6, <1>7, <1>8, <1>9, <1>10, <1>11, <1>12, <1>13,
           <1>14, <1>15, <1>16, <1>17, <1>18, <1>19, <1>20 DEF Next, Worker, Update, Threads

-----------------------------------------------------------------------------
\* What the steps with a message or a move change.

HandleEnterOf(c, h) ==
  /\ m_msgQueue[c] # <<>> /\ 1 \in DOMAIN m_msgQueue[c]
  /\ m_msgQueue[c][1].type = "ENTER" /\ m_msgQueue[c][1].sent = h
  /\ m_msgQueue[c][1].session = h[1]
  /\ h[1] \in Slots /\ h = Current(h[1]) /\ life[h[1]] = "open" /\ thread[c] = Idle
  /\ sessions' = [sessions EXCEPT ![c] = sessions[c] \cup {h}]
  /\ inside' = [inside EXCEPT ![h] = inside[h] \cup {c}]
  /\ thread' = [thread EXCEPT ![c] = [at |-> "entering", handle |-> h]]
  /\ m_sessionCount' = [m_sessionCount EXCEPT ![c] = m_sessionCount[c] + 1]
  /\ m_msgQueue' = [m_msgQueue EXCEPT ![c] = Tail(m_msgQueue[c])]
  /\ UNCHANGED <<life, conn, refs, connected, m_content, IsMoving, ring, leaving>>
  /\ UNCHANGED <<todo, moving, disturbed, moves, frames>>

LEMMA HandleEnterIs ==
  ASSUME ContentAssumption, IInv, NEW c \in Contents, HandleEnter(c)
  PROVE  \E h \in Handles : HandleEnterOf(c, h)
<1> DEFINE msg == m_msgQueue[c][1]
<1>1. /\ m_msgQueue[c] # <<>> /\ 1 \in DOMAIN m_msgQueue[c] /\ thread[c] = Idle
      /\ Head(m_msgQueue[c]) = msg /\ msg.type = "ENTER" /\ msg.session = msg.sent[1]
  BY HeadIs DEF HandleEnter, IInv
<1>2. LET s == msg.session
      IN /\ s \in Slots /\ life[s] = "open" /\ Current(s) \in Handles /\ msg.sent = Current(s)
  BY <1>1, EnterIs DEF IInv
<1>3. /\ sessions' = [sessions EXCEPT ![c] = sessions[c] \cup {Current(msg.session)}]
      /\ inside' = [inside EXCEPT ![Current(msg.session)] = inside[Current(msg.session)] \cup {c}]
      /\ thread' = [thread EXCEPT ![c] = [at |-> "entering", handle |-> Current(msg.session)]]
      /\ m_sessionCount' = [m_sessionCount EXCEPT ![c] = m_sessionCount[c] + 1]
      /\ m_msgQueue' = [m_msgQueue EXCEPT ![c] = Tail(m_msgQueue[c])]
      /\ UNCHANGED <<life, conn, refs, connected, m_content, IsMoving, ring, leaving>>
      /\ UNCHANGED <<todo, moving, disturbed, moves, frames>>
  BY <1>1 DEF HandleEnter, slotVars
<1> msg.sent \in Handles BY <1>1, <1>2
<1> HIDE DEF msg
<1>4. WITNESS msg.sent \in Handles
<1> QED BY <1>1, <1>2, <1>3 DEF msg, HandleEnterOf

HandleLeaveOf(c, h) ==
  /\ m_msgQueue[c] # <<>> /\ 1 \in DOMAIN m_msgQueue[c]
  /\ m_msgQueue[c][1].type = "LEAVE" /\ m_msgQueue[c][1].sent = h
  /\ m_msgQueue[c][1].session = h[1]
  /\ h[1] \in Slots /\ thread[c] = Idle
  /\ sessions' = [sessions EXCEPT ![c] = sessions[c] \ {Current(h[1])}]
  /\ IsMoving' = [IsMoving EXCEPT ![h[1]] = FALSE]
  /\ disturbed' = (disturbed \/ Current(h[1]) # h \/ LeaveDue(Current(h[1]), m_msgQueue'))
  /\ m_sessionCount' = [m_sessionCount EXCEPT ![c] = m_sessionCount[c] - 1]
  /\ m_msgQueue' = [m_msgQueue EXCEPT ![c] = Tail(m_msgQueue[c])]
  /\ UNCHANGED <<life, conn, refs, connected, m_content, ring, leaving>>
  /\ UNCHANGED <<todo, thread, moving, inside, moves, frames>>

LEMMA HandleLeaveIs ==
  ASSUME ContentAssumption, IInv, NEW c \in Contents, HandleLeave(c)
  PROVE  \E h \in Handles : HandleLeaveOf(c, h)
<1> DEFINE msg == m_msgQueue[c][1]
<1>1. /\ m_msgQueue[c] # <<>> /\ 1 \in DOMAIN m_msgQueue[c] /\ thread[c] = Idle
      /\ Head(m_msgQueue[c]) = msg /\ msg.type = "LEAVE" /\ msg.session = msg.sent[1]
      /\ msg.session \in Slots /\ msg.sent \in Handles
  BY HeadIs DEF HandleLeave, IInv
<1>2. /\ sessions' = [sessions EXCEPT ![c] = sessions[c] \ {Current(msg.session)}]
      /\ IsMoving' = [IsMoving EXCEPT ![msg.session] = FALSE]
      /\ disturbed' = (disturbed \/ Current(msg.session) # msg.sent
                         \/ LeaveDue(Current(msg.session), m_msgQueue'))
      /\ m_sessionCount' = [m_sessionCount EXCEPT ![c] = m_sessionCount[c] - 1]
      /\ m_msgQueue' = [m_msgQueue EXCEPT ![c] = Tail(m_msgQueue[c])]
      /\ UNCHANGED <<life, conn, refs, connected, m_content, ring, leaving>>
      /\ UNCHANGED <<todo, thread, moving, inside, moves, frames>>
  BY <1>1 DEF HandleLeave
<1> msg.sent \in Handles BY <1>1
<1> HIDE DEF msg
<1>3. WITNESS msg.sent \in Handles
<1> QED BY <1>1, <1>2 DEF msg, HandleLeaveOf

HandleReleaseOf(c, h) ==
  /\ m_msgQueue[c] # <<>> /\ 1 \in DOMAIN m_msgQueue[c]
  /\ m_msgQueue[c][1].type = "RELEASE" /\ m_msgQueue[c][1].sent = h
  /\ m_msgQueue[c][1].session = h[1]
  /\ h[1] \in Slots /\ h = Current(h[1]) /\ life[h[1]] = "released" /\ thread[c] = Idle
  /\ m_content[h[1]] = c /\ ~leaving[h[1]]
  /\ sessions' = [sessions EXCEPT ![c] = sessions[c] \ {h}]
  /\ inside' = [inside EXCEPT ![h] = inside[h] \ {c}]
  /\ IsMoving' = [IsMoving EXCEPT ![h[1]] = FALSE]
  /\ m_content' = [m_content EXCEPT ![h[1]] = NoContent]
  /\ ring' = [ring EXCEPT ![h[1]] = 0]
  /\ life' = [life EXCEPT ![h[1]] = "free"]
  /\ m_sessionCount' = [m_sessionCount EXCEPT ![c] = m_sessionCount[c] - 1]
  /\ m_msgQueue' = [m_msgQueue EXCEPT ![c] = Tail(m_msgQueue[c])]
  /\ UNCHANGED <<conn, refs, connected, leaving>>
  /\ UNCHANGED <<todo, thread, moving, disturbed, moves, frames>>

LEMMA HandleReleaseIs ==
  ASSUME ContentAssumption, IInv, NEW c \in Contents, HandleRelease(c)
  PROVE  \E h \in Handles : HandleReleaseOf(c, h)
<1> DEFINE msg == m_msgQueue[c][1]
<1>1. /\ m_msgQueue[c] # <<>> /\ 1 \in DOMAIN m_msgQueue[c] /\ thread[c] = Idle
      /\ Head(m_msgQueue[c]) = msg /\ msg.type = "RELEASE" /\ msg.session = msg.sent[1]
  BY HeadIs DEF HandleRelease, IInv
<1>2. LET s == msg.session
      IN /\ s \in Slots /\ life[s] = "released" /\ Current(s) \in Handles /\ msg.sent = Current(s)
         /\ m_content[s] = c /\ ~leaving[s]
  BY <1>1, ReleaseIs DEF IInv
<1>3. /\ sessions' = [sessions EXCEPT ![c] = sessions[c] \ {Current(msg.session)}]
      /\ inside' = [inside EXCEPT ![Current(msg.session)] = inside[Current(msg.session)] \ {c}]
      /\ IsMoving' = [IsMoving EXCEPT ![msg.session] = FALSE]
      /\ m_content' = [m_content EXCEPT ![msg.session] = NoContent]
      /\ ring' = [ring EXCEPT ![msg.session] = 0]
      /\ life' = [life EXCEPT ![msg.session] = "free"]
      /\ m_sessionCount' = [m_sessionCount EXCEPT ![c] = m_sessionCount[c] - 1]
      /\ m_msgQueue' = [m_msgQueue EXCEPT ![c] = Tail(m_msgQueue[c])]
      /\ UNCHANGED <<conn, refs, connected, leaving>>
      /\ UNCHANGED <<todo, thread, moving, disturbed, moves, frames>>
  BY <1>1 DEF HandleRelease
<1> msg.sent \in Handles BY <1>1, <1>2
<1> HIDE DEF msg
<1>4. WITNESS msg.sent \in Handles
<1> QED BY <1>1, <1>2, <1>3 DEF msg, HandleReleaseOf

MoveLeaveOf(t, h) ==
  /\ moving[t].step = "leave" /\ moving[t].handle = h /\ thread[t].handle = h
  /\ h[1] \in Slots /\ h = Current(h[1]) /\ life[h[1]] = "open" /\ m_content[h[1]] = Own(t)
  /\ moving' = [moving EXCEPT ![t] = [moving[t] EXCEPT !.step = "enter"]]
  /\ UNCHANGED <<life, conn, refs, connected, m_content, ring, leaving>>
  /\ UNCHANGED <<sessions, m_sessionCount, todo, thread, moves, frames>>
  /\ \/ /\ t \in Contents /\ Own(t) = t
        /\ inside' = [inside EXCEPT ![h] = inside[h] \ {t}]
        /\ m_msgQueue' = [m_msgQueue EXCEPT ![t] = Append(m_msgQueue[t], Msg("LEAVE", h))]
        /\ UNCHANGED <<IsMoving, disturbed>>
     \/ /\ t \notin Contents /\ Own(t) = NoContent
        /\ IsMoving' = [IsMoving EXCEPT ![h[1]] = FALSE]
        /\ disturbed' = (disturbed \/ LeaveDue(h, m_msgQueue))
        /\ UNCHANGED <<inside, m_msgQueue>>

LEMMA MoveLeaveIs ==
  ASSUME ContentAssumption, IInv, NEW t \in Threads, MoveLeave(t)
  PROVE  \E h \in Handles : MoveLeaveOf(t, h)
<1> DEFINE h == moving[t].handle
<1>1. /\ moving[t].step = "leave" /\ h \in Handles /\ thread[t].handle = h
      /\ h[1] \in Slots /\ h = Current(h[1]) /\ m_content[h[1]] = Own(t)
      /\ thread[t].at \in {"callback", "entering", "receiving"}
  BY MoverIs DEF IInv, MoveLeave
<1>2. life[h[1]] = "open" BY <1>1, ServerConn DEF IInv
<1>3. /\ moving' = [moving EXCEPT ![t] = [moving[t] EXCEPT !.step = "enter"]]
      /\ UNCHANGED <<life, conn, refs, connected, m_content, ring, leaving>>
      /\ UNCHANGED <<sessions, m_sessionCount, todo, thread, moves, frames>>
  BY DEF MoveLeave
<1>4. CASE t \in Contents
  <2>1. Own(t) = t /\ t # NoContent BY <1>4 DEF Own, ContentAssumption
  <2>2. /\ inside' = [inside EXCEPT ![h] = inside[h] \ {t}]
        /\ m_msgQueue' = [m_msgQueue EXCEPT ![t] = Append(m_msgQueue[t], Msg("LEAVE", h))]
        /\ UNCHANGED <<IsMoving, disturbed>>
    BY <1>1, <2>1 DEF MoveLeave
  <2> h \in Handles BY <1>1
  <2> HIDE DEF h
  <2>3. WITNESS h \in Handles
  <2> QED BY <1>1, <1>2, <1>3, <1>4, <2>1, <2>2 DEF h, MoveLeaveOf
<1>5. CASE t \notin Contents
  <2>1. Own(t) = NoContent BY <1>5 DEF Own
  <2>2. /\ IsMoving' = [IsMoving EXCEPT ![h[1]] = FALSE]
        /\ disturbed' = (disturbed \/ LeaveDue(h, m_msgQueue))
        /\ UNCHANGED <<inside, m_msgQueue>>
    BY <1>1, <2>1 DEF MoveLeave
  <2> h \in Handles BY <1>1
  <2> HIDE DEF h
  <2>3. WITNESS h \in Handles
  <2> QED BY <1>1, <1>2, <1>3, <1>5, <2>1, <2>2 DEF h, MoveLeaveOf
<1> QED BY <1>4, <1>5

MoveEnterOf(t, h, to) ==
  /\ moving[t].step = "enter" /\ moving[t].handle = h /\ thread[t].handle = h
  /\ h[1] \in Slots /\ h = Current(h[1]) /\ life[h[1]] = "open" /\ m_content[h[1]] = Own(t)
  /\ to # Own(t)
  /\ moving' = [moving EXCEPT ![t] = NotMoving]
  /\ m_content' = [m_content EXCEPT ![h[1]] = to]
  /\ UNCHANGED <<life, conn, connected, IsMoving, ring, leaving, inside, disturbed>>
  /\ UNCHANGED <<sessions, m_sessionCount, todo, thread, moves, frames>>
  /\ \/ /\ to \in Contents /\ to # NoContent
        /\ m_msgQueue' = [m_msgQueue EXCEPT ![to] = Append(m_msgQueue[to], Msg("ENTER", h))]
        /\ UNCHANGED refs
     \/ /\ to \notin Contents /\ to = NoContent
        /\ refs' = [refs EXCEPT ![h[1]] = refs[h[1]] - 1]
        /\ UNCHANGED m_msgQueue

LEMMA MoveEnterIs ==
  ASSUME ContentAssumption, IInv, NEW t \in Threads, MoveEnter(t)
  PROVE  \E h \in Handles, to \in Contents \cup {NoContent} : MoveEnterOf(t, h, to)
<1> DEFINE h == moving[t].handle
           to == moving[t].to
<1>1. /\ moving[t].step = "enter" /\ h \in Handles /\ thread[t].handle = h
      /\ h[1] \in Slots /\ h = Current(h[1]) /\ m_content[h[1]] = Own(t) /\ to # Own(t)
      /\ to \in Contents \cup {NoContent}
      /\ thread[t].at \in {"callback", "entering", "receiving"}
  BY MoverIs DEF IInv, MoveEnter
<1>2. life[h[1]] = "open" BY <1>1, ServerConn DEF IInv
<1>3. /\ moving' = [moving EXCEPT ![t] = NotMoving]
      /\ m_content' = [m_content EXCEPT ![h[1]] = to]
      /\ UNCHANGED <<life, conn, connected, IsMoving, ring, leaving, inside, disturbed>>
      /\ UNCHANGED <<sessions, m_sessionCount, todo, thread, moves, frames>>
  BY DEF MoveEnter
<1>4. \/ /\ to \in Contents /\ to # NoContent
         /\ m_msgQueue' = [m_msgQueue EXCEPT ![to] = Append(m_msgQueue[to], Msg("ENTER", h))]
         /\ UNCHANGED refs
      \/ /\ to \notin Contents /\ to = NoContent
         /\ refs' = [refs EXCEPT ![h[1]] = refs[h[1]] - 1]
         /\ UNCHANGED m_msgQueue
  BY <1>1 DEF MoveEnter, ContentAssumption
<1> h \in Handles /\ to \in Contents \cup {NoContent} BY <1>1
<1> HIDE DEF h, to
<1>5. WITNESS h \in Handles, to \in Contents \cup {NoContent}
<1> QED BY <1>1, <1>2, <1>3, <1>4 DEF h, to, MoveEnterOf

MoveContentOf(t, h, to) ==
  /\ moving[t].step = "none" /\ thread[t].handle = h /\ to # Own(t)
  /\ thread[t].at \in {"callback", "entering", "receiving"}
  /\ h[1] \in Slots /\ h = Current(h[1]) /\ life[h[1]] = "open" /\ m_content[h[1]] = Own(t)
  /\ moving' = [moving EXCEPT ![t] = [step |-> "leave", to |-> to, handle |-> h]]
  /\ refs' = [refs EXCEPT ![h[1]] = refs[h[1]] + 1]
  /\ IsMoving' = [IsMoving EXCEPT ![h[1]] = TRUE]
  /\ UNCHANGED <<life, conn, connected, m_content, ring, leaving, inside, disturbed>>
  /\ UNCHANGED <<m_msgQueue, sessions, m_sessionCount, todo, thread, frames>>

LEMMA MoveContentIs ==
  ASSUME ContentAssumption, IInv, NEW t \in Threads, MoveContent(t)
  PROVE  \E h \in Handles, to \in Contents \cup {NoContent} : MoveContentOf(t, h, to)
<1> DEFINE h == thread[t].handle
<1>1. /\ moving[t].step = "none" /\ h \in Handles
      /\ h[1] \in Slots /\ h = Current(h[1]) /\ m_content[h[1]] = Own(t)
      /\ thread[t].at \in {"callback", "entering", "receiving"}
  BY CallbackIs DEF IInv, MoveContent
<1>2. life[h[1]] = "open" BY <1>1, ServerConn DEF IInv
<1>3. PICK to \in Contents \cup {NoContent} :
        /\ to # m_content[h[1]]
        /\ moving' = [moving EXCEPT ![t] = [step |-> "leave", to |-> to, handle |-> h]]
  BY DEF MoveContent
<1>4. /\ refs' = [refs EXCEPT ![h[1]] = refs[h[1]] + 1]
      /\ IsMoving' = [IsMoving EXCEPT ![h[1]] = TRUE]
      /\ UNCHANGED <<life, conn, connected, m_content, ring, leaving, inside, disturbed>>
      /\ UNCHANGED <<m_msgQueue, sessions, m_sessionCount, todo, thread, frames>>
  BY DEF MoveContent, contentVars
<1> h \in Handles BY <1>1
<1> HIDE DEF h
<1>5. WITNESS h \in Handles, to \in Contents \cup {NoContent}
<1> QED BY <1>1, <1>2, <1>3, <1>4 DEF h, MoveContentOf

FindNextOf(c, h) ==
  /\ h \in todo[c] /\ h \in sessions[c] /\ h[1] \in Slots /\ thread[c].at = "loop"
  /\ todo' = [todo EXCEPT ![c] = todo[c] \ {h}]
  /\ UNCHANGED <<life, conn, connected, m_content, IsMoving, ring, leaving, m_msgQueue, sessions>>
  /\ UNCHANGED <<m_sessionCount, moving, inside, disturbed, moves, frames>>
  /\ \/ /\ life[h[1]] = "open" /\ h = Current(h[1])
        /\ refs' = [refs EXCEPT ![h[1]] = refs[h[1]] + 1]
        /\ thread' = [thread EXCEPT ![c] = [at |-> "check", handle |-> h]]
     \/ UNCHANGED <<refs, thread>>

LEMMA FindNextIs ==
  ASSUME ContentAssumption, IInv, NEW c \in Contents, FindNext(c)
  PROVE  \E h \in Handles : FindNextOf(c, h)
<1>1. todo[c] \subseteq sessions[c] /\ sessions[c] \subseteq Handles
  BY DEF IInv, UpdateInv, UpdateOK, TypeInv, ContentsTyped
<1>2. PICK h \in todo[c] :
        /\ todo' = [todo EXCEPT ![c] = todo[c] \ {h}]
        /\ IF Found(h) THEN /\ refs' = [refs EXCEPT ![h[1]] = refs[h[1]] + 1]
                            /\ thread' = [thread EXCEPT ![c] = [at |-> "check", handle |-> h]]
           ELSE UNCHANGED <<refs, thread>>
  BY DEF FindNext
<1>3. h \in Handles /\ h \in sessions[c] /\ h[1] \in Slots BY <1>1, HandleIs
<1>4. Found(h) => life[h[1]] = "open" /\ h = Current(h[1]) BY <1>3, FoundIsCurrent DEF IInv
<1>5. /\ thread[c].at = "loop"
      /\ UNCHANGED <<life, conn, connected, m_content, IsMoving, ring, leaving, m_msgQueue, sessions>>
      /\ UNCHANGED <<m_sessionCount, moving, inside, disturbed, moves, frames>>
  BY DEF FindNext
<1> QED BY <1>2, <1>3, <1>4, <1>5 DEF FindNextOf

-----------------------------------------------------------------------------
\* Who serves which session.

LEMMA WorkerStep ==
  ASSUME ContentAssumption, IInv, [Next]_vars
  PROVE  WorkerInv'
<1> USE DEF IInv
<1>1. CASE UNCHANGED vars
  BY <1>1 DEF WorkerInv, WorkerOK, Current, vars, slotVars
<1>2. ASSUME NEW s \in Slots, Connect(s) PROVE WorkerInv'
  <2> SUFFICES ASSUME NEW d \in Slots PROVE WorkerOK(d)' BY DEF WorkerInv
  <2>1. WorkerOK(d) /\ d \in Threads /\ d \notin Contents
    BY DEF WorkerInv, ContentAssumption, Threads
  <2> QED BY <1>2, <2>1 DEF Connect, WorkerOK, Current, slotVars, TypeInv, SlotsTyped,
             ContentsTyped, ThreadsTyped, Threads
<1>3. ASSUME NEW s \in Slots, ReceiveFrame(s) PROVE WorkerInv'
  <2> SUFFICES ASSUME NEW d \in Slots PROVE WorkerOK(d)' BY DEF WorkerInv
  <2>1. WorkerOK(d) /\ d \in Threads /\ d \notin Contents
    BY DEF WorkerInv, ContentAssumption, Threads
  <2>2. conn' = conn /\ connected' = connected /\ connected[s]
        /\ (thread' = [thread EXCEPT ![s] = [at |-> "callback", handle |-> Current(s)]] \/ thread' = thread)
    BY <1>3 DEF ReceiveFrame
  <2> QED BY <2>1, <2>2 DEF WorkerOK, Current, TypeInv, ThreadsTyped, Threads
<1>4. ASSUME NEW s \in Slots, PeerCloses(s) PROVE WorkerInv'
  <2> SUFFICES ASSUME NEW d \in Slots PROVE WorkerOK(d)' BY DEF WorkerInv
  <2>1. WorkerOK(d) /\ d \in Threads /\ d \notin Contents
    BY DEF WorkerInv, ContentAssumption, Threads
  <2> QED BY <1>4, <2>1 DEF PeerCloses, WorkerOK, Current, slotVars, TypeInv, SlotsTyped,
             ContentsTyped, ThreadsTyped, Threads
<1>5. ASSUME NEW s \in Slots, WorkerReturns(s) PROVE WorkerInv'
  <2> SUFFICES ASSUME NEW d \in Slots PROVE WorkerOK(d)' BY DEF WorkerInv
  <2>1. WorkerOK(d) /\ d \in Threads /\ d \notin Contents
    BY DEF WorkerInv, ContentAssumption, Threads
  <2> QED BY <1>5, <2>1 DEF WorkerReturns, WorkerOK, Current, slotVars, TypeInv, SlotsTyped,
             ContentsTyped, ThreadsTyped, Threads
<1>6. ASSUME NEW s \in Slots, ClientLeave(s) PROVE WorkerInv'
  <2> SUFFICES ASSUME NEW d \in Slots PROVE WorkerOK(d)' BY DEF WorkerInv
  <2>1. WorkerOK(d) /\ d \in Threads /\ d \notin Contents
    BY DEF WorkerInv, ContentAssumption, Threads
  <2> QED BY <1>6, <2>1 DEF ClientLeave, WorkerOK, Current, slotVars, TypeInv, SlotsTyped,
             ContentsTyped, ThreadsTyped, Threads
<1>7. ASSUME NEW t \in Threads, MoveContent(t) PROVE WorkerInv'
  <2> SUFFICES ASSUME NEW d \in Slots PROVE WorkerOK(d)' BY DEF WorkerInv
  <2>1. WorkerOK(d) /\ d \in Threads /\ d \notin Contents
    BY SMTT(30) DEF WorkerInv, ContentAssumption, Threads
  <2> QED BY <1>7, <2>1 DEF MoveContent, WorkerOK, Current, slotVars, TypeInv, SlotsTyped,
             ContentsTyped, ThreadsTyped, Threads
<1>8. ASSUME NEW t \in Threads, MoveLeave(t) PROVE WorkerInv'
  <2> SUFFICES ASSUME NEW d \in Slots PROVE WorkerOK(d)' BY DEF WorkerInv
  <2>1. WorkerOK(d) /\ d \in Threads /\ d \notin Contents
    BY DEF WorkerInv, ContentAssumption, Threads
  <2> QED BY <1>8, <2>1 DEF MoveLeave, WorkerOK, Current, slotVars, TypeInv, SlotsTyped,
             ContentsTyped, ThreadsTyped, Threads
<1>9. ASSUME NEW t \in Threads, MoveEnter(t) PROVE WorkerInv'
  <2> SUFFICES ASSUME NEW d \in Slots PROVE WorkerOK(d)' BY DEF WorkerInv
  <2>1. WorkerOK(d) /\ d \in Threads /\ d \notin Contents
    BY DEF WorkerInv, ContentAssumption, Threads
  <2> QED BY <1>9, <2>1 DEF MoveEnter, WorkerOK, Current, slotVars, TypeInv, SlotsTyped,
             ContentsTyped, ThreadsTyped, Threads
<1>10. ASSUME NEW c \in Contents, HandleEnter(c) PROVE WorkerInv'
  <2> SUFFICES ASSUME NEW d \in Slots PROVE WorkerOK(d)' BY DEF WorkerInv
  <2>1. WorkerOK(d) /\ d \in Threads /\ d \notin Contents
    BY DEF WorkerInv, ContentAssumption, Threads
  <2> QED BY <1>10, <2>1 DEF HandleEnter, WorkerOK, Current, slotVars, TypeInv, SlotsTyped,
             ContentsTyped, ThreadsTyped, Threads
<1>11. ASSUME NEW c \in Contents, EnterReturns(c) PROVE WorkerInv'
  <2> SUFFICES ASSUME NEW d \in Slots PROVE WorkerOK(d)' BY DEF WorkerInv
  <2>1. WorkerOK(d) /\ d \in Threads /\ d \notin Contents
    BY DEF WorkerInv, ContentAssumption, Threads
  <2> QED BY <1>11, <2>1 DEF EnterReturns, WorkerOK, Current, slotVars, TypeInv, SlotsTyped,
             ContentsTyped, ThreadsTyped, Threads
<1>12. ASSUME NEW c \in Contents, HandleLeave(c) PROVE WorkerInv'
  <2> SUFFICES ASSUME NEW d \in Slots PROVE WorkerOK(d)' BY DEF WorkerInv
  <2>1. WorkerOK(d) /\ d \in Threads /\ d \notin Contents
    BY DEF WorkerInv, ContentAssumption, Threads
  <2> QED BY <1>12, <2>1 DEF HandleLeave, WorkerOK, Current, slotVars, TypeInv, SlotsTyped,
             ContentsTyped, ThreadsTyped, Threads
<1>13. ASSUME NEW c \in Contents, HandleRelease(c) PROVE WorkerInv'
  <2> SUFFICES ASSUME NEW d \in Slots PROVE WorkerOK(d)' BY DEF WorkerInv
  <2>1. WorkerOK(d) /\ d \in Threads /\ d \notin Contents
    BY DEF WorkerInv, ContentAssumption, Threads
  <2> QED BY <1>13, <2>1 DEF HandleRelease, WorkerOK, Current, slotVars, TypeInv, SlotsTyped,
             ContentsTyped, ThreadsTyped, Threads
<1>14. ASSUME NEW c \in Contents, StartLoop(c) PROVE WorkerInv'
  <2> SUFFICES ASSUME NEW d \in Slots PROVE WorkerOK(d)' BY DEF WorkerInv
  <2>1. WorkerOK(d) /\ d \in Threads /\ d \notin Contents
    BY DEF WorkerInv, ContentAssumption, Threads
  <2> QED BY <1>14, <2>1 DEF StartLoop, WorkerOK, Current, slotVars, TypeInv, SlotsTyped,
             ContentsTyped, ThreadsTyped, Threads
<1>15. ASSUME NEW c \in Contents, FindNext(c) PROVE WorkerInv'
  <2> SUFFICES ASSUME NEW d \in Slots PROVE WorkerOK(d)' BY DEF WorkerInv
  <2>1. WorkerOK(d) /\ d \in Threads /\ d \notin Contents
    BY DEF WorkerInv, ContentAssumption, Threads
  <2> QED BY <1>15, <2>1 DEF FindNext, WorkerOK, Current, slotVars, TypeInv, SlotsTyped,
             ContentsTyped, ThreadsTyped, Threads
<1>16. ASSUME NEW c \in Contents, EndLoop(c) PROVE WorkerInv'
  <2> SUFFICES ASSUME NEW d \in Slots PROVE WorkerOK(d)' BY DEF WorkerInv
  <2>1. WorkerOK(d) /\ d \in Threads /\ d \notin Contents
    BY DEF WorkerInv, ContentAssumption, Threads
  <2> QED BY <1>16, <2>1 DEF EndLoop, WorkerOK, Current, slotVars, TypeInv, SlotsTyped,
             ContentsTyped, ThreadsTyped, Threads
<1>17. ASSUME NEW c \in Contents, CheckMoving(c) PROVE WorkerInv'
  <2> SUFFICES ASSUME NEW d \in Slots PROVE WorkerOK(d)' BY DEF WorkerInv
  <2>1. WorkerOK(d) /\ d \in Threads /\ d \notin Contents
    BY DEF WorkerInv, ContentAssumption, Threads
  <2> QED BY <1>17, <2>1 DEF CheckMoving, WorkerOK, Current, slotVars, TypeInv, SlotsTyped,
             ContentsTyped, ThreadsTyped, Threads
<1>18. ASSUME NEW c \in Contents, TakeFrame(c) PROVE WorkerInv'
  <2> SUFFICES ASSUME NEW d \in Slots PROVE WorkerOK(d)' BY DEF WorkerInv
  <2>1. WorkerOK(d) /\ d \in Threads /\ d \notin Contents
    BY DEF WorkerInv, ContentAssumption, Threads
  <2> QED BY <1>18, <2>1 DEF TakeFrame, WorkerOK, Current, slotVars, TypeInv, SlotsTyped,
             ContentsTyped, ThreadsTyped, Threads
<1>19. ASSUME NEW c \in Contents, RecvReturns(c) PROVE WorkerInv'
  <2> SUFFICES ASSUME NEW d \in Slots PROVE WorkerOK(d)' BY DEF WorkerInv
  <2>1. WorkerOK(d) /\ d \in Threads /\ d \notin Contents
    BY DEF WorkerInv, ContentAssumption, Threads
  <2> QED BY <1>19, <2>1 DEF RecvReturns, WorkerOK, Current, slotVars, TypeInv, SlotsTyped,
             ContentsTyped, ThreadsTyped, Threads
<1>20. ASSUME NEW c \in Contents, LeaveSession(c) PROVE WorkerInv'
  <2> SUFFICES ASSUME NEW d \in Slots PROVE WorkerOK(d)' BY DEF WorkerInv
  <2>1. WorkerOK(d) /\ d \in Threads /\ d \notin Contents
    BY DEF WorkerInv, ContentAssumption, Threads
  <2> QED BY <1>20, <2>1 DEF LeaveSession, WorkerOK, Current, slotVars, TypeInv, SlotsTyped,
             ContentsTyped, ThreadsTyped, Threads
<1> QED BY <1>1, <1>2, <1>3, <1>4, <1>5, <1>6, <1>7, <1>8, <1>9, <1>10, <1>11, <1>12, <1>13,
           <1>14, <1>15, <1>16, <1>17, <1>18, <1>19, <1>20 DEF Next, Worker, Update, Threads

LEMMA UpdateStep ==
  ASSUME ContentAssumption, IInv, [Next]_vars
  PROVE  UpdateInv'
<1> USE DEF IInv
<1>1. CASE UNCHANGED vars
  BY <1>1 DEF UpdateInv, UpdateOK, Serves, Current, vars, slotVars, contentVars
<1>2. ASSUME NEW s \in Slots, Connect(s) PROVE UpdateInv'
  <2> SUFFICES ASSUME NEW d \in Contents PROVE UpdateOK(d)' BY DEF UpdateInv
  <2>1. UpdateOK(d) /\ d \in Threads /\ d \notin Slots BY DEF UpdateInv, ContentAssumption, Threads
  <2>2. thread[d].at \in {"entering", "check", "take", "receiving"} => thread[d].handle[1] # s
    BY <1>2, <2>1, ServerConn DEF Connect
  <2> QED BY <1>2, <2>1, <2>2, SMTT(30) DEF Connect, UpdateOK, Serves, Current, contentVars, TypeInv,
             SlotsTyped, ContentsTyped, ThreadsTyped, Threads
<1>3. ASSUME NEW s \in Slots, ReceiveFrame(s) PROVE UpdateInv'
  <2> SUFFICES ASSUME NEW d \in Contents PROVE UpdateOK(d)' BY DEF UpdateInv
  <2>1. UpdateOK(d) /\ d \in Threads /\ d \notin Slots BY DEF UpdateInv, ContentAssumption, Threads
  <2> QED BY <1>3, <2>1, ZenonT(60) DEF ReceiveFrame, UpdateOK, Serves, Current, slotVars, contentVars,
             TypeInv, SlotsTyped, ContentsTyped, ThreadsTyped, Threads
<1>4. ASSUME NEW s \in Slots, PeerCloses(s) PROVE UpdateInv'
  <2> SUFFICES ASSUME NEW d \in Contents PROVE UpdateOK(d)' BY DEF UpdateInv
  <2>1. UpdateOK(d) /\ d \in Threads /\ d \notin Slots BY DEF UpdateInv, ContentAssumption, Threads
  <2> QED BY <1>4, <2>1 DEF PeerCloses, UpdateOK, Serves, Current, slotVars, contentVars, TypeInv,
             SlotsTyped, ContentsTyped, ThreadsTyped, Threads
<1>5. ASSUME NEW s \in Slots, WorkerReturns(s) PROVE UpdateInv'
  <2> SUFFICES ASSUME NEW d \in Contents PROVE UpdateOK(d)' BY DEF UpdateInv
  <2>1. UpdateOK(d) /\ d \in Threads /\ d \notin Slots BY DEF UpdateInv, ContentAssumption, Threads
  <2> QED BY <1>5, <2>1 DEF WorkerReturns, UpdateOK, Serves, Current, slotVars, contentVars,
             TypeInv, SlotsTyped, ContentsTyped, ThreadsTyped, Threads
<1>6. ASSUME NEW s \in Slots, ClientLeave(s) PROVE UpdateInv'
  <2> SUFFICES ASSUME NEW d \in Contents PROVE UpdateOK(d)' BY DEF UpdateInv
  <2>1. UpdateOK(d) /\ d \in Threads /\ d \notin Slots BY DEF UpdateInv, ContentAssumption, Threads
  <2> QED BY <1>6, <2>1 DEF ClientLeave, UpdateOK, Serves, Current, slotVars, contentVars,
             TypeInv, SlotsTyped, ContentsTyped, ThreadsTyped, Threads
<1>7. ASSUME NEW t \in Threads, MoveContent(t) PROVE UpdateInv'
  <2> SUFFICES ASSUME NEW d \in Contents PROVE UpdateOK(d)' BY DEF UpdateInv
  <2>1. UpdateOK(d) /\ d \in Threads /\ d \notin Slots BY DEF UpdateInv, ContentAssumption, Threads
  <2> QED BY <1>7, <2>1, SMTT(30) DEF MoveContent, UpdateOK, Serves, Current, slotVars, contentVars,
             TypeInv, SlotsTyped, ContentsTyped, ThreadsTyped, Threads
<1>8. ASSUME NEW t \in Threads, MoveLeave(t) PROVE UpdateInv'
  <2> SUFFICES ASSUME NEW d \in Contents PROVE UpdateOK(d)' BY DEF UpdateInv
  <2>1. UpdateOK(d) /\ d \in Threads /\ d \notin Slots BY DEF UpdateInv, ContentAssumption, Threads
  <2> QED BY <1>8, <2>1 DEF MoveLeave, UpdateOK, Serves, Current, slotVars, contentVars, TypeInv,
             SlotsTyped, ContentsTyped, ThreadsTyped, Threads
<1>9. ASSUME NEW t \in Threads, MoveEnter(t) PROVE UpdateInv'
  <2> SUFFICES ASSUME NEW d \in Contents PROVE UpdateOK(d)' BY DEF UpdateInv
  <2>1. UpdateOK(d) /\ d \in Threads /\ d \notin Slots BY DEF UpdateInv, ContentAssumption, Threads
  <2> QED BY <1>9, <2>1 DEF MoveEnter, UpdateOK, Serves, Current, slotVars, contentVars, TypeInv,
             SlotsTyped, ContentsTyped, ThreadsTyped, Threads
<1>10. ASSUME NEW c \in Contents, HandleEnter(c) PROVE UpdateInv'
  <2> SUFFICES ASSUME NEW d \in Contents PROVE UpdateOK(d)' BY DEF UpdateInv
  <2>1. UpdateOK(d) /\ d \in Threads /\ d \notin Slots BY DEF UpdateInv, ContentAssumption, Threads
  <2>2. \E h \in Handles :
          /\ h = Current(h[1]) /\ sessions' = [sessions EXCEPT ![c] = sessions[c] \cup {h}]
          /\ thread' = [thread EXCEPT ![c] = [at |-> "entering", handle |-> h]]
          /\ UNCHANGED <<conn, todo>> /\ thread[c] = Idle
    BY <1>10, HandleEnterIs DEF HandleEnterOf
  <2> QED BY <2>1, <2>2 DEF Idle, UpdateOK, Serves, Current, TypeInv, ContentsTyped, ThreadsTyped,
             Threads
<1>11. ASSUME NEW c \in Contents, EnterReturns(c) PROVE UpdateInv'
  <2> SUFFICES ASSUME NEW d \in Contents PROVE UpdateOK(d)' BY DEF UpdateInv
  <2>1. UpdateOK(d) /\ d \in Threads /\ d \notin Slots BY DEF UpdateInv, ContentAssumption, Threads
  <2> QED BY <1>11, <2>1 DEF EnterReturns, UpdateOK, Serves, Current, slotVars, contentVars,
             TypeInv, SlotsTyped, ContentsTyped, ThreadsTyped, Threads
<1>12. ASSUME NEW c \in Contents, HandleLeave(c) PROVE UpdateInv'
  <2> SUFFICES ASSUME NEW d \in Contents PROVE UpdateOK(d)' BY DEF UpdateInv
  <2>1. UpdateOK(d) /\ d \in Threads /\ d \notin Slots BY DEF UpdateInv, ContentAssumption, Threads
  <2>2. \E h : /\ sessions' = [sessions EXCEPT ![c] = sessions[c] \ {h}]
             /\ UNCHANGED <<conn, todo, thread>> /\ thread[c] = Idle
    BY <1>12, HandleLeaveIs, ZenonT(60) DEF HandleLeaveOf
  <2> QED BY <2>1, <2>2 DEF Idle, UpdateOK, Serves, Current, TypeInv, ContentsTyped, ThreadsTyped,
             Threads
<1>13. ASSUME NEW c \in Contents, HandleRelease(c) PROVE UpdateInv'
  <2> SUFFICES ASSUME NEW d \in Contents PROVE UpdateOK(d)' BY DEF UpdateInv
  <2>1. UpdateOK(d) /\ d \in Threads /\ d \notin Slots BY DEF UpdateInv, ContentAssumption, Threads
  <2>2. PICK h \in Handles : HandleReleaseOf(c, h) BY <1>13, HandleReleaseIs
  <2>3. /\ sessions' = [sessions EXCEPT ![c] = sessions[c] \ {h}]
        /\ UNCHANGED <<conn, todo, thread>> /\ thread[c] = Idle
    BY <2>2 DEF HandleReleaseOf
  <2> QED BY <2>1, <2>3 DEF Idle, UpdateOK, Serves, Current, TypeInv, ContentsTyped, ThreadsTyped,
             Threads
<1>14. ASSUME NEW c \in Contents, StartLoop(c) PROVE UpdateInv'
  <2> SUFFICES ASSUME NEW d \in Contents PROVE UpdateOK(d)' BY DEF UpdateInv
  <2>1. UpdateOK(d) /\ d \in Threads /\ d \notin Slots BY DEF UpdateInv, ContentAssumption, Threads
  <2> QED BY <1>14, <2>1 DEF StartLoop, Idle, UpdateOK, Serves, Current, slotVars, contentVars,
             TypeInv, SlotsTyped, ContentsTyped, ThreadsTyped, Threads
<1>15. ASSUME NEW c \in Contents, FindNext(c) PROVE UpdateInv'
  <2> SUFFICES ASSUME NEW d \in Contents PROVE UpdateOK(d)' BY DEF UpdateInv
  <2>1. UpdateOK(d) /\ d \in Threads /\ d \notin Slots BY DEF UpdateInv, ContentAssumption, Threads
  <2>2. \E h \in Handles :
          /\ h \in sessions[c] /\ todo' = [todo EXCEPT ![c] = todo[c] \ {h}] /\ thread[c].at = "loop"
          /\ UNCHANGED <<conn, sessions>>
          /\ \/ h = Current(h[1]) /\ thread' = [thread EXCEPT ![c] = [at |-> "check", handle |-> h]]
             \/ UNCHANGED thread
    BY <1>15, FindNextIs DEF FindNextOf
  <2> QED BY <2>1, <2>2 DEF Idle, UpdateOK, Serves, Current, TypeInv, ContentsTyped, ThreadsTyped,
             Threads
<1>16. ASSUME NEW c \in Contents, EndLoop(c) PROVE UpdateInv'
  <2> SUFFICES ASSUME NEW d \in Contents PROVE UpdateOK(d)' BY DEF UpdateInv
  <2>1. UpdateOK(d) /\ d \in Threads /\ d \notin Slots BY DEF UpdateInv, ContentAssumption, Threads
  <2> QED BY <1>16, <2>1 DEF EndLoop, UpdateOK, Serves, Current, slotVars, contentVars, TypeInv,
             SlotsTyped, ContentsTyped, ThreadsTyped, Threads
<1>17. ASSUME NEW c \in Contents, CheckMoving(c) PROVE UpdateInv'
  <2> SUFFICES ASSUME NEW d \in Contents PROVE UpdateOK(d)' BY DEF UpdateInv
  <2>1. UpdateOK(d) /\ d \in Threads /\ d \notin Slots BY DEF UpdateInv, ContentAssumption, Threads
  <2> QED BY <1>17, <2>1 DEF CheckMoving, Idle, UpdateOK, Serves, Current, slotVars, contentVars,
             TypeInv, SlotsTyped, ContentsTyped, ThreadsTyped, Threads
<1>18. ASSUME NEW c \in Contents, TakeFrame(c) PROVE UpdateInv'
  <2> SUFFICES ASSUME NEW d \in Contents PROVE UpdateOK(d)' BY DEF UpdateInv
  <2>1. UpdateOK(d) /\ d \in Threads /\ d \notin Slots BY DEF UpdateInv, ContentAssumption, Threads
  <2> QED BY <1>18, <2>1, SMTT(30) DEF TakeFrame, Idle, UpdateOK, Serves, Current, slotVars, contentVars,
             TypeInv, SlotsTyped, ContentsTyped, ThreadsTyped, Threads
<1>19. ASSUME NEW c \in Contents, RecvReturns(c) PROVE UpdateInv'
  <2> SUFFICES ASSUME NEW d \in Contents PROVE UpdateOK(d)' BY DEF UpdateInv
  <2>1. UpdateOK(d) /\ d \in Threads /\ d \notin Slots BY DEF UpdateInv, ContentAssumption, Threads
  <2> QED BY <1>19, <2>1 DEF RecvReturns, Idle, UpdateOK, Serves, Current, slotVars, contentVars,
             TypeInv, SlotsTyped, ContentsTyped, ThreadsTyped, Threads
<1>20. ASSUME NEW c \in Contents, LeaveSession(c) PROVE UpdateInv'
  <2> SUFFICES ASSUME NEW d \in Contents PROVE UpdateOK(d)' BY DEF UpdateInv
  <2>1. UpdateOK(d) /\ d \in Threads /\ d \notin Slots BY DEF UpdateInv, ContentAssumption, Threads
  <2> QED BY <1>20, <2>1 DEF LeaveSession, UpdateOK, Serves, Current, slotVars, contentVars,
             TypeInv, SlotsTyped, ContentsTyped, ThreadsTyped, Threads
<1> QED BY <1>1, <1>2, <1>3, <1>4, <1>5, <1>6, <1>7, <1>8, <1>9, <1>10, <1>11, <1>12, <1>13,
           <1>14, <1>15, <1>16, <1>17, <1>18, <1>19, <1>20 DEF Next, Worker, Update, Threads

LEMMA MoverStep ==
  ASSUME ContentAssumption, IInv, [Next]_vars
  PROVE  MoverInv'
<1> USE DEF IInv
<1>1. CASE UNCHANGED vars
  BY <1>1 DEF MoverInv, MoverOK, NotMoving, Own, vars, slotVars
<1>2. ASSUME NEW s \in Slots, Connect(s) PROVE MoverInv'
  <2> SUFFICES ASSUME NEW u \in Threads PROVE MoverOK(u)' BY DEF MoverInv
  <2>1. MoverOK(u) BY DEF MoverInv
  <2>2. moving[u].step # "none" =>
          moving[u].handle[1] \in Slots /\ life[moving[u].handle[1]] = "open"
    BY MoverIs, ServerConn
  <2>3. moving' = moving /\ m_content' = [m_content EXCEPT ![s] = NoContent] /\ life[s] = "free"
        /\ thread[s] = Idle /\ thread' = [thread EXCEPT ![s] = [at |-> "callback", handle |-> <<s, conn[s] + 1>>]]
    BY <1>2 DEF Connect
  <2> QED BY <2>1, <2>2, <2>3 DEF MoverOK, NotMoving, Own, Idle, TypeInv, SlotsTyped, ThreadsTyped
<1>3. ASSUME NEW s \in Slots, ReceiveFrame(s) PROVE MoverInv'
  <2> SUFFICES ASSUME NEW u \in Threads PROVE MoverOK(u)' BY DEF MoverInv
  <2>1. MoverOK(u) BY DEF MoverInv
  <2>3. moving' = moving /\ m_content' = m_content
        /\ thread[s] = Idle /\ (thread' = thread \/ thread' = [thread EXCEPT ![s] = [at |-> "callback", handle |-> Current(s)]])
    BY <1>3 DEF ReceiveFrame
  <2> QED BY <2>1, <2>3 DEF MoverOK, NotMoving, Own, Idle, TypeInv, SlotsTyped, ThreadsTyped
<1>4. ASSUME NEW s \in Slots, PeerCloses(s) PROVE MoverInv'
  <2> SUFFICES ASSUME NEW u \in Threads PROVE MoverOK(u)' BY DEF MoverInv
  <2>1. MoverOK(u) BY DEF MoverInv
  <2> QED BY <1>4, <2>1 DEF PeerCloses, MoverOK, NotMoving, Own, slotVars, TypeInv, SlotsTyped,
             ContentsTyped, ThreadsTyped, Threads
<1>5. ASSUME NEW s \in Slots, WorkerReturns(s) PROVE MoverInv'
  <2> SUFFICES ASSUME NEW u \in Threads PROVE MoverOK(u)' BY DEF MoverInv
  <2>1. MoverOK(u) BY DEF MoverInv
  <2> QED BY <1>5, <2>1 DEF WorkerReturns, MoverOK, NotMoving, Own, slotVars, TypeInv, SlotsTyped,
             ContentsTyped, ThreadsTyped, Threads
<1>6. ASSUME NEW s \in Slots, ClientLeave(s) PROVE MoverInv'
  <2> SUFFICES ASSUME NEW u \in Threads PROVE MoverOK(u)' BY DEF MoverInv
  <2>1. MoverOK(u) BY DEF MoverInv
  <2> QED BY <1>6, <2>1 DEF ClientLeave, MoverOK, NotMoving, Own, slotVars, TypeInv, SlotsTyped,
             ContentsTyped, ThreadsTyped, Threads
<1>7. ASSUME NEW t \in Threads, MoveContent(t) PROVE MoverInv'
  <2> SUFFICES ASSUME NEW u \in Threads PROVE MoverOK(u)' BY DEF MoverInv
  <2>1. MoverOK(u) BY DEF MoverInv
  <2>2. \E h \in Handles, to \in Contents \cup {NoContent} :
          /\ thread[t].handle = h /\ to # Own(t) /\ m_content[h[1]] = Own(t)
          /\ thread[t].at \in {"callback", "entering", "receiving"}
          /\ moving' = [moving EXCEPT ![t] = [step |-> "leave", to |-> to, handle |-> h]]
          /\ UNCHANGED <<m_content, thread>>
    BY <1>7, MoveContentIs, SMTT(30) DEF MoveContentOf
  <2> QED BY <2>1, <2>2 DEF MoverOK, NotMoving, Own, TypeInv, ThreadsTyped
<1>8. ASSUME NEW t \in Threads, MoveLeave(t) PROVE MoverInv'
  <2> SUFFICES ASSUME NEW u \in Threads PROVE MoverOK(u)' BY DEF MoverInv
  <2>1. MoverOK(u) BY DEF MoverInv
  <2>2. PICK h \in Handles : MoveLeaveOf(t, h) BY <1>8, MoveLeaveIs
  <2>3. /\ moving[t].step # "none" /\ moving' = [moving EXCEPT ![t] = [moving[t] EXCEPT !.step = "enter"]]
        /\ UNCHANGED <<m_content, thread>>
    BY <2>2 DEF MoveLeaveOf
  <2>4. CASE u = t
    <3>1. /\ moving'[t].step = "enter" /\ moving'[t].handle = moving[t].handle
          /\ moving'[t].to = moving[t].to
      BY <2>3 DEF TypeInv, ThreadsTyped
    <3>2. moving[t] # NotMoving BY <2>3 DEF NotMoving
    <3> QED BY <2>1, <2>3, <2>4, <3>1, <3>2 DEF MoverOK, Own
  <2>5. CASE u # t
    <3>1. moving'[u] = moving[u] BY <2>3, <2>5 DEF TypeInv, ThreadsTyped
    <3> QED BY <2>1, <2>3, <3>1 DEF MoverOK, Own, NotMoving
  <2> QED BY <2>4, <2>5
<1>9. ASSUME NEW t \in Threads, MoveEnter(t) PROVE MoverInv'
  <2> SUFFICES ASSUME NEW u \in Threads PROVE MoverOK(u)' BY DEF MoverInv
  <2>1. MoverOK(u) BY DEF MoverInv
  <2>0. PICK h \in Handles, to \in Contents \cup {NoContent} : MoveEnterOf(t, h, to)
    BY <1>9, MoveEnterIs
  <2>2. /\ moving[t].step # "none" /\ moving[t].handle = h
        /\ moving' = [moving EXCEPT ![t] = NotMoving] /\ m_content' = [m_content EXCEPT ![h[1]] = to]
        /\ UNCHANGED thread
    BY <2>0 DEF MoveEnterOf
  <2>3. u # t /\ moving[u].step # "none" => moving[u].handle[1] # moving[t].handle[1]
    BY <2>2, OneMover
  <2> QED BY <2>1, <2>2, <2>3 DEF MoverOK, NotMoving, Own, TypeInv, SlotsTyped, ThreadsTyped
<1>10. ASSUME NEW c \in Contents, HandleEnter(c) PROVE MoverInv'
  <2> SUFFICES ASSUME NEW u \in Threads PROVE MoverOK(u)' BY DEF MoverInv
  <2>1. MoverOK(u) BY DEF MoverInv
  <2>2. \E h \in Handles :
          /\ thread[c] = Idle /\ thread' = [thread EXCEPT ![c] = [at |-> "entering", handle |-> h]]
          /\ UNCHANGED <<moving, m_content>>
    BY <1>10, HandleEnterIs DEF HandleEnterOf
  <2> QED BY <2>1, <2>2 DEF MoverOK, NotMoving, Own, Idle, TypeInv, ThreadsTyped
<1>11. ASSUME NEW c \in Contents, EnterReturns(c) PROVE MoverInv'
  <2> SUFFICES ASSUME NEW u \in Threads PROVE MoverOK(u)' BY DEF MoverInv
  <2>1. MoverOK(u) BY DEF MoverInv
  <2> QED BY <1>11, <2>1 DEF EnterReturns, MoverOK, NotMoving, Own, slotVars, TypeInv, SlotsTyped,
             ContentsTyped, ThreadsTyped, Threads
<1>12. ASSUME NEW c \in Contents, HandleLeave(c) PROVE MoverInv'
  <2> SUFFICES ASSUME NEW u \in Threads PROVE MoverOK(u)' BY DEF MoverInv
  <2>1. MoverOK(u) BY DEF MoverInv
  <2> QED BY <1>12, <2>1 DEF HandleLeave, MoverOK, NotMoving, Own, slotVars, TypeInv, SlotsTyped,
             ContentsTyped, ThreadsTyped, Threads
<1>13. ASSUME NEW c \in Contents, HandleRelease(c) PROVE MoverInv'
  <2> SUFFICES ASSUME NEW u \in Threads PROVE MoverOK(u)' BY DEF MoverInv
  <2>1. MoverOK(u) BY DEF MoverInv
  <2>2. moving[u].step # "none" =>
          moving[u].handle[1] \in Slots /\ life[moving[u].handle[1]] = "open"
    BY MoverIs, ServerConn
  <2>3. \E h \in Handles :
          /\ life[h[1]] = "released" /\ m_content' = [m_content EXCEPT ![h[1]] = NoContent]
          /\ UNCHANGED <<moving, thread>>
    BY <1>13, HandleReleaseIs DEF HandleReleaseOf
  <2> QED BY <2>1, <2>2, <2>3 DEF MoverOK, NotMoving, Own, TypeInv, SlotsTyped
<1>14. ASSUME NEW c \in Contents, StartLoop(c) PROVE MoverInv'
  <2> SUFFICES ASSUME NEW u \in Threads PROVE MoverOK(u)' BY DEF MoverInv
  <2>1. MoverOK(u) BY DEF MoverInv
  <2> QED BY <1>14, <2>1 DEF StartLoop, MoverOK, NotMoving, Own, Idle, slotVars, TypeInv,
             ThreadsTyped
<1>15. ASSUME NEW c \in Contents, FindNext(c) PROVE MoverInv'
  <2> SUFFICES ASSUME NEW u \in Threads PROVE MoverOK(u)' BY DEF MoverInv
  <2>1. MoverOK(u) BY DEF MoverInv
  <2> QED BY <1>15, <2>1, ZenonT(60)
             DEF FindNext, MoverOK, NotMoving, Own, slotVars, TypeInv, SlotsTyped,
             ContentsTyped, ThreadsTyped, Threads
<1>16. ASSUME NEW c \in Contents, EndLoop(c) PROVE MoverInv'
  <2> SUFFICES ASSUME NEW u \in Threads PROVE MoverOK(u)' BY DEF MoverInv
  <2>1. MoverOK(u) BY DEF MoverInv
  <2> QED BY <1>16, <2>1 DEF EndLoop, MoverOK, NotMoving, Own, slotVars, TypeInv, SlotsTyped,
             ContentsTyped, ThreadsTyped, Threads
<1>17. ASSUME NEW c \in Contents, CheckMoving(c) PROVE MoverInv'
  <2> SUFFICES ASSUME NEW u \in Threads PROVE MoverOK(u)' BY DEF MoverInv
  <2>1. MoverOK(u) BY DEF MoverInv
  <2> QED BY <1>17, <2>1 DEF CheckMoving, MoverOK, NotMoving, Own, slotVars, TypeInv, SlotsTyped,
             ContentsTyped, ThreadsTyped, Threads
<1>18. ASSUME NEW c \in Contents, TakeFrame(c) PROVE MoverInv'
  <2> SUFFICES ASSUME NEW u \in Threads PROVE MoverOK(u)' BY DEF MoverInv
  <2>1. MoverOK(u) BY DEF MoverInv
  <2> QED BY <1>18, <2>1 DEF TakeFrame, MoverOK, NotMoving, Own, slotVars, TypeInv, SlotsTyped,
             ContentsTyped, ThreadsTyped, Threads
<1>19. ASSUME NEW c \in Contents, RecvReturns(c) PROVE MoverInv'
  <2> SUFFICES ASSUME NEW u \in Threads PROVE MoverOK(u)' BY DEF MoverInv
  <2>1. MoverOK(u) BY DEF MoverInv
  <2> QED BY <1>19, <2>1 DEF RecvReturns, MoverOK, NotMoving, Own, slotVars, TypeInv, SlotsTyped,
             ContentsTyped, ThreadsTyped, Threads
<1>20. ASSUME NEW c \in Contents, LeaveSession(c) PROVE MoverInv'
  <2> SUFFICES ASSUME NEW u \in Threads PROVE MoverOK(u)' BY DEF MoverInv
  <2>1. MoverOK(u) BY DEF MoverInv
  <2> QED BY <1>20, <2>1 DEF LeaveSession, MoverOK, NotMoving, Own, slotVars, TypeInv, SlotsTyped,
             ContentsTyped, ThreadsTyped, Threads
<1> QED BY <1>1, <1>2, <1>3, <1>4, <1>5, <1>6, <1>7, <1>8, <1>9, <1>10, <1>11, <1>12, <1>13,
           <1>14, <1>15, <1>16, <1>17, <1>18, <1>19, <1>20 DEF Next, Worker, Update, Threads

-----------------------------------------------------------------------------
\* Messages appended and taken, and how many of a type there are.

LEMMA QueueAppended ==
  ASSUME TypeInv, NEW c \in Contents, NEW m \in MessageSet,
         m_msgQueue' = [m_msgQueue EXCEPT ![c] = Append(m_msgQueue[c], m)]
  PROVE  /\ Len(m_msgQueue[c]) \in Nat /\ DOMAIN m_msgQueue[c] = 1..Len(m_msgQueue[c])
         /\ DOMAIN m_msgQueue'[c] = 1..(Len(m_msgQueue[c]) + 1)
         /\ Len(m_msgQueue'[c]) = Len(m_msgQueue[c]) + 1
         /\ m_msgQueue'[c][Len(m_msgQueue[c]) + 1] = m
         /\ \A i \in 1..Len(m_msgQueue[c]) : m_msgQueue'[c][i] = m_msgQueue[c][i]
         /\ \A d \in Contents : d # c => m_msgQueue'[d] = m_msgQueue[d]
<1>1. m_msgQueue[c] \in Seq(MessageSet) BY QueueIs
<1>2. m_msgQueue'[c] = Append(m_msgQueue[c], m) BY DEF TypeInv, ContentsTyped
<1>3. \A d \in Contents : d # c => m_msgQueue'[d] = m_msgQueue[d] BY DEF TypeInv, ContentsTyped
<1> QED BY <1>1, <1>2, <1>3, AppendIs

LEMMA QueueTaken ==
  ASSUME TypeInv, NEW c \in Contents, m_msgQueue[c] # <<>>,
         m_msgQueue' = [m_msgQueue EXCEPT ![c] = Tail(m_msgQueue[c])]
  PROVE  /\ Len(m_msgQueue[c]) \in Nat \ {0} /\ DOMAIN m_msgQueue[c] = 1..Len(m_msgQueue[c])
         /\ DOMAIN m_msgQueue'[c] = 1..(Len(m_msgQueue[c]) - 1)
         /\ Len(m_msgQueue'[c]) = Len(m_msgQueue[c]) - 1
         /\ \A i \in 1..(Len(m_msgQueue[c]) - 1) : m_msgQueue'[c][i] = m_msgQueue[c][i + 1]
         /\ \A d \in Contents : d # c => m_msgQueue'[d] = m_msgQueue[d]
<1>1. m_msgQueue[c] \in Seq(MessageSet) BY QueueIs
<1>2. m_msgQueue'[c] = Tail(m_msgQueue[c]) BY DEF TypeInv, ContentsTyped
<1>3. \A d \in Contents : d # c => m_msgQueue'[d] = m_msgQueue[d] BY DEF TypeInv, ContentsTyped
<1>4. /\ Len(m_msgQueue[c]) \in Nat \ {0} /\ DOMAIN m_msgQueue[c] = 1..Len(m_msgQueue[c])
      /\ DOMAIN Tail(m_msgQueue[c]) = 1..(Len(m_msgQueue[c]) - 1)
      /\ Len(Tail(m_msgQueue[c])) = Len(m_msgQueue[c]) - 1
      /\ \A i \in 1..(Len(m_msgQueue[c]) - 1) : Tail(m_msgQueue[c])[i] = m_msgQueue[c][i + 1]
  BY <1>1, TailIs
<1> QED BY <1>2, <1>3, <1>4

LEMMA OneMore ==
  ASSUME NEW A, NEW B, NEW e, IsFiniteSet(A), e \notin A, B = A \cup {e}
  PROVE  IsFiniteSet(B) /\ Cardinality(B) = Cardinality(A) + 1 /\ Cardinality(A) \in Nat
BY FS_AddElement, FS_CardinalityType

LEMMA OneLess ==
  ASSUME NEW A, NEW B, NEW e, IsFiniteSet(A), B = A \ {e}
  PROVE  /\ IsFiniteSet(B) /\ Cardinality(B) \in Nat /\ Cardinality(A) \in Nat /\ e \notin B
         /\ Cardinality(B) = Cardinality(A) - (IF e \in A THEN 1 ELSE 0)
<1>1. IsFiniteSet(B) /\ Cardinality(B) \in Nat /\ Cardinality(A) \in Nat
  BY FS_RemoveElement, FS_CardinalityType
<1>2. CASE e \in A BY <1>1, <1>2, FS_RemoveElement
<1>3. CASE e \notin A BY <1>1, <1>3, FS_RemoveElement
<1> QED BY <1>1, <1>2, <1>3

LEMMA PostedIs ==
  ASSUME NEW ty, NEW sl, NEW queues
  PROVE  \A at : at \in Posted(ty, sl, queues) <=>
           \E c \in Contents : \E i \in DOMAIN queues[c] :
             at = <<c, i>> /\ queues[c][i].type = ty /\ queues[c][i].session = sl
BY DEF Posted

LEMMA PostedAppended ==
  ASSUME ContentAssumption, TypeInv, NEW c \in Contents, NEW m \in MessageSet,
         m_msgQueue' = [m_msgQueue EXCEPT ![c] = Append(m_msgQueue[c], m)],
         NEW s \in Slots, NEW type \in {"ENTER", "RELEASE"}
  PROVE  Cardinality(Posted(type, s, m_msgQueue')) =
           Cardinality(Posted(type, s, m_msgQueue)) + (IF m.type = type /\ m.session = s THEN 1 ELSE 0)
<1> DEFINE n == Len(m_msgQueue[c]) + 1
           old == Posted(type, s, m_msgQueue)
           new == Posted(type, s, m_msgQueue')
<1>0. /\ Len(m_msgQueue[c]) \in Nat /\ DOMAIN m_msgQueue[c] = 1..Len(m_msgQueue[c])
      /\ DOMAIN m_msgQueue'[c] = 1..n
      /\ m_msgQueue'[c][n] = m
      /\ \A i \in 1..Len(m_msgQueue[c]) : m_msgQueue'[c][i] = m_msgQueue[c][i]
      /\ \A d \in Contents : d # c => m_msgQueue'[d] = m_msgQueue[d]
  BY QueueAppended
<1>01. /\ \A at : at \in old <=> \E d \in Contents : \E i \in DOMAIN m_msgQueue[d] :
             at = <<d, i>> /\ m_msgQueue[d][i].type = type /\ m_msgQueue[d][i].session = s
       /\ \A at : at \in new <=> \E d \in Contents : \E i \in DOMAIN m_msgQueue'[d] :
             at = <<d, i>> /\ m_msgQueue'[d][i].type = type /\ m_msgQueue'[d][i].session = s
  <2>1. \A at : at \in old <=> \E d \in Contents : \E i \in DOMAIN m_msgQueue[d] :
             at = <<d, i>> /\ m_msgQueue[d][i].type = type /\ m_msgQueue[d][i].session = s
    BY PostedIs
  <2>2. \A at : at \in new <=> \E d \in Contents : \E i \in DOMAIN m_msgQueue'[d] :
             at = <<d, i>> /\ m_msgQueue'[d][i].type = type /\ m_msgQueue'[d][i].session = s
    BY DEF Posted
  <2> QED BY <2>1, <2>2
<1> HIDE DEF old, new
<1>1. \A at : at \in new <=> at \in old \/ (at = <<c, n>> /\ m.type = type /\ m.session = s)
  <2> TAKE at
  <2>1. at \in old => at \in new
    BY <1>0, <1>01
  <2>2. at = <<c, n>> /\ m.type = type /\ m.session = s => at \in new
    BY <1>0, <1>01
  <2>3. ASSUME at \in new PROVE at \in old \/ (at = <<c, n>> /\ m.type = type /\ m.session = s)
    <3>10. PICK d \in Contents : \E i \in DOMAIN m_msgQueue'[d] :
            at = <<d, i>> /\ m_msgQueue'[d][i].type = type /\ m_msgQueue'[d][i].session = s
      BY <2>3, <1>01
    <3>1. PICK i \in DOMAIN m_msgQueue'[d] :
            at = <<d, i>> /\ m_msgQueue'[d][i].type = type /\ m_msgQueue'[d][i].session = s
      BY <3>10
    <3>2. CASE d # c BY <3>1, <3>2, <1>0, <1>01
    <3>3. CASE d = c /\ i = n BY <3>1, <3>3, <1>0
    <3>4. CASE d = c /\ i # n
      <4>1. i \in 1..Len(m_msgQueue[c]) BY <3>1, <3>4, <1>0
      <4> QED BY <3>1, <3>4, <4>1, <1>0, <1>01
    <3> QED BY <3>2, <3>3, <3>4
  <2> QED BY <2>1, <2>2, <2>3
<1>2. <<c, n>> \notin old BY <1>0, <1>01
<1>3. IsFiniteSet(old) /\ Cardinality(old) \in Nat BY CardOf DEF old
<1> HIDE DEF n
<1>4. CASE m.type = type /\ m.session = s
  <2>1. new = old \cup {<<c, n>>} BY <1>1, <1>4
  <2>2. Cardinality(new) = Cardinality(old) + 1 BY <1>2, <1>3, <2>1, OneMore
  <2> QED BY <1>4, <2>2 DEF old, new
<1>5. CASE ~(m.type = type /\ m.session = s)
  <2>1. new = old BY <1>1, <1>5
  <2> QED BY <1>3, <1>5, <2>1 DEF old, new
<1> QED BY <1>4, <1>5

LEMMA PostedTaken ==
  ASSUME ContentAssumption, TypeInv, NEW c \in Contents, m_msgQueue[c] # <<>>,
         m_msgQueue' = [m_msgQueue EXCEPT ![c] = Tail(m_msgQueue[c])],
         NEW s \in Slots, NEW type \in {"ENTER", "RELEASE"}
  PROVE  Cardinality(Posted(type, s, m_msgQueue')) =
           Cardinality(Posted(type, s, m_msgQueue))
             - (IF m_msgQueue[c][1].type = type /\ m_msgQueue[c][1].session = s THEN 1 ELSE 0)
<1> DEFINE old == Posted(type, s, m_msgQueue)
           new == Posted(type, s, m_msgQueue')
           first == <<c, 1>>
           f == [at \in old \ {first} |-> IF at[1] = c THEN <<c, at[2] - 1>> ELSE at]
<1>0. /\ Len(m_msgQueue[c]) \in Nat \ {0} /\ DOMAIN m_msgQueue[c] = 1..Len(m_msgQueue[c])
      /\ DOMAIN m_msgQueue'[c] = 1..(Len(m_msgQueue[c]) - 1)
      /\ \A i \in 1..(Len(m_msgQueue[c]) - 1) : m_msgQueue'[c][i] = m_msgQueue[c][i + 1]
      /\ \A d \in Contents : d # c => m_msgQueue'[d] = m_msgQueue[d]
  BY QueueTaken
<1>01. /\ \A at : at \in old <=> \E d \in Contents : \E i \in DOMAIN m_msgQueue[d] :
             at = <<d, i>> /\ m_msgQueue[d][i].type = type /\ m_msgQueue[d][i].session = s
       /\ \A at : at \in new <=> \E d \in Contents : \E i \in DOMAIN m_msgQueue'[d] :
             at = <<d, i>> /\ m_msgQueue'[d][i].type = type /\ m_msgQueue'[d][i].session = s
  <2>1. \A at : at \in old <=> \E d \in Contents : \E i \in DOMAIN m_msgQueue[d] :
             at = <<d, i>> /\ m_msgQueue[d][i].type = type /\ m_msgQueue[d][i].session = s
    BY PostedIs
  <2>2. \A at : at \in new <=> \E d \in Contents : \E i \in DOMAIN m_msgQueue'[d] :
             at = <<d, i>> /\ m_msgQueue'[d][i].type = type /\ m_msgQueue'[d][i].session = s
    BY DEF Posted
  <2> QED BY <2>1, <2>2
<1> HIDE DEF old, new
<1>1. ASSUME NEW at \in old \ {first}
      PROVE  f[at] \in new /\ at = <<at[1], at[2]>> /\ at[2] \in Int
             /\ f[at] = (IF at[1] = c THEN <<c, at[2] - 1>> ELSE at)
  <2>10. PICK d \in Contents : \E i \in DOMAIN m_msgQueue[d] :
          at = <<d, i>> /\ m_msgQueue[d][i].type = type /\ m_msgQueue[d][i].session = s
    BY <1>1, <1>01
  <2>1. PICK i \in DOMAIN m_msgQueue[d] :
          at = <<d, i>> /\ m_msgQueue[d][i].type = type /\ m_msgQueue[d][i].session = s
    BY <2>10
  <2>2. CASE d # c
    <3>1. f[at] = at BY <2>1, <2>2
    <3>2. i \in DOMAIN m_msgQueue'[d] /\ m_msgQueue'[d][i] = m_msgQueue[d][i] BY <2>2, <1>0
    <3>3. at \in new BY <2>1, <3>2, <1>01
    <3>4. i \in Int BY QueueIs
    <3> QED BY <2>1, <2>2, <3>1, <3>3, <3>4
  <2>3. CASE d = c
    <3>1. i \in 2..Len(m_msgQueue[c]) BY <2>1, <2>3, <1>0
    <3>2. f[at] = <<c, i - 1>> BY <2>1, <2>3
    <3>3. i - 1 \in DOMAIN m_msgQueue'[c] /\ m_msgQueue'[c][i - 1] = m_msgQueue[c][i]
      BY <3>1, <1>0
    <3>4. f[at] \in new BY <2>1, <2>3, <3>2, <3>3, <1>01
    <3> QED BY <2>1, <2>3, <3>1, <3>2, <3>4
  <2> QED BY <2>2, <2>3
<1>2. ASSUME NEW at \in new PROVE \E was \in old \ {first} : f[was] = at
  <2>10. PICK d \in Contents : \E i \in DOMAIN m_msgQueue'[d] :
          at = <<d, i>> /\ m_msgQueue'[d][i].type = type /\ m_msgQueue'[d][i].session = s
    BY <1>2, <1>01
  <2>1. PICK i \in DOMAIN m_msgQueue'[d] :
          at = <<d, i>> /\ m_msgQueue'[d][i].type = type /\ m_msgQueue'[d][i].session = s
    BY <2>10
  <2>2. CASE d # c
    <3>1. i \in DOMAIN m_msgQueue[d] /\ m_msgQueue'[d][i] = m_msgQueue[d][i] BY <2>2, <1>0
    <3>2. at \in old /\ at # first BY <2>1, <2>2, <3>1, <1>01
    <3> QED BY <2>1, <2>2, <3>2
  <2>3. CASE d = c
    <3>1. i \in 1..(Len(m_msgQueue[c]) - 1) BY <2>3, <1>0
    <3>2. i + 1 \in DOMAIN m_msgQueue[c] /\ m_msgQueue'[c][i] = m_msgQueue[c][i + 1] /\ i + 1 # 1
      BY <3>1, <1>0
    <3>3. <<c, i + 1>> \in old /\ <<c, i + 1>> # first BY <2>1, <2>3, <3>2, <1>01
    <3>4. f[<<c, i + 1>>] = <<c, i>> BY <3>1, <3>3
    <3> QED BY <2>1, <2>3, <3>3, <3>4
  <2> QED BY <2>2, <2>3
<1>3. IsFiniteSet(old) /\ Cardinality(old) \in Nat BY CardOf DEF old
<1>4. first \in old <=> m_msgQueue[c][1].type = type /\ m_msgQueue[c][1].session = s
  BY <1>0, <1>01
<1>5. f \in Bijection(old \ {first}, new)
  <2>1. f \in [old \ {first} -> new] BY <1>1
  <2>2. \A a, b \in old \ {first} : f[a] = f[b] => a = b
    <3> SUFFICES ASSUME NEW a \in old \ {first}, NEW b \in old \ {first}, f[a] = f[b] PROVE a = b
      OBVIOUS
    <3>1. a = <<a[1], a[2]>> /\ a[2] \in Int /\ f[a] = (IF a[1] = c THEN <<c, a[2] - 1>> ELSE a)
      BY <1>1
    <3>2. b = <<b[1], b[2]>> /\ b[2] \in Int /\ f[b] = (IF b[1] = c THEN <<c, b[2] - 1>> ELSE b)
      BY <1>1
    <3> HIDE DEF f
    <3>3. CASE a[1] = c /\ b[1] = c
      <4>1. <<c, a[2] - 1>> = <<c, b[2] - 1>> BY <3>1, <3>2, <3>3
      <4>2. a[2] - 1 = b[2] - 1 BY <4>1, Zenon
      <4>3. a[2] = b[2] BY <3>1, <3>2, <4>2
      <4> QED BY <3>1, <3>2, <3>3, <4>3
    <3>4. CASE a[1] = c /\ b[1] # c
      <4>1. b = <<c, a[2] - 1>> BY <3>1, <3>2, <3>4
      <4>2. b[1] = c BY <4>1
      <4> QED BY <4>2, <3>4
    <3>5. CASE a[1] # c /\ b[1] = c
      <4>1. a = <<c, b[2] - 1>> BY <3>1, <3>2, <3>5
      <4>2. a[1] = c BY <4>1
      <4> QED BY <4>2, <3>5
    <3>6. CASE a[1] # c /\ b[1] # c BY <3>1, <3>2, <3>6
    <3> QED BY <3>3, <3>4, <3>5, <3>6
  <2>3. f \in Injection(old \ {first}, new) BY <2>1, <2>2 DEF Injection, IsInjective
  <2>4. f \in Surjection(old \ {first}, new) BY <2>1, <1>2 DEF Surjection
  <2> QED BY <2>3, <2>4 DEF Bijection
<1>6. /\ IsFiniteSet(old \ {first})
      /\ Cardinality(old \ {first}) = Cardinality(old) - (IF first \in old THEN 1 ELSE 0)
  <2> DEFINE rest == old \ {first}
  <2>1. rest = old \ {first} OBVIOUS
  <2> HIDE DEF rest, first
  <2>2. IsFiniteSet(rest) /\ Cardinality(rest) = Cardinality(old) - (IF first \in old THEN 1 ELSE 0)
    BY <1>3, <2>1, OneLess, ZenonT(60)
  <2> QED BY <2>1, <2>2
<1>7. Cardinality(new) = Cardinality(old \ {first})
  BY <1>5, <1>6, FS_Bijection DEF ExistsBijection
<1> QED BY <1>4, <1>6, <1>7 DEF old, new

LEMMA ServingChanged ==
  ASSUME ContentAssumption, TypeInv, NEW c \in Contents, NEW x,
         thread' = [thread EXCEPT ![c] = x], NEW s \in Slots
  PROVE  Cardinality(Serving(s)') =
           Cardinality(Serving(s)) - (IF c \in Serving(s) THEN 1 ELSE 0)
             + (IF x.at \in {"entering", "check", "take", "receiving"} /\ x.handle[1] = s THEN 1 ELSE 0)
<1> DEFINE rest == Serving(s) \ {c}
<1>1. thread'[c] = x /\ \A d \in Contents : d # c => thread'[d] = thread[d]
  BY DEF TypeInv, ThreadsTyped, Threads
<1>2. /\ IsFiniteSet(rest) /\ Cardinality(rest) \in Nat /\ Cardinality(Serving(s)) \in Nat
      /\ Cardinality(rest) = Cardinality(Serving(s)) - (IF c \in Serving(s) THEN 1 ELSE 0)
  <2> DEFINE all == Serving(s)
             one == c
  <2>1. IsFiniteSet(all) BY CardOf
  <2>2. rest = all \ {one} OBVIOUS
  <2> HIDE DEF rest, all, one
  <2>3. Cardinality(rest) = Cardinality(all) - (IF one \in all THEN 1 ELSE 0)
    BY <2>1, <2>2, OneLess, ZenonT(60)
  <2>4. IsFiniteSet(rest) BY <2>1, <2>2, OneLess
  <2>5. Cardinality(rest) \in Nat /\ Cardinality(all) \in Nat BY <2>1, <2>4, FS_CardinalityType
  <2> QED BY <2>3, <2>4, <2>5 DEF all, one
<1>3. CASE x.at \in {"entering", "check", "take", "receiving"} /\ x.handle[1] = s
  <2>1. Serving(s)' = rest \cup {c} BY <1>1, <1>3 DEF Serving, Serves
  <2>2. Cardinality(Serving(s)') = Cardinality(rest) + 1 BY <1>2, <2>1, OneMore
  <2> QED BY <1>2, <1>3, <2>2
<1>4. CASE ~(x.at \in {"entering", "check", "take", "receiving"} /\ x.handle[1] = s)
  <2>1. Serving(s)' = rest BY <1>1, <1>4 DEF Serving, Serves
  <2> QED BY <1>2, <1>4, <2>1
<1> QED BY <1>3, <1>4

LEMMA ServingSame ==
  ASSUME ContentAssumption, TypeInv, NEW s \in Slots,
         \/ thread' = thread
         \/ \E w \in Slots : \E x : thread' = [thread EXCEPT ![w] = x]
  PROVE  Serving(s)' = Serving(s)
<1>1. \A d \in Contents : thread'[d] = thread[d]
  BY DEF TypeInv, ThreadsTyped, Threads, ContentAssumption
<1> QED BY <1>1 DEF Serving, Serves

LEMMA MovingChanged ==
  ASSUME ContentAssumption, TypeInv, NEW t \in Threads, NEW x,
         moving' = [moving EXCEPT ![t] = x], NEW s \in Slots
  PROVE  Cardinality(Moving(s)') =
           Cardinality(Moving(s)) - (IF t \in Moving(s) THEN 1 ELSE 0)
             + (IF x.step # "none" /\ x.handle[1] = s THEN 1 ELSE 0)
<1> DEFINE rest == Moving(s) \ {t}
<1>1. moving'[t] = x /\ \A u \in Threads : u # t => moving'[u] = moving[u]
  BY DEF TypeInv, ThreadsTyped
<1>2. /\ IsFiniteSet(rest) /\ Cardinality(rest) \in Nat /\ Cardinality(Moving(s)) \in Nat
      /\ Cardinality(rest) = Cardinality(Moving(s)) - (IF t \in Moving(s) THEN 1 ELSE 0)
  <2> DEFINE all == Moving(s)
             one == t
  <2>1. IsFiniteSet(all) BY CardOf
  <2>2. rest = all \ {one} OBVIOUS
  <2> HIDE DEF rest, all, one
  <2>3. Cardinality(rest) = Cardinality(all) - (IF one \in all THEN 1 ELSE 0)
    BY <2>1, <2>2, OneLess, ZenonT(60)
  <2>4. IsFiniteSet(rest) BY <2>1, <2>2, OneLess
  <2>5. Cardinality(rest) \in Nat /\ Cardinality(all) \in Nat BY <2>1, <2>4, FS_CardinalityType
  <2> QED BY <2>3, <2>4, <2>5 DEF all, one
<1>3. CASE x.step # "none" /\ x.handle[1] = s
  <2>1. Moving(s)' = rest \cup {t} BY <1>1, <1>3 DEF Moving
  <2>2. Cardinality(Moving(s)') = Cardinality(rest) + 1 BY <1>2, <2>1, OneMore
  <2> QED BY <1>2, <1>3, <2>2
<1>4. CASE ~(x.step # "none" /\ x.handle[1] = s)
  <2>1. Moving(s)' = rest BY <1>1, <1>4 DEF Moving
  <2> QED BY <1>2, <1>4, <2>1
<1> QED BY <1>3, <1>4


-----------------------------------------------------------------------------
\* References, and who gives the slot back.

LEMMA ServingKept ==
  ASSUME ContentAssumption, TypeInv, NEW c \in Contents,
         NEW label \in {"entering", "check", "take", "receiving"},
         thread[c].at \in {"entering", "check", "take", "receiving"},
         thread' = [thread EXCEPT ![c].at = label], NEW s \in Slots
  PROVE  Serving(s)' = Serving(s)
<1>1. /\ thread'[c].at = label /\ thread'[c].handle = thread[c].handle
      /\ \A d \in Contents : d # c => thread'[d] = thread[d]
  BY DEF TypeInv, ThreadsTyped, Threads
<1>2. \A d \in Contents : d \in Serving(s)' <=> d \in Serving(s)
  BY <1>1 DEF Serving, Serves
<1>3. Serving(s)' \subseteq Contents /\ Serving(s) \subseteq Contents BY DEF Serving
<1> QED BY <1>2, <1>3

LEMMA DroppedCounts ==
  ASSUME ContentAssumption, IInv, NEW s \in Slots, refs[s] > 0, conn[s] > 0,
         Dropped(s, m_msgQueue), NEW u \in Slots
  PROVE  /\ refs'[u] = (IF u = s THEN refs[u] - 1 ELSE refs[u])
         /\ life'[u] = (IF u = s /\ refs[u] = 1 THEN "released" ELSE life[u])
         /\ leaving'[u] <=> leaving[u] \/ (u = s /\ refs[u] = 1 /\ m_content[u] = NoContent)
         /\ Cardinality(Posted("ENTER", u, m_msgQueue')) = Cardinality(Posted("ENTER", u, m_msgQueue))
         /\ Cardinality(Posted("RELEASE", u, m_msgQueue')) =
              Cardinality(Posted("RELEASE", u, m_msgQueue))
                + (IF u = s /\ refs[u] = 1 /\ m_content[u] # NoContent THEN 1 ELSE 0)
<1> USE DEF IInv
<1>1. refs[s] \in Int /\ refs[u] \in Int /\ (~(refs[s] > 1) <=> refs[s] = 1)
  BY DEF TypeInv, SlotsTyped
<1>2. refs \in [Slots -> Int] /\ leaving \in [Slots -> BOOLEAN] /\ life \in [Slots -> {"free", "open", "released"}]
  BY DEF TypeInv, SlotsTyped
<1>3. /\ Cardinality(Posted("ENTER", u, m_msgQueue)) \in Nat
      /\ Cardinality(Posted("RELEASE", u, m_msgQueue)) \in Nat
  BY CardOf
<1>4. CASE refs[s] > 1
  <2>1. refs' = [refs EXCEPT ![s] = refs[s] - 1] /\ UNCHANGED <<life, leaving, m_msgQueue>>
    BY <1>4, DroppedIs
  <2> QED BY <1>1, <1>2, <1>3, <1>4, <2>1
<1>5. CASE ~(refs[s] > 1) /\ m_content[s] = NoContent
  <2>1. /\ refs' = [refs EXCEPT ![s] = 0] /\ life' = [life EXCEPT ![s] = "released"]
        /\ leaving' = [leaving EXCEPT ![s] = TRUE] /\ UNCHANGED m_msgQueue
    BY <1>5, DroppedIs
  <2>2. refs'[u] = (IF u = s THEN refs[u] - 1 ELSE refs[u]) BY <1>1, <1>2, <1>5, <2>1
  <2>3. life'[u] = (IF u = s /\ refs[u] = 1 THEN "released" ELSE life[u]) BY <1>1, <1>2, <1>5, <2>1
  <2>4. leaving'[u] <=> leaving[u] \/ u = s BY <1>2, <2>1
  <2> QED BY <1>1, <1>3, <1>5, <2>1, <2>2, <2>3, <2>4
<1>6. CASE ~(refs[s] > 1) /\ m_content[s] # NoContent
  <2> DEFINE c == m_content[s]
             m == Msg("RELEASE", Current(s))
  <2>1. /\ refs' = [refs EXCEPT ![s] = 0] /\ life' = [life EXCEPT ![s] = "released"] /\ c \in Contents
        /\ m_msgQueue' = [m_msgQueue EXCEPT ![c] = Append(m_msgQueue[c], m)]
        /\ UNCHANGED leaving
    BY <1>6, DroppedIs
  <2>2. m \in MessageSet /\ m.type = "RELEASE" /\ m.session = s BY MsgIs, CurrentIs
  <2> HIDE DEF c, m
  <2>3. Cardinality(Posted("ENTER", u, m_msgQueue')) =
          Cardinality(Posted("ENTER", u, m_msgQueue)) + (IF m.type = "ENTER" /\ m.session = u THEN 1 ELSE 0)
    BY <2>1, <2>2, PostedAppended
  <2>4. Cardinality(Posted("RELEASE", u, m_msgQueue')) =
          Cardinality(Posted("RELEASE", u, m_msgQueue)) + (IF m.type = "RELEASE" /\ m.session = u THEN 1 ELSE 0)
    BY <2>1, <2>2, PostedAppended
  <2>5. refs'[u] = (IF u = s THEN refs[u] - 1 ELSE refs[u]) BY <1>1, <1>2, <1>6, <2>1
  <2>6. life'[u] = (IF u = s /\ refs[u] = 1 THEN "released" ELSE life[u]) BY <1>1, <1>2, <1>6, <2>1
  <2> QED BY <1>1, <1>3, <1>6, <2>1, <2>2, <2>3, <2>4, <2>5, <2>6
<1> QED BY <1>4, <1>5, <1>6

LEMMA RefStep ==
  ASSUME ContentAssumption, IInv, [Next]_vars
  PROVE  RefInv'
<1> USE DEF IInv
<1>1. CASE UNCHANGED vars
  <2> SUFFICES ASSUME NEW u \in Slots PROVE RefOK(u)' BY DEF RefInv
  <2>1. RefOK(u) BY DEF RefInv
  <2>2. Serving(u)' = Serving(u) /\ Moving(u)' = Moving(u) /\ refs' = refs /\ connected' = connected
        /\ life' = life /\ m_msgQueue' = m_msgQueue
    BY <1>1 DEF vars, slotVars, contentVars, Serving, Serves, Moving
  <2> QED BY <2>1, <2>2 DEF RefOK
<1>2. ASSUME NEW s \in Slots, Connect(s) PROVE RefInv'
  <2> SUFFICES ASSUME NEW u \in Slots PROVE RefOK(u)' BY DEF RefInv
  <2>1. RefOK(u) BY DEF RefInv
  <2>2. /\ Cardinality(Serving(u)) \in Nat /\ Cardinality(Moving(u)) \in Nat
        /\ Cardinality(Posted("ENTER", u, m_msgQueue)) \in Nat
    BY CardOf
  <2>3. Serving(u)' = Serving(u) BY <1>2, ServingSame DEF Connect
  <2>4. Moving(u)' = Moving(u) BY <1>2 DEF Connect, Moving
  <2>5. refs[s] = 0 \/ u # s BY <1>2, <2>1, <2>2 DEF Connect, RefOK, TypeInv, SlotsTyped
  <2> QED BY <1>2, <2>1, <2>2, <2>3, <2>4, <2>5 DEF Connect, RefOK, contentVars, TypeInv,
             SlotsTyped
<1>3. ASSUME NEW s \in Slots, ReceiveFrame(s) PROVE RefInv'
  <2> SUFFICES ASSUME NEW u \in Slots PROVE RefOK(u)' BY DEF RefInv
  <2>1. RefOK(u) BY DEF RefInv
  <2>2. /\ Cardinality(Serving(u)) \in Nat /\ Cardinality(Moving(u)) \in Nat
        /\ Cardinality(Posted("ENTER", u, m_msgQueue)) \in Nat
    BY CardOf
  <2>3. Serving(u)' = Serving(u)
    <3>1. thread' = thread \/ thread' = [thread EXCEPT ![s] = [at |-> "callback", handle |-> Current(s)]]
      BY <1>3 DEF ReceiveFrame
    <3> QED BY <3>1, ServingSame
  <2>4. Moving(u)' = Moving(u) BY <1>3 DEF ReceiveFrame, Moving
  <2> QED BY <1>3, <2>1, <2>2, <2>3, <2>4 DEF ReceiveFrame, RefOK, slotVars, contentVars, TypeInv,
             SlotsTyped
<1>4. ASSUME NEW s \in Slots, PeerCloses(s) PROVE RefInv'
  <2> SUFFICES ASSUME NEW u \in Slots PROVE RefOK(u)' BY DEF RefInv
  <2>1. RefOK(u) BY DEF RefInv
  <2>2. /\ Cardinality(Serving(u)) \in Nat /\ Cardinality(Moving(u)) \in Nat
        /\ Cardinality(Posted("ENTER", u, m_msgQueue)) \in Nat
    BY CardOf
  <2> DEFINE s0 == s
  <2>5. s0 \in Slots /\ refs[s0] > 0 /\ conn[s0] > 0 /\ life[s0] = "open" /\ Dropped(s0, m_msgQueue)
    BY <1>4, ConnectedIs DEF PeerCloses, Threads
  <2>3. Serving(u)' = Serving(u) BY <1>4, ServingSame DEF PeerCloses
  <2>4. Moving(u)' = Moving(u) BY <1>4 DEF PeerCloses, Moving
  <2>8. connected[s0] /\ connected' = [connected EXCEPT ![s0] = FALSE]
        /\ (connected'[u] <=> connected[u] /\ u # s0)
    BY <1>4 DEF PeerCloses, TypeInv, SlotsTyped
  <2> HIDE DEF s0
  <2>6. /\ refs'[u] = (IF u = s0 THEN refs[u] - 1 ELSE refs[u])
        /\ life'[u] = (IF u = s0 /\ refs[u] = 1 THEN "released" ELSE life[u])
        /\ Cardinality(Posted("ENTER", u, m_msgQueue')) = Cardinality(Posted("ENTER", u, m_msgQueue))
    BY <2>5, DroppedCounts
  <2>7. refs[s0] \in Int /\ refs[u] \in Int BY <2>5 DEF TypeInv, SlotsTyped
  <2> QED BY <2>1, <2>2, <2>3, <2>4, <2>5, <2>6, <2>7, <2>8 DEF RefOK
<1>5. ASSUME NEW s \in Slots, WorkerReturns(s) PROVE RefInv'
  <2> SUFFICES ASSUME NEW u \in Slots PROVE RefOK(u)' BY DEF RefInv
  <2>1. RefOK(u) BY DEF RefInv
  <2>2. /\ Cardinality(Serving(u)) \in Nat /\ Cardinality(Moving(u)) \in Nat
        /\ Cardinality(Posted("ENTER", u, m_msgQueue)) \in Nat
    BY CardOf
  <2>3. Serving(u)' = Serving(u) BY <1>5, ServingSame DEF WorkerReturns
  <2>4. Moving(u)' = Moving(u) BY <1>5 DEF WorkerReturns, Moving
  <2> QED BY <1>5, <2>1, <2>2, <2>3, <2>4 DEF WorkerReturns, RefOK, slotVars, contentVars,
             TypeInv, SlotsTyped
<1>6. ASSUME NEW s \in Slots, ClientLeave(s) PROVE RefInv'
  <2> SUFFICES ASSUME NEW u \in Slots PROVE RefOK(u)' BY DEF RefInv
  <2>1. RefOK(u) BY DEF RefInv
  <2>2. /\ Cardinality(Serving(u)) \in Nat /\ Cardinality(Moving(u)) \in Nat
        /\ Cardinality(Posted("ENTER", u, m_msgQueue)) \in Nat
    BY CardOf
  <2>3. Serving(u)' = Serving(u) BY <1>6, ServingSame DEF ClientLeave
  <2>4. Moving(u)' = Moving(u) BY <1>6 DEF ClientLeave, Moving
  <2>5. life[s] = "released" BY <1>6, LeavingIs DEF ClientLeave
  <2> QED BY <1>6, <2>1, <2>2, <2>3, <2>4, <2>5 DEF ClientLeave, RefOK, contentVars, TypeInv,
             SlotsTyped
<1>7. ASSUME NEW t \in Threads, MoveContent(t) PROVE RefInv'
  <2> SUFFICES ASSUME NEW u \in Slots PROVE RefOK(u)' BY DEF RefInv
  <2>1. RefOK(u) BY DEF RefInv
  <2>2. /\ Cardinality(Serving(u)) \in Nat /\ Cardinality(Moving(u)) \in Nat
        /\ Cardinality(Posted("ENTER", u, m_msgQueue)) \in Nat
    BY CardOf
  <2>5. PICK h \in Handles, to \in Contents \cup {NoContent} : MoveContentOf(t, h, to)
    BY <1>7, MoveContentIs
  <2>3. Serving(u)' = Serving(u) BY <2>5, ServingSame DEF MoveContentOf
  <2>4. Cardinality(Moving(u)') = Cardinality(Moving(u)) + (IF u = h[1] THEN 1 ELSE 0)
    <3> DEFINE x == [step |-> "leave", to |-> to, handle |-> h]
    <3>1. moving' = [moving EXCEPT ![t] = x] /\ t \notin Moving(u) /\ x.step = "leave" /\ x.handle = h
      BY <2>5 DEF MoveContentOf, Moving
    <3> HIDE DEF x
    <3>2. Cardinality(Moving(u)') =
            Cardinality(Moving(u)) - (IF t \in Moving(u) THEN 1 ELSE 0)
              + (IF x.step # "none" /\ x.handle[1] = u THEN 1 ELSE 0)
      BY <3>1, MovingChanged
    <3> QED BY <2>2, <3>1, <3>2
  <2>6. refs'[u] = refs[u] + (IF u = h[1] THEN 1 ELSE 0) /\ refs[u] \in Int
        /\ connected' = connected /\ life' = life /\ m_msgQueue' = m_msgQueue
        /\ life[h[1]] = "open"
    BY <2>5 DEF MoveContentOf, TypeInv, SlotsTyped
  <2> QED BY <2>1, <2>2, <2>3, <2>4, <2>6 DEF RefOK
<1>8. ASSUME NEW t \in Threads, MoveLeave(t) PROVE RefInv'
  <2> SUFFICES ASSUME NEW u \in Slots PROVE RefOK(u)' BY DEF RefInv
  <2>1. RefOK(u) BY DEF RefInv
  <2>2. /\ Cardinality(Serving(u)) \in Nat /\ Cardinality(Moving(u)) \in Nat
        /\ Cardinality(Posted("ENTER", u, m_msgQueue)) \in Nat
    BY CardOf
  <2>5. PICK h \in Handles : MoveLeaveOf(t, h) BY <1>8, MoveLeaveIs
  <2>3. Serving(u)' = Serving(u) BY <2>5, ServingSame DEF MoveLeaveOf
  <2>4. Moving(u)' = Moving(u)
    <3>1. /\ moving[t].step = "leave" /\ moving'[t].step = "enter" /\ moving'[t].handle = moving[t].handle
          /\ \A v \in Threads : v # t => moving'[v] = moving[v]
      BY <2>5 DEF MoveLeaveOf, TypeInv, ThreadsTyped
    <3> QED BY <3>1 DEF Moving
  <2>6. Cardinality(Posted("ENTER", u, m_msgQueue')) = Cardinality(Posted("ENTER", u, m_msgQueue))
    <3>1. Msg("LEAVE", h) \in MessageSet /\ Msg("LEAVE", h).type = "LEAVE" BY MsgIs
    <3>2. CASE m_msgQueue' = m_msgQueue BY <3>2
    <3>3. CASE t \in Contents /\ m_msgQueue' = [m_msgQueue EXCEPT ![t] = Append(m_msgQueue[t], Msg("LEAVE", h))]
      <4> DEFINE m == Msg("LEAVE", h)
      <4>1. m \in MessageSet /\ m.type = "LEAVE" BY <3>1
      <4>2. m_msgQueue' = [m_msgQueue EXCEPT ![t] = Append(m_msgQueue[t], m)] BY <3>3
      <4> HIDE DEF m
      <4>3. Cardinality(Posted("ENTER", u, m_msgQueue')) =
              Cardinality(Posted("ENTER", u, m_msgQueue)) + (IF m.type = "ENTER" /\ m.session = u THEN 1 ELSE 0)
        BY <3>3, <4>1, <4>2, PostedAppended
      <4> QED BY <2>2, <4>1, <4>3
    <3> QED BY <2>5, <3>2, <3>3 DEF MoveLeaveOf
  <2>7. UNCHANGED <<refs, connected, life>> BY <2>5 DEF MoveLeaveOf
  <2> QED BY <2>1, <2>2, <2>3, <2>4, <2>6, <2>7 DEF RefOK
<1>9. ASSUME NEW t \in Threads, MoveEnter(t) PROVE RefInv'
  <2> SUFFICES ASSUME NEW u \in Slots PROVE RefOK(u)' BY DEF RefInv
  <2>1. RefOK(u) BY DEF RefInv
  <2>2. /\ Cardinality(Serving(u)) \in Nat /\ Cardinality(Moving(u)) \in Nat
        /\ Cardinality(Posted("ENTER", u, m_msgQueue)) \in Nat
    BY CardOf
  <2>5. PICK h \in Handles, to \in Contents \cup {NoContent} : MoveEnterOf(t, h, to)
    BY <1>9, MoveEnterIs
  <2>3. Serving(u)' = Serving(u) BY <2>5, ServingSame DEF MoveEnterOf
  <2>4. Cardinality(Moving(u)') = Cardinality(Moving(u)) - (IF u = h[1] THEN 1 ELSE 0)
    <3>1. moving' = [moving EXCEPT ![t] = NotMoving] /\ (t \in Moving(u) <=> u = h[1])
      BY <2>5 DEF MoveEnterOf, Moving
    <3>2. Cardinality(Moving(u)') =
            Cardinality(Moving(u)) - (IF t \in Moving(u) THEN 1 ELSE 0)
              + (IF NotMoving.step # "none" /\ NotMoving.handle[1] = u THEN 1 ELSE 0)
      BY <3>1, MovingChanged
    <3>3. NotMoving.step = "none" BY DEF NotMoving
    <3> QED BY <2>2, <3>1, <3>2, <3>3
  <2>6. UNCHANGED <<connected, life>> /\ life[h[1]] = "open" /\ refs[u] \in Int /\ h[1] \in Slots
    BY <2>5 DEF MoveEnterOf, TypeInv, SlotsTyped
  <2>7. CASE to \in Contents /\ m_msgQueue' = [m_msgQueue EXCEPT ![to] = Append(m_msgQueue[to], Msg("ENTER", h))]
               /\ UNCHANGED refs
    <3> DEFINE m == Msg("ENTER", h)
    <3>1. m \in MessageSet /\ m.type = "ENTER" /\ m.session = h[1] BY MsgIs
    <3>2. m_msgQueue' = [m_msgQueue EXCEPT ![to] = Append(m_msgQueue[to], m)] BY <2>7
    <3> HIDE DEF m
    <3>3. Cardinality(Posted("ENTER", u, m_msgQueue')) =
            Cardinality(Posted("ENTER", u, m_msgQueue)) + (IF m.type = "ENTER" /\ m.session = u THEN 1 ELSE 0)
      BY <2>7, <3>1, <3>2, PostedAppended
    <3> QED BY <2>1, <2>2, <2>3, <2>4, <2>6, <2>7, <3>1, <3>3, SMTT(30) DEF RefOK
  <2>8. CASE refs' = [refs EXCEPT ![h[1]] = refs[h[1]] - 1] /\ UNCHANGED m_msgQueue
    <3>1. refs'[u] = refs[u] - (IF u = h[1] THEN 1 ELSE 0) BY <2>6, <2>8 DEF TypeInv, SlotsTyped
    <3>2. u = h[1] => connected[u] \/ Cardinality(Serving(u)) > 0
      <4> SUFFICES ASSUME u = h[1] PROVE connected[u] \/ Cardinality(Serving(u)) > 0 OBVIOUS
      <4>1. /\ thread[t].at \in {"callback", "entering", "receiving"} /\ thread[t].handle[1] = u
        BY <2>5, MoverIs DEF MoveEnterOf
      <4>2. CASE t \in Contents
        <5>1. t \in Serving(u) BY <4>1, <4>2, ServerIs DEF Serving
        <5> QED BY <2>2, <5>1, CardOf, FS_EmptySet
      <4>3. CASE t \notin Contents BY <4>1, <4>3, ServerIs
      <4> QED BY <4>2, <4>3
    <3>3. u = h[1] => Cardinality(Moving(u)) > 0
      <4>1. u = h[1] => t \in Moving(u) BY <2>5 DEF MoveEnterOf, Moving
      <4> QED BY <2>2, <4>1, CardOf, FS_EmptySet
    <3> QED BY <2>1, <2>2, <2>3, <2>4, <2>6, <2>8, <3>1, <3>2, <3>3 DEF RefOK
  <2> QED BY <2>5, <2>7, <2>8 DEF MoveEnterOf
<1>10. ASSUME NEW c \in Contents, HandleEnter(c) PROVE RefInv'
  <2> SUFFICES ASSUME NEW u \in Slots PROVE RefOK(u)' BY DEF RefInv
  <2>1. RefOK(u) BY DEF RefInv
  <2>2. /\ Cardinality(Serving(u)) \in Nat /\ Cardinality(Moving(u)) \in Nat
        /\ Cardinality(Posted("ENTER", u, m_msgQueue)) \in Nat
    BY CardOf
  <2>5. PICK h \in Handles : HandleEnterOf(c, h) BY <1>10, HandleEnterIs
  <2>9. m_msgQueue[c] # <<>> /\ m_msgQueue' = [m_msgQueue EXCEPT ![c] = Tail(m_msgQueue[c])]
        /\ m_msgQueue[c][1].type = "ENTER" /\ m_msgQueue[c][1].session = h[1] /\ h[1] \in Slots
    BY <2>5 DEF HandleEnterOf
  <2>3. Cardinality(Serving(u)') = Cardinality(Serving(u)) + (IF u = h[1] THEN 1 ELSE 0)
    <3>1. thread' = [thread EXCEPT ![c] = [at |-> "entering", handle |-> h]] /\ thread[c] = Idle
      BY <2>5 DEF HandleEnterOf
    <3>2. c \notin Serving(u) BY <3>1 DEF Serving, Serves, Idle
    <3> DEFINE x == [at |-> "entering", handle |-> h]
    <3>3. thread' = [thread EXCEPT ![c] = x] /\ x.at = "entering" /\ x.handle = h BY <3>1
    <3> HIDE DEF x
    <3>4. Cardinality(Serving(u)') =
            Cardinality(Serving(u)) - (IF c \in Serving(u) THEN 1 ELSE 0)
              + (IF x.at \in {"entering", "check", "take", "receiving"} /\ x.handle[1] = u THEN 1 ELSE 0)
      BY <3>3, ServingChanged
    <3> QED BY <2>2, <3>2, <3>3, <3>4
  <2>4. Moving(u)' = Moving(u) BY <2>5 DEF HandleEnterOf, Moving
  <2>8. Cardinality(Posted("ENTER", u, m_msgQueue')) = Cardinality(Posted("ENTER", u, m_msgQueue))
          - (IF m_msgQueue[c][1].type = "ENTER" /\ m_msgQueue[c][1].session = u THEN 1 ELSE 0)
    BY <2>9, PostedTaken
  <2>6. Cardinality(Posted("ENTER", u, m_msgQueue')) = Cardinality(Posted("ENTER", u, m_msgQueue)) - (IF u = h[1] THEN 1 ELSE 0)
    BY <2>2, <2>8, <2>9
  <2>7. UNCHANGED <<refs, connected, life>> BY <2>5 DEF HandleEnterOf
  <2> QED BY <2>1, <2>2, <2>3, <2>4, <2>6, <2>7 DEF RefOK
<1>11. ASSUME NEW c \in Contents, EnterReturns(c) PROVE RefInv'
  <2> SUFFICES ASSUME NEW u \in Slots PROVE RefOK(u)' BY DEF RefInv
  <2>1. RefOK(u) BY DEF RefInv
  <2>2. /\ Cardinality(Serving(u)) \in Nat /\ Cardinality(Moving(u)) \in Nat
        /\ Cardinality(Posted("ENTER", u, m_msgQueue)) \in Nat
    BY CardOf
  <2> DEFINE s0 == thread[c].handle[1]
  <2>5. s0 \in Slots /\ refs[s0] > 0 /\ conn[s0] > 0 /\ life[s0] = "open" /\ Dropped(s0, m_msgQueue)
    BY <1>11, ServerConn DEF EnterReturns, Threads
  <2>3. Cardinality(Serving(u)') = Cardinality(Serving(u)) - (IF u = s0 THEN 1 ELSE 0)
    <3>1. thread' = [thread EXCEPT ![c] = Idle] /\ Serves(c)
      BY <1>11 DEF EnterReturns, Serves
    <3>2. c \in Serving(u) <=> u = s0 BY <3>1 DEF Serving
    <3> DEFINE x == Idle
    <3>3. thread' = [thread EXCEPT ![c] = x] /\ x.at \notin {"entering", "check", "take", "receiving"}
      BY <3>1 DEF Idle
    <3> HIDE DEF x, s0
    <3>4. Cardinality(Serving(u)') =
            Cardinality(Serving(u)) - (IF c \in Serving(u) THEN 1 ELSE 0)
              + (IF x.at \in {"entering", "check", "take", "receiving"} /\ x.handle[1] = u THEN 1 ELSE 0)
      BY <3>3, ServingChanged
    <3> QED BY <2>2, <3>2, <3>3, <3>4
  <2>4. Moving(u)' = Moving(u) BY <1>11 DEF EnterReturns, Moving
  <2>8. connected' = connected BY <1>11 DEF EnterReturns
  <2> HIDE DEF s0
  <2>6. /\ refs'[u] = (IF u = s0 THEN refs[u] - 1 ELSE refs[u])
        /\ life'[u] = (IF u = s0 /\ refs[u] = 1 THEN "released" ELSE life[u])
        /\ Cardinality(Posted("ENTER", u, m_msgQueue')) = Cardinality(Posted("ENTER", u, m_msgQueue))
    BY <2>5, DroppedCounts
  <2>7. refs[s0] \in Int /\ refs[u] \in Int BY <2>5 DEF TypeInv, SlotsTyped
  <2> QED BY <2>1, <2>2, <2>3, <2>4, <2>5, <2>6, <2>7, <2>8 DEF RefOK
<1>12. ASSUME NEW c \in Contents, HandleLeave(c) PROVE RefInv'
  <2> SUFFICES ASSUME NEW u \in Slots PROVE RefOK(u)' BY DEF RefInv
  <2>1. RefOK(u) BY DEF RefInv
  <2>2. /\ Cardinality(Serving(u)) \in Nat /\ Cardinality(Moving(u)) \in Nat
        /\ Cardinality(Posted("ENTER", u, m_msgQueue)) \in Nat
    BY CardOf
  <2>5. PICK h \in Handles : HandleLeaveOf(c, h) BY <1>12, HandleLeaveIs
  <2>9. m_msgQueue[c] # <<>> /\ m_msgQueue' = [m_msgQueue EXCEPT ![c] = Tail(m_msgQueue[c])]
        /\ m_msgQueue[c][1].type = "LEAVE" /\ m_msgQueue[c][1].session = h[1] /\ h[1] \in Slots
    BY <2>5 DEF HandleLeaveOf
  <2>3. Serving(u)' = Serving(u) BY <2>5, ServingSame DEF HandleLeaveOf
  <2>4. Moving(u)' = Moving(u) BY <2>5 DEF HandleLeaveOf, Moving
  <2>8. Cardinality(Posted("ENTER", u, m_msgQueue')) = Cardinality(Posted("ENTER", u, m_msgQueue))
          - (IF m_msgQueue[c][1].type = "ENTER" /\ m_msgQueue[c][1].session = u THEN 1 ELSE 0)
    BY <2>9, PostedTaken
  <2>6. Cardinality(Posted("ENTER", u, m_msgQueue')) = Cardinality(Posted("ENTER", u, m_msgQueue))
    BY <2>2, <2>8, <2>9
  <2>7. UNCHANGED <<refs, connected, life>> BY <2>5 DEF HandleLeaveOf
  <2> QED BY <2>1, <2>2, <2>3, <2>4, <2>6, <2>7 DEF RefOK
<1>13. ASSUME NEW c \in Contents, HandleRelease(c) PROVE RefInv'
  <2> SUFFICES ASSUME NEW u \in Slots PROVE RefOK(u)' BY DEF RefInv
  <2>1. RefOK(u) BY DEF RefInv
  <2>2. /\ Cardinality(Serving(u)) \in Nat /\ Cardinality(Moving(u)) \in Nat
        /\ Cardinality(Posted("ENTER", u, m_msgQueue)) \in Nat
    BY CardOf
  <2>5. PICK h \in Handles : HandleReleaseOf(c, h) BY <1>13, HandleReleaseIs
  <2>9. m_msgQueue[c] # <<>> /\ m_msgQueue' = [m_msgQueue EXCEPT ![c] = Tail(m_msgQueue[c])]
        /\ m_msgQueue[c][1].type = "RELEASE" /\ m_msgQueue[c][1].session = h[1] /\ h[1] \in Slots
    BY <2>5 DEF HandleReleaseOf
  <2>3. Serving(u)' = Serving(u) BY <2>5, ServingSame DEF HandleReleaseOf
  <2>4. Moving(u)' = Moving(u) BY <2>5 DEF HandleReleaseOf, Moving
  <2>8. Cardinality(Posted("ENTER", u, m_msgQueue')) = Cardinality(Posted("ENTER", u, m_msgQueue))
          - (IF m_msgQueue[c][1].type = "ENTER" /\ m_msgQueue[c][1].session = u THEN 1 ELSE 0)
    BY <2>9, PostedTaken
  <2>6. Cardinality(Posted("ENTER", u, m_msgQueue')) = Cardinality(Posted("ENTER", u, m_msgQueue))
    BY <2>2, <2>8, <2>9
  <2>7. UNCHANGED <<refs, connected>> /\ (life'[u] = "open" <=> life[u] = "open")
    BY <2>5 DEF HandleReleaseOf, TypeInv, SlotsTyped
  <2> QED BY <2>1, <2>2, <2>3, <2>4, <2>6, <2>7 DEF RefOK
<1>14. ASSUME NEW c \in Contents, StartLoop(c) PROVE RefInv'
  <2> SUFFICES ASSUME NEW u \in Slots PROVE RefOK(u)' BY DEF RefInv
  <2>1. RefOK(u) BY DEF RefInv
  <2>2. /\ Cardinality(Serving(u)) \in Nat /\ Cardinality(Moving(u)) \in Nat
        /\ Cardinality(Posted("ENTER", u, m_msgQueue)) \in Nat
    BY CardOf
  <2>4. Moving(u)' = Moving(u) BY <1>14 DEF StartLoop, Moving
  <2>3. Serving(u)' = Serving(u)
    <3>1. \A d \in Contents : d # c => thread'[d] = thread[d]
      BY <1>14 DEF StartLoop, TypeInv, ThreadsTyped, Threads
    <3>2. ~Serves(c) /\ ~Serves(c)'
      BY <1>14 DEF StartLoop, Serves, Idle, TypeInv, ThreadsTyped, Threads
    <3> QED BY <3>1, <3>2 DEF Serving, Serves
  <2> QED BY <1>14, <2>1, <2>2, <2>3, <2>4 DEF StartLoop, RefOK, slotVars, contentVars, TypeInv,
             SlotsTyped
<1>15. ASSUME NEW c \in Contents, FindNext(c) PROVE RefInv'
  <2> SUFFICES ASSUME NEW u \in Slots PROVE RefOK(u)' BY DEF RefInv
  <2>1. RefOK(u) BY DEF RefInv
  <2>2. /\ Cardinality(Serving(u)) \in Nat /\ Cardinality(Moving(u)) \in Nat
        /\ Cardinality(Posted("ENTER", u, m_msgQueue)) \in Nat
    BY CardOf
  <2>5. PICK h \in Handles : FindNextOf(c, h) BY <1>15, FindNextIs
  <2>4. Moving(u)' = Moving(u) /\ UNCHANGED <<connected, life, m_msgQueue>> /\ refs[u] \in Int /\ h[1] \in Slots
    BY <2>5 DEF FindNextOf, Moving, TypeInv, SlotsTyped
  <2>6. CASE UNCHANGED <<refs, thread>>
    <3>1. Serving(u)' = Serving(u) BY <2>6, ServingSame
    <3> QED BY <2>1, <2>2, <2>4, <2>6, <3>1 DEF RefOK
  <2>7. CASE /\ life[h[1]] = "open" /\ refs' = [refs EXCEPT ![h[1]] = refs[h[1]] + 1]
             /\ thread' = [thread EXCEPT ![c] = [at |-> "check", handle |-> h]]
    <3>1. c \notin Serving(u) BY <2>5 DEF FindNextOf, Serving, Serves
    <3>2. Cardinality(Serving(u)') = Cardinality(Serving(u)) + (IF u = h[1] THEN 1 ELSE 0)
      <4> DEFINE x == [at |-> "check", handle |-> h]
      <4>1. thread' = [thread EXCEPT ![c] = x] /\ x.at = "check" /\ x.handle = h BY <2>7
      <4> HIDE DEF x
      <4>2. Cardinality(Serving(u)') =
              Cardinality(Serving(u)) - (IF c \in Serving(u) THEN 1 ELSE 0)
                + (IF x.at \in {"entering", "check", "take", "receiving"} /\ x.handle[1] = u THEN 1 ELSE 0)
        BY <4>1, ServingChanged
      <4> QED BY <2>2, <3>1, <4>1, <4>2
    <3>3. refs'[u] = refs[u] + (IF u = h[1] THEN 1 ELSE 0) BY <2>4, <2>7 DEF TypeInv, SlotsTyped
    <3> QED BY <2>1, <2>2, <2>4, <2>7, <3>2, <3>3 DEF RefOK
  <2> QED BY <2>5, <2>6, <2>7 DEF FindNextOf
<1>16. ASSUME NEW c \in Contents, EndLoop(c) PROVE RefInv'
  <2> SUFFICES ASSUME NEW u \in Slots PROVE RefOK(u)' BY DEF RefInv
  <2>1. RefOK(u) BY DEF RefInv
  <2>2. /\ Cardinality(Serving(u)) \in Nat /\ Cardinality(Moving(u)) \in Nat
        /\ Cardinality(Posted("ENTER", u, m_msgQueue)) \in Nat
    BY CardOf
  <2>4. Moving(u)' = Moving(u) BY <1>16 DEF EndLoop, Moving
  <2>3. Serving(u)' = Serving(u)
    <3>1. \A d \in Contents : d # c => thread'[d] = thread[d]
      BY <1>16 DEF EndLoop, TypeInv, ThreadsTyped, Threads
    <3>2. ~Serves(c) /\ ~Serves(c)'
      BY <1>16 DEF EndLoop, Serves, Idle, TypeInv, ThreadsTyped, Threads
    <3> QED BY <3>1, <3>2 DEF Serving, Serves
  <2> QED BY <1>16, <2>1, <2>2, <2>3, <2>4 DEF EndLoop, RefOK, slotVars, contentVars, TypeInv,
             SlotsTyped
<1>17. ASSUME NEW c \in Contents, CheckMoving(c) PROVE RefInv'
  <2> SUFFICES ASSUME NEW u \in Slots PROVE RefOK(u)' BY DEF RefInv
  <2>1. RefOK(u) BY DEF RefInv
  <2>2. /\ Cardinality(Serving(u)) \in Nat /\ Cardinality(Moving(u)) \in Nat
        /\ Cardinality(Posted("ENTER", u, m_msgQueue)) \in Nat
    BY CardOf
  <2>4. Moving(u)' = Moving(u) BY <1>17 DEF CheckMoving, Moving
  <2>3. Serving(u)' = Serving(u) BY <1>17, ServingKept DEF CheckMoving
  <2> QED BY <1>17, <2>1, <2>2, <2>3, <2>4 DEF CheckMoving, RefOK, slotVars, contentVars, TypeInv,
             SlotsTyped
<1>18. ASSUME NEW c \in Contents, TakeFrame(c) PROVE RefInv'
  <2> SUFFICES ASSUME NEW u \in Slots PROVE RefOK(u)' BY DEF RefInv
  <2>1. RefOK(u) BY DEF RefInv
  <2>2. /\ Cardinality(Serving(u)) \in Nat /\ Cardinality(Moving(u)) \in Nat
        /\ Cardinality(Posted("ENTER", u, m_msgQueue)) \in Nat
    BY CardOf
  <2>4. Moving(u)' = Moving(u) BY <1>18 DEF TakeFrame, Moving
  <2>3. Serving(u)' = Serving(u) BY <1>18, ServingKept DEF TakeFrame
  <2> QED BY <1>18, <2>1, <2>2, <2>3, <2>4 DEF TakeFrame, RefOK, slotVars, contentVars, TypeInv,
             SlotsTyped
<1>19. ASSUME NEW c \in Contents, RecvReturns(c) PROVE RefInv'
  <2> SUFFICES ASSUME NEW u \in Slots PROVE RefOK(u)' BY DEF RefInv
  <2>1. RefOK(u) BY DEF RefInv
  <2>2. /\ Cardinality(Serving(u)) \in Nat /\ Cardinality(Moving(u)) \in Nat
        /\ Cardinality(Posted("ENTER", u, m_msgQueue)) \in Nat
    BY CardOf
  <2>4. Moving(u)' = Moving(u) BY <1>19 DEF RecvReturns, Moving
  <2>3. Serving(u)' = Serving(u) BY <1>19, ServingKept DEF RecvReturns
  <2> QED BY <1>19, <2>1, <2>2, <2>3, <2>4 DEF RecvReturns, RefOK, slotVars, contentVars, TypeInv,
             SlotsTyped
<1>20. ASSUME NEW c \in Contents, LeaveSession(c) PROVE RefInv'
  <2> SUFFICES ASSUME NEW u \in Slots PROVE RefOK(u)' BY DEF RefInv
  <2>1. RefOK(u) BY DEF RefInv
  <2>2. /\ Cardinality(Serving(u)) \in Nat /\ Cardinality(Moving(u)) \in Nat
        /\ Cardinality(Posted("ENTER", u, m_msgQueue)) \in Nat
    BY CardOf
  <2> DEFINE s0 == thread[c].handle[1]
  <2>5. s0 \in Slots /\ refs[s0] > 0 /\ conn[s0] > 0 /\ life[s0] = "open" /\ Dropped(s0, m_msgQueue)
    BY <1>20, ServerConn DEF LeaveSession, Threads
  <2>3. Cardinality(Serving(u)') = Cardinality(Serving(u)) - (IF u = s0 THEN 1 ELSE 0)
    <3>1. thread' = [thread EXCEPT ![c] = [at |-> "loop", handle |-> NoHandle]] /\ Serves(c)
      BY <1>20 DEF LeaveSession, Serves
    <3>2. c \in Serving(u) <=> u = s0 BY <3>1 DEF Serving
    <3> DEFINE x == [at |-> "loop", handle |-> NoHandle]
    <3>3. thread' = [thread EXCEPT ![c] = x] /\ x.at \notin {"entering", "check", "take", "receiving"}
      BY <3>1 DEF Idle
    <3> HIDE DEF x, s0
    <3>4. Cardinality(Serving(u)') =
            Cardinality(Serving(u)) - (IF c \in Serving(u) THEN 1 ELSE 0)
              + (IF x.at \in {"entering", "check", "take", "receiving"} /\ x.handle[1] = u THEN 1 ELSE 0)
      BY <3>3, ServingChanged
    <3> QED BY <2>2, <3>2, <3>3, <3>4
  <2>4. Moving(u)' = Moving(u) BY <1>20 DEF LeaveSession, Moving
  <2>8. connected' = connected BY <1>20 DEF LeaveSession
  <2> HIDE DEF s0
  <2>6. /\ refs'[u] = (IF u = s0 THEN refs[u] - 1 ELSE refs[u])
        /\ life'[u] = (IF u = s0 /\ refs[u] = 1 THEN "released" ELSE life[u])
        /\ Cardinality(Posted("ENTER", u, m_msgQueue')) = Cardinality(Posted("ENTER", u, m_msgQueue))
    BY <2>5, DroppedCounts
  <2>7. refs[s0] \in Int /\ refs[u] \in Int BY <2>5 DEF TypeInv, SlotsTyped
  <2> QED BY <2>1, <2>2, <2>3, <2>4, <2>5, <2>6, <2>7, <2>8 DEF RefOK
<1> QED BY <1>1, <1>2, <1>3, <1>4, <1>5, <1>6, <1>7, <1>8, <1>9, <1>10, <1>11, <1>12, <1>13,
           <1>14, <1>15, <1>16, <1>17, <1>18, <1>19, <1>20 DEF Next, Worker, Update, Threads


-----------------------------------------------------------------------------
\* The steps, as the invariants of the messages see them.

TakeKept == \A c \in Contents : thread'[c].at = "take" => thread'[c] = thread[c]

SameMessages ==
  /\ UNCHANGED <<m_msgQueue, sessions, m_sessionCount, inside>>
  /\ UNCHANGED <<moving, disturbed, conn, m_content>>

\* A step that these invariants do not see, but for the label "take".
QuietStep ==
  /\ SameMessages /\ UNCHANGED <<life, IsMoving, leaving>>
  /\ TakeKept \/ \E c \in Contents : CheckMoving(c)

ConnectOf(s) ==
  /\ life[s] = "free" /\ life' = [life EXCEPT ![s] = "open"]
  /\ conn' = [conn EXCEPT ![s] = conn[s] + 1]
  /\ m_content' = [m_content EXCEPT ![s] = NoContent]
  /\ IsMoving' = [IsMoving EXCEPT ![s] = FALSE]
  /\ UNCHANGED <<m_msgQueue, sessions, m_sessionCount, inside>>
  /\ UNCHANGED <<moving, disturbed, leaving>> /\ TakeKept

LeftStep(s) ==
  /\ leaving[s] /\ life[s] = "released" /\ m_content[s] = NoContent
  /\ leaving' = [leaving EXCEPT ![s] = FALSE] /\ life' = [life EXCEPT ![s] = "free"]
  /\ SameMessages /\ UNCHANGED IsMoving /\ TakeKept

\* The last reference goes, of a session of the workers or of a content.
EndedStep(s) ==
  /\ life[s] = "open" /\ m_content[s] = NoContent
  /\ life' = [life EXCEPT ![s] = "released"] /\ leaving' = [leaving EXCEPT ![s] = TRUE]
  /\ IsMoving' = [IsMoving EXCEPT ![s] = FALSE]
  /\ SameMessages /\ TakeKept

PostedStep(s) ==
  /\ life[s] = "open" /\ conn[s] > 0 /\ m_content[s] \in Contents /\ m_content[s] # NoContent
  /\ \A t \in Threads : moving[t].step # "none" => moving[t].handle # Current(s)
  /\ life' = [life EXCEPT ![s] = "released"]
  /\ m_msgQueue' = [m_msgQueue EXCEPT ![m_content[s]] =
                      Append(m_msgQueue[m_content[s]], Msg("RELEASE", Current(s)))]
  /\ UNCHANGED <<sessions, m_sessionCount, inside, moving, disturbed, conn, m_content>>
  /\ UNCHANGED <<leaving, IsMoving>> /\ TakeKept

LEMMA DropIs ==
  ASSUME ContentAssumption, IInv, NEW s \in Slots, Dropped(s, m_msgQueue),
         connected[s] \/ Serving(s) # {},
         UNCHANGED <<conn, m_content, sessions, m_sessionCount, moving, inside, disturbed>>, TakeKept
  PROVE  QuietStep \/ EndedStep(s) \/ PostedStep(s)
<1> USE DEF IInv
<1>1. /\ Cardinality(Serving(s)) \in Nat /\ Cardinality(Moving(s)) \in Nat
      /\ Cardinality(Posted("ENTER", s, m_msgQueue)) \in Nat /\ IsFiniteSet(Serving(s))
      /\ IsFiniteSet(Moving(s))
  BY CardOf
<1>2. connected[s] \/ Cardinality(Serving(s)) > 0 BY <1>1, FS_EmptySet
<1>3. RefOK(s) /\ refs[s] \in Int BY DEF RefInv, TypeInv, SlotsTyped
<1>4. refs[s] > 0 /\ life[s] = "open" /\ conn[s] > 0
  BY <1>1, <1>2, <1>3 DEF RefOK, LifeInv, LifeOK
<1>5. CASE refs[s] > 1
  <2>1. UNCHANGED <<life, leaving, IsMoving, m_msgQueue>> BY <1>5, DroppedIs
  <2> QED BY <2>1 DEF QuietStep, SameMessages
<1>6. CASE ~(refs[s] > 1)
  <2>1. Cardinality(Moving(s)) = 0 BY <1>1, <1>2, <1>3, <1>6 DEF RefOK
  <2>2. Moving(s) = {} BY <1>1, <2>1, FS_EmptySet
  <2>3. \A t \in Threads : moving[t].step # "none" => moving[t].handle # Current(s)
    BY <2>2 DEF Moving, Current
  <2>4. CASE m_content[s] = NoContent
    <3>1. /\ life' = [life EXCEPT ![s] = "released"] /\ leaving' = [leaving EXCEPT ![s] = TRUE]
          /\ IsMoving' = [IsMoving EXCEPT ![s] = FALSE] /\ UNCHANGED m_msgQueue
      BY <1>6, <2>4, DroppedIs
    <3> QED BY <1>4, <2>4, <3>1 DEF EndedStep, SameMessages
  <2>5. CASE m_content[s] # NoContent
    <3>1. /\ m_content[s] \in Contents /\ life' = [life EXCEPT ![s] = "released"]
          /\ m_msgQueue' = [m_msgQueue EXCEPT ![m_content[s]] =
                              Append(m_msgQueue[m_content[s]], Msg("RELEASE", Current(s)))]
          /\ UNCHANGED <<leaving, IsMoving>>
      BY <1>6, <2>5, DroppedIs
    <3> QED BY <1>4, <2>3, <2>5, <3>1 DEF PostedStep
  <2> QED BY <2>4, <2>5
<1> QED BY <1>5, <1>6

\* One of the steps above, or a move, or a message served.
StepIs ==
  \/ QuietStep
  \/ \E s \in Slots : ConnectOf(s) \/ LeftStep(s) \/ EndedStep(s) \/ PostedStep(s)
  \/ \E t \in Threads, h \in Handles : MoveLeaveOf(t, h)
  \/ \E t \in Threads, h \in Handles, to \in Contents \cup {NoContent} :
       MoveContentOf(t, h, to) \/ MoveEnterOf(t, h, to)
  \/ \E c \in Contents, h \in Handles :
       HandleEnterOf(c, h) \/ HandleLeaveOf(c, h) \/ HandleReleaseOf(c, h)

LEMMA StepSplit ==
  ASSUME ContentAssumption, IInv, [Next]_vars
  PROVE  StepIs
<1> USE DEF IInv
<1>1. CASE UNCHANGED vars
  BY <1>1 DEF StepIs, QuietStep, SameMessages, TakeKept, vars, slotVars, contentVars
<1>2. ASSUME NEW s \in Slots, Connect(s) PROVE StepIs
  <2>1. TakeKept BY <1>2 DEF Connect, TakeKept, TypeInv, ThreadsTyped, Threads, ContentAssumption
  <2>2. ConnectOf(s) BY <1>2, <2>1 DEF Connect, ConnectOf, contentVars
  <2> QED BY <2>2 DEF StepIs
<1>3. ASSUME NEW s \in Slots, ReceiveFrame(s) PROVE StepIs
  <2>1. thread' = thread \/ thread' = [thread EXCEPT ![s] = [at |-> "callback", handle |-> Current(s)]]
    BY <1>3 DEF ReceiveFrame
  <2>2. TakeKept BY <2>1 DEF TakeKept, TypeInv, ThreadsTyped, Threads
  <2> QED BY <1>3, <2>2 DEF ReceiveFrame, StepIs, QuietStep, SameMessages, contentVars
<1>4. ASSUME NEW s \in Slots, PeerCloses(s) PROVE StepIs
  <2> DEFINE s0 == s
  <2>1. TakeKept BY <1>4 DEF PeerCloses, TakeKept, Idle, TypeInv, ThreadsTyped, Threads
  <2>2. s0 \in Slots /\ Dropped(s0, m_msgQueue) /\ (connected[s0] \/ Serving(s0) # {})
    BY <1>4 DEF PeerCloses
  <2>3. UNCHANGED <<conn, m_content, sessions, m_sessionCount, moving, inside, disturbed>>
    BY <1>4 DEF PeerCloses
  <2> HIDE DEF s0
  <2>4. QuietStep \/ EndedStep(s0) \/ PostedStep(s0) BY <2>1, <2>2, <2>3, DropIs
  <2> QED BY <2>2, <2>4 DEF StepIs
<1>5. ASSUME NEW s \in Slots, WorkerReturns(s) PROVE StepIs
  <2>1. TakeKept
    BY <1>5 DEF WorkerReturns, TakeKept, Idle, TypeInv, ThreadsTyped, Threads
  <2> QED BY <1>5, <2>1 DEF WorkerReturns, StepIs, QuietStep, SameMessages, slotVars, contentVars
<1>6. ASSUME NEW s \in Slots, ClientLeave(s) PROVE StepIs
  <2>1. TakeKept BY <1>6 DEF ClientLeave, TakeKept
  <2>2. life[s] = "released" BY <1>6, LeavingIs DEF ClientLeave
  <2>3. m_content[s] = NoContent BY <1>6 DEF ClientLeave, LifeInv, LifeOK
  <2>4. LeftStep(s) BY <1>6, <2>1, <2>2, <2>3 DEF ClientLeave, LeftStep, SameMessages, contentVars
  <2> QED BY <2>4 DEF StepIs
<1>7. ASSUME NEW t \in Threads, MoveContent(t) PROVE StepIs
  BY <1>7, MoveContentIs DEF StepIs
<1>8. ASSUME NEW t \in Threads, MoveLeave(t) PROVE StepIs
  BY <1>8, MoveLeaveIs DEF StepIs
<1>9. ASSUME NEW t \in Threads, MoveEnter(t) PROVE StepIs
  BY <1>9, MoveEnterIs DEF StepIs
<1>10. ASSUME NEW c \in Contents, HandleEnter(c) PROVE StepIs
  BY <1>10, HandleEnterIs DEF StepIs
<1>11. ASSUME NEW c \in Contents, EnterReturns(c) PROVE StepIs
  <2> DEFINE s0 == thread[c].handle[1]
  <2>1. TakeKept BY <1>11 DEF EnterReturns, TakeKept, Idle, TypeInv, ThreadsTyped, Threads
  <2>2. s0 \in Slots /\ Dropped(s0, m_msgQueue) /\ (connected[s0] \/ Serving(s0) # {})
    <3>1. thread[c].handle[1] \in Slots BY <1>11, ServerIs DEF EnterReturns, Threads
    <3>2. c \in Serving(s0) BY <1>11 DEF EnterReturns, Serving, Serves
    <3> QED BY <1>11, <3>1, <3>2 DEF EnterReturns
  <2>3. UNCHANGED <<conn, m_content, sessions, m_sessionCount, moving, inside, disturbed>>
    BY <1>11 DEF EnterReturns
  <2> HIDE DEF s0
  <2>4. QuietStep \/ EndedStep(s0) \/ PostedStep(s0) BY <2>1, <2>2, <2>3, DropIs
  <2> QED BY <2>2, <2>4 DEF StepIs
<1>12. ASSUME NEW c \in Contents, HandleLeave(c) PROVE StepIs
  BY <1>12, HandleLeaveIs DEF StepIs
<1>13. ASSUME NEW c \in Contents, HandleRelease(c) PROVE StepIs
  BY <1>13, HandleReleaseIs DEF StepIs
<1>14. ASSUME NEW c \in Contents, StartLoop(c) PROVE StepIs
  <2>1. TakeKept
    BY <1>14 DEF StartLoop, TakeKept, Idle, TypeInv, ThreadsTyped, Threads
  <2> QED BY <1>14, <2>1 DEF StartLoop, StepIs, QuietStep, SameMessages, slotVars, contentVars
<1>15. ASSUME NEW c \in Contents, FindNext(c) PROVE StepIs
  <2>1. PICK h \in Handles : FindNextOf(c, h) BY <1>15, FindNextIs
  <2>2. TakeKept BY <2>1 DEF FindNextOf, TakeKept, TypeInv, ThreadsTyped, Threads
  <2> QED BY <2>1, <2>2 DEF FindNextOf, StepIs, QuietStep, SameMessages
<1>16. ASSUME NEW c \in Contents, EndLoop(c) PROVE StepIs
  <2>1. TakeKept
    BY <1>16 DEF EndLoop, TakeKept, Idle, TypeInv, ThreadsTyped, Threads
  <2> QED BY <1>16, <2>1 DEF EndLoop, StepIs, QuietStep, SameMessages, slotVars, contentVars
<1>17. ASSUME NEW c \in Contents, CheckMoving(c) PROVE StepIs
  BY <1>17 DEF CheckMoving, StepIs, QuietStep, SameMessages, slotVars, contentVars
<1>18. ASSUME NEW c \in Contents, TakeFrame(c) PROVE StepIs
  <2>1. TakeKept
    BY <1>18 DEF TakeFrame, TakeKept, Idle, TypeInv, ThreadsTyped, Threads
  <2> QED BY <1>18, <2>1 DEF TakeFrame, StepIs, QuietStep, SameMessages, slotVars, contentVars
<1>19. ASSUME NEW c \in Contents, RecvReturns(c) PROVE StepIs
  <2>1. TakeKept
    BY <1>19 DEF RecvReturns, TakeKept, Idle, TypeInv, ThreadsTyped, Threads
  <2> QED BY <1>19, <2>1 DEF RecvReturns, StepIs, QuietStep, SameMessages, slotVars, contentVars
<1>20. ASSUME NEW c \in Contents, LeaveSession(c) PROVE StepIs
  <2> DEFINE s0 == thread[c].handle[1]
  <2>1. TakeKept BY <1>20 DEF LeaveSession, TakeKept, Idle, TypeInv, ThreadsTyped, Threads
  <2>2. s0 \in Slots /\ Dropped(s0, m_msgQueue) /\ (connected[s0] \/ Serving(s0) # {})
    <3>1. thread[c].handle[1] \in Slots BY <1>20, ServerIs DEF LeaveSession, Threads
    <3>2. c \in Serving(s0) BY <1>20 DEF LeaveSession, Serving, Serves
    <3> QED BY <1>20, <3>1, <3>2 DEF LeaveSession
  <2>3. UNCHANGED <<conn, m_content, sessions, m_sessionCount, moving, inside, disturbed>>
    BY <1>20 DEF LeaveSession
  <2> HIDE DEF s0
  <2>4. QuietStep \/ EndedStep(s0) \/ PostedStep(s0) BY <2>1, <2>2, <2>3, DropIs
  <2> QED BY <2>2, <2>4 DEF StepIs
<1> QED BY <1>1, <1>2, <1>3, <1>4, <1>5, <1>6, <1>7, <1>8, <1>9, <1>10, <1>11, <1>12, <1>13,
           <1>14, <1>15, <1>16, <1>17, <1>18, <1>19, <1>20 DEF Next, Worker, Update, Threads
-----------------------------------------------------------------------------
\* Messages, and who gives the slot back.

LEMMA MessageIs ==
  ASSUME TypeInv, MessageInv, NEW c \in Contents, NEW i \in 1..Len(m_msgQueue[c])
  PROVE  /\ MessageOK(c, m_msgQueue[c][i]) /\ m_msgQueue[c][i] \in MessageSet
         /\ m_msgQueue[c][i].type \in {"ENTER", "LEAVE", "RELEASE"}
         /\ m_msgQueue[c][i].session \in Slots /\ m_msgQueue[c][i].sent \in Handles
         /\ m_msgQueue[c][i].session = m_msgQueue[c][i].sent[1]
BY QueueIs DEF MessageInv

MessageThen(c, msg) ==
  /\ msg.sent[2] <= conn'[msg.session]
  /\ msg.type # "LEAVE" => msg.sent = <<msg.session, conn'[msg.session]>>
  /\ msg.type = "RELEASE" => m_content'[msg.session] = c

\* A message stays true as long as its slot keeps its connection and content.
LEMMA MessageKept ==
  ASSUME ContentAssumption, TypeInv, NEW c \in Contents, NEW msg \in MessageSet, MessageOK(c, msg),
         conn'[msg.session] = conn[msg.session],
         msg.type = "RELEASE" => m_content'[msg.session] = m_content[msg.session]
  PROVE  MessageThen(c, msg)
BY DEF MessageOK, MessageThen, Current

LEMMA MessageStep ==
  ASSUME ContentAssumption, IInv, StepIs
  PROVE  MessageInv'
<1> USE DEF IInv
<1> DEFINE AllKept == \A c \in Contents : \A i \in 1..Len(m_msgQueue[c]) : MessageThen(c, m_msgQueue[c][i])
<1>0. \A c \in Contents : /\ m_msgQueue[c] \in Seq(MessageSet) /\ Len(m_msgQueue[c]) \in Nat
                          /\ DOMAIN m_msgQueue[c] = 1..Len(m_msgQueue[c])
  BY QueueIs
<1>1. ASSUME UNCHANGED m_msgQueue, AllKept PROVE MessageInv'
  BY <1>0, <1>1 DEF MessageInv, MessageOK, MessageThen, Current
<1>2. ASSUME NEW c \in Contents, m_msgQueue[c] # <<>>,
             m_msgQueue' = [m_msgQueue EXCEPT ![c] = Tail(m_msgQueue[c])],
             \A d \in Contents : \A i \in 1..Len(m_msgQueue[d]) :
               ~(d = c /\ i = 1) => MessageThen(d, m_msgQueue[d][i])
      PROVE  MessageInv'
  <2>1. /\ Len(m_msgQueue[c]) \in Nat \ {0} /\ DOMAIN m_msgQueue'[c] = 1..(Len(m_msgQueue[c]) - 1)
        /\ \A i \in 1..(Len(m_msgQueue[c]) - 1) : m_msgQueue'[c][i] = m_msgQueue[c][i + 1]
        /\ \A d \in Contents : d # c => m_msgQueue'[d] = m_msgQueue[d]
    BY <1>2, QueueTaken
  <2> SUFFICES ASSUME NEW d \in Contents, NEW i \in DOMAIN m_msgQueue'[d]
               PROVE  MessageThen(d, m_msgQueue'[d][i])
    BY DEF MessageInv, MessageThen, MessageOK, Current
  <2>2. CASE d # c BY <1>0, <1>2, <2>1, <2>2
  <2>3. CASE d = c
    <3>1. i \in 1..(Len(m_msgQueue[c]) - 1) BY <2>1, <2>3
    <3>2. i + 1 \in 1..Len(m_msgQueue[c]) /\ i + 1 # 1 BY <3>1, <2>1
    <3>3. MessageThen(c, m_msgQueue[c][i + 1]) BY <3>2, <1>2
    <3>4. m_msgQueue'[c][i] = m_msgQueue[c][i + 1] BY <3>1, <2>1
    <3> QED BY <2>3, <3>3, <3>4
  <2> QED BY <2>2, <2>3
<1>3. ASSUME NEW c \in Contents, NEW m \in MessageSet, MessageThen(c, m), AllKept,
             m_msgQueue' = [m_msgQueue EXCEPT ![c] = Append(m_msgQueue[c], m)]
      PROVE  MessageInv'
  <2>1. /\ Len(m_msgQueue[c]) \in Nat /\ DOMAIN m_msgQueue'[c] = 1..(Len(m_msgQueue[c]) + 1)
        /\ m_msgQueue'[c][Len(m_msgQueue[c]) + 1] = m
        /\ \A i \in 1..Len(m_msgQueue[c]) : m_msgQueue'[c][i] = m_msgQueue[c][i]
        /\ \A d \in Contents : d # c => m_msgQueue'[d] = m_msgQueue[d]
    BY <1>3, QueueAppended
  <2> SUFFICES ASSUME NEW d \in Contents, NEW i \in DOMAIN m_msgQueue'[d]
               PROVE  MessageThen(d, m_msgQueue'[d][i])
    BY DEF MessageInv, MessageThen, MessageOK, Current
  <2>2. CASE d # c BY <1>0, <1>3, <2>1, <2>2
  <2>3. CASE d = c
    <3>1. i \in 1..Len(m_msgQueue[c]) \/ i = Len(m_msgQueue[c]) + 1 BY <2>1, <2>3
    <3> QED BY <1>3, <2>1, <2>3, <3>1
  <2> QED BY <2>2, <2>3
<1>4. ASSUME UNCHANGED <<conn, m_content>> PROVE AllKept
  BY <1>4, MessageIs, MessageKept
<1>5. CASE QuietStep
  <2>1. UNCHANGED <<conn, m_content, m_msgQueue>> BY <1>5 DEF QuietStep, SameMessages
  <2> QED BY <2>1, <1>1, <1>4
<1>6. ASSUME NEW s \in Slots, ConnectOf(s) PROVE MessageInv'
  <2>1. /\ UNCHANGED m_msgQueue /\ life[s] = "free" /\ conn[s] \in Nat
        /\ conn' = [conn EXCEPT ![s] = conn[s] + 1]
        /\ m_content' = [m_content EXCEPT ![s] = NoContent]
    BY <1>6 DEF ConnectOf, TypeInv, SlotsTyped
  <2>2. ASSUME NEW c \in Contents, NEW i \in 1..Len(m_msgQueue[c]) PROVE MessageThen(c, m_msgQueue[c][i])
    <3> DEFINE msg == m_msgQueue[c][i]
    <3>1. MessageOK(c, msg) /\ msg \in MessageSet /\ msg.session \in Slots
          /\ msg.type \in {"ENTER", "LEAVE", "RELEASE"} /\ msg.sent \in Handles
      BY MessageIs
    <3>2. i \in DOMAIN m_msgQueue[c] BY <1>0
    <3>3. msg.type = "ENTER" => life[msg.session] = "open" BY <3>2, EnterIs
    <3>4. msg.type = "RELEASE" => life[msg.session] = "released" BY <3>2, ReleaseIs
    <3> HIDE DEF msg
    <3>5. CASE msg.session # s
      <4>1. conn'[msg.session] = conn[msg.session] /\ m_content'[msg.session] = m_content[msg.session]
        BY <2>1, <3>1, <3>5 DEF TypeInv, SlotsTyped
      <4>2. MessageThen(c, msg) BY <3>1, <4>1, MessageKept
      <4> QED BY <4>2 DEF msg
    <3>6. CASE msg.session = s
      <4>1. msg.type = "LEAVE" BY <2>1, <3>1, <3>3, <3>4, <3>6
      <4>2. conn'[s] = conn[s] + 1 BY <2>1 DEF TypeInv, SlotsTyped
      <4>3. msg.sent[2] <= conn[s] /\ msg.sent[2] \in Int BY <3>1, <3>6, HandleIs DEF MessageOK
      <4>4. msg.sent[2] <= conn'[s] BY <2>1, <4>2, <4>3
      <4>5. MessageThen(c, msg) BY <3>6, <4>1, <4>4 DEF MessageThen
      <4> QED BY <4>5 DEF msg
    <3> QED BY <3>5, <3>6
  <2> QED BY <2>1, <2>2, <1>1
<1>7. ASSUME NEW s \in Slots, LeftStep(s) \/ EndedStep(s) PROVE MessageInv'
  <2>1. UNCHANGED <<conn, m_content, m_msgQueue>> BY <1>7 DEF LeftStep, EndedStep, SameMessages
  <2> QED BY <2>1, <1>1, <1>4
<1>8. ASSUME NEW s \in Slots, PostedStep(s) PROVE MessageInv'
  <2> DEFINE m == Msg("RELEASE", Current(s))
             c == m_content[s]
  <2>1. UNCHANGED <<conn, m_content>> /\ c \in Contents /\ conn[s] > 0
        /\ m_msgQueue' = [m_msgQueue EXCEPT ![c] = Append(m_msgQueue[c], m)]
    BY <1>8 DEF PostedStep
  <2>2. /\ m \in MessageSet /\ m.type = "RELEASE" /\ m.sent = Current(s) /\ m.session = s
        /\ Current(s)[2] = conn[s] /\ conn[s] \in Int
    BY <2>1, CurrentIs, MsgIs DEF TypeInv, SlotsTyped
  <2> HIDE DEF m
  <2>3. MessageThen(c, m) BY <2>1, <2>2 DEF MessageThen, Current
  <2>4. AllKept BY <2>1, <1>4
  <2> HIDE DEF c
  <2> QED BY <2>1, <2>2, <2>3, <2>4, <1>3
<1>9. ASSUME NEW t \in Threads, NEW h \in Handles, MoveLeaveOf(t, h) PROVE MessageInv'
  <2>1. UNCHANGED <<conn, m_content>> BY <1>9 DEF MoveLeaveOf
  <2>2. CASE UNCHANGED m_msgQueue BY <2>1, <2>2, <1>1, <1>4
  <2>3. CASE t \in Contents /\ m_msgQueue' = [m_msgQueue EXCEPT ![t] = Append(m_msgQueue[t], Msg("LEAVE", h))]
    <3> DEFINE m == Msg("LEAVE", h)
    <3>1. m_msgQueue' = [m_msgQueue EXCEPT ![t] = Append(m_msgQueue[t], m)] BY <2>3
    <3>2. m \in MessageSet /\ m.type = "LEAVE" /\ m.sent = h /\ m.session = h[1] BY MsgIs
    <3> HIDE DEF m
    <3>3. h[2] = conn[h[1]] /\ conn[h[1]] \in Int
      BY <1>9 DEF MoveLeaveOf, Current, TypeInv, SlotsTyped
    <3>4. MessageThen(t, m) BY <2>1, <3>2, <3>3 DEF MessageThen
    <3> QED BY <2>1, <2>3, <3>1, <3>2, <3>4, <1>3, <1>4
  <2> QED BY <1>9, <2>2, <2>3 DEF MoveLeaveOf
<1>10. ASSUME NEW t \in Threads, NEW h \in Handles, NEW to \in Contents \cup {NoContent},
              MoveContentOf(t, h, to)
       PROVE  MessageInv'
  <2>1. UNCHANGED <<conn, m_content, m_msgQueue>> BY <1>10 DEF MoveContentOf
  <2> QED BY <2>1, <1>1, <1>4
<1>11. ASSUME NEW t \in Threads, NEW h \in Handles, NEW to \in Contents \cup {NoContent},
              MoveEnterOf(t, h, to)
       PROVE  MessageInv'
  <2>1. UNCHANGED conn /\ life[h[1]] = "open" /\ h[1] \in Slots /\ h = Current(h[1])
        /\ m_content' = [m_content EXCEPT ![h[1]] = to]
    BY <1>11 DEF MoveEnterOf
  <2>2. ASSUME NEW c \in Contents, NEW i \in 1..Len(m_msgQueue[c]) PROVE MessageThen(c, m_msgQueue[c][i])
    <3> DEFINE msg == m_msgQueue[c][i]
    <3>1. MessageOK(c, msg) /\ msg \in MessageSet /\ msg.session \in Slots BY MessageIs
    <3>2. i \in DOMAIN m_msgQueue[c] BY <1>0
    <3>3. msg.type = "RELEASE" => life[msg.session] = "released" BY <3>2, ReleaseIs
    <3> HIDE DEF msg
    <3>4. msg.type = "RELEASE" => m_content'[msg.session] = m_content[msg.session]
      BY <2>1, <3>1, <3>3 DEF TypeInv, SlotsTyped
    <3>5. MessageThen(c, msg) BY <2>1, <3>1, <3>4, MessageKept
    <3> QED BY <3>5 DEF msg
  <2>3. CASE UNCHANGED m_msgQueue BY <2>2, <2>3, <1>1
  <2>4. CASE /\ to \in Contents
             /\ m_msgQueue' = [m_msgQueue EXCEPT ![to] = Append(m_msgQueue[to], Msg("ENTER", h))]
    <3> DEFINE m == Msg("ENTER", h)
    <3>1. m_msgQueue' = [m_msgQueue EXCEPT ![to] = Append(m_msgQueue[to], m)] BY <2>4
    <3>2. m \in MessageSet /\ m.type = "ENTER" /\ m.sent = h /\ m.session = h[1] BY MsgIs
    <3> HIDE DEF m
    <3>3. h[2] = conn[h[1]] /\ conn[h[1]] \in Int BY <2>1 DEF Current, TypeInv, SlotsTyped
    <3>4. MessageThen(to, m) BY <2>1, <3>2, <3>3 DEF MessageThen, Current
    <3> QED BY <2>2, <2>4, <3>1, <3>2, <3>4, <1>3
  <2> QED BY <1>11, <2>3, <2>4 DEF MoveEnterOf
<1>12. ASSUME NEW c \in Contents, NEW h \in Handles, HandleEnterOf(c, h) \/ HandleLeaveOf(c, h)
       PROVE  MessageInv'
  <2>1. /\ UNCHANGED <<conn, m_content>> /\ m_msgQueue[c] # <<>>
        /\ m_msgQueue' = [m_msgQueue EXCEPT ![c] = Tail(m_msgQueue[c])]
    BY <1>12 DEF HandleEnterOf, HandleLeaveOf
  <2> QED BY <2>1, <1>2, <1>4
<1>13. ASSUME NEW c \in Contents, NEW h \in Handles, HandleReleaseOf(c, h) PROVE MessageInv'
  <2>1. /\ UNCHANGED conn /\ m_msgQueue[c] # <<>> /\ 1 \in DOMAIN m_msgQueue[c]
        /\ m_msgQueue[c][1].type = "RELEASE" /\ m_msgQueue[c][1].session = h[1] /\ h[1] \in Slots
        /\ m_msgQueue' = [m_msgQueue EXCEPT ![c] = Tail(m_msgQueue[c])]
        /\ m_content' = [m_content EXCEPT ![h[1]] = NoContent]
    BY <1>13 DEF HandleReleaseOf
  <2>2. \A d \in Contents : \A k \in DOMAIN m_msgQueue[d] :
          m_msgQueue[d][k].type = "RELEASE" /\ m_msgQueue[d][k].session = h[1] => d = c /\ k = 1
    BY <2>1, ReleaseIs
  <2>3. ASSUME NEW d \in Contents, NEW i \in 1..Len(m_msgQueue[d]), ~(d = c /\ i = 1)
        PROVE  MessageThen(d, m_msgQueue[d][i])
    <3> DEFINE msg == m_msgQueue[d][i]
    <3>1. MessageOK(d, msg) /\ msg \in MessageSet /\ msg.session \in Slots BY MessageIs
    <3>2. i \in DOMAIN m_msgQueue[d] BY <1>0
    <3>3. msg.type = "RELEASE" => msg.session # h[1] BY <2>2, <2>3, <3>2
    <3> HIDE DEF msg
    <3>4. msg.type = "RELEASE" => m_content'[msg.session] = m_content[msg.session]
      BY <2>1, <3>1, <3>3 DEF TypeInv, SlotsTyped
    <3>5. MessageThen(d, msg) BY <2>1, <3>1, <3>4, MessageKept
    <3> QED BY <3>5 DEF msg
  <2> QED BY <2>1, <2>3, <1>2
<1> QED BY <1>5, <1>6, <1>7, <1>8, <1>9, <1>10, <1>11, <1>12, <1>13 DEF StepIs

LEMMA LifeStep ==
  ASSUME ContentAssumption, IInv, StepIs
  PROVE  LifeInv'
<1> USE DEF IInv
<1> SUFFICES ASSUME NEW u \in Slots PROVE LifeOK(u)' BY DEF LifeInv
<1>1. LifeOK(u) /\ conn[u] \in Nat /\ (leaving[u] => life[u] = "released")
  BY LeavingIs DEF LifeInv, TypeInv, SlotsTyped
<1>2. CASE QuietStep BY <1>1, <1>2 DEF QuietStep, SameMessages, LifeOK
<1>3. ASSUME NEW s \in Slots, ConnectOf(s) PROVE LifeOK(u)'
  BY <1>1, <1>3 DEF ConnectOf, LifeOK, TypeInv, SlotsTyped
<1>4. ASSUME NEW s \in Slots, LeftStep(s) PROVE LifeOK(u)'
  BY <1>1, <1>4 DEF LeftStep, SameMessages, LifeOK, TypeInv, SlotsTyped
<1>5. ASSUME NEW s \in Slots, EndedStep(s) PROVE LifeOK(u)'
  BY <1>1, <1>5 DEF EndedStep, SameMessages, LifeOK, TypeInv, SlotsTyped
<1>6. ASSUME NEW s \in Slots, PostedStep(s) PROVE LifeOK(u)'
  BY <1>1, <1>6 DEF PostedStep, LifeOK, TypeInv, SlotsTyped
<1>7. ASSUME NEW t \in Threads, NEW h \in Handles, MoveLeaveOf(t, h) PROVE LifeOK(u)'
  BY <1>1, <1>7 DEF MoveLeaveOf, LifeOK
<1>8. ASSUME NEW t \in Threads, NEW h \in Handles, NEW to \in Contents \cup {NoContent},
             MoveContentOf(t, h, to)
      PROVE  LifeOK(u)'
  BY <1>1, <1>8 DEF MoveContentOf, LifeOK
<1>9. ASSUME NEW t \in Threads, NEW h \in Handles, NEW to \in Contents \cup {NoContent},
             MoveEnterOf(t, h, to)
      PROVE  LifeOK(u)'
  BY <1>1, <1>9 DEF MoveEnterOf, LifeOK, TypeInv, SlotsTyped
<1>10. ASSUME NEW c \in Contents, NEW h \in Handles, HandleEnterOf(c, h) PROVE LifeOK(u)'
  BY <1>1, <1>10 DEF HandleEnterOf, LifeOK
<1>11. ASSUME NEW c \in Contents, NEW h \in Handles, HandleLeaveOf(c, h) PROVE LifeOK(u)'
  BY <1>1, <1>11 DEF HandleLeaveOf, LifeOK
<1>12. ASSUME NEW c \in Contents, NEW h \in Handles, HandleReleaseOf(c, h) PROVE LifeOK(u)'
  BY <1>1, <1>12 DEF HandleReleaseOf, LifeOK, TypeInv, SlotsTyped
<1> QED BY <1>2, <1>3, <1>4, <1>5, <1>6, <1>7, <1>8, <1>9, <1>10, <1>11, <1>12 DEF StepIs

LEMMA ReleasedStep ==
  ASSUME ContentAssumption, IInv, StepIs
  PROVE  ReleasedOnce'
<1> USE DEF IInv
<1> DEFINE count(u) == Cardinality(Posted("RELEASE", u, m_msgQueue))
           countAfter(u) == Cardinality(Posted("RELEASE", u, m_msgQueue'))
<1> SUFFICES ASSUME NEW u \in Slots
             PROVE  countAfter(u) + (IF leaving'[u] THEN 1 ELSE 0) = (IF life'[u] = "released" THEN 1 ELSE 0)
  BY DEF ReleasedOnce
<1>1. /\ count(u) + (IF leaving[u] THEN 1 ELSE 0) = (IF life[u] = "released" THEN 1 ELSE 0)
      /\ count(u) \in Nat
  BY CardOf DEF ReleasedOnce
<1>2. /\ leaving \in [Slots -> BOOLEAN] /\ life \in [Slots -> {"free", "open", "released"}]
  BY DEF TypeInv, SlotsTyped
<1>3. UNCHANGED m_msgQueue => countAfter(u) = count(u) OBVIOUS
<1>4. ASSUME NEW c \in Contents, NEW m \in MessageSet,
             m_msgQueue' = [m_msgQueue EXCEPT ![c] = Append(m_msgQueue[c], m)]
      PROVE  countAfter(u) = count(u) + (IF m.type = "RELEASE" /\ m.session = u THEN 1 ELSE 0)
  BY <1>4, PostedAppended
<1>5. ASSUME NEW c \in Contents, m_msgQueue[c] # <<>>,
             m_msgQueue' = [m_msgQueue EXCEPT ![c] = Tail(m_msgQueue[c])]
      PROVE  countAfter(u) = count(u)
               - (IF m_msgQueue[c][1].type = "RELEASE" /\ m_msgQueue[c][1].session = u THEN 1 ELSE 0)
  BY <1>5, PostedTaken
<1> HIDE DEF count, countAfter
<1>6. CASE QuietStep
  BY <1>1, <1>3, <1>6 DEF QuietStep, SameMessages
<1>7. ASSUME NEW s \in Slots, ConnectOf(s)
      PROVE  countAfter(u) + (IF leaving'[u] THEN 1 ELSE 0) = (IF life'[u] = "released" THEN 1 ELSE 0)
  BY <1>1, <1>2, <1>3, <1>7 DEF ConnectOf
<1>8. ASSUME NEW s \in Slots, LeftStep(s)
      PROVE  countAfter(u) + (IF leaving'[u] THEN 1 ELSE 0) = (IF life'[u] = "released" THEN 1 ELSE 0)
  BY <1>1, <1>2, <1>3, <1>8 DEF LeftStep, SameMessages
<1>9. ASSUME NEW s \in Slots, EndedStep(s)
      PROVE  countAfter(u) + (IF leaving'[u] THEN 1 ELSE 0) = (IF life'[u] = "released" THEN 1 ELSE 0)
  <2>1. /\ UNCHANGED m_msgQueue /\ life[s] = "open"
        /\ life' = [life EXCEPT ![s] = "released"] /\ leaving' = [leaving EXCEPT ![s] = TRUE]
    BY <1>9 DEF EndedStep, SameMessages
  <2>2. CASE u = s
    <3>1. leaving'[u] /\ life'[u] = "released" /\ life[u] = "open" BY <1>2, <2>1, <2>2
    <3> QED BY <1>1, <1>3, <2>1, <3>1
  <2>3. CASE u # s
    <3>1. (leaving'[u] <=> leaving[u]) /\ life'[u] = life[u] BY <1>2, <2>1, <2>3
    <3> QED BY <1>1, <1>3, <2>1, <3>1
  <2> QED BY <2>2, <2>3
<1>10. ASSUME NEW s \in Slots, PostedStep(s)
      PROVE  countAfter(u) + (IF leaving'[u] THEN 1 ELSE 0) = (IF life'[u] = "released" THEN 1 ELSE 0)
  <2> DEFINE m == Msg("RELEASE", Current(s))
             c == m_content[s]
  <2>1. /\ c \in Contents /\ conn[s] > 0 /\ life[s] = "open" /\ UNCHANGED leaving
        /\ m_msgQueue' = [m_msgQueue EXCEPT ![c] = Append(m_msgQueue[c], m)]
        /\ life' = [life EXCEPT ![s] = "released"]
    BY <1>10 DEF PostedStep
  <2>2. m \in MessageSet /\ m.type = "RELEASE" /\ m.session = s BY <2>1, CurrentIs, MsgIs
  <2> HIDE DEF m, c
  <2>3. countAfter(u) = count(u) + (IF m.type = "RELEASE" /\ m.session = u THEN 1 ELSE 0)
    BY <2>1, <2>2, <1>4
  <2>4. CASE u = s
    <3>1. life'[u] = "released" /\ life[u] = "open" BY <1>2, <2>1, <2>4
    <3> QED BY <1>1, <2>1, <2>2, <2>3, <2>4, <3>1
  <2>5. CASE u # s
    <3>1. life'[u] = life[u] BY <1>2, <2>1, <2>5
    <3> QED BY <1>1, <2>1, <2>2, <2>3, <2>5, <3>1
  <2> QED BY <2>4, <2>5
<1>11. ASSUME NEW t \in Threads, NEW h \in Handles, MoveLeaveOf(t, h)
       PROVE  countAfter(u) + (IF leaving'[u] THEN 1 ELSE 0) = (IF life'[u] = "released" THEN 1 ELSE 0)
  <2>1. UNCHANGED <<life, leaving>> BY <1>11 DEF MoveLeaveOf
  <2>2. CASE UNCHANGED m_msgQueue BY <1>1, <1>3, <2>1, <2>2
  <2>3. CASE t \in Contents /\ m_msgQueue' = [m_msgQueue EXCEPT ![t] = Append(m_msgQueue[t], Msg("LEAVE", h))]
    <3> DEFINE m == Msg("LEAVE", h)
    <3>1. m_msgQueue' = [m_msgQueue EXCEPT ![t] = Append(m_msgQueue[t], m)] BY <2>3
    <3>2. m \in MessageSet /\ m.type = "LEAVE" BY MsgIs
    <3> HIDE DEF m
    <3>3. countAfter(u) = count(u) + (IF m.type = "RELEASE" /\ m.session = u THEN 1 ELSE 0)
      BY <2>3, <3>1, <3>2, <1>4
    <3> QED BY <1>1, <2>1, <3>2, <3>3
  <2> QED BY <1>11, <2>2, <2>3 DEF MoveLeaveOf
<1>12. ASSUME NEW t \in Threads, NEW h \in Handles, NEW to \in Contents \cup {NoContent},
              MoveContentOf(t, h, to)
       PROVE  countAfter(u) + (IF leaving'[u] THEN 1 ELSE 0) = (IF life'[u] = "released" THEN 1 ELSE 0)
  BY <1>1, <1>3, <1>12 DEF MoveContentOf
<1>13. ASSUME NEW t \in Threads, NEW h \in Handles, NEW to \in Contents \cup {NoContent},
              MoveEnterOf(t, h, to)
       PROVE  countAfter(u) + (IF leaving'[u] THEN 1 ELSE 0) = (IF life'[u] = "released" THEN 1 ELSE 0)
  <2>1. UNCHANGED <<life, leaving>> BY <1>13 DEF MoveEnterOf
  <2>2. CASE UNCHANGED m_msgQueue BY <1>1, <1>3, <2>1, <2>2
  <2>3. CASE to \in Contents /\ m_msgQueue' = [m_msgQueue EXCEPT ![to] = Append(m_msgQueue[to], Msg("ENTER", h))]
    <3> DEFINE m == Msg("ENTER", h)
    <3>1. m_msgQueue' = [m_msgQueue EXCEPT ![to] = Append(m_msgQueue[to], m)] BY <2>3
    <3>2. m \in MessageSet /\ m.type = "ENTER" BY MsgIs
    <3> HIDE DEF m
    <3>3. countAfter(u) = count(u) + (IF m.type = "RELEASE" /\ m.session = u THEN 1 ELSE 0)
      BY <2>3, <3>1, <3>2, <1>4
    <3> QED BY <1>1, <2>1, <3>2, <3>3
  <2> QED BY <1>13, <2>2, <2>3 DEF MoveEnterOf
<1>14. ASSUME NEW c \in Contents, NEW h \in Handles, HandleEnterOf(c, h) \/ HandleLeaveOf(c, h)
       PROVE  countAfter(u) + (IF leaving'[u] THEN 1 ELSE 0) = (IF life'[u] = "released" THEN 1 ELSE 0)
  <2>1. /\ UNCHANGED <<life, leaving>> /\ m_msgQueue[c] # <<>> /\ m_msgQueue[c][1].type # "RELEASE"
        /\ m_msgQueue' = [m_msgQueue EXCEPT ![c] = Tail(m_msgQueue[c])]
    BY <1>14 DEF HandleEnterOf, HandleLeaveOf
  <2>2. countAfter(u) = count(u)
          - (IF m_msgQueue[c][1].type = "RELEASE" /\ m_msgQueue[c][1].session = u THEN 1 ELSE 0)
    BY <2>1, <1>5
  <2> QED BY <1>1, <2>1, <2>2
<1>15. ASSUME NEW c \in Contents, NEW h \in Handles, HandleReleaseOf(c, h)
       PROVE  countAfter(u) + (IF leaving'[u] THEN 1 ELSE 0) = (IF life'[u] = "released" THEN 1 ELSE 0)
  <2>1. /\ UNCHANGED leaving /\ ~leaving[h[1]] /\ h[1] \in Slots /\ life[h[1]] = "released"
        /\ life' = [life EXCEPT ![h[1]] = "free"]
        /\ m_msgQueue[c] # <<>> /\ m_msgQueue[c][1].type = "RELEASE" /\ m_msgQueue[c][1].session = h[1]
        /\ m_msgQueue' = [m_msgQueue EXCEPT ![c] = Tail(m_msgQueue[c])]
    BY <1>15 DEF HandleReleaseOf
  <2>2. countAfter(u) = count(u)
          - (IF m_msgQueue[c][1].type = "RELEASE" /\ m_msgQueue[c][1].session = u THEN 1 ELSE 0)
    BY <2>1, <1>5
  <2>3. CASE u = h[1]
    <3>1. life'[u] = "free" BY <1>2, <2>1, <2>3
    <3> QED BY <1>1, <2>1, <2>2, <2>3, <3>1
  <2>4. CASE u # h[1]
    <3>1. life'[u] = life[u] BY <1>2, <2>1, <2>4
    <3> QED BY <1>1, <2>1, <2>2, <2>4, <3>1
  <2> QED BY <2>3, <2>4
<1> QED BY <1>6, <1>7, <1>8, <1>9, <1>10, <1>11, <1>12, <1>13, <1>14, <1>15 DEF StepIs

-----------------------------------------------------------------------------
\* Who is in a map after which messages.

LEMMA HasZero ==
  ASSUME NEW q, NEW S, NEW h
  PROVE  HasAfter(q, S, h, 0) <=> h \in S
BY DEF HasAfter

LEMMA HasNext ==
  ASSUME NEW q, NEW S, NEW h, NEW n \in Nat
  PROVE  HasAfter(q, S, h, n + 1) <=>
           TakesIn(q, n + 1, h) \/ (HasAfter(q, S, h, n) /\ ~TakesOut(q, n + 1, h))
<1>1. \A i : i \in 1..(n + 1) <=> i \in 1..n \/ i = n + 1 OBVIOUS
<1>2. ASSUME HasAfter(q, S, h, n + 1), ~TakesIn(q, n + 1, h)
      PROVE  HasAfter(q, S, h, n) /\ ~TakesOut(q, n + 1, h)
  <2>1. CASE h \in S /\ \A i \in 1..(n + 1) : ~TakesOut(q, i, h)
    BY <2>1, <1>1 DEF HasAfter
  <2>2. CASE \E i \in 1..(n + 1) : TakesIn(q, i, h) /\ \A k \in (i + 1)..(n + 1) : ~TakesOut(q, k, h)
    <3>1. PICK i \in 1..(n + 1) : TakesIn(q, i, h) /\ \A k \in (i + 1)..(n + 1) : ~TakesOut(q, k, h)
      BY <2>2
    <3>2. i \in 1..n BY <1>1, <1>2, <3>1
    <3>3. n + 1 \in (i + 1)..(n + 1) /\ \A k \in (i + 1)..n : k \in (i + 1)..(n + 1) BY <3>2
    <3> QED BY <3>1, <3>2, <3>3 DEF HasAfter
  <2> QED BY <1>2, <2>1, <2>2 DEF HasAfter
<1>3. ASSUME TakesIn(q, n + 1, h) PROVE HasAfter(q, S, h, n + 1)
  <2>1. \A k \in ((n + 1) + 1)..(n + 1) : ~TakesOut(q, k, h) OBVIOUS
  <2>2. n + 1 \in 1..(n + 1) OBVIOUS
  <2> QED BY <1>3, <2>1, <2>2 DEF HasAfter
<1>4. ASSUME HasAfter(q, S, h, n), ~TakesOut(q, n + 1, h) PROVE HasAfter(q, S, h, n + 1)
  <2>1. CASE h \in S /\ \A i \in 1..n : ~TakesOut(q, i, h)
    BY <2>1, <1>1, <1>4 DEF HasAfter
  <2>2. CASE \E i \in 1..n : TakesIn(q, i, h) /\ \A k \in (i + 1)..n : ~TakesOut(q, k, h)
    <3>1. PICK i \in 1..n : TakesIn(q, i, h) /\ \A k \in (i + 1)..n : ~TakesOut(q, k, h)
      BY <2>2
    <3>2. \A k \in (i + 1)..(n + 1) : k \in (i + 1)..n \/ k = n + 1 BY <3>1
    <3>3. i \in 1..(n + 1) BY <1>1
    <3> QED BY <1>4, <3>1, <3>2, <3>3 DEF HasAfter
  <2> QED BY <1>4, <2>1, <2>2 DEF HasAfter
<1> QED BY <1>2, <1>3, <1>4

\* The queues p and q are alike up to n.
LEMMA HasSame ==
  ASSUME NEW p, NEW q, NEW S, NEW h, NEW n \in Nat, \A i \in 1..n : p[i] = q[i]
  PROVE  HasAfter(p, S, h, n) <=> HasAfter(q, S, h, n)
<1>1. \A i \in 1..n : \A k \in (i + 1)..n : k \in 1..n OBVIOUS
<1>2. \A i \in 1..n : /\ TakesOut(p, i, h) <=> TakesOut(q, i, h)
                      /\ TakesIn(p, i, h) <=> TakesIn(q, i, h)
  BY DEF TakesIn, TakesOut
<1> QED BY <1>1, <1>2 DEF HasAfter

LEMMA MapAppended ==
  ASSUME NEW q \in Seq(MessageSet), NEW m \in MessageSet, NEW S, NEW h,
         Alternates(q, S, h),
         m.sent = h => (m.type = "ENTER" <=> ~HasAfter(q, S, h, Len(q)))
  PROVE  LET p == Append(q, m)
         IN /\ Alternates(p, S, h)
            /\ HasAfter(p, S, h, Len(p)) <=>
                 (IF m.sent = h THEN m.type = "ENTER" ELSE HasAfter(q, S, h, Len(q)))
<1> DEFINE p == Append(q, m)
           n == Len(q)
<1>1. /\ n \in Nat /\ Len(p) = n + 1 /\ \A i \in 1..n : p[i] = q[i]
      /\ p[n + 1] = m
  BY AppendIs
<1> HIDE DEF p, n
<1>2. ASSUME NEW k \in 0..n PROVE HasAfter(p, S, h, k) <=> HasAfter(q, S, h, k)
  <2>1. k \in Nat /\ \A i \in 1..k : p[i] = q[i] BY <1>1, <1>2
  <2> QED BY <2>1, HasSame
<1>3. /\ TakesIn(p, n + 1, h) <=> m.type = "ENTER" /\ m.sent = h
      /\ TakesOut(p, n + 1, h) <=> m.type # "ENTER" /\ m.sent = h
  BY <1>1 DEF TakesIn, TakesOut
<1>4. HasAfter(p, S, h, n) <=> HasAfter(q, S, h, n) BY <1>1, <1>2
<1>5. HasAfter(p, S, h, n + 1) <=>
        TakesIn(p, n + 1, h) \/ (HasAfter(p, S, h, n) /\ ~TakesOut(p, n + 1, h))
  BY <1>1, HasNext
<1>6. HasAfter(p, S, h, Len(p)) <=> (IF m.sent = h THEN m.type = "ENTER" ELSE HasAfter(q, S, h, n))
  BY <1>1, <1>3, <1>4, <1>5
<1>7. ASSUME NEW i \in 1..Len(p)
      PROVE  /\ TakesIn(p, i, h) => ~HasAfter(p, S, h, i - 1)
             /\ TakesOut(p, i, h) => HasAfter(p, S, h, i - 1)
  <2>1. CASE i \in 1..n
    <3>1. /\ TakesOut(p, i, h) <=> TakesOut(q, i, h)
          /\ TakesIn(p, i, h) <=> TakesIn(q, i, h)
      BY <1>1, <2>1 DEF TakesIn, TakesOut
    <3>2. i - 1 \in 0..n BY <1>1, <2>1
    <3>3. HasAfter(p, S, h, i - 1) <=> HasAfter(q, S, h, i - 1) BY <1>2, <3>2
    <3> QED BY <2>1, <3>1, <3>3 DEF Alternates, n
  <2>2. CASE i = n + 1
    <3>1. i - 1 = n BY <1>1, <2>2
    <3> QED BY <2>2, <3>1, <1>3, <1>4 DEF n
  <2> QED BY <1>1, <2>1, <2>2
<1>8. Alternates(p, S, h) BY <1>7 DEF Alternates
<1> QED BY <1>6, <1>8 DEF p, n

LEMMA MapTaken ==
  ASSUME NEW q \in Seq(MessageSet), q # <<>>, NEW S, NEW R, NEW h,
         Alternates(q, S, h), h \in R <=> HasAfter(q, S, h, 1)
  PROVE  /\ Alternates(Tail(q), R, h)
         /\ HasAfter(Tail(q), R, h, Len(Tail(q))) <=> HasAfter(q, S, h, Len(q))
<1> DEFINE p == Tail(q)
           n == Len(q) - 1
<1>1. /\ n \in Nat /\ Len(q) = n + 1 /\ Len(p) = n /\ \A i \in 1..n : p[i] = q[i + 1]
  BY TailIs
<1> HIDE DEF p, n
<1>2. ASSUME NEW i \in 1..n
      PROVE  /\ TakesOut(p, i, h) <=> TakesOut(q, i + 1, h)
             /\ TakesIn(p, i, h) <=> TakesIn(q, i + 1, h)
  BY <1>1 DEF TakesIn, TakesOut
<1>3. ASSUME NEW k \in 0..n PROVE HasAfter(p, R, h, k) <=> HasAfter(q, S, h, k + 1)
  <2>1. /\ 1 \in 1..(k + 1) /\ \A i \in 1..k : i \in 1..n
        /\ \A i \in 2..(k + 1) : i - 1 \in 1..k /\ (i - 1) + 1 = i
        /\ \A i \in 1..k : i + 1 \in 1..(k + 1) /\ i + 1 \in 2..(k + 1)
        /\ \A i \in 1..(k + 1) : i = 1 \/ i \in 2..(k + 1)
    BY <1>1
  <2>2. HasAfter(q, S, h, 1) <=> TakesIn(q, 1, h) \/ (h \in S /\ ~TakesOut(q, 1, h))
    <3>1. HasAfter(q, S, h, 0 + 1) <=> TakesIn(q, 0 + 1, h) \/ (HasAfter(q, S, h, 0) /\ ~TakesOut(q, 0 + 1, h))
      BY HasNext
    <3>2. 0 + 1 = 1 OBVIOUS
    <3> QED BY <3>1, <3>2, HasZero
  <2>3. ASSUME HasAfter(p, R, h, k) PROVE HasAfter(q, S, h, k + 1)
    <3>1. CASE h \in R /\ \A i \in 1..k : ~TakesOut(p, i, h)
      <4>1. \A i \in 2..(k + 1) : ~TakesOut(q, i, h)
        <5> TAKE i \in 2..(k + 1)
        <5>1. i - 1 \in 1..k /\ i - 1 \in 1..n /\ (i - 1) + 1 = i BY <2>1
        <5> QED BY <3>1, <5>1, <1>2
      <4>2. CASE TakesIn(q, 1, h)
        <5>1. \A i \in (1 + 1)..(k + 1) : ~TakesOut(q, i, h) BY <4>1
        <5> QED BY <2>1, <4>2, <5>1 DEF HasAfter
      <4>3. CASE h \in S /\ ~TakesOut(q, 1, h)
        BY <2>1, <4>1, <4>3 DEF HasAfter
      <4> QED BY <2>2, <3>1, <4>2, <4>3
    <3>2. CASE \E i \in 1..k : TakesIn(p, i, h) /\ \A j \in (i + 1)..k : ~TakesOut(p, j, h)
      <4>1. PICK i \in 1..k : TakesIn(p, i, h) /\ \A j \in (i + 1)..k : ~TakesOut(p, j, h)
        BY <3>2
      <4>2. TakesIn(q, i + 1, h) BY <4>1, <2>1, <1>2
      <4>3. \A j \in ((i + 1) + 1)..(k + 1) : ~TakesOut(q, j, h)
        <5> TAKE j \in ((i + 1) + 1)..(k + 1)
        <5>1. j - 1 \in (i + 1)..k /\ j - 1 \in 1..n /\ (j - 1) + 1 = j BY <1>1, <4>1
        <5>2. ~TakesOut(p, j - 1, h) BY <4>1, <5>1
        <5> QED BY <5>1, <5>2, <1>2
      <4> QED BY <2>1, <4>2, <4>3 DEF HasAfter
    <3> QED BY <2>3, <3>1, <3>2 DEF HasAfter
  <2>4. ASSUME HasAfter(q, S, h, k + 1) PROVE HasAfter(p, R, h, k)
    <3>1. CASE h \in S /\ \A i \in 1..(k + 1) : ~TakesOut(q, i, h)
      <4>1. h \in R BY <2>1, <2>2, <3>1
      <4>2. \A i \in 1..k : ~TakesOut(p, i, h) BY <2>1, <3>1, <1>2
      <4> QED BY <4>1, <4>2 DEF HasAfter
    <3>2. CASE \E i \in 1..(k + 1) : TakesIn(q, i, h) /\ \A j \in (i + 1)..(k + 1) : ~TakesOut(q, j, h)
      <4>1. PICK i \in 1..(k + 1) : TakesIn(q, i, h) /\ \A j \in (i + 1)..(k + 1) : ~TakesOut(q, j, h)
        BY <3>2
      <4>2. CASE i = 1
        <5>1. h \in R BY <2>2, <4>1, <4>2
        <5>2. \A j \in 1..k : ~TakesOut(p, j, h)
          <6> TAKE j \in 1..k
          <6>1. j + 1 \in (i + 1)..(k + 1) /\ j \in 1..n BY <2>1, <4>2
          <6> QED BY <4>1, <6>1, <1>2
        <5> QED BY <5>1, <5>2 DEF HasAfter
      <4>3. CASE i # 1
        <5>1. i - 1 \in 1..k /\ i - 1 \in 1..n /\ (i - 1) + 1 = i BY <2>1, <4>1, <4>3
        <5>2. TakesIn(p, i - 1, h) BY <4>1, <5>1, <1>2
        <5>3. \A j \in ((i - 1) + 1)..k : ~TakesOut(p, j, h)
          <6> TAKE j \in ((i - 1) + 1)..k
          <6>1. j + 1 \in (i + 1)..(k + 1) /\ j \in 1..n BY <1>1, <4>1, <4>3
          <6> QED BY <4>1, <6>1, <1>2
        <5> QED BY <5>1, <5>2, <5>3 DEF HasAfter
      <4> QED BY <4>2, <4>3
    <3> QED BY <2>4, <3>1, <3>2 DEF HasAfter
  <2> QED BY <2>3, <2>4
<1>4. HasAfter(p, R, h, n) <=> HasAfter(q, S, h, n + 1) BY <1>1, <1>3
<1>5. ASSUME NEW i \in 1..n
      PROVE  /\ TakesIn(p, i, h) => ~HasAfter(p, R, h, i - 1)
             /\ TakesOut(p, i, h) => HasAfter(p, R, h, i - 1)
  <2>1. i - 1 \in 0..n /\ (i - 1) + 1 = i /\ i + 1 \in 1..Len(q) /\ (i + 1) - 1 = i BY <1>1
  <2>2. HasAfter(p, R, h, i - 1) <=> HasAfter(q, S, h, i) BY <1>3, <2>1
  <2>3. /\ TakesIn(q, i + 1, h) => ~HasAfter(q, S, h, (i + 1) - 1)
        /\ TakesOut(q, i + 1, h) => HasAfter(q, S, h, (i + 1) - 1)
    BY <2>1 DEF Alternates
  <2> QED BY <2>1, <2>2, <2>3, <1>2
<1>6. Alternates(p, R, h) BY <1>1, <1>5 DEF Alternates
<1> QED BY <1>1, <1>4, <1>6 DEF p

\* What the first message says of the map.
LEMMA MapHead ==
  ASSUME NEW q \in Seq(MessageSet), q # <<>>, NEW S, NEW h, Alternates(q, S, h)
  PROVE  /\ HasAfter(q, S, h, 1) <=>
              (IF q[1].sent = h THEN q[1].type = "ENTER" ELSE h \in S)
         /\ q[1].sent = h => (h \in S <=> q[1].type # "ENTER")
<1>1. HasAfter(q, S, h, 0 + 1) <=> TakesIn(q, 0 + 1, h) \/ (HasAfter(q, S, h, 0) /\ ~TakesOut(q, 0 + 1, h))
  BY HasNext
<1>2. 0 + 1 = 1 /\ 1 - 1 = 0 OBVIOUS
<1>3. HasAfter(q, S, h, 0) <=> h \in S BY HasZero
<1>4. 1 \in 1..Len(q) BY TailIs
<1>5. /\ TakesIn(q, 1, h) => ~HasAfter(q, S, h, 0)
      /\ TakesOut(q, 1, h) => HasAfter(q, S, h, 0)
  <2>1. /\ TakesIn(q, 1, h) => ~HasAfter(q, S, h, 1 - 1)
        /\ TakesOut(q, 1, h) => HasAfter(q, S, h, 1 - 1)
    BY <1>4 DEF Alternates
  <2> QED BY <2>1, <1>2
<1>6. HasAfter(q, S, h, 1) <=> TakesIn(q, 1, h) \/ (HasAfter(q, S, h, 0) /\ ~TakesOut(q, 1, h))
  BY <1>1, <1>2
<1> QED BY <1>3, <1>5, <1>6 DEF TakesIn, TakesOut

\* A handle in the map stays in it if no message takes it out.
LEMMA MapStays ==
  ASSUME NEW q, NEW S, NEW h \in S, \A i \in 1..Len(q) : ~TakesOut(q, i, h)
  PROVE  HasAfter(q, S, h, Len(q))
BY DEF HasAfter

-----------------------------------------------------------------------------
\* The maps agree with where the sessions are.

LEMMA MapKept ==
  ASSUME NEW d \in Contents, NEW g \in Handles, MapOK(d, g),
         m_msgQueue'[d] = m_msgQueue[d], sessions'[d] = sessions[d],
         Stays(d, g)' <=> Stays(d, g)
  PROVE  MapOK(d, g)'
BY DEF MapOK

LEMMA MapPosted ==
  ASSUME ContentAssumption, TypeInv, MapInv, NEW c \in Contents, NEW m \in MessageSet,
         m_msgQueue' = [m_msgQueue EXCEPT ![c] = Append(m_msgQueue[c], m)], UNCHANGED sessions,
         NEW d \in Contents, NEW g \in Handles,
         IF d = c /\ m.sent = g
           THEN (m.type = "ENTER" <=> ~Stays(d, g)) /\ (Stays(d, g)' <=> m.type = "ENTER")
           ELSE Stays(d, g)' <=> Stays(d, g)
  PROVE  MapOK(d, g)'
<1>1. MapOK(d, g) BY DEF MapInv
<1>2. CASE d # c
  <2>1. m_msgQueue'[d] = m_msgQueue[d] BY <1>2 DEF TypeInv, ContentsTyped
  <2> QED BY <1>1, <1>2, <2>1, MapKept
<1>3. CASE d = c
  <2> DEFINE q == m_msgQueue[c]
             S == sessions[c]
             p == Append(q, m)
  <2>1. q \in Seq(MessageSet) /\ m_msgQueue'[d] = p /\ sessions'[d] = S
    BY <1>3, QueueIs DEF TypeInv, ContentsTyped
  <2>2. Alternates(q, S, g) /\ (HasAfter(q, S, g, Len(q)) <=> Stays(d, g))
    BY <1>1, <1>3 DEF MapOK
  <2>3. m.sent = g => (m.type = "ENTER" <=> ~HasAfter(q, S, g, Len(q)))
    BY <1>3, <2>2
  <2> HIDE DEF q, S
  <2>4. /\ Alternates(p, S, g)
        /\ HasAfter(p, S, g, Len(p)) <=>
             (IF m.sent = g THEN m.type = "ENTER" ELSE HasAfter(q, S, g, Len(q)))
    BY <2>1, <2>2, <2>3, MapAppended
  <2> HIDE DEF p
  <2>5. HasAfter(p, S, g, Len(p)) <=> Stays(d, g)' BY <1>3, <2>2, <2>4
  <2> QED BY <2>1, <2>4, <2>5 DEF MapOK
<1> QED BY <1>2, <1>3

LEMMA MapServed ==
  ASSUME ContentAssumption, TypeInv, MapInv, NEW c \in Contents, m_msgQueue[c] # <<>>,
         m_msgQueue' = [m_msgQueue EXCEPT ![c] = Tail(m_msgQueue[c])],
         NEW R, sessions' = [sessions EXCEPT ![c] = R],
         NEW d \in Contents, NEW g \in Handles, Stays(d, g)' <=> Stays(d, g),
         g \in R <=> (IF m_msgQueue[c][1].sent = g THEN m_msgQueue[c][1].type = "ENTER"
                      ELSE g \in sessions[c])
  PROVE  MapOK(d, g)'
<1>1. MapOK(d, g) BY DEF MapInv
<1>2. CASE d # c
  <2>1. m_msgQueue'[d] = m_msgQueue[d] /\ sessions'[d] = sessions[d]
    BY <1>2 DEF TypeInv, ContentsTyped
  <2> QED BY <1>1, <1>2, <2>1, MapKept
<1>3. CASE d = c
  <2> DEFINE q == m_msgQueue[c]
             S == sessions[c]
  <2>1. q \in Seq(MessageSet) /\ q # <<>> /\ m_msgQueue'[d] = Tail(q) /\ sessions'[d] = R
    BY <1>3, QueueIs DEF TypeInv, ContentsTyped
  <2>2. Alternates(q, S, g) /\ (HasAfter(q, S, g, Len(q)) <=> Stays(d, g))
    BY <1>1, <1>3 DEF MapOK
  <2>3. g \in R <=> (IF q[1].sent = g THEN q[1].type = "ENTER" ELSE g \in S) OBVIOUS
  <2> HIDE DEF q, S
  <2>4. HasAfter(q, S, g, 1) <=> (IF q[1].sent = g THEN q[1].type = "ENTER" ELSE g \in S)
    BY <2>1, <2>2, MapHead
  <2>5. g \in R <=> HasAfter(q, S, g, 1) BY <2>3, <2>4
  <2>6. /\ Alternates(Tail(q), R, g)
        /\ HasAfter(Tail(q), R, g, Len(Tail(q))) <=> HasAfter(q, S, g, Len(q))
    BY <2>1, <2>2, <2>5, MapTaken
  <2> QED BY <2>1, <2>2, <2>6 DEF MapOK
<1> QED BY <1>2, <1>3

LEMMA StaysKept ==
  ASSUME UNCHANGED <<conn, m_content, life>>, NEW d \in Contents, NEW g \in Handles,
         \A t \in Threads : (moving'[t].step = "enter" /\ moving'[t].handle = g
                               <=> moving[t].step = "enter" /\ moving[t].handle = g)
  PROVE  Stays(d, g)' <=> Stays(d, g)
BY DEF Stays, Current

LEMMA MapStep ==
  ASSUME ContentAssumption, IInv, StepIs, ~disturbed'
  PROVE  MapInv'
<1> USE DEF IInv
<1> SUFFICES ASSUME ~disturbed => MapInv, NEW d \in Contents, NEW g \in Handles PROVE MapOK(d, g)'
  BY DEF MapInv, Undisturbed
<1>0. g[1] \in Slots /\ conn[g[1]] \in Nat BY HandleIs DEF TypeInv, SlotsTyped
<1>1. CASE QuietStep
  <2>1. /\ UNCHANGED <<m_msgQueue, sessions, disturbed>> /\ UNCHANGED <<conn, m_content, life, moving>>
    BY <1>1 DEF QuietStep, SameMessages
  <2>2. Stays(d, g)' <=> Stays(d, g) BY <2>1, StaysKept
  <2> QED BY <2>1, <2>2, MapKept DEF MapInv
<1>2. ASSUME NEW s \in Slots, ConnectOf(s) \/ LeftStep(s) \/ EndedStep(s) PROVE MapOK(d, g)'
  <2>1. /\ UNCHANGED <<m_msgQueue, sessions, disturbed, moving>>
        /\ life \in [Slots -> {"free", "open", "released"}] /\ life' \in [Slots -> {"free", "open", "released"}]
        /\ \A u \in Slots \ {s} : /\ conn'[u] = conn[u] /\ m_content'[u] = m_content[u] /\ life'[u] = life[u]
        /\ (life[s] # "open" \/ m_content[s] = NoContent)
        /\ (life'[s] # "open" \/ m_content'[s] = NoContent)
    BY <1>2 DEF ConnectOf, LeftStep, EndedStep, SameMessages, TypeInv, SlotsTyped
  <2>2. Stays(d, g)' <=> Stays(d, g)
    <3>1. CASE g[1] = s
      <4>1. ~Stays(d, g) BY <2>1, <3>1 DEF Stays, ContentAssumption
      <4>2. ~Stays(d, g)' BY <2>1, <3>1 DEF Stays, ContentAssumption
      <4> QED BY <4>1, <4>2
    <3>2. CASE g[1] # s
      BY <1>0, <2>1, <3>2 DEF Stays, Current
    <3> QED BY <3>1, <3>2
  <2> QED BY <2>1, <2>2, MapKept DEF MapInv
<1>3. ASSUME NEW s \in Slots, PostedStep(s) PROVE MapOK(d, g)'
  <2> DEFINE m == Msg("RELEASE", Current(s))
             c == m_content[s]
  <2>1. /\ c \in Contents /\ conn[s] > 0 /\ life[s] = "open" /\ UNCHANGED <<sessions, disturbed>>
        /\ UNCHANGED <<conn, m_content, moving>> /\ life' = [life EXCEPT ![s] = "released"]
        /\ m_msgQueue' = [m_msgQueue EXCEPT ![c] = Append(m_msgQueue[c], m)]
        /\ \A t \in Threads : moving[t].step # "none" => moving[t].handle # Current(s)
    BY <1>3 DEF PostedStep
  <2>2. m \in MessageSet /\ m.type = "RELEASE" /\ m.sent = Current(s) BY <2>1, CurrentIs, MsgIs
  <2>3. Current(s)[1] = s BY CurrentIs
  <2>4. life'[s] = "released" /\ \A u \in Slots : u # s => life'[u] = life[u]
    BY <2>1 DEF TypeInv, SlotsTyped
  <2> HIDE DEF m
  <2>5. g[1] = s => ~Stays(d, g)' BY <2>4 DEF Stays
  <2>6. g[1] # s => (Stays(d, g)' <=> Stays(d, g)) BY <1>0, <2>1, <2>4 DEF Stays, Current
  <2>7. g[1] = s /\ ~(d = c /\ g = Current(s)) => ~Stays(d, g) BY DEF Stays
  <2>8. Stays(c, Current(s)) BY <2>1, <2>3 DEF Stays
  <2>9. IF d = c /\ m.sent = g
          THEN (m.type = "ENTER" <=> ~Stays(d, g)) /\ (Stays(d, g)' <=> m.type = "ENTER")
          ELSE Stays(d, g)' <=> Stays(d, g)
    BY <2>2, <2>3, <2>5, <2>6, <2>7, <2>8
  <2>10. MapInv BY <2>1
  <2> HIDE DEF c
  <2> QED BY <2>1, <2>2, <2>9, <2>10, MapPosted
<1>4. ASSUME NEW t \in Threads, NEW h \in Handles, NEW to \in Contents \cup {NoContent},
             MoveContentOf(t, h, to)
      PROVE  MapOK(d, g)'
  <2>1. /\ UNCHANGED <<m_msgQueue, sessions, disturbed>> /\ UNCHANGED <<conn, m_content, life>>
        /\ moving[t].step = "none"
        /\ moving' = [moving EXCEPT ![t] = [step |-> "leave", to |-> to, handle |-> h]]
    BY <1>4 DEF MoveContentOf
  <2>2. \A u \in Threads : (moving'[u].step = "enter" /\ moving'[u].handle = g
                               <=> moving[u].step = "enter" /\ moving[u].handle = g)
    BY <2>1 DEF TypeInv, ThreadsTyped
  <2>3. Stays(d, g)' <=> Stays(d, g) BY <2>1, <2>2, StaysKept
  <2> QED BY <2>1, <2>3, MapKept DEF MapInv
<1>5. ASSUME NEW t \in Threads, NEW h \in Handles, MoveLeaveOf(t, h) PROVE MapOK(d, g)'
  <2>1. /\ UNCHANGED sessions /\ UNCHANGED <<conn, m_content, life>>
        /\ moving[t].step = "leave" /\ moving[t].handle = h /\ m_content[h[1]] = Own(t)
        /\ h = Current(h[1]) /\ life[h[1]] = "open" /\ h[1] \in Slots
        /\ moving'[t].step = "enter" /\ moving'[t].handle = h
        /\ \A u \in Threads : u # t => moving'[u] = moving[u]
    BY <1>5 DEF MoveLeaveOf, TypeInv, ThreadsTyped
  <2>2. g = h => ~Stays(d, g)' BY <2>1 DEF Stays
  <2>3. g # h => (Stays(d, g)' <=> Stays(d, g))
    <3>1. g # h => \A u \in Threads : (moving'[u].step = "enter" /\ moving'[u].handle = g
                                         <=> moving[u].step = "enter" /\ moving[u].handle = g)
      BY <2>1
    <3> QED BY <2>1, <3>1, StaysKept
  <2>4. d # Own(t) => ~Stays(d, h) BY <2>1 DEF Stays
  <2>5. CASE /\ t \in Contents /\ Own(t) = t /\ UNCHANGED disturbed
             /\ m_msgQueue' = [m_msgQueue EXCEPT ![t] = Append(m_msgQueue[t], Msg("LEAVE", h))]
    <3> DEFINE m == Msg("LEAVE", h)
    <3>1. m_msgQueue' = [m_msgQueue EXCEPT ![t] = Append(m_msgQueue[t], m)] /\ MapInv BY <2>5
    <3>2. m \in MessageSet /\ m.type = "LEAVE" /\ m.sent = h BY MsgIs
    <3> HIDE DEF m
    <3>3. Stays(t, h)
      <4>1. ASSUME NEW u \in Threads, moving[u].step = "enter", moving[u].handle = h PROVE FALSE
        <5>1. u = t BY <2>1, <4>1, OneMover
        <5> QED BY <2>1, <4>1, <5>1
      <4> QED BY <2>1, <2>5, <4>1 DEF Stays
    <3>4. IF d = t /\ m.sent = g
            THEN (m.type = "ENTER" <=> ~Stays(d, g)) /\ (Stays(d, g)' <=> m.type = "ENTER")
            ELSE Stays(d, g)' <=> Stays(d, g)
      BY <2>2, <2>3, <2>4, <2>5, <3>2, <3>3
    <3> QED BY <2>1, <2>5, <3>1, <3>2, <3>4, MapPosted, ZenonT(60)
  <2>6. CASE Own(t) = NoContent /\ UNCHANGED m_msgQueue /\ (disturbed => disturbed')
    <3>1. d # Own(t) BY <2>6 DEF ContentAssumption
    <3>2. Stays(d, g)' <=> Stays(d, g) BY <2>2, <2>3, <2>4, <3>1
    <3> QED BY <2>1, <2>6, <3>2, MapKept DEF MapInv
  <2> QED BY <1>5, <2>5, <2>6 DEF MoveLeaveOf
<1>6. ASSUME NEW t \in Threads, NEW h \in Handles, NEW to \in Contents \cup {NoContent},
             MoveEnterOf(t, h, to)
      PROVE  MapOK(d, g)'
  <2>1. /\ UNCHANGED <<sessions, disturbed>> /\ UNCHANGED <<conn, life>>
        /\ moving[t].step = "enter" /\ moving[t].handle = h /\ m_content[h[1]] = Own(t) /\ to # Own(t)
        /\ h = Current(h[1]) /\ life[h[1]] = "open" /\ h[1] \in Slots
        /\ moving'[t] = NotMoving /\ \A u \in Threads : u # t => moving'[u] = moving[u]
        /\ m_content'[h[1]] = to /\ \A u \in Slots : u # h[1] => m_content'[u] = m_content[u]
    BY <1>6 DEF MoveEnterOf, TypeInv, SlotsTyped, ThreadsTyped
  <2>2. ~Stays(d, h) BY <2>1 DEF Stays
  <2>3. ASSUME NEW u \in Threads PROVE ~(moving'[u].step = "enter" /\ moving'[u].handle = h)
    <3>1. CASE u = t BY <2>1, <3>1 DEF NotMoving
    <3>2. CASE u # t
      <4>1. SUFFICES ASSUME moving[u].step = "enter", moving[u].handle = h PROVE FALSE
        BY <2>1, <3>2
      <4>2. u = t BY <2>1, <4>1, OneMover
      <4> QED BY <3>2, <4>2
    <3> QED BY <3>1, <3>2
  <2>4. Stays(d, h)' <=> d = to BY <2>1, <2>3 DEF Stays, Current
  <2>5. g # h => (Stays(d, g)' <=> Stays(d, g))
    <3>1. g # h /\ g[1] = h[1] => ~Stays(d, g) /\ ~Stays(d, g)' BY <2>1 DEF Stays, Current
    <3>2. g # h => \A u \in Threads : (moving'[u].step = "enter" /\ moving'[u].handle = g
                                         <=> moving[u].step = "enter" /\ moving[u].handle = g)
      BY <2>1 DEF NotMoving
    <3>3. g # h /\ g[1] # h[1] => (Stays(d, g)' <=> Stays(d, g))
      BY <1>0, <2>1, <3>2 DEF Stays, Current
    <3> QED BY <3>1, <3>3
  <2>6. CASE /\ to \in Contents
             /\ m_msgQueue' = [m_msgQueue EXCEPT ![to] = Append(m_msgQueue[to], Msg("ENTER", h))]
    <3> DEFINE m == Msg("ENTER", h)
    <3>1. m_msgQueue' = [m_msgQueue EXCEPT ![to] = Append(m_msgQueue[to], m)] /\ MapInv
      BY <2>1, <2>6
    <3>2. m \in MessageSet /\ m.type = "ENTER" /\ m.sent = h BY MsgIs
    <3> HIDE DEF m
    <3>3. IF d = to /\ m.sent = g
            THEN (m.type = "ENTER" <=> ~Stays(d, g)) /\ (Stays(d, g)' <=> m.type = "ENTER")
            ELSE Stays(d, g)' <=> Stays(d, g)
      BY <2>2, <2>4, <2>5, <3>2
    <3>4. to \in Contents /\ UNCHANGED sessions /\ TypeInv BY <2>1, <2>6
    <3> QED BY <3>1, <3>2, <3>3, <3>4, MapPosted
  <2>7. CASE to = NoContent /\ UNCHANGED m_msgQueue
    <3>1. d # to BY <2>7 DEF ContentAssumption
    <3>2. Stays(d, g)' <=> Stays(d, g) BY <2>2, <2>4, <2>5, <3>1
    <3> QED BY <2>1, <2>7, <3>2, MapKept DEF MapInv
  <2> QED BY <1>6, <2>6, <2>7 DEF MoveEnterOf
<1>7. ASSUME NEW c \in Contents, NEW h \in Handles, HandleEnterOf(c, h) PROVE MapOK(d, g)'
  <2>1. /\ UNCHANGED <<conn, m_content, life>> /\ UNCHANGED <<moving, disturbed>> /\ m_msgQueue[c] # <<>>
        /\ m_msgQueue[c][1].type = "ENTER" /\ m_msgQueue[c][1].sent = h
        /\ m_msgQueue' = [m_msgQueue EXCEPT ![c] = Tail(m_msgQueue[c])]
        /\ sessions' = [sessions EXCEPT ![c] = sessions[c] \cup {h}]
    BY <1>7 DEF HandleEnterOf
  <2>2. Stays(d, g)' <=> Stays(d, g) BY <2>1, StaysKept
  <2>3. g \in sessions[c] \cup {h} <=>
          (IF m_msgQueue[c][1].sent = g THEN m_msgQueue[c][1].type = "ENTER" ELSE g \in sessions[c])
    BY <2>1
  <2> QED BY <2>1, <2>2, <2>3, MapServed
<1>8. ASSUME NEW c \in Contents, NEW h \in Handles, HandleLeaveOf(c, h) PROVE MapOK(d, g)'
  <2>1. /\ UNCHANGED <<conn, m_content, life>> /\ UNCHANGED moving /\ ~disturbed /\ m_msgQueue[c] # <<>>
        /\ m_msgQueue[c][1].type = "LEAVE" /\ m_msgQueue[c][1].sent = h
        /\ m_msgQueue' = [m_msgQueue EXCEPT ![c] = Tail(m_msgQueue[c])]
        /\ sessions' = [sessions EXCEPT ![c] = sessions[c] \ {h}]
    BY <1>8 DEF HandleLeaveOf
  <2>2. Stays(d, g)' <=> Stays(d, g) BY <2>1, StaysKept
  <2>3. g \in sessions[c] \ {h} <=>
          (IF m_msgQueue[c][1].sent = g THEN m_msgQueue[c][1].type = "ENTER" ELSE g \in sessions[c])
    BY <2>1
  <2> QED BY <2>1, <2>2, <2>3, MapServed
<1>9. ASSUME NEW c \in Contents, NEW h \in Handles, HandleReleaseOf(c, h) PROVE MapOK(d, g)'
  <2>1. /\ UNCHANGED <<conn, moving, disturbed>> /\ m_msgQueue[c] # <<>>
        /\ m_msgQueue[c][1].type = "RELEASE" /\ m_msgQueue[c][1].sent = h
        /\ m_msgQueue' = [m_msgQueue EXCEPT ![c] = Tail(m_msgQueue[c])]
        /\ sessions' = [sessions EXCEPT ![c] = sessions[c] \ {h}]
        /\ life[h[1]] = "released" /\ h[1] \in Slots
        /\ life'[h[1]] = "free" /\ \A u \in Slots : u # h[1] => life'[u] = life[u] /\ m_content'[u] = m_content[u]
    BY <1>9 DEF HandleReleaseOf, TypeInv, SlotsTyped
  <2>2. Stays(d, g)' <=> Stays(d, g)
    BY <1>0, <2>1 DEF Stays, Current
  <2>3. g \in sessions[c] \ {h} <=>
          (IF m_msgQueue[c][1].sent = g THEN m_msgQueue[c][1].type = "ENTER" ELSE g \in sessions[c])
    BY <2>1
  <2> QED BY <2>1, <2>2, <2>3, MapServed
<1> QED BY <1>1, <1>2, <1>3, <1>4, <1>5, <1>6, <1>7, <1>8, <1>9 DEF StepIs

-----------------------------------------------------------------------------
\* The counts, and what a content has entered.

InQueue(q, type, h) == \E i \in DOMAIN q : q[i].type = type /\ q[i].sent = h

LEMMA InAppended ==
  ASSUME NEW q \in Seq(MessageSet), NEW m \in MessageSet, NEW type, NEW h
  PROVE  InQueue(Append(q, m), type, h) <=> InQueue(q, type, h) \/ (m.type = type /\ m.sent = h)
<1> DEFINE p == Append(q, m)
<1>1. /\ Len(q) \in Nat /\ DOMAIN p = 1..(Len(q) + 1) /\ DOMAIN q = 1..Len(q)
      /\ p[Len(q) + 1] = m /\ \A i \in 1..Len(q) : p[i] = q[i]
  BY AppendIs
<1> HIDE DEF p
<1>2. \A i : i \in DOMAIN p <=> i \in DOMAIN q \/ i = Len(q) + 1 BY <1>1
<1>3. InQueue(p, type, h) <=> InQueue(q, type, h) \/ (m.type = type /\ m.sent = h)
  BY <1>1, <1>2 DEF InQueue
<1> QED BY <1>3 DEF p

LEMMA InTaken ==
  ASSUME NEW q \in Seq(MessageSet), q # <<>>, NEW type, NEW h
  PROVE  /\ InQueue(Tail(q), type, h) => InQueue(q, type, h)
         /\ InQueue(q, type, h) => InQueue(Tail(q), type, h) \/ (q[1].type = type /\ q[1].sent = h)
<1> DEFINE p == Tail(q)
<1>1. /\ Len(q) \in Nat \ {0} /\ DOMAIN p = 1..(Len(q) - 1) /\ DOMAIN q = 1..Len(q)
      /\ \A i \in 1..(Len(q) - 1) : p[i] = q[i + 1]
  BY TailIs
<1> HIDE DEF p
<1>2. ASSUME InQueue(p, type, h) PROVE InQueue(q, type, h)
  <2>1. PICK i \in 1..(Len(q) - 1) : p[i].type = type /\ p[i].sent = h BY <1>1, <1>2 DEF InQueue
  <2>2. i + 1 \in DOMAIN q /\ p[i] = q[i + 1] BY <1>1, <2>1
  <2> QED BY <2>1, <2>2 DEF InQueue
<1>3. ASSUME InQueue(q, type, h), ~(q[1].type = type /\ q[1].sent = h) PROVE InQueue(p, type, h)
  <2>1. PICK i \in 1..Len(q) : q[i].type = type /\ q[i].sent = h BY <1>1, <1>3 DEF InQueue
  <2>2. i # 1 BY <1>3, <2>1
  <2>3. i - 1 \in 1..(Len(q) - 1) /\ (i - 1) + 1 = i BY <1>1, <2>1, <2>2
  <2>4. i - 1 \in DOMAIN p /\ p[i - 1] = q[i] BY <1>1, <2>3
  <2> QED BY <2>1, <2>4 DEF InQueue
<1> QED BY <1>2, <1>3 DEF p

LEMMA PendingAppended ==
  ASSUME TypeInv, NEW c \in Contents, NEW m \in MessageSet,
         m_msgQueue' = [m_msgQueue EXCEPT ![c] = Append(m_msgQueue[c], m)],
         NEW d \in Contents, NEW type, NEW h
  PROVE  InQueue(m_msgQueue'[d], type, h) <=>
           InQueue(m_msgQueue[d], type, h) \/ (d = c /\ m.type = type /\ m.sent = h)
<1>1. CASE d # c BY <1>1 DEF TypeInv, ContentsTyped
<1>2. CASE d = c
  <2> DEFINE q == m_msgQueue[c]
  <2>1. q \in Seq(MessageSet) /\ m_msgQueue'[d] = Append(q, m)
    BY <1>2, QueueIs DEF TypeInv, ContentsTyped
  <2> HIDE DEF q
  <2>2. InQueue(Append(q, m), type, h) <=> InQueue(q, type, h) \/ (m.type = type /\ m.sent = h)
    BY <2>1, InAppended
  <2>3. q = m_msgQueue[d] BY <1>2 DEF q
  <2> QED BY <1>2, <2>1, <2>2, <2>3
<1> QED BY <1>1, <1>2

LEMMA PendingTaken ==
  ASSUME TypeInv, NEW c \in Contents, m_msgQueue[c] # <<>>,
         m_msgQueue' = [m_msgQueue EXCEPT ![c] = Tail(m_msgQueue[c])],
         NEW d \in Contents, NEW type, NEW h
  PROVE  /\ InQueue(m_msgQueue'[d], type, h) => InQueue(m_msgQueue[d], type, h)
         /\ InQueue(m_msgQueue[d], type, h) =>
              InQueue(m_msgQueue'[d], type, h)
                \/ (d = c /\ m_msgQueue[c][1].type = type /\ m_msgQueue[c][1].sent = h)
<1>1. CASE d # c BY <1>1 DEF TypeInv, ContentsTyped
<1>2. CASE d = c
  <2> DEFINE q == m_msgQueue[c]
  <2>1. q \in Seq(MessageSet) /\ q # <<>> /\ m_msgQueue'[d] = Tail(q)
    BY <1>2, QueueIs DEF TypeInv, ContentsTyped
  <2>2. q = m_msgQueue[d] BY <1>2
  <2>3. q[1] = m_msgQueue[c][1] OBVIOUS
  <2> HIDE DEF q
  <2>4. /\ InQueue(Tail(q), type, h) => InQueue(q, type, h)
        /\ InQueue(q, type, h) => InQueue(Tail(q), type, h) \/ (q[1].type = type /\ q[1].sent = h)
    BY <2>1, InTaken
  <2> QED BY <1>2, <2>1, <2>2, <2>3, <2>4
<1> QED BY <1>1, <1>2

LEMMA LeaveMsg ==
  ASSUME NEW queues \in [Contents -> Seq(MessageSet)], NEW h \in Handles
  PROVE  (\E c \in Contents : \E i \in DOMAIN queues[c] : queues[c][i] = Msg("LEAVE", h)) <=>
           \E c \in Contents : InQueue(queues[c], "LEAVE", h)
<1>1. ASSUME NEW m \in MessageSet PROVE m = Msg("LEAVE", h) <=> m.type = "LEAVE" /\ m.sent = h
  <2>1. m = [type |-> m.type, session |-> m.session, sent |-> m.sent] /\ m.session = m.sent[1]
    BY DEF MessageSet
  <2> QED BY <2>1 DEF Msg
<1>2. \A c \in Contents : \A i \in DOMAIN queues[c] : queues[c][i] \in MessageSet OBVIOUS
<1> QED BY <1>1, <1>2 DEF InQueue

LEMMA CountStep ==
  ASSUME ContentAssumption, IInv, StepIs, ~disturbed'
  PROVE  CountInv'
<1> USE DEF IInv
<1> SUFFICES ASSUME ~disturbed => Undisturbed, NEW d \in Contents
             PROVE  m_sessionCount'[d] = Cardinality(sessions'[d])
  BY DEF CountInv
<1>1. /\ sessions \in [Contents -> SUBSET Handles] /\ m_sessionCount \in [Contents -> Int]
      /\ sessions[d] \subseteq Handles
  BY DEF TypeInv, ContentsTyped
<1>2. IsFiniteSet(sessions[d])
  <2>1. IsFiniteSet(1..MaxConnections) BY FS_Interval DEF ContentAssumption
  <2>2. IsFiniteSet(Handles) BY <2>1, FS_Product DEF Handles, ContentAssumption
  <2> QED BY <1>1, <2>2, FS_Subset
<1>3. ~disturbed => m_sessionCount[d] = Cardinality(sessions[d]) BY DEF Undisturbed, CountInv
<1>4. CASE UNCHANGED <<sessions, m_sessionCount, disturbed>> BY <1>3, <1>4
<1>5. ASSUME ~disturbed, NEW c \in Contents, NEW h \in Handles, m_msgQueue[c] # <<>>, m_msgQueue[c][1].sent = h
      PROVE  h \in sessions[c] <=> m_msgQueue[c][1].type # "ENTER"
  <2> DEFINE q == m_msgQueue[c]
             S == sessions[c]
  <2>1. q \in Seq(MessageSet) /\ q # <<>> BY <1>5, QueueIs
  <2>2. Alternates(q, S, h) BY <1>5 DEF Undisturbed, MapInv, MapOK
  <2>3. q[1].sent = h BY <1>5
  <2> HIDE DEF q, S
  <2>4. h \in S <=> q[1].type # "ENTER" BY <2>1, <2>2, <2>3, MapHead
  <2> QED BY <2>4 DEF q, S
<1>6. ASSUME NEW c \in Contents, NEW h \in Handles, HandleEnterOf(c, h)
      PROVE  m_sessionCount'[d] = Cardinality(sessions'[d])
  <2>1. /\ ~disturbed /\ m_msgQueue[c] # <<>> /\ m_msgQueue[c][1].sent = h /\ m_msgQueue[c][1].type = "ENTER"
        /\ sessions' = [sessions EXCEPT ![c] = sessions[c] \cup {h}]
        /\ m_sessionCount' = [m_sessionCount EXCEPT ![c] = m_sessionCount[c] + 1]
    BY <1>6 DEF HandleEnterOf
  <2>2. h \notin sessions[c] BY <1>5, <2>1
  <2>3. CASE d # c BY <1>1, <1>3, <2>1, <2>3
  <2>4. CASE d = c
    <3> DEFINE S == sessions[d]
    <3>1. sessions'[d] = S \cup {h} /\ m_sessionCount'[d] = m_sessionCount[d] + 1 /\ h \notin S
      BY <1>1, <2>1, <2>2, <2>4
    <3>2. IsFiniteSet(S) /\ m_sessionCount[d] = Cardinality(S) BY <1>2, <1>3, <2>1
    <3> HIDE DEF S
    <3>3. Cardinality(S \cup {h}) = Cardinality(S) + 1 BY <3>1, <3>2, OneMore
    <3> QED BY <3>1, <3>2, <3>3
  <2> QED BY <2>3, <2>4
<1>7. ASSUME NEW c \in Contents, NEW h \in Handles, HandleLeaveOf(c, h) \/ HandleReleaseOf(c, h)
      PROVE  m_sessionCount'[d] = Cardinality(sessions'[d])
  <2>1. /\ ~disturbed /\ m_msgQueue[c] # <<>> /\ m_msgQueue[c][1].sent = h /\ m_msgQueue[c][1].type # "ENTER"
        /\ sessions' = [sessions EXCEPT ![c] = sessions[c] \ {h}]
        /\ m_sessionCount' = [m_sessionCount EXCEPT ![c] = m_sessionCount[c] - 1]
    <3>1. CASE HandleLeaveOf(c, h) BY <3>1 DEF HandleLeaveOf
    <3>2. CASE HandleReleaseOf(c, h) BY <3>2 DEF HandleReleaseOf
    <3> QED BY <1>7, <3>1, <3>2
  <2>2. h \in sessions[c] BY <1>5, <2>1
  <2>3. CASE d # c BY <1>1, <1>3, <2>1, <2>3
  <2>4. CASE d = c
    <3> DEFINE S == sessions[d]
               e == h
               T == S \ {e}
    <3>1. sessions'[d] = T /\ m_sessionCount'[d] = m_sessionCount[d] - 1 /\ e \in S
      BY <1>1, <2>1, <2>2, <2>4
    <3>2. IsFiniteSet(S) /\ m_sessionCount[d] = Cardinality(S) BY <1>2, <1>3, <2>1
    <3>3. T = S \ {e} OBVIOUS
    <3> HIDE DEF S, T, e
    <3>31. IsFiniteSet(S) BY <3>2
    <3>4. Cardinality(T) = Cardinality(S) - (IF e \in S THEN 1 ELSE 0)
      BY <3>31, <3>3, OneLess, ZenonT(60)
    <3>5. Cardinality(T) = Cardinality(S) - 1 BY <3>1, <3>4
    <3> QED BY <3>1, <3>2, <3>5
  <2> QED BY <2>3, <2>4
<1>8. QuietStep => UNCHANGED <<sessions, m_sessionCount, disturbed>> BY DEF QuietStep, SameMessages
<1>9. ASSUME NEW s \in Slots, ConnectOf(s) \/ LeftStep(s) \/ EndedStep(s) \/ PostedStep(s)
      PROVE  UNCHANGED <<sessions, m_sessionCount, disturbed>>
  BY <1>9 DEF ConnectOf, LeftStep, EndedStep, PostedStep, SameMessages
<1>10. ASSUME NEW t \in Threads, NEW h \in Handles, NEW to \in Contents \cup {NoContent},
              MoveContentOf(t, h, to) \/ MoveEnterOf(t, h, to)
       PROVE  UNCHANGED <<sessions, m_sessionCount, disturbed>>
  BY <1>10 DEF MoveContentOf, MoveEnterOf
<1>11. ASSUME NEW t \in Threads, NEW h \in Handles, MoveLeaveOf(t, h)
       PROVE  UNCHANGED <<sessions, m_sessionCount>> /\ ~disturbed
  <2>1. UNCHANGED <<sessions, m_sessionCount>> BY <1>11 DEF MoveLeaveOf
  <2>2. disturbed => disturbed' BY <1>11 DEF MoveLeaveOf
  <2> QED BY <2>1, <2>2
<1>12. CASE UNCHANGED <<sessions, m_sessionCount>> /\ ~disturbed BY <1>3, <1>12
<1> QED BY <1>4, <1>6, <1>7, <1>8, <1>9, <1>10, <1>11, <1>12 DEF StepIs

LEMMA InsideStep ==
  ASSUME ContentAssumption, IInv, StepIs, ~disturbed'
  PROVE  InsideInv'
<1> USE DEF IInv
<1> SUFFICES ASSUME ~disturbed => InsideInv, NEW d \in Contents, NEW g \in sessions'[d]
             PROVE  d \in inside'[g] \/ InQueue(m_msgQueue'[d], "LEAVE", g)
  BY DEF InsideInv, Undisturbed, Pending, InQueue
<1>1. /\ sessions \in [Contents -> SUBSET Handles] /\ inside \in [Handles -> SUBSET Contents]
      /\ sessions[d] \subseteq Handles
  BY DEF TypeInv, ContentsTyped
<1>2. ~disturbed /\ g \in sessions[d] => d \in inside[g] \/ InQueue(m_msgQueue[d], "LEAVE", g)
  BY DEF InsideInv, Pending, InQueue
<1>3. CASE UNCHANGED <<sessions, inside, m_msgQueue>> /\ ~disturbed BY <1>2, <1>3
<1>4. ASSUME NEW s \in Slots, PostedStep(s)
      PROVE  d \in inside'[g] \/ InQueue(m_msgQueue'[d], "LEAVE", g)
  <2> DEFINE m == Msg("RELEASE", Current(s))
             c == m_content[s]
  <2>1. /\ c \in Contents /\ conn[s] > 0 /\ UNCHANGED <<sessions, inside>> /\ ~disturbed
        /\ m_msgQueue' = [m_msgQueue EXCEPT ![c] = Append(m_msgQueue[c], m)]
    BY <1>4 DEF PostedStep
  <2>2. m \in MessageSet BY <2>1, CurrentIs, MsgIs
  <2> HIDE DEF m, c
  <2>3. InQueue(m_msgQueue[d], "LEAVE", g) => InQueue(m_msgQueue'[d], "LEAVE", g)
    BY <2>1, <2>2, PendingAppended
  <2> QED BY <1>2, <2>1, <2>3
<1>5. ASSUME NEW t \in Threads, NEW h \in Handles, MoveLeaveOf(t, h)
      PROVE  d \in inside'[g] \/ InQueue(m_msgQueue'[d], "LEAVE", g)
  <2>1. UNCHANGED sessions BY <1>5 DEF MoveLeaveOf
  <2>2. CASE /\ t \in Contents /\ UNCHANGED disturbed /\ inside' = [inside EXCEPT ![h] = inside[h] \ {t}]
             /\ m_msgQueue' = [m_msgQueue EXCEPT ![t] = Append(m_msgQueue[t], Msg("LEAVE", h))]
    <3> DEFINE m == Msg("LEAVE", h)
    <3>1. m_msgQueue' = [m_msgQueue EXCEPT ![t] = Append(m_msgQueue[t], m)] BY <2>2
    <3>2. m \in MessageSet /\ m.type = "LEAVE" /\ m.sent = h BY MsgIs
    <3> HIDE DEF m
    <3>3. InQueue(m_msgQueue'[d], "LEAVE", g) <=>
            InQueue(m_msgQueue[d], "LEAVE", g) \/ (d = t /\ m.type = "LEAVE" /\ m.sent = g)
      BY <2>2, <3>1, <3>2, PendingAppended, ZenonT(60)
    <3>4. d \in inside[g] => d \in inside'[g] \/ (d = t /\ g = h) BY <1>1, <2>1, <2>2
    <3> QED BY <1>2, <2>1, <2>2, <3>2, <3>3, <3>4
  <2>3. CASE UNCHANGED <<inside, m_msgQueue>> /\ (disturbed => disturbed') BY <1>3, <2>1, <2>3
  <2> QED BY <1>5, <2>2, <2>3 DEF MoveLeaveOf
<1>6. ASSUME NEW t \in Threads, NEW h \in Handles, NEW to \in Contents \cup {NoContent},
             MoveEnterOf(t, h, to)
      PROVE  d \in inside'[g] \/ InQueue(m_msgQueue'[d], "LEAVE", g)
  <2>1. UNCHANGED <<sessions, inside, disturbed>> BY <1>6 DEF MoveEnterOf
  <2>2. CASE /\ to \in Contents
             /\ m_msgQueue' = [m_msgQueue EXCEPT ![to] = Append(m_msgQueue[to], Msg("ENTER", h))]
    <3> DEFINE m == Msg("ENTER", h)
    <3>1. m_msgQueue' = [m_msgQueue EXCEPT ![to] = Append(m_msgQueue[to], m)] BY <2>2
    <3>2. m \in MessageSet BY MsgIs
    <3> HIDE DEF m
    <3>3. InQueue(m_msgQueue[d], "LEAVE", g) => InQueue(m_msgQueue'[d], "LEAVE", g)
      BY <2>2, <3>1, <3>2, PendingAppended
    <3> QED BY <1>2, <2>1, <3>3
  <2>3. CASE UNCHANGED m_msgQueue BY <1>3, <2>1, <2>3
  <2> QED BY <1>6, <2>2, <2>3 DEF MoveEnterOf
<1>7. ASSUME NEW c \in Contents, NEW h \in Handles, HandleEnterOf(c, h)
      PROVE  d \in inside'[g] \/ InQueue(m_msgQueue'[d], "LEAVE", g)
  <2>1. /\ ~disturbed /\ m_msgQueue[c] # <<>> /\ m_msgQueue[c][1].type = "ENTER"
        /\ m_msgQueue' = [m_msgQueue EXCEPT ![c] = Tail(m_msgQueue[c])]
        /\ sessions' = [sessions EXCEPT ![c] = sessions[c] \cup {h}]
        /\ inside' = [inside EXCEPT ![h] = inside[h] \cup {c}]
    BY <1>7 DEF HandleEnterOf
  <2>2. InQueue(m_msgQueue[d], "LEAVE", g) => InQueue(m_msgQueue'[d], "LEAVE", g)
    BY <2>1, PendingTaken, ZenonT(60)
  <2>3. g \in sessions[d] \/ (d = c /\ g = h) BY <1>1, <2>1
  <2>4. d = c /\ g = h => d \in inside'[g] BY <1>1, <2>1
  <2>5. d \in inside[g] /\ g \in Handles => d \in inside'[g] BY <1>1, <2>1
  <2> QED BY <1>1, <1>2, <2>1, <2>2, <2>3, <2>4, <2>5
<1>8. ASSUME NEW c \in Contents, NEW h \in Handles, HandleLeaveOf(c, h)
      PROVE  d \in inside'[g] \/ InQueue(m_msgQueue'[d], "LEAVE", g)
  <2>1. /\ ~disturbed /\ m_msgQueue[c] # <<>> /\ m_msgQueue[c][1].sent = h
        /\ m_msgQueue' = [m_msgQueue EXCEPT ![c] = Tail(m_msgQueue[c])]
        /\ sessions' = [sessions EXCEPT ![c] = sessions[c] \ {h}] /\ UNCHANGED inside
    BY <1>8 DEF HandleLeaveOf
  <2>2. InQueue(m_msgQueue[d], "LEAVE", g) =>
          InQueue(m_msgQueue'[d], "LEAVE", g)
            \/ (d = c /\ m_msgQueue[c][1].type = "LEAVE" /\ m_msgQueue[c][1].sent = g)
    BY <2>1, PendingTaken
  <2>3. g \in sessions[d] /\ ~(d = c /\ g = h) BY <1>1, <2>1
  <2> QED BY <1>2, <2>1, <2>2, <2>3
<1>9. ASSUME NEW c \in Contents, NEW h \in Handles, HandleReleaseOf(c, h)
      PROVE  d \in inside'[g] \/ InQueue(m_msgQueue'[d], "LEAVE", g)
  <2>1. /\ ~disturbed /\ m_msgQueue[c] # <<>> /\ m_msgQueue[c][1].type = "RELEASE"
        /\ m_msgQueue' = [m_msgQueue EXCEPT ![c] = Tail(m_msgQueue[c])]
        /\ sessions' = [sessions EXCEPT ![c] = sessions[c] \ {h}]
        /\ inside' = [inside EXCEPT ![h] = inside[h] \ {c}]
    BY <1>9 DEF HandleReleaseOf
  <2>2. InQueue(m_msgQueue[d], "LEAVE", g) => InQueue(m_msgQueue'[d], "LEAVE", g)
    BY <2>1, PendingTaken, ZenonT(60)
  <2>3. g \in sessions[d] /\ ~(d = c /\ g = h) BY <1>1, <2>1
  <2>4. d \in inside[g] => d \in inside'[g] BY <1>1, <2>1, <2>3
  <2> QED BY <1>2, <2>1, <2>2, <2>3, <2>4
<1>10. QuietStep => UNCHANGED <<sessions, inside, m_msgQueue>> /\ ~disturbed
  BY DEF QuietStep, SameMessages
<1>11. ASSUME NEW s \in Slots, ConnectOf(s) \/ LeftStep(s) \/ EndedStep(s)
       PROVE  UNCHANGED <<sessions, inside, m_msgQueue>> /\ ~disturbed
  BY <1>11 DEF ConnectOf, LeftStep, EndedStep, SameMessages
<1>12. ASSUME NEW t \in Threads, NEW h \in Handles, NEW to \in Contents \cup {NoContent},
              MoveContentOf(t, h, to)
       PROVE  UNCHANGED <<sessions, inside, m_msgQueue>> /\ ~disturbed
  BY <1>12 DEF MoveContentOf
<1> QED BY <1>3, <1>4, <1>5, <1>6, <1>7, <1>8, <1>9, <1>10, <1>11, <1>12 DEF StepIs

-----------------------------------------------------------------------------
\* A move is marked until its LEAVE is served.

Due(g) ==
  \/ \E d \in Contents : InQueue(m_msgQueue[d], "LEAVE", g)
  \/ \E t \in Threads : moving[t].step = "leave" /\ moving[t].handle = g /\ m_content[g[1]] # NoContent

LEMMA DueIs ==
  ASSUME TypeInv, NEW g \in Handles
  PROVE  LeaveDue(g, m_msgQueue) <=> Due(g)
<1>1. m_msgQueue \in [Contents -> Seq(MessageSet)] BY DEF TypeInv, ContentsTyped
<1> QED BY <1>1, LeaveMsg DEF LeaveDue, Due

\* Neither a LEAVE nor a mover that is about to post one comes up.
LEMMA MarkKept ==
  ASSUME TypeInv, MarkInv, NEW u \in Slots, NEW g \in Handles, g[1] = u,
         life'[u] = "open" => life[u] = "open", conn'[u] = conn[u], IsMoving'[u] = IsMoving[u],
         life'[u] = "open", g = <<u, conn'[u]>>, Due(g)',
         \A d \in Contents : InQueue(m_msgQueue'[d], "LEAVE", g) => InQueue(m_msgQueue[d], "LEAVE", g),
         \A t \in Threads : moving'[t].step = "leave" /\ moving'[t].handle = g =>
           moving[t] = moving'[t] /\ m_content'[u] = m_content[u]
  PROVE  IsMoving'[u]
<1>1. Due(g) BY DEF Due
<1>2. g = Current(u) BY DEF Current
<1> QED BY <1>1, <1>2, DueIs DEF MarkInv

LEMMA MarkStep ==
  ASSUME ContentAssumption, IInv, StepIs, TypeInv', LifeInv', ~disturbed'
  PROVE  MarkInv'
<1> USE DEF IInv
<1>0. SUFFICES ASSUME ~disturbed => MarkInv, NEW u \in Slots, NEW g \in Handles, g[1] = u, g[2] = conn'[u],
                      g = <<u, conn'[u]>>, life'[u] = "open", Due(g)'
               PROVE  IsMoving'[u]
  <2> SUFFICES ASSUME NEW u \in Slots, life'[u] = "open", LeaveDue(Current(u), m_msgQueue)'
               PROVE  \E g \in Handles : g[1] = u /\ g[2] = conn'[u] /\ g = <<u, conn'[u]>> /\ Due(g)'
    BY DEF MarkInv, Undisturbed
  <2>1. conn'[u] \in 0..MaxConnections BY DEF TypeInv, SlotsTyped
  <2>2. conn'[u] > 0 BY DEF LifeInv, LifeOK
  <2>3. <<u, conn'[u]>> \in Handles
    <3>1. conn'[u] \in 1..MaxConnections BY <2>1, <2>2 DEF ContentAssumption
    <3> QED BY <3>1 DEF Handles
  <2>4. PICK g \in Handles : g = <<u, conn'[u]>> BY <2>3
  <2>5. g[1] = u /\ g[2] = conn'[u] /\ g = Current(u)' BY <2>4 DEF Current
  <2>6. m_msgQueue' \in [Contents -> Seq(MessageSet)] BY DEF TypeInv, ContentsTyped
  <2>7. \/ \E c \in Contents : \E i \in DOMAIN m_msgQueue'[c] : m_msgQueue'[c][i] = Msg("LEAVE", g)
        \/ \E t \in Threads : /\ moving'[t].step = "leave" /\ moving'[t].handle = g
                              /\ m_content'[g[1]] # NoContent
    BY <2>5 DEF LeaveDue
  <2>8. Due(g)' BY <2>6, <2>7, LeaveMsg DEF Due
  <2> QED BY <2>4, <2>5, <2>8
<1>1. /\ life \in [Slots -> {"free", "open", "released"}] /\ IsMoving \in [Slots -> BOOLEAN]
      /\ conn \in [Slots -> 0..MaxConnections] /\ m_content \in [Slots -> Contents \cup {NoContent}]
      /\ moving \in [Threads -> [step : {"none", "leave", "enter"}, to : Contents \cup {NoContent},
                                 handle : Handles \cup {NoHandle}]]
  BY DEF TypeInv, SlotsTyped, ThreadsTyped
<1>2. CASE QuietStep
  <2>1. /\ UNCHANGED <<m_msgQueue, moving, conn, m_content>> /\ UNCHANGED <<life, IsMoving>> /\ ~disturbed
    BY <1>2 DEF QuietStep, SameMessages
  <2> QED BY <1>0, <2>1, MarkKept
<1>3. ASSUME NEW s \in Slots, ConnectOf(s) PROVE IsMoving'[u]
  <2>1. /\ UNCHANGED <<m_msgQueue, moving>> /\ life[s] = "free" /\ ~disturbed
        /\ \A v \in Slots : v # s => /\ life'[v] = life[v] /\ conn'[v] = conn[v]
                                     /\ m_content'[v] = m_content[v] /\ IsMoving'[v] = IsMoving[v]
        /\ conn'[s] = conn[s] + 1 /\ conn[s] \in Int
    BY <1>1, <1>3 DEF ConnectOf
  <2>2. CASE u # s BY <1>0, <2>1, <2>2, MarkKept
  <2>3. CASE u = s
    <3>1. ASSUME NEW d \in Contents, InQueue(m_msgQueue'[d], "LEAVE", g) PROVE FALSE
      <4>1. PICK i \in DOMAIN m_msgQueue[d] : m_msgQueue[d][i].sent = g BY <2>1, <3>1 DEF InQueue
      <4>2. m_msgQueue[d][i].session = m_msgQueue[d][i].sent[1] BY <4>1, QueueIs
      <4>3. g[2] <= conn[u] BY <1>0, <4>1, <4>2 DEF MessageInv, MessageOK
      <4> QED BY <1>0, <2>1, <2>3, <4>3
    <3>2. ASSUME NEW t \in Threads, moving[t].step = "leave", moving[t].handle = g PROVE FALSE
      <4>1. g = Current(u) BY <1>0, <3>2, MoverIs
      <4>2. g[2] = conn[u] BY <4>1 DEF Current
      <4> QED BY <1>0, <2>1, <2>3, <4>2
    <3> QED BY <1>0, <2>1, <3>1, <3>2 DEF Due
  <2> QED BY <2>2, <2>3
<1>4. ASSUME NEW s \in Slots, LeftStep(s) \/ EndedStep(s) PROVE IsMoving'[u]
  <2>1. /\ UNCHANGED <<m_msgQueue, moving, conn, m_content>> /\ ~disturbed
        /\ life'[s] # "open"
        /\ \A v \in Slots : v # s => life'[v] = life[v] /\ IsMoving'[v] = IsMoving[v]
    BY <1>1, <1>4 DEF LeftStep, EndedStep, SameMessages
  <2>2. u # s BY <1>0, <2>1
  <2> QED BY <1>0, <2>1, <2>2, MarkKept
<1>5. ASSUME NEW s \in Slots, PostedStep(s) PROVE IsMoving'[u]
  <2> DEFINE m == Msg("RELEASE", Current(s))
             c == m_content[s]
  <2>1. /\ c \in Contents /\ conn[s] > 0 /\ UNCHANGED <<moving, conn, m_content, IsMoving>> /\ ~disturbed
        /\ m_msgQueue' = [m_msgQueue EXCEPT ![c] = Append(m_msgQueue[c], m)]
        /\ life'[s] # "open" /\ \A v \in Slots : v # s => life'[v] = life[v]
    BY <1>1, <1>5 DEF PostedStep
  <2>2. m \in MessageSet /\ m.type = "RELEASE" BY <2>1, CurrentIs, MsgIs
  <2>3. u # s BY <1>0, <2>1
  <2> HIDE DEF m, c
  <2>4. \A d \in Contents : InQueue(m_msgQueue'[d], "LEAVE", g) => InQueue(m_msgQueue[d], "LEAVE", g)
    <3> TAKE d \in Contents
    <3>1. InQueue(m_msgQueue'[d], "LEAVE", g) <=>
            InQueue(m_msgQueue[d], "LEAVE", g) \/ (d = c /\ m.type = "LEAVE" /\ m.sent = g)
      BY <2>1, <2>2, PendingAppended
    <3> QED BY <2>2, <3>1
  <2> QED BY <1>0, <2>1, <2>3, <2>4, MarkKept
<1>6. ASSUME NEW t \in Threads, NEW h \in Handles, NEW to \in Contents \cup {NoContent},
             MoveContentOf(t, h, to)
      PROVE  IsMoving'[u]
  <2>1. /\ UNCHANGED <<m_msgQueue, conn, m_content, life>> /\ ~disturbed /\ h[1] \in Slots
        /\ h = Current(h[1])
        /\ moving'[t].handle = h /\ \A v \in Threads : v # t => moving'[v] = moving[v]
        /\ IsMoving'[h[1]] /\ \A v \in Slots : v # h[1] => IsMoving'[v] = IsMoving[v]
    BY <1>1, <1>6 DEF MoveContentOf
  <2>2. CASE u = h[1] BY <2>1, <2>2
  <2>3. CASE u # h[1]
    <3>1. g # h BY <1>0, <2>3
    <3> QED BY <1>0, <2>1, <2>3, <3>1, MarkKept
  <2> QED BY <2>2, <2>3
<1>7. ASSUME NEW t \in Threads, NEW h \in Handles, MoveLeaveOf(t, h) PROVE IsMoving'[u]
  <2>1. /\ UNCHANGED <<conn, m_content, life>> /\ h[1] \in Slots /\ h = Current(h[1])
        /\ moving[t].step = "leave" /\ moving[t].handle = h /\ m_content[h[1]] = Own(t)
        /\ moving'[t].step = "enter" /\ \A v \in Threads : v # t => moving'[v] = moving[v]
    BY <1>1, <1>7 DEF MoveLeaveOf
  <2>2. \A v \in Threads : moving'[v].step = "leave" /\ moving'[v].handle = g =>
           moving[v] = moving'[v] /\ m_content'[u] = m_content[u]
    BY <2>1
  <2>3. CASE /\ t \in Contents /\ Own(t) = t /\ UNCHANGED <<IsMoving, disturbed>>
             /\ m_msgQueue' = [m_msgQueue EXCEPT ![t] = Append(m_msgQueue[t], Msg("LEAVE", h))]
    <3> DEFINE m == Msg("LEAVE", h)
    <3>1. m_msgQueue' = [m_msgQueue EXCEPT ![t] = Append(m_msgQueue[t], m)] BY <2>3
    <3>2. m \in MessageSet /\ m.type = "LEAVE" /\ m.sent = h BY MsgIs
    <3> HIDE DEF m
    <3>3. \A d \in Contents : InQueue(m_msgQueue'[d], "LEAVE", g) <=>
            InQueue(m_msgQueue[d], "LEAVE", g) \/ (d = t /\ m.type = "LEAVE" /\ m.sent = g)
      BY <2>3, <3>1, <3>2, PendingAppended
    <3>4. CASE g # h
      <4>1. \A d \in Contents : InQueue(m_msgQueue'[d], "LEAVE", g) => InQueue(m_msgQueue[d], "LEAVE", g)
        BY <3>2, <3>3, <3>4
      <4> QED BY <1>0, <2>1, <2>2, <2>3, <4>1, MarkKept
    <3>5. CASE g = h
      <4>1. m_content[g[1]] # NoContent BY <2>1, <2>3, <3>5 DEF ContentAssumption
      <4>2. Due(g) BY <2>1, <3>5, <4>1 DEF Due
      <4>3. LeaveDue(Current(u), m_msgQueue) /\ life[u] = "open" BY <1>0, <2>1, <3>5, <4>2, DueIs
      <4> QED BY <1>0, <2>3, <4>3 DEF MarkInv
    <3> QED BY <3>4, <3>5
  <2>4. CASE /\ UNCHANGED m_msgQueue /\ IsMoving' = [IsMoving EXCEPT ![h[1]] = FALSE]
             /\ disturbed' = (disturbed \/ LeaveDue(h, m_msgQueue))
    <3>1. ~disturbed /\ ~LeaveDue(h, m_msgQueue) BY <2>4
    <3>2. ~Due(h) BY <3>1, DueIs
    <3>3. CASE u # h[1]
      <4>1. IsMoving'[u] = IsMoving[u] BY <1>1, <2>4, <3>3
      <4> QED BY <1>0, <2>1, <2>2, <2>4, <3>1, <4>1, MarkKept
    <3>4. CASE u = h[1]
      <4>1. g = h BY <1>0, <2>1, <3>4 DEF Current
      <4>2. Due(g) BY <1>0, <2>1, <2>2, <2>4 DEF Due
      <4> QED BY <3>2, <4>1, <4>2
    <3> QED BY <3>3, <3>4
  <2> QED BY <1>7, <2>3, <2>4 DEF MoveLeaveOf
<1>8. ASSUME NEW t \in Threads, NEW h \in Handles, NEW to \in Contents \cup {NoContent},
             MoveEnterOf(t, h, to)
      PROVE  IsMoving'[u]
  <2>1. /\ UNCHANGED <<conn, life, IsMoving, disturbed>> /\ h[1] \in Slots /\ h = Current(h[1])
        /\ moving[t].step = "enter" /\ moving[t].handle = h
        /\ moving'[t].step = "none" /\ \A v \in Threads : v # t => moving'[v] = moving[v]
        /\ \A v \in Slots : v # h[1] => m_content'[v] = m_content[v]
    BY <1>1, <1>8 DEF MoveEnterOf, NotMoving
  <2>2. ASSUME NEW v \in Threads, moving'[v].step = "leave", moving'[v].handle = g
        PROVE  moving[v] = moving'[v] /\ m_content'[u] = m_content[u]
    <3>1. v # t /\ moving[v] = moving'[v] BY <2>1, <2>2
    <3>2. u # h[1]
      <4>1. SUFFICES ASSUME u = h[1] PROVE FALSE OBVIOUS
      <4>2. moving[v].handle[1] = moving[t].handle[1] BY <1>0, <2>1, <2>2, <3>1, <4>1
      <4>3. v = t BY <2>1, <2>2, <3>1, <4>2, OneMover
      <4> QED BY <3>1, <4>3
    <3> QED BY <2>1, <3>1, <3>2
  <2>3. \A d \in Contents : InQueue(m_msgQueue'[d], "LEAVE", g) => InQueue(m_msgQueue[d], "LEAVE", g)
    <3>1. CASE /\ to \in Contents
               /\ m_msgQueue' = [m_msgQueue EXCEPT ![to] = Append(m_msgQueue[to], Msg("ENTER", h))]
      <4> DEFINE m == Msg("ENTER", h)
      <4>1. m_msgQueue' = [m_msgQueue EXCEPT ![to] = Append(m_msgQueue[to], m)] BY <3>1
      <4>2. m \in MessageSet /\ m.type = "ENTER" BY MsgIs
      <4> HIDE DEF m
      <4> TAKE d \in Contents
      <4>3. InQueue(m_msgQueue'[d], "LEAVE", g) <=>
              InQueue(m_msgQueue[d], "LEAVE", g) \/ (d = to /\ m.type = "LEAVE" /\ m.sent = g)
        BY <3>1, <4>1, <4>2, PendingAppended
      <4> QED BY <4>2, <4>3
    <3>2. CASE UNCHANGED m_msgQueue BY <3>2
    <3> QED BY <1>8, <3>1, <3>2 DEF MoveEnterOf
  <2> QED BY <1>0, <2>1, <2>2, <2>3, MarkKept
<1>9. ASSUME NEW c \in Contents, NEW h \in Handles, HandleEnterOf(c, h) PROVE IsMoving'[u]
  <2>1. /\ UNCHANGED <<conn, life, m_content, IsMoving>> /\ UNCHANGED moving /\ ~disturbed
        /\ m_msgQueue[c] # <<>> /\ m_msgQueue' = [m_msgQueue EXCEPT ![c] = Tail(m_msgQueue[c])]
    BY <1>9 DEF HandleEnterOf
  <2>2. \A d \in Contents : InQueue(m_msgQueue'[d], "LEAVE", g) => InQueue(m_msgQueue[d], "LEAVE", g)
    BY <2>1, PendingTaken
  <2> QED BY <1>0, <2>1, <2>2, MarkKept
<1>10. ASSUME NEW c \in Contents, NEW h \in Handles, HandleLeaveOf(c, h) PROVE IsMoving'[u]
  <2>1. /\ UNCHANGED <<conn, life, m_content>> /\ UNCHANGED moving
        /\ h[1] \in Slots /\ IsMoving' = [IsMoving EXCEPT ![h[1]] = FALSE]
        /\ m_msgQueue[c] # <<>> /\ m_msgQueue' = [m_msgQueue EXCEPT ![c] = Tail(m_msgQueue[c])]
    BY <1>10 DEF HandleLeaveOf
  <2>2. ~disturbed /\ Current(h[1]) = h /\ ~LeaveDue(Current(h[1]), m_msgQueue')
    BY <1>10 DEF HandleLeaveOf
  <2>3. \A d \in Contents : InQueue(m_msgQueue'[d], "LEAVE", g) => InQueue(m_msgQueue[d], "LEAVE", g)
    BY <2>1, PendingTaken
  <2>4. CASE u # h[1]
    <3>1. IsMoving'[u] = IsMoving[u] BY <1>1, <2>1, <2>4
    <3> QED BY <1>0, <2>1, <2>2, <2>3, <3>1, MarkKept
  <2>5. CASE u = h[1]
    <3>1. g = h BY <1>0, <2>1, <2>2, <2>5 DEF Current
    <3>2. m_msgQueue' \in [Contents -> Seq(MessageSet)] BY DEF TypeInv, ContentsTyped
    <3>3. LeaveDue(g, m_msgQueue') BY <1>0, <2>1, <3>2, LeaveMsg DEF LeaveDue, Due
    <3> QED BY <2>2, <3>1, <3>3
  <2> QED BY <2>4, <2>5
<1>11. ASSUME NEW c \in Contents, NEW h \in Handles, HandleReleaseOf(c, h) PROVE IsMoving'[u]
  <2>1. /\ UNCHANGED <<conn, moving, disturbed>> /\ h[1] \in Slots /\ life'[h[1]] # "open"
        /\ m_msgQueue[c] # <<>> /\ m_msgQueue' = [m_msgQueue EXCEPT ![c] = Tail(m_msgQueue[c])]
        /\ \A v \in Slots : v # h[1] => /\ life'[v] = life[v] /\ m_content'[v] = m_content[v]
                                        /\ IsMoving'[v] = IsMoving[v]
    BY <1>1, <1>11 DEF HandleReleaseOf
  <2>2. \A d \in Contents : InQueue(m_msgQueue'[d], "LEAVE", g) => InQueue(m_msgQueue[d], "LEAVE", g)
    BY <2>1, PendingTaken
  <2>3. u # h[1] BY <1>0, <2>1
  <2> QED BY <1>0, <2>1, <2>2, <2>3, MarkKept
<1> QED BY <1>2, <1>3, <1>4, <1>5, <1>6, <1>7, <1>8, <1>9, <1>10, <1>11 DEF StepIs

-----------------------------------------------------------------------------
\* Whoever takes a frame has the session.

LEMMA TakerIs ==
  ASSUME ContentAssumption, IInv, NEW d \in Contents, thread[d].at = "take"
  PROVE  /\ thread[d].handle \in Handles /\ thread[d].handle[1] \in Slots
         /\ thread[d].handle = Current(thread[d].handle[1]) /\ thread[d].handle \in sessions[d]
         /\ life[thread[d].handle[1]] = "open"
BY ServerIs, ServerConn DEF IInv, Threads, ContentAssumption

\* What the map says of the session of a handle without a LEAVE.
LEMMA MapSays ==
  ASSUME ContentAssumption, IInv, MapInv, NEW c \in Contents, NEW g \in sessions[c],
         ~InQueue(m_msgQueue[c], "LEAVE", g)
  PROVE  g = Current(g[1]) /\ m_content[g[1]] = c /\ life[g[1]] \in {"open", "released"}
<1> USE DEF IInv
<1>1. g \in Handles BY DEF TypeInv, ContentsTyped
<1>2. CASE \E i \in DOMAIN m_msgQueue[c] : m_msgQueue[c][i].type = "RELEASE" /\ m_msgQueue[c][i].sent = g
  <2>1. PICK i \in DOMAIN m_msgQueue[c] : m_msgQueue[c][i].type = "RELEASE" /\ m_msgQueue[c][i].sent = g
    BY <1>2
  <2>2. m_msgQueue[c][i].session = g[1] BY <2>1, QueueIs
  <2> QED BY <2>1, <2>2, ReleaseIs
<1>3. CASE ~\E i \in DOMAIN m_msgQueue[c] : m_msgQueue[c][i].type = "RELEASE" /\ m_msgQueue[c][i].sent = g
  <2>1. DOMAIN m_msgQueue[c] = 1..Len(m_msgQueue[c]) BY QueueIs
  <2>2. \A i \in 1..Len(m_msgQueue[c]) : ~TakesOut(m_msgQueue[c], i, g)
    BY <1>3, <2>1, QueueIs DEF InQueue, TakesOut
  <2>3. HasAfter(m_msgQueue[c], sessions[c], g, Len(m_msgQueue[c])) BY <2>2, MapStays
  <2>4. Stays(c, g) BY <1>1, <2>3 DEF MapInv, MapOK
  <2> QED BY <2>4 DEF Stays
<1> QED BY <1>2, <1>3

LEMMA TakeStep ==
  ASSUME ContentAssumption, IInv, StepIs, ~disturbed'
  PROVE  TakeInv'
<1> USE DEF IInv
<1> DEFINE g(d) == thread[d].handle
           Goal(d) == m_content'[g(d)[1]] = d /\ ~InQueue(m_msgQueue'[d], "LEAVE", g(d))
<1>1. ASSUME TakeKept, ~disturbed,
             \A d \in Contents : thread[d].at = "take" /\ m_content[g(d)[1]] = d
                                    /\ ~InQueue(m_msgQueue[d], "LEAVE", g(d)) => Goal(d)
      PROVE  TakeInv'
  <2> SUFFICES ASSUME NEW d \in Contents, thread'[d].at = "take"
               PROVE  /\ m_content'[thread'[d].handle[1]] = d
                      /\ ~InQueue(m_msgQueue'[d], "LEAVE", thread'[d].handle)
    BY DEF TakeInv, Pending, InQueue
  <2>1. thread'[d] = thread[d] BY <1>1 DEF TakeKept
  <2>2. m_content[g(d)[1]] = d /\ ~InQueue(m_msgQueue[d], "LEAVE", g(d))
    BY <1>1, <2>1 DEF Undisturbed, TakeInv, Pending, InQueue
  <2> QED BY <1>1, <2>1, <2>2
<1>2. CASE QuietStep /\ TakeKept
  <2>1. UNCHANGED <<m_msgQueue, m_content, disturbed>> BY <1>2 DEF QuietStep, SameMessages
  <2> QED BY <1>1, <1>2, <2>1
<1>3. ASSUME QuietStep, NEW c \in Contents, CheckMoving(c) PROVE TakeInv'
  <2>1. /\ UNCHANGED <<m_msgQueue, m_content, disturbed>> /\ thread[c].at = "check"
        /\ ~IsMoving[thread[c].handle[1]] /\ thread'[c].handle = thread[c].handle
        /\ \A d \in Contents : d # c => thread'[d] = thread[d]
    BY <1>3 DEF QuietStep, SameMessages, CheckMoving, TypeInv, ThreadsTyped, Threads
  <2> SUFFICES ASSUME NEW d \in Contents, thread'[d].at = "take"
               PROVE  /\ m_content[thread'[d].handle[1]] = d
                      /\ ~InQueue(m_msgQueue[d], "LEAVE", thread'[d].handle)
    BY <2>1 DEF TakeInv, Pending, InQueue
  <2>2. CASE d # c
    BY <2>1, <2>2 DEF Undisturbed, TakeInv, Pending, InQueue
  <2>3. CASE d = c
    <3> DEFINE h == thread[c].handle
    <3>1. /\ h \in Handles /\ h[1] \in Slots /\ h = Current(h[1]) /\ h \in sessions[c]
          /\ life[h[1]] = "open"
      BY <2>1, ServerIs, ServerConn DEF Threads, ContentAssumption
    <3>2. ~LeaveDue(h, m_msgQueue) BY <2>1, <3>1 DEF Undisturbed, MarkInv
    <3>3. ~InQueue(m_msgQueue[c], "LEAVE", h) BY <3>1, <3>2, DueIs DEF Due
    <3>4. m_content[h[1]] = c BY <2>1, <3>1, <3>3, MapSays DEF Undisturbed
    <3> QED BY <2>1, <2>3, <3>3, <3>4
  <2> QED BY <2>2, <2>3
<1>4. ASSUME NEW s \in Slots, ConnectOf(s) PROVE TakeInv'
  <2>1. /\ UNCHANGED <<m_msgQueue, disturbed>> /\ TakeKept /\ life[s] = "free"
        /\ \A v \in Slots : v # s => m_content'[v] = m_content[v]
    BY <1>4 DEF ConnectOf, TypeInv, SlotsTyped
  <2> QED BY <1>1, <2>1, TakerIs
<1>5. ASSUME NEW s \in Slots, LeftStep(s) \/ EndedStep(s) PROVE TakeInv'
  <2>1. UNCHANGED <<m_msgQueue, disturbed, m_content>> /\ TakeKept
    BY <1>5 DEF LeftStep, EndedStep, SameMessages
  <2> QED BY <1>1, <2>1
<1>6. ASSUME NEW s \in Slots, PostedStep(s) PROVE TakeInv'
  <2> DEFINE m == Msg("RELEASE", Current(s))
             c == m_content[s]
  <2>1. /\ c \in Contents /\ conn[s] > 0 /\ UNCHANGED <<m_content, disturbed>> /\ TakeKept
        /\ m_msgQueue' = [m_msgQueue EXCEPT ![c] = Append(m_msgQueue[c], m)]
    BY <1>6 DEF PostedStep
  <2>2. m \in MessageSet /\ m.type = "RELEASE" BY <2>1, CurrentIs, MsgIs
  <2> HIDE DEF m, c
  <2>3. ASSUME NEW d \in Contents
        PROVE  InQueue(m_msgQueue'[d], "LEAVE", g(d)) => InQueue(m_msgQueue[d], "LEAVE", g(d))
    <3>1. InQueue(m_msgQueue'[d], "LEAVE", g(d)) <=>
            InQueue(m_msgQueue[d], "LEAVE", g(d)) \/ (d = c /\ m.type = "LEAVE" /\ m.sent = g(d))
      BY <2>1, <2>2, PendingAppended, ZenonT(60)
    <3> QED BY <2>2, <3>1
  <2> QED BY <1>1, <2>1, <2>3
<1>7. ASSUME NEW t \in Threads, NEW h \in Handles, NEW to \in Contents \cup {NoContent},
             MoveContentOf(t, h, to)
      PROVE  TakeInv'
  <2>1. UNCHANGED <<m_msgQueue, disturbed, m_content, thread>> BY <1>7 DEF MoveContentOf
  <2>2. TakeKept BY <2>1 DEF TakeKept
  <2> QED BY <1>1, <2>1, <2>2
<1>8. ASSUME NEW t \in Threads, NEW h \in Handles, MoveLeaveOf(t, h) PROVE TakeInv'
  <2>0. disturbed => disturbed' BY <1>8 DEF MoveLeaveOf
  <2>1. UNCHANGED <<m_content, thread>> /\ moving[t].step = "leave"
    BY <1>8 DEF MoveLeaveOf
  <2>2. thread[t].at # "take" BY <2>1, MoverIs
  <2>3. TakeKept BY <2>1 DEF TakeKept
  <2>4. CASE UNCHANGED m_msgQueue BY <1>1, <2>0, <2>1, <2>3, <2>4
  <2>5. CASE t \in Contents /\ m_msgQueue' = [m_msgQueue EXCEPT ![t] = Append(m_msgQueue[t], Msg("LEAVE", h))]
    <3>1. \A d \in Contents : d # t => m_msgQueue'[d] = m_msgQueue[d]
      BY <2>5 DEF TypeInv, ContentsTyped
    <3>2. \A d \in Contents : thread[d].at = "take" => m_msgQueue'[d] = m_msgQueue[d] BY <2>2, <3>1
    <3> QED BY <1>1, <2>0, <2>1, <2>3, <3>2
  <2> QED BY <1>8, <2>4, <2>5 DEF MoveLeaveOf
<1>9. ASSUME NEW t \in Threads, NEW h \in Handles, NEW to \in Contents \cup {NoContent},
             MoveEnterOf(t, h, to)
      PROVE  TakeInv'
  <2>1. /\ UNCHANGED <<thread, disturbed>> /\ moving[t].step = "enter"
        /\ m_content[h[1]] = Own(t) /\ \A v \in Slots : v # h[1] => m_content'[v] = m_content[v]
    BY <1>9 DEF MoveEnterOf, TypeInv, SlotsTyped
  <2>2. thread[t].at # "take" BY <2>1, MoverIs
  <2>3. TakeKept BY <2>1 DEF TakeKept
  <2>4. ASSUME NEW d \in Contents, thread[d].at = "take", m_content[g(d)[1]] = d
        PROVE  m_content'[g(d)[1]] = d
    <3>1. g(d)[1] # h[1]
      <4>1. SUFFICES ASSUME g(d)[1] = h[1] PROVE FALSE OBVIOUS
      <4>2. Own(t) = d BY <2>1, <2>4, <4>1
      <4>3. t = d BY <4>2 DEF Own, ContentAssumption
      <4> QED BY <2>2, <2>4, <4>3
    <3> QED BY <2>1, <2>4, <3>1, TakerIs
  <2>5. ASSUME NEW d \in Contents
        PROVE  InQueue(m_msgQueue'[d], "LEAVE", g(d)) => InQueue(m_msgQueue[d], "LEAVE", g(d))
    <3>1. CASE /\ to \in Contents
               /\ m_msgQueue' = [m_msgQueue EXCEPT ![to] = Append(m_msgQueue[to], Msg("ENTER", h))]
      <4> DEFINE m == Msg("ENTER", h)
      <4>1. m_msgQueue' = [m_msgQueue EXCEPT ![to] = Append(m_msgQueue[to], m)] BY <3>1
      <4>2. m \in MessageSet /\ m.type = "ENTER" BY MsgIs
      <4> HIDE DEF m
      <4>3. to \in Contents /\ TypeInv BY <3>1
      <4>4. \A h1 : InQueue(m_msgQueue'[d], "LEAVE", h1) <=>
              InQueue(m_msgQueue[d], "LEAVE", h1) \/ (d = to /\ m.type = "LEAVE" /\ m.sent = h1)
        BY <4>1, <4>2, <4>3, PendingAppended
      <4> QED BY <4>2, <4>4
    <3>2. CASE UNCHANGED m_msgQueue BY <3>2
    <3> QED BY <1>9, <3>1, <3>2 DEF MoveEnterOf
  <2> QED BY <1>1, <2>1, <2>3, <2>4, <2>5
<1>10. ASSUME NEW c \in Contents, m_msgQueue[c] # <<>>,
              m_msgQueue' = [m_msgQueue EXCEPT ![c] = Tail(m_msgQueue[c])], NEW d \in Contents
       PROVE  InQueue(m_msgQueue'[d], "LEAVE", g(d)) => InQueue(m_msgQueue[d], "LEAVE", g(d))
  BY <1>10, PendingTaken
<1>11. ASSUME NEW c \in Contents, NEW h \in Handles, HandleEnterOf(c, h) PROVE TakeInv'
  <2>1. /\ UNCHANGED <<m_content, disturbed>> /\ m_msgQueue[c] # <<>>
        /\ m_msgQueue' = [m_msgQueue EXCEPT ![c] = Tail(m_msgQueue[c])]
        /\ thread' = [thread EXCEPT ![c] = [at |-> "entering", handle |-> h]]
    BY <1>11 DEF HandleEnterOf
  <2>2. TakeKept BY <2>1 DEF TakeKept, TypeInv, ThreadsTyped, Threads
  <2> QED BY <1>1, <1>10, <2>1, <2>2
<1>12. ASSUME NEW c \in Contents, NEW h \in Handles, HandleLeaveOf(c, h) PROVE TakeInv'
  <2>1. /\ UNCHANGED <<m_content, thread>> /\ m_msgQueue[c] # <<>> /\ (disturbed => disturbed')
        /\ m_msgQueue' = [m_msgQueue EXCEPT ![c] = Tail(m_msgQueue[c])]
    BY <1>12 DEF HandleLeaveOf
  <2>2. TakeKept BY <2>1 DEF TakeKept
  <2> QED BY <1>1, <1>10, <2>1, <2>2
<1>13. ASSUME NEW c \in Contents, NEW h \in Handles, HandleReleaseOf(c, h) PROVE TakeInv'
  <2>1. /\ UNCHANGED <<thread, disturbed>> /\ m_msgQueue[c] # <<>>
        /\ m_msgQueue' = [m_msgQueue EXCEPT ![c] = Tail(m_msgQueue[c])]
        /\ life[h[1]] = "released" /\ \A v \in Slots : v # h[1] => m_content'[v] = m_content[v]
    BY <1>13 DEF HandleReleaseOf, TypeInv, SlotsTyped
  <2>2. TakeKept BY <2>1 DEF TakeKept
  <2>3. ASSUME NEW d \in Contents, thread[d].at = "take" PROVE m_content'[g(d)[1]] = m_content[g(d)[1]]
    BY <2>1, <2>3, TakerIs
  <2> QED BY <1>1, <1>10, <2>1, <2>2, <2>3
<1>14. QuietStep => TakeKept \/ \E c \in Contents : CheckMoving(c) BY DEF QuietStep
<1> QED BY <1>2, <1>3, <1>4, <1>5, <1>6, <1>7, <1>8, <1>9, <1>11, <1>12, <1>13, <1>14 DEF StepIs

-----------------------------------------------------------------------------
\* The invariant, and what follows from it.

LEMMA IInvInit ==
  ASSUME ContentAssumption, Init
  PROVE  IInv
<1> USE DEF Init
<1>1. TypeInv
  <2>1. SlotsTyped BY DEF SlotsTyped, ContentAssumption
  <2>2. <<>> \in Seq(MessageSet) OBVIOUS
  <2>3. ContentsTyped BY <2>2 DEF ContentsTyped
  <2>4. /\ Idle \in [at : {"idle", "callback", "entering", "loop", "check", "take", "receiving"},
                    handle : Handles \cup {NoHandle}]
        /\ NotMoving \in [step : {"none", "leave", "enter"}, to : Contents \cup {NoContent},
                         handle : Handles \cup {NoHandle}]
    BY DEF Idle, NotMoving
  <2>5. ThreadsTyped BY <2>4 DEF ThreadsTyped
  <2> QED BY <2>1, <2>3, <2>5 DEF TypeInv
<1>2. WorkerInv BY DEF WorkerInv, WorkerOK, Threads
<1>3. UpdateInv BY DEF UpdateInv, UpdateOK, Idle, Threads
<1>4. MoverInv
  <2>1. NotMoving.step = "none" BY DEF NotMoving
  <2> QED BY <2>1 DEF MoverInv, MoverOK
<1>5. \A s \in Slots : /\ Serving(s) = {} /\ Moving(s) = {}
                       /\ \A type : Posted(type, s, m_msgQueue) = {}
  BY DEF Serving, Serves, Moving, Posted, Idle, NotMoving, Threads
<1>6. Cardinality({}) = 0 BY FS_EmptySet
<1>7. RefInv
  <2> SUFFICES ASSUME NEW s \in Slots PROVE RefOK(s) BY DEF RefInv
  <2>1. /\ Cardinality(Serving(s)) = 0 /\ Cardinality(Moving(s)) = 0
        /\ Cardinality(Posted("ENTER", s, m_msgQueue)) = 0
    BY <1>5, <1>6
  <2>2. refs[s] = 0 /\ ~connected[s] /\ life[s] = "free" OBVIOUS
  <2> QED BY <2>1, <2>2 DEF RefOK
<1>8. MessageInv BY DEF MessageInv
<1>9. LifeInv BY DEF LifeInv, LifeOK
<1>10. ReleasedOnce
  <2> SUFFICES ASSUME NEW s \in Slots
               PROVE  Cardinality(Posted("RELEASE", s, m_msgQueue)) + (IF leaving[s] THEN 1 ELSE 0)
                      = (IF life[s] = "released" THEN 1 ELSE 0)
    BY DEF ReleasedOnce
  <2>1. Cardinality(Posted("RELEASE", s, m_msgQueue)) = 0 BY <1>5, <1>6
  <2>2. ~leaving[s] /\ life[s] = "free" OBVIOUS
  <2> QED BY <2>1, <2>2
<1>11. MapInv
  <2> SUFFICES ASSUME NEW c \in Contents, NEW h \in Handles PROVE MapOK(c, h) BY DEF MapInv
  <2>1. h[1] \in Slots BY HandleIs
  <2>2. m_msgQueue[c] = <<>> /\ Len(<<>>) = 0 /\ sessions[c] = {} /\ 1..0 = {} OBVIOUS
  <2>3. ~HasAfter(<<>>, {}, h, 0) BY HasZero
  <2>4. ~Stays(c, h) BY <2>1 DEF Stays
  <2>5. Alternates(<<>>, {}, h) BY <2>2 DEF Alternates
  <2> QED BY <2>2, <2>3, <2>4, <2>5 DEF MapOK
<1>12. CountInv BY <1>6 DEF CountInv
<1>13. InsideInv BY DEF InsideInv
<1>14. MarkInv BY DEF MarkInv
<1>15. TakeInv BY DEF TakeInv, Idle, Threads
<1> QED BY <1>1, <1>2, <1>3, <1>4, <1>7, <1>8, <1>9, <1>10, <1>11, <1>12, <1>13, <1>14, <1>15
        DEF IInv, Undisturbed

LEMMA IInvStep ==
  ASSUME ContentAssumption, IInv, [Next]_vars
  PROVE  IInv'
<1>1. StepIs BY StepSplit
<1>2. TypeInv' /\ WorkerInv' /\ UpdateInv' /\ MoverInv' /\ RefInv'
  BY TypeStep, WorkerStep, UpdateStep, MoverStep, RefStep
<1>3. MessageInv' /\ LifeInv' /\ ReleasedOnce' BY <1>1, MessageStep, LifeStep, ReleasedStep
<1>4. ~disturbed' => Undisturbed'
  BY <1>1, <1>2, <1>3, MapStep, CountStep, InsideStep, MarkStep, TakeStep DEF Undisturbed
<1> QED BY <1>2, <1>3, <1>4 DEF IInv

\* The types of the state, who serves and who moves which session, the
\* references (IOCount) as the sum of their holders, and, unless IsMoving was
\* reset by somebody else's message, the maps of the contents: each agrees
\* with the messages still in its queue about where the session is.
THEOREM ContentMoveInvariant ==
  ASSUME ContentAssumption
  PROVE  Spec => []IInv
<1>1. Init => IInv BY IInvInit
<1>2. IInv /\ [Next]_vars => IInv' BY IInvStep
<1> QED BY <1>1, <1>2, PTL DEF Spec

\* NetLib_Content.cpp:58: two contents do not read the ring of one session at
\* the same time, however it moves between them (unless IsMoving was reset by
\* a message or a move it was not set for).
THEOREM ContentMoveSingleReader ==
  ASSUME ContentAssumption
  PROVE  Spec => []SingleReader
<1>1. IInv => SingleReader BY DEF IInv, Undisturbed, TakeInv, SingleReader
<1> QED BY <1>1, ContentMoveInvariant, PTL

\* NetLib_Content.cpp:20-31, 98: a content's map has no handle of a session that
\* is neither in the content nor on its way out, and the count is the map's.
THEOREM ContentMoveNoGhosts ==
  ASSUME ContentAssumption
  PROVE  Spec => []NoGhosts
<1>1. ASSUME IInv PROVE NoGhosts
  <2> SUFFICES ASSUME ~disturbed, NEW c \in Contents
               PROVE  /\ \A h \in sessions[c] :
                           \/ Current(h[1]) = h /\ m_content[h[1]] = c /\ life[h[1]] # "free"
                           \/ Pending(c, "LEAVE", h)
                      /\ m_sessionCount[c] = Cardinality(sessions[c])
    BY DEF NoGhosts
  <2>1. MapInv /\ CountInv BY <1>1 DEF IInv, Undisturbed
  <2>2. ASSUME NEW h \in sessions[c], ~Pending(c, "LEAVE", h)
        PROVE  Current(h[1]) = h /\ m_content[h[1]] = c /\ life[h[1]] # "free"
    <3>1. ~InQueue(m_msgQueue[c], "LEAVE", h) BY <2>2 DEF Pending, InQueue
    <3> QED BY <1>1, <2>1, <3>1, MapSays
  <2> QED BY <2>1, <2>2 DEF CountInv
<1> QED BY <1>1, ContentMoveInvariant, PTL

\* NetLib_Server.cpp:746-775, NetLib_Content.cpp:115-118: whatever content a
\* session is in when its last reference goes, one RELEASE or one leave
\* completion is posted for its slot, and only for a slot that is released.
THEOREM ContentMoveReleasedOnce ==
  ASSUME ContentAssumption
  PROVE  Spec => []ReleasedOnce
<1>1. IInv => ReleasedOnce BY DEF IInv
<1> QED BY <1>1, ContentMoveInvariant, PTL

\* NetLib_Content.cpp:22, 77, 113, 123: a content runs OnRecv for a handle only
\* after its OnEnter and before its OnLeave or OnRelease of it.
THEOREM ContentMoveOnRecvInside ==
  ASSUME ContentAssumption
  PROVE  Spec => OnRecvInside
<1>1. ASSUME IInv, NEW c \in Contents, thread[c].at = "take"
      PROVE  disturbed \/ c \in inside[thread[c].handle]
  <2>1. thread[c].handle \in sessions[c] BY <1>1, TakerIs
  <2> QED BY <1>1, <2>1 DEF IInv, Undisturbed, TakeInv, InsideInv
<1>2. IInv /\ [Next]_vars =>
        [\A c \in Contents :
           thread[c].at = "take" /\ thread'[c].at = "receiving" =>
             disturbed \/ c \in inside[thread[c].handle]]_vars
  BY <1>1
<1> QED BY <1>2, ContentMoveInvariant, PTL DEF Spec, OnRecvInside
=============================================================================
