--------------------------- MODULE SqlitePool_proofs ---------------------------
(***************************************************************************)
(* What holds of SqlitePool for every set of threads and connections,      *)
(* every max_size and every bound: connections are never shared and never  *)
(* leak, the count is true, free slots are announced to the waiting        *)
(* threads, and the pool lends its slots as ConnectionSlots says.          *)
(***************************************************************************)
EXTENDS SqlitePool, FiniteSetTheorems, TLAPS

USE ConstantsAssumption, BoundsAssumption

\* A thread has a connection while it uses one; a closed pool is empty and
\* nobody waits for it.
Linked ==
    /\ \A t \in Thread : pc[t] = "using" <=> conn[t] # NoConn
    /\ closed => pool = {} /\ Waiters = {}
    /\ IsFiniteSet(pool)

\* The labels of a thread.
Label == {"idle", "waiting", "expired", "woken", "missed", "creating", "using"}

IInv == TypeOK /\ Linked /\ OnePlace /\ Counted /\ SlotsAnnounced

-----------------------------------------------------------------------------
(* Counting.                                                                *)

\* ConnectionSlots counts as this module does.
LEMMA SameCardinality == \A S : Lending!Cardinality(S) = Cardinality(S)
  BY Zenon DEF Lending!Cardinality, Cardinality

\* The sets of threads are finite.
LEMMA ThreadsFinite ==
  /\ IsFiniteSet(Busy) /\ Cardinality(Busy) \in Nat
  /\ IsFiniteSet(Woken) /\ Cardinality(Woken) \in Nat
<1>1. Busy \in SUBSET Thread /\ Woken \in SUBSET Thread
  BY DEF Busy, Woken
<1>2. IsFiniteSet(Busy) /\ IsFiniteSet(Woken)
  BY <1>1, FS_Subset
<1>3. QED  BY <1>2, FS_CardinalityType

\* The same in the next state.
LEMMA ThreadsFiniteNext ==
  IsFiniteSet(Woken') /\ Cardinality(Woken') \in Nat
<1>1. Woken' \in SUBSET Thread
  BY DEF Woken
<1>2. IsFiniteSet(Woken')
  BY <1>1, FS_Subset
<1>3. QED  BY <1>2, FS_CardinalityType

\* A thread that gets a slot is counted once more, and leaves at most one
\* place among the notified ones.
LEMMA SlotTaken ==
  ASSUME TypeOK, NEW t \in Thread, pc[t] \in {"idle", "woken"},
         NEW l \in {"creating", "using"}, Goto(t, l)
  PROVE  /\ Busy' = Busy \cup {t} /\ t \notin Busy
         /\ Cardinality(Busy') = Cardinality(Busy) + 1
         /\ Cardinality(Woken) <= Cardinality(Woken') + 1
         /\ Waiters' = Waiters
<1>1. pc' = [pc EXCEPT ![t] = l] /\ pc \in [Thread -> Label]
  BY DEF Goto, TypeOK, Label
<1>2. Busy' = Busy \cup {t} /\ t \notin Busy
  BY <1>1 DEF Busy
<1>3. Waiters' = Waiters /\ Woken' = Woken \ {t}
  BY <1>1 DEF Waiters, Woken
<1>4. Cardinality(Busy') = Cardinality(Busy) + 1
  BY <1>2, ThreadsFinite, FS_AddElement
<1>5. Cardinality(Woken) <= Cardinality(Woken') + 1
  <2>1. Cardinality(Woken') = Cardinality(Woken \ {t})
    BY <1>3
  <2>2. Cardinality(Woken \ {t}) = IF t \in Woken THEN Cardinality(Woken) - 1
                                   ELSE Cardinality(Woken)
    BY ThreadsFinite, FS_RemoveElement
  <2>3. QED  BY <2>1, <2>2, ThreadsFinite
<1>6. QED  BY <1>2, <1>3, <1>4, <1>5

\* A thread that gives a slot back was counted.
LEMMA SlotReturned ==
  ASSUME TypeOK, NEW t \in Thread, t \in Busy, Busy' = Busy \ {t}
  PROVE  /\ Cardinality(Busy') = Cardinality(Busy) - 1
         /\ Cardinality(Busy) \in Nat \ {0}
<1>1. Cardinality(Busy') = Cardinality(Busy) - 1
  BY ThreadsFinite, FS_RemoveElement
<1>2. Cardinality(Busy) # 0
  BY ThreadsFinite, FS_EmptySet
<1>3. QED  BY <1>1, <1>2, ThreadsFinite

\* Closing connections leaves the others as they are.
LEMMA Closing ==
  ASSUME TypeOK, NEW S \in SUBSET Conn, Close(S)
  PROVE  /\ state' \in [Conn -> {"unused", "open", "broken", "closed"}]
         /\ \A c \in Conn : Live(c)' <=> Live(c) /\ c \notin S
  BY DEF TypeOK, Close, Live

-----------------------------------------------------------------------------
(* The initial state and the steps.                                         *)

\* The initial state.
LEMMA InitInv == Init => IInv
<1> SUFFICES ASSUME Init PROVE IInv
  OBVIOUS
<1>1. TypeOK
  <2>1. pc \in [Thread -> Label]
        /\ conn \in [Thread -> Conn \cup {NoConn}]
    BY DEF Init, Label
  <2>2. state \in [Conn -> {"unused", "open", "broken", "closed"}]
    BY DEF Init
  <2>3. closed \in BOOLEAN
    BY Zenon DEF Init
  <2>4. /\ pool \subseteq Conn /\ active \in Nat /\ missed \in Nat
        /\ calls \in 0..MaxCalls /\ createFailures \in 0..MaxCreateFailures
        /\ broken \in 0..MaxBroken
    BY DEF Init
  <2>5. QED  BY <2>1, <2>2, <2>3, <2>4 DEF TypeOK, Label
<1>2. Busy = {} /\ Woken = {} /\ Waiters = {}
  BY DEF Init, Busy, Woken, Waiters
<1>3. Linked
  BY <1>2, FS_EmptySet DEF Init, Linked
<1>4. OnePlace
  BY DEF Init, OnePlace, Live
<1>5. Counted /\ SlotsAnnounced
  BY <1>2, FS_EmptySet DEF Init, Counted, SlotsAnnounced
<1>6. QED  BY <1>1, <1>3, <1>4, <1>5 DEF IInv

\* What an attempt of acquire starts from.
LEMMA Attempting ==
  ASSUME IInv, NEW t \in Thread, Attempts(t)
  PROVE  /\ pc[t] \in {"idle", "woken"} /\ conn[t] = NoConn /\ ~closed
         /\ closed' = closed /\ missed' = missed /\ createFailures' = createFailures
         /\ broken' = broken /\ calls' \in 0..MaxCalls
         /\ Valid \subseteq pool /\ pool \subseteq Conn
<1>1. pc[t] \in {"idle", "woken"} /\ ~closed /\ calls' \in 0..MaxCalls
  BY DEF Attempts, Begins, Retries, IInv, TypeOK
<1>2. conn[t] = NoConn
  BY <1>1 DEF IInv, Linked
<1>3. QED  BY <1>1, <1>2 DEF Attempts, Valid, IInv, TypeOK

\* A pooled connection is taken.
LEMMA TakePooledInv ==
  ASSUME IInv, NEW t \in Thread, TakePooled(t)
  PROVE  IInv' /\ Lending!Lend(t)
<1>1. PICK c \in Valid : \E bad \in SUBSET (pool \ Valid) :
         /\ pool' = pool \ (bad \cup {c})
         /\ Close(bad)
         /\ conn' = [conn EXCEPT ![t] = c]
  BY DEF TakePooled
<1>2. PICK bad \in SUBSET (pool \ Valid) :
         /\ pool' = pool \ (bad \cup {c})
         /\ Close(bad)
         /\ conn' = [conn EXCEPT ![t] = c]
  BY <1>1
<1>3. /\ Attempts(t) /\ active' = active + 1 /\ Goto(t, "using")
      /\ TypeOK /\ Linked /\ OnePlace /\ Counted /\ SlotsAnnounced
  BY DEF TakePooled, IInv
<1>4. /\ pc[t] \in {"idle", "woken"} /\ conn[t] = NoConn /\ ~closed
      /\ closed' = closed /\ missed' = missed /\ createFailures' = createFailures
      /\ broken' = broken /\ calls' \in 0..MaxCalls
      /\ Valid \subseteq pool /\ pool \subseteq Conn
  BY <1>3, Attempting
<1>5. /\ Busy' = Busy \cup {t} /\ t \notin Busy
      /\ Cardinality(Busy') = Cardinality(Busy) + 1
      /\ Cardinality(Woken) <= Cardinality(Woken') + 1
      /\ Waiters' = Waiters
  BY <1>3, <1>4, SlotTaken
<1>6. /\ state' \in [Conn -> {"unused", "open", "broken", "closed"}]
      /\ \A x \in Conn : Live(x)' <=> Live(x) /\ x \notin bad
  BY <1>2, <1>3, <1>4, Closing
<1>7. IsFiniteSet(pool') /\ Cardinality(pool') + 1 <= Cardinality(pool)
      /\ Cardinality(pool) \in Nat /\ Cardinality(pool') \in Nat
  <2>1. IsFiniteSet(pool) /\ Cardinality(pool) \in Nat
    BY <1>3, FS_CardinalityType DEF Linked
  <2>2. /\ IsFiniteSet(pool \ {c})
        /\ Cardinality(pool \ {c}) = Cardinality(pool) - 1
    BY <1>4, <2>1, FS_RemoveElement
  <2>3. pool' \in SUBSET (pool \ {c})
    BY <1>2
  <2>4. IsFiniteSet(pool') /\ Cardinality(pool') <= Cardinality(pool \ {c})
    BY <2>2, <2>3, FS_Subset
  <2>5. Cardinality(pool') \in Nat
    BY <2>4, FS_CardinalityType
  <2>6. QED  BY <2>1, <2>2, <2>4, <2>5
<1>8. TypeOK'
  BY <1>2, <1>3, <1>4, <1>6 DEF TypeOK, Goto
<1>9. Linked'
  BY <1>2, <1>3, <1>4, <1>7 DEF Linked, Goto, TypeOK
<1>10. OnePlace'
  <2>1. conn'[t] = c /\ \A u \in Thread : u # t => conn'[u] = conn[u]
    BY <1>2, <1>3 DEF TypeOK
  <2>2. c \in pool /\ c \in Conn /\ c # NoConn /\ c \notin bad
    BY <1>4
  <2>3. ASSUME NEW x \in Conn
        PROVE  Live(x)' <=> x \in pool' \/ \E u \in Thread : conn'[u] = x
    <3>1. Live(x) <=> x \in pool \/ \E u \in Thread : conn[u] = x
      BY <1>3 DEF OnePlace
    <3>2. CASE x = c
      BY <1>6, <2>1, <2>2, <3>1, <3>2
    <3>3. CASE x # c
      <4>1. (\E u \in Thread : conn'[u] = x) <=> (\E u \in Thread : conn[u] = x)
        BY <1>4, <2>1, <3>3
      <4>2. x \in pool' <=> x \in pool /\ x \notin bad
        BY <1>2, <3>3
      <4>3. x \in bad => ~ \E u \in Thread : conn[u] = x
        BY <1>3 DEF OnePlace
      <4>4. QED  BY <1>6, <3>1, <4>1, <4>2, <4>3
    <3>4. QED  BY <3>2, <3>3
  <2>4. \A u \in Thread : conn'[u] \notin pool'
    BY <1>2, <1>3, <2>1 DEF OnePlace
  <2>5. \A u, v \in Thread : conn'[u] = conn'[v] /\ conn'[u] # NoConn => u = v
    BY <1>3, <2>1, <2>2 DEF OnePlace
  <2>6. QED  BY <2>3, <2>4, <2>5 DEF OnePlace
<1>11. Counted'
  BY <1>3, <1>5, <1>7, ThreadsFinite DEF Counted, TypeOK
<1>12. SlotsAnnounced'
  BY <1>3, <1>4, <1>5, ThreadsFinite, ThreadsFiniteNext
  DEF SlotsAnnounced, TypeOK
<1>13. Lending!Lend(t)
  <2>1. Cardinality(Busy) < MaxSize
    BY <1>3, <1>7, ThreadsFinite DEF Counted
  <2>2. QED  BY <1>4, <1>5, <2>1, SameCardinality, Zenon DEF Lending!Lend
<1>14. QED  BY <1>8, <1>9, <1>10, <1>11, <1>12, <1>13 DEF IInv

\* Invalid pooled connections are closed and the pool is left empty.
LEMMA Draining ==
  ASSUME IInv, NEW t \in Thread, Attempts(t), Drains
  PROVE  /\ state' \in [Conn -> {"unused", "open", "broken", "closed"}]
         /\ pool' = {} /\ IsFiniteSet(pool') /\ Cardinality(pool') = 0
         /\ conn' = conn
         /\ OnePlace'
<1>1. /\ pool' = {} /\ Close(pool) /\ conn' = conn /\ pool \in SUBSET Conn
      /\ TypeOK /\ OnePlace
  BY DEF Drains, IInv, TypeOK
<1>2. /\ state' \in [Conn -> {"unused", "open", "broken", "closed"}]
      /\ \A x \in Conn : Live(x)' <=> Live(x) /\ x \notin pool
  BY <1>1, Closing
<1>3. OnePlace'
  BY <1>1, <1>2 DEF OnePlace
<1>4. QED  BY <1>1, <1>2, <1>3, FS_EmptySet

\* A slot is taken to open a connection.
LEMMA BeginCreateInv ==
  ASSUME IInv, NEW t \in Thread, BeginCreate(t)
  PROVE  IInv' /\ Lending!Lend(t)
<1>1. /\ Attempts(t) /\ Drains /\ active < MaxSize /\ active' = active + 1
      /\ Goto(t, "creating")
      /\ TypeOK /\ Linked /\ OnePlace /\ Counted /\ SlotsAnnounced
  BY DEF BeginCreate, IInv
<1>2. /\ pc[t] \in {"idle", "woken"} /\ conn[t] = NoConn /\ ~closed
      /\ closed' = closed /\ missed' = missed /\ createFailures' = createFailures
      /\ broken' = broken /\ calls' \in 0..MaxCalls
  BY <1>1, Attempting
<1>3. /\ Busy' = Busy \cup {t} /\ t \notin Busy
      /\ Cardinality(Busy') = Cardinality(Busy) + 1
      /\ Cardinality(Woken) <= Cardinality(Woken') + 1
      /\ Waiters' = Waiters
  BY <1>1, <1>2, SlotTaken
<1>4. /\ state' \in [Conn -> {"unused", "open", "broken", "closed"}]
      /\ pool' = {} /\ IsFiniteSet(pool') /\ Cardinality(pool') = 0
      /\ conn' = conn /\ OnePlace'
  BY <1>1, Draining
<1>5. TypeOK'
  BY <1>1, <1>2, <1>4 DEF TypeOK, Goto
<1>6. Linked'
  BY <1>1, <1>2, <1>3, <1>4 DEF Linked, Goto, TypeOK
<1>7. Counted'
  BY <1>1, <1>3, <1>4, ThreadsFinite DEF Counted, TypeOK
<1>8. SlotsAnnounced'
  BY <1>1, <1>2, <1>3, ThreadsFinite, ThreadsFiniteNext
  DEF SlotsAnnounced, TypeOK
<1>9. Lending!Lend(t)
  <2>1. Cardinality(Busy) < MaxSize
    BY <1>1 DEF Counted
  <2>2. QED  BY <1>2, <1>3, <2>1, SameCardinality, Zenon DEF Lending!Lend
<1>10. QED  BY <1>4, <1>5, <1>6, <1>7, <1>8, <1>9 DEF IInv

\* A thread waits or gives up because no slot is free.
LEMMA ExhaustedInv ==
  ASSUME IInv, NEW t \in Thread, Exhausted(t)
  PROVE  IInv' /\ UNCHANGED <<Busy, closed>>
<1>1. /\ Attempts(t) /\ Drains /\ active >= MaxSize /\ active' = active
      /\ Goto(t, "waiting") \/ Goto(t, "idle")
      /\ TypeOK /\ Linked /\ OnePlace /\ Counted /\ SlotsAnnounced
  BY DEF Exhausted, IInv
<1>2. /\ pc[t] \in {"idle", "woken"} /\ conn[t] = NoConn /\ ~closed
      /\ closed' = closed /\ missed' = missed /\ createFailures' = createFailures
      /\ broken' = broken /\ calls' \in 0..MaxCalls
  BY <1>1, Attempting
<1>3. /\ state' \in [Conn -> {"unused", "open", "broken", "closed"}]
      /\ pool' = {} /\ IsFiniteSet(pool') /\ Cardinality(pool') = 0
      /\ conn' = conn /\ OnePlace'
  BY <1>1, Draining
<1>4. PICK l \in {"waiting", "idle"} : pc' = [pc EXCEPT ![t] = l]
  BY <1>1 DEF Goto
<1>5. Busy' = Busy
  BY <1>1, <1>2, <1>4 DEF Busy, TypeOK
<1>6. TypeOK'
  BY <1>1, <1>2, <1>3, <1>4 DEF TypeOK
<1>7. Linked'
  BY <1>1, <1>2, <1>3, <1>4 DEF Linked, TypeOK
<1>8. Counted'
  <2>1. Cardinality(pool) \in Nat
    BY <1>1, FS_CardinalityType DEF Linked
  <2>2. QED  BY <1>1, <1>3, <1>5, <2>1 DEF Counted, TypeOK
<1>9. SlotsAnnounced'
  BY <1>1, <1>2, ThreadsFiniteNext DEF SlotsAnnounced, TypeOK
<1>10. QED  BY <1>2, <1>3, <1>5, <1>6, <1>7, <1>8, <1>9 DEF IInv

\* A connection is opened for the thread that has the slot.
LEMMA CreatedInv ==
  ASSUME IInv, NEW t \in Thread, Created(t)
  PROVE  IInv' /\ UNCHANGED <<Busy, closed>>
<1>1. PICK c \in Conn : /\ state[c] = "unused"
                        /\ state' = [state EXCEPT ![c] = "open"]
                        /\ conn' = [conn EXCEPT ![t] = c]
  BY DEF Created
<1>2. /\ pc[t] = "creating" /\ pc' = [pc EXCEPT ![t] = "using"]
      /\ UNCHANGED <<pool, active, closed, missed, calls, createFailures, broken>>
      /\ TypeOK /\ Linked /\ OnePlace /\ Counted /\ SlotsAnnounced
  BY DEF Created, Goto, sharedVars, IInv
<1>3. UNCHANGED <<Busy, Waiters, Woken>>
  BY <1>2 DEF Busy, Waiters, Woken, TypeOK
<1>4. TypeOK'
  BY <1>1, <1>2 DEF TypeOK
<1>5. c # NoConn /\ conn[t] = NoConn
  BY <1>2 DEF Linked
<1>6. Linked'
  BY <1>1, <1>2, <1>3, <1>5 DEF Linked, TypeOK
<1>7. OnePlace'
  <2>1. conn'[t] = c /\ \A u \in Thread : u # t => conn'[u] = conn[u]
    BY <1>1, <1>2 DEF TypeOK
  <2>2. \A x \in Conn : Live(x)' <=> Live(x) \/ x = c
    BY <1>1, <1>2 DEF Live, TypeOK
  <2>3. ~Live(c) /\ c \notin pool /\ \A u \in Thread : conn[u] # c
    BY <1>1, <1>2 DEF Live, OnePlace
  <2>4. \A x \in Conn : Live(x)' <=> x \in pool' \/ \E u \in Thread : conn'[u] = x
    BY <1>2, <1>5, <2>1, <2>2, <2>3 DEF OnePlace
  <2>5. QED  BY <1>2, <2>1, <2>3, <2>4 DEF OnePlace
<1>8. Counted' /\ SlotsAnnounced'
  BY <1>2, <1>3 DEF Counted, SlotsAnnounced
<1>9. QED  BY <1>2, <1>3, <1>4, <1>6, <1>7, <1>8 DEF IInv

\* The slot of a creation that failed is free, and the failure is counted.
LEMMA CreateFailsInv ==
  ASSUME IInv, NEW t \in Thread, CreateFails(t)
  PROVE  IInv' /\ Lending!Return(t)
<1>1. /\ pc[t] = "creating" /\ pc' = [pc EXCEPT ![t] = "idle"]
      /\ active' = active - 1 /\ createFailures' = createFailures + 1
      /\ createFailures' \in 0..MaxCreateFailures
      /\ UNCHANGED <<pool, closed, conn, state, missed, calls, broken>>
      /\ TypeOK /\ Linked /\ OnePlace /\ Counted /\ SlotsAnnounced
  BY DEF CreateFails, Goto, IInv, TypeOK
<1>2. /\ Busy' = Busy \ {t} /\ t \in Busy
      /\ UNCHANGED <<Waiters, Woken>>
  BY <1>1 DEF Busy, Waiters, Woken, TypeOK
<1>3. /\ Cardinality(Busy') = Cardinality(Busy) - 1
      /\ Cardinality(Busy) \in Nat \ {0}
  BY <1>1, <1>2, SlotReturned
<1>4. active' \in Nat /\ Counted'
  <2>1. Cardinality(pool) \in Nat
    BY <1>1, FS_CardinalityType DEF Linked
  <2>2. QED  BY <1>1, <1>3, <2>1 DEF Counted
<1>5. TypeOK'
  BY <1>1, <1>4 DEF TypeOK
<1>6. Linked'
  BY <1>1, <1>2 DEF Linked, TypeOK
<1>7. OnePlace'
  BY <1>1 DEF OnePlace, Live
<1>8. SlotsAnnounced'
  BY <1>1, <1>2, ThreadsFinite DEF SlotsAnnounced, TypeOK
<1>9. Lending!Return(t)
  BY <1>1, <1>2, Zenon DEF Lending!Return
<1>10. QED  BY <1>4, <1>5, <1>6, <1>7, <1>8, <1>9 DEF IInv

\* A wait ends without a connection.
LEMMA LeavesInv ==
  ASSUME IInv, NEW t \in Thread, Expires(t) \/ TimesOut(t) \/ FindsClosed(t)
  PROVE  IInv' /\ UNCHANGED <<Busy, closed>>
<1>1. PICK l \in {"idle", "expired"} :
      /\ pc[t] \in {"waiting", "expired", "missed"} \/ (pc[t] = "woken" /\ closed)
      /\ pc' = [pc EXCEPT ![t] = l]
      /\ UNCHANGED <<pool, active, closed, conn, state, missed, calls,
                     createFailures, broken>>
      /\ TypeOK /\ Linked /\ OnePlace /\ Counted /\ SlotsAnnounced
  BY DEF Expires, TimesOut, FindsClosed, Goto, sharedVars, IInv
<1>2. /\ Busy' = Busy /\ Waiters' \subseteq Waiters
      /\ Woken' = Woken \/ closed
  BY <1>1 DEF Busy, Waiters, Woken, TypeOK
<1>3. TypeOK' /\ Linked' /\ OnePlace'
  <2>1. TypeOK'
    BY <1>1 DEF TypeOK
  <2>2. Linked'
    BY <1>1, <1>2 DEF Linked, TypeOK
  <2>3. OnePlace'
    BY <1>1 DEF OnePlace, Live
  <2>4. QED  BY <2>1, <2>2, <2>3
<1>4. Counted'
  BY <1>1, <1>2 DEF Counted
<1>5. SlotsAnnounced'
  <2>1. CASE closed
    BY <1>1, <2>1 DEF SlotsAnnounced
  <2>2. CASE ~closed
    BY <1>1, <1>2, <2>2 DEF SlotsAnnounced
  <2>3. QED  BY <2>1, <2>2
<1>6. QED  BY <1>1, <1>2, <1>3, <1>4, <1>5 DEF IInv

\* The connection of a thread that releases it: live, its own, not pooled.
LEMMA Releasing ==
  ASSUME IInv, NEW t \in Thread, pc[t] = "using"
  PROVE  /\ conn[t] \in Conn /\ conn[t] # NoConn /\ Live(conn[t])
         /\ conn[t] \notin pool /\ t \in Busy
         /\ \A u \in Thread : u # t => conn[u] # conn[t]
<1>1. conn[t] # NoConn /\ conn[t] \in Conn
  BY DEF IInv, Linked, TypeOK
<1>2. QED  BY <1>1 DEF IInv, OnePlace, Busy

\* Who is busy after a thread has released its connection, and who has been
\* told.
LEMMA Released ==
  ASSUME IInv, NEW t \in Thread, pc[t] = "using", Notify(t)
  PROVE  /\ pc' \in [Thread -> Label] /\ missed' \in Nat
         /\ pc'[t] = "idle" /\ \A u \in Thread : pc'[u] = "using" <=> pc[u] = "using" /\ u # t
         /\ Busy' = Busy \ {t}
         /\ Waiters' # {} =>
              Cardinality(Woken') + missed' = Cardinality(Woken) + missed + 1
<1>1. pc \in [Thread -> Label] /\ missed \in Nat
  BY DEF IInv, TypeOK, Label
<1>2. CASE Waiters \cup Expired = {} /\ Goto(t, "idle") /\ UNCHANGED missed
  <2>1. Waiters' = {}
    BY <1>1, <1>2 DEF Waiters, Goto
  <2>2. Busy' = Busy \ {t}
    BY <1>1, <1>2 DEF Busy, Goto
  <2>3. QED  BY <1>1, <1>2, <2>1, <2>2 DEF Goto, Label
<1>3. ASSUME NEW w \in Waiters \cup Expired, NEW l \in {"woken", "missed"},
             pc' = [pc EXCEPT ![t] = "idle", ![w] = l]
      PROVE  /\ pc'[t] = "idle" /\ pc'[w] = l /\ w # t
             /\ pc' \in [Thread -> Label]
             /\ \A u \in Thread : u # t /\ u # w => pc'[u] = pc[u]
             /\ pc[w] \in {"waiting", "expired"} /\ w \in Thread
             /\ Busy' = Busy \ {t}
  <2>1. w \in Thread /\ pc[w] \in {"waiting", "expired"} /\ w # t
    BY <1>3 DEF Waiters, Expired
  <2>2. /\ pc'[t] = "idle" /\ pc'[w] = l /\ pc' \in [Thread -> Label]
        /\ \A u \in Thread : u # t /\ u # w => pc'[u] = pc[u]
    BY <1>1, <1>3, <2>1 DEF Label
  <2>3. Busy' = Busy \ {t}
    BY <2>1, <2>2 DEF Busy
  <2>4. QED  BY <2>1, <2>2, <2>3
<1>4. CASE \E w \in Waiters : /\ pc' = [pc EXCEPT ![t] = "idle", ![w] = "woken"]
                              /\ UNCHANGED missed
  <2>1. PICK w \in Waiters : pc' = [pc EXCEPT ![t] = "idle", ![w] = "woken"]
    BY <1>4
  <2>2. Woken' = Woken \cup {w} /\ w \notin Woken
    BY <1>3, <2>1 DEF Woken, Waiters
  <2>3. Cardinality(Woken') = Cardinality(Woken) + 1
    BY <2>2, ThreadsFinite, FS_AddElement
  <2>4. /\ pc' \in [Thread -> Label] /\ Busy' = Busy \ {t} /\ pc'[t] = "idle"
        /\ \A u \in Thread : pc'[u] = "using" <=> pc[u] = "using" /\ u # t
    BY <1>3, <2>1
  <2>5. QED  BY <1>1, <1>4, <2>3, <2>4, ThreadsFinite
<1>5. CASE \E w \in Expired : /\ pc' = [pc EXCEPT ![t] = "idle", ![w] = "missed"]
                              /\ missed' = missed + 1
  <2>1. PICK w \in Expired : pc' = [pc EXCEPT ![t] = "idle", ![w] = "missed"]
    BY <1>5
  <2>2. Woken' = Woken
    BY <1>3, <2>1 DEF Woken
  <2>3. /\ pc' \in [Thread -> Label] /\ Busy' = Busy \ {t} /\ pc'[t] = "idle"
        /\ \A u \in Thread : pc'[u] = "using" <=> pc[u] = "using" /\ u # t
    BY <1>3, <2>1
  <2>4. QED  BY <1>1, <1>5, <2>2, <2>3, ThreadsFinite
<1>6. QED  BY <1>2, <1>4, <1>5, Zenon DEF Notify

\* A connection goes back to the pool or is closed, and one waiting thread is
\* notified.
LEMMA ReleaseInv ==
  ASSUME IInv, NEW t \in Thread, Release(t)
  PROVE  IInv' /\ Lending!Return(t)
<1>0. PICK c \in Conn : c = conn[t]
  BY Releasing DEF Release
<1>1. /\ pc[t] = "using" /\ ~closed /\ closed' = closed
      /\ active' = active - 1 /\ conn' = [conn EXCEPT ![t] = NoConn]
      /\ Notify(t)
      /\ UNCHANGED <<calls, createFailures, broken>>
      /\ TypeOK /\ Linked /\ OnePlace /\ Counted /\ SlotsAnnounced
  BY DEF Release, IInv
<1>2. /\ c \in Conn /\ c # NoConn /\ Live(c) /\ c \notin pool /\ t \in Busy
      /\ \A u \in Thread : u # t => conn[u] # c
  BY <1>0, <1>1, Releasing
<1>3. /\ pc' \in [Thread -> Label]
      /\ pc'[t] = "idle" /\ \A u \in Thread : pc'[u] = "using" <=> pc[u] = "using" /\ u # t
      /\ Busy' = Busy \ {t}
      /\ missed' \in Nat
      /\ Waiters' # {} =>
           Cardinality(Woken') + missed' = Cardinality(Woken) + missed + 1
  BY <1>1, Released
<1>4. /\ Cardinality(Busy') = Cardinality(Busy) - 1
      /\ Cardinality(Busy) \in Nat \ {0}
  BY <1>1, <1>2, <1>3, SlotReturned
<1>5. \/ state[c] = "open" /\ pool' = pool \cup {c} /\ UNCHANGED state
      \/ state[c] = "broken" /\ Close({c}) /\ UNCHANGED pool
  BY <1>0 DEF Release
<1>6. /\ state' \in [Conn -> {"unused", "open", "broken", "closed"}]
      /\ pool' \subseteq Conn
      /\ \A x \in Conn : x # c => (Live(x)' <=> Live(x)) /\ (x \in pool' <=> x \in pool)
      /\ Live(c)' <=> c \in pool'
  <2>1. CASE state[c] = "open" /\ pool' = pool \cup {c} /\ UNCHANGED state
    <3>1. state' \in [Conn -> {"unused", "open", "broken", "closed"}] /\ pool' \subseteq Conn
      BY <1>1, <1>2, <2>1 DEF TypeOK
    <3>2. \A x \in Conn : Live(x)' <=> Live(x)
      BY <2>1 DEF Live
    <3>3. \A x \in Conn : x # c => (x \in pool' <=> x \in pool)
      BY <2>1
    <3>4. Live(c)' /\ c \in pool'
      BY <1>2, <2>1, <3>2
    <3>5. QED  BY <3>1, <3>2, <3>3, <3>4
  <2>2. CASE state[c] = "broken" /\ Close({c}) /\ UNCHANGED pool
    <3>1. {c} \in SUBSET Conn
      BY <1>2
    <3>2. /\ state' \in [Conn -> {"unused", "open", "broken", "closed"}]
          /\ \A x \in Conn : Live(x)' <=> Live(x) /\ x \notin {c}
      BY <1>1, <2>2, <3>1, Closing
    <3>3. pool' = pool /\ pool' \subseteq Conn
      BY <1>1, <2>2 DEF TypeOK
    <3>4. ~Live(c)' /\ c \notin pool'
      BY <1>2, <3>2, <3>3
    <3>5. \A x \in Conn : x # c => (Live(x)' <=> Live(x))
      BY <3>2
    <3>6. QED  BY <3>2, <3>3, <3>4, <3>5
  <2>3. QED  BY <1>5, <2>1, <2>2
<1>7. /\ IsFiniteSet(pool') /\ Cardinality(pool) \in Nat /\ Cardinality(pool') \in Nat
      /\ Cardinality(pool') <= Cardinality(pool) + 1
  <2>1. IsFiniteSet(pool) /\ Cardinality(pool) \in Nat
    BY <1>1, FS_CardinalityType DEF Linked
  <2>2. /\ IsFiniteSet(pool \cup {c})
        /\ Cardinality(pool \cup {c}) = Cardinality(pool) + 1
    BY <1>2, <2>1, FS_AddElement
  <2>3. CASE pool' = pool
    BY <2>1, <2>3
  <2>4. CASE pool' = pool \cup {c}
    <3>1. IsFiniteSet(pool') /\ Cardinality(pool') = Cardinality(pool) + 1
      BY <2>2, <2>4
    <3>2. QED  BY <2>1, <3>1
  <2>5. QED  BY <1>5, <2>3, <2>4
<1>8. active' \in Nat /\ Counted'
  BY <1>1, <1>4, <1>7 DEF Counted, TypeOK
<1>9. TypeOK'
  BY <1>1, <1>3, <1>6, <1>8 DEF TypeOK, Label
<1>10. conn'[t] = NoConn /\ \A u \in Thread : u # t => conn'[u] = conn[u]
  BY <1>1 DEF TypeOK
<1>11. Linked'
  BY <1>1, <1>3, <1>7, <1>10 DEF Linked
<1>12. OnePlace'
  <2>1. \A x \in Conn : Live(x)' <=> x \in pool' \/ \E u \in Thread : conn'[u] = x
    <3> SUFFICES ASSUME NEW x \in Conn
                 PROVE  Live(x)' <=> x \in pool' \/ \E u \in Thread : conn'[u] = x
      OBVIOUS
    <3>1. CASE x = c
      <4>1. \A u \in Thread : conn'[u] # c
        BY <1>2, <1>10
      <4>2. QED  BY <1>6, <3>1, <4>1
    <3>2. CASE x # c
      <4>0. conn[t] # x /\ conn'[t] # x
        BY <1>0, <1>10, <3>2
      <4>1. (\E u \in Thread : conn'[u] = x) <=> (\E u \in Thread : conn[u] = x)
        BY <1>10, <4>0
      <4>2. QED  BY <1>1, <1>6, <3>2, <4>1 DEF OnePlace
    <3>3. QED  BY <3>1, <3>2
  <2>2. ASSUME NEW u \in Thread
        PROVE  conn'[u] \notin pool'
    <3>1. CASE u = t
      BY <1>6, <1>10, <3>1
    <3>2. CASE u # t
      BY <1>1, <1>2, <1>5, <1>10, <3>2 DEF OnePlace
    <3>3. QED  BY <3>1, <3>2
  <2>3. \A u, v \in Thread : conn'[u] = conn'[v] /\ conn'[u] # NoConn => u = v
    BY <1>1, <1>10 DEF OnePlace
  <2>4. QED  BY <2>1, <2>2, <2>3 DEF OnePlace
<1>13. SlotsAnnounced'
  <2>1. Waiters' # {} => Waiters # {}
    BY <1>1 DEF Notify, Waiters, Goto, TypeOK
  <2>2. active \in Nat /\ missed \in Nat /\ createFailures \in Nat
    BY <1>1 DEF TypeOK
  <2>3. QED
    BY <1>1, <1>3, <2>1, <2>2, ThreadsFinite, ThreadsFiniteNext
    DEF SlotsAnnounced
<1>14. Lending!Return(t)
  BY <1>0, <1>1, <1>2, <1>3, Zenon DEF Lending!Return
<1>15. QED  BY <1>8, <1>9, <1>11, <1>12, <1>13, <1>14 DEF IInv

\* A connection released to a closed pool is closed.
LEMMA ReleaseClosedInv ==
  ASSUME IInv, NEW t \in Thread, ReleaseClosed(t)
  PROVE  IInv' /\ Lending!Return(t)
<1>0. PICK c \in Conn : c = conn[t]
  BY Releasing DEF ReleaseClosed
<1>1. /\ pc[t] = "using" /\ closed /\ closed' = closed /\ pool' = pool
      /\ active' = active - 1 /\ conn' = [conn EXCEPT ![t] = NoConn]
      /\ pc' = [pc EXCEPT ![t] = "idle"] /\ Close({c})
      /\ UNCHANGED <<missed, calls, createFailures, broken>>
      /\ TypeOK /\ Linked /\ OnePlace /\ Counted /\ SlotsAnnounced
  BY <1>0 DEF ReleaseClosed, Goto, IInv
<1>2. /\ c \in Conn /\ c # NoConn /\ Live(c) /\ c \notin pool /\ t \in Busy
      /\ \A u \in Thread : u # t => conn[u] # c
  BY <1>0, <1>1, Releasing
<1>3. Busy' = Busy \ {t} /\ Waiters' = Waiters
  BY <1>1 DEF Busy, Waiters, TypeOK
<1>4. /\ Cardinality(Busy') = Cardinality(Busy) - 1
      /\ Cardinality(Busy) \in Nat \ {0}
  BY <1>1, <1>2, <1>3, SlotReturned
<1>5. /\ state' \in [Conn -> {"unused", "open", "broken", "closed"}]
      /\ \A x \in Conn : Live(x)' <=> Live(x) /\ x # c
  BY <1>1, <1>2, Closing
<1>6. active' \in Nat /\ Counted'
  <2>1. Cardinality(pool) \in Nat
    BY <1>1, FS_CardinalityType DEF Linked
  <2>2. QED  BY <1>1, <1>4, <2>1 DEF Counted, TypeOK
<1>7. TypeOK'
  BY <1>1, <1>5, <1>6 DEF TypeOK
<1>8. conn'[t] = NoConn /\ \A u \in Thread : u # t => conn'[u] = conn[u]
  BY <1>1 DEF TypeOK
<1>9. Linked'
  BY <1>1, <1>3, <1>8 DEF Linked, TypeOK
<1>10. OnePlace'
  <2>1. \A x \in Conn : Live(x)' <=> x \in pool' \/ \E u \in Thread : conn'[u] = x
    BY <1>1, <1>2, <1>5, <1>8 DEF OnePlace
  <2>2. \A u \in Thread : conn'[u] \notin pool'
    BY <1>1, <1>8 DEF OnePlace, Linked
  <2>3. \A u, v \in Thread : conn'[u] = conn'[v] /\ conn'[u] # NoConn => u = v
    BY <1>1, <1>8 DEF OnePlace
  <2>4. QED  BY <2>1, <2>2, <2>3 DEF OnePlace
<1>11. SlotsAnnounced'
  BY <1>1 DEF SlotsAnnounced
<1>12. Lending!Return(t)
  BY <1>1, <1>2, <1>3, Zenon DEF Lending!Return
<1>13. QED  BY <1>6, <1>7, <1>9, <1>10, <1>11, <1>12 DEF IInv

\* The pooled connections are closed and every waiting thread is notified.
LEMMA CloseAllInv ==
  ASSUME IInv, CloseAll
  PROVE  IInv' /\ Busy' = Busy /\ Lending!Close
<1>1. /\ closed' = TRUE /\ pool' = {} /\ Close(pool) /\ pool \in SUBSET Conn
      /\ pc' = [t \in Thread |-> IF pc[t] = "waiting" THEN "woken" ELSE pc[t]]
      /\ UNCHANGED <<active, conn, missed, calls, createFailures, broken>>
      /\ TypeOK /\ Linked /\ OnePlace /\ Counted /\ SlotsAnnounced
  BY DEF CloseAll, IInv, TypeOK
<1>2. Busy' = Busy /\ Waiters' = {}
  BY <1>1 DEF Busy, Waiters, TypeOK
<1>3. /\ state' \in [Conn -> {"unused", "open", "broken", "closed"}]
      /\ \A x \in Conn : Live(x)' <=> Live(x) /\ x \notin pool
  BY <1>1, Closing
<1>4. IsFiniteSet(pool') /\ Cardinality(pool') = 0
  BY <1>1, FS_EmptySet
<1>5. TypeOK'
  BY <1>1, <1>3 DEF TypeOK
<1>6. Linked'
  BY <1>1, <1>2, <1>4 DEF Linked, TypeOK
<1>7. OnePlace'
  BY <1>1, <1>3 DEF OnePlace
<1>8. Counted'
  <2>1. Cardinality(pool) \in Nat
    BY <1>1, FS_CardinalityType DEF Linked
  <2>2. QED  BY <1>1, <1>2, <1>4, <2>1 DEF Counted, TypeOK
<1>9. SlotsAnnounced'
  BY <1>1 DEF SlotsAnnounced
<1>10. Lending!Close
  BY <1>1, <1>2, Zenon DEF Lending!Close
<1>11. QED  BY <1>2, <1>5, <1>6, <1>7, <1>8, <1>9, <1>10 DEF IInv

\* A connection becomes invalid wherever it is.
LEMMA BreakInv ==
  ASSUME IInv, NEW c \in Conn, Break(c)
  PROVE  IInv' /\ UNCHANGED <<Busy, closed>>
<1>1. /\ state[c] = "open" /\ state' = [state EXCEPT ![c] = "broken"]
      /\ broken' \in 0..MaxBroken
      /\ UNCHANGED <<pool, active, closed, pc, conn, missed, calls, createFailures>>
      /\ TypeOK /\ Linked /\ OnePlace /\ Counted /\ SlotsAnnounced
  BY DEF Break, sharedVars, threadVars, IInv, TypeOK
<1>2. \A x \in Conn : Live(x)' <=> Live(x)
  BY <1>1 DEF Live, TypeOK
<1>3. UNCHANGED <<Busy, Waiters, Woken>>
  BY <1>1 DEF Busy, Waiters, Woken
<1>4. TypeOK'
  BY <1>1 DEF TypeOK
<1>5. Linked' /\ OnePlace'
  BY <1>1, <1>2, <1>3 DEF Linked, OnePlace
<1>6. Counted' /\ SlotsAnnounced'
  BY <1>1, <1>3 DEF Counted, SlotsAnnounced
<1>7. QED  BY <1>1, <1>3, <1>4, <1>5, <1>6 DEF IInv

-----------------------------------------------------------------------------

\* Every step keeps the invariant and lends as ConnectionSlots says.
LEMMA StepInv ==
  IInv /\ [Next]_vars => IInv' /\ [Lending!Next]_Lending!slotVars
<1> SUFFICES ASSUME IInv, [Next]_vars
             PROVE  IInv' /\ [Lending!Next]_Lending!slotVars
  OBVIOUS
<1>1. ASSUME UNCHANGED <<Busy, closed>>
      PROVE  [Lending!Next]_Lending!slotVars
  BY <1>1, Zenon DEF Lending!slotVars
<1>2. CASE UNCHANGED vars
  <2>1. UNCHANGED <<pool, active, closed, pc, conn, state, missed, calls,
                    createFailures, broken>>
    BY <1>2 DEF vars, sharedVars, threadVars
  <2>2. UNCHANGED <<Busy, Waiters, Woken>>
    BY <2>1 DEF Busy, Waiters, Woken
  <2>3. TypeOK' /\ Linked' /\ OnePlace'
    BY <2>1, <2>2 DEF IInv, TypeOK, Linked, OnePlace, Live
  <2>4. Counted' /\ SlotsAnnounced'
    BY <2>1, <2>2 DEF IInv, Counted, SlotsAnnounced
  <2>5. QED  BY <1>1, <2>1, <2>2, <2>3, <2>4 DEF IInv
<1>3. ASSUME NEW t \in Thread, TakePooled(t) \/ BeginCreate(t)
      PROVE  IInv' /\ [Lending!Next]_Lending!slotVars
  BY <1>3, TakePooledInv, BeginCreateInv, Zenon DEF Lending!Next
<1>4. ASSUME NEW t \in Thread,
             CreateFails(t) \/ Release(t) \/ ReleaseClosed(t)
      PROVE  IInv' /\ [Lending!Next]_Lending!slotVars
  BY <1>4, CreateFailsInv, ReleaseInv, ReleaseClosedInv, Zenon
  DEF Lending!Next
<1>5. ASSUME NEW t \in Thread,
             \/ Exhausted(t) \/ FindsClosed(t) \/ Created(t)
             \/ Expires(t) \/ TimesOut(t)
      PROVE  IInv' /\ [Lending!Next]_Lending!slotVars
  BY <1>1, <1>5, ExhaustedInv, LeavesInv, CreatedInv
<1>6. CASE CloseAll
  BY <1>6, CloseAllInv, Zenon DEF Lending!Next
<1>7. ASSUME NEW c \in Conn, Break(c)
      PROVE  IInv' /\ [Lending!Next]_Lending!slotVars
  BY <1>1, <1>7, BreakInv
<1>8. QED
  BY <1>2, <1>3, <1>4, <1>5, <1>6, <1>7, Zenon DEF Next, Acquire

\* The initial state is one in which no slot is lent.
LEMMA LendingInit == Init => Lending!Init
<1> SUFFICES ASSUME Init PROVE Busy = {} /\ closed = FALSE
  BY DEF Lending!Init
<1>1. Busy = {}
  BY DEF Init, Busy
<1>2. QED  BY <1>1 DEF Init

\* The invariant of the following theorems.
LEMMA Always == Spec => []IInv
  BY InitInv, StepInv, PTL DEF Spec

\* Every variable keeps its type; the active count never goes below zero.
THEOREM TypeCorrect == Spec => []TypeOK
  BY Always, PTL DEF IInv

\* A live connection is in the pool or with exactly one thread: none is shared
\* and none leaks.
THEOREM ConnectionsInOnePlace == Spec => []OnePlace
  BY Always, PTL DEF IInv

\* The active count is that of the threads that use or open a connection, and
\* the pool never exceeds max_size.
THEOREM CountIsTrue == Spec => []Counted
  BY Always, PTL DEF IInv

\* Free slots are announced to the threads that wait, save one per creation
\* that failed and one per notification that went to an expired wait.
THEOREM FreeSlotsAnnounced == Spec => []SlotsAnnounced
  BY Always, PTL DEF IInv

\* The pool lends its slots as ConnectionSlots promises.
THEOREM ImplementsSlots == Spec => KeepsSlots
  BY LendingInit, Always, StepInv, PTL DEF Spec, KeepsSlots, Lending!Spec
=============================================================================
