-------------------------- MODULE SqliteStore_proofs --------------------------
(***************************************************************************)
(* Theorems about SqliteStore: the ledger, what is left behind on idle     *)
(* connections, and retention.                                             *)
(***************************************************************************)
EXTENDS SqliteStore, TLAPS

Holds(t) == call[t].pc \in {"working", "stored", "executed"}
Mid(t) == call[t].pc \in {"stored", "executed"}

\* A connection is with one thread of its process, or once in the pool.
Placed ==
  /\ \A t \in Thread : Holds(t) => /\ call[t].conn \in Conn /\ call[t].conn[1] = Home[t]
                                   /\ call[t].conn[2] <= opened[Home[t]]
  /\ \A p \in Process : \A i \in DOMAIN pool[p] :
        /\ pool[p][i][1] = p /\ pool[p][i][2] <= opened[p]
        /\ \A j \in DOMAIN pool[p] : pool[p][i] = pool[p][j] => i = j
        /\ \A t \in Thread : Holds(t) => call[t].conn # pool[p][i]
  /\ \A t, v \in Thread : Holds(t) /\ Holds(v) /\ call[t].conn = call[v].conn => t = v

OneWriter == \A c, d \in Writer : c = d

\* What a call c has staged: d is the committed state, s and x the view and
\* the transaction of its connection.
StagedFor(c, d, s, x) ==
  /\ c.pc # "idle" => /\ c.ticket \in Ticket
                      /\ c.kind = "insert" => c.item \in Entry
  /\ c.pc \in {"stored", "executed"} => x = "write" /\ Writes(c.kind)
  /\ c.pc = "stored" => /\ c.kind = "insert" /\ c.item \notin d.entries
                        /\ s = [d EXCEPT !.entries = @ \cup {c.item}]
  /\ c.pc = "executed" =>
       \/ /\ c.kind = "insert" /\ c.item \notin d.entries
          /\ s.entries = d.entries \cup {c.item} /\ s.total = d.total + 1
          /\ s.archive = d.archive /\ s.rows = d.rows
       \/ c.kind = "insert" /\ c.item \in d.entries /\ s = d
       \/ c.kind \in {"touch", "archive", "delete"} /\ s = Effect(c, d)

Staged == \A t \in Thread : StagedFor(call[t], db, view[call[t].conn], tx[call[t].conn])

\* An open transaction that no statement is in the middle of holds no change.
Clean == \A c \in Writer : \/ view[c] = db
                           \/ \E t \in Thread : Mid(t) /\ call[t].conn = c

IInv == TypeOK /\ Placed /\ OneWriter /\ Staged /\ Clean

-----------------------------------------------------------------------------
(* Sequences of connections.                                                *)

\* Appending keeps the elements and adds one.
LEMMA AppendFacts ==
  ASSUME NEW S, NEW s \in Seq(S), NEW x \in S
  PROVE  /\ Append(s, x) \in Seq(S)
         /\ DOMAIN s = 1..Len(s) /\ Len(s) \in Nat
         /\ DOMAIN Append(s, x) = 1..(Len(s) + 1)
         /\ \A i \in 1..Len(s) : Append(s, x)[i] = s[i]
         /\ Append(s, x)[Len(s) + 1] = x
  OBVIOUS

\* The tail of a nonempty sequence is the sequence without its head.
LEMMA TailFacts ==
  ASSUME NEW S, NEW s \in Seq(S), s # <<>>
  PROVE  /\ Tail(s) \in Seq(S) /\ Head(s) \in S /\ Head(s) = s[1]
         /\ DOMAIN s = 1..Len(s) /\ Len(s) \in Nat /\ Len(s) >= 1
         /\ DOMAIN Tail(s) = 1..(Len(s) - 1)
         /\ \A i \in 1..(Len(s) - 1) : Tail(s)[i] = s[i + 1]
  OBVIOUS

-----------------------------------------------------------------------------
(* Steps in which a thread gives its connection back.                       *)

Left(t) ==
  /\ GiveBack(t)
  /\ guard' \in [Process -> Thread \cup {NoThread}]
  /\ acked' \subseteq Entry \cup Ticket
  /\ call' \in [Thread -> Calls]
  /\ \A v \in Thread \ {t} : call'[v] = call[v]
  /\ call'[t].pc \in {"idle", "ready"}
  /\ call'[t].pc # "idle" => /\ call'[t].ticket = call[t].ticket
                             /\ call'[t].kind = "insert" => /\ call[t].kind = "insert"
                                                            /\ call'[t].item = call[t].item

\* The record of a call without a call.
LEMMA IdleTyped == Idle \in Calls
  BY SizeAssumption DEF Idle, Calls, Kinds

\* Every way to give a connection back.
LEMMA Leaving ==
  ASSUME IInv, NEW t \in Thread, Holds(t),
         \/ Raise(t) \/ Return(t) \/ RetryOrRaise(t)
         \/ Continue(t, "count") \/ Continue(t, "delete")
  PROVE  Left(t)
<1> USE HomeAssumption DEF IInv, TypeOK
<1>1. CASE Raise(t)
  <2>1. call' = [call EXCEPT ![t] = Idle]
    BY <1>1 DEF Raise
  <2>2. guard' \in [Process -> Thread \cup {NoThread}]
    BY <1>1 DEF Raise, Unlocks
  <2>3. QED  BY <1>1, <2>1, <2>2, IdleTyped DEF Raise, Left, Idle
<1>2. CASE Return(t)
  <2>1. call' = [call EXCEPT ![t] = Idle]
    BY <1>2 DEF Return
  <2>2. guard' \in [Process -> Thread \cup {NoThread}]
    BY <1>2 DEF Return, Unlocks
  <2>3. /\ call[t].ticket \in Ticket
        /\ Statement(t) = "insert" => call[t].item \in Entry
    BY DEF Staged, StagedFor, Holds, Statement
  <2>4. acked' \subseteq Entry \cup Ticket
    BY <1>2, <2>3 DEF Return
  <2>5. QED  BY <1>2, <2>1, <2>2, <2>4, IdleTyped DEF Return, Left, Idle
<1>3. ASSUME NEW kind \in {"count", "delete"}, Continue(t, kind)
      PROVE  Left(t)
  <2>1. call' = [call EXCEPT ![t].pc = "ready", ![t].kind = kind, ![t].conn = NoConn,
                             ![t].attempt = 0]
    BY <1>3 DEF Continue
  <2>2. call' \in [Thread -> Calls]
    <3>1. 0 \in 0..Retries /\ kind \in Kinds /\ call[t] \in Calls
      BY SizeAssumption DEF Kinds
    <3>2. [call[t] EXCEPT !.pc = "ready", !.kind = kind, !.conn = NoConn, !.attempt = 0] \in Calls
      BY <3>1 DEF Calls
    <3>3. call' = [call EXCEPT ![t] = [call[t] EXCEPT !.pc = "ready", !.kind = kind,
                                                      !.conn = NoConn, !.attempt = 0]]
      BY <2>1
    <3>4. QED  BY <3>2, <3>3
  <2>3. /\ call'[t].pc = "ready" /\ call'[t].kind = kind /\ call'[t].ticket = call[t].ticket
        /\ \A v \in Thread \ {t} : call'[v] = call[v]
    BY <2>1 DEF Calls
  <2>4. QED  BY <1>3, <2>2, <2>3 DEF Continue, Left
<1>4. CASE RetryOrRaise(t) /\ ~Raise(t)
  <2>1. /\ call' = [call EXCEPT ![t].pc = "ready", ![t].conn = NoConn, ![t].attempt = @ + 1]
        /\ call[t].attempt < Retries /\ GiveBack(t) /\ UNCHANGED <<guard, acked>>
    BY <1>4 DEF RetryOrRaise
  <2>2. call[t] \in Calls /\ call[t].attempt + 1 \in 0..Retries
    BY <2>1, SizeAssumption DEF Calls
  <2>3. call' \in [Thread -> Calls]
    BY <2>1, <2>2 DEF Calls
  <2>4. /\ call'[t].pc = "ready" /\ call'[t].kind = call[t].kind
        /\ call'[t].ticket = call[t].ticket /\ call'[t].item = call[t].item
        /\ \A v \in Thread \ {t} : call'[v] = call[v]
    BY <2>1 DEF Calls
  <2>5. QED  BY <2>1, <2>3, <2>4 DEF Left
<1>5. QED  BY <1>1, <1>2, <1>3, <1>4

\* The connection given back has its place in the pool.
LEMMA LeftPlaced ==
  ASSUME IInv, NEW t \in Thread, Holds(t), Left(t)
  PROVE  /\ Placed'
         /\ pool' \in [Process -> Seq(Conn)] /\ opened' \in [Process -> 0..MaxSize]
         /\ gate' \in [Process -> Thread \cup {NoThread}]
<1> DEFINE h == Home[t]
           c == call[t].conn
<1> USE HomeAssumption DEF IInv, TypeOK
<1>1. /\ c \in Conn /\ c[1] = h /\ c[2] <= opened[h] /\ h \in Process
      /\ pool[h] \in Seq(Conn)
  BY DEF Placed
<1>2. /\ pool' = [pool EXCEPT ![h] = Append(@, c)]
      /\ gate' = [gate EXCEPT ![h] = IF @ = t THEN NoThread ELSE @]
      /\ opened' = opened
  BY DEF Left, GiveBack, Using
<1>3. \A v \in Thread : Holds(v)' => v # t /\ Holds(v) /\ call'[v].conn = call[v].conn
  BY DEF Left, Holds
<1>4. \A v \in Thread : Holds(v)' => call[v].conn # c
  BY <1>3 DEF Placed
<1>5. /\ pool'[h] \in Seq(Conn)
      /\ DOMAIN pool[h] = 1..Len(pool[h]) /\ Len(pool[h]) \in Nat
      /\ DOMAIN pool'[h] = 1..(Len(pool[h]) + 1)
      /\ \A i \in 1..Len(pool[h]) : pool'[h][i] = pool[h][i]
      /\ pool'[h][Len(pool[h]) + 1] = c
  BY <1>1, <1>2, AppendFacts
<1>6. \A p \in Process \ {h} : pool'[p] = pool[p]
  BY <1>2
<1>7. \A v \in Thread : Holds(v)' => /\ call'[v].conn \in Conn /\ call'[v].conn[1] = Home[v]
                                     /\ call'[v].conn[2] <= opened'[Home[v]]
  BY <1>2, <1>3 DEF Placed
<1>8. ASSUME NEW p \in Process
      PROVE  \A i \in DOMAIN pool'[p] :
               /\ pool'[p][i][1] = p /\ pool'[p][i][2] <= opened'[p]
               /\ \A j \in DOMAIN pool'[p] : pool'[p][i] = pool'[p][j] => i = j
               /\ \A v \in Thread : Holds(v)' => call'[v].conn # pool'[p][i]
  <2>1. CASE p # h
    <3>1. pool'[p] = pool[p] /\ opened'[p] = opened[p]
      BY <2>1, <1>2, <1>6
    <3>2. \A i \in DOMAIN pool[p] :
             /\ pool[p][i][1] = p /\ pool[p][i][2] <= opened[p]
             /\ \A j \in DOMAIN pool[p] : pool[p][i] = pool[p][j] => i = j
             /\ \A v \in Thread : Holds(v) => call[v].conn # pool[p][i]
      BY DEF Placed
    <3>3. QED  BY <3>1, <3>2, <1>3
  <2>2. CASE p = h
    <3>1. \A i \in 1..Len(pool[h]) :
             /\ pool[h][i][1] = h /\ pool[h][i][2] <= opened[h] /\ pool[h][i] # c
             /\ \A j \in 1..Len(pool[h]) : pool[h][i] = pool[h][j] => i = j
             /\ \A v \in Thread : Holds(v) => call[v].conn # pool[h][i]
      BY <1>5 DEF Placed
    <3>2. \A i \in 1..(Len(pool[h]) + 1) : i \in 1..Len(pool[h]) \/ i = Len(pool[h]) + 1
      BY <1>5
    <3>3. ASSUME NEW i \in 1..(Len(pool[h]) + 1)
          PROVE  /\ pool'[h][i][1] = h /\ pool'[h][i][2] <= opened'[h]
                 /\ \A v \in Thread : Holds(v)' => call'[v].conn # pool'[h][i]
      <4>1. CASE i \in 1..Len(pool[h])
        BY <4>1, <3>1, <1>2, <1>3, <1>5
      <4>2. CASE i = Len(pool[h]) + 1
        BY <4>2, <1>1, <1>2, <1>3, <1>4, <1>5
      <4>3. QED  BY <3>2, <4>1, <4>2
    <3>4. \A i, j \in 1..(Len(pool[h]) + 1) : pool'[h][i] = pool'[h][j] => i = j
      BY <3>1, <3>2, <1>5
    <3>5. QED  BY <2>2, <3>3, <3>4, <1>5
  <2>3. QED  BY <2>1, <2>2
<1>9. \A v, w \in Thread : Holds(v)' /\ Holds(w)' /\ call'[v].conn = call'[w].conn => v = w
  BY <1>3 DEF Placed
<1>10. Placed'
  BY <1>7, <1>8, <1>9 DEF Placed
<1>11. QED  BY <1>1, <1>2, <1>5, <1>6, <1>10

-----------------------------------------------------------------------------
(* Who is in the middle of a statement.                                     *)

\* The holder of the write lock is the only one in the middle of a statement.
LEMMA NobodyMid ==
  ASSUME IInv, NEW t \in Thread, Holds(t), LockFree(call[t].conn)
  PROVE  /\ call[t].conn \in Conn
         /\ \A v \in Thread \ {t} : ~Mid(v)
         /\ ~Mid(t) => Base(call[t].conn) = db
<1>1. call[t].conn \in Conn
  BY DEF IInv, Placed
<1>2. \A v \in Thread : Mid(v) => Holds(v) /\ call[v].conn \in Writer
  BY DEF IInv, Placed, Staged, StagedFor, Mid, Holds, Writer
<1>3. \A v \in Thread \ {t} : ~Mid(v)
  BY <1>2 DEF LockFree, IInv, Placed
<1>4. ASSUME ~Mid(t) PROVE Base(call[t].conn) = db
  BY <1>1, <1>3, <1>4 DEF IInv, Clean, Writer, Base
<1>5. QED  BY <1>1, <1>3, <1>4

\* What does not matter to a statement.
SameStatement(c, d) ==
  /\ d.pc \in {"stored", "executed"} <=> c.pc \in {"stored", "executed"}
  /\ c.pc \in {"stored", "executed"} =>
       /\ d.pc = c.pc /\ d.kind = c.kind /\ d.item = c.item
       /\ d.ticket = c.ticket /\ d.conn = c.conn
  /\ d.pc # "idle" => /\ d.ticket \in Ticket
                      /\ d.kind = "insert" => d.item \in Entry

\* A step that changes no write and no statement that is in its middle.
LEMMA SameStatements ==
  ASSUME IInv, UNCHANGED <<db, view>>,
         \A d \in Conn : tx'[d] = "write" <=> tx[d] = "write",
         \A v \in Thread : SameStatement(call[v], call'[v])
  PROVE  OneWriter' /\ Staged' /\ Clean'
<1>1. Writer' = Writer
  BY DEF Writer
<1>2. OneWriter'
  BY <1>1 DEF IInv, OneWriter
<1>3. \A v \in Thread : Mid(v)' => Mid(v) /\ call'[v].conn = call[v].conn /\ call[v].conn \in Conn
  BY DEF IInv, Placed, Mid, Holds, SameStatement
<1>4. \A v \in Thread : Mid(v) => Mid(v)'
  BY DEF Mid, SameStatement
<1>5. ASSUME NEW v \in Thread
      PROVE  StagedFor(call'[v], db, view[call'[v].conn], tx'[call'[v].conn])
  <2>1. CASE Mid(v)
    <3>1. StagedFor(call[v], db, view[call[v].conn], tx[call[v].conn])
      BY DEF IInv, Staged
    <3>2. SameStatement(call[v], call'[v]) /\ call'[v].conn = call[v].conn /\ call[v].conn \in Conn
      BY <2>1, <1>3, <1>4
    <3>3. Effect(call'[v], db) = Effect(call[v], db)
      BY <2>1, <3>2 DEF Effect, SameStatement, Mid
    <3>4. tx'[call'[v].conn] = "write"
      BY <2>1, <3>1, <3>2 DEF StagedFor, Mid
    <3>5. QED  BY <2>1, <3>1, <3>2, <3>3, <3>4 DEF StagedFor, SameStatement, Mid
  <2>2. CASE ~Mid(v)
    BY <2>2 DEF Mid, SameStatement, StagedFor
  <2>3. QED  BY <2>1, <2>2
<1>6. Staged'
  BY <1>5 DEF Staged
<1>7. Clean'
  BY <1>1, <1>3, <1>4 DEF IInv, Clean
<1>8. QED  BY <1>2, <1>6, <1>7

\* A step in which connections stay where they are.
LEMMA SamePlaces ==
  ASSUME Placed, UNCHANGED <<opened, pool>>,
         \A v \in Thread : Holds(v)' => Holds(v) /\ call'[v].conn = call[v].conn
  PROVE  Placed'
  BY DEF Placed

\* A thread stages a change while it holds the write lock.
LEMMA Staging ==
  ASSUME IInv, NEW t \in Thread, Holds(t), LockFree(call[t].conn),
         NEW state, Stage(call[t].conn, state),
         call'[t].pc \in {"stored", "executed"}, call'[t].conn = call[t].conn,
         \A v \in Thread \ {t} : call'[v] = call[v],
         StagedFor(call'[t], db, state, "write")
  PROVE  OneWriter' /\ Staged' /\ Clean'
<1> DEFINE c == call[t].conn
<1>1. /\ c \in Conn /\ \A v \in Thread \ {t} : ~Mid(v)
      /\ db' = db /\ tx' = [tx EXCEPT ![c] = "write"] /\ view' = [view EXCEPT ![c] = state]
  BY NobodyMid DEF Stage
<1>2. Writer' = {c}
  BY <1>1 DEF Writer, LockFree, IInv, TypeOK
<1>3. OneWriter'
  BY <1>2 DEF OneWriter
<1>4. Mid(t)' /\ tx'[c] = "write" /\ view'[c] = state
  BY <1>1 DEF Mid, IInv, TypeOK
<1>5. Clean'
  BY <1>2, <1>4 DEF Clean
<1>6. ASSUME NEW v \in Thread
      PROVE  StagedFor(call'[v], db', view'[call'[v].conn], tx'[call'[v].conn])
  <2>1. CASE v = t
    BY <2>1, <1>1, <1>4
  <2>2. CASE v # t
    <3>1. call'[v] = call[v] /\ ~Mid(v) /\ StagedFor(call[v], db, view[call[v].conn], tx[call[v].conn])
      BY <2>2, <1>1 DEF IInv, Staged
    <3>2. QED  BY <3>1 DEF StagedFor, Mid
  <2>3. QED  BY <2>1, <2>2
<1>7. Staged'
  BY <1>6 DEF Staged
<1>8. QED  BY <1>3, <1>5, <1>7

\* A thread that was not in the middle of a statement leaves.
LEMMA LeftStatements ==
  ASSUME IInv, NEW t \in Thread, Holds(t), ~Mid(t), Left(t), UNCHANGED <<db, view>>,
         \A d \in Conn : tx'[d] = "write" <=> tx[d] = "write"
  PROVE  OneWriter' /\ Staged' /\ Clean'
<1>1. \A v \in Thread : StagedFor(call[v], db, view[call[v].conn], tx[call[v].conn])
  BY DEF IInv, Staged
<1>2. \A v \in Thread \ {t} : SameStatement(call[v], call'[v])
  BY <1>1 DEF Left, SameStatement, StagedFor
<1>3. SameStatement(call[t], call'[t])
  BY <1>1 DEF Left, SameStatement, StagedFor, Mid, Holds
<1>4. QED  BY <1>2, <1>3, SameStatements

-----------------------------------------------------------------------------
(* The steps.                                                               *)

\* A call begins.
LEMMA StepBegin == ASSUME IInv, NEW t \in Thread, Begins(t) PROVE IInv'
<1>1. PICK kind \in {"insert", "touch", "archive", "read"}, item \in Entry \cup {NoItem} :
        Begin(t, kind, item) /\ (kind = "insert" => item \in Entry)
  BY DEF Begins, BeginInsert, BeginTouch, BeginCleanup, BeginRead
<1>2. guard' \in [Process -> Thread \cup {NoThread}] /\ cleanups' \in Nat
  <2>1. Locks(t) \/ UNCHANGED guard
    BY DEF Begins, BeginInsert, BeginTouch, BeginCleanup, BeginRead
  <2>2. cleanups' = cleanups \/ cleanups' = cleanups + 1
    BY DEF Begins, BeginInsert, BeginTouch, BeginCleanup, BeginRead
  <2>3. guard' \in [Process -> Thread \cup {NoThread}]
    BY <2>1, HomeAssumption DEF Locks, IInv, TypeOK
  <2>4. cleanups' \in Nat
    BY <2>2 DEF IInv, TypeOK
  <2>5. QED  BY <2>3, <2>4
<1>3. calls + 1 \in Ticket /\ calls' \in Nat
  BY <1>1, BoundsAssumption DEF Begin, Ticket, IInv, TypeOK
<1> DEFINE new == [Idle EXCEPT !.pc = "ready", !.kind = kind, !.item = item, !.ticket = calls + 1]
<1>4. new \in Calls /\ new.pc = "ready" /\ new.kind = kind /\ new.item = item /\ new.ticket = calls + 1
  <2>1. kind \in Kinds /\ calls + 1 \in Ticket
    BY <1>3 DEF Kinds
  <2>2. Idle \in Calls
    BY IdleTyped
  <2>3. QED  BY <2>1, <2>2 DEF Calls
<1>5. /\ call' = [call EXCEPT ![t] = new] /\ call[t].pc = "idle"
      /\ UNCHANGED <<db, tx, view, opened, pool, gate, acked, late, conflicts, faults, crashes>>
  BY <1>1 DEF Begin, At
<1> HIDE DEF new
<1>6. TypeOK'
  BY <1>2, <1>3, <1>4, <1>5 DEF IInv, TypeOK
<1>7. Placed'
  BY <1>4, <1>5, SamePlaces DEF IInv, Holds, TypeOK
<1>8. \A v \in Thread : SameStatement(call[v], call'[v])
  <2>1. \A v \in Thread : StagedFor(call[v], db, view[call[v].conn], tx[call[v].conn])
    BY DEF IInv, Staged
  <2>2. call'[t] = new /\ \A v \in Thread \ {t} : call'[v] = call[v]
    BY <1>5 DEF IInv, TypeOK
  <2>3. SameStatement(call[t], new)
    BY <1>1, <1>3, <1>4, <1>5 DEF SameStatement
  <2>4. ASSUME NEW v \in Thread, v # t PROVE SameStatement(call[v], call'[v])
    BY <2>1, <2>2, <2>4 DEF SameStatement, StagedFor
  <2>5. QED  BY <2>2, <2>3, <2>4
<1>9. OneWriter' /\ Staged' /\ Clean'
  BY <1>5, <1>8, SameStatements
<1>10. QED  BY <1>6, <1>7, <1>9 DEF IInv

\* A refused write.
LEMMA StepLocked ==
  ASSUME IInv, NEW t \in Thread, LockedStatement(t) \/ LockedTransaction(t)
  PROVE  IInv'
<1>1. Holds(t) /\ ~Mid(t) /\ RetryOrRaise(t) /\ UNCHANGED <<db, view, late, counters>>
  BY DEF LockedStatement, LockedTransaction, Executes, Inserts, At, Holds, Mid, LeaveBegun
<1>2. Left(t)
  BY <1>1, Leaving
<1>3. /\ tx' \in [Conn -> {"none", "begun", "read", "stale", "write"}]
      /\ \A d \in Conn : tx'[d] = "write" <=> tx[d] = "write"
  BY DEF LockedStatement, LockedTransaction, LeaveBegun, IInv, TypeOK
<1>4. OneWriter' /\ Staged' /\ Clean'
  BY <1>1, <1>2, <1>3, LeftStatements
<1>5. TypeOK' /\ Placed'
  BY <1>1, <1>2, <1>3, LeftPlaced DEF Left, IInv, TypeOK, counters
<1>6. QED  BY <1>4, <1>5 DEF IInv

\* A read.
LEMMA StepFetch == ASSUME IInv, NEW t \in Thread, Fetch(t) PROVE IInv'
<1>1. /\ Holds(t) /\ ~Mid(t) /\ UNCHANGED <<db, view, late, counters>>
      /\ Continue(t, "delete") \/ Return(t)
  BY DEF Fetch, At, Holds, Mid
<1>2. Left(t)
  BY <1>1, Leaving
<1>3. /\ tx' \in [Conn -> {"none", "begun", "read", "stale", "write"}]
      /\ \A d \in Conn : tx'[d] = "write" <=> tx[d] = "write"
  BY DEF Fetch, IInv, TypeOK
<1>4. OneWriter' /\ Staged' /\ Clean'
  BY <1>1, <1>2, <1>3, LeftStatements
<1>5. TypeOK' /\ Placed'
  BY <1>1, <1>2, <1>3, LeftPlaced DEF Left, IInv, TypeOK, counters
<1>6. QED  BY <1>4, <1>5 DEF IInv

\* The caller is cancelled.
LEMMA StepCancel == ASSUME IInv, NEW t \in Thread, Cancel(t) PROVE IInv'
<1>1. /\ call' = [call EXCEPT ![t].cancelled = TRUE]
      /\ UNCHANGED <<db, tx, view, opened, pool, gate, acked, late, counters>>
  BY DEF Cancel
<1>2. guard' \in [Process -> Thread \cup {NoThread}]
  BY HomeAssumption DEF Cancel, Unlocks, IInv, TypeOK
<1>3. call' \in [Thread -> Calls]
  <2>1. [call[t] EXCEPT !.cancelled = TRUE] \in Calls
    BY DEF IInv, TypeOK, Calls
  <2>2. call' = [call EXCEPT ![t] = [call[t] EXCEPT !.cancelled = TRUE]]
    BY <1>1
  <2>3. QED  BY <2>1, <2>2 DEF IInv, TypeOK
<1>4. \A v \in Thread : /\ call'[v].pc = call[v].pc /\ call'[v].kind = call[v].kind
                        /\ call'[v].item = call[v].item /\ call'[v].ticket = call[v].ticket
                        /\ call'[v].conn = call[v].conn
  BY <1>1 DEF IInv, TypeOK, Calls
<1>5. TypeOK'
  BY <1>1, <1>2, <1>3 DEF IInv, TypeOK, counters
<1>6. Placed'
  BY <1>1, <1>4, SamePlaces DEF IInv, Holds
<1>7. \A v \in Thread : SameStatement(call[v], call'[v])
  BY <1>4 DEF SameStatement, IInv, Staged, StagedFor
<1>8. OneWriter' /\ Staged' /\ Clean'
  BY <1>1, <1>7, SameStatements
<1>9. QED  BY <1>5, <1>6, <1>8 DEF IInv

\* A thread takes the gate and a connection.
LEMMA StepConnect == ASSUME IInv, NEW t \in Thread, Connect(t) PROVE IInv'
<1> DEFINE h == Home[t]
<1> USE HomeAssumption
<1>1. /\ call[t].pc = "ready" /\ h \in Process
      /\ Opens(t) \/ Reuses(t)
      /\ UNCHANGED <<db, tx, view, guard, acked, late, counters>>
  BY DEF Connect, At
<1>2. gate' \in [Process -> Thread \cup {NoThread}]
  BY DEF Connect, IInv, TypeOK
<1>3. PICK c \in Conn : /\ call' = [call EXCEPT ![t].pc = "working", ![t].conn = c]
                        /\ c[1] = h
                        /\ \/ Opens(t) /\ c = <<h, opened[h] + 1>>
                           \/ Reuses(t) /\ c = Head(pool[h])
  <2>1. CASE Opens(t)
    <3>1. opened[h] \in 0..MaxSize /\ opened[h] < MaxSize
      BY <2>1, <1>1 DEF Opens, IInv, TypeOK
    <3>2. <<h, opened[h] + 1>> \in Conn
      BY <3>1, <1>1, SizeAssumption DEF Conn
    <3>3. QED  BY <2>1, <3>2 DEF Opens
  <2>2. CASE Reuses(t)
    <3>1. pool[h] \in Seq(Conn) /\ pool[h] # <<>>
      BY <2>2, <1>1 DEF Reuses, IInv, TypeOK
    <3>2. Head(pool[h]) \in Conn /\ Head(pool[h]) = pool[h][1] /\ 1 \in DOMAIN pool[h]
      BY <3>1, TailFacts
    <3>3. Head(pool[h])[1] = h
      BY <3>2, <1>1 DEF IInv, Placed
    <3>4. QED  BY <2>2, <3>2, <3>3 DEF Reuses
  <2>3. QED  BY <1>1, <2>1, <2>2
<1>4. /\ call' \in [Thread -> Calls]
      /\ \A v \in Thread \ {t} : call'[v] = call[v]
      /\ call'[t].pc = "working" /\ call'[t].conn = c /\ call'[t].kind = call[t].kind
      /\ call'[t].item = call[t].item /\ call'[t].ticket = call[t].ticket
  <2>1. [call[t] EXCEPT !.pc = "working", !.conn = c] \in Calls
    BY DEF IInv, TypeOK, Calls
  <2>2. call' = [call EXCEPT ![t] = [call[t] EXCEPT !.pc = "working", !.conn = c]]
    BY <1>3
  <2>3. call' \in [Thread -> Calls]
    BY <2>1, <2>2 DEF IInv, TypeOK
  <2>4. QED  BY <2>2, <2>3 DEF IInv, TypeOK, Calls
<1>5. /\ \A v \in Thread : Holds(v)' => v = t \/ (Holds(v) /\ call'[v].conn = call[v].conn)
      /\ call'[t].conn = c
  BY <1>4 DEF Holds
<1>6. Placed' /\ pool' \in [Process -> Seq(Conn)] /\ opened' \in [Process -> 0..MaxSize]
  <2>1. CASE Opens(t) /\ c = <<h, opened[h] + 1>>
    <3>1. /\ opened' = [opened EXCEPT ![h] = @ + 1] /\ pool' = pool
          /\ opened[h] < MaxSize /\ c[2] = opened[h] + 1 /\ opened[h] \in 0..MaxSize
      BY <2>1, <1>1 DEF Opens, IInv, TypeOK
    <3>2. opened' \in [Process -> 0..MaxSize] /\ c[2] <= opened'[h]
      BY <3>1, <1>1, SizeAssumption DEF IInv, TypeOK
    <3>3. \A p \in Process : opened[p] \in Nat /\ opened'[p] \in Nat /\ opened[p] <= opened'[p]
      BY <3>1, <1>1, SizeAssumption DEF IInv, TypeOK
    <3>4. \A d \in Conn : d[2] \in Nat
      BY SizeAssumption DEF Conn
    <3>5. \A v \in Thread \ {t} : Holds(v) => call[v].conn # c
      BY <3>1, <1>3 DEF IInv, Placed
    <3>6. \A p \in Process : \A i \in DOMAIN pool[p] : pool[p][i] \in Conn /\ pool[p][i] # c
      <4>1. \A p \in Process : pool[p] \in Seq(Conn)
        BY DEF IInv, TypeOK
      <4>2. \A p \in Process : \A i \in DOMAIN pool[p] : pool[p][i] \in Conn
        BY <4>1
      <4>3. QED  BY <4>2, <3>1, <1>3 DEF IInv, Placed
    <3>7. /\ \A v \in Thread : Holds(v)' => /\ call'[v].conn \in Conn
                                            /\ call'[v].conn[1] = Home[v]
                                            /\ call'[v].conn[2] <= opened'[Home[v]]
      <4>1. \A v \in Thread : Holds(v) => /\ call[v].conn \in Conn /\ call[v].conn[1] = Home[v]
                                          /\ call[v].conn[2] <= opened'[Home[v]]
        BY <3>3, <3>4 DEF IInv, Placed
      <4>2. QED  BY <4>1, <1>3, <1>5, <3>2
    <3>8. \A p \in Process : \A i \in DOMAIN pool[p] :
            /\ pool[p][i][1] = p /\ pool[p][i][2] <= opened'[p]
            /\ \A j \in DOMAIN pool[p] : pool[p][i] = pool[p][j] => i = j
            /\ \A v \in Thread : Holds(v)' => call'[v].conn # pool[p][i]
      <4> SUFFICES ASSUME NEW p \in Process, NEW i \in DOMAIN pool[p]
                   PROVE  /\ pool[p][i][1] = p /\ pool[p][i][2] <= opened'[p]
                          /\ \A j \in DOMAIN pool[p] : pool[p][i] = pool[p][j] => i = j
                          /\ \A v \in Thread : Holds(v)' => call'[v].conn # pool[p][i]
        OBVIOUS
      <4>1. /\ pool[p][i][1] = p /\ pool[p][i][2] <= opened[p]
            /\ \A j \in DOMAIN pool[p] : pool[p][i] = pool[p][j] => i = j
            /\ \A v \in Thread : Holds(v) => call[v].conn # pool[p][i]
        BY DEF IInv, Placed
      <4>2. pool[p][i] \in Conn /\ pool[p][i] # c
        BY <3>6
      <4>3. pool[p][i][2] <= opened'[p]
        BY <4>1, <4>2, <3>3, <3>4
      <4>4. QED  BY <4>1, <4>2, <4>3, <1>5
    <3>9. \A v, w \in Thread : Holds(v)' /\ Holds(w)' /\ call'[v].conn = call'[w].conn => v = w
      BY <3>5, <1>5 DEF IInv, Placed
    <3>10. QED  BY <3>1, <3>2, <3>7, <3>8, <3>9 DEF Placed, IInv, TypeOK
  <2>2. CASE Reuses(t) /\ c = Head(pool[h])
    <3>1. /\ pool' = [pool EXCEPT ![h] = Tail(@)] /\ opened' = opened
          /\ pool[h] \in Seq(Conn) /\ pool[h] # <<>>
      BY <2>2, <1>1 DEF Reuses, IInv, TypeOK
    <3>2. /\ pool'[h] = Tail(pool[h]) /\ pool'[h] \in Seq(Conn) /\ c = pool[h][1]
          /\ DOMAIN pool[h] = 1..Len(pool[h]) /\ Len(pool[h]) \in Nat /\ Len(pool[h]) >= 1
          /\ DOMAIN pool'[h] = 1..(Len(pool[h]) - 1)
          /\ \A i \in 1..(Len(pool[h]) - 1) : pool'[h][i] = pool[h][i + 1]
      <4>1. pool'[h] = Tail(pool[h])
        BY <3>1, <1>1 DEF IInv, TypeOK
      <4>2. QED  BY <4>1, <3>1, <2>2, TailFacts
    <3>3. pool' \in [Process -> Seq(Conn)]
      BY <3>1, <3>2 DEF IInv, TypeOK
    <3>4. \A i \in 1..Len(pool[h]) :
             /\ pool[h][i][1] = h /\ pool[h][i][2] <= opened[h]
             /\ \A j \in 1..Len(pool[h]) : pool[h][i] = pool[h][j] => i = j
             /\ \A v \in Thread : Holds(v) => call[v].conn # pool[h][i]
      BY <3>2, <1>1 DEF IInv, Placed
    <3>5. 1 \in 1..Len(pool[h])
      BY <3>2
    <3>6. c[2] <= opened[h] /\ \A v \in Thread : Holds(v) => call[v].conn # c
      BY <3>2, <3>4, <3>5
    <3>7. \A i \in 1..(Len(pool[h]) - 1) : i + 1 \in 1..Len(pool[h]) /\ i + 1 # 1
      BY <3>2
    <3>8. ASSUME NEW p \in Process, NEW i \in DOMAIN pool'[p]
          PROVE  /\ pool'[p][i][1] = p /\ pool'[p][i][2] <= opened'[p]
                 /\ \A j \in DOMAIN pool'[p] : pool'[p][i] = pool'[p][j] => i = j
                 /\ \A v \in Thread : Holds(v)' => call'[v].conn # pool'[p][i]
      <4>1. CASE p # h
        <5>1. pool'[p] = pool[p] /\ opened'[p] = opened[p]
          BY <4>1, <3>1
        <5>2. /\ pool[p][i][1] = p /\ pool[p][i][2] <= opened[p]
              /\ \A j \in DOMAIN pool[p] : pool[p][i] = pool[p][j] => i = j
              /\ \A v \in Thread : Holds(v) => call[v].conn # pool[p][i]
          BY <5>1 DEF IInv, Placed
        <5>3. pool[p][i] # c
          BY <4>1, <5>2, <1>3
        <5>4. QED  BY <5>1, <5>2, <5>3, <1>5
      <4>2. CASE p = h
        <5>1. i \in 1..(Len(pool[h]) - 1)
          BY <4>2, <3>2
        <5>2. i + 1 \in 1..Len(pool[h]) /\ i + 1 # 1 /\ pool'[h][i] = pool[h][i + 1]
          BY <5>1, <3>2, <3>7
        <5>3. /\ pool'[h][i][1] = h /\ pool'[h][i][2] <= opened'[h] /\ pool'[h][i] # c
              /\ \A v \in Thread : Holds(v) => call[v].conn # pool'[h][i]
          BY <5>2, <3>1, <3>2, <3>4, <3>5
        <5>4. ASSUME NEW j \in DOMAIN pool'[h], pool'[h][i] = pool'[h][j] PROVE i = j
          <6>1. j \in 1..(Len(pool[h]) - 1)
            BY <3>2
          <6>2. j + 1 \in 1..Len(pool[h]) /\ pool'[h][j] = pool[h][j + 1]
            BY <6>1, <3>2, <3>7
          <6>3. i + 1 = j + 1
            BY <5>2, <5>4, <6>2, <3>4
          <6>4. QED  BY <6>1, <6>3, <5>1
        <5>5. QED  BY <4>2, <5>3, <5>4, <1>5
      <4>3. QED  BY <4>1, <4>2
    <3>9. \A v \in Thread : Holds(v)' => /\ call'[v].conn \in Conn /\ call'[v].conn[1] = Home[v]
                                         /\ call'[v].conn[2] <= opened'[Home[v]]
      BY <3>1, <3>6, <1>3, <1>5 DEF IInv, Placed
    <3>10. \A v, w \in Thread : Holds(v)' /\ Holds(w)' /\ call'[v].conn = call'[w].conn => v = w
      BY <3>6, <1>5 DEF IInv, Placed
    <3>11. QED  BY <3>1, <3>3, <3>8, <3>9, <3>10 DEF Placed, IInv, TypeOK
  <2>3. QED  BY <1>3, <2>1, <2>2
<1>7. TypeOK'
  BY <1>1, <1>2, <1>4, <1>6 DEF IInv, TypeOK, counters
<1>8. \A v \in Thread : SameStatement(call[v], call'[v])
  <2>1. \A v \in Thread : StagedFor(call[v], db, view[call[v].conn], tx[call[v].conn])
    BY DEF IInv, Staged
  <2>2. ASSUME NEW v \in Thread, v # t PROVE SameStatement(call[v], call'[v])
    BY <2>1, <2>2, <1>4 DEF SameStatement, StagedFor
  <2>3. call[t].ticket \in Ticket /\ (call[t].kind = "insert" => call[t].item \in Entry)
    <3>1. StagedFor(call[t], db, view[call[t].conn], tx[call[t].conn]) /\ call[t].pc = "ready"
      BY <2>1, <1>1
    <3>2. QED  BY <3>1 DEF StagedFor
  <2>4. SameStatement(call[t], call'[t])
    <3>1. call[t].pc = "ready"
      BY <1>1
    <3>2. QED  BY <2>3, <3>1, <1>4 DEF SameStatement
  <2>5. QED  BY <2>2, <2>4
<1>9. OneWriter' /\ Staged' /\ Clean'
  BY <1>1, <1>8, SameStatements
<1>10. QED  BY <1>6, <1>7, <1>9 DEF IInv

\* A statement or a transaction that stages its change.
LEMMA StepStage ==
  ASSUME IInv, NEW t \in Thread, Execute(t) \/ Insert(t) \/ CountEntry(t)
  PROVE  IInv'
<1> DEFINE c == call[t].conn
<1>1. /\ Holds(t) /\ LockFree(c) /\ UNCHANGED <<memory, acked, late, counters>>
      /\ call[t].pc # "executed"
  <2>1. CASE Execute(t)
    BY <2>1 DEF Execute, Executes, At, Holds, Refused, Using
  <2>2. CASE Insert(t)
    BY <2>2 DEF Insert, Inserts, At, Holds, Using
  <2>3. CASE CountEntry(t)
    <3>1. Mid(t) /\ Holds(t) /\ UNCHANGED <<memory, acked, late, counters>> /\ call[t].pc = "stored"
      BY <2>3 DEF CountEntry, At, Holds, Mid
    <3>2. c \in Writer
      BY <3>1 DEF IInv, Staged, StagedFor, Mid, Placed, Writer
    <3>3. QED  BY <3>1, <3>2 DEF IInv, OneWriter, LockFree
  <2>4. QED  BY <2>1, <2>2, <2>3
<1>2. c \in Conn /\ (~Mid(t) => Base(c) = db)
  BY <1>1, NobodyMid
<1>3. StagedFor(call[t], db, view[c], tx[c]) /\ call[t] \in Calls /\ db \in Databases
  BY DEF IInv, Staged, TypeOK
<1>4. PICK state \in Databases, pc \in {"stored", "executed"} :
        /\ Stage(c, state) /\ call' = [call EXCEPT ![t].pc = pc]
        /\ StagedFor([call[t] EXCEPT !.pc = pc], db, state, "write")
  <2>1. CASE Execute(t)
    <3>1. /\ Statement(t) \in {"touch", "archive", "delete"} /\ call[t].pc = "working"
          /\ Stage(c, Effect(call[t], db)) /\ call' = [call EXCEPT ![t].pc = "executed"]
      BY <2>1, <1>2 DEF Execute, Executes, At, Mid, Using
    <3>2. call[t].kind \in {"touch", "archive", "delete"} /\ call[t].ticket \in Ticket
      BY <3>1, <1>3 DEF StagedFor, Statement
    <3>3. Effect(call[t], db) \in Databases
      BY <3>2, <1>3 DEF Effect, Databases
    <3>4. Effect([call[t] EXCEPT !.pc = "executed"], db) = Effect(call[t], db)
      BY <1>3 DEF Effect, Calls
    <3>5. StagedFor([call[t] EXCEPT !.pc = "executed"], db, Effect(call[t], db), "write")
      BY <3>2, <3>4, <1>3 DEF StagedFor, Calls, Writes
    <3>6. QED  BY <3>1, <3>3, <3>5
  <2>2. CASE Insert(t)
    <3> DEFINE state == [db EXCEPT !.entries = @ \cup {call[t].item}]
    <3>1. /\ Statement(t) = "insert" /\ call[t].pc = "working"
          /\ Stage(c, state) /\ call' = [call EXCEPT ![t].pc = Stored(t)]
      BY <2>2 DEF Insert, Inserts, At, Using
    <3>2. call[t].kind = "insert" /\ call[t].item \in Entry /\ call[t].ticket \in Ticket
      BY <3>1, <1>3 DEF StagedFor, Statement
    <3>3. state \in Databases
      BY <3>2, <1>3 DEF Databases
    <3>4. call[t].item \in db.entries => state = db
      <4>1. call[t].item \in db.entries => db.entries \cup {call[t].item} = db.entries
        OBVIOUS
      <4>2. QED  BY <4>1, <1>3 DEF Databases
    <3>5. StagedFor([call[t] EXCEPT !.pc = Stored(t)], db, state, "write")
      BY <3>2, <3>4, <1>3 DEF StagedFor, Calls, Writes, Stored
    <3>6. Stored(t) \in {"stored", "executed"}
      BY DEF Stored
    <3>7. QED  BY <3>1, <3>3, <3>5, <3>6
  <2>3. CASE CountEntry(t)
    <3> DEFINE state == [view[c] EXCEPT !.total = @ + 1]
    <3>1. /\ call[t].pc = "stored" /\ Stage(c, state)
          /\ call' = [call EXCEPT ![t].pc = "executed"]
      BY <2>3 DEF CountEntry, At, Using
    <3>2. /\ call[t].kind = "insert" /\ call[t].item \in Entry /\ call[t].ticket \in Ticket
          /\ call[t].item \notin db.entries
          /\ view[c] = [db EXCEPT !.entries = @ \cup {call[t].item}]
      BY <3>1, <1>3 DEF StagedFor
    <3>3. /\ state.entries = db.entries \cup {call[t].item} /\ state.total = db.total + 1
          /\ state.archive = db.archive /\ state.rows = db.rows
          /\ state \in Databases
      <4>1. /\ view[c].entries = db.entries \cup {call[t].item} /\ view[c].total = db.total
            /\ view[c].archive = db.archive /\ view[c].rows = db.rows
            /\ view[c] \in Databases
        BY <3>2, <1>3 DEF Databases
      <4>2. QED  BY <4>1 DEF Databases
    <3>4. StagedFor([call[t] EXCEPT !.pc = "executed"], db, state, "write")
      BY <3>2, <3>3, <1>3 DEF StagedFor, Calls, Writes
    <3>5. QED  BY <3>1, <3>3, <3>4
  <2>4. QED  BY <2>1, <2>2, <2>3
<1>5. /\ call' \in [Thread -> Calls] /\ call'[t] = [call[t] EXCEPT !.pc = pc]
      /\ call'[t].pc = pc /\ call'[t].conn = c
      /\ \A v \in Thread \ {t} : call'[v] = call[v]
  BY <1>3, <1>4 DEF IInv, TypeOK, Calls
<1>6. OneWriter' /\ Staged' /\ Clean'
  BY <1>1, <1>4, <1>5, Staging
<1>7. Placed'
  <2>1. \A v \in Thread : Holds(v)' => Holds(v) /\ call'[v].conn = call[v].conn
    BY <1>1, <1>5 DEF Holds
  <2>2. QED  BY <2>1, <1>1, SamePlaces DEF IInv, memory
<1>8. TypeOK'
  BY <1>1, <1>2, <1>4, <1>5 DEF Stage, IInv, TypeOK, memory, counters
<1>9. QED  BY <1>6, <1>7, <1>8 DEF IInv

\* A statement that a constraint refuses, and a rollback.
LEMMA StepFailure ==
  ASSUME IInv, NEW t \in Thread, Conflict(t) \/ Nested(t) \/ CountFails(t)
  PROVE  IInv'
<1> DEFINE c == call[t].conn
<1>1. /\ Holds(t) /\ Raise(t) /\ UNCHANGED <<late, calls, cleanups, crashes>>
      /\ conflicts' \in Nat /\ faults' \in Nat
  BY DEF Conflict, Nested, CountFails, Executes, Inserts, At, Holds, counters, IInv, TypeOK
<1>2. Left(t)
  BY <1>1, Leaving
<1>3. c \in Conn /\ db' = db
  BY <1>1 DEF Conflict, Nested, CountFails, Stage, Rollback, IInv, Placed
<1>4. \/ /\ ~Mid(t) /\ LockFree(c)
         /\ tx' = [tx EXCEPT ![c] = "write"] /\ view' = [view EXCEPT ![c] = db]
      \/ tx' = [tx EXCEPT ![c] = "none"] /\ view' = [view EXCEPT ![c] = Empty]
  <2>1. CASE Conflict(t)
    <3>1. ~Mid(t) /\ LockFree(c) /\ Stage(c, Base(c))
      BY <2>1 DEF Conflict, Executes, At, Mid, Refused, Using
    <3>2. QED  BY <3>1, <1>1, NobodyMid DEF Stage
  <2>2. CASE Nested(t) \/ CountFails(t)
    BY <2>2 DEF Nested, CountFails, Rollback, Using
  <2>3. QED  BY <2>1, <2>2
<1>5. \A v \in Thread \ {t} : Holds(v) => call[v].conn # c
  BY <1>1 DEF IInv, Placed
<1>6. \A v \in Thread : Mid(v)' => v # t /\ Mid(v) /\ Holds(v) /\ call'[v] = call[v]
  BY <1>2 DEF Left, Mid, Holds
<1>7. Writer' \subseteq Writer \cup {c} /\ (tx'[c] = "none" => Writer' = Writer \ {c})
  BY <1>3, <1>4 DEF Writer, IInv, TypeOK
<1>8. OneWriter'
  BY <1>4, <1>7, <1>3 DEF OneWriter, LockFree, Writer, IInv, TypeOK
<1>9. Staged'
  <2> SUFFICES ASSUME NEW v \in Thread
      PROVE  StagedFor(call'[v], db', view'[call'[v].conn], tx'[call'[v].conn])
    BY DEF Staged
  <2>1. \A w \in Thread : StagedFor(call[w], db, view[call[w].conn], tx[call[w].conn])
    BY DEF IInv, Staged
  <2>2. CASE Mid(v)'
    <3>1. call'[v] = call[v] /\ call[v].conn # c /\ call[v].conn \in Conn
      BY <2>2, <1>5, <1>6 DEF IInv, Placed
    <3>2. tx'[call[v].conn] = tx[call[v].conn] /\ view'[call[v].conn] = view[call[v].conn]
      BY <3>1, <1>3, <1>4 DEF IInv, TypeOK
    <3>3. QED  BY <2>1, <3>1, <3>2, <1>3
  <2>3. CASE ~Mid(v)' /\ v # t
    BY <2>1, <2>3, <1>2 DEF Left, StagedFor, Mid
  <2>4. CASE v = t
    BY <2>1, <2>4, <1>1, <1>2 DEF Left, StagedFor, Holds
  <2>5. QED  BY <2>2, <2>3, <2>4
<1>10. Clean'
  <2> SUFFICES ASSUME NEW d \in Writer'
      PROVE  view'[d] = db \/ \E v \in Thread : Mid(v)' /\ call'[v].conn = d
    BY <1>3 DEF Clean
  <2>1. CASE d = c
    BY <2>1, <1>3, <1>4 DEF Writer, IInv, TypeOK
  <2>2. CASE d # c
    <3>1. d \in Writer /\ d \in Conn /\ view'[d] = view[d]
      BY <2>2, <1>3, <1>4, <1>7 DEF Writer, IInv, TypeOK
    <3>2. view[d] = db \/ \E v \in Thread : Mid(v) /\ call[v].conn = d
      BY <3>1 DEF IInv, Clean
    <3>3. \A v \in Thread : Mid(v) /\ call[v].conn = d => v # t /\ call'[v] = call[v] /\ Mid(v)'
      BY <2>2, <1>2 DEF Left, Mid
    <3>4. QED  BY <3>1, <3>2, <3>3
  <2>3. QED  BY <2>1, <2>2
<1>11. tx' \in [Conn -> {"none", "begun", "read", "stale", "write"}] /\ view' \in [Conn -> Databases]
  <2>1. Empty \in Databases /\ db \in Databases
    BY DEF Empty, Databases, IInv, TypeOK
  <2>2. QED  BY <2>1, <1>3, <1>4 DEF IInv, TypeOK
<1>12. TypeOK' /\ Placed'
  BY <1>1, <1>2, <1>3, <1>11, LeftPlaced DEF Left, IInv, TypeOK, counters
<1>13. QED  BY <1>8, <1>9, <1>10, <1>12 DEF IInv

\* A commit.
LEMMA StepCommitted == ASSUME IInv, NEW t \in Thread, Committed(t) PROVE IInv'
<1> DEFINE c == call[t].conn
<1>1. /\ Holds(t) /\ Mid(t) /\ Commit(c) /\ UNCHANGED counters
      /\ Continue(t, "count") \/ Return(t)
  BY DEF Committed, At, Holds, Mid, Using
<1>2. Left(t)
  BY <1>1, Leaving
<1>3. c \in Writer /\ c \in Conn /\ LockFree(c)
  <2>1. c \in Conn /\ tx[c] = "write"
    BY <1>1 DEF IInv, Placed, Staged, StagedFor, Mid
  <2>2. QED  BY <2>1 DEF Writer, LockFree, IInv, OneWriter
<1>4. \A v \in Thread \ {t} : ~Mid(v)
  BY <1>1, <1>3, NobodyMid
<1>5. /\ db' = view[c] /\ view' = [view EXCEPT ![c] = Empty]
      /\ tx' \in [Conn -> {"none", "begun", "read", "stale", "write"}]
      /\ \A d \in Conn : tx'[d] # "write"
  BY <1>1, <1>3 DEF Commit, Writer, LockFree, IInv, TypeOK
<1>6. Writer' = {}
  BY <1>5 DEF Writer
<1>7. OneWriter' /\ Clean'
  BY <1>6 DEF OneWriter, Clean
<1>8. Staged'
  <2> SUFFICES ASSUME NEW v \in Thread
      PROVE  StagedFor(call'[v], db', view'[call'[v].conn], tx'[call'[v].conn])
    BY DEF Staged
  <2>1. StagedFor(call[v], db, view[call[v].conn], tx[call[v].conn])
    BY DEF IInv, Staged
  <2>2. CASE v = t
    BY <2>1, <2>2, <1>1, <1>2 DEF Left, StagedFor, Holds
  <2>3. CASE v # t
    BY <2>1, <2>3, <1>2, <1>4 DEF Left, StagedFor, Mid
  <2>4. QED  BY <2>2, <2>3
<1>9. db' \in Databases /\ view' \in [Conn -> Databases] /\ late' \subseteq Entry
  <2>0. late' \subseteq Entry
    <3>1. StagedFor(call[t], db, view[c], tx[c]) /\ call[t].pc # "idle"
      BY <1>1 DEF IInv, Staged, Mid
    <3>2. call[t].kind = "insert" => call[t].item \in Entry
      BY <3>1 DEF StagedFor
    <3>3. QED  BY <3>2 DEF Committed, MarksLate, Statement, IInv, TypeOK
  <2>1. Empty \in Databases
    BY DEF Empty, Databases
  <2>2. QED  BY <2>0, <2>1, <1>3, <1>5 DEF IInv, TypeOK
<1>10. TypeOK' /\ Placed'
  BY <1>1, <1>2, <1>5, <1>9, LeftPlaced DEF Left, IInv, TypeOK, counters
<1>11. QED  BY <1>7, <1>8, <1>10 DEF IInv

\* A process ends.
LEMMA StepCrash == ASSUME IInv, NEW p \in Process, Crash(p) PROVE IInv'
<1>1. /\ db' = db /\ crashes' \in Nat /\ UNCHANGED <<acked, late, calls, cleanups, conflicts, faults>>
      /\ tx' = [c \in Conn |-> IF c[1] = p THEN "none" ELSE tx[c]]
      /\ view' = [c \in Conn |-> IF c[1] = p THEN Empty ELSE view[c]]
      /\ opened' = [opened EXCEPT ![p] = 0] /\ pool' = [pool EXCEPT ![p] = <<>>]
      /\ call' = [t \in Thread |-> IF Home[t] = p THEN Idle ELSE call[t]]
  BY DEF Crash, IInv, TypeOK
<1>2. /\ Empty \in Databases /\ Idle \in Calls /\ Idle.pc = "idle" /\ 0 \in 0..MaxSize
      /\ <<>> \in Seq(Conn)
  BY IdleTyped, SizeAssumption DEF Empty, Databases, Idle
<1>3. gate' \in [Process -> Thread \cup {NoThread}] /\ guard' \in [Process -> Thread \cup {NoThread}]
  BY DEF Crash, IInv, TypeOK
<1>4. TypeOK'
  <2>1. call' \in [Thread -> Calls] /\ view' \in [Conn -> Databases]
    BY <1>1, <1>2 DEF IInv, TypeOK
  <2>2. tx' \in [Conn -> {"none", "begun", "read", "stale", "write"}]
    BY <1>1 DEF IInv, TypeOK
  <2>3. opened' \in [Process -> 0..MaxSize] /\ pool' \in [Process -> Seq(Conn)]
    BY <1>1, <1>2 DEF IInv, TypeOK
  <2>4. QED  BY <1>1, <1>3, <2>1, <2>2, <2>3 DEF IInv, TypeOK
<1>5. \A t \in Thread : call'[t] = Idle \/ (call'[t] = call[t] /\ Home[t] # p)
  BY <1>1
<1>6. \A t \in Thread : Holds(t)' => Holds(t) /\ call'[t] = call[t] /\ Home[t] # p
  BY <1>2, <1>5 DEF Holds
<1>7. /\ \A q \in Process \ {p} : pool'[q] = pool[q] /\ opened'[q] = opened[q]
      /\ pool'[p] = <<>> /\ DOMAIN pool'[p] = {}
  BY <1>1 DEF IInv, TypeOK
<1>8. Placed'
  <2>1. \A t \in Thread : Holds(t)' => /\ call'[t].conn \in Conn /\ call'[t].conn[1] = Home[t]
                                       /\ call'[t].conn[2] <= opened'[Home[t]]
    BY <1>6, <1>7, HomeAssumption DEF IInv, Placed
  <2>2. ASSUME NEW q \in Process, NEW i \in DOMAIN pool'[q]
        PROVE  /\ pool'[q][i][1] = q /\ pool'[q][i][2] <= opened'[q]
               /\ \A j \in DOMAIN pool'[q] : pool'[q][i] = pool'[q][j] => i = j
               /\ \A t \in Thread : Holds(t)' => call'[t].conn # pool'[q][i]
    BY <1>6, <1>7 DEF IInv, Placed
  <2>3. \A t, v \in Thread : Holds(t)' /\ Holds(v)' /\ call'[t].conn = call'[v].conn => t = v
    BY <1>6 DEF IInv, Placed
  <2>4. QED  BY <2>1, <2>2, <2>3 DEF Placed
<1>9. \A c \in Conn : c \in Writer' => c \in Writer /\ view'[c] = view[c] /\ c[1] # p
  BY <1>1 DEF Writer
<1>10. OneWriter'
  BY <1>9 DEF IInv, OneWriter, Writer
<1>11. Staged'
  <2> SUFFICES ASSUME NEW v \in Thread
      PROVE  StagedFor(call'[v], db', view'[call'[v].conn], tx'[call'[v].conn])
    BY DEF Staged
  <2>1. StagedFor(call[v], db, view[call[v].conn], tx[call[v].conn])
    BY DEF IInv, Staged
  <2>2. CASE Mid(v)'
    <3>1. Holds(v)'
      BY <2>2 DEF Mid, Holds
    <3>2. call'[v] = call[v] /\ call[v].conn \in Conn /\ call[v].conn[1] # p
      BY <3>1, <1>6 DEF IInv, Placed
    <3>3. tx'[call[v].conn] = tx[call[v].conn] /\ view'[call[v].conn] = view[call[v].conn]
      BY <3>2, <1>1
    <3>4. QED  BY <2>1, <3>2, <3>3, <1>1
  <2>3. CASE ~Mid(v)'
    BY <2>1, <2>3, <1>2, <1>5 DEF StagedFor, Mid
  <2>4. QED  BY <2>2, <2>3
<1>12. Clean'
  <2> SUFFICES ASSUME NEW c \in Writer'
      PROVE  view'[c] = db \/ \E v \in Thread : Mid(v)' /\ call'[v].conn = c
    BY <1>1 DEF Clean
  <2>1. c \in Conn /\ c \in Writer /\ view'[c] = view[c] /\ c[1] # p
    BY <1>9 DEF Writer
  <2>2. view[c] = db \/ \E v \in Thread : Mid(v) /\ call[v].conn = c
    BY <2>1 DEF IInv, Clean
  <2>3. ASSUME NEW v \in Thread, Mid(v), call[v].conn = c PROVE Mid(v)' /\ call'[v].conn = c
    <3>1. Home[v] # p
      BY <2>1, <2>3 DEF IInv, Placed, Holds, Mid
    <3>2. call'[v] = call[v]
      BY <3>1, <1>1
    <3>3. QED  BY <2>3, <3>2 DEF Mid
  <2>4. QED  BY <2>1, <2>2, <2>3
<1>13. QED  BY <1>4, <1>8, <1>10, <1>11, <1>12 DEF IInv

\* The initial state.
LEMMA InitInv == Init => IInv
<1> SUFFICES ASSUME Init PROVE IInv
  OBVIOUS
<1>1. /\ Idle \in Calls /\ Idle.pc = "idle" /\ Empty \in Databases /\ 0 \in 0..MaxSize
      /\ <<>> \in Seq(Conn)
  BY IdleTyped, SizeAssumption DEF Empty, Databases, Idle
<1>2. TypeOK
  BY <1>1, NoneAssumption DEF Init, TypeOK
<1>3. \A t \in Thread : ~Holds(t) /\ ~Mid(t) /\ call[t].pc = "idle"
  BY <1>1 DEF Init, Holds, Mid
<1>4. Writer = {}
  BY DEF Init, Writer
<1>5. Placed
  BY <1>3 DEF Init, Placed
<1>6. Staged
  BY <1>3 DEF Staged, StagedFor
<1>7. QED  BY <1>2, <1>4, <1>5, <1>6 DEF IInv, OneWriter, Clean

\* Every step.
LEMMA NextInv == IInv /\ [Next]_vars => IInv'
<1> SUFFICES ASSUME IInv, [Next]_vars PROVE IInv'
  OBVIOUS
<1>1. ASSUME NEW t \in Thread, Begins(t) \/ Works(t) \/ Fails(t) PROVE IInv'
  BY <1>1, StepBegin, StepConnect, StepLocked, StepFetch, StepCancel, StepStage, StepFailure,
     StepCommitted DEF Works, Fails
<1>2. ASSUME NEW p \in Process, Crash(p) PROVE IInv'
  BY <1>2, StepCrash
<1>3. CASE UNCHANGED vars
  BY <1>3 DEF vars, memory, counters, IInv, TypeOK, Placed, OneWriter, Staged, Clean, Writer,
     Holds, Mid
<1>4. QED  BY <1>1, <1>2, <1>3 DEF Next

-----------------------------------------------------------------------------
(* The properties.                                                          *)

\* The invariant holds in every state.
LEMMA Invariant == Spec => []IInv
  BY InitInv, NextInv, PTL DEF Spec

\* Types hold in every state.
THEOREM TypeCorrect == Spec => []TypeOK
<1>1. IInv => TypeOK
  BY DEF IInv
<1>2. QED  BY Invariant, <1>1, PTL

\* Whatever a failed statement or a refused lock left open on an idle
\* connection of the pool (internals.py:284), it holds no change.
THEOREM LeftoversAreEmpty == Spec => []LeftoversEmpty
<1>1. IInv => LeftoversEmpty
  <2> SUFFICES ASSUME IInv, NEW p \in Process, NEW i \in DOMAIN pool[p], tx[pool[p][i]] = "write"
      PROVE  view[pool[p][i]] = db
    BY DEF LeftoversEmpty
  <2>1. pool[p][i] \in Conn
    BY DEF IInv, TypeOK
  <2>2. pool[p][i] \in Writer
    BY <2>1 DEF Writer
  <2>3. ~ \E t \in Thread : Mid(t) /\ call[t].conn = pool[p][i]
    BY DEF IInv, Placed, Mid, Holds
  <2>4. QED  BY <2>2, <2>3 DEF IInv, Clean
<1>2. QED  BY Invariant, <1>1, PTL

\* A commit appends one entry with its count, purges entries, or leaves both.
LEMMA CommitLedger ==
  ASSUME IInv, NEW t \in Thread, Committed(t)
  PROVE  Ledger!Next \/ UNCHANGED <<db.entries, db.total>>
<1>1. /\ call[t].pc = "executed" /\ db' = view[call[t].conn]
      /\ db \in Databases
  BY DEF Committed, Commit, At, Using, IInv, TypeOK
<1>2. StagedFor(call[t], db, db', tx[call[t].conn])
  BY <1>1 DEF IInv, Staged
<1>3. CASE call[t].kind = "insert" /\ call[t].item \notin db.entries
           /\ db'.entries = db.entries \cup {call[t].item} /\ db'.total = db.total + 1
  <2>1. call[t].item \in Entry
    BY <1>1, <1>2, <1>3 DEF StagedFor
  <2>2. Ledger!Append(call[t].item)
    BY <1>3 DEF Ledger!Append
  <2>3. QED  BY <2>1, <2>2 DEF Ledger!Next
<1>4. CASE db' = db
  BY <1>4
<1>5. CASE call[t].kind \in {"touch", "archive"} /\ db' = Effect(call[t], db)
  BY <1>1, <1>5 DEF Effect, Databases
<1>6. CASE call[t].kind = "delete" /\ db' = Effect(call[t], db)
  <2>1. db'.entries = db.entries \ Old /\ db'.total = db.total
    BY <1>1, <1>6 DEF Effect, Databases
  <2>2. Old \cap db.entries \in SUBSET Entry
    BY <1>1 DEF Databases
  <2>3. Ledger!Purge(Old \cap db.entries)
    BY <2>1 DEF Ledger!Purge
  <2>4. QED  BY <2>2, <2>3 DEF Ledger!Next
<1>7. QED  BY <1>1, <1>2, <1>3, <1>4, <1>5, <1>6 DEF StagedFor

\* The statements and transactions implement the ledger: an entry and its
\* count become visible together, once for each entry that is new.
THEOREM ImplementsLedger == Spec => KeepsLedger
<1>1. Init => Ledger!Init
  BY DEF Init, Empty, Ledger!Init
<1>2. IInv /\ [Next]_vars => [Ledger!Next]_<<db.entries, db.total>>
  <2> SUFFICES ASSUME IInv, [Next]_vars
      PROVE  Ledger!Next \/ UNCHANGED <<db.entries, db.total>>
    OBVIOUS
  <2>1. ASSUME NEW t \in Thread, Begins(t) \/ (Works(t) /\ ~Committed(t)) \/ Fails(t)
        PROVE  db' = db
    BY <2>1 DEF Begins, BeginInsert, BeginTouch, BeginCleanup, BeginRead, Begin, Works, Connect,
       Execute, LockedStatement, Fetch, Insert, LockedTransaction, Nested, CountEntry, Stage,
       LeaveBegun, Rollback, Fails, Conflict, CountFails, Cancel
  <2>2. ASSUME NEW p \in Process, Crash(p) PROVE db' = db
    BY <2>2 DEF Crash
  <2>3. CASE UNCHANGED vars
    BY <2>3 DEF vars
  <2>4. QED  BY <2>1, <2>2, <2>3, CommitLedger DEF Next
<1>3. QED  BY Invariant, <1>1, <1>2, PTL DEF Spec, KeepsLedger, Ledger!Spec

-----------------------------------------------------------------------------
(* Retention.  Its statements commit one by one; between them only the      *)
(* write lock of the process keeps an entry from being logged and deleted   *)
(* unarchived.  The entries it does not order are late.                     *)

\* Inserts, cancelled or not, and cleanups hold the write lock of their process.
Guarded == \A t \in Thread :
  /\ call[t].pc # "idle" /\ call[t].kind = "insert" => guard[Home[t]] = t
  /\ call[t].pc # "idle" /\ call[t].kind \in {"archive", "count", "delete"} /\ ~call[t].cancelled
       => guard[Home[t]] = t

\* Once a cleanup has archived, every old entry is in the archive or late.
Archived == \A t \in Thread : call[t].pc # "idle" /\ call[t].kind \in {"count", "delete"}
                                => Old \cap db.entries \subseteq db.archive \cup late

\* The calls and the lock after a step of one thread.
OwnStep(t) ==
  /\ \A v \in Thread \ {t} : /\ call'[v] = call[v]
                             /\ guard[Home[v]] = v => guard'[Home[v]] = v
  /\ call'[t].pc # "idle" =>
       \/ /\ call[t].pc # "idle" /\ call'[t].kind = call[t].kind
          /\ \/ guard' = guard /\ call'[t].cancelled = call[t].cancelled
             \/ call[t].kind = "insert" /\ guard' = guard
             \/ call[t].kind # "insert" /\ call'[t].cancelled
       \/ /\ call[t].pc # "idle" /\ guard' = guard /\ call'[t].kind \in {"count", "delete"}
          /\ call[t].kind \in {"archive", "count"} /\ ~call[t].cancelled
       \/ call'[t].kind \in {"insert", "archive"} /\ guard'[Home[t]] = t
       \/ call'[t].kind \in {"touch", "read"}

\* Every step of a thread has that form.
LEMMA Stepping ==
  ASSUME IInv, NEW t \in Thread, Begins(t) \/ Works(t) \/ Fails(t)
  PROVE  OwnStep(t)
<1> USE HomeAssumption DEF IInv, TypeOK
<1>0. /\ call \in [Thread -> Calls] /\ guard \in [Process -> Thread \cup {NoThread}]
      /\ Home[t] \in Process /\ \A v \in Thread : Home[v] \in Process
  OBVIOUS
<1>1. ASSUME Unlocks(t) PROVE \A v \in Thread \ {t} : guard[Home[v]] = v => guard'[Home[v]] = v
  BY <1>0, <1>1 DEF Unlocks
<1>2. ASSUME call' = [call EXCEPT ![t] = Idle], Unlocks(t) PROVE OwnStep(t)
  BY <1>0, <1>1, <1>2 DEF OwnStep, Idle
<1>3. CASE Raise(t) \/ Return(t)
  BY <1>2, <1>3 DEF Raise, Return
<1>4. CASE BeginInsert(t)
  BY <1>0, <1>4, NoneAssumption DEF BeginInsert, Begin, Locks, Idle, OwnStep
<1>5. CASE BeginTouch(t) \/ BeginCleanup(t) \/ BeginRead(t)
  <2>1. ASSUME NEW kind \in Kinds, Begin(t, kind, NoItem)
        PROVE  (\A v \in Thread \ {t} : call'[v] = call[v]) /\ call'[t].kind = kind
    BY <1>0, <2>1 DEF Begin, Idle
  <2>2. ASSUME Locks(t)
        PROVE  /\ \A v \in Thread \ {t} : guard[Home[v]] = v => guard'[Home[v]] = v
               /\ guard'[Home[t]] = t
    BY <1>0, <2>2, NoneAssumption DEF Locks
  <2>3. CASE BeginTouch(t)
    BY <2>1, <2>2, <2>3 DEF BeginTouch, Kinds, OwnStep
  <2>4. CASE BeginCleanup(t)
    BY <2>1, <2>2, <2>4 DEF BeginCleanup, Kinds, OwnStep
  <2>5. CASE BeginRead(t)
    BY <2>1, <2>5 DEF BeginRead, Kinds, OwnStep
  <2>6. QED  BY <1>5, <2>3, <2>4, <2>5
<1>6. CASE Connect(t)
  <2>1. /\ \A v \in Thread \ {t} : call'[v] = call[v]
        /\ call'[t].kind = call[t].kind /\ call'[t].cancelled = call[t].cancelled /\ guard' = guard
        /\ call[t].pc # "idle"
    BY <1>0, <1>6 DEF Connect, Opens, Reuses, At, Calls
  <2>2. QED  BY <2>1 DEF OwnStep
<1>7. CASE Execute(t) \/ Insert(t) \/ CountEntry(t)
  <2>1. /\ \A v \in Thread \ {t} : call'[v] = call[v]
        /\ call'[t].kind = call[t].kind /\ call'[t].cancelled = call[t].cancelled /\ guard' = guard
        /\ call[t].pc # "idle"
    BY <1>0, <1>7 DEF Execute, Executes, Insert, Inserts, CountEntry, At, memory, Calls
  <2>2. QED  BY <2>1 DEF OwnStep
<1>8. CASE /\ call[t].attempt < Retries /\ call[t].pc # "idle"
           /\ call' = [call EXCEPT ![t].pc = "ready", ![t].conn = NoConn, ![t].attempt = @ + 1]
           /\ guard' = guard
  <2>1. /\ \A v \in Thread \ {t} : call'[v] = call[v]
        /\ call'[t].kind = call[t].kind /\ call'[t].cancelled = call[t].cancelled
    BY <1>0, <1>8 DEF Calls
  <2>2. QED  BY <1>8, <2>1 DEF OwnStep
<1>9. CASE LockedStatement(t) \/ LockedTransaction(t)
  <2>1. call[t].pc # "idle" /\ RetryOrRaise(t)
    BY <1>9 DEF LockedStatement, Executes, LockedTransaction, Inserts, At
  <2>2. QED  BY <2>1, <1>3, <1>8 DEF RetryOrRaise
<1>10. ASSUME NEW kind \in {"count", "delete"}, Continue(t, kind), call[t].pc # "idle",
              call[t].kind \in {"archive", "count"}, ~call[t].cancelled
       PROVE  OwnStep(t)
  <2>1. /\ \A v \in Thread \ {t} : call'[v] = call[v]
        /\ call'[t].kind = kind /\ guard' = guard
    BY <1>0, <1>10 DEF Continue, Calls
  <2>2. QED  BY <1>10, <2>1 DEF OwnStep
<1>11. CASE Committed(t) \/ Fetch(t)
  BY <1>3, <1>10, <1>11 DEF Committed, Fetch, Statement, At
<1>12. CASE Nested(t) \/ Conflict(t) \/ CountFails(t)
  BY <1>3, <1>12 DEF Nested, Conflict, CountFails
<1>13. CASE Cancel(t)
  <2>1. /\ \A v \in Thread \ {t} : call'[v] = call[v]
        /\ call'[t].kind = call[t].kind /\ call'[t].cancelled
        /\ call[t].pc # "idle"
    BY <1>0, <1>13 DEF Cancel, At, Statement, Calls
  <2>2. CASE call[t].kind = "insert"
    BY <1>13, <2>1, <2>2 DEF Cancel, Drains, Statement, OwnStep
  <2>3. CASE call[t].kind # "insert"
    BY <1>1, <1>13, <2>1, <2>3 DEF Cancel, Drains, Statement, OwnStep
  <2>4. QED  BY <2>2, <2>3
<1>14. QED  BY <1>4, <1>5, <1>6, <1>7, <1>9, <1>11, <1>12, <1>13 DEF Begins, Works, Fails

\* What a commit does to the database, by kind of statement.
LEMMA Committing ==
  ASSUME IInv, NEW t \in Thread, Committed(t)
  PROVE  /\ db' \in Databases /\ db.archive \subseteq db'.archive /\ db.rows \subseteq db'.rows
         /\ call[t].pc = "executed" /\ call[t].ticket \in Ticket
         /\ \/ /\ call[t].kind = "insert" /\ db'.entries = db.entries \cup {call[t].item}
               /\ db'.archive = db.archive
            \/ /\ call[t].kind = "touch" /\ db'.entries = db.entries /\ call[t].ticket \in db'.rows
            \/ /\ call[t].kind = "archive" /\ db'.entries = db.entries
               /\ db'.archive = db.archive \cup (Old \cap db.entries)
            \/ /\ call[t].kind = "delete" /\ db'.entries = db.entries \ Old
         /\ call[t].kind # "insert" => late' = late
<1>0. call[t].kind # "insert" => late' = late
  BY DEF Committed, MarksLate, Statement
<1>1. /\ call[t].pc = "executed" /\ db' = view[call[t].conn]
      /\ db \in Databases
  BY DEF Committed, Commit, At, Using, IInv, TypeOK
<1>2. StagedFor(call[t], db, db', tx[call[t].conn])
  BY <1>1 DEF IInv, Staged
<1>3. db' \in Databases
  BY <1>1 DEF IInv, TypeOK, Placed, Holds
<1>4. call[t].ticket \in Ticket
  BY <1>1, <1>2 DEF StagedFor
<1>5. CASE call[t].kind = "insert"
  BY <1>1, <1>2, <1>3, <1>4, <1>5 DEF StagedFor, Databases
<1>6. CASE call[t].kind \in {"touch", "archive", "delete"}
  <2>1. db' = Effect(call[t], db)
    BY <1>1, <1>2, <1>6 DEF StagedFor
  <2>2. CASE call[t].kind = "touch"
    <3>1. db' = [db EXCEPT !.rows = @ \cup {call[t].ticket}]
      BY <2>1, <2>2 DEF Effect
    <3>2. QED  BY <1>0, <1>1, <1>3, <1>4, <2>2, <3>1 DEF Databases
  <2>3. CASE call[t].kind = "archive"
    <3>1. db' = [db EXCEPT !.archive = @ \cup (Old \cap db.entries)]
      BY <2>1, <2>3 DEF Effect
    <3>2. QED  BY <1>0, <1>1, <1>3, <1>4, <2>3, <3>1 DEF Databases
  <2>4. CASE call[t].kind = "delete"
    <3>1. db' = [db EXCEPT !.entries = @ \ Old]
      BY <2>1, <2>4 DEF Effect
    <3>2. QED  BY <1>0, <1>1, <1>3, <1>4, <2>4, <3>1 DEF Databases
  <2>5. QED  BY <1>6, <2>2, <2>3, <2>4
<1>7. QED  BY <1>0, <1>1, <1>2, <1>5, <1>6 DEF StagedFor

\* Only a commit changes the database and the late entries.
LEMMA Uncommitted ==
  ASSUME NEW t \in Thread, Begins(t) \/ Works(t) \/ Fails(t), ~Committed(t)
  PROVE  db' = db /\ late' = late
  BY DEF Begins, BeginInsert, BeginTouch, BeginCleanup, BeginRead, Begin, Works, Connect,
     Execute, LockedStatement, Fetch, Insert, LockedTransaction, Nested, CountEntry, Stage,
     LeaveBegun, Rollback, Fails, Conflict, CountFails, Cancel

\* A cleanup leaves its first statement by a commit or with an error.
LEMMA OnlyCommitArchives ==
  ASSUME IInv, NEW t \in Thread, Begins(t) \/ Works(t) \/ Fails(t), ~Committed(t),
         call[t].pc # "idle", call[t].kind = "archive", call'[t].pc # "idle"
  PROVE  call'[t].kind = "archive"
<1>1. call[t] \in Calls /\ call \in [Thread -> Calls]
  BY DEF IInv, TypeOK
<1>2. CASE Connect(t) \/ Execute(t)
  BY <1>1, <1>2 DEF Connect, Opens, Reuses, Execute, Calls
<1>3. CASE LockedStatement(t)
  BY <1>1, <1>3 DEF LockedStatement, RetryOrRaise, Raise, Idle, Calls
<1>4. CASE Cancel(t)
  BY <1>1, <1>4 DEF Cancel, Calls
<1>5. QED  BY <1>1, <1>2, <1>3, <1>4 DEF Begins, BeginInsert, BeginTouch, BeginCleanup, BeginRead,
     Begin, Works, Fetch, Writes, Statement, Insert, Inserts, LockedTransaction, Nested,
     CountEntry, At, Fails, Conflict, CountFails, Executes, IInv, Staged, StagedFor

KInv == IInv /\ Guarded /\ Archived

\* The three parts hold together.
LEMMA KeptNext ==
  ASSUME KInv, [Next]_vars
  PROVE  KInv'
<1>0. IInv /\ Guarded /\ Archived
  BY DEF KInv
<1> USE HomeAssumption, <1>0
<1>1. IInv'
  BY NextInv
<1>2. ASSUME NEW t \in Thread, Begins(t) \/ Works(t) \/ Fails(t)
      PROVE  Guarded' /\ Archived'
  <2>1. OwnStep(t)
    BY <1>2, Stepping
  <2>2. Guarded'
    BY <2>1 DEF Guarded, OwnStep
  <2>3. CASE ~Committed(t)
    <3>1. db' = db /\ late' = late
      BY <1>2, <2>3, Uncommitted
    <3>2. ASSUME NEW v \in Thread, (call[v].pc # "idle" /\ call[v].kind \in {"count", "delete"})',
                 ~(call[v].pc # "idle" /\ call[v].kind \in {"count", "delete"})
          PROVE  FALSE
      <4>1. v = t /\ call[t].pc # "idle" /\ call[t].kind = "archive"
        BY <2>1, <3>2 DEF OwnStep
      <4>2. QED  BY <1>2, <2>3, <3>2, <4>1, OnlyCommitArchives
    <3>3. QED  BY <2>2, <3>1, <3>2 DEF Archived
  <2>4. CASE Committed(t)
    <3>1. SUFFICES ASSUME NEW v \in Thread,
                          (call[v].pc # "idle" /\ call[v].kind \in {"count", "delete"})'
          PROVE  Old \cap db'.entries \subseteq db'.archive \cup late'
      BY <2>2 DEF Archived
    <3>2. /\ db.archive \subseteq db'.archive /\ call[t].pc = "executed"
          /\ db \in Databases /\ db' \in Databases
      BY <2>4, Committing DEF IInv, TypeOK
    <3>3. CASE call[t].kind = "insert"
      <4>1. db'.entries = db.entries \cup {call[t].item} /\ guard[Home[t]] = t
        BY <2>4, <3>2, <3>3, Committing DEF Guarded
      <4>2. v # t /\ call'[v] = call[v]
        BY <2>1, <3>1, <3>2, <3>3 DEF OwnStep
      <4>3. Beside(t, v)
        BY <3>1, <4>1, <4>2 DEF Guarded, Beside, Statement
      <4>4. late' = late \cup (Old \cap {call[t].item})
        BY <2>4, <3>3, <4>3 DEF Committed, MarksLate, Statement
      <4>5. Old \cap db.entries \subseteq db.archive \cup late
        BY <3>1, <4>2 DEF Archived
      <4>6. QED  BY <3>2, <4>1, <4>4, <4>5
    <3>4. CASE call[t].kind = "archive"
      BY <2>4, <3>2, <3>4, Committing
    <3>5. CASE call[t].kind = "delete"
      BY <2>4, <3>2, <3>5, Committing
    <3>6. CASE call[t].kind = "touch"
      <4>1. v # t /\ call'[v] = call[v]
        BY <2>1, <3>1, <3>2, <3>6 DEF OwnStep
      <4>2. Old \cap db.entries \subseteq db.archive \cup late
        BY <3>1, <4>1 DEF Archived
      <4>3. QED  BY <2>4, <3>2, <3>6, <4>2, Committing
    <3>7. QED  BY <2>4, <3>3, <3>4, <3>5, <3>6, Committing
  <2>5. QED  BY <2>2, <2>3, <2>4
<1>3. ASSUME NEW p \in Process, Crash(p) PROVE Guarded' /\ Archived'
  <2>1. /\ call' = [t \in Thread |-> IF Home[t] = p THEN Idle ELSE call[t]]
        /\ guard' = [guard EXCEPT ![p] = NoThread] /\ db' = db /\ late' = late
    BY <1>3 DEF Crash
  <2>2. \A t \in Thread : call'[t].pc # "idle" => call'[t] = call[t] /\ Home[t] # p
    BY <2>1 DEF Idle
  <2>3. \A t \in Thread : Home[t] # p => guard'[Home[t]] = guard[Home[t]]
    BY <2>1 DEF IInv, TypeOK
  <2>4. Guarded'
    BY <2>2, <2>3 DEF Guarded
  <2>5. Archived'
    BY <2>1, <2>2 DEF Archived
  <2>6. QED  BY <2>4, <2>5
<1>4. ASSUME UNCHANGED vars PROVE Guarded' /\ Archived'
  BY <1>4 DEF vars, memory, Guarded, Archived
<1>5. [Next]_vars => \/ \E t \in Thread : Begins(t) \/ Works(t) \/ Fails(t)
                     \/ \E p \in Process : Crash(p)
                     \/ UNCHANGED vars
  BY DEF Next
<1>6. Guarded' /\ Archived'
  BY <1>2, <1>3, <1>4, <1>5
<1>7. QED  BY <1>1, <1>6 DEF KInv

\* Initially nothing is in flight.
LEMMA KeptInit == Init => KInv
  BY InitInv DEF Init, Idle, KInv, Guarded, Archived

\* Retention (cleanup_old_entries, entries.py:575) deletes only entries it has
\* archived or that were logged between its commits past the write lock, for
\* any number of processes, calls, cancellations, crashes and refused locks.
THEOREM PurgesOnlyArchived == Spec => PurgesArchived
<1>1. KInv /\ [Next]_vars => [\A e \in db.entries \ db'.entries : e \in db'.archive \cup late]_vars
  <2> SUFFICES ASSUME KInv, [Next]_vars
      PROVE  \A e \in db.entries \ db'.entries : e \in db'.archive \cup late
    OBVIOUS
  <2>1. ASSUME NEW t \in Thread, Committed(t)
        PROVE  \A e \in db.entries \ db'.entries : e \in db'.archive \cup late
    <3>1. CASE call[t].kind = "delete"
      <4>1. call[t].pc = "executed" /\ db'.entries = db.entries \ Old
            /\ db.archive \subseteq db'.archive
        BY <2>1, <3>1, Committing DEF KInv
      <4>2. Old \cap db.entries \subseteq db.archive \cup late
        BY <3>1, <4>1 DEF KInv, Archived
      <4>3. QED  BY <4>1, <4>2
    <3>2. QED  BY <2>1, <3>1, Committing DEF KInv
  <2>2. db' # db => \E t \in Thread : Committed(t)
    <3>1. \A t \in Thread : (Begins(t) \/ Works(t) \/ Fails(t)) /\ ~Committed(t) => db' = db
      BY Uncommitted
    <3>2. \A p \in Process : Crash(p) => db' = db
      BY DEF Crash
    <3>3. QED  BY <3>1, <3>2 DEF Next, vars
  <2>3. QED  BY <2>1, <2>2
<1>2. KInv /\ [Next]_vars => KInv'
  BY KeptNext
<1>3. QED  BY <1>1, <1>2, KeptInit, PTL DEF Spec, PurgesArchived

\* Only the commit of a call acknowledges what it wrote.
LEMMA Acknowledging ==
  ASSUME IInv, NEW t \in Thread, Begins(t) \/ Works(t) \/ Fails(t)
  PROVE  \/ ~Committed(t) /\ acked' = acked
         \/ /\ Committed(t)
            /\ acked' \subseteq acked \cup (IF call[t].kind = "insert" THEN {call[t].item}
                                            ELSE IF call[t].kind = "touch" THEN {call[t].ticket}
                                            ELSE {})
<1>1. CASE Committed(t)
  BY <1>1 DEF Committed, Continue, Return, Statement
<1>2. CASE Fetch(t)
  <2>1. call[t].kind \in {"count", "read"}
    BY <1>2 DEF Fetch, Writes, Statement, IInv, TypeOK, Calls, Kinds
  <2>2. acked' = acked
    BY <1>2, <2>1 DEF Fetch, Continue, Return, Statement
  <2>3. ~Committed(t)
    BY <1>2 DEF Fetch, Committed, At
  <2>4. QED  BY <2>2, <2>3
<1>3. CASE ~Committed(t) /\ ~Fetch(t)
  BY <1>3 DEF Begins, BeginInsert, BeginTouch, BeginCleanup, BeginRead, Begin, Works, Connect,
     Execute, LockedStatement, Insert, LockedTransaction, Nested, CountEntry, RetryOrRaise,
     Raise, Fails, Conflict, CountFails, Cancel
<1>4. QED  BY <1>1, <1>2, <1>3

\* What a call that returned has written stays committed or archived, late
\* entries excepted: no transaction a failed statement left open, no retry,
\* no cancelled caller and no crash takes it away.
THEOREM AckedIsStored == Entry \cap Ticket = {} /\ Spec => []AckedStored
<1> SUFFICES ASSUME Entry \cap Ticket = {} PROVE Spec => []AckedStored
  OBVIOUS
<1>1. Init => AckedStored
  BY DEF Init, AckedStored
<1>2. KInv /\ AckedStored /\ [Next]_vars => AckedStored'
  <2> SUFFICES ASSUME KInv, AckedStored, [Next]_vars PROVE AckedStored'
    OBVIOUS
  <2>0. IInv /\ Archived
    BY DEF KInv
  <2>1. ASSUME NEW t \in Thread, Begins(t) \/ Works(t) \/ Fails(t), ~Committed(t)
        PROVE  AckedStored'
    BY <2>0, <2>1, Uncommitted, Acknowledging DEF AckedStored
  <2>2. ASSUME NEW t \in Thread, Committed(t) PROVE AckedStored'
    <3>1. /\ acked' \subseteq acked \cup (IF call[t].kind = "insert" THEN {call[t].item}
                                          ELSE IF call[t].kind = "touch" THEN {call[t].ticket}
                                          ELSE {})
      BY <2>0, <2>2, Acknowledging DEF Works
    <3>2. /\ db.archive \subseteq db'.archive /\ db.rows \subseteq db'.rows
          /\ call[t].pc = "executed" /\ call[t].ticket \in Ticket
      BY <2>0, <2>2, Committing
    <3>3. CASE call[t].kind = "insert"
      <4>1. call[t].item \in Entry
        BY <2>0, <3>2, <3>3 DEF IInv, Staged, StagedFor
      <4>2. db'.entries = db.entries \cup {call[t].item} /\ db'.archive = db.archive
        BY <2>0, <2>2, <3>3, Committing
      <4>3. late \subseteq late' \cup {call[t].item}
        BY <2>2 DEF Committed, MarksLate
      <4>4. QED  BY <3>1, <3>2, <3>3, <4>1, <4>2, <4>3 DEF AckedStored
    <3>4. CASE call[t].kind = "touch"
      <4>1. db'.entries = db.entries /\ call[t].ticket \in db'.rows /\ late' = late
        BY <2>0, <2>2, <3>4, Committing
      <4>2. QED  BY <3>1, <3>2, <3>4, <4>1 DEF AckedStored
    <3>5. CASE call[t].kind = "archive"
      <4>1. db'.entries = db.entries /\ late' = late
        BY <2>0, <2>2, <3>5, Committing
      <4>2. QED  BY <3>1, <3>2, <3>5, <4>1 DEF AckedStored
    <3>6. CASE call[t].kind = "delete"
      <4>1. db'.entries = db.entries \ Old /\ late' = late
        BY <2>0, <2>2, <3>6, Committing
      <4>2. Old \cap db.entries \subseteq db.archive \cup late
        BY <2>0, <3>2, <3>6 DEF Archived
      <4>3. QED  BY <3>1, <3>2, <3>6, <4>1, <4>2 DEF AckedStored
    <3>7. QED  BY <2>0, <2>2, <3>3, <3>4, <3>5, <3>6, Committing
  <2>3. ASSUME NEW p \in Process, Crash(p) PROVE AckedStored'
    BY <2>3 DEF Crash, AckedStored
  <2>4. CASE UNCHANGED vars
    BY <2>4 DEF vars, AckedStored
  <2>5. QED  BY <2>1, <2>2, <2>3, <2>4 DEF Next
<1>3. KInv /\ [Next]_vars => KInv'
  BY KeptNext
<1>4. QED  BY <1>1, <1>2, <1>3, KeptInit, PTL DEF Spec

=============================================================================
