------------------------------ MODULE SqlitePool ------------------------------
(***************************************************************************)
(* SQLiteConnectionPool of storage/pool.py.  acquire, release and          *)
(* close_all are critical sections of one lock, and each section is one    *)
(* action; acquire leaves the section to wait on the condition and to open *)
(* a connection.  The deque of pooled connections and the queue of the     *)
(* condition are sets: which of them is taken or woken is left open.       *)
(***************************************************************************)
EXTENDS Naturals, FiniteSets

CONSTANTS Thread,             \* threads that use the store
          Timed,              \* those that pass a timeout to acquire
          Conn,               \* connection objects that may ever be opened
          MaxSize,            \* max_size of the pool
          MaxCalls,           \* bound on calls of acquire
          MaxCreateFailures,  \* bound on sqlite3.connect raising
          MaxBroken,          \* bound on connections that become invalid
          NoConn              \* a thread without a connection

ASSUME ConstantsAssumption ==
    /\ IsFiniteSet(Thread) /\ Timed \subseteq Thread
    /\ MaxSize \in Nat \ {0}
    /\ NoConn \notin Conn

ASSUME BoundsAssumption ==
    MaxCalls \in Nat /\ MaxCreateFailures \in Nat /\ MaxBroken \in Nat

VARIABLES
    pool,      \* _pool: connections nobody uses
    active,    \* _active_count
    closed,    \* _closed
    pc,        \* where a thread is: waiting in the condition's queue, there
               \* although its time is up (expired), notified before (woken)
               \* or after that (missed), creating or using a connection
    conn,      \* the connection a thread uses
    state,     \* per connection: "unused", "open", "broken" or "closed"
    missed,    \* notifications that went to an expired wait
    calls, createFailures, broken

sharedVars == <<pool, active, closed>>
threadVars == <<pc, conn>>
vars == <<sharedVars, threadVars, state, missed, calls, createFailures, broken>>

Waiters == {t \in Thread : pc[t] = "waiting"}
Expired == {t \in Thread : pc[t] = "expired"}
Woken == {t \in Thread : pc[t] = "woken"}
Busy == {t \in Thread : pc[t] \in {"creating", "using"}}

Valid == {c \in pool : state[c] = "open"}

Goto(t, label) == pc' = [pc EXCEPT ![t] = label]

Close(S) == state' = [c \in Conn |-> IF c \in S THEN "closed" ELSE state[c]]

-----------------------------------------------------------------------------
(* acquire: called, or going round its loop after a notification.           *)

\* Broken: the flag is not looked at.
BrokenBegins(t) == /\ pc[t] = "idle"
                   /\ calls < MaxCalls /\ calls' = calls + 1

Begins(t) == /\ pc[t] = "idle" /\ ~closed
             /\ calls < MaxCalls /\ calls' = calls + 1

Retries(t) == pc[t] = "woken" /\ ~closed /\ UNCHANGED calls

Attempts(t) == /\ Begins(t) \/ Retries(t)
               /\ UNCHANGED <<closed, missed, createFailures, broken>>

\* The first valid pooled connection; the invalid ones before it are closed.
TakePooled(t) ==
    /\ Attempts(t)
    /\ \E c \in Valid : \E bad \in SUBSET (pool \ Valid) :
         /\ pool' = pool \ (bad \cup {c})
         /\ Close(bad)
         /\ conn' = [conn EXCEPT ![t] = c]
    /\ active' = active + 1
    /\ Goto(t, "using")

\* All pooled connections, if any, were invalid.
Drains == Valid = {} /\ pool' = {} /\ Close(pool) /\ UNCHANGED conn

\* The slot is taken before the lock is released to open a connection.
BeginCreate(t) ==
    /\ Attempts(t) /\ Drains
    /\ active < MaxSize
    /\ active' = active + 1
    /\ Goto(t, "creating")

\* At max_size: wait, or give up when the deadline has passed.
Exhausted(t) ==
    /\ Attempts(t) /\ Drains
    /\ active >= MaxSize /\ UNCHANGED active
    /\ \/ Goto(t, "waiting")
       \/ t \in Timed /\ Goto(t, "idle")

\* Whatever happened to the pool meanwhile, the connection is handed out.
Created(t) ==
    /\ pc[t] = "creating"
    /\ \E c \in Conn : /\ state[c] = "unused"
                       /\ state' = [state EXCEPT ![c] = "open"]
                       /\ conn' = [conn EXCEPT ![t] = c]
    /\ Goto(t, "using")
    /\ UNCHANGED <<sharedVars, missed, calls, createFailures, broken>>

\* Broken: the slot is given back by the handler and by its caller.
BrokenCreateFails(t) ==
    /\ pc[t] = "creating"
    /\ createFailures < MaxCreateFailures
    /\ createFailures' = createFailures + 1
    /\ active' = active - 2
    /\ Goto(t, "idle")
    /\ UNCHANGED <<pool, closed, conn, state, missed, calls, broken>>

\* The slot is given back; nobody is notified.
CreateFails(t) ==
    /\ pc[t] = "creating"
    /\ createFailures < MaxCreateFailures
    /\ createFailures' = createFailures + 1
    /\ active' = active - 1
    /\ Goto(t, "idle")
    /\ UNCHANGED <<pool, closed, conn, state, missed, calls, broken>>

\* The time of a wait is up; its thread has yet to get the lock and to leave
\* the queue of the condition.
Expires(t) ==
    /\ pc[t] = "waiting" /\ t \in Timed
    /\ Goto(t, "expired")
    /\ UNCHANGED <<sharedVars, conn, state, missed, calls, createFailures, broken>>

\* wait returns False: TimeoutError (RuntimeError when the pool is closed),
\* whether or not a notification has come meanwhile.
TimesOut(t) ==
    /\ pc[t] \in {"expired", "missed"}
    /\ Goto(t, "idle")
    /\ UNCHANGED <<sharedVars, conn, state, missed, calls, createFailures, broken>>

\* RuntimeError: the pool was closed while the thread waited.
FindsClosed(t) ==
    /\ pc[t] = "woken" /\ closed
    /\ Goto(t, "idle")
    /\ UNCHANGED <<sharedVars, conn, state, missed, calls, createFailures, broken>>

-----------------------------------------------------------------------------

\* The thread is done and one of the queue is notified, too late if its time
\* is up.
Notify(t) ==
    \/ /\ Waiters \cup Expired = {}
       /\ Goto(t, "idle") /\ UNCHANGED missed
    \/ \E w \in Waiters :
          /\ pc' = [pc EXCEPT ![t] = "idle", ![w] = "woken"]
          /\ UNCHANGED missed
    \/ \E w \in Expired :
          /\ pc' = [pc EXCEPT ![t] = "idle", ![w] = "missed"]
          /\ missed' = missed + 1

\* Broken: only a connection that goes back to the pool is announced.
BrokenRelease(t) ==
    LET c == conn[t] IN
    /\ pc[t] = "using" /\ ~closed
    /\ active' = active - 1
    /\ conn' = [conn EXCEPT ![t] = NoConn]
    /\ \/ /\ state[c] = "open"
          /\ pool' = pool \cup {c} /\ UNCHANGED state
          /\ Notify(t)
       \/ /\ state[c] = "broken"
          /\ Close({c}) /\ UNCHANGED <<pool, missed>>
          /\ Goto(t, "idle")
    /\ UNCHANGED <<closed, calls, createFailures, broken>>

\* release of a pool that is not closed.
Release(t) ==
    LET c == conn[t] IN
    /\ pc[t] = "using" /\ ~closed
    /\ active' = active - 1
    /\ conn' = [conn EXCEPT ![t] = NoConn]
    /\ \/ state[c] = "open" /\ pool' = pool \cup {c} /\ UNCHANGED state
       \/ state[c] = "broken" /\ Close({c}) /\ UNCHANGED pool
    /\ Notify(t)
    /\ UNCHANGED <<closed, calls, createFailures, broken>>

\* A connection released to a closed pool is closed.
ReleaseClosed(t) ==
    /\ pc[t] = "using" /\ closed
    /\ active' = active - 1
    /\ conn' = [conn EXCEPT ![t] = NoConn]
    /\ Close({conn[t]})
    /\ Goto(t, "idle")
    /\ UNCHANGED <<pool, closed, missed, calls, createFailures, broken>>

\* Broken: one of the waiting threads is notified.
BrokenCloseAll ==
    /\ ~closed /\ closed' = TRUE
    /\ pool' = {} /\ Close(pool)
    /\ \/ Waiters = {} /\ UNCHANGED pc
       \/ \E w \in Waiters : Goto(w, "woken")
    /\ UNCHANGED <<active, conn, missed, calls, createFailures, broken>>

CloseAll ==
    /\ ~closed /\ closed' = TRUE
    /\ pool' = {} /\ Close(pool)
    /\ pc' = [t \in Thread |-> IF pc[t] = "waiting" THEN "woken" ELSE pc[t]]
    /\ UNCHANGED <<active, conn, missed, calls, createFailures, broken>>

\* A connection stops passing _validate_connection.
Break(c) ==
    /\ broken < MaxBroken /\ broken' = broken + 1
    /\ state[c] = "open"
    /\ state' = [state EXCEPT ![c] = "broken"]
    /\ UNCHANGED <<sharedVars, threadVars, missed, calls, createFailures>>

Init ==
    /\ pool = {} /\ active = 0 /\ closed = FALSE
    /\ pc = [t \in Thread |-> "idle"]
    /\ conn = [t \in Thread |-> NoConn]
    /\ state = [c \in Conn |-> "unused"]
    /\ missed = 0 /\ calls = 0 /\ createFailures = 0 /\ broken = 0

Acquire(t) == TakePooled(t) \/ BeginCreate(t) \/ Exhausted(t)

Proceeds(t) == \/ Retries(t) /\ Acquire(t)
               \/ FindsClosed(t) \/ TimesOut(t)
               \/ Created(t) \/ Release(t) \/ ReleaseClosed(t)

Next == \/ \E t \in Thread : \/ Acquire(t) \/ FindsClosed(t)
                             \/ Expires(t) \/ TimesOut(t)
                             \/ Created(t) \/ CreateFails(t)
                             \/ Release(t) \/ ReleaseClosed(t)
        \/ CloseAll
        \/ \E c \in Conn : Break(c)

Spec == Init /\ [][Next]_vars

\* A thread whose wait is over gets the lock, a connection is opened, and a thread releases the
\* connection it uses (_run_with_connection, in a finally clause).
FairSpec == Spec /\ \A t \in Thread : WF_vars(Proceeds(t))

-----------------------------------------------------------------------------

TypeOK ==
    /\ pool \subseteq Conn /\ active \in Nat /\ closed \in BOOLEAN
    /\ pc \in [Thread -> {"idle", "waiting", "expired", "woken", "missed",
                           "creating", "using"}]
    /\ conn \in [Thread -> Conn \cup {NoConn}]
    /\ state \in [Conn -> {"unused", "open", "broken", "closed"}]
    /\ missed \in Nat
    /\ calls \in 0..MaxCalls /\ createFailures \in 0..MaxCreateFailures
    /\ broken \in 0..MaxBroken

Live(c) == state[c] \in {"open", "broken"}

\* A connection that is not closed is in one place: in the pool, or with one
\* thread that will release it.  Nothing is shared and nothing leaks, through
\* failing creations, invalid connections and a close at any time.
OnePlace ==
    /\ \A c \in Conn : Live(c) <=> \/ c \in pool
                                   \/ \E t \in Thread : conn[t] = c
    /\ \A t \in Thread : conn[t] \notin pool
    /\ \A t, u \in Thread : conn[t] = conn[u] /\ conn[t] # NoConn => t = u

\* _active_count is the number of threads that use or open a connection, and
\* with the pooled ones they are never more than max_size.
Counted == /\ active = Cardinality(Busy)
           /\ Cardinality(pool) + active <= MaxSize

\* While threads wait, the slots that are free have been announced to as many
\* of them, but for those a failed creation gave back (one each) and those
\* whose notification went to a thread that was giving up.
SlotsAnnounced ==
    Waiters # {} /\ ~closed =>
      MaxSize - active <= Cardinality(Woken) + createFailures + missed

\* The pool lends slots to its callers.
Lending == INSTANCE ConnectionSlots WITH Caller <- Thread, Slots <- MaxSize,
                                         holders <- Busy
KeepsSlots == Lending!Spec

\* Every wait ends ("acquire() will block until a connection becomes
\* available or a new one can be created (up to max_size)") as long as every
\* connection can be opened and no notification goes to an expired wait,
\* through invalid connections, other callers, timeouts and a close.
WaitsEndUnlessUnannounced ==
  [](createFailures = 0 /\ missed = 0) =>
      \A t \in Thread : pc[t] = "waiting" ~> pc[t] # "waiting"
=============================================================================
