--------------------------- MODULE SessionBinding ---------------------------
(***************************************************************************)
(* Sessions of tool callers and the project each one works on: the         *)
(* resolution of a session in shared/tool_runtime.py and                   *)
(* shared/execution_context.py, the leases and the teardown of             *)
(* state/agent_manager.py, the session part of state/manager.py and        *)
(* tools/set_project.py, and the rows of storage/sqlite/sessions.py.       *)
(*                                                                         *)
(* One server process with its database.  A call is a coroutine: between   *)
(* two of its actions it awaits, and other calls, the end of a session,    *)
(* the periodic cleanup and a restart of the process may run.              *)
(***************************************************************************)
EXTENDS Naturals

CONSTANTS Connections, Agents, Projects,
          Calls,          \* coroutines that serve tool calls
          Callers,        \* the (connection, agent) pairs that make calls
          NoProject, NoTransport, NoAgent,
          MaxCalls, MaxEnds, MaxFaults, MaxRestarts   \* bounds of the runs

ASSUME CallersAssumption == Callers \subseteq Connections \X Agents
ASSUME BoundsAssumption == {MaxCalls, MaxEnds, MaxFaults, MaxRestarts} \subseteq Nat
ASSUME NamesAssumption ==
  NoProject \notin Projects /\ NoAgent \notin Agents /\ NoTransport \notin Callers

VARIABLES
  made, owner, agentRow, bound, pointer,          \* database
  lease, known, cachedProject, stateProject,      \* memory of the process
  call, ender, cleaner,                           \* coroutines
  born, asked, given, torn, raced, kept,          \* history
  begun, ends, faults, restarts                   \* counters of the bounds

database == <<made, owner, agentRow, bound, pointer>>
memory == <<lease, known, cachedProject, stateProject>>
history == <<born, asked, given, torn, raced, kept>>
counters == <<begun, ends, faults, restarts>>
vars == <<database, memory, call, ender, cleaner, history, counters>>

Sessions == 1..MaxCalls
NoSession == 0
Rows == 1..made                     \* rows of scribe_sessions

\* The transport identity of a call is the connection folded with the actor.
BrokenScoped(conn, a) == <<conn, NoAgent>>
Scoped(conn, a) == <<conn, a>>
Transports == (Connections \X (Agents \cup {NoAgent})) \cup {NoTransport}

\* What a teardown may fail to clear: the binding of a session, the row of its agent.
Kept == {"binding", "row"} \X Sessions

NoLease == [session |-> NoSession, fresh |-> FALSE]
IdleCall == [pc |-> "idle", caller |-> NoTransport, project |-> NoProject, expected |-> 0,
             session |-> NoSession, using |-> NoProject, snap |-> NoProject]
IdleEnder == [pc |-> "idle", agent |-> NoAgent, session |-> NoSession, version |-> 0]
IdleCleaner == [pc |-> "idle", todo |-> {}, at |-> NoAgent]

CallPC == {"idle", "lookup", "route", "create", "collide", "binding", "attach", "activity",
           "persist", "run", "tool", "start", "lease", "validate", "point", "bind", "cache"}
EnderPC == {"idle", "expire", "detach", "unbind", "look", "clear", "drop", "purge"}

TypeOK ==
  /\ made \in 0..MaxCalls
  /\ owner \in [Sessions -> Transports]
  /\ agentRow \in [Sessions -> {"absent", "live", "ended"}]
  /\ bound \in [Sessions -> Projects \cup {NoProject}]
  /\ pointer \in [Agents -> [project: Projects \cup {NoProject}, version: Nat,
                             session: Sessions \cup {NoSession}]]
  /\ lease \in [Agents -> [session: Sessions \cup {NoSession}, fresh: BOOLEAN]]
  /\ known \in [Transports -> Sessions \cup {NoSession}]
  /\ cachedProject \in [Sessions -> Projects \cup {NoProject}]
  /\ stateProject \in [Sessions -> Projects \cup {NoProject}]
  /\ call \in [Calls -> [pc: CallPC, caller: Callers \cup {NoTransport},
                         project: Projects \cup {NoProject}, expected: Nat,
                         session: Sessions \cup {NoSession},
                         using: Projects \cup {NoProject}, snap: Projects \cup {NoProject}]]
  /\ ender \in [pc: EnderPC, agent: Agents \cup {NoAgent},
                session: Sessions \cup {NoSession}, version: Nat]
  /\ cleaner \in [pc: {"idle", "expire", "detach"}, todo: SUBSET Agents, at: Agents \cup {NoAgent}]
  /\ born \in [Sessions -> Callers \cup {NoTransport}]
  /\ asked \subseteq Callers \X Projects
  /\ given \in [Callers -> Sessions \cup {NoSession}]
  /\ torn \subseteq Sessions /\ raced \subseteq Sessions /\ kept \subseteq Kept
  /\ begun \in Nat /\ ends \in Nat /\ faults \in Nat /\ restarts \in Nat

Init ==
  /\ made = 0
  /\ owner = [s \in Sessions |-> NoTransport]
  /\ agentRow = [s \in Sessions |-> "absent"]
  /\ bound = [s \in Sessions |-> NoProject]
  /\ pointer = [a \in Agents |-> [project |-> NoProject, version |-> 0, session |-> NoSession]]
  /\ lease = [a \in Agents |-> NoLease]
  /\ known = [t \in Transports |-> NoSession]
  /\ cachedProject = [s \in Sessions |-> NoProject]
  /\ stateProject = [s \in Sessions |-> NoProject]
  /\ call = [c \in Calls |-> IdleCall]
  /\ ender = IdleEnder /\ cleaner = IdleCleaner
  /\ born = [s \in Sessions |-> NoTransport]
  /\ asked = {} /\ torn = {} /\ raced = {} /\ kept = {}
  /\ given = [k \in Callers |-> NoSession]
  /\ begun = 0 /\ ends = 0 /\ faults = 0 /\ restarts = 0

-----------------------------------------------------------------------------
(* Locks.  The router's lock is held from the lookup to the insert, the     *)
(* lease lock by the cleanup while it awaits the database, the write lock   *)
(* between the two statements that end a session.                           *)

RouterFree == \A c \in Calls : call[c].pc \notin {"create", "collide"}
LeaseFree == cleaner.pc = "idle"
DbFree == ender.pc # "detach" /\ cleaner.pc # "detach"

(* Statements of storage/sqlite/sessions.py.                                *)

\* get_session_by_transport: only a session with a live agent_sessions row is found.
Found(t) == {s \in Rows : owner[s] = t /\ agentRow[s] = "live"}

\* A new session takes a row of its own.
Fresh == made + 1

\* The unique index on transport_session_id.
BrokenInUse(t, s) == FALSE
InUse(t, s) == \E r \in Rows : r # s /\ owner[r] = t

\* upsert_agent_session: an existing row keeps its expiry.
Upserted(s) == [agentRow EXCEPT ![s] = IF @ = "absent" THEN "live" ELSE @]

\* The two statements of end_session.
Expired(s) == [agentRow EXCEPT ![s] = IF @ = "absent" THEN "absent" ELSE "ended"]
Detached(s) == [owner EXCEPT ![s] = NoTransport]

\* set_agent_project: the row's version counts its writes.
\* Broken: the agent is written where the session belongs.
BrokenPointed(a, p, s) ==
  [pointer EXCEPT ![a] = [project |-> p, version |-> @.version + 1, session |-> a]]
Pointed(a, p, s) == [pointer EXCEPT ![a] = [project |-> p, version |-> @.version + 1, session |-> s]]

-----------------------------------------------------------------------------
(* A tool call: its session.                                                *)

TransportOf(c) == Scoped(call[c].caller[1], call[c].caller[2])
AgentOf(c) == call[c].caller[2]
Goto(c, pc) == call' = [call EXCEPT ![c].pc = pc]

\* A client calls a tool: set_project(p) with or without an expected version, or another tool.
Begin(c, k, p, e) ==
  /\ call[c].pc = "idle" /\ begun < MaxCalls
  /\ e \in {0, pointer[k[2]].version} /\ (p = NoProject => e = 0)
  /\ call' = [call EXCEPT ![c] =
       [pc |-> "lookup", caller |-> k, project |-> p, expected |-> e,
        session |-> NoSession, using |-> NoProject, snap |-> NoProject]]
  /\ asked' = IF p = NoProject THEN asked ELSE asked \cup {<<k, p>>}
  /\ begun' = begun + 1
  /\ UNCHANGED <<database, memory, ender, cleaner, born, given, torn, raced, kept,
                 ends, faults, restarts>>

\* The call holds session s from here on; set_project does not read the binding.
Resolve(c, s) ==
  /\ call' = [call EXCEPT ![c].session = s,
                          ![c].pc = IF call[c].project = NoProject THEN "binding" ELSE "attach"]
  /\ given' = [given EXCEPT ![call[c].caller] = s]
  /\ raced' = IF s \in torn \/ (ender.pc # "idle" /\ ender.session = s)
              THEN raced \cup {s} ELSE raced
  /\ UNCHANGED <<asked, torn, kept>>

\* The call raises ConflictError.
Refuse(c) ==
  /\ call' = [call EXCEPT ![c] = IdleCall]
  /\ UNCHANGED history

LookUp(c) ==
  /\ call[c].pc = "lookup"
  /\ \/ \E s \in Found(TransportOf(c)) : Resolve(c, s) /\ UNCHANGED born
     \/ Found(TransportOf(c)) = {} /\ Goto(c, "route") /\ UNCHANGED history
  /\ UNCHANGED <<database, memory, ender, cleaner, counters>>

Route(c) ==
  LET t == TransportOf(c) IN
  /\ call[c].pc = "route" /\ RouterFree
  /\ \/ /\ known[t] # NoSession
        /\ Resolve(c, known[t])
        /\ UNCHANGED <<known, born>>
     \/ /\ known[t] = NoSession
        /\ \E s \in Found(t) : Resolve(c, s) /\ known' = [known EXCEPT ![t] = s]
        /\ UNCHANGED born
     \/ /\ known[t] = NoSession /\ Found(t) = {}
        /\ Goto(c, "create") /\ UNCHANGED <<known, history>>
  /\ UNCHANGED <<database, lease, cachedProject, stateProject, ender, cleaner, counters>>

\* A call makes one session at most, so made stays below the bound of calls.
Create(c) ==
  LET t == TransportOf(c)
      s == Fresh IN
  /\ call[c].pc = "create" /\ DbFree /\ made < MaxCalls
  /\ \/ /\ ~InUse(t, s)
        /\ made' = s
        /\ owner' = [owner EXCEPT ![s] = t]
        /\ known' = [known EXCEPT ![t] = s]
        /\ born' = [born EXCEPT ![s] = call[c].caller]
        /\ Resolve(c, s)
     \/ /\ InUse(t, s)
        /\ Goto(c, "collide")
        /\ UNCHANGED <<made, owner, known, history>>
  /\ UNCHANGED <<agentRow, bound, pointer, lease, cachedProject, stateProject,
                 ender, cleaner, counters>>

Collide(c) ==
  LET t == TransportOf(c) IN
  /\ call[c].pc = "collide"
  /\ \/ /\ \E s \in Found(t) : Resolve(c, s) /\ known' = [known EXCEPT ![t] = s]
        /\ UNCHANGED born
     \/ Found(t) = {} /\ Refuse(c) /\ UNCHANGED known
  /\ UNCHANGED <<database, lease, cachedProject, stateProject, ender, cleaner, counters>>

\* Without a binding only the tools that need no repository go on.
Binding(c) ==
  /\ call[c].pc = "binding"
  /\ \/ call' = [call EXCEPT ![c].using = bound[call[c].session], ![c].pc = "attach"]
     \/ bound[call[c].session] = NoProject /\ call' = [call EXCEPT ![c] = IdleCall]
  /\ UNCHANGED <<database, memory, ender, cleaner, history, counters>>

\* upsert_session puts the transport back on the session's row.
Attach(c) ==
  LET s == call[c].session IN
  /\ call[c].pc = "attach" /\ DbFree
  /\ \/ /\ ~InUse(TransportOf(c), s)
        /\ owner' = [owner EXCEPT ![s] = TransportOf(c)]
        /\ Goto(c, "activity") /\ UNCHANGED history
     \/ InUse(TransportOf(c), s) /\ Refuse(c) /\ UNCHANGED owner
  /\ UNCHANGED <<made, agentRow, bound, pointer, memory, ender, cleaner, counters>>

-----------------------------------------------------------------------------
(* A tool call: the activity it records and its work.                       *)

AfterActivity(c) == IF call[c].project = NoProject THEN "run" ELSE "start"

\* update_agent_activity loads the state and, at most once in an interval, persists it.
Activity(c) ==
  LET s == call[c].session
      p == IF stateProject[s] # NoProject THEN stateProject[s] ELSE bound[s] IN
  /\ call[c].pc = "activity"
  /\ \/ Goto(c, AfterActivity(c)) /\ UNCHANGED stateProject
     \/ /\ call' = [call EXCEPT ![c].snap = p, ![c].pc = "persist"]
        /\ stateProject' = [stateProject EXCEPT ![s] = p]
  /\ UNCHANGED <<database, lease, known, cachedProject, ender, cleaner, history, counters>>

\* persist writes the project of the snapshot to the actor's row, without a version.
Persist(c) ==
  /\ call[c].pc = "persist" /\ DbFree
  /\ pointer' = Pointed(AgentOf(c), call[c].snap, call[c].session)
  /\ call' = [call EXCEPT ![c].snap = NoProject, ![c].pc = AfterActivity(c)]
  /\ UNCHANGED <<made, owner, agentRow, bound, memory, ender, cleaner, history, counters>>

\* A tool other than set_project takes the router's project when it has no binding.
Run(c) ==
  /\ call[c].pc = "run" /\ RouterFree
  /\ call' = [call EXCEPT ![c].pc = "tool",
                          ![c].using = IF @ = NoProject THEN cachedProject[call[c].session] ELSE @]
  /\ UNCHANGED <<database, memory, ender, cleaner, history, counters>>

Finish(c) ==
  /\ call[c].pc = "tool"
  /\ call' = [call EXCEPT ![c] = IdleCall]
  /\ UNCHANGED <<database, memory, ender, cleaner, history, counters>>

-----------------------------------------------------------------------------
(* set_project.                                                             *)

\* A project that the session has already is not bound again.  The cache is compared
\* first; the lease and the agent's row, read later, decide whether the call ends here.
Reuse(c) ==
  /\ call[c].pc = "start" /\ call[c].expected = 0 /\ RouterFree
  /\ cachedProject[call[c].session] = call[c].project
  /\ call' = [call EXCEPT ![c] = IdleCall]
  /\ UNCHANGED <<database, memory, ender, cleaner, history, counters>>

Start(c) ==
  /\ call[c].pc = "start" /\ DbFree
  /\ agentRow' = Upserted(call[c].session)
  /\ Goto(c, "lease")
  /\ UNCHANGED <<made, owner, bound, pointer, memory, ender, cleaner, history, counters>>

Lease(c) ==
  /\ call[c].pc = "lease" /\ LeaseFree
  /\ lease' = [lease EXCEPT ![AgentOf(c)] = [session |-> call[c].session, fresh |-> TRUE]]
  /\ Goto(c, "validate")
  /\ UNCHANGED <<database, known, cachedProject, stateProject, ender, cleaner, history, counters>>

\* Without a valid lease set_project goes on with the state manager alone.
Validate(c) ==
  /\ call[c].pc = "validate" /\ LeaseFree
  /\ Goto(c, IF lease[AgentOf(c)] = [session |-> call[c].session, fresh |-> TRUE]
             THEN "point" ELSE "bind")
  /\ UNCHANGED <<database, memory, ender, cleaner, history, counters>>

\* The row is written unless the expected version is stale: that conflict is only logged.
Point(c) ==
  LET a == AgentOf(c) IN
  /\ call[c].pc = "point" /\ DbFree
  /\ IF call[c].expected \in {0, pointer[a].version}
     THEN pointer' = Pointed(a, call[c].project, call[c].session)
     ELSE UNCHANGED pointer
  /\ Goto(c, "bind")
  /\ UNCHANGED <<made, owner, agentRow, bound, memory, ender, cleaner, history, counters>>

Bind(c) ==
  LET s == call[c].session IN
  /\ call[c].pc = "bind" /\ DbFree
  /\ bound' = [bound EXCEPT ![s] = call[c].project]
  /\ stateProject' = [stateProject EXCEPT ![s] = call[c].project]
  /\ Goto(c, "cache")
  /\ UNCHANGED <<made, owner, agentRow, pointer, lease, known, cachedProject,
                 ender, cleaner, history, counters>>

Cache(c) ==
  /\ call[c].pc = "cache" /\ RouterFree
  /\ cachedProject' = [cachedProject EXCEPT ![call[c].session] = call[c].project]
  /\ call' = [call EXCEPT ![c] = IdleCall]
  /\ UNCHANGED <<database, lease, known, stateProject, ender, cleaner, history, counters>>

-----------------------------------------------------------------------------
(* end_session.                                                             *)

\* A lease runs out before its heartbeat, or a statement fails.
Fault == faults < MaxFaults /\ faults' = faults + 1 /\ UNCHANGED <<begun, ends, restarts>>

EndStep(pc, next) == ender.pc = pc /\ ender' = [ender EXCEPT !.pc = next]

\* A statement is not executed, and the teardown goes on all the same.
Swallow(what, next) ==
  /\ Fault
  /\ ender' = [ender EXCEPT !.pc = next]
  /\ kept' = kept \cup {<<what, ender.session>>}
  /\ UNCHANGED <<database, memory, call, cleaner, born, asked, given, torn, raced>>

\* The owner of an agent session ends it.
EndBegin(s) ==
  /\ ender.pc = "idle" /\ ends < MaxEnds /\ agentRow[s] # "absent"
  /\ ender' = [pc |-> "expire", agent |-> born[s][2], session |-> s, version |-> 0]
  /\ raced' = IF \E c \in Calls : call[c].session = s THEN raced \cup {s} ELSE raced
  /\ ends' = ends + 1
  /\ UNCHANGED <<database, memory, call, cleaner, born, asked, given, torn,
                 kept, begun, faults, restarts>>

EndExpire ==
  /\ EndStep("expire", "detach") /\ DbFree
  /\ agentRow' = Expired(ender.session)
  /\ UNCHANGED <<made, owner, bound, pointer, memory, call, cleaner, history, counters>>

EndDetach ==
  /\ EndStep("detach", "unbind")
  /\ owner' = Detached(ender.session)
  /\ UNCHANGED <<made, agentRow, bound, pointer, memory, call, cleaner, history, counters>>

\* The two statements that end a session fail: the error ends the teardown.
EndAborts ==
  /\ Fault
  /\ ender.pc \in {"expire", "detach"} /\ ender' = IdleEnder
  /\ UNCHANGED <<database, memory, call, cleaner, history>>

EndUnbind ==
  /\ EndStep("unbind", "look") /\ DbFree
  /\ bound' = [bound EXCEPT ![ender.session] = NoProject]
  /\ UNCHANGED <<made, owner, agentRow, pointer, memory, call, cleaner, history, counters>>

EndUnbindFails == ender.pc = "unbind" /\ Swallow("binding", "look")

\* The agent's row is cleared only when this session wrote it last ...
EndLook ==
  LET row == pointer[ender.agent] IN
  /\ ender.pc = "look"
  /\ ender' = IF row.session = ender.session /\ row.project # NoProject
              THEN [ender EXCEPT !.pc = "clear", !.version = row.version]
              ELSE [ender EXCEPT !.pc = "drop"]
  /\ UNCHANGED <<database, memory, call, cleaner, history, counters>>

\* ... and nobody wrote it since.
BrokenSameRow == TRUE
SameRow == pointer[ender.agent].version = ender.version

EndClear ==
  /\ EndStep("clear", "drop") /\ DbFree
  /\ pointer' = IF SameRow THEN Pointed(ender.agent, NoProject, ender.session) ELSE pointer
  /\ UNCHANGED <<made, owner, agentRow, bound, memory, call, cleaner, history, counters>>

EndRowFails == ender.pc \in {"look", "clear"} /\ Swallow("row", "drop")

EndDrop ==
  /\ EndStep("drop", "purge") /\ LeaseFree
  /\ lease' = IF lease[ender.agent].session = ender.session
              THEN [lease EXCEPT ![ender.agent] = NoLease] ELSE lease
  /\ UNCHANGED <<database, known, cachedProject, stateProject, call, cleaner, history, counters>>

\* cleanup_session of the router: the session leaves the index and the cache.
BrokenForgotten(s) == known
Forgotten(s) == [t \in Transports |-> IF known[t] = s THEN NoSession ELSE known[t]]

EndPurge ==
  /\ ender.pc = "purge" /\ RouterFree
  /\ known' = Forgotten(ender.session)
  /\ cachedProject' = [cachedProject EXCEPT ![ender.session] = NoProject]
  /\ torn' = torn \cup {ender.session}
  /\ ender' = IdleEnder
  /\ UNCHANGED <<database, lease, stateProject, call, cleaner, born, asked, given, raced,
                 kept, counters>>

-----------------------------------------------------------------------------
(* The periodic cleanup, the passing of time and a restart.                 *)

Stale == {a \in Agents : lease[a].session # NoSession /\ ~lease[a].fresh}

CleanBegin ==
  /\ cleaner.pc = "idle" /\ Stale # {}
  /\ cleaner' = [pc |-> "expire", todo |-> Stale, at |-> NoAgent]
  /\ UNCHANGED <<database, memory, call, ender, history, counters>>

CleanExpire(a) ==
  /\ cleaner.pc = "expire" /\ a \in cleaner.todo /\ DbFree
  /\ agentRow' = Expired(lease[a].session)
  /\ cleaner' = [cleaner EXCEPT !.pc = "detach", !.at = a]
  /\ UNCHANGED <<made, owner, bound, pointer, memory, call, ender, history, counters>>

CleanDetach ==
  LET rest == cleaner.todo \ {cleaner.at} IN
  /\ cleaner.pc = "detach"
  /\ owner' = Detached(lease[cleaner.at].session)
  /\ lease' = [lease EXCEPT ![cleaner.at] = NoLease]
  /\ cleaner' = IF rest = {} THEN IdleCleaner ELSE [pc |-> "expire", todo |-> rest, at |-> NoAgent]
  /\ UNCHANGED <<made, agentRow, bound, pointer, known, cachedProject, stateProject,
                 call, ender, history, counters>>

LeaseExpires(a) ==
  /\ lease[a].fresh /\ Fault
  /\ lease' = [lease EXCEPT ![a].fresh = FALSE]
  /\ UNCHANGED <<database, known, cachedProject, stateProject, call, ender, cleaner, history>>

Heartbeat(a) ==
  /\ lease[a].session # NoSession /\ LeaseFree /\ DbFree
  /\ lease' = [lease EXCEPT ![a].fresh = TRUE]
  /\ UNCHANGED <<database, known, cachedProject, stateProject, call, ender, cleaner, history,
                 counters>>

Restart ==
  /\ restarts < MaxRestarts
  /\ restarts' = restarts + 1
  /\ lease' = [a \in Agents |-> NoLease]
  /\ known' = [t \in Transports |-> NoSession]
  /\ cachedProject' = [s \in Sessions |-> NoProject]
  /\ stateProject' = [s \in Sessions |-> NoProject]
  /\ call' = [c \in Calls |-> IdleCall]
  /\ ender' = IdleEnder /\ cleaner' = IdleCleaner
  /\ UNCHANGED <<database, history, begun, ends, faults>>

-----------------------------------------------------------------------------
CallStep(c) ==
  \/ \E k \in Callers : \E p \in Projects \cup {NoProject}, e \in {0, pointer[k[2]].version} :
        Begin(c, k, p, e)
  \/ LookUp(c) \/ Route(c) \/ Create(c) \/ Collide(c) \/ Binding(c) \/ Attach(c)
  \/ Activity(c) \/ Persist(c) \/ Run(c) \/ Finish(c)
  \/ Reuse(c) \/ Start(c) \/ Lease(c) \/ Validate(c) \/ Point(c) \/ Bind(c) \/ Cache(c)

EndSession ==
  \/ \E s \in Rows : EndBegin(s)
  \/ EndExpire \/ EndDetach \/ EndUnbind \/ EndLook \/ EndClear \/ EndDrop \/ EndPurge
  \/ EndAborts \/ EndUnbindFails \/ EndRowFails

Cleanup == CleanBegin \/ (\E a \in Agents : CleanExpire(a)) \/ CleanDetach

Environment == (\E a \in Agents : LeaseExpires(a) \/ Heartbeat(a)) \/ Restart

Next == (\E c \in Calls : CallStep(c)) \/ EndSession \/ Cleanup \/ Environment

Spec == Init /\ [][Next]_vars

-----------------------------------------------------------------------------
(* Properties.                                                              *)

\* No caller works on a project it did not choose: the project bound to a session, the
\* two caches of it and the project a tool runs with were all asked for by the caller
\* the session was made for, and an agent's row by a caller of that agent, whatever
\* calls, teardowns, lost leases and restarts are interleaved (tool_runtime.py:334-351).
AskedBy(k, p) == p = NoProject \/ <<k, p>> \in asked
AskedOnly ==
  /\ \A s \in Sessions : /\ AskedBy(born[s], bound[s])
                         /\ AskedBy(born[s], cachedProject[s])
                         /\ AskedBy(born[s], stateProject[s])
  /\ \A c \in Calls : AskedBy(call[c].caller, call[c].using)
  /\ \A a \in Agents : pointer[a].project # NoProject =>
                         \E k \in Callers : k[2] = a /\ <<k, pointer[a].project>> \in asked

\* A caller keeps its session: its calls, concurrent or separated by a restart, are given
\* the session of its earlier ones until that one was ended (execution_context.py:613-667).
KeepsSession ==
  [][\A k \in Callers : given[k] # NoSession /\ given'[k] # given[k]
                           => agentRow[given[k]] = "ended"]_vars

\* The teardown of a session does not take away the project another session of the agent
\* has chosen, even between the teardown's read of the row and its write of it
\* (agent_manager.py:328-343).
TeardownSpares ==
  [][\A a \in Agents : ender.pc = "clear" /\ pointer'[a] # pointer[a]
                           => \/ pointer'[a].project # NoProject
                              \/ pointer[a].session = ender.session
                              \/ \E c \in Calls : call[c].pc = "persist"]_vars

\* A session that was torn down while no call was using it is gone: no later call gets it,
\* and neither the database nor a cache leads from it to a project.  A statement of the
\* teardown that failed leaves what that statement clears and nothing else
\* (agent_manager.py:318-371).
Revoked ==
  \A s \in torn \ raced :
     /\ cachedProject[s] = NoProject /\ owner[s] = NoTransport
     /\ <<"binding", s>> \notin kept => bound[s] = NoProject
     /\ \A t \in Transports : known[t] # s
     /\ \A a \in Agents : /\ lease[a].session # s
                           /\ <<"row", s>> \notin kept /\ pointer[a].session = s
                                => pointer[a].project = NoProject
=============================================================================
