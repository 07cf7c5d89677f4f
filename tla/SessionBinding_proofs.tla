------------------------ MODULE SessionBinding_proofs ------------------------
(***************************************************************************)
(* Theorems of SessionBinding, for every set of connections, agents,       *)
(* projects, calls and callers, and every value of the bounds.             *)
(***************************************************************************)
EXTENDS SessionBinding, TLAPS

(* The parts of the invariant, with the state they depend on as arguments: *)
(* m = made, b = born, ag = agentRow, as = asked.                          *)

AskedIn(as, k, p) == p = NoProject \/ <<k, p>> \in as

Resolved == {"binding", "attach", "activity", "persist", "run", "tool",
             "start", "lease", "validate", "point", "bind", "cache"}
Setting == {"start", "lease", "validate", "point", "bind", "cache"}
Leasing == Setting \ {"start"}

\* What a call r knows: from its resolution on it has a session made for its
\* caller, and the projects it carries were asked for by that caller.
CallOK(r, m, b, ag, as) ==
  /\ r.pc # "idle" => r.caller \in Callers
  /\ r.pc \in Resolved => r.session \in 1 .. m /\ b[r.session] = r.caller
  /\ r.session # NoSession => r.pc \in Resolved
  /\ AskedIn(as, r.caller, r.project) /\ AskedIn(as, r.caller, r.using)
  /\ AskedIn(as, r.caller, r.snap)
  /\ r.pc \in Setting => r.project # NoProject
  /\ r.pc \in Leasing => ag[r.session] # "absent"

\* A session keeps its transport until it is ended.
RowOK(s, m, b, own, ag) ==
  /\ s > m => b[s] = NoTransport /\ own[s] = NoTransport /\ ag[s] = "absent"
  /\ s <= m => b[s] \in Callers /\ own[s] \in {NoTransport, b[s]}
  /\ s <= m /\ ag[s] # "ended" => own[s] = b[s]

\* Two sessions have different transports.
Unique(own) == \A r, s \in Sessions : r # s /\ own[r] = own[s] => own[r] = NoTransport

\* A project of session s, in the database or in a cache, was asked for.
ProjectOK(s, p, m, b, as) == (s > m => p = NoProject) /\ AskedIn(as, b[s], p)

\* The router's index has the session of the transport that is not ended.
KnownOK(t, s, m, b, ag) ==
  s # NoSession => /\ s \in 1 .. m /\ b[s] = t
                   /\ \A r \in 1 .. m : b[r] = t /\ ag[r] # "ended" => r = s

GivenOK(k, s, m, b) == s # NoSession => s \in 1 .. m /\ b[s] = k

\* The row and the lease of agent a are of sessions of callers of that agent.
PointerOK(a, row, m, b, as) ==
  /\ row.session # NoSession => row.session \in 1 .. m /\ b[row.session][2] = a
  /\ row.project # NoProject => \E k \in Callers : k[2] = a /\ <<k, row.project>> \in as

LeaseOK(a, s, m, b, ag) ==
  s # NoSession => s \in 1 .. m /\ b[s][2] = a /\ ag[s] # "absent"

\* A teardown has a session that was registered, and has ended it.
EnderOK(e, m, b, ag, ptr) ==
  /\ e.pc # "idle" => /\ e.session \in 1 .. m /\ e.agent = b[e.session][2]
                      /\ ag[e.session] # "absent"
  /\ e.pc \notin {"idle", "expire"} => ag[e.session] = "ended"
  /\ e.pc = "clear" => /\ e.version <= ptr[e.agent].version
                       /\ ptr[e.agent].version = e.version => ptr[e.agent].session = e.session

CleanerOK(w, ls, ag) ==
  w.pc = "detach" => w.at \in Agents /\ (ls[w.at].session # NoSession => ag[ls[w.at].session] = "ended")

SessionsOK == /\ \A s \in Sessions : RowOK(s, made, born, owner, agentRow)
              /\ Unique(owner)
              /\ \A t \in Transports : KnownOK(t, known[t], made, born, agentRow)
              /\ \A k \in Callers : GivenOK(k, given[k], made, born)

ProjectsOK == \A s \in Sessions : /\ ProjectOK(s, bound[s], made, born, asked)
                                  /\ ProjectOK(s, cachedProject[s], made, born, asked)
                                  /\ ProjectOK(s, stateProject[s], made, born, asked)

AgentsOK == \A a \in Agents : /\ PointerOK(a, pointer[a], made, born, asked)
                              /\ LeaseOK(a, lease[a].session, made, born, agentRow)

CallsOK == \A c \in Calls : CallOK(call[c], made, born, agentRow, asked)

TeardownsOK == /\ EnderOK(ender, made, born, agentRow, pointer)
               /\ CleanerOK(cleaner, lease, agentRow)

IInv == TypeOK /\ SessionsOK /\ ProjectsOK /\ AgentsOK /\ CallsOK /\ TeardownsOK

(* A session that is being torn down, or was, and that no call had then or *)
(* got since: what is gone of it already.                                  *)

Clean(s, row) == row.session = s => row.project = NoProject

Past(e, pcs) == e.pc \in pcs

Held(s, calls) == \E c \in Calls : calls[c].session = s

EndingOK(e, s, own, bnd, ptr, ls, kpt) ==
  /\ Past(e, {"unbind", "look", "clear", "drop", "purge"}) => own[s] = NoTransport
  /\ Past(e, {"look", "clear", "drop", "purge"}) => bnd[s] = NoProject \/ <<"binding", s>> \in kpt
  /\ e.pc = "clear" => ptr[e.agent].version = e.version \/ Clean(s, ptr[e.agent])
  /\ Past(e, {"drop", "purge"}) => Clean(s, ptr[e.agent]) \/ <<"row", s>> \in kpt
  /\ e.pc = "purge" => ls[e.agent].session # s

TornOK(s, m, ag, own, bnd, cch, knw, ptr, ls, kpt) ==
  /\ s \in 1 .. m /\ ag[s] = "ended"
  /\ own[s] = NoTransport /\ cch[s] = NoProject
  /\ bnd[s] = NoProject \/ <<"binding", s>> \in kpt
  /\ \A t \in Transports : knw[t] # s
  /\ \A a \in Agents : /\ Clean(s, ptr[a]) \/ <<"row", s>> \in kpt
                       /\ ls[a].session # s

Ending == IF ender.pc = "idle" THEN {} ELSE {ender.session}

GoneInv ==
  /\ \A s \in (torn \cup Ending) \ raced : ~Held(s, call)
  /\ \A s \in Ending \ raced : EndingOK(ender, s, owner, bound, pointer, lease, kept)
  /\ \A s \in torn \ raced :
       TornOK(s, made, agentRow, owner, bound, cachedProject, known, pointer, lease, kept)

-----------------------------------------------------------------------------
(* What a step only adds to, and what stays true of it.                    *)

Later(m, b, ag, as, m2, b2, ag2, as2) ==
  /\ m \in 0 .. MaxCalls /\ m2 \in 0 .. MaxCalls /\ m <= m2
  /\ \A s \in 1 .. m : b2[s] = b[s]
  /\ \A s \in Sessions : /\ ag[s] # "absent" => ag2[s] # "absent"
                         /\ ag[s] = "ended" => ag2[s] = "ended"
                         /\ s > m2 => ag2[s] = "absent"
  /\ as \subseteq as2

Grows == Later(made, born, agentRow, asked, made', born', agentRow', asked')

\* A step that makes no session.
Plain ==
  /\ made' = made /\ born' = born /\ asked \subseteq asked'
  /\ \A s \in Sessions : /\ agentRow[s] # "absent" => agentRow'[s] # "absent"
                         /\ agentRow[s] = "ended" => agentRow'[s] = "ended"
                         /\ s > made => agentRow'[s] = "absent"

CallRec == [pc: CallPC, caller: Callers \cup {NoTransport},
            project: Projects \cup {NoProject}, expected: Nat,
            session: Sessions \cup {NoSession},
            using: Projects \cup {NoProject}, snap: Projects \cup {NoProject}]

LEMMA MaxNat == MaxCalls \in Nat /\ MaxEnds \in Nat /\ MaxFaults \in Nat /\ MaxRestarts \in Nat
BY BoundsAssumption

LEMMA PlainGrows == ASSUME TypeOK, Plain PROVE Grows
BY MaxNat DEF TypeOK, Plain, Grows, Later

LEMMA AskedStays ==
  ASSUME NEW as, NEW as2, NEW k, NEW p, as \subseteq as2, AskedIn(as, k, p)
  PROVE  AskedIn(as2, k, p)
BY DEF AskedIn

LEMMA CallStays ==
  ASSUME NEW m, NEW b, NEW ag, NEW as, NEW m2, NEW b2, NEW ag2, NEW as2,
         Later(m, b, ag, as, m2, b2, ag2, as2), NEW r, CallOK(r, m, b, ag, as)
  PROVE  CallOK(r, m2, b2, ag2, as2)
<1>1. m \in Nat /\ m2 \in Nat /\ 1 .. m \subseteq 1 .. m2 /\ 1 .. m \subseteq Sessions
  BY MaxNat DEF Later, Sessions
<1>2. Leasing \subseteq Resolved
  BY DEF Leasing, Setting, Resolved
<1>3. AskedIn(as2, r.caller, r.project) /\ AskedIn(as2, r.caller, r.using) /\ AskedIn(as2, r.caller, r.snap)
  BY AskedStays DEF CallOK, Later
<1>4. r.pc \in Resolved => r.session \in 1 .. m2 /\ b2[r.session] = r.caller
  BY <1>1 DEF CallOK, Later
<1>5. r.pc \in Leasing => ag2[r.session] # "absent"
  BY <1>1, <1>2 DEF CallOK, Later
<1>6. QED  BY <1>3, <1>4, <1>5 DEF CallOK

LEMMA PointerStays ==
  ASSUME NEW m, NEW b, NEW ag, NEW as, NEW m2, NEW b2, NEW ag2, NEW as2,
         Later(m, b, ag, as, m2, b2, ag2, as2), NEW a, NEW row, PointerOK(a, row, m, b, as)
  PROVE  PointerOK(a, row, m2, b2, as2)
<1>1. m \in Nat /\ m2 \in Nat /\ 1 .. m \subseteq 1 .. m2
  BY MaxNat DEF Later
<1>2. row.session # NoSession => row.session \in 1 .. m2 /\ b2[row.session][2] = a
  BY <1>1 DEF PointerOK, Later
<1>3. row.project # NoProject => \E k \in Callers : k[2] = a /\ <<k, row.project>> \in as2
  BY DEF PointerOK, Later
<1>4. QED  BY <1>2, <1>3 DEF PointerOK

LEMMA LeaseStays ==
  ASSUME NEW m, NEW b, NEW ag, NEW as, NEW m2, NEW b2, NEW ag2, NEW as2,
         Later(m, b, ag, as, m2, b2, ag2, as2), NEW a, NEW s, LeaseOK(a, s, m, b, ag)
  PROVE  LeaseOK(a, s, m2, b2, ag2)
<1>1. m \in Nat /\ m2 \in Nat /\ 1 .. m \subseteq 1 .. m2 /\ 1 .. m \subseteq Sessions
  BY MaxNat DEF Later, Sessions
<1>2. QED  BY <1>1 DEF LeaseOK, Later

LEMMA GivenStays ==
  ASSUME NEW m, NEW b, NEW ag, NEW as, NEW m2, NEW b2, NEW ag2, NEW as2,
         Later(m, b, ag, as, m2, b2, ag2, as2), NEW k, NEW s, GivenOK(k, s, m, b)
  PROVE  GivenOK(k, s, m2, b2)
<1>1. m \in Nat /\ m2 \in Nat /\ 1 .. m \subseteq 1 .. m2
  BY MaxNat DEF Later
<1>2. QED  BY <1>1 DEF GivenOK, Later

LEMMA ProjectStays ==
  ASSUME NEW m, NEW b, NEW ag, NEW as, NEW m2, NEW b2, NEW ag2, NEW as2,
         Later(m, b, ag, as, m2, b2, ag2, as2), NEW s \in Sessions, NEW p, ProjectOK(s, p, m, b, as)
  PROVE  ProjectOK(s, p, m2, b2, as2)
<1>1. m \in Nat /\ m2 \in Nat /\ s \in Nat /\ s >= 1 /\ m <= m2
  BY MaxNat DEF Later, Sessions
<1>2. CASE s > m
  BY <1>1, <1>2 DEF ProjectOK, AskedIn
<1>3. CASE s <= m
  <2>1. b2[s] = b[s] /\ ~(s > m2)
    BY <1>1, <1>3 DEF Later
  <2>2. AskedIn(as2, b2[s], p)
    BY <2>1, AskedStays DEF ProjectOK, Later
  <2>3. QED  BY <2>1, <2>2 DEF ProjectOK
<1>4. QED  BY <1>1, <1>2, <1>3

\* The teardown stays as it is while the agent's row is only rewritten under a new version.
LEMMA EnderStays ==
  ASSUME NEW m, NEW b, NEW ag, NEW as, NEW m2, NEW b2, NEW ag2, NEW as2,
         Later(m, b, ag, as, m2, b2, ag2, as2), NEW e, NEW ptr, NEW ptr2,
         EnderOK(e, m, b, ag, ptr), e.version \in Nat, ptr[e.agent].version \in Nat,
         e.pc = "clear" => \/ ptr2[e.agent] = ptr[e.agent]
                           \/ ptr2[e.agent].version = ptr[e.agent].version + 1
  PROVE  EnderOK(e, m2, b2, ag2, ptr2)
<1>1. m \in Nat /\ m2 \in Nat /\ 1 .. m \subseteq 1 .. m2 /\ 1 .. m \subseteq Sessions
  BY MaxNat DEF Later, Sessions
<1>2. e.pc # "idle" => /\ e.session \in 1 .. m2 /\ e.agent = b2[e.session][2]
                       /\ ag2[e.session] # "absent"
  BY <1>1 DEF EnderOK, Later
<1>3. e.pc \notin {"idle", "expire"} => ag2[e.session] = "ended"
  BY <1>1 DEF EnderOK, Later
<1>4. e.pc = "clear" => /\ e.version <= ptr2[e.agent].version
                        /\ ptr2[e.agent].version = e.version => ptr2[e.agent].session = e.session
  <2>1. CASE ptr2[e.agent] = ptr[e.agent]
    BY <2>1 DEF EnderOK
  <2>2. CASE ptr2[e.agent].version = ptr[e.agent].version + 1
    BY <2>2 DEF EnderOK
  <2>3. QED  BY <2>1, <2>2
<1>5. QED  BY <1>2, <1>3, <1>4 DEF EnderOK

LEMMA KnownStays ==
  ASSUME TypeOK, Plain, NEW t, NEW s, KnownOK(t, s, made, born, agentRow)
  PROVE  KnownOK(t, s, made', born', agentRow')
<1>1. 1 .. made \subseteq Sessions
  BY MaxNat DEF TypeOK, Sessions
<1>2. \A r \in 1 .. made : agentRow'[r] # "ended" => agentRow[r] # "ended"
  BY <1>1 DEF Plain
<1>3. QED  BY <1>2 DEF KnownOK, Plain

-----------------------------------------------------------------------------
(* The parts of the invariant under a step that leaves their state alone.  *)

LEMMA SessionsStay ==
  ASSUME TypeOK, SessionsOK, Plain, UNCHANGED <<owner, known, given>>
  PROVE  SessionsOK'
<1>1. \A s \in Sessions : RowOK(s, made, born, owner, agentRow)'
  BY DEF SessionsOK, RowOK, Plain
<1>2. \A t \in Transports : KnownOK(t, known[t], made, born, agentRow)'
  BY KnownStays DEF SessionsOK
<1>3. \A k \in Callers : GivenOK(k, given[k], made, born)'
  BY DEF SessionsOK, GivenOK, Plain
<1>4. QED  BY <1>1, <1>2, <1>3 DEF SessionsOK

LEMMA ProjectsStay ==
  ASSUME Grows, ProjectsOK, UNCHANGED <<bound, cachedProject, stateProject>>
  PROVE  ProjectsOK'
BY ProjectStays DEF ProjectsOK, Grows

LEMMA AgentsStay ==
  ASSUME Grows, AgentsOK, pointer' = pointer, \A a \in Agents : lease'[a].session = lease[a].session
  PROVE  AgentsOK'
BY PointerStays, LeaseStays DEF AgentsOK, Grows

LEMMA CallsStay ==
  ASSUME Grows, CallsOK, NEW c \in Calls, \A x \in Calls \ {c} : call'[x] = call[x],
         CallOK(call'[c], made', born', agentRow', asked')
  PROVE  CallsOK'
BY CallStays DEF CallsOK, Grows

LEMMA AllCallsStay ==
  ASSUME Grows, CallsOK, call' = call
  PROVE  CallsOK'
BY CallStays DEF CallsOK, Grows

LEMMA CleanerStays ==
  ASSUME TypeOK, Grows, CleanerOK(cleaner, lease, agentRow), cleaner' = cleaner,
         cleaner.pc = "detach" => \A a \in Agents : lease'[a].session = lease[a].session
  PROVE  CleanerOK(cleaner', lease', agentRow')
BY DEF CleanerOK, TypeOK, Grows, Later, NoSession

LEMMA TeardownStays ==
  ASSUME TypeOK, Grows, EnderOK(ender, made, born, agentRow, pointer), ender' = ender, pointer' = pointer
  PROVE  EnderOK(ender', made', born', agentRow', pointer')
<1>1. CASE ender.pc = "idle"
  BY <1>1 DEF EnderOK
<1>2. CASE ender.pc # "idle"
  <2>1. ender.session \in 1 .. made' /\ ender.session \in Sessions /\ ender.session \in 1 .. made
    BY <1>2, MaxNat DEF EnderOK, Grows, Later, Sessions
  <2>2. QED  BY <1>2, <2>1 DEF EnderOK, Grows, Later
<1>3. QED  BY <1>1, <1>2

-----------------------------------------------------------------------------
(* What a step does to the record of its call.                             *)

Moves(c) == /\ call' \in [Calls -> CallRec]
            /\ \A x \in Calls \ {c} : call'[x] = call[x]

\* The call goes on to another place.
Onward(r, q, pc) ==
  /\ q.pc = pc /\ q.caller = r.caller /\ q.project = r.project /\ q.session = r.session
  /\ q.using = r.using /\ q.snap = r.snap

LEMMA CallTyped == ASSUME TypeOK PROVE call \in [Calls -> CallRec]
BY DEF TypeOK, CallRec

LEMMA GotoMoves ==
  ASSUME TypeOK, NEW c \in Calls, NEW pc \in CallPC, Goto(c, pc)
  PROVE  Moves(c) /\ Onward(call[c], call'[c], pc)
<1>1. call \in [Calls -> CallRec]
  BY CallTyped
<1>2. call' \in [Calls -> CallRec]
  BY <1>1 DEF Goto, CallRec
<1>3. (\A x \in Calls \ {c} : call'[x] = call[x]) /\ Onward(call[c], call'[c], pc)
  BY <1>1 DEF Goto, Onward, CallRec
<1>4. QED  BY <1>2, <1>3 DEF Moves

LEMMA IdleMoves ==
  ASSUME TypeOK, NEW c \in Calls, call' = [call EXCEPT ![c] = IdleCall]
  PROVE  Moves(c) /\ call'[c] = IdleCall
<1>1. IdleCall \in CallRec
  BY DEF IdleCall, CallRec, CallPC, NoSession
<1>2. QED  BY <1>1, CallTyped DEF Moves

LEMMA IdleOK ==
  ASSUME NEW m, NEW b, NEW ag, NEW as PROVE CallOK(IdleCall, m, b, ag, as)
BY DEF IdleCall, CallOK, AskedIn, Resolved, Leasing, Setting

LEMMA ResolveMoves ==
  ASSUME TypeOK, NEW c \in Calls, NEW s \in Sessions, Resolve(c, s)
  PROVE  /\ Moves(c)
         /\ call'[c].pc \in {"binding", "attach"} /\ call'[c].session = s
         /\ call'[c].caller = call[c].caller /\ call'[c].project = call[c].project
         /\ call'[c].using = call[c].using /\ call'[c].snap = call[c].snap
<1>1. call \in [Calls -> CallRec]
  BY CallTyped
<1>2. PICK pc \in {"binding", "attach"} : call' = [call EXCEPT ![c].session = s, ![c].pc = pc]
  BY DEF Resolve
<1>3. call[c] \in CallRec /\ pc \in CallPC
  BY <1>1 DEF CallPC
<1>4. call'[c] = [call[c] EXCEPT !.session = s, !.pc = pc]
  BY <1>1, <1>2
<1>5. call'[c] \in CallRec
  BY <1>3, <1>4 DEF CallRec
<1>6. call' \in [Calls -> CallRec] /\ \A x \in Calls \ {c} : call'[x] = call[x]
  BY <1>1, <1>2, <1>5
<1>7. /\ call'[c].pc = pc /\ call'[c].session = s
      /\ call'[c].caller = call[c].caller /\ call'[c].project = call[c].project
      /\ call'[c].using = call[c].using /\ call'[c].snap = call[c].snap
  BY <1>3, <1>4 DEF CallRec
<1>8. QED  BY <1>6, <1>7 DEF Moves

LEMMA CallerScoped ==
  ASSUME TypeOK, NEW c \in Calls, call[c].caller \in Callers
  PROVE  /\ TransportOf(c) = call[c].caller /\ TransportOf(c) \in Transports
         /\ TransportOf(c) # NoTransport /\ AgentOf(c) \in Agents
<1>1. call[c].caller \in Connections \X Agents
  BY CallersAssumption
<1>2. TransportOf(c) = call[c].caller
  BY <1>1 DEF TransportOf, Scoped
<1>3. QED  BY <1>1, <1>2, NamesAssumption DEF Transports, AgentOf

-----------------------------------------------------------------------------
(* The invariant holds at first.                                           *)

LEMMA InitInvariant == Init => IInv
<1>1. SUFFICES ASSUME Init PROVE IInv
  OBVIOUS
<1>2. TypeOK
  <2>1. IdleCall \in CallRec
    BY DEF IdleCall, CallRec, CallPC, NoSession
  <2>2. call \in [Calls -> CallRec]
    BY <1>1, <2>1 DEF Init
  <2>3. /\ owner \in [Sessions -> Transports] /\ lease \in [Agents -> [session: Sessions \cup {NoSession}, fresh: BOOLEAN]]
        /\ known \in [Transports -> Sessions \cup {NoSession}] /\ given \in [Callers -> Sessions \cup {NoSession}]
    BY <1>1 DEF Init, Transports, NoLease
  <2>4. /\ ender \in [pc: EnderPC, agent: Agents \cup {NoAgent}, session: Sessions \cup {NoSession}, version: Nat]
        /\ cleaner \in [pc: {"idle", "expire", "detach"}, todo: SUBSET Agents, at: Agents \cup {NoAgent}]
    BY <1>1 DEF Init, IdleEnder, IdleCleaner, EnderPC
  <2>5. QED  BY <1>1, <2>2, <2>3, <2>4, MaxNat DEF Init, TypeOK, CallRec
<1>3. SessionsOK
  <2>1. \A s \in Sessions : RowOK(s, made, born, owner, agentRow)
    BY <1>1 DEF Init, RowOK, Sessions
  <2>2. \A t \in Transports : KnownOK(t, known[t], made, born, agentRow)
    BY <1>1 DEF Init, KnownOK
  <2>3. \A k \in Callers : GivenOK(k, given[k], made, born)
    BY <1>1 DEF Init, GivenOK
  <2>4. Unique(owner)
    BY <1>1 DEF Init, Unique
  <2>5. QED  BY <2>1, <2>2, <2>3, <2>4 DEF SessionsOK
<1>4. ProjectsOK
  BY <1>1 DEF Init, ProjectsOK, ProjectOK, AskedIn
<1>5. AgentsOK
  BY <1>1 DEF Init, AgentsOK, PointerOK, LeaseOK, NoLease
<1>6. CallsOK
  BY <1>1, IdleOK DEF Init, CallsOK
<1>7. TeardownsOK
  BY <1>1 DEF Init, TeardownsOK, EnderOK, CleanerOK, IdleEnder, IdleCleaner
<1>8. QED  BY <1>2, <1>3, <1>4, <1>5, <1>6, <1>7 DEF IInv

-----------------------------------------------------------------------------
(* Steps that make no session.                                             *)

LEMMA PlainSame ==
  ASSUME IInv, UNCHANGED <<made, born, agentRow>>, asked \subseteq asked'
  PROVE  Plain /\ Grows
<1>1. Plain
  BY DEF IInv, SessionsOK, RowOK, Plain
<1>2. QED  BY <1>1, PlainGrows DEF IInv

\* The row of an agent session is written: it may appear or end.
LEMMA PlainAged ==
  ASSUME IInv, UNCHANGED <<made, born>>, asked \subseteq asked',
         NEW s \in 1 .. made, agentRow' = Upserted(s) \/ agentRow' = Expired(s)
  PROVE  Plain /\ Grows /\ agentRow' \in [Sessions -> {"absent", "live", "ended"}]
<1>1. s \in Sessions /\ \A r \in Sessions : r > made => r # s
  BY MaxNat DEF IInv, TypeOK, Sessions
<1>2. agentRow' \in [Sessions -> {"absent", "live", "ended"}]
  BY <1>1 DEF IInv, TypeOK, Upserted, Expired
<1>3. \A r \in Sessions : /\ agentRow[r] # "absent" => agentRow'[r] # "absent"
                          /\ agentRow[r] = "ended" => agentRow'[r] = "ended"
                          /\ r # s => agentRow'[r] = agentRow[r]
  BY <1>1 DEF IInv, TypeOK, Upserted, Expired
<1>4. Plain
  BY <1>1, <1>3 DEF IInv, SessionsOK, RowOK, Plain
<1>5. QED  BY <1>2, <1>4, PlainGrows DEF IInv

LEMMA TypeStays ==
  ASSUME TypeOK, call' \in [Calls -> CallRec],
         UNCHANGED <<database, memory, ender, cleaner, born, given, torn, raced, kept, ends, faults, restarts>>,
         asked' \subseteq Callers \X Projects, begun' \in Nat
  PROVE  TypeOK'
BY DEF TypeOK, CallRec, database, memory

\* A step of a call that leaves sessions, projects, agents and teardowns alone.
LEMMA QuietStep ==
  ASSUME IInv, NEW c \in Calls, TypeOK', Plain, Grows, Moves(c),
         CallOK(call'[c], made', born', agentRow', asked'),
         UNCHANGED <<owner, bound, pointer, memory, given, ender, cleaner>>
  PROVE  IInv'
<1>1. SessionsOK'
  BY SessionsStay DEF IInv, memory
<1>2. ProjectsOK'
  BY ProjectsStay DEF IInv, memory
<1>3. AgentsOK'
  BY AgentsStay DEF IInv, memory
<1>4. CallsOK'
  BY CallsStay DEF IInv, Moves
<1>5. TeardownsOK'
  BY TeardownStays, CleanerStays DEF IInv, TeardownsOK, memory
<1>6. QED  BY <1>1, <1>2, <1>3, <1>4, <1>5 DEF IInv

LEMMA BeginKeeps ==
  ASSUME IInv, NEW c \in Calls, NEW k \in Callers, NEW p \in Projects \cup {NoProject},
         NEW e \in {0, pointer[k[2]].version}, Begin(c, k, p, e)
  PROVE  IInv'
<1>1. k[2] \in Agents /\ e \in Nat
  BY CallersAssumption DEF IInv, TypeOK
<1>2. call' = [call EXCEPT ![c] = [pc |-> "lookup", caller |-> k, project |-> p, expected |-> e,
                                   session |-> NoSession, using |-> NoProject, snap |-> NoProject]]
  BY DEF Begin
<1>3. [pc |-> "lookup", caller |-> k, project |-> p, expected |-> e,
       session |-> NoSession, using |-> NoProject, snap |-> NoProject] \in CallRec
  BY <1>1 DEF CallRec, CallPC
<1>4. Moves(c) /\ call'[c] = [pc |-> "lookup", caller |-> k, project |-> p, expected |-> e,
                              session |-> NoSession, using |-> NoProject, snap |-> NoProject]
  BY <1>2, <1>3, CallTyped DEF IInv, Moves
<1>5. asked \subseteq asked' /\ asked' \subseteq Callers \X Projects /\ AskedIn(asked', k, p)
  BY DEF Begin, AskedIn, IInv, TypeOK
<1>6. Plain /\ Grows
  BY <1>5, PlainSame DEF Begin, database
<1>7. TypeOK'
  BY <1>4, <1>5, TypeStays DEF Begin, Moves, IInv, TypeOK
<1>8. CallOK(call'[c], made', born', agentRow', asked')
  BY <1>4, <1>5 DEF CallOK, Resolved, Leasing, Setting, AskedIn
<1>9. QED  BY <1>4, <1>6, <1>7, <1>8, QuietStep DEF Begin, database

\* A call goes on from one place to another, of which nothing more is said.
LEMMA OnwardOK ==
  ASSUME NEW r, NEW q, NEW pc, NEW m, NEW b, NEW ag, NEW as, CallOK(r, m, b, ag, as), Onward(r, q, pc),
         r.pc # "idle", r.pc \in Resolved <=> pc \in Resolved,
         pc \in Setting => r.project # NoProject, pc \in Leasing => ag[r.session] # "absent"
  PROVE  CallOK(q, m, b, ag, as)
BY DEF CallOK, Onward

\* The step is Goto with nothing else.
LEMMA GotoKeeps ==
  ASSUME IInv, NEW c \in Calls, NEW pc \in CallPC, Goto(c, pc),
         call[c].pc # "idle", call[c].pc \in Resolved <=> pc \in Resolved,
         pc \in Setting => call[c].project # NoProject, pc \in Leasing => agentRow[call[c].session] # "absent",
         UNCHANGED <<database, memory, ender, cleaner, history, counters>>
  PROVE  IInv'
<1>1. Moves(c) /\ Onward(call[c], call'[c], pc)
  BY GotoMoves DEF IInv
<1>2. CallOK(call'[c], made', born', agentRow', asked')
  BY <1>1, OnwardOK DEF IInv, CallsOK, database, history
<1>3. Plain /\ Grows
  BY PlainSame DEF database, history
<1>4. TypeOK'
  BY <1>1, TypeStays DEF IInv, TypeOK, Moves, history, counters
<1>5. QED  BY <1>1, <1>2, <1>3, <1>4, QuietStep DEF database, history

\* The call ends with nothing else.
LEMMA IdleKeeps ==
  ASSUME IInv, NEW c \in Calls, call' = [call EXCEPT ![c] = IdleCall],
         UNCHANGED <<database, memory, ender, cleaner, history, counters>>
  PROVE  IInv'
<1>1. Moves(c) /\ call'[c] = IdleCall
  BY IdleMoves DEF IInv
<1>2. CallOK(call'[c], made', born', agentRow', asked')
  BY <1>1, IdleOK
<1>3. Plain /\ Grows
  BY PlainSame DEF database, history
<1>4. TypeOK'
  BY <1>1, TypeStays DEF IInv, TypeOK, Moves, history, counters
<1>5. QED  BY <1>1, <1>2, <1>3, <1>4, QuietStep DEF database, history

-----------------------------------------------------------------------------
(* The steps of a call until it has its session.                           *)

Waiting == {"lookup", "route", "create", "collide"}

LEMMA WaitingCall ==
  ASSUME IInv, NEW c \in Calls, call[c].pc \in Waiting
  PROVE  /\ call[c].caller \in Callers /\ TransportOf(c) = call[c].caller
         /\ TransportOf(c) \in Transports /\ TransportOf(c) # NoTransport
BY CallerScoped DEF IInv, CallsOK, CallOK, Waiting

\* A session found by its transport is the session of that caller that is not ended.
LEMMA FoundFacts ==
  ASSUME IInv, NEW t, t # NoTransport, NEW s \in Found(t)
  PROVE  /\ s \in 1 .. made /\ s \in Sessions /\ born[s] = t /\ KnownOK(t, s, made, born, agentRow)
<1>1. s \in 1 .. made /\ 1 .. made \subseteq Sessions /\ made \in Nat
  BY MaxNat DEF IInv, TypeOK, Found, Rows, Sessions
<1>2. owner[s] = t /\ born[s] = t
  BY <1>1 DEF Found, IInv, SessionsOK, RowOK
<1>3. \A r \in 1 .. made : born[r] = t /\ agentRow[r] # "ended" => r = s
  BY <1>1, <1>2 DEF IInv, SessionsOK, RowOK, Unique
<1>4. QED  BY <1>1, <1>2, <1>3 DEF KnownOK

\* The call gets a session of its caller.
LEMMA ResolvedOK ==
  ASSUME IInv, Grows, NEW c \in Calls, call[c].pc \in Waiting, NEW s \in Sessions, Resolve(c, s),
         s \in 1 .. made', born'[s] = call[c].caller, asked' = asked
  PROVE  /\ CallsOK' /\ Moves(c) /\ torn' = torn /\ kept' = kept /\ raced' \subseteq Sessions
         /\ given' \in [Callers -> Sessions \cup {NoSession}]
         /\ \A k \in Callers : GivenOK(k, given[k], made, born)'
<1>1. /\ Moves(c) /\ call'[c].pc \in {"binding", "attach"} /\ call'[c].session = s
      /\ call'[c].caller = call[c].caller /\ call'[c].project = call[c].project
      /\ call'[c].using = call[c].using /\ call'[c].snap = call[c].snap
  BY ResolveMoves DEF IInv
<1>2. CallOK(call[c], made, born, agentRow, asked) /\ call[c].caller \in Callers
  BY DEF IInv, CallsOK, CallOK, Waiting
<1>3. CallOK(call'[c], made', born', agentRow', asked')
  BY <1>1, <1>2 DEF CallOK, AskedIn, Resolved, Leasing, Setting
<1>4. CallsOK'
  BY <1>1, <1>3, CallsStay DEF IInv, Moves
<1>5. torn' = torn /\ kept' = kept /\ raced' \subseteq Sessions /\ given' \in [Callers -> Sessions \cup {NoSession}]
  BY <1>2 DEF Resolve, IInv, TypeOK
<1>6. \A k \in Callers : GivenOK(k, given'[k], made', born')
  <2>1. SUFFICES ASSUME NEW k \in Callers PROVE GivenOK(k, given'[k], made', born')
    OBVIOUS
  <2>2. CASE k = call[c].caller
    BY <1>2, <2>2 DEF Resolve, IInv, TypeOK, GivenOK
  <2>3. CASE k # call[c].caller
    <3>1. given'[k] = given[k]
      BY <1>2, <2>3 DEF Resolve, IInv, TypeOK
    <3>2. QED  BY <3>1, GivenStays DEF IInv, SessionsOK, Grows
  <2>4. QED  BY <2>2, <2>3
<1>7. QED  BY <1>1, <1>4, <1>5, <1>6

\* The call gets a session that is there: the router's index may get it too.
LEMMA OldSessionKeeps ==
  ASSUME IInv, NEW c \in Calls, call[c].pc \in Waiting, NEW s, Resolve(c, s),
         KnownOK(TransportOf(c), s, made, born, agentRow), s # NoSession,
         known' = known \/ known' = [known EXCEPT ![TransportOf(c)] = s],
         UNCHANGED <<database, lease, cachedProject, stateProject, ender, cleaner, born, counters>>
  PROVE  IInv'
<1>1. /\ call[c].caller \in Callers /\ TransportOf(c) = call[c].caller /\ TransportOf(c) \in Transports
  BY WaitingCall
<1>2. s \in 1 .. made /\ s \in Sessions /\ born[s] = call[c].caller
  BY <1>1, MaxNat DEF KnownOK, IInv, TypeOK, Sessions
<1>3. asked' = asked
  BY DEF Resolve
<1>4. Plain /\ Grows
  BY <1>3, PlainSame DEF database
<1>5. /\ CallsOK' /\ Moves(c) /\ torn' = torn /\ kept' = kept /\ raced' \subseteq Sessions
      /\ given' \in [Callers -> Sessions \cup {NoSession}]
      /\ \A k \in Callers : GivenOK(k, given[k], made, born)'
  BY <1>2, <1>3, <1>4, ResolvedOK DEF database
<1>6. known' \in [Transports -> Sessions \cup {NoSession}]
  BY <1>1, <1>2 DEF IInv, TypeOK
<1>7. TypeOK'
  BY <1>3, <1>5, <1>6 DEF IInv, TypeOK, Moves, CallRec, database, counters
<1>8. \A t \in Transports : KnownOK(t, known'[t], made', born', agentRow')
  <2>1. \A t \in Transports : KnownOK(t, known'[t], made, born, agentRow)
    BY <1>1 DEF IInv, SessionsOK, TypeOK
  <2>2. QED  BY <2>1 DEF database
<1>9. SessionsOK'
  <2>1. (\A r \in Sessions : RowOK(r, made, born, owner, agentRow))' /\ Unique(owner)'
    BY DEF IInv, SessionsOK, database, RowOK, Unique
  <2>2. QED  BY <1>5, <1>8, <2>1 DEF SessionsOK
<1>10. ProjectsOK'
  BY <1>4, ProjectsStay DEF IInv, database
<1>11. AgentsOK'
  BY <1>4, AgentsStay DEF IInv, database
<1>12. TeardownsOK'
  BY <1>4, TeardownStays, CleanerStays DEF IInv, TeardownsOK, database
<1>13. QED  BY <1>5, <1>7, <1>9, <1>10, <1>11, <1>12 DEF IInv

LEMMA LookUpKeeps == ASSUME IInv, NEW c \in Calls, LookUp(c) PROVE IInv'
<1>1. call[c].pc = "lookup" /\ call[c].pc \in Waiting
  BY DEF LookUp, Waiting
<1>2. CASE \E s \in Found(TransportOf(c)) : Resolve(c, s) /\ UNCHANGED born
  <2>1. PICK s \in Found(TransportOf(c)) : Resolve(c, s) /\ UNCHANGED born
    BY <1>2
  <2>2. KnownOK(TransportOf(c), s, made, born, agentRow) /\ s # NoSession
    BY <1>1, FoundFacts, WaitingCall DEF Sessions, NoSession
  <2>3. QED  BY <1>1, <2>1, <2>2, OldSessionKeeps DEF LookUp, memory
<1>3. CASE Goto(c, "route") /\ UNCHANGED history
  BY <1>1, <1>3, GotoKeeps DEF LookUp, CallPC, Resolved, Setting, Leasing
<1>4. QED  BY <1>2, <1>3 DEF LookUp

LEMMA RouteKeeps == ASSUME IInv, NEW c \in Calls, Route(c) PROVE IInv'
<1>1. call[c].pc = "route" /\ call[c].pc \in Waiting
  BY DEF Route, Waiting
<1>2. CASE known[TransportOf(c)] # NoSession /\ Resolve(c, known[TransportOf(c)]) /\ UNCHANGED <<known, born>>
  <2>1. KnownOK(TransportOf(c), known[TransportOf(c)], made, born, agentRow)
    BY <1>1, WaitingCall DEF IInv, SessionsOK
  <2>2. QED  BY <1>1, <1>2, <2>1, OldSessionKeeps DEF Route
<1>3. CASE \E s \in Found(TransportOf(c)) : /\ Resolve(c, s) /\ UNCHANGED born
                                           /\ known' = [known EXCEPT ![TransportOf(c)] = s]
  <2>1. PICK s \in Found(TransportOf(c)) : /\ Resolve(c, s) /\ UNCHANGED born
                                           /\ known' = [known EXCEPT ![TransportOf(c)] = s]
    BY <1>3
  <2>2. KnownOK(TransportOf(c), s, made, born, agentRow) /\ s # NoSession
    BY <1>1, FoundFacts, WaitingCall DEF Sessions, NoSession
  <2>3. QED  BY <1>1, <2>1, <2>2, OldSessionKeeps DEF Route
<1>4. CASE Goto(c, "create") /\ UNCHANGED <<known, history>>
  BY <1>1, <1>4, GotoKeeps DEF Route, CallPC, Resolved, Setting, Leasing, memory
<1>5. QED  BY <1>2, <1>3, <1>4 DEF Route

LEMMA CollideKeeps == ASSUME IInv, NEW c \in Calls, Collide(c) PROVE IInv'
<1>1. call[c].pc = "collide" /\ call[c].pc \in Waiting
  BY DEF Collide, Waiting
<1>2. CASE \E s \in Found(TransportOf(c)) : /\ Resolve(c, s) /\ UNCHANGED born
                                           /\ known' = [known EXCEPT ![TransportOf(c)] = s]
  <2>1. PICK s \in Found(TransportOf(c)) : /\ Resolve(c, s) /\ UNCHANGED born
                                           /\ known' = [known EXCEPT ![TransportOf(c)] = s]
    BY <1>2
  <2>2. KnownOK(TransportOf(c), s, made, born, agentRow) /\ s # NoSession
    BY <1>1, FoundFacts, WaitingCall DEF Sessions, NoSession
  <2>3. QED  BY <1>1, <2>1, <2>2, OldSessionKeeps DEF Collide
<1>3. CASE Refuse(c) /\ UNCHANGED known
  BY <1>3, IdleKeeps DEF Collide, Refuse, memory
<1>4. QED  BY <1>2, <1>3 DEF Collide

-----------------------------------------------------------------------------
(* A new session, and a session that gets its transport back.              *)

\* The transport is free of the other sessions.
LEMMA FreeTransport ==
  ASSUME IInv, NEW t, t # NoTransport, NEW s \in Sessions, ~InUse(t, s)
  PROVE  \A r \in Sessions : r # s => owner[r] # t
<1>1. SUFFICES ASSUME NEW r \in Sessions, r # s PROVE owner[r] # t
  OBVIOUS
<1>2. CASE r \in 1 .. made
  BY <1>1, <1>2 DEF InUse, Rows
<1>3. CASE r \notin 1 .. made
  <2>1. r > made
    BY <1>3, MaxNat DEF IInv, TypeOK, Sessions
  <2>2. QED  BY <2>1 DEF IInv, SessionsOK, RowOK
<1>4. QED  BY <1>2, <1>3

LEMMA UniqueStays ==
  ASSUME IInv, NEW t \in Transports, t # NoTransport, NEW s \in Sessions, ~InUse(t, s),
         owner' = [owner EXCEPT ![s] = t]
  PROVE  Unique(owner)' /\ owner' \in [Sessions -> Transports]
<1>1. \A r \in Sessions : r # s => owner[r] # t /\ owner'[r] = owner[r]
  BY FreeTransport DEF IInv, TypeOK
<1>2. owner'[s] = t /\ owner' \in [Sessions -> Transports]
  BY DEF IInv, TypeOK
<1>3. Unique(owner)'
  BY <1>1, <1>2 DEF Unique, IInv, SessionsOK
<1>4. QED  BY <1>2, <1>3

LEMMA CreateKeeps == ASSUME IInv, NEW c \in Calls, Create(c) PROVE IInv'
<1> DEFINE t == TransportOf(c)
           s == Fresh
<1>1. call[c].pc = "create" /\ call[c].pc \in Waiting /\ made < MaxCalls /\ made \in Nat
  BY MaxNat DEF Create, Waiting, IInv, TypeOK
<1>2. s \in Sessions /\ s = made + 1 /\ s > made /\ s \in 1 .. s /\ s # NoSession /\ 1 .. made \subseteq Sessions
  BY <1>1, MaxNat DEF Fresh, Sessions, NoSession
<1>3. t = call[c].caller /\ t \in Callers /\ t \in Transports /\ t # NoTransport
  BY <1>1, WaitingCall
<1>4. CASE /\ ~InUse(t, s) /\ made' = s /\ owner' = [owner EXCEPT ![s] = t]
           /\ known' = [known EXCEPT ![t] = s] /\ born' = [born EXCEPT ![s] = call[c].caller]
           /\ Resolve(c, s)
  <2>1. asked' = asked /\ agentRow' = agentRow
    BY <1>4 DEF Create, Resolve
  <2>2. /\ \A r \in Sessions : r # s => born'[r] = born[r] /\ owner'[r] = owner[r]
        /\ born'[s] = t /\ owner'[s] = t
    BY <1>2, <1>3, <1>4 DEF IInv, TypeOK
  <2>3. Grows
    <3>1. made \in 0 .. MaxCalls /\ made' \in 0 .. MaxCalls /\ made <= made'
      BY <1>1, <1>2, <1>4, MaxNat
    <3>2. \A r \in 1 .. made : born'[r] = born[r]
      BY <1>1, <1>2, <2>2
    <3>3. \A r \in Sessions : r > made' => agentRow[r] = "absent"
      BY <1>1, <1>2, <1>4, MaxNat DEF IInv, SessionsOK, RowOK, Sessions
    <3>4. QED  BY <2>1, <3>1, <3>2, <3>3 DEF Grows, Later
  <2>4. /\ CallsOK' /\ Moves(c) /\ torn' = torn /\ kept' = kept /\ raced' \subseteq Sessions
        /\ given' \in [Callers -> Sessions \cup {NoSession}]
        /\ \A k \in Callers : GivenOK(k, given[k], made, born)'
    BY <1>1, <1>2, <1>3, <1>4, <2>1, <2>2, <2>3, ResolvedOK
  <2>5. Unique(owner)' /\ owner' \in [Sessions -> Transports]
    BY <1>2, <1>3, <1>4, UniqueStays
  <2>6. /\ known' \in [Transports -> Sessions \cup {NoSession}] /\ born' \in [Sessions -> Callers \cup {NoTransport}]
        /\ made' \in 0 .. MaxCalls
    BY <1>2, <1>3, <1>4, <2>3 DEF IInv, TypeOK, Grows, Later
  <2>7. TypeOK'
    BY <2>1, <2>4, <2>5, <2>6 DEF Create, IInv, TypeOK, Moves, CallRec, counters
  <2>8. \A r \in Sessions : RowOK(r, made, born, owner, agentRow)'
    <3>1. SUFFICES ASSUME NEW r \in Sessions PROVE RowOK(r, made', born', owner', agentRow)
      BY <2>1
    <3>2. r \in Nat
      BY DEF Sessions
    <3>3. CASE r = s
      BY <1>2, <1>3, <1>4, <2>2, <3>3 DEF RowOK
    <3>4. CASE r # s
      BY <1>1, <1>2, <1>4, <2>2, <3>2, <3>4 DEF RowOK, IInv, SessionsOK
    <3>5. QED  BY <3>3, <3>4
  <2>9. \A u \in Transports : KnownOK(u, known[u], made, born, agentRow)'
    <3>1. SUFFICES ASSUME NEW u \in Transports PROVE KnownOK(u, known'[u], made', born', agentRow)
      BY <2>1
    <3>2. 1 .. made' = (1 .. made) \cup {s}
      BY <1>1, <1>2, <1>4
    <3>3. CASE u = t
      <4>1. known'[u] = s
        BY <1>3, <1>4, <3>3 DEF IInv, TypeOK
      <4>2. \A r \in 1 .. made : born[r] = t /\ agentRow[r] # "ended" => owner[r] = t
        BY <1>2 DEF IInv, SessionsOK, RowOK
      <4>3. \A r \in 1 .. made : r # s /\ ~(born[r] = t /\ agentRow[r] # "ended")
        BY <1>1, <1>2, <1>3, <1>4, <4>2 DEF InUse, Rows
      <4>4. \A r \in 1 .. made' : born'[r] = t /\ agentRow[r] # "ended" => r = s
        BY <1>2, <2>2, <3>2, <4>3
      <4>5. QED  BY <1>2, <1>4, <2>2, <3>2, <3>3, <4>1, <4>4 DEF KnownOK
    <3>4. CASE u # t
      <4>1. known'[u] = known[u] /\ KnownOK(u, known[u], made, born, agentRow)
        BY <1>4, <3>4 DEF IInv, TypeOK, SessionsOK
      <4>2. \A r \in 1 .. made : r \in 1 .. made' /\ born'[r] = born[r]
        BY <1>1, <1>2, <2>2, <3>2
      <4>3. \A r \in 1 .. made' : born'[r] = u => r \in 1 .. made
        BY <2>2, <3>2, <3>4
      <4>4. QED  BY <4>1, <4>2, <4>3 DEF KnownOK
    <3>5. QED  BY <3>3, <3>4
  <2>10. SessionsOK'
    BY <2>4, <2>5, <2>8, <2>9 DEF SessionsOK
  <2>11. ProjectsOK'
    BY <2>3, ProjectsStay DEF Create, IInv
  <2>12. AgentsOK'
    BY <2>3, AgentsStay DEF Create, IInv
  <2>13. TeardownsOK'
    BY <2>3, TeardownStays, CleanerStays DEF Create, IInv, TeardownsOK
  <2>14. QED  BY <2>4, <2>7, <2>10, <2>11, <2>12, <2>13 DEF IInv
<1>5. CASE Goto(c, "collide") /\ UNCHANGED <<made, owner, known, history>>
  BY <1>1, <1>5, GotoKeeps DEF Create, CallPC, Resolved, Setting, Leasing, database, memory
<1>6. QED  BY <1>4, <1>5 DEF Create

LEMMA AttachKeeps == ASSUME IInv, NEW c \in Calls, Attach(c) PROVE IInv'
<1> DEFINE t == TransportOf(c)
           s == call[c].session
<1>1. call[c].pc = "attach" /\ CallOK(call[c], made, born, agentRow, asked)
  BY DEF Attach, IInv, CallsOK
<1>2. call[c].caller \in Callers /\ s \in 1 .. made /\ born[s] = call[c].caller
  BY <1>1 DEF CallOK, Resolved
<1>3. t = call[c].caller /\ t \in Transports /\ t # NoTransport /\ s \in Sessions
  BY <1>2, CallerScoped, MaxNat DEF IInv, TypeOK, Sessions
<1>4. CASE /\ ~InUse(t, s) /\ owner' = [owner EXCEPT ![s] = t]
           /\ Goto(c, "activity") /\ UNCHANGED history
  <2>1. Moves(c) /\ Onward(call[c], call'[c], "activity")
    BY <1>4, GotoMoves DEF IInv, CallPC
  <2>2. CallOK(call'[c], made', born', agentRow', asked')
    BY <1>1, <1>4, <2>1, OnwardOK DEF Attach, history, Resolved, Setting, Leasing
  <2>3. Plain /\ Grows
    BY <1>4, PlainSame DEF Attach, history
  <2>4. Unique(owner)' /\ owner' \in [Sessions -> Transports]
    BY <1>3, <1>4, UniqueStays
  <2>5. TypeOK'
    BY <1>4, <2>1, <2>4 DEF Attach, IInv, TypeOK, Moves, CallRec, memory, history, counters
  <2>6. \A r \in Sessions : RowOK(r, made', born', owner', agentRow')
    <3>1. \A r \in Sessions : r # s => owner'[r] = owner[r]
      BY <1>4 DEF IInv, TypeOK
    <3>2. owner'[s] = born[s] /\ ~(s > made)
      BY <1>2, <1>3, <1>4 DEF IInv, TypeOK
    <3>3. QED  BY <1>4, <3>1, <3>2 DEF Attach, history, IInv, SessionsOK, RowOK
  <2>7. SessionsOK'
    BY <1>4, <2>4, <2>6 DEF Attach, history, memory, IInv, SessionsOK
  <2>8. ProjectsOK'
    BY <2>3, ProjectsStay DEF Attach, IInv, memory
  <2>9. AgentsOK'
    BY <2>3, AgentsStay DEF Attach, IInv, memory
  <2>10. CallsOK'
    BY <2>1, <2>2, <2>3, CallsStay DEF IInv, Moves
  <2>11. TeardownsOK'
    BY <2>3, TeardownStays, CleanerStays DEF Attach, IInv, TeardownsOK, memory
  <2>12. QED  BY <2>5, <2>7, <2>8, <2>9, <2>10, <2>11 DEF IInv
<1>5. CASE Refuse(c) /\ UNCHANGED owner
  BY <1>5, IdleKeeps DEF Attach, Refuse, database
<1>6. QED  BY <1>4, <1>5 DEF Attach

-----------------------------------------------------------------------------
(* The steps of a call that has its session.                               *)

LEMMA HasSession ==
  ASSUME IInv, NEW c \in Calls, call[c].pc \in Resolved
  PROVE  /\ call[c].caller \in Callers /\ AgentOf(c) \in Agents
         /\ call[c].session \in 1 .. made /\ call[c].session \in Sessions
         /\ born[call[c].session] = call[c].caller /\ call[c].pc # "idle"
         /\ CallOK(call[c], made, born, agentRow, asked) /\ call[c] \in CallRec
<1>1. CallOK(call[c], made, born, agentRow, asked) /\ call[c] \in CallRec
  BY CallTyped DEF IInv, CallsOK
<1>2. call[c].pc # "idle"
  BY DEF Resolved
<1>3. call[c].caller \in Callers /\ call[c].session \in 1 .. made /\ born[call[c].session] = call[c].caller
  BY <1>1, <1>2 DEF CallOK
<1>4. AgentOf(c) \in Agents
  BY <1>3, CallerScoped DEF IInv
<1>5. call[c].session \in Sessions
  BY <1>3, MaxNat DEF IInv, TypeOK, Sessions
<1>6. QED  BY <1>1, <1>2, <1>3, <1>4, <1>5

\* The project the step gives to the call was asked for.
LEMMA ProjectsAsked ==
  ASSUME IInv, NEW s \in Sessions
  PROVE  /\ bound[s] \in Projects \cup {NoProject} /\ AskedIn(asked, born[s], bound[s])
         /\ cachedProject[s] \in Projects \cup {NoProject} /\ AskedIn(asked, born[s], cachedProject[s])
         /\ stateProject[s] \in Projects \cup {NoProject} /\ AskedIn(asked, born[s], stateProject[s])
BY DEF IInv, TypeOK, ProjectsOK, ProjectOK

LEMMA UseMoves ==
  ASSUME TypeOK, NEW c \in Calls, NEW pc \in CallPC, NEW p \in Projects \cup {NoProject},
         call' = [call EXCEPT ![c].using = p, ![c].pc = pc]
  PROVE  /\ Moves(c) /\ call'[c].pc = pc /\ call'[c].using = p
         /\ call'[c].caller = call[c].caller /\ call'[c].project = call[c].project
         /\ call'[c].session = call[c].session /\ call'[c].snap = call[c].snap
<1>1. call \in [Calls -> CallRec] /\ call[c] \in CallRec
  BY CallTyped
<1>2. call'[c] = [call[c] EXCEPT !.using = p, !.pc = pc]
  BY <1>1
<1>3. call'[c] \in CallRec
  BY <1>1, <1>2 DEF CallRec
<1>4. call' \in [Calls -> CallRec] /\ \A x \in Calls \ {c} : call'[x] = call[x]
  BY <1>1, <1>3
<1>5. QED  BY <1>1, <1>2, <1>4 DEF Moves, CallRec

LEMMA SnapMoves ==
  ASSUME TypeOK, NEW c \in Calls, NEW pc \in CallPC, NEW p \in Projects \cup {NoProject},
         call' = [call EXCEPT ![c].snap = p, ![c].pc = pc]
  PROVE  /\ Moves(c) /\ call'[c].pc = pc /\ call'[c].snap = p
         /\ call'[c].caller = call[c].caller /\ call'[c].project = call[c].project
         /\ call'[c].session = call[c].session /\ call'[c].using = call[c].using
<1>1. call \in [Calls -> CallRec] /\ call[c] \in CallRec
  BY CallTyped
<1>2. call'[c] = [call[c] EXCEPT !.snap = p, !.pc = pc]
  BY <1>1
<1>3. call'[c] \in CallRec
  BY <1>1, <1>2 DEF CallRec
<1>4. call' \in [Calls -> CallRec] /\ \A x \in Calls \ {c} : call'[x] = call[x]
  BY <1>1, <1>3
<1>5. QED  BY <1>1, <1>2, <1>4 DEF Moves, CallRec

\* A step of the call with a project in using.
LEMMA UseKeeps ==
  ASSUME IInv, NEW c \in Calls, call[c].pc \in Resolved, NEW pc \in {"attach", "tool"},
         NEW p \in Projects \cup {NoProject}, AskedIn(asked, call[c].caller, p),
         call' = [call EXCEPT ![c].using = p, ![c].pc = pc],
         UNCHANGED <<database, memory, ender, cleaner, history, counters>>
  PROVE  IInv'
<1>1. /\ Moves(c) /\ call'[c].pc = pc /\ call'[c].using = p
      /\ call'[c].caller = call[c].caller /\ call'[c].project = call[c].project
      /\ call'[c].session = call[c].session /\ call'[c].snap = call[c].snap
  BY UseMoves DEF IInv, CallPC
<1>2. CallOK(call'[c], made, born, agentRow, asked)
  BY <1>1, HasSession DEF CallOK, Resolved, Setting, Leasing
<1>3. Plain /\ Grows
  BY PlainSame DEF database, history
<1>4. TypeOK'
  BY <1>1, TypeStays DEF IInv, TypeOK, Moves, history, counters
<1>5. QED  BY <1>1, <1>2, <1>3, <1>4, QuietStep DEF database, history

LEMMA BindingKeeps == ASSUME IInv, NEW c \in Calls, Binding(c) PROVE IInv'
<1>1. call[c].pc = "binding" /\ call[c].pc \in Resolved
  BY DEF Binding, Resolved
<1>2. CASE call' = [call EXCEPT ![c].using = bound[call[c].session], ![c].pc = "attach"]
  <2>1. /\ bound[call[c].session] \in Projects \cup {NoProject}
        /\ AskedIn(asked, call[c].caller, bound[call[c].session])
    BY <1>1, HasSession, ProjectsAsked
  <2>2. UNCHANGED <<database, memory, ender, cleaner, history, counters>>
    BY DEF Binding
  <2>3. QED  BY <1>1, <1>2, <2>1, <2>2, UseKeeps
<1>3. CASE call' = [call EXCEPT ![c] = IdleCall]
  BY <1>3, IdleKeeps DEF Binding
<1>4. QED  BY <1>2, <1>3 DEF Binding

LEMMA RunKeeps == ASSUME IInv, NEW c \in Calls, Run(c) PROVE IInv'
<1> DEFINE p == IF call[c].using = NoProject THEN cachedProject[call[c].session] ELSE call[c].using
<1>1. call[c].pc = "run" /\ call[c].pc \in Resolved
  BY DEF Run, Resolved
<1>2. call' = [call EXCEPT ![c].using = p, ![c].pc = "tool"]
  BY <1>1, CallTyped DEF Run, IInv
<1>3. p \in Projects \cup {NoProject} /\ AskedIn(asked, call[c].caller, p)
  BY <1>1, HasSession, ProjectsAsked DEF CallOK, CallRec
<1>4. QED  BY <1>1, <1>2, <1>3, UseKeeps DEF Run

LEMMA FinishKeeps == ASSUME IInv, NEW c \in Calls, Finish(c) PROVE IInv'
BY IdleKeeps DEF Finish

LEMMA ActivityKeeps == ASSUME IInv, NEW c \in Calls, Activity(c) PROVE IInv'
<1> DEFINE s == call[c].session
           p == IF stateProject[s] # NoProject THEN stateProject[s] ELSE bound[s]
<1>1. call[c].pc = "activity" /\ call[c].pc \in Resolved
  BY DEF Activity, Resolved
<1>2. p \in Projects \cup {NoProject} /\ AskedIn(asked, call[c].caller, p) /\ s \in Sessions /\ s \in 1 .. made
  BY <1>1, HasSession, ProjectsAsked
<1>3. CASE Goto(c, AfterActivity(c)) /\ UNCHANGED stateProject
  <2>1. CASE call[c].project = NoProject
    BY <1>1, <1>3, <2>1, GotoKeeps DEF Activity, AfterActivity, CallPC, Resolved, Setting, Leasing, memory
  <2>2. CASE call[c].project # NoProject
    BY <1>1, <1>3, <2>2, GotoKeeps DEF Activity, AfterActivity, CallPC, Resolved, Setting, Leasing, memory
  <2>3. QED  BY <2>1, <2>2
<1>4. CASE /\ call' = [call EXCEPT ![c].snap = p, ![c].pc = "persist"]
           /\ stateProject' = [stateProject EXCEPT ![s] = p]
  <2>1. /\ Moves(c) /\ call'[c].pc = "persist" /\ call'[c].snap = p
        /\ call'[c].caller = call[c].caller /\ call'[c].project = call[c].project
        /\ call'[c].session = call[c].session /\ call'[c].using = call[c].using
    <3>1. "persist" \in CallPC /\ TypeOK
      BY DEF IInv, CallPC
    <3> HIDE DEF p
    <3>2. QED  BY <1>2, <1>4, <3>1, SnapMoves
  <2>2. CallOK(call'[c], made, born, agentRow, asked)
    BY <1>1, <1>2, <2>1, HasSession DEF CallOK, Resolved, Setting, Leasing
  <2>3. Plain /\ Grows
    BY PlainSame DEF Activity, database, history
  <2>4. TypeOK'
    <3>1. stateProject' \in [Sessions -> Projects \cup {NoProject}]
      BY <1>2, <1>4 DEF IInv, TypeOK
    <3>2. QED  BY <2>1, <3>1 DEF Activity, IInv, TypeOK, Moves, CallRec, database, history, counters
  <2>5. SessionsOK'
    BY <2>3, SessionsStay DEF Activity, IInv, database, history
  <2>6. ProjectsOK'
    <3>1. \A r \in Sessions : r # s => stateProject'[r] = stateProject[r]
      BY <1>4 DEF IInv, TypeOK
    <3>2. stateProject'[s] = p /\ AskedIn(asked, born[s], p) /\ ~(s > made)
      BY <1>1, <1>2, <1>4, HasSession DEF IInv, TypeOK
    <3>3. \A r \in Sessions : ProjectOK(r, stateProject'[r], made, born, asked)
      BY <3>1, <3>2 DEF IInv, ProjectsOK, ProjectOK
    <3>4. QED  BY <3>3 DEF Activity, IInv, ProjectsOK, database, history
  <2>7. AgentsOK'
    BY <2>3, AgentsStay DEF Activity, IInv, database
  <2>8. CallsOK'
    <3>1. CallOK(call'[c], made', born', agentRow', asked')
      BY <2>2 DEF Activity, database, history
    <3>2. QED  BY <2>1, <2>3, <3>1, CallsStay DEF IInv, Moves
  <2>9. TeardownsOK'
    BY <2>3, TeardownStays, CleanerStays DEF Activity, IInv, TeardownsOK, database
  <2>10. QED  BY <2>4, <2>5, <2>6, <2>7, <2>8, <2>9 DEF IInv
<1>5. QED  BY <1>3, <1>4 DEF Activity

-----------------------------------------------------------------------------
(* The agent's row, the lease and the project.                             *)

\* The row of an agent is written by a session of a caller of that agent.
LEMMA PointedOK ==
  ASSUME IInv, NEW a \in Agents, NEW p \in Projects \cup {NoProject}, NEW s \in 1 .. made,
         born[s][2] = a, p # NoProject => \E k \in Callers : k[2] = a /\ <<k, p>> \in asked,
         pointer' = Pointed(a, p, s)
  PROVE  /\ pointer' \in [Agents -> [project: Projects \cup {NoProject}, version: Nat,
                                     session: Sessions \cup {NoSession}]]
         /\ \A b \in Agents : PointerOK(b, pointer'[b], made, born, asked)
         /\ pointer'[a] = [project |-> p, version |-> pointer[a].version + 1, session |-> s]
         /\ \A b \in Agents : b # a => pointer'[b] = pointer[b]
<1>1. s \in Sessions /\ s # NoSession /\ pointer[a].version + 1 \in Nat
  BY MaxNat DEF IInv, TypeOK, Sessions, NoSession
<1>2. pointer' = [pointer EXCEPT ![a] = [project |-> p, version |-> pointer[a].version + 1, session |-> s]]
  BY DEF Pointed, IInv, TypeOK
<1>3. pointer' \in [Agents -> [project: Projects \cup {NoProject}, version: Nat,
                               session: Sessions \cup {NoSession}]]
  BY <1>1, <1>2 DEF IInv, TypeOK
<1>4. /\ pointer'[a] = [project |-> p, version |-> pointer[a].version + 1, session |-> s]
      /\ \A b \in Agents : b # a => pointer'[b] = pointer[b]
  BY <1>2 DEF IInv, TypeOK
<1>5. PointerOK(a, pointer'[a], made, born, asked)
  BY <1>4 DEF PointerOK
<1>6. \A b \in Agents : PointerOK(b, pointer'[b], made, born, asked)
  BY <1>4, <1>5 DEF IInv, AgentsOK
<1>7. QED  BY <1>3, <1>4, <1>6

LEMMA EnderTyped == ASSUME TypeOK, ender.pc = "clear", EnderOK(ender, made, born, agentRow, pointer)
                    PROVE  ender.version \in Nat /\ ender.agent = born[ender.session][2] /\ ender.session \in 1 .. made
BY DEF TypeOK, EnderOK

\* A teardown stays careful while an agent's row is written under a new version.
LEMMA EnderSeesWrites ==
  ASSUME IInv, Grows, NEW a \in Agents, ender' = ender,
         pointer'[a].version = pointer[a].version + 1, \A b \in Agents : b # a => pointer'[b] = pointer[b]
  PROVE  EnderOK(ender', made', born', agentRow', pointer')
<1>1. CASE ender.pc = "clear"
  <2>1. ender.version \in Nat /\ ender.session \in 1 .. made /\ ender.agent = born[ender.session][2]
    BY <1>1, EnderTyped DEF IInv, TeardownsOK
  <2>2. ender.session \in Sessions /\ born[ender.session] \in Callers
    BY <2>1, MaxNat DEF IInv, TypeOK, SessionsOK, RowOK, Sessions
  <2>3. ender.agent \in Agents
    BY <2>1, <2>2, CallersAssumption
  <2>4. pointer[ender.agent].version \in Nat
    BY <2>3 DEF IInv, TypeOK
  <2>5. pointer'[ender.agent] = pointer[ender.agent] \/ pointer'[ender.agent].version = pointer[ender.agent].version + 1
    BY <2>3
  <2>6. QED  BY <2>1, <2>4, <2>5, EnderStays DEF IInv, TeardownsOK, Grows
<1>2. CASE ender.pc = "idle"
  BY <1>2 DEF EnderOK
<1>3. CASE ender.pc \notin {"idle", "clear"}
  <2>1. ender.session \in 1 .. made /\ made \in Nat /\ made' \in Nat /\ made <= made' /\ ender.session \in Sessions
    BY <1>3, MaxNat DEF IInv, TeardownsOK, EnderOK, Grows, Later, Sessions
  <2>2. QED  BY <1>3, <2>1 DEF IInv, TeardownsOK, EnderOK, Grows, Later
<1>4. QED  BY <1>1, <1>2, <1>3

\* A step of a call that writes the row of its agent.
LEMMA PointStep ==
  ASSUME IInv, NEW c \in Calls, call[c].pc \in Resolved, NEW p \in Projects \cup {NoProject},
         AskedIn(asked, call[c].caller, p), pointer' = Pointed(AgentOf(c), p, call[c].session),
         Moves(c), CallOK(call'[c], made, born, agentRow, asked),
         UNCHANGED <<made, owner, agentRow, bound, memory, ender, cleaner, history, counters>>
  PROVE  IInv'
<1> DEFINE a == AgentOf(c)
<1>1. /\ call[c].caller \in Callers /\ a \in Agents /\ call[c].session \in 1 .. made
      /\ born[call[c].session][2] = a
  BY HasSession DEF AgentOf
<1>2. p # NoProject => \E k \in Callers : k[2] = a /\ <<k, p>> \in asked
  BY <1>1 DEF AskedIn, AgentOf
<1>3. /\ pointer' \in [Agents -> [project: Projects \cup {NoProject}, version: Nat,
                                  session: Sessions \cup {NoSession}]]
      /\ \A b \in Agents : PointerOK(b, pointer'[b], made, born, asked)
      /\ pointer'[a] = [project |-> p, version |-> pointer[a].version + 1, session |-> call[c].session]
      /\ \A b \in Agents : b # a => pointer'[b] = pointer[b]
  <2> HIDE DEF a
  <2>1. pointer' = Pointed(a, p, call[c].session)
    BY DEF a
  <2>2. QED  BY <1>1, <1>2, <2>1, PointedOK
<1>4. Plain /\ Grows
  BY PlainSame DEF history
<1>5. TypeOK'
  BY <1>3 DEF IInv, TypeOK, Moves, CallRec, memory, history, counters
<1>6. SessionsOK'
  BY <1>4, SessionsStay DEF IInv, memory, history
<1>7. ProjectsOK'
  BY <1>4, ProjectsStay DEF IInv, memory
<1>8. AgentsOK'
  BY <1>3 DEF IInv, AgentsOK, memory, history
<1>9. CallsOK'
  BY <1>4, CallsStay DEF IInv, Moves, history
<1>10. EnderOK(ender', made', born', agentRow', pointer')
  BY <1>1, <1>3, <1>4, EnderSeesWrites
<1>11. TeardownsOK'
  BY <1>4, <1>10, CleanerStays DEF IInv, TeardownsOK, memory
<1>12. QED  BY <1>5, <1>6, <1>7, <1>8, <1>9, <1>11 DEF IInv

LEMMA PersistKeeps == ASSUME IInv, NEW c \in Calls, Persist(c) PROVE IInv'
<1>1. call[c].pc = "persist" /\ call[c].pc \in Resolved
  BY DEF Persist, Resolved
<1>2. /\ CallOK(call[c], made, born, agentRow, asked) /\ call[c] \in CallRec
      /\ AskedIn(asked, call[c].caller, call[c].snap) /\ call[c].snap \in Projects \cup {NoProject}
  BY <1>1, HasSession DEF CallOK, CallRec
<1> DEFINE pc == AfterActivity(c)
<1>3. /\ pc \in {"run", "start"} /\ (pc = "start" => call[c].project # NoProject)
      /\ pc \in CallPC
  BY DEF AfterActivity, CallPC
<1> HIDE DEF pc
<1>4. /\ Moves(c) /\ call'[c].pc = pc /\ call'[c].snap = NoProject
      /\ call'[c].caller = call[c].caller /\ call'[c].project = call[c].project
      /\ call'[c].session = call[c].session /\ call'[c].using = call[c].using
  <2>1. call' = [call EXCEPT ![c].snap = NoProject, ![c].pc = pc]
    BY DEF Persist, pc
  <2>2. QED  BY <1>3, <2>1, SnapMoves DEF IInv
<1>5. pc \in Resolved /\ pc \notin Leasing /\ (pc \in Setting => call[c].project # NoProject)
  BY <1>3 DEF Resolved, Leasing, Setting
<1>6. CallOK(call'[c], made, born, agentRow, asked)
  <2>1. AskedIn(asked, call[c].caller, NoProject)
    BY DEF AskedIn
  <2>2. QED  BY <1>1, <1>2, <1>4, <1>5, <2>1 DEF CallOK, Resolved
<1>7. QED  BY <1>1, <1>2, <1>4, <1>6, PointStep DEF Persist

LEMMA PointKeeps == ASSUME IInv, NEW c \in Calls, Point(c) PROVE IInv'
<1>1. call[c].pc = "point" /\ call[c].pc \in Resolved
  BY DEF Point, Resolved
<1>2. /\ CallOK(call[c], made, born, agentRow, asked)
      /\ AskedIn(asked, call[c].caller, call[c].project) /\ call[c].project \in Projects \cup {NoProject}
  BY <1>1, HasSession DEF CallOK, CallRec
<1>3. Goto(c, "bind") /\ call[c].project # NoProject /\ agentRow[call[c].session] # "absent"
  BY <1>1, <1>2 DEF Point, CallOK, Setting, Leasing
<1>4. CASE pointer' = Pointed(AgentOf(c), call[c].project, call[c].session)
  <2>1. Moves(c) /\ Onward(call[c], call'[c], "bind")
    BY <1>3, GotoMoves DEF IInv, CallPC
  <2>2. CallOK(call'[c], made, born, agentRow, asked)
    BY <1>1, <1>2, <1>3, <2>1, OnwardOK DEF Resolved
  <2>3. QED  BY <1>1, <1>2, <1>4, <2>1, <2>2, PointStep DEF Point
<1>5. CASE UNCHANGED pointer
  BY <1>1, <1>3, <1>5, GotoKeeps DEF Point, CallPC, Resolved, database
<1>6. QED  BY <1>4, <1>5 DEF Point

LEMMA ReuseKeeps == ASSUME IInv, NEW c \in Calls, Reuse(c) PROVE IInv'
BY IdleKeeps DEF Reuse

LEMMA StartKeeps == ASSUME IInv, NEW c \in Calls, Start(c) PROVE IInv'
<1>1. call[c].pc = "start" /\ call[c].pc \in Resolved
  BY DEF Start, Resolved
<1>2. /\ CallOK(call[c], made, born, agentRow, asked) /\ call[c].session \in 1 .. made
      /\ call[c].session \in Sessions
  BY <1>1, HasSession
<1>3. Plain /\ Grows /\ agentRow' \in [Sessions -> {"absent", "live", "ended"}]
  BY <1>2, PlainAged DEF Start, history
<1>4. Moves(c) /\ Onward(call[c], call'[c], "lease")
  BY GotoMoves DEF Start, IInv, CallPC
<1>5. agentRow'[call[c].session] # "absent"
  BY <1>2 DEF Start, Upserted, IInv, TypeOK
<1>6. CallOK(call[c], made', born', agentRow', asked')
  BY <1>2, <1>3, CallStays DEF Grows
<1>7. CallOK(call'[c], made', born', agentRow', asked')
  <2>1. call[c].project # NoProject
    BY <1>1, <1>2 DEF CallOK, Setting
  <2>2. "lease" \in Resolved /\ call[c].pc # "idle"
    BY <1>1 DEF Resolved
  <2>3. QED  BY <1>1, <1>4, <1>5, <1>6, <2>1, <2>2, OnwardOK
<1>8. TypeOK'
  BY <1>3, <1>4 DEF Start, IInv, TypeOK, Moves, CallRec, memory, history, counters
<1>9. QED  BY <1>3, <1>4, <1>7, <1>8, QuietStep DEF Start, history

LEMMA ValidateKeeps == ASSUME IInv, NEW c \in Calls, Validate(c) PROVE IInv'
<1>1. call[c].pc = "validate" /\ call[c].pc \in Resolved
  BY DEF Validate, Resolved
<1>2. call[c].project # NoProject /\ agentRow[call[c].session] # "absent"
  BY <1>1, HasSession DEF CallOK, Setting, Leasing
<1>3. PICK pc \in {"point", "bind"} : Goto(c, pc)
  BY DEF Validate
<1>4. QED  BY <1>1, <1>2, <1>3, GotoKeeps DEF Validate, CallPC, Resolved

LEMMA LeaseKeeps == ASSUME IInv, NEW c \in Calls, Lease(c) PROVE IInv'
<1> DEFINE a == AgentOf(c)
<1>1. call[c].pc = "lease" /\ call[c].pc \in Resolved /\ cleaner.pc = "idle" /\ Goto(c, "validate")
  BY DEF Lease, Resolved, LeaseFree
<1>2. /\ CallOK(call[c], made, born, agentRow, asked) /\ call[c].session \in 1 .. made
      /\ call[c].session \in Sessions /\ a \in Agents /\ born[call[c].session][2] = a
  BY <1>1, HasSession DEF AgentOf
<1>3. agentRow[call[c].session] # "absent" /\ call[c].project # NoProject
  BY <1>1, <1>2 DEF CallOK, Setting, Leasing
<1>4. Moves(c) /\ Onward(call[c], call'[c], "validate")
  BY <1>1, GotoMoves DEF IInv, CallPC
<1>5. CallOK(call'[c], made, born, agentRow, asked)
  BY <1>1, <1>2, <1>3, <1>4, OnwardOK DEF Resolved
<1>6. Plain /\ Grows
  BY PlainSame DEF Lease, database, history
<1>7. lease' = [lease EXCEPT ![a] = [session |-> call[c].session, fresh |-> TRUE]]
  BY DEF Lease
<1>8. lease' \in [Agents -> [session: Sessions \cup {NoSession}, fresh: BOOLEAN]]
  BY <1>2, <1>7 DEF IInv, TypeOK
<1>9. TypeOK'
  BY <1>4, <1>8 DEF Lease, IInv, TypeOK, Moves, CallRec, database, history, counters
<1>10. \A b \in Agents : LeaseOK(b, lease'[b].session, made, born, agentRow)
  <2>1. \A b \in Agents : b # a => lease'[b] = lease[b]
    BY <1>7 DEF IInv, TypeOK
  <2>2. lease'[a].session = call[c].session
    BY <1>2, <1>7 DEF IInv, TypeOK
  <2>3. QED  BY <1>2, <1>3, <2>1, <2>2 DEF LeaseOK, IInv, AgentsOK
<1>11. AgentsOK'
  BY <1>10 DEF Lease, IInv, AgentsOK, database, history
<1>12. SessionsOK'
  BY <1>6, SessionsStay DEF Lease, IInv, database, history
<1>13. ProjectsOK'
  BY <1>6, ProjectsStay DEF Lease, IInv, database
<1>14. CallsOK'
  BY <1>4, <1>5, <1>6, CallsStay DEF Lease, IInv, Moves, database, history
<1>15. TeardownsOK'
  BY <1>1, <1>6, TeardownStays, CleanerStays DEF Lease, IInv, TeardownsOK, database
<1>16. QED  BY <1>9, <1>11, <1>12, <1>13, <1>14, <1>15 DEF IInv

LEMMA BindKeeps == ASSUME IInv, NEW c \in Calls, Bind(c) PROVE IInv'
<1> DEFINE s == call[c].session
           p == call[c].project
<1>1. call[c].pc = "bind" /\ call[c].pc \in Resolved /\ Goto(c, "cache")
  BY DEF Bind, Resolved
<1>2. /\ CallOK(call[c], made, born, agentRow, asked) /\ s \in 1 .. made /\ s \in Sessions
      /\ p \in Projects \cup {NoProject} /\ AskedIn(asked, born[s], p) /\ made \in Nat
  BY <1>1, HasSession, MaxNat DEF CallOK, CallRec, IInv, TypeOK
<1>3. agentRow[s] # "absent" /\ p # NoProject
  BY <1>1, <1>2 DEF CallOK, Setting, Leasing
<1>4. Moves(c) /\ Onward(call[c], call'[c], "cache")
  BY <1>1, GotoMoves DEF IInv, CallPC
<1>5. CallOK(call'[c], made, born, agentRow, asked)
  BY <1>1, <1>2, <1>3, <1>4, OnwardOK DEF Resolved
<1>6. Plain /\ Grows
  BY PlainSame DEF Bind, history
<1>7. /\ bound' \in [Sessions -> Projects \cup {NoProject}] /\ bound'[s] = p
      /\ stateProject' \in [Sessions -> Projects \cup {NoProject}] /\ stateProject'[s] = p
      /\ \A r \in Sessions : r # s => bound'[r] = bound[r] /\ stateProject'[r] = stateProject[r]
  BY <1>2 DEF Bind, IInv, TypeOK
<1>8. TypeOK'
  BY <1>4, <1>7 DEF Bind, IInv, TypeOK, Moves, CallRec, history, counters
<1>9. SessionsOK'
  BY <1>6, SessionsStay DEF Bind, IInv, history
<1>10. ProjectsOK'
  <2>1. ~(s > made)
    BY <1>2
  <2>2. \A r \in Sessions : /\ ProjectOK(r, bound'[r], made, born, asked)
                            /\ ProjectOK(r, stateProject'[r], made, born, asked)
    BY <1>2, <1>7, <2>1 DEF IInv, ProjectsOK, ProjectOK
  <2>3. QED  BY <2>2 DEF Bind, IInv, ProjectsOK, history
<1>11. AgentsOK'
  BY <1>6, AgentsStay DEF Bind, IInv
<1>12. CallsOK'
  BY <1>4, <1>5, <1>6, CallsStay DEF Bind, IInv, Moves, history
<1>13. TeardownsOK'
  BY <1>6, TeardownStays, CleanerStays DEF Bind, IInv, TeardownsOK
<1>14. QED  BY <1>8, <1>9, <1>10, <1>11, <1>12, <1>13 DEF IInv

LEMMA CacheKeeps == ASSUME IInv, NEW c \in Calls, Cache(c) PROVE IInv'
<1> DEFINE s == call[c].session
           p == call[c].project
<1>1. call[c].pc = "cache" /\ call[c].pc \in Resolved
  BY DEF Cache, Resolved
<1>2. /\ CallOK(call[c], made, born, agentRow, asked) /\ s \in 1 .. made /\ s \in Sessions
      /\ p \in Projects \cup {NoProject} /\ AskedIn(asked, born[s], p) /\ made \in Nat
  BY <1>1, HasSession, MaxNat DEF CallOK, CallRec, IInv, TypeOK
<1>3. Moves(c) /\ call'[c] = IdleCall
  BY IdleMoves DEF Cache, IInv
<1>4. Plain /\ Grows
  BY PlainSame DEF Cache, database, history
<1>5. /\ cachedProject' \in [Sessions -> Projects \cup {NoProject}] /\ cachedProject'[s] = p
      /\ \A r \in Sessions : r # s => cachedProject'[r] = cachedProject[r]
  BY <1>2 DEF Cache, IInv, TypeOK
<1>6. TypeOK'
  BY <1>3, <1>5 DEF Cache, IInv, TypeOK, Moves, CallRec, database, history, counters
<1>7. SessionsOK'
  BY <1>4, SessionsStay DEF Cache, IInv, database, history
<1>8. ProjectsOK'
  <2>1. ~(s > made)
    BY <1>2
  <2>2. \A r \in Sessions : ProjectOK(r, cachedProject'[r], made, born, asked)
    BY <1>2, <1>5, <2>1 DEF IInv, ProjectsOK, ProjectOK
  <2>3. QED  BY <2>2 DEF Cache, IInv, ProjectsOK, database, history
<1>9. AgentsOK'
  BY <1>4, AgentsStay DEF Cache, IInv, database
<1>10. CallsOK'
  <2>1. CallOK(call'[c], made', born', agentRow', asked')
    BY <1>3, IdleOK
  <2>2. QED  BY <1>3, <1>4, <2>1, CallsStay DEF IInv, Moves
<1>11. TeardownsOK'
  BY <1>4, TeardownStays, CleanerStays DEF Cache, IInv, TeardownsOK, database
<1>12. QED  BY <1>6, <1>7, <1>8, <1>9, <1>10, <1>11 DEF IInv

-----------------------------------------------------------------------------
(* The end of a session.                                                   *)

EnderRec == [pc: EnderPC, agent: Agents \cup {NoAgent}, session: Sessions \cup {NoSession}, version: Nat]

LEMMA EnderSession ==
  ASSUME IInv, ender.pc # "idle"
  PROVE  /\ ender.session \in 1 .. made /\ ender.session \in Sessions /\ ender.session # NoSession
         /\ ender.agent = born[ender.session][2] /\ ender.agent \in Agents
         /\ agentRow[ender.session] # "absent"
         /\ ender.pc # "expire" => agentRow[ender.session] = "ended"
<1>1. /\ ender.session \in 1 .. made /\ ender.agent = born[ender.session][2] /\ agentRow[ender.session] # "absent"
      /\ ender.pc # "expire" => agentRow[ender.session] = "ended"
  BY DEF IInv, TeardownsOK, EnderOK
<1>2. ender.session \in Sessions /\ ender.session # NoSession
  BY <1>1, MaxNat DEF IInv, TypeOK, Sessions, NoSession
<1>3. born[ender.session] \in Callers
  BY <1>1, <1>2, MaxNat DEF IInv, TypeOK, SessionsOK, RowOK, Sessions
<1>4. QED  BY <1>1, <1>2, <1>3, CallersAssumption

LEMMA EndStepFields ==
  ASSUME TypeOK, NEW pc, NEW next \in EnderPC, EndStep(pc, next)
  PROVE  /\ ender.pc = pc /\ ender'.pc = next /\ ender'.session = ender.session /\ ender'.agent = ender.agent
         /\ ender'.version = ender.version /\ ender' \in EnderRec
BY DEF EndStep, TypeOK, EnderRec

\* The teardown goes on: it is not about to clear the agent's row.
LEMMA EndGoesOn ==
  ASSUME IInv, Grows, ender.pc # "idle", ender'.session = ender.session, ender'.agent = ender.agent,
         ender'.pc # "clear", ender'.pc \notin {"idle", "expire"} => agentRow'[ender.session] = "ended"
  PROVE  EnderOK(ender', made', born', agentRow', pointer')
<1>1. /\ ender.session \in 1 .. made /\ ender.session \in Sessions /\ ender.agent = born[ender.session][2]
      /\ agentRow[ender.session] # "absent"
  BY EnderSession
<1>2. ender.session \in 1 .. made' /\ born'[ender.session] = born[ender.session] /\ agentRow'[ender.session] # "absent"
  BY <1>1 DEF Grows, Later
<1>3. QED  BY <1>1, <1>2 DEF EnderOK

LEMMA EndBeginKeeps == ASSUME IInv, NEW s \in Rows, EndBegin(s) PROVE IInv'
<1>1. s \in 1 .. made /\ s \in Sessions /\ agentRow[s] # "absent"
  BY MaxNat DEF EndBegin, Rows, IInv, TypeOK, Sessions
<1>2. born[s] \in Callers /\ born[s][2] \in Agents
  BY <1>1, MaxNat, CallersAssumption DEF IInv, TypeOK, SessionsOK, RowOK, Sessions
<1>3. Plain /\ Grows
  BY PlainSame DEF EndBegin, database
<1>4. ender' \in EnderRec
  BY <1>1, <1>2 DEF EndBegin, EnderRec, EnderPC
<1>5. raced' \subseteq Sessions /\ ends' \in Nat
  BY <1>1 DEF EndBegin, IInv, TypeOK
<1>6. TypeOK'
  BY <1>4, <1>5 DEF EndBegin, IInv, TypeOK, EnderRec, database, memory
<1>7. SessionsOK'
  BY <1>3, SessionsStay DEF EndBegin, IInv, database, memory
<1>8. ProjectsOK'
  BY <1>3, ProjectsStay DEF EndBegin, IInv, database, memory
<1>9. AgentsOK'
  BY <1>3, AgentsStay DEF EndBegin, IInv, database, memory
<1>10. CallsOK'
  BY <1>3, AllCallsStay DEF EndBegin, IInv
<1>11. EnderOK(ender', made', born', agentRow', pointer')
  BY <1>1 DEF EndBegin, EnderOK, database
<1>12. TeardownsOK'
  BY <1>3, <1>11, CleanerStays DEF EndBegin, IInv, TeardownsOK, memory
<1>13. QED  BY <1>6, <1>7, <1>8, <1>9, <1>10, <1>12 DEF IInv

LEMMA EndExpireKeeps == ASSUME IInv, EndExpire PROVE IInv'
<1>1. /\ ender.pc = "expire" /\ ender'.pc = "detach" /\ ender'.session = ender.session
      /\ ender'.agent = ender.agent /\ ender' \in EnderRec
  BY EndStepFields DEF EndExpire, IInv, EnderPC
<1>2. ender.session \in 1 .. made /\ ender.session \in Sessions /\ agentRow[ender.session] # "absent"
  BY <1>1, EnderSession
<1>3. Plain /\ Grows /\ agentRow' \in [Sessions -> {"absent", "live", "ended"}]
  BY <1>2, PlainAged DEF EndExpire, history
<1>4. agentRow'[ender.session] = "ended"
  BY <1>2 DEF EndExpire, Expired, IInv, TypeOK
<1>5. TypeOK'
  BY <1>1, <1>3 DEF EndExpire, IInv, TypeOK, EnderRec, memory, history, counters
<1>6. SessionsOK'
  BY <1>3, SessionsStay DEF EndExpire, IInv, memory, history
<1>7. ProjectsOK'
  BY <1>3, ProjectsStay DEF EndExpire, IInv, memory
<1>8. AgentsOK'
  BY <1>3, AgentsStay DEF EndExpire, IInv, memory
<1>9. CallsOK'
  BY <1>3, AllCallsStay DEF EndExpire, IInv
<1>10. EnderOK(ender', made', born', agentRow', pointer')
  BY <1>1, <1>3, <1>4, EndGoesOn
<1>11. TeardownsOK'
  BY <1>3, <1>10, CleanerStays DEF EndExpire, IInv, TeardownsOK, memory
<1>12. QED  BY <1>5, <1>6, <1>7, <1>8, <1>9, <1>11 DEF IInv

\* The row of an ended session loses its transport.
LEMMA DetachedOK ==
  ASSUME IInv, NEW s, s = NoSession \/ (s \in Sessions /\ agentRow[s] = "ended"), owner' = Detached(s),
         UNCHANGED <<made, agentRow, born, known, given>>
  PROVE  SessionsOK' /\ owner' \in [Sessions -> Transports]
<1>1. owner' \in [Sessions -> Transports] /\ \A r \in Sessions : r # s => owner'[r] = owner[r]
  BY DEF Detached, IInv, TypeOK, Transports
<1>2. s \in Sessions => owner'[s] = NoTransport
  BY DEF Detached, IInv, TypeOK
<1>3. NoSession \notin Sessions
  BY DEF NoSession, Sessions
<1>4. \A r \in Sessions : RowOK(r, made', born', owner', agentRow')
  BY <1>1, <1>2, <1>3 DEF IInv, SessionsOK, RowOK
<1>5. Unique(owner')
  BY <1>1, <1>2, <1>3 DEF IInv, SessionsOK, Unique
<1>6. QED  BY <1>1, <1>4, <1>5 DEF IInv, SessionsOK

LEMMA EndDetachKeeps == ASSUME IInv, EndDetach PROVE IInv'
<1>1. /\ ender.pc = "detach" /\ ender'.pc = "unbind" /\ ender'.session = ender.session
      /\ ender'.agent = ender.agent /\ ender' \in EnderRec
  BY EndStepFields DEF EndDetach, IInv, EnderPC
<1>2. ender.session \in Sessions /\ agentRow[ender.session] = "ended"
  BY <1>1, EnderSession
<1>3. Plain /\ Grows
  BY PlainSame DEF EndDetach, history
<1>4. SessionsOK' /\ owner' \in [Sessions -> Transports]
  BY <1>2, DetachedOK DEF EndDetach, memory, history
<1>5. TypeOK'
  BY <1>1, <1>4 DEF EndDetach, IInv, TypeOK, EnderRec, memory, history, counters
<1>6. ProjectsOK'
  BY <1>3, ProjectsStay DEF EndDetach, IInv, memory
<1>7. AgentsOK'
  BY <1>3, AgentsStay DEF EndDetach, IInv, memory
<1>8. CallsOK'
  BY <1>3, AllCallsStay DEF EndDetach, IInv
<1>9. EnderOK(ender', made', born', agentRow', pointer')
  BY <1>1, <1>2, <1>3, EndGoesOn DEF EndDetach
<1>10. TeardownsOK'
  BY <1>3, <1>9, CleanerStays DEF EndDetach, IInv, TeardownsOK, memory
<1>11. QED  BY <1>4, <1>5, <1>6, <1>7, <1>8, <1>10 DEF IInv

LEMMA EndUnbindKeeps == ASSUME IInv, EndUnbind PROVE IInv'
<1>1. /\ ender.pc = "unbind" /\ ender'.pc = "look" /\ ender'.session = ender.session
      /\ ender'.agent = ender.agent /\ ender' \in EnderRec
  BY EndStepFields DEF EndUnbind, IInv, EnderPC
<1>2. ender.session \in Sessions /\ agentRow[ender.session] = "ended"
  BY <1>1, EnderSession
<1>3. Plain /\ Grows
  BY PlainSame DEF EndUnbind, history
<1>4. bound' \in [Sessions -> Projects \cup {NoProject}]
  BY DEF EndUnbind, IInv, TypeOK
<1>5. TypeOK'
  BY <1>1, <1>4 DEF EndUnbind, IInv, TypeOK, EnderRec, memory, history, counters
<1>6. SessionsOK'
  BY <1>3, SessionsStay DEF EndUnbind, IInv, memory, history
<1>7. ProjectsOK'
  <2>1. \A r \in Sessions : bound'[r] \in {bound[r], NoProject}
    BY DEF EndUnbind, IInv, TypeOK
  <2>2. \A r \in Sessions : ProjectOK(r, bound'[r], made, born, asked)
    BY <2>1 DEF IInv, ProjectsOK, ProjectOK, AskedIn
  <2>3. QED  BY <2>2 DEF EndUnbind, IInv, ProjectsOK, memory, history
<1>8. AgentsOK'
  BY <1>3, AgentsStay DEF EndUnbind, IInv, memory
<1>9. CallsOK'
  BY <1>3, AllCallsStay DEF EndUnbind, IInv
<1>10. EnderOK(ender', made', born', agentRow', pointer')
  BY <1>1, <1>2, <1>3, EndGoesOn DEF EndUnbind
<1>11. TeardownsOK'
  BY <1>3, <1>10, CleanerStays DEF EndUnbind, IInv, TeardownsOK, memory
<1>12. QED  BY <1>5, <1>6, <1>7, <1>8, <1>9, <1>11 DEF IInv

LEMMA EndLookKeeps == ASSUME IInv, EndLook PROVE IInv'
<1> DEFINE row == pointer[ender.agent]
<1>1. ender.pc = "look"
  BY DEF EndLook
<1>2. /\ ender.session \in 1 .. made /\ ender.session \in Sessions /\ agentRow[ender.session] = "ended"
      /\ ender.agent = born[ender.session][2] /\ ender.agent \in Agents /\ row.version \in Nat
  BY <1>1, EnderSession DEF IInv, TypeOK
<1>3. Plain /\ Grows
  BY PlainSame DEF EndLook, database, history
<1>4. /\ ender' \in EnderRec /\ ender'.session = ender.session /\ ender'.agent = ender.agent
      /\ ender'.pc \in {"clear", "drop"}
      /\ ender'.pc = "clear" => ender'.version = row.version /\ row.session = ender.session
  <2>1. ender \in EnderRec
    BY DEF IInv, TypeOK, EnderRec
  <2>2. CASE row.session = ender.session /\ row.project # NoProject
    <3>1. ender' = [ender EXCEPT !.pc = "clear", !.version = row.version]
      BY <2>2 DEF EndLook
    <3>2. QED  BY <1>2, <2>1, <2>2, <3>1 DEF EnderRec, EnderPC
  <2>3. CASE ~(row.session = ender.session /\ row.project # NoProject)
    <3>1. ender' = [ender EXCEPT !.pc = "drop"]
      BY <2>3 DEF EndLook
    <3>2. QED  BY <2>1, <3>1 DEF EnderRec, EnderPC
  <2>4. QED  BY <2>2, <2>3
<1>5. TypeOK'
  BY <1>4 DEF EndLook, IInv, TypeOK, EnderRec, database, memory, history, counters
<1>6. SessionsOK'
  BY <1>3, SessionsStay DEF EndLook, IInv, database, memory, history
<1>7. ProjectsOK'
  BY <1>3, ProjectsStay DEF EndLook, IInv, database, memory
<1>8. AgentsOK'
  BY <1>3, AgentsStay DEF EndLook, IInv, database, memory
<1>9. CallsOK'
  BY <1>3, AllCallsStay DEF EndLook, IInv
<1>10. EnderOK(ender', made', born', agentRow', pointer')
  <2>1. UNCHANGED <<made, born, agentRow, pointer>>
    BY DEF EndLook, database, history
  <2>2. ender'.pc = "clear" => /\ ender'.version <= pointer[ender'.agent].version
                               /\ pointer[ender'.agent].version = ender'.version =>
                                    pointer[ender'.agent].session = ender'.session
    BY <1>2, <1>4
  <2>3. EnderOK(ender', made, born, agentRow, pointer)
    BY <1>2, <1>4, <2>2 DEF EnderOK
  <2>4. QED  BY <2>1, <2>3
<1>11. TeardownsOK'
  BY <1>3, <1>10, CleanerStays DEF EndLook, IInv, TeardownsOK, memory
<1>12. QED  BY <1>5, <1>6, <1>7, <1>8, <1>9, <1>11 DEF IInv

LEMMA EndClearKeeps == ASSUME IInv, EndClear PROVE IInv'
<1>1. /\ ender.pc = "clear" /\ ender'.pc = "drop" /\ ender'.session = ender.session
      /\ ender'.agent = ender.agent /\ ender' \in EnderRec
  BY EndStepFields DEF EndClear, IInv, EnderPC
<1>2. /\ ender.session \in 1 .. made /\ ender.session \in Sessions /\ agentRow[ender.session] = "ended"
      /\ born[ender.session][2] = ender.agent /\ ender.agent \in Agents
  BY <1>1, EnderSession
<1>3. Plain /\ Grows
  BY PlainSame DEF EndClear, history
<1>4. /\ pointer' \in [Agents -> [project: Projects \cup {NoProject}, version: Nat,
                                  session: Sessions \cup {NoSession}]]
      /\ \A b \in Agents : PointerOK(b, pointer'[b], made, born, asked)
  <2>1. CASE pointer' = Pointed(ender.agent, NoProject, ender.session)
    BY <1>2, <2>1, PointedOK
  <2>2. CASE pointer' = pointer
    BY <2>2 DEF IInv, TypeOK, AgentsOK
  <2>3. QED  BY <2>1, <2>2 DEF EndClear
<1>5. TypeOK'
  BY <1>1, <1>4 DEF EndClear, IInv, TypeOK, EnderRec, memory, history, counters
<1>6. SessionsOK'
  BY <1>3, SessionsStay DEF EndClear, IInv, memory, history
<1>7. ProjectsOK'
  BY <1>3, ProjectsStay DEF EndClear, IInv, memory
<1>8. AgentsOK'
  BY <1>4 DEF EndClear, IInv, AgentsOK, memory, history
<1>9. CallsOK'
  BY <1>3, AllCallsStay DEF EndClear, IInv
<1>10. EnderOK(ender', made', born', agentRow', pointer')
  BY <1>1, <1>2, <1>3, EndGoesOn DEF EndClear
<1>11. TeardownsOK'
  BY <1>3, <1>10, CleanerStays DEF EndClear, IInv, TeardownsOK, memory
<1>12. QED  BY <1>5, <1>6, <1>7, <1>8, <1>9, <1>11 DEF IInv

\* Leases that are dropped, and leases whose freshness changes.
LEMMA LeasesOK ==
  ASSUME IInv, UNCHANGED <<made, born, agentRow, pointer, asked>>,
         \A a \in Agents : lease'[a].session \in {lease[a].session, NoSession}
  PROVE  AgentsOK'
<1>1. \A a \in Agents : LeaseOK(a, lease'[a].session, made, born, agentRow)
  BY DEF IInv, AgentsOK, LeaseOK
<1>2. QED  BY <1>1 DEF IInv, AgentsOK

LEMMA LeaseTyped ==
  ASSUME TypeOK, NEW a, lease' = [lease EXCEPT ![a] = NoLease]
  PROVE  /\ lease' \in [Agents -> [session: Sessions \cup {NoSession}, fresh: BOOLEAN]]
         /\ \A b \in Agents : lease'[b].session \in {lease[b].session, NoSession}
         /\ \A b \in Agents : b # a => lease'[b] = lease[b]
<1>1. NoLease \in [session: Sessions \cup {NoSession}, fresh: BOOLEAN] /\ NoLease.session = NoSession
  BY DEF NoLease
<1>2. lease \in [Agents -> [session: Sessions \cup {NoSession}, fresh: BOOLEAN]]
  BY DEF TypeOK
<1>3. lease' \in [Agents -> [session: Sessions \cup {NoSession}, fresh: BOOLEAN]]
  BY <1>1, <1>2
<1>4. \A b \in Agents : lease'[b] = lease[b] \/ lease'[b] = NoLease
  BY <1>2
<1>5. QED  BY <1>1, <1>2, <1>3, <1>4

LEMMA EndDropKeeps == ASSUME IInv, EndDrop PROVE IInv'
<1>1. /\ ender.pc = "drop" /\ ender'.pc = "purge" /\ ender'.session = ender.session
      /\ ender'.agent = ender.agent /\ ender' \in EnderRec /\ cleaner.pc = "idle"
  BY EndStepFields DEF EndDrop, IInv, EnderPC, LeaseFree
<1>2. ender.session \in Sessions /\ agentRow[ender.session] = "ended"
  BY <1>1, EnderSession
<1>3. Plain /\ Grows
  BY PlainSame DEF EndDrop, database, history
<1>4. /\ lease' \in [Agents -> [session: Sessions \cup {NoSession}, fresh: BOOLEAN]]
      /\ \A b \in Agents : lease'[b].session \in {lease[b].session, NoSession}
  <2>1. CASE lease' = [lease EXCEPT ![ender.agent] = NoLease]
    BY <2>1, LeaseTyped DEF IInv
  <2>2. CASE lease' = lease
    BY <2>2 DEF IInv, TypeOK
  <2>3. QED  BY <2>1, <2>2 DEF EndDrop
<1>5. TypeOK'
  BY <1>1, <1>4 DEF EndDrop, IInv, TypeOK, EnderRec, database, history, counters
<1>6. SessionsOK'
  BY <1>3, SessionsStay DEF EndDrop, IInv, database, history
<1>7. ProjectsOK'
  BY <1>3, ProjectsStay DEF EndDrop, IInv, database
<1>8. AgentsOK'
  BY <1>4, LeasesOK DEF EndDrop, database, history
<1>9. CallsOK'
  BY <1>3, AllCallsStay DEF EndDrop, IInv
<1>10. EnderOK(ender', made', born', agentRow', pointer')
  BY <1>1, <1>2, <1>3, EndGoesOn DEF EndDrop, database
<1>11. TeardownsOK'
  BY <1>1, <1>3, <1>10, CleanerStays DEF EndDrop, IInv, TeardownsOK
<1>12. QED  BY <1>5, <1>6, <1>7, <1>8, <1>9, <1>11 DEF IInv

LEMMA EndPurgeKeeps == ASSUME IInv, EndPurge PROVE IInv'
<1>1. ender.pc = "purge" /\ ender' = IdleEnder
  BY DEF EndPurge
<1>2. ender.session \in Sessions
  BY <1>1, EnderSession
<1>3. Plain /\ Grows
  BY PlainSame DEF EndPurge, database
<1>4. /\ known' \in [Transports -> Sessions \cup {NoSession}]
      /\ \A t \in Transports : known'[t] \in {known[t], NoSession}
  BY DEF EndPurge, Forgotten, IInv, TypeOK
<1>5. /\ cachedProject' \in [Sessions -> Projects \cup {NoProject}]
      /\ \A r \in Sessions : cachedProject'[r] \in {cachedProject[r], NoProject}
  BY DEF EndPurge, IInv, TypeOK
<1>6. ender' \in EnderRec /\ torn' \subseteq Sessions
  BY <1>1, <1>2 DEF EndPurge, IdleEnder, EnderRec, EnderPC, IInv, TypeOK
<1>7. TypeOK'
  BY <1>4, <1>5, <1>6 DEF EndPurge, IInv, TypeOK, EnderRec, database, counters
<1>8. SessionsOK'
  <2>1. \A t \in Transports : KnownOK(t, known'[t], made, born, agentRow)
    BY <1>4 DEF IInv, SessionsOK, KnownOK
  <2>2. QED  BY <2>1 DEF EndPurge, IInv, SessionsOK, database
<1>9. ProjectsOK'
  <2>1. \A r \in Sessions : ProjectOK(r, cachedProject'[r], made, born, asked)
    BY <1>5 DEF IInv, ProjectsOK, ProjectOK, AskedIn
  <2>2. QED  BY <2>1 DEF EndPurge, IInv, ProjectsOK, database
<1>10. AgentsOK'
  BY <1>3, AgentsStay DEF EndPurge, IInv, database
<1>11. CallsOK'
  BY <1>3, AllCallsStay DEF EndPurge, IInv
<1>12. TeardownsOK'
  <2>1. EnderOK(ender', made', born', agentRow', pointer')
    BY <1>1 DEF IdleEnder, EnderOK
  <2>2. QED  BY <1>3, <2>1, CleanerStays DEF EndPurge, IInv, TeardownsOK
<1>13. QED  BY <1>7, <1>8, <1>9, <1>10, <1>11, <1>12 DEF IInv

\* A fault counts.
LEMMA FaultCounts ==
  ASSUME IInv, Fault
  PROVE  begun' \in Nat /\ ends' \in Nat /\ faults' \in Nat /\ restarts' \in Nat
  BY DEF Fault, IInv, TypeOK

\* A teardown that is given up, and one that goes on after a statement that failed.
LEMMA EndAbortsKeeps == ASSUME IInv, EndAborts PROVE IInv'
<1>1. ender' = IdleEnder /\ Plain /\ Grows
  BY PlainSame DEF EndAborts, database, history
<1>2. TypeOK'
  BY <1>1, FaultCounts DEF EndAborts, IdleEnder, EnderPC, IInv, TypeOK, database, memory, history
<1>3. SessionsOK' /\ ProjectsOK'
  BY <1>1, SessionsStay, ProjectsStay DEF EndAborts, IInv, database, memory, history
<1>4. AgentsOK' /\ CallsOK'
  BY <1>1, AgentsStay, AllCallsStay DEF EndAborts, IInv, database, memory
<1>5. TeardownsOK'
  <2>1. EnderOK(ender', made', born', agentRow', pointer')
    BY <1>1 DEF IdleEnder, EnderOK
  <2>2. QED  BY <1>1, <2>1, CleanerStays DEF EndAborts, IInv, TeardownsOK, memory
<1>6. QED  BY <1>2, <1>3, <1>4, <1>5 DEF IInv

LEMMA EndSwallowsKeeps == ASSUME IInv, EndUnbindFails \/ EndRowFails PROVE IInv'
<1>1. /\ ender.pc \in {"unbind", "look", "clear"} /\ ender'.pc \in {"look", "drop"}
      /\ ender'.session = ender.session /\ ender'.agent = ender.agent /\ ender' \in EnderRec
  BY DEF EndUnbindFails, EndRowFails, Swallow, IInv, TypeOK, EnderRec, EnderPC
<1>2. ender.session \in Sessions /\ agentRow[ender.session] = "ended"
  BY <1>1, EnderSession
<1>3. /\ Plain /\ Grows
      /\ UNCHANGED <<database, memory, call, cleaner, born, asked, given, torn, raced>> /\ Fault
  BY PlainSame DEF EndUnbindFails, EndRowFails, Swallow, database
<1>4. kept' \subseteq Kept
  BY <1>2 DEF EndUnbindFails, EndRowFails, Swallow, Kept, IInv, TypeOK
<1>5. TypeOK'
  BY <1>1, <1>3, <1>4, FaultCounts DEF IInv, TypeOK, EnderRec, database, memory
<1>6. SessionsOK' /\ ProjectsOK'
  BY <1>3, SessionsStay, ProjectsStay DEF IInv, database, memory
<1>7. AgentsOK' /\ CallsOK'
  BY <1>3, AgentsStay, AllCallsStay DEF IInv, database, memory
<1>8. EnderOK(ender', made', born', agentRow', pointer')
  BY <1>1, <1>2, <1>3, EndGoesOn DEF database
<1>9. TeardownsOK'
  BY <1>3, <1>8, CleanerStays DEF IInv, TeardownsOK, memory
<1>10. QED  BY <1>5, <1>6, <1>7, <1>9 DEF IInv

-----------------------------------------------------------------------------
(* The cleanup, the passing of time and a restart.                         *)

CleanerRec == [pc: {"idle", "expire", "detach"}, todo: SUBSET Agents, at: Agents \cup {NoAgent}]

LEMMA CleanBeginKeeps == ASSUME IInv, CleanBegin PROVE IInv'
<1>1. cleaner' = [pc |-> "expire", todo |-> Stale, at |-> NoAgent] /\ Stale \in SUBSET Agents
  BY DEF CleanBegin, Stale
<1>2. cleaner' \in CleanerRec /\ CleanerOK(cleaner', lease', agentRow')
  BY <1>1 DEF CleanerRec, CleanerOK
<1>3. Plain /\ Grows
  BY PlainSame DEF CleanBegin, database, history
<1>4. TypeOK'
  BY <1>2 DEF CleanBegin, IInv, TypeOK, CleanerRec, database, memory, history, counters
<1>5. SessionsOK' /\ ProjectsOK'
  BY <1>3, SessionsStay, ProjectsStay DEF CleanBegin, IInv, database, memory, history
<1>6. AgentsOK' /\ CallsOK'
  BY <1>3, AgentsStay, AllCallsStay DEF CleanBegin, IInv, database, memory
<1>7. TeardownsOK'
  BY <1>2, <1>3, TeardownStays DEF CleanBegin, IInv, TeardownsOK, database
<1>8. QED  BY <1>4, <1>5, <1>6, <1>7 DEF IInv

LEMMA CleanExpireKeeps == ASSUME IInv, NEW a \in Agents, CleanExpire(a) PROVE IInv'
<1> DEFINE s == lease[a].session
<1>1. cleaner' = [cleaner EXCEPT !.pc = "detach", !.at = a] /\ agentRow' = Expired(s)
  BY DEF CleanExpire
<1>2. cleaner' \in CleanerRec /\ cleaner'.pc = "detach" /\ cleaner'.at = a
  BY <1>1 DEF IInv, TypeOK, CleanerRec
<1>3. /\ Plain /\ Grows /\ agentRow' \in [Sessions -> {"absent", "live", "ended"}]
      /\ s # NoSession => agentRow'[s] = "ended"
  <2>1. CASE s = NoSession
    <3>1. NoSession \notin Sessions
      BY DEF NoSession, Sessions
    <3>2. agentRow' = agentRow
      BY <1>1, <2>1, <3>1 DEF Expired, IInv, TypeOK
    <3>3. QED  BY <2>1, <3>2, PlainSame DEF CleanExpire, history, IInv, TypeOK
  <2>2. CASE s # NoSession
    <3>1. s \in 1 .. made /\ agentRow[s] # "absent" /\ s \in Sessions
      BY <2>2, MaxNat DEF IInv, TypeOK, AgentsOK, LeaseOK, Sessions
    <3>2. Plain /\ Grows /\ agentRow' \in [Sessions -> {"absent", "live", "ended"}]
      BY <1>1, <3>1, PlainAged DEF CleanExpire, history
    <3>3. agentRow'[s] = "ended"
      BY <1>1, <3>1 DEF Expired, IInv, TypeOK
    <3>4. QED  BY <3>2, <3>3
  <2>3. QED  BY <2>1, <2>2
<1>4. TypeOK'
  BY <1>2, <1>3 DEF CleanExpire, IInv, TypeOK, CleanerRec, memory, history, counters
<1>5. SessionsOK' /\ ProjectsOK'
  BY <1>3, SessionsStay, ProjectsStay DEF CleanExpire, IInv, memory, history
<1>6. AgentsOK' /\ CallsOK'
  BY <1>3, AgentsStay, AllCallsStay DEF CleanExpire, IInv, memory
<1>7. CleanerOK(cleaner', lease', agentRow')
  BY <1>2, <1>3 DEF CleanExpire, CleanerOK, memory
<1>8. TeardownsOK'
  BY <1>3, <1>7, TeardownStays DEF CleanExpire, IInv, TeardownsOK
<1>9. QED  BY <1>4, <1>5, <1>6, <1>8 DEF IInv

LEMMA CleanDetachKeeps == ASSUME IInv, CleanDetach PROVE IInv'
<1> DEFINE a == cleaner.at
           s == lease[a].session
<1>1. cleaner.pc = "detach" /\ a \in Agents /\ owner' = Detached(s) /\ lease' = [lease EXCEPT ![a] = NoLease]
  BY DEF CleanDetach, IInv, TeardownsOK, CleanerOK
<1>2. s = NoSession \/ (s \in Sessions /\ agentRow[s] = "ended")
  BY <1>1 DEF IInv, TypeOK, TeardownsOK, CleanerOK
<1>3. cleaner' \in CleanerRec /\ CleanerOK(cleaner', lease', agentRow')
  <2>1. cleaner' = IdleCleaner \/ cleaner' = [pc |-> "expire", todo |-> cleaner.todo \ {a}, at |-> NoAgent]
    BY DEF CleanDetach
  <2>2. cleaner.todo \ {a} \in SUBSET Agents
    BY DEF IInv, TypeOK
  <2>3. QED  BY <2>1, <2>2 DEF IdleCleaner, CleanerRec, CleanerOK
<1>4. Plain /\ Grows
  BY PlainSame DEF CleanDetach, history
<1>5. /\ lease' \in [Agents -> [session: Sessions \cup {NoSession}, fresh: BOOLEAN]]
      /\ \A b \in Agents : lease'[b].session \in {lease[b].session, NoSession}
  BY <1>1, LeaseTyped DEF IInv
<1>6. SessionsOK' /\ owner' \in [Sessions -> Transports]
  <2>1. owner' = Detached(s)
    BY <1>1
  <2> HIDE DEF s
  <2>2. QED  BY <1>2, <2>1, DetachedOK DEF CleanDetach, history
<1>7. TypeOK'
  BY <1>3, <1>5, <1>6 DEF CleanDetach, IInv, TypeOK, CleanerRec, history, counters
<1>8. ProjectsOK'
  BY <1>4, ProjectsStay DEF CleanDetach, IInv
<1>9. AgentsOK'
  BY <1>5, LeasesOK DEF CleanDetach, history
<1>10. CallsOK'
  BY <1>4, AllCallsStay DEF CleanDetach, IInv
<1>11. TeardownsOK'
  BY <1>3, <1>4, TeardownStays DEF CleanDetach, IInv, TeardownsOK
<1>12. QED  BY <1>6, <1>7, <1>8, <1>9, <1>10, <1>11 DEF IInv

\* The freshness of a lease changes.
LEMMA FreshKeeps ==
  ASSUME IInv, NEW a \in Agents, NEW f \in BOOLEAN, lease' = [lease EXCEPT ![a].fresh = f],
         UNCHANGED <<database, known, cachedProject, stateProject, call, ender, cleaner, history,
                     begun, ends, restarts>>,
         faults' \in Nat
  PROVE  IInv'
<1>1. lease \in [Agents -> [session: Sessions \cup {NoSession}, fresh: BOOLEAN]]
  BY DEF IInv, TypeOK
<1>2. lease' \in [Agents -> [session: Sessions \cup {NoSession}, fresh: BOOLEAN]]
  BY <1>1
<1>3. \A b \in Agents : lease'[b].session = lease[b].session
  BY <1>1
<1>4. Plain /\ Grows
  BY PlainSame DEF database, history
<1>5. TypeOK'
  BY <1>2 DEF IInv, TypeOK, database, history
<1>6. SessionsOK' /\ ProjectsOK'
  BY <1>4, SessionsStay, ProjectsStay DEF IInv, database, history
<1>7. AgentsOK' /\ CallsOK'
  BY <1>3, <1>4, AgentsStay, AllCallsStay DEF IInv, database
<1>8. TeardownsOK'
  BY <1>3, <1>4, TeardownStays, CleanerStays DEF IInv, TeardownsOK, database
<1>9. QED  BY <1>5, <1>6, <1>7, <1>8 DEF IInv

LEMMA TimeKeeps == ASSUME IInv, NEW a \in Agents, LeaseExpires(a) \/ Heartbeat(a) PROVE IInv'
<1>1. CASE LeaseExpires(a)
  <2>1. faults' \in Nat
    BY <1>1, FaultCounts DEF LeaseExpires
  <2>2. QED  BY <1>1, <2>1, FreshKeeps DEF LeaseExpires, Fault
<1>2. CASE Heartbeat(a)
  BY <1>2, FreshKeeps DEF Heartbeat, IInv, TypeOK, counters
<1>3. QED  BY <1>1, <1>2

LEMMA RestartKeeps == ASSUME IInv, Restart PROVE IInv'
<1>1. Plain /\ Grows
  BY PlainSame DEF Restart, database, history
<1>2. IdleCall \in CallRec /\ NoLease \in [session: Sessions \cup {NoSession}, fresh: BOOLEAN]
  BY DEF IdleCall, CallRec, CallPC, NoSession, NoLease
<1>3. IdleEnder \in EnderRec /\ IdleCleaner \in CleanerRec
  BY DEF IdleEnder, EnderRec, EnderPC, IdleCleaner, CleanerRec
<1>4. TypeOK'
  BY <1>2, <1>3 DEF Restart, IInv, TypeOK, CallRec, EnderRec, CleanerRec, database, history
<1>5. SessionsOK'
  <2>1. \A t \in Transports : KnownOK(t, known'[t], made, born, agentRow)
    BY DEF Restart, KnownOK
  <2>2. QED  BY <2>1 DEF Restart, IInv, SessionsOK, database, history
<1>6. ProjectsOK'
  <2>1. \A s \in Sessions : /\ ProjectOK(s, cachedProject'[s], made, born, asked)
                            /\ ProjectOK(s, stateProject'[s], made, born, asked)
    BY DEF Restart, ProjectOK, AskedIn
  <2>2. QED  BY <2>1 DEF Restart, IInv, ProjectsOK, database, history
<1>7. AgentsOK'
  BY LeasesOK DEF Restart, NoLease, database, history
<1>8. CallsOK'
  BY IdleOK DEF Restart, CallsOK
<1>9. TeardownsOK'
  BY DEF Restart, TeardownsOK, EnderOK, CleanerOK, IdleEnder, IdleCleaner
<1>10. QED  BY <1>4, <1>5, <1>6, <1>7, <1>8, <1>9 DEF IInv

LEMMA StutterKeeps == ASSUME IInv, UNCHANGED vars PROVE IInv'
<1>1. Plain /\ Grows
  BY PlainSame DEF vars, database, history
<1>2. TypeOK'
  BY DEF IInv, TypeOK, vars, database, memory, history, counters
<1>3. SessionsOK' /\ ProjectsOK'
  BY <1>1, SessionsStay, ProjectsStay DEF IInv, vars, database, memory, history
<1>4. AgentsOK' /\ CallsOK'
  BY <1>1, AgentsStay, AllCallsStay DEF IInv, vars, database, memory
<1>5. TeardownsOK'
  BY <1>1, TeardownStays, CleanerStays DEF IInv, TeardownsOK, vars, database, memory
<1>6. QED  BY <1>2, <1>3, <1>4, <1>5 DEF IInv

LEMMA CallKeeps == ASSUME IInv, NEW c \in Calls, CallStep(c) PROVE IInv'
<1>1. CASE \E k \in Callers : \E p \in Projects \cup {NoProject}, e \in {0, pointer[k[2]].version} :
             Begin(c, k, p, e)
  BY <1>1, BeginKeeps
<1>2. CASE LookUp(c) \/ Route(c) \/ Create(c) \/ Collide(c) \/ Binding(c) \/ Attach(c)
  BY <1>2, LookUpKeeps, RouteKeeps, CreateKeeps, CollideKeeps, BindingKeeps, AttachKeeps
<1>3. CASE Activity(c) \/ Persist(c) \/ Run(c) \/ Finish(c)
  BY <1>3, ActivityKeeps, PersistKeeps, RunKeeps, FinishKeeps
<1>4. CASE Reuse(c) \/ Start(c) \/ Lease(c) \/ Validate(c) \/ Point(c) \/ Bind(c) \/ Cache(c)
  BY <1>4, ReuseKeeps, StartKeeps, LeaseKeeps, ValidateKeeps, PointKeeps, BindKeeps, CacheKeeps
<1>5. QED  BY <1>1, <1>2, <1>3, <1>4 DEF CallStep

LEMMA EndKeeps == ASSUME IInv, EndSession PROVE IInv'
BY EndBeginKeeps, EndExpireKeeps, EndDetachKeeps, EndUnbindKeeps, EndLookKeeps, EndClearKeeps,
   EndDropKeeps, EndPurgeKeeps, EndAbortsKeeps, EndSwallowsKeeps DEF EndSession

LEMMA NextKeeps == ASSUME IInv, [Next]_vars PROVE IInv'
<1>1. CASE \E c \in Calls : CallStep(c)
  BY <1>1, CallKeeps
<1>2. CASE EndSession
  BY <1>2, EndKeeps
<1>3. CASE Cleanup
  BY <1>3, CleanBeginKeeps, CleanExpireKeeps, CleanDetachKeeps DEF Cleanup
<1>4. CASE Environment
  BY <1>4, TimeKeeps, RestartKeeps DEF Environment
<1>5. CASE UNCHANGED vars
  BY <1>5, StutterKeeps
<1>6. QED  BY <1>1, <1>2, <1>3, <1>4, <1>5 DEF Next

\* The inductive invariant.
THEOREM Invariant == Spec => []IInv
BY InitInvariant, NextKeeps, PTL DEF Spec

\* Every reachable state has the types of TypeOK.
THEOREM TypeCorrect == Spec => []TypeOK
<1>1. IInv => TypeOK
  BY DEF IInv
<1>2. QED  BY <1>1, Invariant, PTL

\* No caller works on a project it did not choose, for any number of callers, sessions,
\* agents and projects (tool_runtime.py:334-351).
THEOREM CallersChoose == Spec => []AskedOnly
<1>1. IInv => AskedOnly
  <2>1. SUFFICES ASSUME IInv PROVE AskedOnly
    OBVIOUS
  <2>2. \A s \in Sessions : /\ AskedBy(born[s], bound[s])
                            /\ AskedBy(born[s], cachedProject[s])
                            /\ AskedBy(born[s], stateProject[s])
    BY <2>1, ProjectsAsked DEF AskedIn, AskedBy
  <2>3. \A c \in Calls : AskedBy(call[c].caller, call[c].using)
    BY <2>1 DEF IInv, CallsOK, CallOK, AskedIn, AskedBy
  <2>4. \A a \in Agents : pointer[a].project # NoProject =>
                            \E k \in Callers : k[2] = a /\ <<k, pointer[a].project>> \in asked
    BY <2>1 DEF IInv, AgentsOK, PointerOK
  <2>5. QED  BY <2>2, <2>3, <2>4 DEF AskedOnly
<1>2. QED  BY <1>1, Invariant, PTL

-----------------------------------------------------------------------------
(* A caller keeps its session.                                             *)

KeepsGiven == \A k \in Callers : given[k] # NoSession /\ given'[k] # given[k]
                                   => agentRow[given[k]] = "ended"

\* A call that gets the session of its caller's transport gets the one given before.
LEMMA ResolveKeepsGiven ==
  ASSUME IInv, NEW c \in Calls, call[c].pc \in Waiting, NEW s, Resolve(c, s),
         KnownOK(TransportOf(c), s, made, born, agentRow), s # NoSession
  PROVE  KeepsGiven
<1>1. SUFFICES ASSUME NEW k \in Callers, given[k] # NoSession, given'[k] # given[k]
               PROVE  agentRow[given[k]] = "ended"
  BY DEF KeepsGiven
<1>2. k = call[c].caller /\ given'[k] = s /\ TransportOf(c) = k
  BY <1>1, WaitingCall DEF Resolve, IInv, TypeOK
<1>3. given[k] \in 1 .. made /\ born[given[k]] = k
  BY <1>1 DEF IInv, SessionsOK, GivenOK
<1>4. QED  BY <1>1, <1>2, <1>3 DEF KnownOK

LEMMA CreateKeepsGiven ==
  ASSUME IInv, NEW c \in Calls, Create(c), ~InUse(TransportOf(c), Fresh), Resolve(c, Fresh)
  PROVE  KeepsGiven
<1>1. SUFFICES ASSUME NEW k \in Callers, given[k] # NoSession, given'[k] # given[k]
               PROVE  agentRow[given[k]] = "ended"
  BY DEF KeepsGiven
<1>2. call[c].pc \in Waiting
  BY DEF Create, Waiting
<1>3. k = call[c].caller /\ TransportOf(c) = k
  BY <1>1, <1>2, WaitingCall DEF Resolve, IInv, TypeOK
<1>4. given[k] \in 1 .. made /\ born[given[k]] = k /\ made \in Nat /\ given[k] \in Sessions
  BY <1>1, MaxNat DEF IInv, TypeOK, SessionsOK, GivenOK, Sessions
<1>5. given[k] # Fresh
  BY <1>4 DEF Fresh
<1>6. owner[given[k]] # k
  BY <1>3, <1>4, <1>5 DEF InUse, Rows
<1>7. QED  BY <1>4, <1>6 DEF IInv, SessionsOK, RowOK

LEMMA NextKeepsGiven == ASSUME IInv, [Next]_vars PROVE KeepsGiven
<1>1. CASE given' = given
  BY <1>1 DEF KeepsGiven
<1>2. CASE \E c \in Calls : LookUp(c) \/ Route(c) \/ Collide(c)
  <2>1. PICK c \in Calls : LookUp(c) \/ Route(c) \/ Collide(c)
    BY <1>2
  <2>2. call[c].pc \in Waiting
    BY <2>1 DEF LookUp, Route, Collide, Waiting
  <2>3. CASE given' # given
    <3>1. \/ \E s \in Found(TransportOf(c)) : Resolve(c, s)
          \/ known[TransportOf(c)] # NoSession /\ Resolve(c, known[TransportOf(c)])
      BY <2>1, <2>3 DEF LookUp, Route, Collide, Refuse, history
    <3>2. \A s \in Found(TransportOf(c)) : KnownOK(TransportOf(c), s, made, born, agentRow) /\ s # NoSession
      BY <2>2, FoundFacts, WaitingCall DEF Sessions, NoSession
    <3>3. KnownOK(TransportOf(c), known[TransportOf(c)], made, born, agentRow)
      BY <2>2, WaitingCall DEF IInv, SessionsOK
    <3>4. QED  BY <2>2, <3>1, <3>2, <3>3, ResolveKeepsGiven
  <2>4. QED  BY <1>1, <2>3
<1>3. CASE \E c \in Calls : Create(c)
  <2>1. PICK c \in Calls : Create(c)
    BY <1>3
  <2>2. \/ ~InUse(TransportOf(c), Fresh) /\ Resolve(c, Fresh)
        \/ given' = given
    BY <2>1 DEF Create, history
  <2>3. QED  BY <1>1, <2>1, <2>2, CreateKeepsGiven
<1>4. ASSUME NEW c \in Calls, CallStep(c) PROVE KeepsGiven
  <2>1. CASE LookUp(c) \/ Route(c) \/ Collide(c) \/ Create(c)
    BY <1>2, <1>3, <2>1
  <2>2. CASE \/ \E k \in Callers : \E p \in Projects \cup {NoProject}, e \in {0, pointer[k[2]].version} :
                  Begin(c, k, p, e)
             \/ Binding(c) \/ Attach(c) \/ Activity(c) \/ Persist(c) \/ Run(c) \/ Finish(c)
             \/ Reuse(c) \/ Start(c) \/ Lease(c) \/ Validate(c) \/ Point(c) \/ Bind(c) \/ Cache(c)
    <3>1. given' = given
      BY <2>2 DEF Begin, Binding, Attach, Refuse, Activity, Persist, Run, Finish, Reuse, Start, Lease,
                  Validate, Point, Bind, Cache, history
    <3>2. QED  BY <1>1, <3>1
  <2>3. QED  BY <1>4, <2>1, <2>2 DEF CallStep
<1>5. CASE EndSession \/ Cleanup \/ Environment \/ UNCHANGED vars
  <2>1. given' = given
    BY <1>5 DEF EndSession, EndBegin, EndExpire, EndDetach, EndUnbind, EndLook, EndClear, EndDrop,
                EndPurge, EndAborts, EndUnbindFails, EndRowFails, Swallow, Cleanup, CleanBegin, CleanExpire, CleanDetach, Environment, LeaseExpires,
                Heartbeat, Restart, vars, history
  <2>2. QED  BY <1>1, <2>1
<1>6. QED  BY <1>4, <1>5 DEF Next

\* A caller is given another session only when the one it had was ended, whatever
\* restarts and concurrent calls there are (execution_context.py:613-667).
THEOREM SessionsKept == Spec => KeepsSession
<1>1. IInv /\ [Next]_vars => [KeepsGiven]_vars
  BY NextKeepsGiven
<1>2. QED  BY <1>1, Invariant, PTL DEF Spec, KeepsSession, KeepsGiven

-----------------------------------------------------------------------------
(* A teardown spares the projects of other sessions.                       *)

Spares == \A a \in Agents : ender.pc = "clear" /\ pointer'[a] # pointer[a]
                              => \/ pointer'[a].project # NoProject
                                 \/ pointer[a].session = ender.session
                                 \/ \E c \in Calls : call[c].pc = "persist"

LEMMA NextSpares == ASSUME IInv, [Next]_vars PROVE Spares
<1>1. CASE pointer' = pointer
  BY <1>1 DEF Spares
<1>2. CASE EndClear
  <2>1. ender.pc = "clear"
    BY <1>2 DEF EndClear, EndStep
  <2>2. SameRow => pointer[ender.agent].session = ender.session
    BY <2>1 DEF SameRow, IInv, TeardownsOK, EnderOK
  <2>3. \A a \in Agents : pointer'[a] # pointer[a] => SameRow /\ a = ender.agent
    BY <1>2 DEF EndClear, Pointed, IInv, TypeOK
  <2>4. QED  BY <2>2, <2>3 DEF Spares
<1>3. CASE \E c \in Calls : Persist(c)
  BY <1>3 DEF Persist, Spares
<1>4. CASE \E c \in Calls : Point(c)
  <2>1. PICK c \in Calls : Point(c)
    BY <1>4
  <2>2. call[c].pc = "point" /\ call[c].pc \in Resolved
    BY <2>1 DEF Point, Resolved
  <2>3. call[c].project # NoProject
    BY <2>2, HasSession DEF CallOK, Setting, Leasing
  <2>4. \A a \in Agents : pointer'[a] # pointer[a] => pointer'[a].project = call[c].project
    BY <2>1 DEF Point, Pointed, IInv, TypeOK
  <2>5. QED  BY <2>3, <2>4 DEF Spares
<1>5. ASSUME NEW c \in Calls, CallStep(c) PROVE Spares
  <2>1. CASE Persist(c) \/ Point(c)
    BY <1>3, <1>4, <2>1
  <2>2. CASE \/ \E k \in Callers : \E p \in Projects \cup {NoProject}, e \in {0, pointer[k[2]].version} :
                  Begin(c, k, p, e)
             \/ LookUp(c) \/ Route(c) \/ Create(c) \/ Collide(c) \/ Binding(c) \/ Attach(c)
             \/ Activity(c) \/ Run(c) \/ Finish(c) \/ Reuse(c) \/ Start(c) \/ Lease(c) \/ Validate(c)
             \/ Bind(c) \/ Cache(c)
    <3>1. pointer' = pointer
      BY <2>2 DEF Begin, LookUp, Route, Create, Collide, Binding, Attach, Activity, Run, Finish,
                  Reuse, Start, Lease, Validate, Bind, Cache, database
    <3>2. QED  BY <1>1, <3>1
  <2>3. QED  BY <1>5, <2>1, <2>2 DEF CallStep
<1>6. CASE EndSession \/ Cleanup \/ Environment \/ UNCHANGED vars
  <2>1. pointer' = pointer \/ EndClear
    BY <1>6 DEF EndSession, EndBegin, EndExpire, EndDetach, EndUnbind, EndLook, EndDrop,
                EndPurge, EndAborts, EndUnbindFails, EndRowFails, Swallow, Cleanup, CleanBegin, CleanExpire, CleanDetach, Environment, LeaseExpires,
                Heartbeat, Restart, vars, database
  <2>2. QED  BY <1>1, <1>2, <2>1
<1>7. QED  BY <1>5, <1>6 DEF Next

\* A teardown that finds the agent's row as it read it clears a row this session wrote:
\* the version tells (agent_manager.py:328-343).
THEOREM TeardownIsCareful == Spec => TeardownSpares
<1>1. IInv /\ [Next]_vars => [Spares]_vars
  BY NextSpares
<1>2. QED  BY <1>1, Invariant, PTL DEF Spec, TeardownSpares, Spares

-----------------------------------------------------------------------------
(* A session that was torn down is gone.                                   *)

\* A step leaves or takes away what leads to session s, and gives it to no call.
Fades(s) ==
  /\ ~Held(s, call') /\ kept \subseteq kept'
  /\ owner'[s] \in {owner[s], NoTransport} /\ bound'[s] \in {bound[s], NoProject}
  /\ cachedProject'[s] \in {cachedProject[s], NoProject}
  /\ agentRow[s] = "ended" => agentRow'[s] = "ended"
  /\ s \in 1 .. made => s \in 1 .. made'
  /\ \A t \in Transports : known'[t] = s => known[t] = s
  /\ \A a \in Agents : /\ pointer'[a] = pointer[a] \/ Clean(s, pointer'[a])
                       /\ lease'[a].session = s => lease[a].session = s

TornNow(s) == TornOK(s, made, agentRow, owner, bound, cachedProject, known, pointer, lease, kept)
EndingNow(s) == EndingOK(ender, s, owner, bound, pointer, lease, kept)

LEMMA TornFades == ASSUME NEW s, TornNow(s), Fades(s) PROVE TornNow(s)'
<1>1. /\ s \in 1 .. made' /\ agentRow'[s] = "ended" /\ owner'[s] = NoTransport
      /\ cachedProject'[s] = NoProject /\ (bound'[s] = NoProject \/ <<"binding", s>> \in kept')
  BY DEF TornNow, TornOK, Fades
<1>2. \A t \in Transports : known'[t] # s
  BY DEF TornNow, TornOK, Fades
<1>3. \A a \in Agents : /\ Clean(s, pointer'[a]) \/ <<"row", s>> \in kept'
                        /\ lease'[a].session # s
  BY DEF TornNow, TornOK, Fades
<1>4. QED  BY <1>1, <1>2, <1>3 DEF TornNow, TornOK

LEMMA EndingFades ==
  ASSUME NEW s, EndingNow(s), Fades(s), ender' = ender, ender.agent \in Agents
  PROVE  EndingNow(s)'
<1>1. /\ Past(ender, {"unbind", "look", "clear", "drop", "purge"}) => owner'[s] = NoTransport
      /\ Past(ender, {"look", "clear", "drop", "purge"}) =>
           bound'[s] = NoProject \/ <<"binding", s>> \in kept'
  BY DEF EndingNow, EndingOK, Fades
<1>2. /\ ender.pc = "clear" => pointer'[ender.agent].version = ender.version \/ Clean(s, pointer'[ender.agent])
      /\ Past(ender, {"drop", "purge"}) =>
           Clean(s, pointer'[ender.agent]) \/ <<"row", s>> \in kept'
  BY DEF EndingNow, EndingOK, Fades
<1>3. ender.pc = "purge" => lease'[ender.agent].session # s
  BY DEF EndingNow, EndingOK, Fades
<1>4. QED  BY <1>1, <1>2, <1>3 DEF EndingNow, EndingOK

Watched == torn \cup Ending

LEMMA WatchedTyped == ASSUME IInv, GoneInv, NEW s \in Watched \ raced
                      PROVE  s \in 1 .. made /\ s \in Sessions /\ ~Held(s, call)
<1>1. ~Held(s, call)
  BY DEF Watched, GoneInv
<1>2. CASE s \in torn
  BY <1>2, MaxNat DEF GoneInv, TornOK, IInv, TypeOK, Sessions
<1>3. CASE s \in Ending
  <2>1. ender.pc # "idle" /\ s = ender.session
    BY <1>3 DEF Ending
  <2>2. QED  BY <1>1, <2>1, EnderSession
<1>4. QED  BY <1>1, <1>2, <1>3 DEF Watched

\* A step that goes on with the same teardown, or with none.
LEMMA FadesGone ==
  ASSUME IInv, GoneInv, torn' = torn, raced \subseteq raced', ender' = ender \/ ender'.pc = "idle",
         \A s \in Watched \ raced' : Fades(s)
  PROVE  GoneInv'
<1>1. Ending' \subseteq Ending /\ (Ending' # {} => ender' = ender)
  BY DEF Ending
<1>2. \A s \in (torn' \cup Ending') \ raced' : s \in Watched \ raced' /\ Fades(s)
  BY <1>1 DEF Watched
<1>3. \A s \in (torn' \cup Ending') \ raced' : ~Held(s, call')
  BY <1>2 DEF Fades
<1>4. \A s \in torn' \ raced' : TornNow(s)'
  BY <1>2, TornFades DEF GoneInv, TornNow
<1>5. \A s \in Ending' \ raced' : EndingNow(s)'
  <2>1. SUFFICES ASSUME NEW s \in Ending' \ raced' PROVE EndingNow(s)'
    OBVIOUS
  <2>2. ender' = ender /\ ender.pc # "idle" /\ s \in Ending \ raced /\ Fades(s)
    BY <1>1, <1>2, <2>1 DEF Ending
  <2>3. ender.agent \in Agents
    BY <2>2, EnderSession
  <2>4. QED  BY <2>2, <2>3, EndingFades DEF GoneInv, EndingNow
<1>6. QED  BY <1>3, <1>4, <1>5 DEF GoneInv, TornNow, EndingNow

\* The steps of a call keep off the sessions that no call has.
LEMMA CallsKeepOff ==
  ASSUME IInv, GoneInv, NEW c \in Calls, NEW s \in Watched \ raced',
         call[c].session # s => call'[c].session # s, \A x \in Calls \ {c} : call'[x] = call[x],
         raced \subseteq raced'
  PROVE  ~Held(s, call') /\ call[c].session # s /\ s \in Sessions /\ s \in 1 .. made
<1>1. ~Held(s, call) /\ s \in Sessions /\ s \in 1 .. made
  BY WatchedTyped
<1>2. QED  BY <1>1 DEF Held

LEMMA ResolveRaces ==
  ASSUME NEW c \in Calls, NEW s, Resolve(c, s)
  PROVE  raced \subseteq raced' /\ s \notin Watched \ raced'
BY DEF Resolve, Watched, Ending

\* Steps that change only places of calls, projects in use and the agent session's row.
LEMMA IdleFades ==
  ASSUME IInv, GoneInv, NEW c \in Calls, Moves(c), call'[c].session \in {call[c].session, NoSession},
         UNCHANGED <<made, owner, bound, pointer, memory, ender, torn, raced, kept>>,
         \A s \in Sessions : agentRow[s] = "ended" => agentRow'[s] = "ended"
  PROVE  GoneInv'
<1>1. SUFFICES ASSUME NEW s \in Watched \ raced' PROVE Fades(s)
  BY FadesGone
<1>2. s \in Sessions /\ s # NoSession
  BY <1>1, WatchedTyped DEF Sessions, NoSession
<1>3. ~Held(s, call')
  BY <1>1, <1>2, CallsKeepOff DEF Moves
<1>4. QED  BY <1>2, <1>3 DEF Fades, memory

LEMMA PlainCallGone ==
  ASSUME IInv, GoneInv, NEW c \in Calls,
         \/ Binding(c) \/ Run(c) \/ Finish(c) \/ Reuse(c) \/ Validate(c)
         \/ \E k \in Callers : \E p \in Projects \cup {NoProject}, e \in {0, pointer[k[2]].version} :
              Begin(c, k, p, e)
  PROVE  GoneInv'
<1>1. /\ UNCHANGED <<made, owner, agentRow, bound, pointer, memory, ender, torn, raced, kept>>
      /\ \A x \in Calls \ {c} : call'[x] = call[x]
      /\ call'[c].session \in {call[c].session, NoSession}
  BY CallTyped DEF Binding, Run, Finish, Reuse, Validate, Begin, Goto, IdleCall, IInv, TypeOK, database, history
<1>2. call' \in [Calls -> CallRec]
  BY CallKeeps, CallTyped DEF CallStep, IInv, TypeOK, CallRec
<1>3. QED  BY <1>1, <1>2, IdleFades DEF Moves

LEMMA ResolveGone ==
  ASSUME IInv, GoneInv, NEW c \in Calls, call[c].pc \in Waiting, NEW s \in Sessions, Resolve(c, s),
         known' = known \/ known' = [known EXCEPT ![TransportOf(c)] = s],
         owner' = owner \/ (owner' = [owner EXCEPT ![s] = TransportOf(c)]),
         made' \in {made, made + 1},
         UNCHANGED <<agentRow, bound, pointer, lease, cachedProject, ender, kept>>
  PROVE  GoneInv'
<1>1. raced \subseteq raced' /\ s \notin Watched \ raced' /\ torn' = torn
  BY ResolveRaces DEF Resolve
<1>2. Moves(c) /\ call'[c].session = s
  BY ResolveMoves DEF IInv
<1>3. SUFFICES ASSUME NEW r \in Watched \ raced' PROVE Fades(r)
  BY <1>1, FadesGone
<1>4. r # s /\ r \in Sessions /\ r \in 1 .. made /\ ~Held(r, call')
  BY <1>1, <1>2, <1>3, CallsKeepOff DEF Moves
<1>5. owner'[r] = owner[r] /\ \A t \in Transports : known'[t] = r => known[t] = r
  BY <1>4 DEF IInv, TypeOK
<1>6. r \in 1 .. made'
  BY <1>4, MaxNat DEF IInv, TypeOK
<1>7. QED  BY <1>4, <1>5, <1>6 DEF Fades

\* The router's index may get the session.
Indexed(c, s) == known' = known \/ known' = [known EXCEPT ![TransportOf(c)] = s]

LEMMA LookingGone == ASSUME IInv, GoneInv, NEW c \in Calls, LookUp(c) \/ Route(c) \/ Collide(c) PROVE GoneInv'
<1>1. call[c].pc \in Waiting
  BY DEF LookUp, Route, Collide, Waiting
<1>2. \A s \in Found(TransportOf(c)) : s \in Sessions
  BY <1>1, FoundFacts, WaitingCall
<1>3. known[TransportOf(c)] # NoSession => known[TransportOf(c)] \in Sessions
  BY <1>1, WaitingCall DEF IInv, TypeOK
<1>4. /\ UNCHANGED <<made, owner, agentRow, bound, pointer, lease, cachedProject, stateProject, ender, kept>>
      /\ \/ \E s \in Sessions : Resolve(c, s) /\ Indexed(c, s)
         \/ /\ UNCHANGED <<torn, raced, kept, known>>
            /\ Goto(c, "route") \/ Goto(c, "create") \/ call' = [call EXCEPT ![c] = IdleCall]
  BY <1>2, <1>3 DEF LookUp, Route, Collide, Refuse, Resolve, Indexed, database, memory, history
<1>5. CASE \E s \in Sessions : Resolve(c, s) /\ Indexed(c, s)
  <2>1. PICK s \in Sessions : Resolve(c, s) /\ Indexed(c, s)
    BY <1>5
  <2>2. QED  BY <1>1, <1>4, <2>1, ResolveGone DEF Indexed
<1>6. CASE /\ UNCHANGED <<torn, raced, kept, known>>
           /\ Goto(c, "route") \/ Goto(c, "create") \/ call' = [call EXCEPT ![c] = IdleCall]
  <2>1. Moves(c) /\ call'[c].session \in {call[c].session, NoSession}
    BY <1>6, GotoMoves, IdleMoves DEF IInv, CallPC, IdleCall, Onward
  <2>2. QED  BY <1>4, <1>6, <2>1, IdleFades DEF memory
<1>7. QED  BY <1>4, <1>5, <1>6

LEMMA CreateGone == ASSUME IInv, GoneInv, NEW c \in Calls, Create(c) PROVE GoneInv'
<1>1. call[c].pc \in Waiting /\ made < MaxCalls /\ made \in Nat
  BY MaxNat DEF Create, Waiting, IInv, TypeOK
<1>2. Fresh = made + 1 /\ Fresh \in Sessions
  BY <1>1, MaxNat DEF Fresh, Sessions
<1>3. CASE /\ Resolve(c, Fresh) /\ made' = Fresh /\ owner' = [owner EXCEPT ![Fresh] = TransportOf(c)]
           /\ known' = [known EXCEPT ![TransportOf(c)] = Fresh]
  <2>1. made' \in {made, made + 1} /\ kept' = kept
    BY <1>2, <1>3 DEF Resolve
  <2>2. QED  BY <1>1, <1>2, <1>3, <2>1, ResolveGone DEF Create
<1>4. CASE Goto(c, "collide") /\ UNCHANGED <<made, owner, known, history>>
  <2>1. Moves(c) /\ call'[c].session \in {call[c].session, NoSession}
    BY <1>4, GotoMoves DEF IInv, CallPC, Onward
  <2>2. QED  BY <1>4, <2>1, IdleFades DEF Create, memory, history
<1>5. QED  BY <1>3, <1>4 DEF Create

\* The steps of a call that write what leads from its session to a project.
LEMMA SettingGone ==
  ASSUME IInv, GoneInv, NEW c \in Calls, call[c].pc \in Resolved, Moves(c),
         call'[c].session \in {call[c].session, NoSession},
         UNCHANGED <<made, known, ender, torn, raced, kept>>,
         owner' = owner \/ owner' = [owner EXCEPT ![call[c].session] = TransportOf(c)],
         bound' = bound \/ bound' = [bound EXCEPT ![call[c].session] = call[c].project],
         cachedProject' = cachedProject \/ cachedProject' = [cachedProject EXCEPT ![call[c].session] = call[c].project],
         agentRow' = agentRow \/ agentRow' = Upserted(call[c].session),
         \A a \in Agents : pointer'[a] = pointer[a] \/ pointer'[a].session = call[c].session,
         \A a \in Agents : lease'[a] = lease[a] \/ lease'[a].session = call[c].session
  PROVE  GoneInv'
<1>1. SUFFICES ASSUME NEW s \in Watched \ raced' PROVE Fades(s)
  BY FadesGone
<1>2. s \in Sessions /\ s # NoSession
  BY <1>1, WatchedTyped DEF Sessions, NoSession
<1>3. ~Held(s, call') /\ call[c].session # s
  BY <1>1, <1>2, CallsKeepOff DEF Moves
<1>4. owner'[s] = owner[s] /\ bound'[s] = bound[s] /\ cachedProject'[s] = cachedProject[s] /\ agentRow'[s] = agentRow[s]
  BY <1>2, <1>3 DEF Upserted, IInv, TypeOK
<1>5. \A a \in Agents : /\ pointer'[a] = pointer[a] \/ Clean(s, pointer'[a])
                        /\ lease'[a].session = s => lease[a].session = s
  BY <1>3 DEF Clean
<1>6. QED  BY <1>3, <1>4, <1>5 DEF Fades

LEMMA WritingGone ==
  ASSUME IInv, GoneInv, NEW c \in Calls,
         \/ Attach(c) \/ Activity(c) \/ Persist(c) \/ Start(c) \/ Lease(c)
         \/ Point(c) \/ Bind(c) \/ Cache(c)
  PROVE  GoneInv'
<1>1. call[c].pc \in Resolved
  BY DEF Attach, Activity, Persist, Start, Lease, Point, Bind, Cache, Resolved
<1>2. /\ \A x \in Calls \ {c} : call'[x] = call[x]
      /\ call'[c].session \in {call[c].session, NoSession}
  BY CallTyped DEF Attach, Activity, Persist, Start, Lease, Point, Bind, Cache, Goto, Refuse, IdleCall,
                   IInv, CallRec
<1>3. Moves(c)
  BY <1>2, CallKeeps, CallTyped DEF CallStep, IInv, TypeOK, CallRec, Moves
<1>4. UNCHANGED <<made, known, ender, torn, raced, kept>>
  BY DEF Attach, Activity, Persist, Start, Lease, Point, Bind, Cache, Refuse, database, memory, history
<1>5. /\ owner' = owner \/ owner' = [owner EXCEPT ![call[c].session] = TransportOf(c)]
      /\ bound' = bound \/ bound' = [bound EXCEPT ![call[c].session] = call[c].project]
      /\ cachedProject' = cachedProject \/ cachedProject' = [cachedProject EXCEPT ![call[c].session] = call[c].project]
      /\ agentRow' = agentRow \/ agentRow' = Upserted(call[c].session)
  BY DEF Attach, Activity, Persist, Start, Lease, Point, Bind, Cache, database, memory
<1>6. \A a \in Agents : pointer'[a] = pointer[a] \/ pointer'[a].session = call[c].session
  <2>1. \/ pointer' = pointer
        \/ \E p \in Projects \cup {NoProject} : pointer' = Pointed(AgentOf(c), p, call[c].session)
    BY <1>1, HasSession DEF Attach, Activity, Persist, Start, Lease, Point, Bind, Cache, database, CallRec
  <2>2. QED  BY <2>1 DEF Pointed, IInv, TypeOK
<1>7. \A a \in Agents : lease'[a] = lease[a] \/ lease'[a].session = call[c].session
  BY DEF Attach, Activity, Persist, Start, Lease, Point, Bind, Cache, memory, IInv, TypeOK
<1>8. QED  BY <1>1, <1>2, <1>3, <1>4, <1>5, <1>6, <1>7, SettingGone

-----------------------------------------------------------------------------
(* The steps of the teardown of a session that no call has.                *)

\* The teardown goes on.
LEMMA NextPartGone ==
  ASSUME IInv, GoneInv, torn' = torn, raced' = raced, ender.pc # "idle", ender'.session = ender.session,
         \A s \in Watched \ raced : Fades(s), ender.session \notin raced => EndingNow(ender.session)'
  PROVE  GoneInv'
<1>1. Ending = {ender.session} /\ Ending' \subseteq {ender.session}
  BY DEF Ending
<1>2. \A s \in (torn' \cup Ending') \ raced' : s \in Watched \ raced /\ Fades(s)
  BY <1>1 DEF Watched
<1>3. \A s \in (torn' \cup Ending') \ raced' : ~Held(s, call')
  BY <1>2 DEF Fades
<1>4. \A s \in torn' \ raced' : TornNow(s)'
  BY <1>2, TornFades DEF GoneInv, TornNow
<1>5. QED  BY <1>1, <1>3, <1>4 DEF GoneInv, TornNow, EndingNow

LEMMA EndBeginGone == ASSUME IInv, GoneInv, NEW r \in Rows, EndBegin(r) PROVE GoneInv'
<1>1. /\ UNCHANGED <<made, owner, agentRow, bound, cachedProject, pointer, known, lease, call, torn, kept>>
      /\ ender'.pc = "expire" /\ ender'.session = r /\ raced \subseteq raced'
      /\ r \notin raced' => ~Held(r, call)
  BY DEF EndBegin, database, memory, Held
<1>2. Ending' = {r}
  BY <1>1 DEF Ending
<1>3. \A s \in (torn' \cup Ending') \ raced' : ~Held(s, call')
  BY <1>1, <1>2 DEF GoneInv
<1>4. \A s \in torn' \ raced' : TornNow(s)'
  BY <1>1 DEF GoneInv, TornNow
<1>5. \A s \in Ending' \ raced' : EndingNow(s)'
  BY <1>1 DEF EndingNow, EndingOK, Past
<1>6. QED  BY <1>3, <1>4, <1>5 DEF GoneInv, TornNow, EndingNow

LEMMA EndPartGone ==
  ASSUME IInv, GoneInv, EndExpire \/ EndDetach \/ EndUnbind \/ EndLook \/ EndClear \/ EndDrop
  PROVE  GoneInv'
<1> DEFINE e == ender.session
<1>1. ender.pc \in {"expire", "detach", "unbind", "look", "clear", "drop"}
  BY DEF EndExpire, EndDetach, EndUnbind, EndLook, EndClear, EndDrop, EndStep
<1>2. e \in Sessions /\ e \in 1 .. made /\ ender.agent \in Agents /\ ender.agent = born[e][2]
  BY <1>1, EnderSession
<1>3. UNCHANGED <<made, known, cachedProject, call, torn, raced, kept>> /\ ender'.session = e /\ ender'.agent = ender.agent
  BY DEF EndExpire, EndDetach, EndUnbind, EndLook, EndClear, EndDrop, EndStep, database, memory, history, IInv, TypeOK
<1>4. \A s \in Sessions : /\ owner'[s] \in {owner[s], NoTransport}
                          /\ bound'[s] \in {bound[s], NoProject}
                          /\ agentRow[s] = "ended" => agentRow'[s] = "ended"
  BY DEF EndExpire, EndDetach, EndUnbind, EndLook, EndClear, EndDrop, Expired, Detached, database, IInv, TypeOK
<1>5. \A a \in Agents : pointer'[a] = pointer[a] \/ pointer'[a].project = NoProject
  BY DEF EndExpire, EndDetach, EndUnbind, EndLook, EndClear, EndDrop, Pointed, database, IInv, TypeOK
<1>6. \A a \in Agents : lease'[a].session \in {lease[a].session, NoSession}
  BY LeaseTyped DEF EndExpire, EndDetach, EndUnbind, EndLook, EndClear, EndDrop, memory, IInv
<1>7. \A s \in Watched \ raced : Fades(s)
  <2>1. SUFFICES ASSUME NEW s \in Watched \ raced PROVE Fades(s)
    OBVIOUS
  <2>2. s \in Sessions /\ s # NoSession /\ s \in 1 .. made /\ ~Held(s, call')
    BY <1>3, <2>1, WatchedTyped DEF Sessions, NoSession
  <2>3. QED  BY <1>3, <1>4, <1>5, <1>6, <2>2 DEF Fades, Clean
<1>8. ASSUME e \notin raced PROVE EndingNow(e)'
  <2>1. EndingNow(e)
    BY <1>1, <1>8 DEF GoneInv, Ending, EndingNow
  <2>2. CASE EndExpire
    BY <2>2, EndStepFields DEF EndExpire, EndStep, EndingNow, EndingOK, Past, IInv, EnderPC
  <2>3. CASE EndDetach
    <3>1. ender'.pc = "unbind" /\ owner'[e] = NoTransport
      BY <1>2, <2>3, EndStepFields DEF EndDetach, Detached, IInv, TypeOK, EnderPC
    <3>2. QED  BY <1>3, <3>1 DEF EndingNow, EndingOK, Past
  <2>4. CASE EndUnbind
    <3>1. ender.pc = "unbind" /\ ender'.pc = "look" /\ bound'[e] = NoProject /\ owner' = owner
      BY <1>2, <2>4, EndStepFields DEF EndUnbind, IInv, TypeOK, EnderPC
    <3>2. owner[e] = NoTransport
      BY <2>1, <3>1 DEF EndingNow, EndingOK, Past
    <3>3. QED  BY <1>3, <3>1, <3>2 DEF EndingNow, EndingOK, Past
  <2>5. CASE EndLook
    <3>1. /\ ender.pc = "look" /\ UNCHANGED <<owner, bound, pointer, lease>>
          /\ \/ ender'.pc = "clear" /\ ender'.version = pointer[ender.agent].version
             \/ ender'.pc = "drop" /\ ~(pointer[ender.agent].session = e /\ pointer[ender.agent].project # NoProject)
      BY <2>5 DEF EndLook, database, memory, IInv, TypeOK
    <3>2. owner[e] = NoTransport /\ (bound[e] = NoProject \/ <<"binding", e>> \in kept)
      BY <2>1, <3>1 DEF EndingNow, EndingOK, Past
    <3>3. QED  BY <1>3, <3>1, <3>2 DEF EndingNow, EndingOK, Past, Clean
  <2>6. CASE EndClear
    <3>1. ender.pc = "clear" /\ ender'.pc = "drop" /\ UNCHANGED <<owner, bound, lease>>
      BY <2>6, EndStepFields DEF EndClear, IInv, EnderPC, memory
    <3>2. /\ owner[e] = NoTransport /\ (bound[e] = NoProject \/ <<"binding", e>> \in kept)
          /\ SameRow \/ Clean(e, pointer[ender.agent])
      BY <2>1, <3>1 DEF EndingNow, EndingOK, Past, SameRow
    <3>3. Clean(e, pointer'[ender.agent])
      BY <1>2, <2>6, <3>2 DEF EndClear, Pointed, Clean, IInv, TypeOK
    <3>4. QED  BY <1>3, <3>1, <3>2, <3>3 DEF EndingNow, EndingOK, Past
  <2>7. CASE EndDrop
    <3>1. ender.pc = "drop" /\ ender'.pc = "purge" /\ UNCHANGED <<owner, bound, pointer>>
      BY <2>7, EndStepFields DEF EndDrop, IInv, EnderPC, database
    <3>2. /\ owner[e] = NoTransport /\ (bound[e] = NoProject \/ <<"binding", e>> \in kept)
          /\ Clean(e, pointer[ender.agent]) \/ <<"row", e>> \in kept
      BY <2>1, <3>1 DEF EndingNow, EndingOK, Past
    <3>3. lease'[ender.agent].session # e
      <4>1. CASE lease[ender.agent].session = e
        <5>1. lease'[ender.agent] = NoLease /\ e # NoSession
          BY <1>2, <2>7, <4>1 DEF EndDrop, IInv, TypeOK, Sessions, NoSession
        <5>2. QED  BY <5>1 DEF NoLease
      <4>2. CASE lease[ender.agent].session # e
        BY <2>7, <4>2 DEF EndDrop
      <4>3. QED  BY <4>1, <4>2
    <3>4. QED  BY <1>3, <3>1, <3>2, <3>3 DEF EndingNow, EndingOK, Past
  <2>8. QED  BY <2>2, <2>3, <2>4, <2>5, <2>6, <2>7
<1>9. QED  BY <1>1, <1>3, <1>7, <1>8, NextPartGone

LEMMA EndPurgeGone == ASSUME IInv, GoneInv, NEW e, e = ender.session, EndPurge PROVE GoneInv'
<1>1. ender.pc = "purge" /\ ender'.pc = "idle" /\ torn' = torn \cup {e} /\ Ending' = {} /\ Ending = {e}
  BY DEF EndPurge, IdleEnder, Ending
<1>2. /\ e \in Sessions /\ e \in 1 .. made /\ ender.agent = born[e][2] /\ agentRow[e] = "ended" /\ e # NoSession
  BY <1>1, EnderSession
<1>3. UNCHANGED <<made, owner, agentRow, bound, pointer, lease, call, raced, kept>>
  BY DEF EndPurge, database
<1>4. \A t \in Transports : known'[t] # e /\ (known'[t] = known[t] \/ known'[t] = NoSession)
  BY <1>2 DEF EndPurge, Forgotten, IInv, TypeOK
<1>5. cachedProject'[e] = NoProject /\ \A s \in Sessions : cachedProject'[s] \in {cachedProject[s], NoProject}
  BY <1>2 DEF EndPurge, IInv, TypeOK
<1>6. \A s \in torn \ raced : TornNow(s)'
  <2>1. SUFFICES ASSUME NEW s \in torn \ raced PROVE Fades(s)
    BY TornFades DEF GoneInv, TornNow
  <2>2. s \in Sessions /\ s # NoSession /\ ~Held(s, call)
    BY <2>1, WatchedTyped DEF Watched, Sessions, NoSession
  <2>3. QED  BY <1>3, <1>4, <1>5, <2>2 DEF Fades
<1>7. e \notin raced => TornNow(e)'
  <2>1. SUFFICES ASSUME e \notin raced PROVE TornNow(e)'
    OBVIOUS
  <2>2. /\ owner[e] = NoTransport /\ (bound[e] = NoProject \/ <<"binding", e>> \in kept)
        /\ Clean(e, pointer[ender.agent]) \/ <<"row", e>> \in kept
        /\ lease[ender.agent].session # e
    BY <1>1, <2>1 DEF GoneInv, EndingOK, Past
  <2>3. \A a \in Agents : /\ Clean(e, pointer[a]) \/ <<"row", e>> \in kept
                          /\ lease[a].session # e
    BY <1>2, <2>2 DEF Clean, IInv, AgentsOK, PointerOK, LeaseOK
  <2>4. \A t \in Transports : known'[t] # e
    BY <1>4
  <2>5. TornOK(e, made, agentRow, owner, bound, cachedProject', known', pointer, lease, kept)
    BY <1>2, <1>5, <2>2, <2>3, <2>4 DEF TornOK
  <2>6. QED  BY <1>3, <2>5 DEF TornNow
<1>8. \A s \in torn' \ raced' : TornNow(s)'
  <2>1. SUFFICES ASSUME NEW s \in torn' \ raced' PROVE TornNow(s)'
    OBVIOUS
  <2>2. CASE s \in torn
    BY <1>3, <1>6, <2>1, <2>2
  <2>3. CASE s = e
    BY <1>3, <1>7, <2>1, <2>3
  <2>4. QED  BY <1>1, <2>1, <2>2, <2>3
<1>9. \A s \in (torn' \cup Ending') \ raced' : ~Held(s, call')
  BY <1>1, <1>3 DEF GoneInv
<1>10. QED  BY <1>1, <1>8, <1>9 DEF GoneInv, TornNow

\* A teardown that is given up leaves what it has reached.
LEMMA EndAbortsGone == ASSUME IInv, GoneInv, EndAborts PROVE GoneInv'
<1>1. ender'.pc = "idle" /\ UNCHANGED <<database, memory, call, torn, raced, kept>>
  BY DEF EndAborts, IdleEnder, history
<1>2. \A s \in Watched \ raced' : Fades(s)
  BY <1>1, WatchedTyped DEF Fades, database, memory
<1>3. QED  BY <1>1, <1>2, FadesGone

\* A statement that failed is remembered, and all else stays.
LEMMA EndSwallowsGone == ASSUME IInv, GoneInv, EndUnbindFails \/ EndRowFails PROVE GoneInv'
<1> DEFINE e == ender.session
<1>1. /\ ender.pc # "idle" /\ ender'.session = e /\ kept \subseteq kept'
      /\ UNCHANGED <<database, memory, call, torn, raced>>
  BY DEF EndUnbindFails, EndRowFails, Swallow, IInv, TypeOK
<1>2. \A s \in Watched \ raced : Fades(s)
  BY <1>1, WatchedTyped DEF Fades, database, memory
<1>3. ASSUME e \notin raced PROVE EndingNow(e)'
  <2>1. EndingNow(e)
    BY <1>1, <1>3 DEF GoneInv, Ending, EndingNow
  <2>2. CASE EndUnbindFails
    <3>1. ender.pc = "unbind" /\ ender'.pc = "look" /\ <<"binding", e>> \in kept'
      BY <2>2 DEF EndUnbindFails, Swallow, IInv, TypeOK
    <3>2. QED  BY <1>1, <2>1, <3>1 DEF EndingNow, EndingOK, Past, database
  <2>3. CASE EndRowFails
    <3>1. ender.pc \in {"look", "clear"} /\ ender'.pc = "drop" /\ <<"row", e>> \in kept'
      BY <2>3 DEF EndRowFails, Swallow, IInv, TypeOK
    <3>2. QED  BY <1>1, <2>1, <3>1 DEF EndingNow, EndingOK, Past, database
  <2>4. QED  BY <2>2, <2>3
<1>4. QED  BY <1>1, <1>2, <1>3, NextPartGone

\* Cleanup, time and restarts only take away.
LEMMA AroundGone == ASSUME IInv, GoneInv, Cleanup \/ Environment \/ UNCHANGED vars PROVE GoneInv'
<1> DEFINE Fewer == /\ UNCHANGED <<made, bound, pointer, torn, raced, kept>>
                    /\ ender' = ender \/ ender'.pc = "idle"
                    /\ \A s \in Sessions : owner'[s] \in {owner[s], NoTransport}
                    /\ \A s \in Sessions : agentRow[s] = "ended" => agentRow'[s] = "ended"
                    /\ \A s \in Sessions : cachedProject'[s] \in {cachedProject[s], NoProject}
                    /\ \A t \in Transports : known'[t] \in {known[t], NoSession}
                    /\ \A a \in Agents : lease'[a].session \in {lease[a].session, NoSession}
                    /\ \A c \in Calls : call'[c].session \in {call[c].session, NoSession}
<1>1. ASSUME CleanBegin \/ UNCHANGED vars PROVE Fewer
  BY <1>1 DEF CleanBegin, vars, database, memory, history
<1>2. ASSUME \E a \in Agents : CleanExpire(a) PROVE Fewer
  <2>1. \A s \in Sessions : agentRow[s] = "ended" => agentRow'[s] = "ended"
    BY <1>2 DEF CleanExpire, Expired, IInv, TypeOK
  <2>2. QED  BY <1>2, <2>1 DEF CleanExpire, memory, history
<1>3. ASSUME CleanDetach PROVE Fewer
  <2>1. \A s \in Sessions : owner'[s] \in {owner[s], NoTransport}
    BY <1>3 DEF CleanDetach, Detached, IInv, TypeOK
  <2>2. \A a \in Agents : lease'[a].session \in {lease[a].session, NoSession}
    BY <1>3, LeaseTyped DEF CleanDetach, IInv
  <2>3. QED  BY <1>3, <2>1, <2>2 DEF CleanDetach, history
<1>4. ASSUME \E a \in Agents : LeaseExpires(a) \/ Heartbeat(a) PROVE Fewer
  <2>1. \A a \in Agents : lease'[a].session \in {lease[a].session, NoSession}
    BY <1>4, SMTT(30) DEF LeaseExpires, Heartbeat, IInv, TypeOK
  <2>2. QED  BY <1>4, <2>1 DEF LeaseExpires, Heartbeat, database, history
<1>5. ASSUME Restart PROVE Fewer
  <2>1. /\ ender'.pc = "idle" /\ \A a \in Agents : lease'[a].session = NoSession
        /\ \A c \in Calls : call'[c].session = NoSession
    BY <1>5 DEF Restart, IdleEnder, NoLease, IdleCall
  <2>2. /\ \A t \in Transports : known'[t] = NoSession
        /\ \A s \in Sessions : cachedProject'[s] = NoProject
    BY <1>5 DEF Restart
  <2>3. QED  BY <1>5, <2>1, <2>2 DEF Restart, database, history
<1>6. Fewer
  BY <1>1, <1>2, <1>3, <1>4, <1>5 DEF Cleanup, Environment
<1>7. \A s \in Watched \ raced' : Fades(s)
  <2>1. SUFFICES ASSUME NEW s \in Watched \ raced PROVE Fades(s)
    BY <1>6
  <2>2. s \in Sessions /\ s # NoSession /\ ~Held(s, call)
    BY <2>1, WatchedTyped DEF Sessions, NoSession
  <2>3. ~Held(s, call')
    BY <1>6, <2>2 DEF Held
  <2>4. QED  BY <1>6, <2>2, <2>3 DEF Fades
<1>8. QED  BY <1>6, <1>7, FadesGone

LEMMA NextGone == ASSUME IInv, GoneInv, [Next]_vars PROVE GoneInv'
<1>1. ASSUME NEW c \in Calls, CallStep(c) PROVE GoneInv'
  BY <1>1, PlainCallGone, LookingGone, CreateGone, WritingGone DEF CallStep
<1>2. CASE EndSession
  BY <1>2, EndBeginGone, EndPartGone, EndPurgeGone, EndAbortsGone, EndSwallowsGone DEF EndSession
<1>3. CASE Cleanup \/ Environment \/ UNCHANGED vars
  BY <1>3, AroundGone
<1>4. QED  BY <1>1, <1>2, <1>3 DEF Next

\* A session that was torn down while no call was using it is gone: nothing leads from
\* it to a project but what a failed statement left, and no call gets it
\* (agent_manager.py:318-371).
THEOREM RevokedIsGone == Spec => []Revoked
<1>1. Init => GoneInv
  BY DEF Init, GoneInv, Ending, IdleEnder
<1>2. IInv /\ GoneInv /\ [Next]_vars => GoneInv'
  BY NextGone
<1>3. GoneInv => Revoked
  BY DEF GoneInv, TornOK, Clean, Revoked
<1>4. QED  BY <1>1, <1>2, <1>3, Invariant, PTL DEF Spec
=============================================================================
