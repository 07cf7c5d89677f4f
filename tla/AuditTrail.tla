----------------------------- MODULE AuditTrail -----------------------------
(***************************************************************************)
(* What the journalled append of utils/files.py promises, without journal  *)
(* bytes, validation cache, threads or processes.  An entry is intended    *)
(* before any copy of its line reaches the log, is committed at most once  *)
(* and only after a copy did, and an append is acknowledged only when its  *)
(* own copy is in the log and its entry is committed.                      *)
(***************************************************************************)
EXTENDS Naturals

CONSTANTS Op,       \* the calls of append_line
          Id,       \* the generated entry identifiers
          Stamp     \* the identifier each call generates

VARIABLES intended,  \* ids with a durable intent row
          committed, \* ids with a durable commit row
          logged,    \* calls whose own copy of the line is in the log
          copies,    \* how many copies of an id's line replays have added
          acked      \* calls that returned success

auditVars == <<intended, committed, logged, copies, acked>>

Init == /\ intended = {}
        /\ committed = {}
        /\ logged = {}
        /\ copies = [id \in Id |-> 0]
        /\ acked = {}

InLog(id) == copies[id] > 0 \/ \E o \in logged : Stamp[o] = id

Intend(id) == /\ id \notin intended
              /\ intended' = intended \cup {id}
              /\ UNCHANGED <<committed, logged, copies, acked>>

Append(o) == /\ Stamp[o] \in intended
             /\ logged' = logged \cup {o}
             /\ UNCHANGED <<intended, committed, copies, acked>>

Recover(id) == /\ id \in intended
               /\ copies' = [copies EXCEPT ![id] = @ + 1]
               /\ UNCHANGED <<intended, committed, logged, acked>>

Commit(id) == /\ id \in intended \ committed
              /\ InLog(id)
              /\ committed' = committed \cup {id}
              /\ UNCHANGED <<intended, logged, copies>>

\* The call whose commit is the first returns at once; one that shares its
\* identifier with a committed call finds the marker already there.
Acknowledge(o) == /\ o \in logged
                  /\ acked' = acked \cup {o}
                  /\ \/ Commit(Stamp[o])
                     \/ /\ Stamp[o] \in committed
                        /\ UNCHANGED <<intended, committed, logged, copies>>

Next == \/ \E id \in Id : Intend(id)
        \/ \E id \in Id : Recover(id)
        \/ \E id \in Id : Commit(id) /\ UNCHANGED acked
        \/ \E o \in Op : Append(o)
        \/ \E o \in Op : Acknowledge(o)

Spec == Init /\ [][Next]_auditVars
=============================================================================
