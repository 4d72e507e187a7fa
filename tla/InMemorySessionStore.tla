------------------------ MODULE InMemorySessionStore ------------------------
(***************************************************************************)
(* InMemorySessionStore of src/src/sessions/store.py: a dict of states     *)
(* behind an asyncio.Lock.  get returns a deep copy, put compares only the *)
(* version numbers.  No method awaits while it holds the lock, so each one *)
(* is a single step.                                                       *)
(*                                                                         *)
(* The code keeps no record of who wrote when; stale, acked and deleted    *)
(* are history variables, updated as SessionStore, the contract, does.     *)
(***************************************************************************)
EXTENDS SessionData

VARIABLES rows, held, result, minted, stale, acked, deleted

Contract == INSTANCE SessionStore

vars == <<rows, held, result, minted, stale, acked, deleted>>

\* The dict starts empty; sessions of an earlier process are gone.
Init ==
    /\ rows = [s \in Sessions |-> Absent]
    /\ minted = {}
    /\ held = [c \in Callers |-> None]
    /\ result = [c \in Callers |-> "none"]
    /\ stale = {}
    /\ acked = [s \in Sessions |-> {}]
    /\ deleted = {}

\* state = ConversationState(), before the first put.
Open(c, s) == Contract!Open(c, s)

get(c, s) ==
    /\ held[c] = None
    /\ rows[s] # Absent
    /\ held' = [held EXCEPT ![c] = [session |-> s, version |-> rows[s].version,
                                    doc |-> rows[s].doc]]
    /\ result' = [result EXCEPT ![c] = "none"]
    /\ UNCHANGED <<rows, minted, stale, acked, deleted>>

\* Mutants: no check at all; a comparison that lets a copy through that is one
\* version behind.
SameVersionMutantUnchecked(c) == TRUE

SameVersionMutantOneBehind(c) ==
    LET s == held[c].session
    IN  rows[s] # Absent => rows[s].version <= held[c].version + 1

\* The version check: only an existing row with another version conflicts.
SameVersion(c) ==
    LET s == held[c].session
    IN  rows[s] # Absent => rows[s].version = held[c].version

put(c) ==
    /\ held[c] # None
    /\ IF SameVersion(c) THEN Contract!Accepted(c) ELSE Contract!Refused(c)

\* pop(session_id): the key is gone, not set to a null state.
deleteMutantNulled(s) ==
    /\ rows[s] # Absent
    /\ rows' = [rows EXCEPT ![s] = None]
    /\ UNCHANGED <<held, result, minted, stale, acked, deleted>>

delete(s) == Contract!Delete(s)

Next ==
    \/ \E c \in Callers, s \in Sessions : Open(c, s) \/ get(c, s)
    \/ \E c \in Callers, t \in Turns : Contract!Work(c, t)
    \/ \E c \in Callers : put(c) \/ Contract!Release(c)
    \/ \E s \in Sessions : delete(s)

Spec == Init /\ [][Next]_vars

TypeOK == Contract!TypeOK

-----------------------------------------------------------------------------
\* Properties

\* The version numbers alone tell who was overwritten: a copy nobody wrote over
\* carries the version of the row (0 if there is none yet), and a copy somebody
\* did write over is behind it.  A delete breaks the second half, and only
\* that: the row may come back with a version some old copy also carries.
UpToDate(c) ==
    LET row == rows[held[c].session]
    IN  held[c].version = IF row = Absent THEN 0 ELSE row.version

Overtaken(c) ==
    LET row == rows[held[c].session]
    IN  row # Absent /\ held[c].version < row.version

VersionsTellStaleness ==
    \A c \in Callers : held[c] # None =>
        /\ c \notin stale => UpToDate(c)
        /\ c \in stale => Overtaken(c) \/ held[c].session \in deleted

\* No acknowledged turn is lost while its session is not deleted: of the handlers
\* that read one version, work and put, one is accepted and the others refused.
AckedTurnsKept == Contract!AckedTurnsKept

\* The in-memory store implements the contract: SessionConflict is raised when,
\* and only when, somebody else wrote between get and put, on every session that
\* was never deleted.
ImplementsContract == Contract!Spec
=============================================================================
