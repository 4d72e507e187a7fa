------------------------ MODULE PostgresSessionStore ------------------------
(***************************************************************************)
(* PostgresSessionStore of src/src/sessions/postgres_store.py.  A put is   *)
(* one READ COMMITTED transaction of several statements, interleaved with  *)
(* those of other handlers (and of other instances of the service):        *)
(*                                                                         *)
(*    SELECT version -> INSERT or conditional UPDATE -> COMMIT             *)
(*                                                                         *)
(* rows is the committed table.  An INSERT or UPDATE holds the row (or the *)
(* unique key) until its transaction ends; a second writer waits for it    *)
(* and then sees what was committed.  A statement can fail (connection     *)
(* lost, statement cancelled), which rolls the transaction back, and the   *)
(* acknowledgement of a COMMIT can be lost after it took effect.           *)
(***************************************************************************)
EXTENDS SessionData

VARIABLES rows, held, result, minted, stale, acked, deleted,
          step,   \* where each caller's put stands
          owner   \* the transaction holding each session's row or key

Contract == INSTANCE SessionStore

\* owner tells a row nobody writes from one a caller writes.
ASSUME OwnerAssumption == None \notin Callers

contractVars == <<rows, held, result, minted, stale, acked, deleted>>
vars == <<contractVars, step, owner>>

Steps == {"idle", "insert", "update", "commit"}

TypeOK ==
    /\ Contract!TypeOK
    /\ step \in [Callers -> Steps]
    /\ owner \in [Sessions -> Callers \cup {None}]

Init ==
    /\ Contract!Init
    /\ step = [c \in Callers |-> "idle"]
    /\ owner = [s \in Sessions |-> None]

Idle(c) == step[c] = "idle"

Goto(c, next) == step' = [step EXCEPT ![c] = next]

\* The session a caller is putting, and whether nobody else has it locked.
Target(c) == held[c].session
Unlocked(s) == owner[s] = None
Lock(c) == owner' = [owner EXCEPT ![Target(c)] = c]
Unlock(c) == owner' = [s \in Sessions |-> IF owner[s] = c THEN None ELSE owner[s]]

-----------------------------------------------------------------------------
\* Everything a caller does outside put is one statement, or none.

Open(c, s) == Idle(c) /\ Contract!Open(c, s) /\ UNCHANGED <<step, owner>>

get(c, s) == Idle(c) /\ Contract!Get(c, s) /\ UNCHANGED <<step, owner>>

Work(c, t) == Idle(c) /\ Contract!Work(c, t) /\ UNCHANGED <<step, owner>>

Release(c) == Idle(c) /\ Contract!Release(c) /\ UNCHANGED <<step, owner>>

-----------------------------------------------------------------------------
\* put

Conflict(c) == Contract!Refused(c) /\ Goto(c, "idle")

\* Step 1: read the version on disk and choose the branch.
SelectVersion(c) ==
    /\ held[c] # None /\ Idle(c)
    /\ held[c].version < MaxVersion
    /\ UNCHANGED owner
    /\ \/ /\ rows[Target(c)] = Absent
          /\ Goto(c, "insert")
          /\ UNCHANGED contractVars
       \/ /\ rows[Target(c)] # Absent
          /\ rows[Target(c)].version = held[c].version
          /\ Goto(c, "update")
          /\ UNCHANGED contractVars
       \/ /\ rows[Target(c)] # Absent
          /\ rows[Target(c)].version # held[c].version
          /\ Conflict(c)

\* The statement has the row, once whoever writes it has ended, and keeps it
\* locked until its own transaction ends.
TakeRow(c) ==
    /\ Unlocked(Target(c))
    /\ Lock(c) /\ Goto(c, "commit")
    /\ UNCHANGED contractVars

\* Step 2a: INSERT; the unique constraint reports a row created meanwhile.
Insert(c) ==
    /\ step[c] = "insert"
    /\ \/ rows[Target(c)] = Absent /\ TakeRow(c)
       \/ rows[Target(c)] # Absent /\ Conflict(c) /\ UNCHANGED owner

\* Step 2b: UPDATE ... WHERE version = expected; rowcount 0 is a conflict.
\* Mutant: UPDATE without "AND version = expected".
UpdateMatchesMutantUnversioned(c) == rows[Target(c)] # Absent

UpdateMatches(c) ==
    /\ rows[Target(c)] # Absent
    /\ rows[Target(c)].version = held[c].version

Update(c) ==
    /\ step[c] = "update"
    /\ \/ UpdateMatches(c) /\ TakeRow(c)
       \/ ~ UpdateMatches(c) /\ Conflict(c) /\ UNCHANGED owner

\* COMMIT publishes the row; only then is state.version bumped.
Commit(c) ==
    /\ step[c] = "commit"
    /\ Contract!Accepted(c)
    /\ Unlock(c) /\ Goto(c, "idle")

\* The COMMIT takes effect but its acknowledgement never arrives.
CommitUnacknowledged(c) ==
    /\ step[c] = "commit"
    /\ Contract!Written(c)
    /\ stale' = stale \cup Contract!Holders(Target(c))
    /\ result' = [result EXCEPT ![c] = "error"]
    /\ Unlock(c) /\ Goto(c, "idle")
    /\ UNCHANGED <<held, minted, acked, deleted>>

\* Mutants: the failed put leaves the version bumped, or the lock taken.
AbortMutantBumped(c) ==
    /\ ~ Idle(c)
    /\ held' = [held EXCEPT ![c].version = @ + 1]
    /\ result' = [result EXCEPT ![c] = "error"]
    /\ Unlock(c) /\ Goto(c, "idle")
    /\ UNCHANGED <<rows, minted, stale, acked, deleted>>

AbortMutantLocked(c) ==
    /\ ~ Idle(c)
    /\ result' = [result EXCEPT ![c] = "error"]
    /\ Goto(c, "idle")
    /\ UNCHANGED <<rows, held, minted, stale, acked, deleted, owner>>

\* A statement fails: the transaction is rolled back and put raises.
Abort(c) ==
    /\ ~ Idle(c)
    /\ result' = [result EXCEPT ![c] = "error"]
    /\ Unlock(c) /\ Goto(c, "idle")
    /\ UNCHANGED <<rows, held, minted, stale, acked, deleted>>

\* DELETE waits for a writer of the row; deleting and committing is one step,
\* for no statement of another transaction can come between with an effect.
delete(s) ==
    /\ Unlocked(s)
    /\ Contract!Delete(s)
    /\ UNCHANGED <<step, owner>>

-----------------------------------------------------------------------------
PutStep(c) == SelectVersion(c) \/ Insert(c) \/ Update(c) \/ Commit(c)

Next ==
    \/ \E c \in Callers, s \in Sessions : Open(c, s) \/ get(c, s)
    \/ \E c \in Callers, t \in Turns : Work(c, t)
    \/ \E c \in Callers : \/ PutStep(c) \/ CommitUnacknowledged(c) \/ Abort(c)
                          \/ Release(c)
    \/ \E s \in Sessions : delete(s)

\* A transaction that has begun goes on.  A statement waiting for a row is
\* served when the row is freed, for PostgreSQL queues the waiters of a lock
\* (strong fairness: the row may be taken and freed any number of times).
Fairness == \A c \in Callers :
    SF_vars(Insert(c)) /\ SF_vars(Update(c)) /\ WF_vars(Commit(c))

Spec == Init /\ [][Next]_vars /\ Fairness

-----------------------------------------------------------------------------
\* Properties

\* The stepwise put implements the atomic one of the contract: a commit never
\* overwrites a write made since the copy was read, whatever ran between
\* SELECT, INSERT/UPDATE and COMMIT, and a conflict is raised only if somebody
\* did write or delete the session.
ImplementsContract == Contract!Spec

\* A transaction about to commit is right about the row: its version has not
\* moved since the UPDATE matched, and no row appeared since the INSERT.
CommitSeesItsRow ==
    \A c \in Callers : step[c] = "commit" =>
        /\ owner[Target(c)] = c
        /\ rows[Target(c)] # Absent =>
             rows[Target(c)].version = held[c].version

\* Every put comes to an end: writers queue for one row and never wait for
\* each other in a circle.
PutsEnd == \A c \in Callers : ~ Idle(c) ~> Idle(c)
=============================================================================
