---------------------------- MODULE SessionStore ----------------------------
(***************************************************************************)
(* The contract of a session store, src/src/sessions/store.py: the         *)
(* Protocol class and the meaning it gives to SessionConflict ("someone    *)
(* else wrote between get and put").                                       *)
(*                                                                         *)
(* A caller is one request handler.  It holds at most one private copy of  *)
(* a ConversationState, obtained by Open (a new ConversationState(), with  *)
(* a fresh uuid4) or by Get, adds turns to it, and puts it back.  The      *)
(* content of a state is abstracted to the set of turns its messages       *)
(* record.                                                                 *)
(*                                                                         *)
(* What the contract promises is stated for a session that was never       *)
(* deleted: a put is accepted only when nobody wrote the session since the *)
(* caller obtained its copy, and refused only when somebody did.  After    *)
(* DELETE a put counts as a first write, whatever its version.             *)
(***************************************************************************)
EXTENDS SessionData

VARIABLES
    rows,     \* the stored states, by session
    held,     \* the copy each caller works on
    result,   \* how the caller's last put ended
    minted,   \* session ids given out by a ConversationState() so far
    stale,    \* history: callers whose session was written or deleted by
              \*   somebody since they obtained their copy or last put it
    acked,    \* history: turns whose put was acknowledged, since the delete
    deleted   \* history: sessions that were deleted at least once

vars == <<rows, held, result, minted, stale, acked, deleted>>

Row  == [version : Nat, doc : SUBSET Turns]
Copy == [session : Sessions, version : Nat, doc : SUBSET Turns]

TypeOK ==
    /\ rows \in [Sessions -> Row \cup {Absent}]
    /\ held \in [Callers -> Copy \cup {None}]
    /\ result \in [Callers -> {"none", "ok", "conflict", "error"}]
    /\ minted \subseteq Sessions
    /\ stale \subseteq Callers
    /\ acked \in [Sessions -> SUBSET Turns]
    /\ deleted \subseteq Sessions

Exists(s) == rows[s] # Absent

Holders(s) == {c \in Callers : held[c] # None /\ held[c].session = s}

\* Rows written by a build that had no version column were given version 0
\* by the migration, so a stored session may start there.
Init ==
    /\ \E legacy \in SUBSET Sessions :
        /\ rows = [s \in Sessions |->
                     IF s \in legacy THEN [version |-> 0, doc |-> {}] ELSE Absent]
        /\ minted = legacy
    /\ held = [c \in Callers |-> None]
    /\ result = [c \in Callers |-> "none"]
    /\ stale = {}
    /\ acked = [s \in Sessions |-> {}]
    /\ deleted = {}

-----------------------------------------------------------------------------
\* A caller obtains a copy, changes it, and is done with it.

Open(c, s) ==
    /\ held[c] = None
    /\ s \notin minted
    /\ minted' = minted \cup {s}
    /\ held' = [held EXCEPT ![c] = [session |-> s, version |-> 0, doc |-> {}]]
    /\ result' = [result EXCEPT ![c] = "none"]
    /\ UNCHANGED <<rows, stale, acked, deleted>>

Get(c, s) ==
    /\ held[c] = None
    /\ Exists(s)
    /\ held' = [held EXCEPT ![c] = [session |-> s, version |-> rows[s].version,
                                    doc |-> rows[s].doc]]
    /\ result' = [result EXCEPT ![c] = "none"]
    /\ UNCHANGED <<rows, minted, stale, acked, deleted>>

Work(c, t) ==
    /\ held[c] # None
    /\ held' = [held EXCEPT ![c].doc = @ \cup {t}]
    /\ UNCHANGED <<rows, result, minted, stale, acked, deleted>>

Release(c) ==
    /\ held[c] # None
    /\ held' = [held EXCEPT ![c] = None]
    /\ stale' = stale \ {c}
    /\ UNCHANGED <<rows, result, minted, acked, deleted>>

-----------------------------------------------------------------------------
\* The outcomes of put.  Written is the effect on the store.

Written(c) ==
    LET s == held[c].session
    IN  /\ held[c].version < MaxVersion
        /\ rows' = [rows EXCEPT ![s] = [version |-> held[c].version + 1,
                                        doc |-> held[c].doc]]

\* Success: the copy's version is bumped in place, so the caller may put again.
Accepted(c) ==
    LET s == held[c].session
    IN  /\ Written(c)
        /\ held' = [held EXCEPT ![c].version = @ + 1]
        /\ result' = [result EXCEPT ![c] = "ok"]
        /\ stale' = (stale \cup Holders(s)) \ {c}
        /\ acked' = [acked EXCEPT ![s] = @ \cup held[c].doc]
        /\ UNCHANGED <<minted, deleted>>

Refused(c) ==
    /\ result' = [result EXCEPT ![c] = "conflict"]
    /\ UNCHANGED <<rows, held, minted, stale, acked, deleted>>

PutOk(c) ==
    /\ held[c] # None
    /\ \/ ~ Exists(held[c].session)
       \/ c \notin stale
       \/ held[c].session \in deleted
    /\ Accepted(c)

PutConflict(c) ==
    /\ held[c] # None
    /\ c \in stale
    /\ Refused(c)

\* The store raised something else: the write may or may not have happened.
PutError(c) ==
    /\ held[c] # None
    /\ result' = [result EXCEPT ![c] = "error"]
    /\ UNCHANGED <<held, minted, acked, deleted>>
    /\ \/ UNCHANGED <<rows, stale>>
       \/ /\ \/ ~ Exists(held[c].session)
             \/ c \notin stale
             \/ held[c].session \in deleted
          /\ Written(c)
          /\ stale' = stale \cup Holders(held[c].session)

Delete(s) ==
    /\ Exists(s)
    /\ rows' = [rows EXCEPT ![s] = Absent]
    /\ stale' = stale \cup Holders(s)
    /\ acked' = [acked EXCEPT ![s] = {}]
    /\ deleted' = deleted \cup {s}
    /\ UNCHANGED <<held, result, minted>>

CallerStep(c) ==
    \/ \E s \in Sessions : Open(c, s) \/ Get(c, s)
    \/ \E t \in Turns : Work(c, t)
    \/ PutOk(c) \/ PutConflict(c) \/ PutError(c)
    \/ Release(c)

Next ==
    \/ \E c \in Callers : CallerStep(c)
    \/ \E s \in Sessions : Delete(s)

Spec == Init /\ [][Next]_vars

-----------------------------------------------------------------------------
\* Properties

\* No lost update: while a session has not been deleted, every turn whose put
\* was acknowledged stays in the stored conversation, however many callers
\* read, work and write at the same time.
AckedTurnsKept ==
    \A s \in Sessions \ deleted :
        acked[s] # {} => Exists(s) /\ acked[s] \subseteq rows[s].doc
=============================================================================
