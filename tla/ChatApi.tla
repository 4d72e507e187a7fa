------------------------------ MODULE ChatApi ------------------------------
(***************************************************************************)
(* The requests that write sessions, src/src/api/routes.py: POST /chat,    *)
(* POST /chat/stream and DELETE /sessions/{id}, composed with              *)
(* InMemorySessionStore.  Requests run concurrently on one event loop and  *)
(* change hands at every await and yield; a request works on its own copy  *)
(* of the conversation, the store is all they share.                       *)
(*                                                                         *)
(* A turn is reduced to what it may leave in the conversation: the         *)
(* question, and the answer to it.  AgentLoop and StreamLoop model how the *)
(* copy changes during the turn.                                           *)
(***************************************************************************)
EXTENDS Naturals

CONSTANTS Sessions,    \* session ids
          Requests,    \* chat requests
          MaxVersion,  \* bound on versions; two puts per request never reach it
          Absent,      \* no row for this session
          None         \* no session, no copy

VARIABLES rows, held, result, minted, stale, acked, deleted,
          pc,         \* where each request stands
          target,     \* the session it is about
          reply       \* what its client was told last

Turns == Requests \X {"asked", "answered"}

\* What SessionData assumes of the sentinels and the bound of the store.
ASSUME SentinelAssumption ==
    /\ Absent \notin [version : Nat, doc : SUBSET Turns]
    /\ None \notin [session : Sessions, version : Nat, doc : SUBSET Turns]
ASSUME MaxVersionAssumption == MaxVersion \in Nat

Store == INSTANCE InMemorySessionStore WITH Callers <- Requests

storeVars == <<rows, held, result, minted, stale, acked, deleted>>
vars == <<storeVars, pc, target, reply>>

Replies == {"none", "answer", "not_found", "conflict", "failed", "exceeded",
            "done", "done_exceeded", "error", "error_conflict"}

TypeOK ==
    /\ Store!TypeOK
    /\ pc \in [Requests -> {"new", "running", "put", "partial_put", "respond",
                            "preamble", "streaming", "done_put", "yield_done",
                            "backstop", "close", "closed"}]
    /\ target \in [Requests -> Sessions \cup {None}]
    /\ reply \in [Requests -> Replies]

Init ==
    /\ Store!Init
    /\ pc = [r \in Requests |-> "new"]
    /\ target = [r \in Requests |-> None]
    /\ reply = [r \in Requests |-> "none"]

Goto(r, from, to) == pc[r] = from /\ pc' = [pc EXCEPT ![r] = to]
Tell(r, what) == reply' = [reply EXCEPT ![r] = what]
Add(r, turns) == held' = [held EXCEPT ![r].doc = @ \cup turns]

Asked(r) == {<<r, "asked">>}
AskedAndAnswered(r) == Asked(r) \cup {<<r, "answered">>}

-----------------------------------------------------------------------------
\* The session of a request: a fresh one, a known one, or 404.

Start(r, s) ==
    /\ \E next \in {"running", "preamble"} : Goto(r, "new", next)
    /\ target' = [target EXCEPT ![r] = s]
    /\ UNCHANGED reply

StartNew(r, s) == Start(r, s) /\ Store!Open(r, s)

Resume(r, s) == Start(r, s) /\ Store!get(r, s)

Unknown(r, s) ==
    /\ rows[s] = Absent
    /\ Goto(r, "new", "closed")
    /\ target' = [target EXCEPT ![r] = s]
    /\ Tell(r, "not_found")
    /\ UNCHANGED <<storeVars>>

-----------------------------------------------------------------------------
\* POST /chat

Unchanged == UNCHANGED <<rows, result, minted, stale, acked, deleted, target>>

RunTurn(r) == Goto(r, "running", "put") /\ Add(r, AskedAndAnswered(r))
              /\ Unchanged /\ UNCHANGED reply

LoopExceeded(r) == Goto(r, "running", "partial_put") /\ Add(r, Asked(r))
                   /\ Unchanged /\ UNCHANGED reply

\* Mutant: /chat has a backstop put as well.
TurnRaisesMutantSaves(r) ==
    /\ Goto(r, "running", "backstop")
    /\ Tell(r, "failed")
    /\ Add(r, Asked(r))
    /\ Unchanged

\* Anything else that run_turn raises is a 500, without a put.
TurnRaises(r) ==
    /\ Goto(r, "running", "closed")
    /\ Tell(r, "failed")
    /\ Store!Contract!Release(r)
    /\ UNCHANGED target

Put(r) ==
    /\ \/ Goto(r, "put", "respond") \/ Goto(r, "partial_put", "close")
    /\ Store!put(r)
    /\ UNCHANGED target
    /\ IF pc[r] = "partial_put" THEN Tell(r, "exceeded") ELSE UNCHANGED reply

Respond(r) ==
    /\ Goto(r, "respond", "closed")
    /\ Tell(r, IF result[r] = "ok" THEN "answer" ELSE "conflict")
    /\ Store!Contract!Release(r)
    /\ UNCHANGED target

-----------------------------------------------------------------------------
\* POST /chat/stream

\* The session event precedes the try: a client that leaves on it leaves nothing.
Preamble(r) ==
    /\ Goto(r, "preamble", "streaming")
    /\ UNCHANGED <<storeVars, target, reply>>

LeaveAtPreamble(r) ==
    /\ Goto(r, "preamble", "closed")
    /\ Store!Contract!Release(r)
    /\ UNCHANGED <<target, reply>>

\* run_turn_stream yields done, with an answer or loop_exceeded.
StreamDone(r) ==
    /\ Goto(r, "streaming", "done_put")
    /\ \E turns \in {Asked(r), AskedAndAnswered(r)} : Add(r, turns)
    /\ Unchanged /\ UNCHANGED reply

\* It raises, or the client goes away; the client is told about the exception.
StreamStops(r) ==
    /\ Goto(r, "streaming", "backstop")
    /\ Add(r, Asked(r))
    /\ Tell(r, "error") \/ UNCHANGED reply
    /\ Unchanged

\* Mutant: the conflict is swallowed here already.
DonePutMutantSwallows(r) ==
    /\ Store!put(r)
    /\ Goto(r, "done_put", "yield_done")
    /\ UNCHANGED <<target, reply>>

\* The put before done; its SessionConflict becomes an error event.
DonePut(r) ==
    /\ Store!put(r)
    /\ IF Store!SameVersion(r)
       THEN Goto(r, "done_put", "yield_done") /\ UNCHANGED reply
       ELSE Goto(r, "done_put", "backstop") /\ Tell(r, "error_conflict")
    /\ UNCHANGED target

YieldDone(r) ==
    /\ Goto(r, "yield_done", "backstop")
    /\ Tell(r, IF <<r, "answered">> \in held[r].doc THEN "done" ELSE "done_exceeded")
    /\ UNCHANGED <<storeVars, target>>

\* The put in the finally block; SessionConflict is swallowed.
BackstopPut(r) ==
    /\ Goto(r, "backstop", "close")
    /\ Store!put(r)
    /\ UNCHANGED <<target, reply>>

Close(r) ==
    /\ Goto(r, "close", "closed")
    /\ Store!Contract!Release(r)
    /\ UNCHANGED <<target, reply>>

-----------------------------------------------------------------------------
\* DELETE /sessions/{id}

DeleteSession(s) ==
    /\ Store!delete(s)
    /\ UNCHANGED <<pc, target, reply>>

Arrive(r) == \E s \in Sessions : StartNew(r, s) \/ Resume(r, s) \/ Unknown(r, s)

Serve(r) ==
    \/ RunTurn(r) \/ LoopExceeded(r) \/ TurnRaises(r) \/ Put(r) \/ Respond(r)
    \/ Preamble(r) \/ StreamDone(r) \/ StreamStops(r)
    \/ DonePut(r) \/ YieldDone(r) \/ BackstopPut(r) \/ Close(r)

Next ==
    \/ \E r \in Requests : Arrive(r) \/ Serve(r) \/ LeaveAtPreamble(r)
    \/ \E s \in Sessions : DeleteSession(s)

Spec == Init /\ [][Next]_vars

-----------------------------------------------------------------------------
\* Properties

Stored(turns) == {s \in Sessions : rows[s] # Absent /\ turns \subseteq rows[s].doc}

\* What a client was told is true of the store, until its session is deleted:
\* once it got its answer (200, or done), question and answer are in the stored
\* conversation for good, although later turns and the request's own second put
\* rewrite the row.
AnsweredIsPersisted ==
    \A r \in Requests :
        reply[r] \in {"answer", "done"} /\ target[r] \notin deleted =>
            target[r] \in Stored(AskedAndAnswered(r))

\* "Your message was processed but not persisted" (409, session_conflict): such
\* a message is in no stored conversation, nor is that of a failed /chat, unless
\* the session was deleted meanwhile.
RefusedIsNotPersisted ==
    \A r \in Requests :
        reply[r] \in {"conflict", "error_conflict", "failed", "not_found"} =>
            Stored(Asked(r)) \subseteq deleted
=============================================================================
