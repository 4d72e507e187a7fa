----------------------------- MODULE WebClient -----------------------------
(***************************************************************************)
(* The chat page, src/web/app/page.tsx with lib/api.ts and lib/session.ts: *)
(* one browser tab, its localStorage, and the service as it looks from     *)
(* there.  A turn is one click on send; the handlers run on the browser's  *)
(* event loop, so each is a step, and while a turn is in flight the page   *)
(* can be reset ("New trip"), reloaded, or lose its connection, and the    *)
(* service can restart and forget every session.  localStorage may refuse  *)
(* to be read or written at any time, which the page does not notice.      *)
(*                                                                         *)
(* handleSubmit works with the session id it closed over when the turn was *)
(* submitted, not with the current one.                                    *)
(***************************************************************************)
EXTENDS Naturals, SequencesExt

CONSTANTS Sessions,  \* session ids the service may give out
          None,      \* no session id
          MaxTurns   \* bound on the turns submitted

ASSUME NoneAssumption == None \notin Sessions
ASSUME MaxTurnsAssumption == MaxTurns \in Nat

VARIABLES
    stored,     \* localStorage "ctp:session_id"
    sessionId,  \* React state
    left,       \* history: ids that the page and localStorage have both given up
    thread,     \* React state: messages
    turn,       \* the number of the latest turn
    phase,      \* "idle", "sync", "stream" (request sent), "events" (stream open)
    closure,    \* the session id handleSubmit closed over
    requested,  \* the session id of the request in flight
    serving,    \* the session the service works on for it
    sessions,   \* sessions in the store of the service
    minted,     \* ids the service has given out
    trace,      \* React state: the session whose trace the panel shows
    tracing,    \* the sessions whose trace is being fetched
    overtaken,  \* history: that trace came for another session than the current one
    log         \* history: the sessions that took the message of each turn

server == <<sessions, minted>>
panel == <<trace, tracing, overtaken>>
ids == <<stored, sessionId, left>>
vars == <<ids, thread, turn, phase, closure, requested, serving,
          server, panel, log>>

Message == [role : {"user", "assistant"}, turn : 1..MaxTurns, empty : BOOLEAN]

TypeOK ==
    /\ stored \in Sessions \cup {None}
    /\ sessionId \in Sessions \cup {None}
    /\ left \subseteq Sessions
    /\ thread \in Seq(Message)
    /\ turn \in 0..MaxTurns
    /\ phase \in {"idle", "sync", "stream", "events"}
    /\ {closure, requested, serving} \subseteq Sessions \cup {None}
    /\ sessions \subseteq minted
    /\ minted \subseteq Sessions
    /\ trace \in Sessions \cup {None}
    /\ tracing \subseteq Sessions
    /\ overtaken \in BOOLEAN
    /\ log \in [1..MaxTurns -> Seq(Sessions)]

\* A tab opened for the first time, or with an id left by an earlier visit.
Init ==
    /\ stored \in Sessions \cup {None}
    /\ sessionId \in {stored, None}
    /\ left = {}
    /\ minted = {stored} \ {None}
    /\ sessions \in SUBSET minted
    /\ thread = <<>>
    /\ turn = 0
    /\ phase = "idle"
    /\ closure = None /\ requested = None /\ serving = None
    /\ trace = None
    /\ tracing = {sessionId} \ {None}
    /\ overtaken = FALSE
    /\ log = [t \in 1..MaxTurns |-> <<>>]

Entry(role, empty) == [role |-> role, turn |-> turn, empty |-> empty]

\* The page and localStorage go on with these.
GoOnWith(newStored, newId) ==
    /\ stored' = newStored
    /\ sessionId' = newId
    /\ left' = left \cup ({stored, sessionId} \ {newStored, newId, None})

\* saveSessionId and setSessionId, clearSessionId and setSessionId(null); localStorage
\* may refuse the change.
Keep(id) == GoOnWith(id, id) \/ GoOnWith(stored, id)

\* Mutant: the answer is compared with the id the page has now.
KeepIfNewMutantCurrentId(id) ==
    IF id # sessionId THEN Keep(id) ELSE UNCHANGED ids

KeepIfNew(id) ==
    IF id # closure THEN Keep(id) ELSE UNCHANGED ids

\* setTrace(null), refreshTrace, and the effect that fetches the trace of a session the
\* page has just got if it shows none.
ClearTrace == trace' = None /\ overtaken' = FALSE

RefreshTrace(sessionIds) == tracing' = tracing \cup sessionIds /\ UNCHANGED <<trace, overtaken>>

TraceNewSession ==
    RefreshTrace(IF sessionId' # sessionId /\ trace = None THEN {sessionId'} ELSE {})

request == <<closure, requested, serving>>

\* The turn is over for the service, which saved the conversation.
Takes == /\ sessions' = sessions \cup {serving}
         /\ log' = [log EXCEPT ![turn] = Append(@, serving)]
         /\ UNCHANGED minted

-----------------------------------------------------------------------------
\* The user

Submit ==
    /\ phase = "idle"
    /\ turn < MaxTurns
    /\ turn' = turn + 1
    /\ closure' = sessionId
    /\ requested' = sessionId
    /\ serving' = None
    /\ LET question == [role |-> "user", turn |-> turn', empty |-> FALSE]
           bubble   == [role |-> "assistant", turn |-> turn', empty |-> TRUE]
       IN  \/ phase' = "sync" /\ thread' = Append(thread, question)
           \/ phase' = "stream" /\ thread' = thread \o <<question, bubble>>
    /\ UNCHANGED <<ids, server, panel, log>>

\* handleReset; the button needs a session.
Reset ==
    /\ sessionId # None
    /\ Keep(None)
    /\ thread' = <<>>
    /\ ClearTrace
    /\ UNCHANGED <<turn, phase, request, server, tracing, log>>

\* A reload: the page starts empty, with the stored id if it can be read.  The
\* request in flight is abandoned, whatever becomes of it on the service.
Reload ==
    /\ GoOnWith(stored, stored) \/ GoOnWith(stored, None)
    /\ thread' = <<>>
    /\ phase' = "idle"
    /\ ClearTrace
    /\ tracing' = {sessionId'} \ {None}
    /\ \/ phase # "idle" /\ serving # None /\ Takes
       \/ UNCHANGED <<log, server>>
    /\ UNCHANGED <<turn, request>>

-----------------------------------------------------------------------------
\* The service (external here, see ChatApi): a restart breaks off the request it
\* works on and forgets the sessions of the in-memory store; a request finds its
\* session, opens a fresh one, or is answered 404.

Restart ==
    /\ sessions' = {}
    /\ phase' = IF serving # None THEN "idle" ELSE phase
    /\ serving' = None
    /\ UNCHANGED <<ids, thread, turn, closure, requested, minted, panel, log>>

Accepts ==
    /\ phase \in {"sync", "stream"}
    /\ serving = None
    /\ \/ requested \in sessions /\ serving' = requested /\ UNCHANGED minted
       \/ /\ requested = None
          /\ \E s \in Sessions \ minted : serving' = s /\ minted' = minted \cup {s}
    /\ UNCHANGED <<ids, thread, turn, phase, closure, requested,
                   sessions, panel, log>>

-----------------------------------------------------------------------------
\* The rest of handleSubmit

\* Mutant: any failure of the first request is retried.
RetryFreshMutantAnyFailure ==
    /\ phase \in {"sync", "stream"}
    /\ requested # None
    /\ \/ requested \notin sessions /\ serving = None /\ UNCHANGED <<log, server>>
       \/ serving # None /\ Takes
    /\ Keep(None)
    /\ requested' = None
    /\ serving' = None
    /\ ClearTrace
    /\ UNCHANGED <<thread, turn, phase, closure, tracing>>

\* Mutant: the retry names the lost session again.
RetryFreshMutantSameId ==
    /\ phase \in {"sync", "stream"}
    /\ serving = None
    /\ requested # None /\ requested \notin sessions
    /\ Keep(None)
    /\ ClearTrace
    /\ UNCHANGED <<thread, turn, phase, request, server, tracing, log>>

\* Mutant: the retry is a new submit, which shows the question again.
RetryFreshMutantAsksAgain ==
    /\ phase \in {"sync", "stream"}
    /\ serving = None
    /\ requested # None /\ requested \notin sessions
    /\ Keep(None)
    /\ requested' = None
    /\ thread' = Append(thread, Entry("user", FALSE))
    /\ ClearTrace
    /\ UNCHANGED <<turn, phase, closure, serving, server, tracing, log>>

\* Mutant: the panel keeps what it shows.
RetryFreshMutantKeepsTrace ==
    /\ phase \in {"sync", "stream"}
    /\ serving = None
    /\ requested # None /\ requested \notin sessions
    /\ Keep(None)
    /\ requested' = None
    /\ UNCHANGED <<thread, turn, phase, closure, serving, server, panel, log>>

\* 404 for a session the service lost: drop the id and retry once without one.
RetryFresh ==
    /\ phase \in {"sync", "stream"}
    /\ serving = None
    /\ requested # None /\ requested \notin sessions
    /\ Keep(None)
    /\ requested' = None
    /\ ClearTrace
    /\ UNCHANGED <<thread, turn, phase, closure, serving, server, tracing, log>>

\* The answer to POST /chat.
SyncAnswer ==
    /\ phase = "sync" /\ serving # None
    /\ Takes
    /\ KeepIfNew(serving)
    /\ RefreshTrace({serving})
    /\ thread' = Append(thread, Entry("assistant", FALSE))
    /\ phase' = "idle"
    /\ UNCHANGED <<turn, request>>

\* The session event opens the stream.
StreamOpens ==
    /\ phase = "stream" /\ serving # None
    /\ KeepIfNew(serving)
    /\ TraceNewSession
    /\ phase' = "events"
    /\ UNCHANGED <<thread, turn, request, server, log>>

IsBubble(m) == m.role = "assistant" /\ m.turn = turn

\* Text goes to the bubble of the turn, if it is still there.
TextDelta ==
    /\ phase = "events"
    /\ thread' = [i \in 1..Len(thread) |->
                    IF IsBubble(thread[i]) THEN Entry("assistant", FALSE) ELSE thread[i]]
    /\ UNCHANGED <<ids, turn, phase, request, server, panel, log>>

StreamDone ==
    /\ phase = "events"
    /\ Takes
    /\ RefreshTrace({serving})
    /\ phase' = "idle"
    /\ UNCHANGED <<ids, thread, turn, request>>

\* The bubble of the turn goes if it is empty; it is the only entry with its id.
EmptyBubbles == {i \in 1..Len(thread) : IsBubble(thread[i]) /\ thread[i].empty}

DropEmptyBubble ==
    \/ \E i \in EmptyBubbles : thread' = RemoveAt(thread, i)
    \/ EmptyBubbles = {} /\ UNCHANGED thread

\* An error event; the service may have saved.
StreamError ==
    /\ phase = "events"
    /\ DropEmptyBubble
    /\ Takes \/ UNCHANGED <<log, server>>
    /\ phase' = "idle"
    /\ UNCHANGED <<ids, turn, request, panel>>

\* The request fails (409, 500, 504, no network) or the stream breaks off: the
\* page shows the error, whatever became of the turn on the service.
Fails ==
    /\ phase # "idle"
    /\ \/ serving # None /\ Takes
       \/ UNCHANGED <<log, server>>
    /\ phase' = "idle"
    /\ UNCHANGED <<ids, thread, turn, request, panel>>

\* The answer to GET /trace is shown, whatever the page has become meanwhile; 404 and
\* other failures change nothing.
TraceAnswers(id) ==
    /\ id \in tracing
    /\ tracing' = tracing \ {id}
    /\ \/ id \in sessions /\ trace' = id /\ overtaken' = (id # sessionId)
       \/ UNCHANGED <<trace, overtaken>>
    /\ UNCHANGED <<ids, thread, turn, phase, request, server, log>>

Handle == RetryFresh \/ SyncAnswer \/ StreamOpens \/ TextDelta \/ StreamDone
          \/ StreamError \/ Fails

Next == Submit \/ Reset \/ Reload \/ Restart \/ Accepts \/ Handle
        \/ \E id \in Sessions : TraceAnswers(id)

\* Requests are answered or fail; a stream does not go on for ever.
Spec ==
    /\ Init /\ [][Next]_vars
    /\ WF_vars(Accepts) /\ WF_vars(RetryFresh) /\ WF_vars(SyncAnswer)
    /\ WF_vars(StreamOpens) /\ WF_vars(StreamDone)

-----------------------------------------------------------------------------
\* Properties

\* A conversation that is over for the page stays over: an id that neither the page nor
\* localStorage holds any more - the trip was reset, the service had lost it, another one
\* was stored over it - never comes back, although the answer of a turn in flight, which
\* names its conversation, may arrive after all of these.
LeftForGood == {stored, sessionId} \cap left = {}

\* A message is taken by at most one conversation, and only once: the retry is
\* made for a request that had no effect.
AskedAtMostOnce == \A t \in 1..MaxTurns : Len(log[t]) <= 1

\* A turn always comes to an end, also when the service lost the session: the
\* request that replaces it names no session that could be lost.
TurnsSettle == phase # "idle" ~> phase = "idle"

\* The panel shows the trace of the current conversation.  Only an answer that was under
\* way when the page changed the conversation shows another one's: refreshTrace does
\* not look at the session again when the answer is there.
TraceIsCurrent == trace \in {None, sessionId} \/ overtaken

\* The thread reads as the conversation went: turns in order, the question of a
\* turn at most once and before its one answer, through retries, resets while a
\* turn is in flight and answers that come after them.
ThreadIsOrdered ==
    \A i, j \in 1..Len(thread) :
        i < j => \/ thread[i].turn < thread[j].turn
                 \/ /\ thread[i].turn = thread[j].turn
                    /\ thread[i].role = "user" /\ thread[j].role = "assistant"
=============================================================================
