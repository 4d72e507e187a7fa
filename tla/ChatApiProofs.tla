---------------------------- MODULE ChatApiProofs ----------------------------
(***************************************************************************)
(* Why clients of POST /chat and POST /chat/stream are told the truth: for *)
(* any number of sessions and concurrent requests, an answered turn is in  *)
(* the store and a refused one is not.                                     *)
(*                                                                         *)
(* The store's own invariants are those of InMemorySessionStoreProofs,     *)
(* taken here for the store the requests share.  What is added is where    *)
(* each request stands, what it was told, and whose turns have left its    *)
(* private copy.                                                           *)
(***************************************************************************)
EXTENDS ChatApi, TLAPS

SP == INSTANCE InMemorySessionStoreProofs WITH Callers <- Requests

\* The assumptions those proofs rest on hold of the store of ChatApi.
LEMMA StoreAssumptions == SP!SentinelAssumption /\ SP!MaxVersionAssumption
    BY SentinelAssumption, MaxVersionAssumption
    DEF SP!SentinelAssumption, SP!MaxVersionAssumption

StoreInv == SP!Inv /\ SP!Kept

\* What the later proofs use of the types of the store.
LEMMA StoreTypes ==
    ASSUME StoreInv
    PROVE  /\ rows \in [Sessions -> Store!Contract!Row \cup {Absent}]
           /\ held \in [Requests -> Store!Contract!Copy \cup {None}]
           /\ result \in [Requests -> {"none", "ok", "conflict", "error"}]
           /\ acked \in [Sessions -> SUBSET Turns]
           /\ stale \subseteq Requests /\ deleted \subseteq Sessions
           /\ Store!TypeOK
    BY DEF StoreInv, SP!Inv, SP!TypeOK, SP!Contract!TypeOK, SP!Contract!Row,
           SP!Contract!Copy, Store!TypeOK, Store!Contract!TypeOK,
           Store!Contract!Row, Store!Contract!Copy

LEMMA StoreInit == Store!Init => StoreInv
<1>1. Store!Init => SP!Init
    BY DEF Store!Init, SP!Init
<1>2. SP!Init => SP!Inv
    BY SP!InitInv, StoreAssumptions
<1>3. SP!Init => SP!Kept
    BY DEF SP!Init, SP!Kept, SP!CurrentCopiesExtendRows, SP!AckedTurnsKept,
           SP!Contract!AckedTurnsKept
<1>4. QED
    BY <1>1, <1>2, <1>3 DEF StoreInv

-----------------------------------------------------------------------------
\* The steps of the store

\* What one request does to the store and to its own copy: it opens or loads a
\* copy, adds turns of its own, puts it, drops it, or leaves all as it is.
OwnTurns(r) == {<<r, "asked">>, <<r, "answered">>}

AddsOwn(r) ==
    /\ held[r] # None
    /\ \E turns \in SUBSET OwnTurns(r) : Add(r, turns)
    /\ UNCHANGED <<rows, result, minted, stale, acked, deleted>>

StoreStep(r) ==
    \/ \E s \in Sessions : Store!Open(r, s) \/ Store!get(r, s)
    \/ AddsOwn(r)
    \/ Store!put(r)
    \/ Store!Contract!Release(r)
    \/ UNCHANGED storeVars

\* The two instances of the store have the same steps.
LEMMA SameSteps ==
    /\ \A r \in Requests, s \in Sessions :
          /\ Store!Open(r, s) => SP!Open(r, s)
          /\ Store!get(r, s) => SP!get(r, s)
    /\ \A r \in Requests :
          /\ Store!put(r) => SP!put(r)
          /\ Store!Contract!Release(r) => SP!Contract!Release(r)
    /\ \A s \in Sessions : Store!delete(s) => SP!delete(s)
<1>1. \A r \in Requests, s \in Sessions : Store!Open(r, s) => SP!Open(r, s)
    BY DEF Store!Open, SP!Open, Store!Contract!Open, SP!Contract!Open
<1>2. \A r \in Requests, s \in Sessions : Store!get(r, s) => SP!get(r, s)
    BY DEF Store!get, SP!get
<1>3. \A r \in Requests : Store!put(r) => SP!put(r)
    BY DEF Store!put, SP!put, Store!SameVersion, SP!SameVersion,
           Store!Contract!Accepted, SP!Contract!Accepted,
           Store!Contract!Written, SP!Contract!Written,
           Store!Contract!Refused, SP!Contract!Refused,
           Store!Contract!Holders, SP!Contract!Holders
<1>4. \A r \in Requests : Store!Contract!Release(r) => SP!Contract!Release(r)
    BY DEF Store!Contract!Release, SP!Contract!Release
<1>5. \A s \in Sessions : Store!delete(s) => SP!delete(s)
    BY DEF Store!delete, SP!delete, Store!Contract!Delete, SP!Contract!Delete,
           Store!Contract!Exists, SP!Contract!Exists,
           Store!Contract!Holders, SP!Contract!Holders
<1>6. QED
    BY <1>1, <1>2, <1>3, <1>4, <1>5

\* Adding turns to a copy is several of the store's Work steps at once.
LEMMA AddsOwnInv ==
    ASSUME StoreInv, NEW r \in Requests, AddsOwn(r)
    PROVE  /\ StoreInv'
           /\ held'[r] # None
           /\ held'[r].session = held[r].session
           /\ held'[r].version = held[r].version
           /\ held[r].doc \subseteq held'[r].doc
           /\ held'[r].doc \subseteq held[r].doc \cup OwnTurns(r)
<1>1. PICK turns \in SUBSET OwnTurns(r) : Add(r, turns)
    BY DEF AddsOwn
<1>2. held[r] \in Store!Contract!Copy /\ held[r] # None
    BY StoreTypes DEF AddsOwn
<1>3. turns \subseteq Turns
    BY DEF OwnTurns, Turns
<1>4. /\ [held[r] EXCEPT !.doc = @ \cup turns] \in Store!Contract!Copy
      /\ [held[r] EXCEPT !.doc = @ \cup turns].session = held[r].session
      /\ [held[r] EXCEPT !.doc = @ \cup turns].version = held[r].version
      /\ [held[r] EXCEPT !.doc = @ \cup turns].doc = held[r].doc \cup turns
    BY <1>2, <1>3 DEF Store!Contract!Copy
<1>5. /\ held'[r] = [held[r] EXCEPT !.doc = @ \cup turns]
      /\ \A d \in Requests \ {r} : held'[d] = held[d]
      /\ held' \in [Requests -> Store!Contract!Copy \cup {None}]
    BY <1>1, <1>4, StoreTypes DEF Add
<1>6. held'[r] # None
    BY <1>4, <1>5, SentinelAssumption DEF Store!Contract!Copy
<1>7. UNCHANGED <<rows, result, minted, stale, acked, deleted>>
    BY DEF AddsOwn
<1>8. SP!TypeOK'
    BY <1>5, <1>7 DEF StoreInv, SP!Inv, SP!TypeOK, SP!Contract!TypeOK, SP!Contract!Copy,
                      Store!Contract!Copy
<1>9. SP!IdsMinted'
    BY <1>2, <1>4, <1>5, <1>7 DEF StoreInv, SP!Inv, SP!IdsMinted
<1>10. SP!OnlyHoldersStale'
    BY <1>5, <1>6, <1>7, StoreTypes DEF StoreInv, SP!Inv, SP!OnlyHoldersStale
<1>11. SP!VersionsTellStaleness'
  <2> SUFFICES ASSUME NEW d \in Requests, held'[d] # None
               PROVE  /\ d \notin stale' => SP!UpToDate(d)'
                      /\ d \in stale' => SP!Overtaken(d)' \/ held'[d].session \in deleted'
    BY DEF SP!VersionsTellStaleness
  <2>1. /\ held[d] # None
        /\ held'[d].session = held[d].session
        /\ held'[d].version = held[d].version
    <3>1. CASE d = r
      BY <3>1, <1>2, <1>4, <1>5
    <3>2. CASE d # r
      BY <3>2, <1>5
    <3> QED
      BY <3>1, <3>2
  <2>2. /\ d \notin stale => SP!UpToDate(d)
        /\ d \in stale => SP!Overtaken(d) \/ held[d].session \in deleted
    BY <2>1 DEF StoreInv, SP!Inv, SP!VersionsTellStaleness
  <2> QED
    BY <2>1, <2>2, <1>7 DEF SP!UpToDate, SP!Overtaken
<1>12. SP!Kept'
  <2>1. SP!AckedTurnsKept'
    BY <1>7 DEF StoreInv, SP!Kept, SP!AckedTurnsKept, SP!Contract!AckedTurnsKept,
                SP!Contract!Exists
  <2>2. SP!CurrentCopiesExtendRows'
    <3> SUFFICES ASSUME NEW d \in Requests, held'[d] # None, d \notin stale',
                        rows'[held'[d].session] # Absent
                 PROVE  rows'[held'[d].session].doc \subseteq held'[d].doc
      BY DEF SP!CurrentCopiesExtendRows
    <3>1. /\ held[d] # None
          /\ held'[d].session = held[d].session
          /\ held[d].doc \subseteq held'[d].doc
      <4>1. CASE d = r
        BY <4>1, <1>2, <1>4, <1>5
      <4>2. CASE d # r
        BY <4>2, <1>5
      <4> QED
        BY <4>1, <4>2
    <3>2. rows[held[d].session].doc \subseteq held[d].doc
      BY <3>1, <1>7 DEF StoreInv, SP!Kept, SP!CurrentCopiesExtendRows
    <3> QED
      BY <3>1, <3>2, <1>7
  <2> QED
    BY <2>1, <2>2 DEF SP!Kept
<1>13. StoreInv'
    BY <1>8, <1>9, <1>10, <1>11, <1>12 DEF StoreInv, SP!Inv
<1>14. QED
    BY <1>4, <1>5, <1>6, <1>13

LEMMA StoreStepInv ==
    ASSUME StoreInv, \/ \E r \in Requests : StoreStep(r)
                     \/ \E s \in Sessions : Store!delete(s)
    PROVE  StoreInv'
<1>1. ASSUME SP!Next PROVE StoreInv'
    BY <1>1, StoreAssumptions, SP!NextInv, SP!NextKept DEF StoreInv
<1>2. ASSUME UNCHANGED storeVars PROVE StoreInv'
    <2>1. UNCHANGED SP!vars
        BY <1>2 DEF storeVars, SP!vars
    <2>2. QED
        BY <2>1, StoreAssumptions, SP!NextInv, SP!NextKept DEF StoreInv
<1>3. ASSUME NEW r \in Requests, StoreStep(r) PROVE StoreInv'
    BY <1>1, <1>2, <1>3, SameSteps, AddsOwnInv DEF StoreStep, SP!Next
<1>4. ASSUME NEW s \in Sessions, Store!delete(s) PROVE StoreInv'
    BY <1>1, <1>4, SameSteps DEF SP!Next
<1>5. QED
    BY <1>3, <1>4

-----------------------------------------------------------------------------
\* What is added to the store's invariants

\* Where a request stands: while it has a copy, the copy is of the session it
\* is about, with the question in it once it may be put; and the client of a
\* request still at work was told nothing, that of a stream in its finally block
\* nothing a refusal of /chat says.
Holding == {"running", "put", "partial_put", "respond", "preamble", "streaming",
            "done_put", "yield_done", "backstop", "close"}
Silent == {"new", "running", "put", "partial_put", "respond", "preamble",
           "streaming", "done_put", "yield_done"}

Standing(r) ==
    /\ pc[r] \in Holding => held[r] # None /\ held[r].session = target[r]
    /\ pc[r] = "put" => AskedAndAnswered(r) \subseteq held[r].doc
    /\ pc[r] \in {"done_put", "yield_done"} => Asked(r) \subseteq held[r].doc
    /\ pc[r] \in Silent => reply[r] = "none"
    /\ pc[r] = "backstop" =>
          reply[r] \in {"none", "error", "error_conflict", "done", "done_exceeded"}

\* What the client was told, or is about to be told, was acknowledged by the
\* store; and who was told of a conflict was overtaken.
Promised(r) ==
    /\ pc[r] = "respond" /\ result[r] = "ok" /\ target[r] \notin deleted
          => AskedAndAnswered(r) \subseteq acked[target[r]]
    /\ pc[r] = "yield_done" /\ target[r] \notin deleted
          => held[r].doc \subseteq acked[target[r]]
    /\ reply[r] \in {"answer", "done"} => target[r] \in Sessions
    /\ reply[r] \in {"answer", "done"} /\ target[r] \notin deleted
          => AskedAndAnswered(r) \subseteq acked[target[r]]
    /\ pc[r] = "backstop" /\ reply[r] = "error_conflict" => r \in stale

\* A request none of whose puts was accepted so far, and none will be if its
\* client was refused.
Unwritten(r) ==
    \/ pc[r] \in {"new", "running", "put", "partial_put", "preamble", "streaming",
                  "done_put"}
    \/ pc[r] = "respond" /\ result[r] # "ok"
    \/ pc[r] = "backstop" /\ reply[r] \notin {"done", "done_exceeded"}
    \/ reply[r] \in {"conflict", "error_conflict", "failed", "not_found"}

\* The question of a request is in no row, and in no copy but its own: of a
\* session not deleted.
OutOfRow(r, s) == rows[s] # Absent => <<r, "asked">> \notin rows[s].doc
OutOfCopy(r, q) ==
    held[q] # None /\ held[q].session \notin deleted => <<r, "asked">> \notin held[q].doc

Untouched(r) ==
    /\ \A s \in Sessions \ deleted : OutOfRow(r, s)
    /\ \A q \in Requests \ {r} : OutOfCopy(r, q)

RequestInv(r) == Standing(r) /\ Promised(r) /\ (Unwritten(r) => Untouched(r))

ReqInv == \A r \in Requests : RequestInv(r)

Inv == StoreInv /\ TypeOK /\ ReqInv

LEMMA InitInv == Init => Inv
<1> SUFFICES ASSUME Init PROVE Inv
  OBVIOUS
<1>1. StoreInv
  BY StoreInit DEF Init
<1>2. TypeOK
  BY <1>1, StoreTypes DEF Init, TypeOK, Replies
<1>3. ASSUME NEW r \in Requests PROVE RequestInv(r)
  <2>1. /\ pc[r] = "new" /\ reply[r] = "none"
        /\ \A s \in Sessions : rows[s] = Absent
        /\ \A q \in Requests : held[q] = None
    BY DEF Init, Store!Init
  <2>2. Standing(r)
    BY <2>1 DEF Standing, Holding
  <2>3. Promised(r)
    BY <2>1 DEF Promised
  <2>4. Untouched(r)
    BY <2>1 DEF Untouched, OutOfRow, OutOfCopy
  <2> QED
    BY <2>2, <2>3, <2>4 DEF RequestInv
<1> QED
  BY <1>1, <1>2, <1>3 DEF Inv, ReqInv

-----------------------------------------------------------------------------
\* The effects of the store's steps

\* One request's steps change no other's copy or result, make nobody current
\* again and take back no acknowledgement.
LEMMA StoreStepFrame ==
  ASSUME StoreInv, NEW r \in Requests, StoreStep(r)
  PROVE  /\ \A d \in Requests \ {r} : /\ held'[d] = held[d]
                                      /\ result'[d] = result[d]
                                      /\ d \in stale => d \in stale'
         /\ \A s \in Sessions : acked[s] \subseteq acked'[s]
         /\ deleted' = deleted
<1> USE StoreTypes
<1>1. ASSUME NEW s \in Sessions, Store!Open(r, s) \/ Store!get(r, s)
      PROVE  /\ \A d \in Requests \ {r} : held'[d] = held[d] /\ result'[d] = result[d]
             /\ UNCHANGED <<stale, acked, deleted>>
  BY <1>1 DEF Store!Open, Store!Contract!Open, Store!get
<1>2. ASSUME AddsOwn(r)
      PROVE  /\ \A d \in Requests \ {r} : held'[d] = held[d]
             /\ UNCHANGED <<result, stale, acked, deleted>>
  BY <1>2 DEF AddsOwn, Add
<1>3. ASSUME Store!put(r), Store!SameVersion(r)
      PROVE  /\ \A d \in Requests \ {r} : /\ held'[d] = held[d]
                                          /\ result'[d] = result[d]
                                          /\ d \in stale => d \in stale'
             /\ \A s \in Sessions : acked[s] \subseteq acked'[s]
             /\ UNCHANGED deleted
  BY <1>3 DEF Store!put, Store!Contract!Accepted
<1>4. ASSUME Store!put(r), ~ Store!SameVersion(r)
      PROVE  /\ \A d \in Requests \ {r} : result'[d] = result[d]
             /\ UNCHANGED <<held, stale, acked, deleted>>
  BY <1>4 DEF Store!put, Store!Contract!Refused
<1>5. ASSUME Store!Contract!Release(r)
      PROVE  /\ \A d \in Requests \ {r} : held'[d] = held[d] /\ (d \in stale => d \in stale')
             /\ UNCHANGED <<result, acked, deleted>>
  BY <1>5 DEF Store!Contract!Release
<1>6. ASSUME UNCHANGED storeVars
      PROVE  UNCHANGED <<held, result, stale, acked, deleted>>
  BY <1>6 DEF storeVars
<1> HIDE StoreTypes
<1> QED
  BY <1>1, <1>2, <1>3, <1>4, <1>5, <1>6 DEF StoreStep

LEMMA PutAccepted ==
  ASSUME StoreInv, NEW r \in Requests, Store!put(r), Store!SameVersion(r)
  PROVE  /\ held'[r] # None
         /\ held'[r].session = held[r].session /\ held'[r].doc = held[r].doc
         /\ held[r].session \in Sessions
         /\ result'[r] = "ok"
         /\ held[r].doc \subseteq acked'[held[r].session]
         /\ rows'[held[r].session].doc = held[r].doc
         /\ \A s \in Sessions \ {held[r].session} : rows'[s] = rows[s]
<1> DEFINE s == held[r].session
<1>1. held[r] \in Store!Contract!Copy /\ s \in Sessions /\ held[r].version \in Nat
  BY StoreTypes DEF Store!put, Store!Contract!Copy
<1>2. Store!Contract!Accepted(r)
  BY DEF Store!put
<1>3. /\ held'[r] = [held[r] EXCEPT !.version = @ + 1]
      /\ result'[r] = "ok"
      /\ acked'[s] = acked[s] \cup held[r].doc
  BY <1>1, <1>2, StoreTypes DEF Store!Contract!Accepted
<1>4. /\ held'[r] \in Store!Contract!Copy
      /\ held'[r].session = s /\ held'[r].doc = held[r].doc
  BY <1>1, <1>3 DEF Store!Contract!Copy
<1>5. held'[r] # None
  BY <1>4, SentinelAssumption DEF Store!Contract!Copy
<1>6. /\ rows'[s] = [version |-> held[r].version + 1, doc |-> held[r].doc]
      /\ \A x \in Sessions \ {s} : rows'[x] = rows[x]
  BY <1>1, <1>2, StoreTypes DEF Store!Contract!Accepted, Store!Contract!Written
<1> QED
  BY <1>1, <1>3, <1>4, <1>5, <1>6

\* A refusal is of a request that was overtaken.
LEMMA PutRefused ==
  ASSUME StoreInv, NEW r \in Requests, Store!put(r), ~ Store!SameVersion(r)
  PROVE  /\ UNCHANGED <<rows, held, stale, acked, deleted>>
         /\ result'[r] = "conflict"
         /\ r \in stale'
<1>1. Store!Contract!Refused(r) /\ held[r] # None
  BY DEF Store!put
<1>2. result'[r] = "conflict"
  BY <1>1, StoreTypes DEF Store!Contract!Refused
<1>3. ~ SP!UpToDate(r)
  BY DEF Store!SameVersion, SP!UpToDate
<1>4. r \in stale
  BY <1>1, <1>3 DEF StoreInv, SP!Inv, SP!VersionsTellStaleness
<1> QED
  BY <1>1, <1>2, <1>4 DEF Store!Contract!Refused

\* A request that was overtaken gets no put accepted, unless by a delete.
LEMMA StaleIsRefused ==
  ASSUME StoreInv, NEW r \in Requests, Store!put(r), r \in stale,
         held[r].session \notin deleted
  PROVE  ~ Store!SameVersion(r)
<1>1. held[r] \in Store!Contract!Copy /\ held[r].session \in Sessions /\ held[r].version \in Nat
  BY StoreTypes DEF Store!put, Store!Contract!Copy
<1>2. SP!Overtaken(r)
  BY DEF StoreInv, SP!Inv, SP!VersionsTellStaleness, Store!put
<1> QED
  BY <1>1, <1>2 DEF SP!Overtaken, Store!SameVersion

-----------------------------------------------------------------------------
\* The steps of requests

Step(r) == Arrive(r) \/ Serve(r) \/ LeaveAtPreamble(r)

\* A request's step is one of the store's, and moves that request only.
LEMMA StepsOfStore ==
  ASSUME Inv, NEW r \in Requests, Step(r)
  PROVE  StoreStep(r)
<1>1. ASSUME pc[r] \in Holding PROVE held[r] # None
  BY <1>1 DEF Inv, ReqInv, RequestInv, Standing
<1>2. ASSUME Arrive(r) PROVE StoreStep(r)
  BY <1>2 DEF Arrive, StartNew, Resume, Unknown, StoreStep, storeVars
<1>3. ASSUME \/ RunTurn(r) \/ LoopExceeded(r) \/ StreamDone(r) \/ StreamStops(r)
      PROVE  StoreStep(r)
  <2>1. held[r] # None
    BY <1>1, <1>3 DEF RunTurn, LoopExceeded, StreamDone, StreamStops, Goto, Holding
  <2>2. \E turns \in SUBSET OwnTurns(r) : Add(r, turns)
    <3>1. Asked(r) \in SUBSET OwnTurns(r) /\ AskedAndAnswered(r) \in SUBSET OwnTurns(r)
      BY DEF Asked, AskedAndAnswered, OwnTurns
    <3> QED
      BY <1>3, <3>1 DEF RunTurn, LoopExceeded, StreamDone, StreamStops
  <2>3. UNCHANGED <<rows, result, minted, stale, acked, deleted>>
    BY <1>3 DEF RunTurn, LoopExceeded, StreamDone, StreamStops, Unchanged
  <2> QED
    BY <2>1, <2>2, <2>3 DEF AddsOwn, StoreStep
<1>4. ASSUME Put(r) \/ DonePut(r) \/ BackstopPut(r) PROVE StoreStep(r)
  BY <1>4 DEF Put, DonePut, BackstopPut, StoreStep
<1>5. ASSUME TurnRaises(r) \/ Respond(r) \/ Close(r) \/ LeaveAtPreamble(r)
      PROVE  StoreStep(r)
  BY <1>5 DEF TurnRaises, Respond, Close, LeaveAtPreamble, StoreStep
<1>6. ASSUME Preamble(r) \/ YieldDone(r) PROVE StoreStep(r)
  BY <1>6 DEF Preamble, YieldDone, StoreStep, storeVars
<1> QED
  BY <1>2, <1>3, <1>4, <1>5, <1>6 DEF Step, Serve

Moves(r) ==
    /\ \E where \in {"new", "running", "put", "partial_put", "respond", "preamble",
                     "streaming", "done_put", "yield_done", "backstop", "close", "closed"} :
          pc' = [pc EXCEPT ![r] = where]
    /\ \E s \in Sessions \cup {None} : target' = [target EXCEPT ![r] = s]
    /\ \E what \in Replies : reply' = [reply EXCEPT ![r] = what]

LEMMA StepsMove ==
  ASSUME TypeOK, NEW r \in Requests, Step(r)
  PROVE  Moves(r)
<1>1. /\ pc' = [pc EXCEPT ![r] = pc'[r]]
      /\ pc'[r] \in {"new", "running", "put", "partial_put", "respond", "preamble",
                     "streaming", "done_put", "yield_done", "backstop", "close", "closed"}
  BY DEF TypeOK, Step, Arrive, StartNew, Resume, Start, Unknown, Serve, RunTurn,
         LoopExceeded, TurnRaises, Put, Respond, Preamble, LeaveAtPreamble, StreamDone,
         StreamStops, DonePut, YieldDone, BackstopPut, Close, Goto
<1>2. \/ UNCHANGED target
      \/ \E s \in Sessions : target' = [target EXCEPT ![r] = s]
  BY DEF Step, Arrive, StartNew, Resume, Start, Unknown, Serve, RunTurn,
         LoopExceeded, TurnRaises, Put, Respond, Preamble, LeaveAtPreamble, StreamDone,
         StreamStops, DonePut, YieldDone, BackstopPut, Close, Unchanged
<1>3. \/ UNCHANGED reply
      \/ \E what \in Replies : reply' = [reply EXCEPT ![r] = what]
  BY DEF Step, Arrive, StartNew, Resume, Start, Unknown, Serve, RunTurn,
         LoopExceeded, TurnRaises, Put, Respond, Preamble, LeaveAtPreamble, StreamDone,
         StreamStops, DonePut, YieldDone, BackstopPut, Close, Tell, Replies
<1>4. \E s \in Sessions \cup {None} : target' = [target EXCEPT ![r] = s]
  BY <1>2 DEF TypeOK
<1>5. \E what \in Replies : reply' = [reply EXCEPT ![r] = what]
  BY <1>3 DEF TypeOK
<1> QED
  BY <1>1, <1>4, <1>5 DEF Moves

LEMMA StepFrame ==
  ASSUME Inv, NEW r \in Requests, Step(r), NEW d \in Requests \ {r}
  PROVE  UNCHANGED <<pc[d], target[d], reply[d], held[d], result[d]>>
<1>1. UNCHANGED <<pc[d], target[d], reply[d]>>
  BY StepsMove DEF Inv, Moves, TypeOK
<1>2. UNCHANGED <<held[d], result[d]>>
  BY StepsOfStore, StoreStepFrame DEF Inv
<1> QED
  BY <1>1, <1>2

LEMMA TypeStep ==
  ASSUME Inv, NEW r \in Requests, Step(r) PROVE StoreInv' /\ TypeOK'
<1>1. StoreInv'
  BY StepsOfStore, StoreStepInv DEF Inv
<1>2. Store!TypeOK'
  BY <1>1, StoreTypes DEF StoreInv, SP!Inv, SP!TypeOK, SP!Contract!TypeOK, SP!Contract!Row,
         SP!Contract!Copy, Store!TypeOK, Store!Contract!TypeOK,
         Store!Contract!Row, Store!Contract!Copy
<1>3. Moves(r)
  BY StepsMove DEF Inv
<1>4. TypeOK'
  BY <1>2, <1>3 DEF Inv, TypeOK, Moves
<1> QED
  BY <1>1, <1>4

\* Where the others stand, and what they were told.
LEMMA OthersStep ==
  ASSUME Inv, NEW r \in Requests, Step(r), NEW d \in Requests \ {r}
  PROVE  Standing(d)' /\ Promised(d)'
<1>1. UNCHANGED <<pc[d], target[d], reply[d], held[d], result[d]>>
  BY StepFrame
<1>2. /\ \A s \in Sessions : acked[s] \subseteq acked'[s]
      /\ d \in stale => d \in stale'
      /\ deleted' = deleted
  BY StepsOfStore, StoreStepFrame DEF Inv
<1>3. Standing(d) /\ Promised(d)
  BY DEF Inv, ReqInv, RequestInv
<1>4. Standing(d)'
  BY <1>1, <1>3 DEF Standing
<1>5. pc[d] \in Holding => target[d] \in Sessions
  BY <1>3, StoreTypes DEF Standing, Inv, Store!Contract!Copy
<1>6. Promised(d)'
  BY <1>1, <1>2, <1>3, <1>5 DEF Promised, Holding
<1> QED
  BY <1>4, <1>6

\* Where the request itself stands after its step, one lemma per kind of step.
Own(r) == Standing(r) /\ Promised(r)

\* It obtained a copy of s, or s is unknown.
LEMMA ArriveOwn ==
  ASSUME Inv, NEW r \in Requests, Arrive(r) PROVE Own(r)'
<1>1. PICK s \in Sessions : StartNew(r, s) \/ Resume(r, s) \/ Unknown(r, s)
  BY DEF Arrive
<1>2. pc[r] = "new" /\ reply[r] = "none"
  BY <1>1 DEF Inv, ReqInv, RequestInv, Standing, Silent, StartNew, Resume, Start,
              Unknown, Goto
<1>3. target'[r] = s
  BY <1>1 DEF Inv, TypeOK, StartNew, Resume, Start, Unknown
<1>4. ASSUME StartNew(r, s) \/ Resume(r, s) PROVE Own(r)'
  <2>1. pc'[r] \in {"running", "preamble"} /\ reply'[r] = "none"
    BY <1>2, <1>4 DEF Inv, TypeOK, StartNew, Resume, Start, Goto
  <2>2. held'[r] # None /\ held'[r].session = s
    <3>1. ASSUME Store!Open(r, s) PROVE held'[r] # None /\ held'[r].session = s
      <4>1. held'[r] = [session |-> s, version |-> 0, doc |-> {}]
        BY <3>1, StoreTypes DEF Inv, Store!Open, Store!Contract!Open
      <4> QED
        BY <4>1, SentinelAssumption
    <3>2. ASSUME Store!get(r, s) PROVE held'[r] # None /\ held'[r].session = s
      <4>1. /\ held'[r] = [session |-> s, version |-> rows[s].version, doc |-> rows[s].doc]
            /\ rows[s] \in Store!Contract!Row
        BY <3>2, StoreTypes DEF Inv, Store!get
      <4> QED
        BY <4>1, SentinelAssumption DEF Store!Contract!Row
    <3> QED
      BY <1>4, <3>1, <3>2 DEF StartNew, Resume
  <2> QED
    BY <2>1, <2>2, <1>3 DEF Own, Standing, Promised, Holding
<1>5. ASSUME Unknown(r, s) PROVE Own(r)'
  <2>1. pc'[r] = "closed" /\ reply'[r] = "not_found"
    BY <1>5 DEF Inv, TypeOK, Unknown, Goto, Tell
  <2> QED
    BY <2>1 DEF Own, Standing, Promised, Holding, Silent
<1> QED
  BY <1>1, <1>4, <1>5

\* It added turns to its copy.
LEMMA WorkOwn ==
  ASSUME Inv, NEW r \in Requests,
         RunTurn(r) \/ LoopExceeded(r) \/ StreamDone(r) \/ StreamStops(r)
  PROVE  Own(r)'
<1>1. /\ pc[r] \in {"running", "streaming"} /\ reply[r] = "none"
      /\ held[r] # None /\ held[r].session = target[r]
  BY DEF Inv, ReqInv, RequestInv, Standing, Silent, Holding, Goto, RunTurn, LoopExceeded,
         StreamDone, StreamStops
<1>2. PICK turns \in {Asked(r), AskedAndAnswered(r)} :
          Add(r, turns) /\ (pc'[r] = "put" => turns = AskedAndAnswered(r))
  BY DEF Inv, TypeOK, RunTurn, LoopExceeded, StreamDone, StreamStops, Goto
<1>3. /\ pc'[r] \in {"put", "partial_put", "done_put", "backstop"}
      /\ target' = target
      /\ reply'[r] \in {"none", "error"}
      /\ reply'[r] # "none" => pc'[r] = "backstop"
  BY <1>1 DEF Inv, TypeOK, RunTurn, LoopExceeded, StreamDone, StreamStops, Goto, Tell, Unchanged
<1>4. held[r] \in Store!Contract!Copy
  BY <1>1, StoreTypes DEF Inv
<1>5. /\ held'[r].session = held[r].session
      /\ held'[r].doc = held[r].doc \cup turns
  BY <1>2, <1>4, StoreTypes DEF Inv, Add, Store!Contract!Copy
<1>6. held'[r] # None
  <2>1. AddsOwn(r)
    <3>1. Asked(r) \in SUBSET OwnTurns(r) /\ AskedAndAnswered(r) \in SUBSET OwnTurns(r)
      BY DEF Asked, AskedAndAnswered, OwnTurns
    <3>2. UNCHANGED <<rows, result, minted, stale, acked, deleted>>
      BY DEF RunTurn, LoopExceeded, StreamDone, StreamStops, Unchanged
    <3> QED
      BY <1>1, <1>2, <3>1, <3>2 DEF AddsOwn
  <2> QED
    BY <2>1, AddsOwnInv DEF Inv
<1>7. Standing(r)'
  BY <1>1, <1>2, <1>3, <1>5, <1>6 DEF Standing, Holding, Silent, Asked, AskedAndAnswered
<1>8. Promised(r)'
  BY <1>3 DEF Promised
<1> QED
  BY <1>7, <1>8 DEF Own

\* Its put was accepted.
LEMMA AcceptedOwn ==
  ASSUME Inv, NEW r \in Requests, Put(r) \/ DonePut(r) \/ BackstopPut(r),
         Store!SameVersion(r)
  PROVE  Own(r)'
<1>1. Store!put(r)
  BY DEF Put, DonePut, BackstopPut
<1>2. /\ pc[r] \in {"put", "partial_put", "done_put", "backstop"}
      /\ held[r].session = target[r]
      /\ target' = target
      /\ Standing(r) /\ Promised(r)
  BY DEF Inv, ReqInv, RequestInv, Standing, Holding, Put, DonePut, BackstopPut, Goto
<1>3. /\ held'[r] # None
      /\ held'[r].session = held[r].session /\ held'[r].doc = held[r].doc
      /\ target[r] \in Sessions
      /\ held[r].doc \subseteq acked'[target[r]]
  BY <1>1, <1>2, PutAccepted DEF Inv
<1>4. acked[target[r]] \subseteq acked'[target[r]] /\ deleted' = deleted
  BY <1>1, <1>3, StoreStepFrame DEF Inv, StoreStep
<1>5. CASE Put(r)
  <2>1. \/ pc'[r] = "respond" /\ pc[r] = "put" /\ reply' = reply
        \/ pc'[r] = "close" /\ pc[r] = "partial_put" /\ reply'[r] = "exceeded"
    BY <1>5 DEF Put, Goto, Tell, Inv, TypeOK
  <2> QED
    BY <1>2, <1>3, <2>1 DEF Own, Standing, Promised, Holding, Silent
<1>6. CASE DonePut(r)
  <2>1. pc'[r] = "yield_done" /\ reply' = reply /\ pc[r] = "done_put"
    BY <1>6 DEF DonePut, Goto, Inv, TypeOK
  <2> QED
    BY <1>2, <1>3, <2>1 DEF Own, Standing, Promised, Holding, Silent
<1>7. CASE BackstopPut(r)
  <2>1. pc'[r] = "close" /\ reply' = reply /\ pc[r] = "backstop"
    BY <1>7 DEF BackstopPut, Goto, Inv, TypeOK
  <2> QED
    BY <1>2, <1>3, <1>4, <2>1 DEF Own, Standing, Promised, Holding, Silent
<1> QED
  BY <1>5, <1>6, <1>7

\* Its put was refused.
LEMMA RefusedOwn ==
  ASSUME Inv, NEW r \in Requests, Put(r) \/ DonePut(r) \/ BackstopPut(r),
         ~ Store!SameVersion(r)
  PROVE  Own(r)'
<1>1. Store!put(r)
  BY DEF Put, DonePut, BackstopPut
<1>2. /\ pc[r] \in {"put", "partial_put", "done_put", "backstop"}
      /\ target' = target
      /\ Standing(r) /\ Promised(r)
  BY DEF Inv, ReqInv, RequestInv, Put, DonePut, BackstopPut, Goto
<1>3. /\ UNCHANGED <<held, stale, acked, deleted>>
      /\ result'[r] = "conflict"
      /\ r \in stale'
  BY <1>1, PutRefused DEF Inv
<1>4. CASE Put(r)
  <2>1. \/ pc'[r] = "respond" /\ pc[r] = "put" /\ reply' = reply
        \/ pc'[r] = "close" /\ pc[r] = "partial_put" /\ reply'[r] = "exceeded"
    BY <1>4 DEF Put, Goto, Tell, Inv, TypeOK
  <2> QED
    BY <1>2, <1>3, <2>1 DEF Own, Standing, Promised, Holding, Silent
<1>5. CASE DonePut(r)
  <2>1. pc'[r] = "backstop" /\ reply'[r] = "error_conflict" /\ pc[r] = "done_put"
    BY <1>5 DEF DonePut, Goto, Tell, Inv, TypeOK
  <2> QED
    BY <1>2, <1>3, <2>1 DEF Own, Standing, Promised, Holding, Silent
<1>6. CASE BackstopPut(r)
  <2>1. pc'[r] = "close" /\ reply' = reply /\ pc[r] = "backstop"
    BY <1>6 DEF BackstopPut, Goto, Inv, TypeOK
  <2> QED
    BY <1>2, <1>3, <2>1 DEF Own, Standing, Promised, Holding, Silent
<1> QED
  BY <1>4, <1>5, <1>6

\* It told its client how the turn ended, and dropped its copy or goes on.
LEMMA TellOwn ==
  ASSUME Inv, NEW r \in Requests,
         \/ TurnRaises(r) \/ Respond(r) \/ Preamble(r) \/ LeaveAtPreamble(r)
         \/ YieldDone(r) \/ Close(r)
  PROVE  Own(r)'
<1>1. /\ Standing(r) /\ Promised(r)
      /\ pc[r] \in Holding /\ target' = target
      /\ UNCHANGED <<acked, deleted>>
  BY DEF Inv, ReqInv, RequestInv, Holding, Goto, TurnRaises, Respond, Preamble,
         LeaveAtPreamble, YieldDone, Close, Store!Contract!Release, storeVars
<1>2. target[r] \in Sessions /\ held[r].session = target[r] /\ held[r] # None
  BY <1>1, StoreTypes DEF Inv, Standing, Store!Contract!Copy
<1>3. CASE Respond(r)
  <2>1. /\ pc[r] = "respond" /\ pc'[r] = "closed"
        /\ reply'[r] = IF result[r] = "ok" THEN "answer" ELSE "conflict"
    BY <1>3 DEF Respond, Goto, Tell, Inv, TypeOK
  <2> QED
    BY <1>1, <1>2, <2>1 DEF Own, Standing, Promised, Holding, Silent
<1>4. CASE YieldDone(r)
  <2>1. /\ pc[r] = "yield_done" /\ pc'[r] = "backstop" /\ held' = held
        /\ reply'[r] = IF <<r, "answered">> \in held[r].doc THEN "done" ELSE "done_exceeded"
    BY <1>4 DEF YieldDone, Goto, Tell, Inv, TypeOK, storeVars
  <2>2. reply'[r] = "done" => AskedAndAnswered(r) \subseteq held[r].doc
    BY <1>1, <2>1 DEF Standing, Asked, AskedAndAnswered
  <2> QED
    BY <1>1, <1>2, <2>1, <2>2 DEF Own, Standing, Promised, Holding, Silent
<1>5. CASE TurnRaises(r)
  <2>1. pc'[r] = "closed" /\ reply'[r] = "failed"
    BY <1>5 DEF TurnRaises, Goto, Tell, Inv, TypeOK
  <2> QED
    BY <2>1 DEF Own, Standing, Promised, Holding, Silent
<1>6. CASE Preamble(r)
  <2>1. pc[r] = "preamble" /\ pc'[r] = "streaming" /\ reply' = reply /\ held' = held
    BY <1>6 DEF Preamble, Goto, Inv, TypeOK, storeVars
  <2> QED
    BY <1>1, <1>2, <2>1 DEF Own, Standing, Promised, Holding, Silent
<1>7. CASE LeaveAtPreamble(r) \/ Close(r)
  <2>1. pc'[r] = "closed" /\ reply' = reply
    BY <1>7 DEF LeaveAtPreamble, Close, Goto, Inv, TypeOK
  <2> QED
    BY <1>1, <1>2, <2>1 DEF Own, Standing, Promised, Holding, Silent
<1> QED
  BY <1>3, <1>4, <1>5, <1>6, <1>7

LEMMA OwnStep ==
  ASSUME Inv, NEW r \in Requests, Step(r) PROVE Standing(r)' /\ Promised(r)'
<1>1. Own(r)'
  BY ArriveOwn, WorkOwn, AcceptedOwn, RefusedOwn, TellOwn DEF Step, Serve
<1> QED
  BY <1>1 DEF Own

-----------------------------------------------------------------------------
\* Where the question of a refused request cannot be

\* A request that comes out unwritten was unwritten before.
LEMMA UnwrittenBefore ==
  ASSUME Inv, NEW r \in Requests, Step(r), Unwritten(r)' PROVE Unwritten(r)
<1>1. CASE pc[r] \in {"new", "running", "put", "partial_put", "preamble", "streaming",
                      "done_put"}
  BY <1>1 DEF Unwritten
<1>2. CASE Respond(r)
  BY <1>2 DEF Respond, Goto, Tell, Inv, TypeOK, Unwritten
<1>3. CASE YieldDone(r)
  BY <1>3 DEF YieldDone, Goto, Tell, Inv, TypeOK, Unwritten
<1>4. CASE BackstopPut(r) \/ Close(r)
  BY <1>4 DEF BackstopPut, Close, Goto, Inv, TypeOK, Unwritten
<1> QED
  BY <1>1, <1>2, <1>3, <1>4
     DEF Step, Arrive, StartNew, Resume, Start, Unknown, Serve, RunTurn, LoopExceeded,
         TurnRaises, Put, Preamble, LeaveAtPreamble, StreamDone, StreamStops, DonePut, Goto

\* Its own step puts the question in no row.
LEMMA OwnUntouched ==
  ASSUME Inv, NEW r \in Requests, Step(r), Unwritten(r)', Untouched(r)
  PROVE  Untouched(r)'
<1>1. /\ \A q \in Requests \ {r} : held'[q] = held[q]
      /\ deleted' = deleted
  BY StepsOfStore, StoreStepFrame DEF Inv
<1>2. ASSUME NEW s \in Sessions \ deleted PROVE rows'[s] = rows[s]
  <2>1. CASE ~ (Put(r) \/ DonePut(r) \/ BackstopPut(r))
    BY <2>1
       DEF Step, Arrive, StartNew, Resume, Unknown, Serve, RunTurn, LoopExceeded,
           TurnRaises, Respond, Preamble, LeaveAtPreamble, StreamDone, StreamStops,
           YieldDone, Close, Unchanged, Store!Open, Store!Contract!Open, Store!get,
           Store!Contract!Release, storeVars
  <2>2. CASE Put(r) \/ DonePut(r) \/ BackstopPut(r)
    <3>1. Store!put(r)
      BY <2>2 DEF Put, DonePut, BackstopPut
    <3>2. CASE ~ Store!SameVersion(r)
      BY <3>1, <3>2, PutRefused DEF Inv
    <3>3. CASE Store!SameVersion(r)
      <4>1. /\ result'[r] = "ok"
            /\ \A x \in Sessions \ {held[r].session} : rows'[x] = rows[x]
        BY <3>1, <3>3, PutAccepted DEF Inv
      <4>2. Standing(r) /\ Promised(r)
        BY DEF Inv, ReqInv, RequestInv
      <4>3. ~ Put(r)
        BY <4>1, <4>2 DEF Put, Goto, Tell, Inv, TypeOK, Unwritten, Standing, Silent
      <4>4. ~ DonePut(r)
        BY <3>3, <4>2 DEF DonePut, Goto, Inv, TypeOK, Unwritten, Standing, Silent
      <4>5. BackstopPut(r)
        BY <2>2, <4>3, <4>4
      <4>6. pc[r] = "backstop" /\ pc'[r] = "close" /\ reply' = reply
        BY <4>5 DEF BackstopPut, Goto, Inv, TypeOK
      <4>7. reply[r] = "error_conflict"
        BY <4>2, <4>6 DEF Unwritten, Standing
      <4>8. r \in stale /\ held[r].session = target[r]
        BY <4>2, <4>6, <4>7 DEF Standing, Promised, Holding
      <4>9. held[r].session \in deleted
        BY <3>1, <3>3, <4>8, StaleIsRefused DEF Inv
      <4> QED
        BY <4>1, <4>9
    <3> QED
      BY <3>2, <3>3
  <2> QED
    BY <2>1, <2>2
<1> QED
  BY <1>1, <1>2 DEF Untouched, OutOfRow, OutOfCopy

\* Nor does anybody else's: what it obtains, adds and puts is without it.
LEMMA OthersUntouched ==
  ASSUME Inv, NEW r \in Requests, NEW d \in Requests \ {r}, Step(d), Untouched(r)
  PROVE  Untouched(r)'
<1> DEFINE q == <<r, "asked">>
<1>1. StoreStep(d)
  BY StepsOfStore
<1>2. /\ \A c \in Requests \ {d} : held'[c] = held[c]
      /\ deleted' = deleted
  BY <1>1, StoreStepFrame DEF Inv
<1>3. SUFFICES /\ \A s \in Sessions \ deleted : OutOfRow(r, s)'
               /\ OutOfCopy(r, d)'
  BY <1>2 DEF Untouched, OutOfCopy
<1>4. CASE \E s \in Sessions : Store!Open(d, s)
  <2>1. PICK s \in Sessions : Store!Open(d, s)
    BY <1>4
  <2>2. rows' = rows /\ held'[d] = [session |-> s, version |-> 0, doc |-> {}]
    BY <2>1, StoreTypes DEF Inv, Store!Open, Store!Contract!Open
  <2>3. q \notin held'[d].doc
    BY <2>2
  <2> QED
    BY <2>2, <2>3 DEF Untouched, OutOfRow, OutOfCopy
<1>5. CASE \E s \in Sessions : Store!get(d, s)
  <2>1. PICK s \in Sessions : Store!get(d, s)
    BY <1>5
  <2>2. /\ rows' = rows
        /\ rows[s] # Absent
        /\ held'[d] = [session |-> s, version |-> rows[s].version, doc |-> rows[s].doc]
    BY <2>1, StoreTypes DEF Inv, Store!get
  <2>3. held'[d].session = s /\ held'[d].doc = rows[s].doc
    BY <2>2
  <2> QED
    BY <1>2, <2>2, <2>3 DEF Untouched, OutOfRow, OutOfCopy
<1>6. CASE AddsOwn(d)
  <2>1. /\ held'[d].session = held[d].session
        /\ held'[d].doc \subseteq held[d].doc \cup OwnTurns(d)
        /\ held[d] # None
    BY <1>6, AddsOwnInv DEF Inv, AddsOwn
  <2>2. q \notin OwnTurns(d)
    BY DEF OwnTurns
  <2>3. rows' = rows
    BY <1>6 DEF AddsOwn
  <2> QED
    BY <1>2, <2>1, <2>2, <2>3 DEF Untouched, OutOfRow, OutOfCopy
<1>7. CASE Store!put(d) /\ Store!SameVersion(d)
  <2>1. /\ held'[d].session = held[d].session /\ held'[d].doc = held[d].doc
        /\ held[d].session \in Sessions
        /\ rows'[held[d].session].doc = held[d].doc
        /\ \A s \in Sessions \ {held[d].session} : rows'[s] = rows[s]
        /\ held[d] # None
    BY <1>7, PutAccepted DEF Inv, Store!put
  <2> QED
    BY <1>2, <2>1 DEF Untouched, OutOfRow, OutOfCopy
<1>8. CASE Store!put(d) /\ ~ Store!SameVersion(d)
  <2>1. UNCHANGED <<rows, held>>
    BY <1>8, PutRefused DEF Inv
  <2> QED
    BY <1>2, <2>1 DEF Untouched, OutOfRow, OutOfCopy
<1>9. CASE Store!Contract!Release(d)
  <2>1. rows' = rows /\ held'[d] = None
    BY <1>9, StoreTypes DEF Inv, Store!Contract!Release
  <2> QED
    BY <2>1 DEF Untouched, OutOfRow, OutOfCopy
<1>10. CASE UNCHANGED storeVars
  BY <1>10 DEF storeVars, Untouched, OutOfRow, OutOfCopy
<1> QED
  BY <1>1, <1>4, <1>5, <1>6, <1>7, <1>8, <1>9, <1>10 DEF StoreStep

-----------------------------------------------------------------------------
\* DELETE /sessions/{id} takes back acknowledgements, of a deleted session only.
LEMMA DeleteStep ==
  ASSUME Inv, NEW s \in Sessions, DeleteSession(s) PROVE Inv'
<1>1. StoreInv'
  BY StoreStepInv DEF Inv, DeleteSession
<1>2. /\ UNCHANGED <<pc, target, reply, held, result>>
      /\ stale \subseteq stale'
      /\ deleted' = deleted \cup {s}
      /\ rows'[s] = Absent
      /\ \A x \in Sessions \ {s} : rows'[x] = rows[x] /\ acked'[x] = acked[x]
  BY StoreTypes DEF Inv, DeleteSession, Store!delete, Store!Contract!Delete
<1>3. Store!TypeOK'
  BY <1>1, StoreTypes
     DEF StoreInv, SP!Inv, SP!TypeOK, SP!Contract!TypeOK, SP!Contract!Row,
         SP!Contract!Copy, Store!TypeOK, Store!Contract!TypeOK, Store!Contract!Row,
         Store!Contract!Copy
<1>4. TypeOK'
  BY <1>2, <1>3 DEF Inv, TypeOK
<1>5. ASSUME NEW r \in Requests PROVE RequestInv(r)'
  <2>1. Standing(r) /\ Promised(r) /\ (Unwritten(r) => Untouched(r))
    BY DEF Inv, ReqInv, RequestInv
  <2>2. Standing(r)'
    BY <1>2, <2>1 DEF Standing
  <2>3. pc[r] \in Holding => target[r] \in Sessions
    BY <2>1, StoreTypes DEF Standing, Inv, Store!Contract!Copy
  <2>4. Promised(r)'
    BY <1>2, <2>1, <2>3 DEF Promised, Holding
  <2>5. ASSUME Unwritten(r)' PROVE Untouched(r)'
    <3>1. Untouched(r)
      BY <1>2, <2>1, <2>5 DEF Unwritten
    <3> QED
      BY <1>2, <3>1 DEF Untouched, OutOfRow, OutOfCopy
  <2> QED
    BY <2>2, <2>4, <2>5 DEF RequestInv
<1> QED
  BY <1>1, <1>4, <1>5 DEF Inv, ReqInv

LEMMA RequestStep ==
  ASSUME Inv, NEW r \in Requests, Step(r) PROVE Inv'
<1>1. StoreInv' /\ TypeOK'
  BY TypeStep
<1>2. RequestInv(r)'
  <2>1. Unwritten(r)' => Untouched(r)'
    BY UnwrittenBefore, OwnUntouched DEF Inv, ReqInv, RequestInv
  <2> QED
    BY <2>1, OwnStep DEF RequestInv
<1>3. ASSUME NEW d \in Requests \ {r} PROVE RequestInv(d)'
  <2>1. Unwritten(d)' => Unwritten(d)
    BY StepFrame DEF Unwritten
  <2>2. Unwritten(d)' => Untouched(d)'
    BY <2>1, OthersUntouched DEF Inv, ReqInv, RequestInv
  <2> QED
    BY <2>2, OthersStep DEF RequestInv
<1> QED
  BY <1>1, <1>2, <1>3 DEF Inv, ReqInv

LEMMA NextInv == Inv /\ [Next]_vars => Inv'
<1> SUFFICES ASSUME Inv, [Next]_vars PROVE Inv'
  OBVIOUS
<1>1. CASE Next
  BY <1>1, RequestStep, DeleteStep DEF Next, Step
<1>2. CASE UNCHANGED vars
  <2>1. StoreInv'
    <3>1. UNCHANGED SP!vars
      BY <1>2 DEF vars, storeVars, SP!vars
    <3> QED
      BY <3>1, StoreAssumptions, SP!NextInv, SP!NextKept DEF Inv, StoreInv
  <2>2. TypeOK'
    BY <1>2 DEF Inv, vars, storeVars, TypeOK, Store!TypeOK, Store!Contract!TypeOK,
                Store!Contract!Row, Store!Contract!Copy
  <2>3. ReqInv'
    BY <1>2 DEF Inv, vars, storeVars, ReqInv, RequestInv, Standing, Promised, Unwritten,
                Untouched, OutOfRow, OutOfCopy
  <2> QED
    BY <2>1, <2>2, <2>3 DEF Inv
<1> QED
  BY <1>1, <1>2

THEOREM InvHolds == Spec => []Inv
  BY InitInv, NextInv, PTL DEF Spec

\* Every reachable state of the requests and of the store they share is well
\* typed.
THEOREM TypeCorrect == Spec => []TypeOK
<1>1. Inv => TypeOK
  BY DEF Inv
<1> QED
  BY <1>1, InvHolds, PTL

\* A client that got its answer, from /chat or as a done event, finds question
\* and answer in the stored conversation until the session is deleted, however
\* many requests and backstop puts rewrite the row.
THEOREM AnswersAreStored == Spec => []AnsweredIsPersisted
<1>1. Inv => AnsweredIsPersisted
  <2> SUFFICES ASSUME Inv, NEW r \in Requests, reply[r] \in {"answer", "done"},
                      target[r] \notin deleted
               PROVE  target[r] \in Stored(AskedAndAnswered(r))
    BY DEF AnsweredIsPersisted
  <2>1. target[r] \in Sessions /\ AskedAndAnswered(r) \subseteq acked[target[r]]
    BY DEF Inv, ReqInv, RequestInv, Promised
  <2>2. acked[target[r]] # {}
    BY <2>1 DEF AskedAndAnswered, Asked
  <2> QED
    BY <2>1, <2>2 DEF Inv, StoreInv, SP!Kept, SP!AckedTurnsKept, SP!Contract!AckedTurnsKept,
                      SP!Contract!Exists, Stored
<1> QED
  BY <1>1, InvHolds, PTL

\* The question of a request that was refused (404, 409, 500, session_conflict)
\* is in no stored conversation: the backstop put after a session_conflict does
\* not store it after all, and no other request carries it there.
THEOREM RefusalsAreTrue == Spec => []RefusedIsNotPersisted
<1>1. Inv => RefusedIsNotPersisted
  <2> SUFFICES ASSUME Inv, NEW r \in Requests,
                      reply[r] \in {"conflict", "error_conflict", "failed", "not_found"}
               PROVE  Stored(Asked(r)) \subseteq deleted
    BY DEF RefusedIsNotPersisted
  <2>1. Untouched(r)
    BY DEF Inv, ReqInv, RequestInv, Unwritten
  <2> QED
    BY <2>1 DEF Untouched, OutOfRow, Stored, Asked
<1> QED
  BY <1>1, InvHolds, PTL
=============================================================================
