# Verification of the cycling trip planner

TLA+ specifications of the trip planner: the agent loops, the stores that keep
conversations and profiles, the HTTP API that ties them together, the tools (look-ups,
routes, day plans, GPX files, the critique and the budget of a trip), the start-up of the
database and the chat page of the web client.  TLC checks each of them on small
instances; TLAPS proves for every instance what the session stores, both agent loops, the
API, the chat page, the look-ups with the critique, routes with their day plans and GPX
tracks, the budget, the profile store and the start-up promise.  Liveness is model-checked
only.

Paths are relative to the repository root: the backend is `src/`, the web client
`web/`.

## 1. The system

A FastAPI service answers `POST /chat` and `POST /chat/stream`.  Either loads a
`ConversationState` from a *session store*, appends the user's message and runs an
*agent loop*: call the Anthropic API, dispatch the tools it asks for, append their
results, call again, until the model ends its turn or a budget of iterations is
spent.  The state goes back to the store, which refuses it with `SessionConflict`
if somebody else wrote meanwhile.  The web client keeps the session id, shows the
stream, and retries when the service lost its session.

| Part | State | Operations | What is hard | What makes it correct |
| --- | --- | --- | --- | --- |
| Session store contract (`sessions/store.py`, `SessionStore`) | a conversation with a version for each session | get, put, delete | get and put are far apart, handlers overlap | no acknowledged turn is lost; a conflict means that somebody wrote in between |
| In-memory store (`InMemorySessionStore`) | a dict, an asyncio lock | the same | versions alone must tell who was overwritten | it keeps the contract |
| Postgres store (`sessions/postgres_store.py`) | a row, its lock | the same, each several statements | other instances write between SELECT and UPDATE; COMMIT may be lost or unacknowledged | it keeps the contract; every put ends |
| Agent loop (`agent/orchestrator.py`) | messages, trace, iteration, guardrail flag | `run_turn` | the API's rules about tool calls; failures at any await; budget and guardrail interact | each call is answered next, in order; the guardrail cannot be evaded; the trace is the receipt |
| Streaming loop (`agent/streaming.py`) | the same, and the events sent | `run_turn_stream` | tools finish in any order; the client may leave at any yield | results in block order; `done` tells the truth; the turn ends |
| Chat API (`api/routes.py`) | what each request has in hand | `/chat`, `/chat/stream`, `DELETE /sessions/{id}` | two puts per stream; deletes and other requests in between | what a client is told agrees with the store |
| Profile store (`sessions/profile_store.py`) | one row per profile | upsert, delete | read, then write, then read again, without a version; the row may be deleted and inserted anew in between | derived columns stay consistent; only a delete, or a first insert, makes somebody else's upsert raise |
| Database start-up (`db/engine.py`, `api/main.py`) | tables, one added column | `init_db` | cold starts race; an instance serves even if its start-up failed | success means a complete schema; races alone never leave it incomplete |
| Chat page (`web/app/page.tsx`, `web/lib`) | session id (React and localStorage), thread, trace panel | submit, reset, reload, retry | handlers close over old state; a trace that was asked for arrives later; localStorage may refuse | a conversation that was left stays left; a message is asked once; the trace is that of the conversation; a turn settles |
| Tool dispatch (`tools/base.py`) | registry | `dispatch` | any tool may raise, while others of the same iteration run | errors become results, one for each call |
| Look-up tools (`tools/accommodation.py`, `poi.py`, `places_real.py`, `weather.py`, `elevation.py`, `ferry.py`), seed (`db/seed.py`) | catalog tables, geocode cache | five tools, each a chain of sources: live data, catalog, stub or estimate | a source fails half-way; the catalog is seeded meanwhile; an answer does not say how good it is | nothing looks more complete or more certain than it is |
| Real routing (`tools/route_real.py`, `tools/route.py`) | segment cache, shared HTTP client | `get_route`: fetch, fall back, day plan | requests share the cache; a fetch may fail after others came back; rounding | the answer is whole or not real at all; days are the best split of the route |
| Corridors, GPX (`tools/corridor_registry.py`, `tools/route_gpx.py`, `/route/gpx`) | loaded corridors | lookup, reversal, slicing | plan and export walk the anchors separately; loops, ferries and through-towns | day tracks join up to the whole track; every day has one; ferries stay where they are |
| Critique, budget (`tools/critique.py`, `tools/budget.py`) | none | arithmetic on a plan | thresholds that must fit those of the other tools | a suggested plan is not sent back for ever; gaps are named; the budget pays for the drafted trip |
| Prompts, caching marks, models, visual layer, scripts | none that is shared | — | — | — |

Interactions: the API owns the turn and calls the store twice per turn (three
times when streaming); the loops mutate the state they are given and never see the
store; the web client sees only status codes and events.  Everything runs on one
event loop per instance; several instances share the database and nothing else.

## 2. The modules

```
SessionData             constants of the session stores
SessionStore            the contract
  InMemorySessionStore    implements it      ChatApi composes it with the requests
  PostgresSessionStore    implements it
Conversation            ConversationState, its messages and trace
  AgentLoop               run_turn, and the save of /chat
  StreamLoop              run_turn_stream, and the save of /chat/stream
Corridors  DayPlan      catalog and day plan, without state
  Routes                  get_route and /route/gpx over both
Critique  Budget        the tools that judge and price a plan, without state
  PlanReview              the plans of Routes as Critique sees them
Lookups                 dispatch and the look-up tools of one turn, and the seed script
  TripReview              a draft made of their answers, criticised and priced
ProfileStore  DbStartup  WebClient
MCAgentLoop MCStreamLoop MCChatApi MCRoutes MCTripReview     what TLC needs on top
InMemorySessionStoreProofs PostgresSessionStoreProofs ChatApiProofs WebClientProofs
AgentLoopProofs StreamLoopProofs ToolProofs DatabaseProofs           theorems
```

**SessionStore.**  A *caller* is one request handler; `held[c]` is the private copy
it works on.  The contract knows who wrote what: `stale` is the set of callers whose
session was written or deleted by somebody else since they read it.  A put of a
session that was never deleted is accepted only if the caller is not stale and
refused only if it is.  A conversation is abstracted to the set of turns it
records, since no store looks inside it.  After DELETE a put counts as a first
write: that is what both implementations do.

**InMemorySessionStore.**  `get`, `put`, `delete` as in the code; each is one step
because none awaits while it holds the lock.  `put` compares versions only, and
bumps the version of the caller's copy in place, so that the caller can put again.
`stale`, `acked` and `deleted` are history variables, which no guard reads.

**PostgresSessionStore.**  `put` is cut at its statements: SELECT of the version,
INSERT or UPDATE … WHERE version (which waits for the row lock), COMMIT.  The
connection may drop at each of them, and COMMIT may take effect without the
handler learning of it.  The commit is the step that implements the contract's put.

**Conversation, AgentLoop.**  A message is its role, the kind of its text, the ids
of its tool calls and of its results, in order; an id is the position of the call,
hence unique.  Actions are the stretches of `run_turn` between two awaits: the API
answers (`FinalAnswer`, `Nudge`, `BeginDispatch`, `EmptyToolUse`), `gather`
returns (`CollectResults`), or something raises (`TurnFails`).  The save of `/chat`
is part of the step that ends the turn, and may be refused.  What the API accepts is
modelled after the comments in both loops and marked external.

**StreamLoop.**  Every yield and await is an action boundary, so a disconnect or an
exception can fall between any two.  The events sent so far are a variable (text
deltas are left out, they change nothing).  Tools complete in any order.

**ChatApi.**  The requests of several clients, interleaved at their awaits, on one
instance with the in-memory store.  A turn is reduced to its question and its
answer.  `pc` names the point in `chat` or `chat_stream`: `put`, `partial_put` (the
save after `AgentLoopExceeded`), `done_put`, `backstop` (the finally block).

**Corridors, DayPlan, Routes.**  `Corridors` and `DayPlan` are operators: the catalog
with both directions, the stops and tracks of a chain of anchors given the lengths of
its hops, and the dynamic program that groups stops into days.  A hop is a record, a
polyline the sequence of towns it passes, a plan the positions of its nights.  Lengths
are integers: metres from the router, tenths of a kilometre in answers, so that the
rounding of the code is part of the model.  `Routes` runs requests for routes and for
GPX files at the same time.  A request walks its hops in order, without a pause over
ferries and cached hops, and waits in `stage = "brouter"` for any other; what it answers
is computed from the lengths it collected (`legs`).  A failed fetch sends `get_route`
on to the seeded routes and from there to the geocoder, and ends a download with 502.
The seeded routes are a constant, full as the seed script leaves it; but it may replace them
between the query for the route and the one for its waypoints, and then the answer is a
route without waypoints (`seeded_bare`).
Downloads are those the page offers for a plan of at least three days (`Offered`).

**Critique, Budget, PlanReview.**  `CritiqueTripPlan` is the set of issues the checks of
the code find: severity, category, days.  A comparison of floats is a comparison of
products of integers.  `EstimateBudget` hands out nights and ferry to the days as the
code does.  `PlanReview` joins `Routes` and `Critique`: the days `get_route` suggests,
judged by the rule about the average day, which needs nothing that other tools find out.

**Lookups, TripReview.**  The calls of one iteration, each at the point where it waits
for somebody (`pc`): the geocoder of the Places API, a search (`todo` holds those still to
make, `found` what the others found), the weather archive, the database, the general
geocoder, BRouter.  Each of them may fail, and the next source of the chain takes over;
an exception nobody catches, of the database or of the code that parses an answer of an
unexpected shape, becomes an error result (`Raises`).  The seed script empties and fills
one table per transaction, and may run, or die, at any moment.  `known` remembers which
tables were full when the calls were made.  `Places`, the archive, the geocoders and
BRouter are external: what they may answer are constants.  In `TripReview` the agent, a
language model and external too, makes a draft of these answers in every way its
instructions leave it, and `critique_trip_plan` and `estimate_budget` get it.

**ProfileStore.**  `upsert` and `delete` cut at their statements.  The ORM writes only
the columns that differ from those it loaded, which is modelled because concurrent
updates are then merged column by column; and its UPDATE and DELETE address the row
by the primary key it was loaded with, a serial number (`nextId`), not by the profile
id.  So a row that was deleted, and perhaps inserted anew, since the SELECT is not matched
(`RowIsThere`): the UPDATE raises, the DELETE only warns.

**DbStartup.**  Per instance: inspect, create the missing tables, look for the
column, add it; each may lose a race or fail, and the instance serves anyway.

**WebClient.**  One tab and the service as seen from it.  `closure` is the session
id `handleSubmit` closed over, `requested` the one in the request, `serving` the
session the service works on.  `tracing` are the traces asked for, `trace` the one shown
(each named by its session).  localStorage may refuse to keep, to drop or to give the id,
so that `stored` and `sessionId` may differ; the history variable `left` has the ids that
both have given up.  Resets, reloads and restarts of the service may come at any
point of a turn, and a trace at any time after it was asked for.

Each definition that translates code is tied to its lines in `PROJECT.json`
(`map`).  Operators with `Mutant` in their name are variants of the definition that
follows them, with a bug such code might have; with one of them in its place the
property it is listed for must fail.  They are no part of the specifications.

## 3. What is checked

| Run | Bounds | Shows |
| --- | --- | --- |
| `in_memory` | 1 session, 2 handlers, 2 turns, versions up to 3 | `TypeOK`; `AckedTurnsKept`: no acknowledged turn is lost; `VersionsTellStaleness`: comparing versions is as good as knowing who wrote; `ImplementsContract` |
| `postgres` | 1 session, 2 handlers, 1 turn, versions up to 3 | `CommitSeesItsRow`: the row that is committed over is the one the version was compared with; `ImplementsContract`; `PutsEnd` |
| `agent_loop` | 7 responses, 3 iterations, 2 turns | `ToolCallsAnswered`, `GuardrailEnforced`, `TraceIsReceipt`, `QuestionsHaveAnswers`, `HistoryGrows` |
| `stream_loop` | 7 responses, 2 iterations, 2 turns | `ResultsInBlockOrder`, `DoneTellsTruth`, `StreamIsWellFormed`, `TraceCoversMessages`, `TurnsEnd` |
| `chat_api` | 3 requests and DELETE on 1 session | `AnsweredIsPersisted`, `RefusedIsNotPersisted` |
| `routes` | 2 requests; a corridor with a ferry, a through-town and 2 variants, a loop, 2 seeded directions, an unknown pair; 1 expiry | `AnswersAreWhole`, `PlansAreBestSplits`, `TracksJoinUp`: the tracks of the days are the track of the route, cut where the nights are, also where a through-town shifts the positions; `SuggestedPlansShip`: the critique does not block a suggested plan of three days or more for its average day; `RequestsEnd` |
| `profile_store` | 3 requests, 3 levels, 2 values | `TypeOK`; `ComfortMatchesExperience`; `LoneUpsertsSucceed`: an upsert raises only if another request deletes the profile, or inserts it where the upsert found none |
| `db_startup` | 3 instances, 2 tables | `SuccessMeansSchema`, `RacesConverge` |
| `web_client` | 2 turns, 3 session ids | `LeftForGood`: an id that neither the page nor localStorage holds any more never comes back; `AskedAtMostOnce`, `ThreadIsOrdered`, `TraceIsCurrent`, `TurnsSettle` |
| `trip_review` | 5 turns of up to 4 calls, 4 wishes, towns in and out of the catalog, a crossing | `LiveIsWhole`, `CataloguedNeverStubbed`: failing sources and seeding never make an answer look complete, or drop the catalog; `EstimatesAreQuestioned`, `GapsAreReported`: what the look-ups could not give is named by the critique; `BudgetCoversDraft`; `CallsEnd` |

Why the bounds are enough.  Sessions do not interact, so one is enough where the
property is about one.  A lost update takes a reader, a writer in between and a
stale writer: two handlers that may each come back.  Two turns let a turn see what
the previous one saved, a critique in one turn meet a plan in the next, and a
saved conversation be rejected.  Three iterations are a tool call, a nudge and an
answer.  The seven responses are one for each branch of the loops, two tools at once
included.  Three requests are a pair that conflicts and a third that comes after;
requests are interchangeable, and `MCChatApi` reduces by that symmetry (safety
only).  The second request of `routes` may be the download of a day the first one
planned, or a plan that meets its cache half filled; the lengths of the hops are such
that plans with a choice of nights, ties, more days than stops, and days above and
below the target occur, and they avoid sums half-way between two tenths, where the code's rounding of floats is
not decimal.  One expiry is enough for an entry to go between two walks.  `MaxVersion` is never reached in `chat_api`; in the store runs it ends the
behaviour, and versions only matter relative to each other.

The turns of `trip_review` are chosen so that each tool is called, two calls of one tool
run at once, a call makes several searches, one is invalid, one names no tool, and drafts
have one or two days, with and without a ferry.  BRouter may answer plausibly, with a
detour that is thrown away, and with a climb the answer's model rejects; lengths lie on
both sides of the thresholds of difficulty, pacing and drift.  The kinds of place are
those that the type inference and the filters tell apart, one of them with the types of
two kinds.  Flags that no call of the turn reads are not set.

`TypeOK` is checked of two modules and proved of all modules of section 5; `Routes` and
`TripReview` are the others.

Deadlock is not checked: every instance is finite and stops when its turns, requests
or versions are used up; that nothing gets stuck before that is what the liveness
properties state.

Fairness.  `PutsEnd`: a handler that may take its next database step does (the
server answers or the connection breaks) and the lock of a row goes to some waiter
again and again.  `TurnsEnd`: the event loop resumes the generator when what it
awaits is there, and the API client and every tool have timeouts; nothing is
assumed about failures, disconnects or new turns.  `TurnsSettle`: a request is
answered or fails, a stream ends; nothing is assumed about the user or about
restarts.  `RequestsEnd`: BRouter answers or its client times out after 15 s, the
geocoder after 10 s, and the database answers or raises.  `CallsEnd`: the same, with 8 s
for the Places API, 15 s for the archive and 10 s for BRouter; nothing is assumed about
the seed script.

## 4. Disagreements seen while modelling

Two runs are expected to end in a violation, each of a sentence in the repository:

* `stream_replay` (`SavedIsReplayable`).  The finally block of `/chat/stream` saves
  the conversation wherever the turn was cut off, also between a tool call and its
  results; the API then rejects every later turn of the session.
* `routes_ferries` (`FerriesStayPut`).  The reverse of a variant is said to keep the
  ferry in its place.  The flag marks the hop *to* an anchor, so in reverse the hop
  before the crossing counts as the ferry, with 0 km, and the crossing is routed by
  road.

Others were met on the way and are recorded here only; the specifications contain
the behaviour:

* `run_turn_stream` says it mutates the state exactly as `run_turn` does, but has no
  guardrail: a streamed plan needs no critique (`agent/streaming.py:339`).
* The second put of a stream is said to conflict; it succeeds, since put bumps the
  version in place, and writes the row a second time.  A client that sends its next
  message on `done` can be refused because of it (`api/routes.py:488`).
* A loop corridor has the same key in both directions; only the reverse one is kept
  (`tools/corridor_registry.py:259`).
* A day is cut out of the track between the first stops with the names of its ends.  A
  loop ends at its first stop, so its last day has no file (404), although the page says
  that each day can be downloaded (`components/gpx-download-strip.tsx:29`,
  `tools/route_gpx.py:370`).
* The seeded reverse routes keep the distances of the forward ones; their first segment
  is negative, which the response model rejects (`tools/route.py:293`).
* A deleted session that a handler puts again starts from that handler's version, so
  another handler's older copy may carry the version now on the row and overwrite an
  acknowledged turn (`sessions/store.py:90`).  Every store property is therefore
  about sessions that were not deleted.
* A response cut off by `max_tokens` in a tool call ends the turn and is saved with
  the call unanswered (`agent/orchestrator.py:264`).
* A nudge in the last iteration turns a drafted answer into a 504
  (`agent/orchestrator.py:323`).
* `run_turn_stream` appends an empty results message after a `tool_use` stop without
  a tool call; `run_turn` guards against it (`agent/streaming.py:431`).
* A request told "not persisted" may still be persisted by the finally block if the
  session was deleted in between (`api/routes.py:488`).
* Concurrent first upserts of one profile: the later one is a 500; concurrent updates
  are merged into a profile nobody posted (`sessions/profile_store.py:226`).
* Where a profile was deleted, or deleted and inserted anew, between the SELECT and the
  COMMIT of another request, an upsert is a 500, and a delete answers that it deleted while
  the new row stays (`sessions/profile_store.py:246`, `db/models.py:145`).
* A seeded route may be answered without waypoints while the seed script runs
  (`tools/route.py:476`).
* A localStorage that refuses a change is said to reset the session with each page load; if
  it refuses only some, or only removals, a reload brings the conversation back that is
  still stored (`lib/session.ts:25`).  `LeftForGood` therefore counts a conversation as left
  when localStorage has given it up too.
* The column migration fails on an instance that looked before another one added the
  column, though its docstring calls it safe for racing instances
  (`db/engine.py:187`).
* Trips of 1.25 to 1.5 daily targets (and of at most 0.75) are blocked by the drift rule
  for every number of days (`ToolProofs!SomeTripsAlwaysDrift`), though the prompt asks
  to revise until the verdict is better (`agent/prompts.py:103`).  `SuggestedPlansShip` is
  therefore about plans of three days or more.  It also leaves out plans whose number of
  days is cut to that of the stops (`Uncapped`), whose days may be as long as they like, and
  requires that rounding is slight (`RoundingIsSlight`): the days add up rounded segments,
  half a tenth of a kilometre off at most, and all of these together stay below a quarter
  of a day as long as twice the number of stops is less than the target in tenths of a
  kilometre.  With 20 anchors, the most a variant in
  `data/corridors` has, that is any target above 4 km.
* An estimated stretch of more than 120 km gets a remark, not a warning: a draft of such
  days may be shipped although nobody knows its climbs (`tools/critique.py:270`).
* The check of BRouter's distances against the great circle has no lower bound
  (`tools/elevation.py:181`).
* A search for points of interest without categories finds bicycle shops twice, and the
  second search calls all of them rentals; "a mix across all categories" has no repair
  shop (`tools/places_real.py:583`, `tools/schemas.py:541`).
* Categories the Places API does not know are dropped from a live answer that was asked
  for others too; the docstring says the whole call falls back (`tools/places_real.py:576`).
* The reverse of a crossing is not seeded, though the docstring says both directions of a
  segment are (`db/seed.py:151`, `tools/elevation.py:4`): Dieppe to Newhaven is routed by road or estimated.
* Two seed scripts at once leave every row twice (nothing is unique); a look-up of a
  segment then raises.
* A trace asked for before a reset is shown after it (`app/page.tsx:129`).
  `TraceIsCurrent` excepts exactly that.
* The page keeps an empty bubble when the streaming request itself fails
  (`app/page.tsx:179`), and appends the answer of a turn in flight to the thread a
  reset has emptied (`app/page.tsx:236`).

## 5. What is proved

Each theorem holds for every value of the constants under the named assumptions, which
TLC evaluates for the instances of section 3.  Each proof module states its invariant part
by part, proves that it holds at the start and is kept by each action, and derives the
property; TLC has checked the invariants on the instances of the runs.

**Session stores**, for any sessions, handlers and turns, and any bound on versions.
Assumed: the sentinels are not rows, copies or handlers (`SentinelAssumption`,
`OwnerAssumption`), the bound is a natural number (`MaxVersionAssumption`).

* `InMemorySessionStoreProofs`: `TypeCorrect`; `VersionsSuffice` (`Spec =>
  []VersionsTellStaleness`) by an invariant that adds that a held id was given out
  (`IdsMinted`) and that only holders of a copy are stale; `NoLostUpdate` (`Spec =>
  []AckedTurnsKept`).  The last is not inductive: a put replaces the whole document by the
  caller's copy, so a copy nobody overwrote must contain what is stored
  (`CurrentCopiesExtendRows`), and a stored id must have been given out, since otherwise
  `Open` could hand out a stored session with an empty copy.  `Implements` (`Spec =>
  ImplementsContract`): the version check decides exactly what the contract decides by
  `stale`, and every other action is an action of the contract.
* `PostgresSessionStoreProofs`: first the contract alone loses no acknowledged turn
  (`ContractKeepsAckedTurns`), and versions tell staleness in it (`VersionInv`).  Then the
  store.  Its statements change the contract's state only at COMMIT, so both invariants
  are carried over by the refinement, and only where each transaction stands is left:
  what a handler still knows of the row it read (`PutsKnow`: gone, or there, or the
  handler is stale by now), and that a put that reached COMMIT owns the row whose version
  it compared (`CommitSeesItsRow`).  Results: `CommitsSeeTheirRows`, `Implements`, and
  `NoLostUpdate`, with lost acknowledgements and failed commits.

**Agent loop** (`AgentLoopProofs`), for any set of responses the API may give, any budget of
iterations and any number of turns (`ResponsesAssumption`, `BoundsAssumption`).  Every
action is built from `Say` and `Record`; lemmas on them come first, then the invariants,
each over those before it.

* `TraceIsTheReceipt`, by `ReceiptInv`: calls are numbered by their place in the messages
  (`Numbered`), so an id occurs once and the trace can be compared with the messages.
* `ToolCallsAreAnswered`, `QuestionsAreAnswered`, by `CallsInv`: what is stored is settled;
  while the API is called only a question may wait, while tools run only the calls they
  run for.  Neither is inductive, for a turn in flight does have open calls.
* `StoredHistoryGrows` (an action property), by `GrowthInv`: the state of a turn in flight
  extends what was loaded.
* `GuardrailHolds`, by `GuardInv`: the flag of the loop and the reminders in the trace of the
  turn agree, so the one reminder that lets an uncriticised plan through is really there.

**Streaming loop** (`StreamLoopProofs`), under the same assumptions, wherever a turn stops.

* `ResultsAreInBlockOrder`: a results message is made in one step from all results; what
  has to be known is that all of them are there.
* `TraceCoversWhatWasSaid`, by `CoverInv`: during a dispatch the results at hand have been
  traced, which is what makes their message safe to append.
* `StreamCanBeFollowed`, by `SentInv`: ids of a response are those of its place in the
  conversation, so no earlier iteration has used them, and what was announced and what
  came is known at every point of an iteration.
* `DoneIsTheTruth`, by `DoneInv`: at every point of a turn the stream so far is what the
  messages since the question hold, plus what is not in a message yet.

**Chat API** (`ChatApiProofs`), for any sessions and requests.  `AnswersAreStored` (`Spec =>
[]AnsweredIsPersisted`) and `RefusalsAreTrue` (`Spec => []RefusedIsNotPersisted`).  The
invariants of the in-memory store are those proved for it, instantiated with requests as
its callers.  Added for each request: where it stands (`Standing`), that what it was told
was acknowledged (`Promised`), and, as long as none of its puts was accepted
(`Unwritten`), that its question is in no row and in no other copy (`Untouched`).  Without
that last part another request might carry the question of a refused one into the store.

**Chat page** (`WebClientProofs`), for any session ids and turns (`NoneAssumption`,
`MaxTurnsAssumption`), with resets, reloads and restarts at any point.

* `WhatIsLeftStaysLeft`, by `LeftInv`: an answer in flight either belongs to the id its
  request carried, or to a session opened for a request without one, which nobody but
  the service knows until then.  `handleSubmit` compares an answer with the id it closed
  over, not with the current one, and only because of that a late answer does not undo a
  reset: the id it closed over is the one it sent (`RequestInv`), so it is not adopted again.
* `AskedOnce`, by `AskInv`: the message of the turn in flight was not taken yet, nor that of
  any turn to come.
* `TraceBelongs`, by `RequestInv`: a request without an id was sent while the page had
  none, and it still has none, so that the id an answer brings never replaces another.
* `ThreadInOrder`, by `ThreadInv`: what is appended belongs to a later turn than all there is,
  or answers a turn of which only the question is there.

**Look-ups, critique and budget** (`ToolProofs`), for any catalog, any turns of calls with
finite ids and whatever the external services answer, if stretches have a great circle
(`TurnsAssumption`, `GreatCircleAssumption`).

* `LiveAnswersAreWhole`: the searches still to make are the last ones of the call, and what
  the others found is among its places (`SearchedRight`).
* `CatalogIsUsed`: a call waits only where its tool does, and asks BRouter only about a
  stretch that is not in the catalog (`WaitsRight`); the seed script takes no table away
  that a call has seen (`TurnInv`).
* `EstimatesAreAsked`, `GapsAreNamed`, by `DraftInv`, which says what the two tools were given:
  one day for each stretch in turn, each with a bed that was offered.  Both need that the
  sorted list of days the critique walks has every day of the draft (`InOrderHasAllDays`).
* `BudgetsCover`: after n visits of the loop that goes round the kinds of beds, as many nights of
  a kind are handed out as it was visited, or as the mix has if these are less
  (`AllHandedOut`, by counting, `OneMore`, and arithmetic, `VisitCounts`).  A draft has no
  more nights than days (`KindsAddUp`), so all are handed out within the trip and none is
  cut off.  The ferry falls on a day of the trip, a trip of one day included
  (`FerryDayIsDay`), and only there is it charged (`ChargedOnce`).
* `RoundedPlansDoNotDrift`, for any distance and target, the arithmetic behind
  `PlansShip`: the number of days `get_route` rounds to lies within half a target
  of the distance (`RoundedRatioIsNearest`), and three quarters of a target is what the
  drift rule allows a plan of three days.  The distance may differ by less than a quarter
  of a target from the sum of the rounded days.  `SomeTripsAlwaysDrift` says why three days
  are needed.

**Routes** (`ToolProofs`), for any corridor files, any requests and expiries and whatever
BRouter answers.  Assumed: the registry accepts the files (`FilesAreValid`).  Three more
assumptions state what no code checks but the data keep to:

* `VariantsEndAtNights`: the first and the last anchor of a variant are overnight stops;
  true of every variant in `data/corridors`.
* `NamesTellApart`: the variants of a corridor have different names, and no town is an
  overnight stop twice unless the corridor is a loop.  True of all files; only
  `sicily-loop.yaml` repeats a stop, its start and end.
* `DistancesAreNumbers`: targets are positive (`GetRouteInput`), lengths are natural
  numbers, and a seeded route has kilometre 0 at one end (`_KNOWN_ROUTES`, and the same
  rows reversed).

The results:

* `RoutesAreWhole`: the cache holds only lengths that BRouter gave for their hop
  (`CacheRight`), and a request for a plan walks exactly the hops of its catalogued route,
  with a right length for each hop behind it, and waits only for a hop that is no ferry
  (`PlanInv`).  So whoever filled the cache, a walk that arrives has all lengths.  The
  other half is that a catalogued route has one default variant in either direction
  (`CataloguedAreWhole`).
* `PlansAreBest`, for any stops, lengths and targets.  Each row of the dynamic program holds,
  for every stop, a cheapest way to end the day there (`RowRight`); the next row does if
  this one does (`NextRow`), because the last day of a cheapest way can be cut off and what
  is left be replaced by the entry of the row before.  So the ends in the last row are no
  worse than any other (`EndsAreBest`).  That the days then add up to the stated distance
  needs what a variant says of itself to agree (`VariantRight`): each stop is the sum of the
  segments before it, each segment off by its rounding only.  `AskInv` adds to the
  invariant above that a plan is asked for a positive target, and that only an acceptable
  seeded route is answered.
* `PlansShip`: by `VariantRight` the days together ride the stated distance, but for the
  rounding, and by `RoundedRatioIsNearest` that distance lies within half a target of as
  many targets as there are days (`NearEnough`); `RoundedPlansDoNotDrift` does the rest.
* `TracksAreCut`: stops and tracks are collected by separate loops over the same anchors, so
  first both are stated by positions: the nights come in turn (`InTurn`), and the tracks
  are the stretches between them, through-towns included (`TracksAreStretches`).  Where
  stops have names of their own (`Apart`) the export finds the positions the plan had in
  mind, and a list cut at positions in turn joins up to itself (`CutsJoin`).  For the
  downloads, `DownloadInv` says that what the page offers came from a plan (`Sound`), hence is
  found again by its names, unless the day closes a loop.

**Database** (`DatabaseProofs`: what instances do to the one they share).

* Profile store, for any requests and preferences and any levels that have a comfort
  distance (`ExperiencesAssumption`, `AbsentAssumption`): `TypeCorrect`,
  `ColumnsBelongTogether`, `OnlyRacesFail`.  Levels have different distances
  (`LevelsDiffer`), so an update writes both columns or neither, whatever it is merged
  into (`WriteDirtyWellformed`).  `LoneUpsertsSucceed` is not inductive, since a request
  that wrote may itself fail later, when it reads its row again and finds it deleted;
  `SomeoneWrote` adds that the one who deleted has answered, and can be named instead.  It
  holds of a row inserted anew as well, since a write keeps the primary key: a row that is not
  the one that was loaded means that somebody deleted that one.
* Start-up, if there is an instance and the tables include that of the sessions
  (`InstancesAssumption`, `SessionsTableAssumption`): `StartupTypeCorrect`, `SuccessIsTrue`,
  `RacesAreHarmless`.  What an instance found missing, with what is there, makes up all
  tables (`CreateCovers`); whoever got past them has seen all (`TablesPassed`); and as long
  as the schema is incomplete and the database never failed, somebody is on the way who
  has seen what is there now (`SomeoneCompletes`): who trips over another's work leaves
  that other one.

Lists that the code builds in loops are the recurring difficulty.  The theorems on
induction of the library take an operator, so the proofs argue by the least position at
which a claim fails (`LeastNumber`), or over the set of positions up to which it holds
(`AllUpTo`).  Sums are folds, whose definition in the community modules is a recursive
function over sets of indices; `Adds` states its recursion, and `Running` gives the sums up
to each position, which are then numbers to argue about in the same way.  Loops over lists
and the rows of the dynamic program are written as recursive functions in the modules for
that reason, one step for each round of the code's loop.

Only model-checked:

* Liveness (`PutsEnd`, `TurnsEnd`, `RequestsEnd`, `TurnsSettle`, `CallsEnd`), which is out of
  the prover's reach.
* The two violations of section 4 are counterexamples, found by TLC.


## 6. Not modelled

The texts of prompts, cache marks and token accounting change nothing the properties
see.  Models, scripts and corridor data are declarations or run offline; most of the
visual layer of the web client renders and parses answers.  Prices, names, ratings,
temperatures and texts of the look-ups are left out, as are the totals and the contingency of
a budget, and two seed scripts at once.  The wizard and the stored profile id of the page
are not modelled yet.  The in-memory profile store is not used
by the service.  Routes that only read are left out.  Of the routes, ascent, notes and
the XML of a GPX file are left out; the download of a day by its number, which the page
does not use, and `get_route` without `USE_REAL_ROUTES`, which starts at the seeded
routes, are too.

## 7. Plan

Done: the modules of section 2, and the proofs of section 5.  To come:

1. `Profile`: the wizard and the stored profile id of the page, next to `WebClient`; the
   parsing of itineraries that the download strip relies on.
