----------------------------- MODULE StreamLoop -----------------------------
(***************************************************************************)
(* run_turn_stream of src/src/agent/streaming.py, an async generator, and  *)
(* event_stream of src/src/api/routes.py, which drives it for POST         *)
(* /chat/stream: one user turn after another of one session.               *)
(*                                                                         *)
(* Every yield and every await is a point where the turn may stop for      *)
(* good: an exception becomes an error event, a client that went away      *)
(* (GeneratorExit or CancelledError) becomes nothing.  In both cases the   *)
(* finally block saves whatever the turn had put in the state by then.     *)
(***************************************************************************)
EXTENDS Conversation, SequencesExt

CONSTANTS Responses,      \* the API responses considered
          MaxIterations,  \* settings.max_loop_iterations
          MaxTurns        \* bound on the turns of the session

ASSUME ResponsesAssumption == Responses \subseteq Response
ASSUME BoundsAssumption == MaxIterations \in Nat \ {0} /\ MaxTurns \in Nat

VARIABLES
    pc,         \* "idle", "calling" (opens the stream), "receiving" (its events),
                \*   "received" (iteration_end yielded), "dispatching"
    state,      \* the ConversationState of the running turn
    saved,      \* the ConversationState in the store
    turns,      \* turns started
    iteration,
    response,   \* the response being streamed
    started,    \* how many of its tool_use blocks have started
    completed,  \* ids of the tools that finished, in the order they did
    sent        \* the SSE events of the turn the client got, text left out

vars == <<pc, state, saved, turns, iteration, response, started, completed, sent>>

NoResponse == [stop |-> "end_turn", text |-> "none", tools |-> <<>>]

SseEvent == [type : {"tool_use_start", "tool_result", "iteration_end", "done",
                     "error"},
             id : UseId \cup {<<>>}]

TypeOK ==
    /\ pc \in {"idle", "calling", "receiving", "received", "dispatching"}
    /\ state \in State
    /\ saved \in State
    /\ turns \in 0..MaxTurns
    /\ iteration \in 1..MaxIterations
    /\ response \in Responses \cup {NoResponse}
    /\ started \in 0..Len(response.tools)
    /\ completed \in Seq(UseId)
    /\ sent \in Seq(SseEvent)

Init ==
    /\ pc = "idle"
    /\ state = NewState
    /\ saved = NewState
    /\ turns = 0
    /\ iteration = 1
    /\ response = NoResponse
    /\ started = 0
    /\ completed = <<>>
    /\ sent = <<>>

Sse(type, id) == [type |-> type, id |-> id]

Yield(type, id) == sent' = Append(sent, Sse(type, id))

-----------------------------------------------------------------------------

StartTurn ==
    /\ pc = "idle"
    /\ turns < MaxTurns
    /\ turns' = turns + 1
    /\ state' = WithUserMessage(saved)
    /\ iteration' = 1
    /\ response' = NoResponse
    /\ started' = 0
    /\ completed' = <<>>
    /\ sent' = <<>>
    /\ pc' = "calling"
    /\ UNCHANGED saved

CallApi(r) ==
    /\ pc = "calling"
    /\ ApiAccepts(state.messages)
    /\ r \in Responses
    /\ response' = r
    /\ started' = 0
    /\ completed' = <<>>
    /\ pc' = "receiving"
    /\ UNCHANGED <<state, saved, turns, iteration, sent>>

ToolUseStart ==
    /\ pc = "receiving"
    /\ started < Len(response.tools)
    /\ started' = started + 1
    /\ Yield("tool_use_start", UseIds(state, response)[started + 1])
    /\ UNCHANGED <<pc, state, saved, turns, iteration, response, completed>>

\* Text that is empty is dropped, and content [] becomes a blank text.
ContentText(r) ==
    IF r.text \notin {"none", "blank"} THEN r.text
    ELSE IF r.tools = <<>> THEN "blank" ELSE "none"

TextEvents(r) ==
    IF r.text \in {"none", "blank"} THEN <<>> ELSE <<PlainEvent("assistant_text")>>

WithResponse(s, r) ==
    Record(Say(s, AssistantMessage(r, ContentText(r), UseIds(s, r))),
           TextEvents(r) \o UseEvents(s, r))

\* The stream is exhausted: the assistant message is built from the accumulators
\* and appended, its blocks are traced.
EndOfStream ==
    /\ pc = "receiving"
    /\ started = Len(response.tools)
    /\ state' = WithResponse(state, response)
    /\ Yield("iteration_end", <<>>)
    /\ pc' = "received"
    /\ UNCHANGED <<saved, turns, iteration, response, started, completed>>

\* event_stream saves before it passes a done event on.  When that put raises,
\* the client gets an error instead; the put in the finally block may succeed.
Done(s) ==
    /\ state' = s
    /\ pc' = "idle"
    /\ \/ saved' = s /\ Yield("done", <<>>)
       \/ (saved' = s \/ UNCHANGED saved) /\ Yield("error", <<>>)

FinalAnswer ==
    /\ pc = "received"
    /\ response.stop # "tool_use"
    /\ Done([Record(state, <<PlainEvent("stop")>>) EXCEPT !.total_turns = @ + 1])
    /\ UNCHANGED <<turns, iteration, response, started, completed>>

BeginDispatch ==
    /\ pc = "received"
    /\ response.stop = "tool_use"
    /\ pc' = "dispatching"
    /\ UNCHANGED <<state, saved, turns, iteration, response, started, completed, sent>>

\* The ids of the tool calls being dispatched, in block order.
Dispatched == state.messages[Len(state.messages)].uses

\* Mutants: a task is reported twice; a result is not traced.
CompleteToolMutantTwice(i) ==
    LET id == Dispatched[i]
    IN  /\ pc = "dispatching"
        /\ completed' = Append(completed, id)
        /\ state' = Record(state, ResultEvents(<<id>>))
        /\ Yield("tool_result", id)
        /\ UNCHANGED <<pc, saved, turns, iteration, response, started>>

CompleteToolMutantUntraced(i) ==
    LET id == Dispatched[i]
    IN  /\ pc = "dispatching"
        /\ id \notin Ids(completed)
        /\ completed' = Append(completed, id)
        /\ Yield("tool_result", id)
        /\ UNCHANGED <<pc, state, saved, turns, iteration, response, started>>

\* The next task of as_completed, whichever finishes first.
CompleteTool(i) ==
    LET id == Dispatched[i]
    IN  /\ pc = "dispatching"
        /\ id \notin Ids(completed)
        /\ completed' = Append(completed, id)
        /\ state' = Record(state, ResultEvents(<<id>>))
        /\ Yield("tool_result", id)
        /\ UNCHANGED <<pc, saved, turns, iteration, response, started>>

\* The budget allows another pass, or the loop ends with a done event.
NextIteration(s) ==
    IF iteration < MaxIterations
    THEN /\ state' = s
         /\ iteration' = iteration + 1
         /\ pc' = "calling"
         /\ UNCHANGED <<saved, sent>>
    ELSE Done(s) /\ UNCHANGED iteration

\* Those of the ids that have a result, in block order.
InBlockOrder(ids, found) ==
    LET upTo[n \in 0..Len(ids)] ==
            IF n = 0 THEN <<>>
            ELSE IF ids[n] \in found THEN Append(upTo[n - 1], ids[n]) ELSE upTo[n - 1]
    IN  upTo[Len(ids)]

\* Mutants: the results as they came; the results there are after the first;
\* waiting for a first result when no tool was called.
CollectResultsMutantAsCompleted ==
    /\ pc = "dispatching"
    /\ Ids(Dispatched) = Ids(completed)
    /\ NextIteration(Say(state, ResultMessage(completed)))
    /\ UNCHANGED <<turns, response, started, completed>>

CollectResultsMutantFirst ==
    /\ pc = "dispatching"
    /\ Dispatched # <<>> => completed # <<>>
    /\ NextIteration(Say(state, ResultMessage(
           InBlockOrder(Dispatched, Ids(completed)))))
    /\ UNCHANGED <<turns, response, started, completed>>

CollectResultsMutantWaits ==
    /\ pc = "dispatching"
    /\ Dispatched # <<>>
    /\ Ids(Dispatched) = Ids(completed)
    /\ NextIteration(Say(state, ResultMessage(Dispatched)))
    /\ UNCHANGED <<turns, response, started, completed>>

\* All results, in block order, are one user message, even if there are none.
\* The last pass of the loop ends with done, stop_reason "loop_exceeded".
CollectResults ==
    /\ pc = "dispatching"
    /\ Ids(Dispatched) = Ids(completed)
    /\ NextIteration(Say(state, ResultMessage(
           InBlockOrder(Dispatched, Ids(completed)))))
    /\ UNCHANGED <<turns, response, started, completed>>

-----------------------------------------------------------------------------
\* The turn stops early; the put of the finally block may fail as well.

Backstop ==
    /\ pc # "idle"
    /\ pc' = "idle"
    /\ saved' = state \/ UNCHANGED saved
    /\ UNCHANGED <<state, turns, iteration, response, started, completed>>

\* `except Exception` reports it: the connection to the API drops, a result
\* cannot be serialised.
Raise == Backstop /\ Yield("error", <<>>)

ApiRejects == pc = "calling" /\ ~ ApiAccepts(state.messages) /\ Raise

\* The client disconnects: the generator is closed or cancelled where it stands.
Disconnect == Backstop /\ UNCHANGED sent

Progress ==
    \/ \E r \in Responses : CallApi(r)
    \/ ToolUseStart
    \/ EndOfStream
    \/ FinalAnswer
    \/ BeginDispatch
    \/ \E i \in 1..Len(response.tools) : CompleteTool(i)
    \/ CollectResults
    \/ ApiRejects

Next == StartTurn \/ Progress \/ Raise \/ Disconnect

\* The event loop resumes the generator whenever what it awaits is there, and
\* the API and every tool answer or time out.
Spec == Init /\ [][Next]_vars /\ WF_vars(Progress)

-----------------------------------------------------------------------------
\* Properties

\* The tools finish in any order, yet the message with their results has one for
\* every tool_use block of the message before it, in the order of the blocks.
ResultsMatch(msgs) ==
    \A i \in 1..Len(msgs) :
        msgs[i].results # <<>> => i > 1 /\ msgs[i].results = msgs[i - 1].uses

ResultsInBlockOrder == ResultsMatch(state.messages) /\ ResultsMatch(saved.messages)

\* A done event is the truth: the tools and results streamed to the client are
\* those of the turn's messages, and every call of the turn was answered.
TurnMessages(msgs) ==
    Max({i \in 1..Len(msgs) : msgs[i].role = "user" /\ msgs[i].text = "plain"})
        .. Len(msgs)

SentIds(type) == {sent[i].id : i \in {j \in 1..Len(sent) : sent[j].type = type}}

DoneTellsTruth ==
    LET msgs == state.messages
    IN  SentIds("done") # {} =>
          /\ SentIds("tool_use_start") = UNION {Ids(msgs[i].uses) : i \in TurnMessages(msgs)}
          /\ SentIds("tool_result") = UNION {Ids(msgs[i].results) : i \in TurnMessages(msgs)}
          /\ \A i \in TurnMessages(msgs) :
               msgs[i].stop = "tool_use" /\ msgs[i].uses # <<>> => AnsweredNext(msgs, i)

\* The client can keep up a list of running tools: a result comes once, and only
\* for a tool it was told about; done and error come last.
StreamIsWellFormed ==
    \A i \in 1..Len(sent) :
        /\ sent[i].type \in {"done", "error"} => i = Len(sent)
        /\ sent[i].type = "tool_result" =>
             /\ Sse("tool_use_start", sent[i].id) \in Ids(SubSeq(sent, 1, i - 1))
             /\ sent[i] \notin Ids(SubSeq(sent, 1, i - 1))

\* /trace never lacks what the conversation holds: each tool_use block has its
\* event, each tool_result block too, after the event of its call, wherever
\* the turn was cut off.
Traced(trace, type, id) == {i \in 1..Len(trace) : trace[i].type = type /\ trace[i].id = id}

TraceCovers(s) ==
    \A i \in 1..Len(s.messages) :
        /\ \A id \in Ids(s.messages[i].uses) : Traced(s.trace, "tool_use", id) # {}
        /\ \A id \in Ids(s.messages[i].results) :
             \E k \in Traced(s.trace, "tool_result", id), j \in Traced(s.trace, "tool_use", id) :
                j < k

TraceCoversMessages == TraceCovers(state) /\ TraceCovers(saved)

\* Every turn ends, by itself: a tool_use stop without a tool, a rejected message
\* list or a spent budget never leaves the client waiting.
TurnsEnd == pc # "idle" ~> pc = "idle"

\* "Resuming a conversation = pass these messages back to Anthropic on the next
\* call" (docs/agent-loop.md): what is saved is a list the API accepts.
SavedIsReplayable == ApiAccepts(saved.messages)
=============================================================================
