------------------------------ MODULE AgentLoop ------------------------------
(***************************************************************************)
(* run_turn of src/src/agent/orchestrator.py, called by POST /chat         *)
(* (src/src/api/routes.py) for one user turn after another of one session. *)
(*                                                                         *)
(* A turn loads the saved conversation, appends the user's message and     *)
(* alternates API calls and tool dispatch until an answer ends it, the     *)
(* iteration budget is spent, or something raises.  /chat saves the state  *)
(* after an answer and after AgentLoopExceeded, unless the store refuses;  *)
(* after any other exception it saves nothing.                             *)
(***************************************************************************)
EXTENDS Conversation, SequencesExt

CONSTANTS Responses,      \* the API responses considered
          MaxIterations,  \* settings.max_loop_iterations
          MaxTurns        \* bound on the turns of the session

ASSUME ResponsesAssumption == Responses \subseteq Response
ASSUME BoundsAssumption == MaxIterations \in Nat \ {0} /\ MaxTurns \in Nat

VARIABLES
    pc,         \* "idle", "calling" (awaits the API), "dispatching" (gather)
    state,      \* the ConversationState of the running turn
    saved,      \* the ConversationState in the store
    turns,      \* turns started
    turnStart,  \* trace_start_idx
    iteration,
    guardrailFired,
    reply       \* how the last turn ended: the text shipped, or which failure

loopVars == <<turns, turnStart, iteration, guardrailFired>>
vars == <<pc, state, saved, loopVars, reply>>

TypeOK ==
    /\ pc \in {"idle", "calling", "dispatching"}
    /\ state \in State
    /\ saved \in State
    /\ turns \in 0..MaxTurns
    /\ turnStart \in Nat
    /\ iteration \in 1..MaxIterations
    /\ guardrailFired \in BOOLEAN
    /\ reply \in Texts \cup {"exceeded", "failed"}

Init ==
    /\ pc = "idle"
    /\ state = NewState
    /\ saved = NewState
    /\ turns = 0
    /\ turnStart = 0
    /\ iteration = 1
    /\ guardrailFired = FALSE
    /\ reply = "none"

-----------------------------------------------------------------------------

\* Mutant: the turn starts from a fresh ConversationState.
StartTurnMutantForgets ==
    /\ pc = "idle"
    /\ turns < MaxTurns
    /\ turns' = turns + 1
    /\ turnStart' = 0
    /\ state' = WithUserMessage(NewState)
    /\ iteration' = 1
    /\ guardrailFired' = FALSE
    /\ reply' = "none"
    /\ pc' = "calling"
    /\ UNCHANGED saved

StartTurn ==
    /\ pc = "idle"
    /\ turns < MaxTurns
    /\ turns' = turns + 1
    /\ turnStart' = Len(saved.trace)
    /\ state' = WithUserMessage(saved)
    /\ iteration' = 1
    /\ guardrailFired' = FALSE
    /\ reply' = "none"
    /\ pc' = "calling"
    /\ UNCHANGED saved

\* The assistant message appended verbatim; content [] becomes a blank text.
ContentText(r) == IF r.text = "none" /\ r.tools = <<>> THEN "blank" ELSE r.text

TextEvents(r) ==
    IF r.text = "none" THEN <<>> ELSE <<PlainEvent("assistant_text")>>

\* Mutant: tool calls are traced only when they are about to be dispatched.
WithResponseMutantUntraced(s, r) ==
    Record(Say(s, AssistantMessage(r, ContentText(r), UseIds(s, r))),
           TextEvents(r) \o IF r.stop = "tool_use" THEN UseEvents(s, r) ELSE <<>>)

WithResponse(s, r) ==
    Record(Say(s, AssistantMessage(r, ContentText(r), UseIds(s, r))),
           TextEvents(r) \o UseEvents(s, r))

\* The caller saves the state, or the store refuses it (409).
SaveOrConflict(s) == saved' = s \/ UNCHANGED saved

EndTurn(s, how) ==
    /\ state' = s
    /\ reply' = how
    /\ pc' = "idle"
    /\ SaveOrConflict(s)
    /\ UNCHANGED loopVars

\* The end of one pass of the loop body: the next one, or AgentLoopExceeded.
NextIteration(s) ==
    IF iteration < MaxIterations
    THEN /\ state' = s
         /\ iteration' = iteration + 1
         /\ pc' = "calling"
         /\ UNCHANGED <<saved, turns, turnStart, reply>>
    ELSE /\ state' = s
         /\ reply' = "exceeded"
         /\ pc' = "idle"
         /\ SaveOrConflict(s)
         /\ UNCHANGED <<turns, turnStart, iteration>>

\* Mutant: a critique of an earlier turn satisfies the guardrail.
MustNudgeMutantUnscoped(r) ==
    /\ ~ guardrailFired
    /\ LooksLikePlan(r.text)
    /\ ~ CritiqueCalled(WithResponse(state, r).trace, 0)

\* The guardrail objects, once a turn, to a plan no critique was called for.
MustNudge(r) ==
    /\ ~ guardrailFired
    /\ LooksLikePlan(r.text)
    /\ ~ CritiqueCalled(WithResponse(state, r).trace, turnStart)

Answered(r) ==
    /\ pc = "calling"
    /\ ApiAccepts(state.messages)
    /\ r \in Responses

FinalAnswer(r) ==
    /\ Answered(r)
    /\ r.stop # "tool_use"
    /\ ~ MustNudge(r)
    /\ EndTurn([Record(WithResponse(state, r), <<PlainEvent("stop")>>)
                  EXCEPT !.total_turns = @ + 1],
               r.text)

Nudge(r) ==
    /\ Answered(r)
    /\ r.stop # "tool_use"
    /\ MustNudge(r)
    /\ guardrailFired' = TRUE
    /\ NextIteration(Say(Record(WithResponse(state, r), <<GuardrailEvent>>),
                         UserMessage("nudge")))

BeginDispatch(r) ==
    /\ Answered(r)
    /\ r.stop = "tool_use"
    /\ r.tools # <<>>
    /\ state' = WithResponse(state, r)
    /\ pc' = "dispatching"
    /\ UNCHANGED <<saved, loopVars, reply>>

\* stop_reason "tool_use" without a tool_use block: break, AgentLoopExceeded.
EmptyToolUse(r) ==
    /\ Answered(r)
    /\ r.stop = "tool_use"
    /\ r.tools = <<>>
    /\ EndTurn(WithResponse(state, r), "exceeded")

\* Mutant: the results in the order the tools finished.
CollectResultsMutantReordered ==
    LET ids == Reverse(state.messages[Len(state.messages)].uses)
    IN  /\ pc = "dispatching"
        /\ UNCHANGED guardrailFired
        /\ NextIteration(Say(Record(state, ResultEvents(ids)), ResultMessage(ids)))

\* asyncio.gather has every result; dispatch turns errors into results, so
\* there is one for each block, in the order of the blocks.
CollectResults ==
    LET ids == state.messages[Len(state.messages)].uses
    IN  /\ pc = "dispatching"
        /\ UNCHANGED guardrailFired
        /\ NextIteration(Say(Record(state, ResultEvents(ids)), ResultMessage(ids)))

\* Mutant: the state is saved on the way out, whatever raised.
TurnFailsMutantSaves ==
    /\ pc # "idle"
    /\ reply' = "failed"
    /\ pc' = "idle"
    /\ SaveOrConflict(state)
    /\ UNCHANGED <<state, loopVars>>

\* The API raises (it rejects the messages, a rate limit, a network error) or
\* the process dies: 500 and nothing is saved.
TurnFails ==
    /\ pc # "idle"
    /\ reply' = "failed"
    /\ pc' = "idle"
    /\ UNCHANGED <<state, saved, loopVars>>

Next ==
    \/ StartTurn
    \/ \E r \in Responses :
         FinalAnswer(r) \/ Nudge(r) \/ BeginDispatch(r) \/ EmptyToolUse(r)
    \/ CollectResults
    \/ TurnFails

Spec == Init /\ [][Next]_vars

-----------------------------------------------------------------------------
\* Properties

\* Every tool call the loop was asked for is answered at once: the message after
\* it carries one result for each block, in the order of the blocks.  In the
\* store none is left open, whatever failed or was refused in between.
CallsAnswered(msgs) ==
    \A i \in 1..Len(msgs) :
        msgs[i].stop = "tool_use" /\ msgs[i].uses # <<>> =>
            i < Len(msgs) /\ msgs[i + 1].results = msgs[i].uses

ToolCallsAnswered ==
    /\ CallsAnswered(saved.messages)
    /\ pc = "calling" => CallsAnswered(state.messages)

\* A plan is shipped only if critique_trip_plan was called in the same turn, or
\* the model was told to call it, exactly once, and shipped the plan anyway.
Nudges ==
    {i \in turnStart + 1..Len(state.trace) : state.trace[i] = GuardrailEvent}

GuardrailEnforced ==
    reply = "plan" /\ ~ CritiqueCalled(state.trace, turnStart) =>
        Cardinality(Nudges) = 1

\* /trace is the receipt of the conversation: its tool_use events (but for the
\* guardrail's) and tool_result events are the blocks of the messages, and the
\* results come in their order.
EventIds(trace, type) ==
    {trace[i].id : i \in {j \in 1..Len(trace) :
                             trace[j].type = type /\ trace[j] # GuardrailEvent}}

Before(a, b) == a[1] < b[1] \/ (a[1] = b[1] /\ a[2] < b[2])

TraceTellsMessages(s) ==
    /\ EventIds(s.trace, "tool_use") =
         UNION {Ids(s.messages[i].uses) : i \in 1..Len(s.messages)}
    /\ EventIds(s.trace, "tool_result") =
         UNION {Ids(s.messages[i].results) : i \in 1..Len(s.messages)}
    /\ \A i, j \in 1..Len(s.trace) :
         i < j /\ s.trace[i].type = "tool_result" /\ s.trace[j].type = "tool_result"
            => Before(s.trace[i].id, s.trace[j].id)

TraceIsReceipt == TraceTellsMessages(saved) /\ TraceTellsMessages(state)

\* A turn that raised or was refused leaves no question behind: in the store
\* every user message that asks something is followed by an assistant message.
QuestionsHaveAnswers ==
    \A i \in 1..Len(saved.messages) :
        saved.messages[i].text = "plain" /\ saved.messages[i].role = "user" =>
            i < Len(saved.messages) /\ saved.messages[i + 1].role = "assistant"

\* What the store holds of a conversation is only ever extended.
HistoryGrows ==
    [][IsPrefix(saved.messages, saved'.messages) /\ IsPrefix(saved.trace, saved'.trace)]_saved
=============================================================================
